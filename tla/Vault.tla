------------------------------- MODULE Vault -------------------------------
(***************************************************************************)
(* The credential vault (internal/vault) and its REST routes: credentials  *)
(* with a host and path pattern, the access list of each, and the calls    *)
(* that resolve one for an actor.  Every operation is a few SQL statements *)
(* with nothing between them, so requests interleave; boot hydrates one    *)
(* well-known credential from the environment before the routes serve.     *)
(***************************************************************************)
EXTENDS Naturals, FiniteSets

CONSTANTS
  VaultCalls,   \* requests and pack calls
  Actors,       \* subject and client of a caller
  CredNames,    \* numbered in the order SQLite sorts them, from 1
  EnvName,      \* the name of the hydrated credential
  Scores,       \* how specific patterns are for the one URL asked for, 0: no match
  MaxCreds,     \* bound: ids are numbered in the order of creation
  MaxStored,    \* bound: secrets, numbered from 1
  MaxCrashes    \* bound

ASSUME VaultAssumption ==
  /\ CredNames \subseteq Nat \ {0} /\ EnvName \in CredNames
  /\ Scores \subseteq Nat
  /\ MaxCreds \in Nat /\ MaxStored \in Nat /\ MaxCrashes \in Nat

VARIABLES
  creds,    \* credentials; name 0: no row
  acl,      \* credential_acl: who may read each, "*" is everybody
  made,     \* ids given out
  stored,   \* secrets stored or put into the environment
  env,      \* the secret in the environment, 0: not set
  boot,     \* "hydrate", "grant" or "serving"
  crashes,
  ask       \* where each call is

vaultVars == <<creds, acl, made, stored, env, boot, crashes, ask>>

-----------------------------------------------------------------------------
CredIds == 1..MaxCreds
Grantees == Actors \cup {"*"}
Sources == {"env", "user"}

\* source: metadata.source, which a rotation keeps.  by: history, who put the
\* secret there.
NoCred == [name |-> 0, score |-> 0, secret |-> 0, source |-> "user", by |-> "user"]
Held(j) == creds[j].name # 0
CredOf(n) == {j \in CredIds : Held(j) /\ creds[j].name = n}

\* listed: the rows as the call listed them, left: the candidates among them it
\* has not tried.  always, ever: history, the credentials the call could have
\* read throughout and at some moment.
Listed(table) == [j \in CredIds |-> [name |-> table[j].name, score |-> table[j].score]]
NoAsk == [at |-> "none", actor |-> "*", wanted |-> 0, left |-> {}, id |-> 0, secret |-> 0,
          listed |-> Listed([j \in CredIds |-> NoCred]), always |-> {}, ever |-> {},
          result |-> "none", logged |-> FALSE]
Asking(c) == ask[c].at \in {"look", "fetch"}

\* aclAllows.
Allows(list, a) == list \cap {a, "*"} # {}

\* The credentials call k is about: those of a name, or those that match.
About(table, k) ==
  {j \in CredIds : /\ table[j].name # 0
                   /\ IF k.wanted = 0 THEN table[j].score > 0 ELSE table[j].name = k.wanted}
Readable(table, lists, k) == {j \in About(table, k) : Allows(lists[j], k.actor)}

\* The tables change; the calls under way can read what they can read now.
Write(table, lists, asks) ==
  /\ creds' = table /\ acl' = lists
  /\ ask' = [c \in VaultCalls |->
       LET k == asks[c] IN
       IF k.at \in {"look", "fetch"}
         THEN [k EXCEPT !.always = @ \cap Readable(table, lists, k),
                        !.ever = @ \cup Readable(table, lists, k)]
         ELSE k]
Turn(c, k) == ask' = [ask EXCEPT ![c] = k] /\ UNCHANGED <<creds, acl>>
Rest == UNCHANGED <<made, stored, env, boot, crashes>>

\* A database as earlier lives left it.
VaultInit ==
  /\ made \in 0..MaxCreds
  /\ \E n \in [1..made -> CredNames], s \in [1..made -> Scores], e \in [1..made -> Sources],
        g \in [1..made -> SUBSET Grantees] :
       /\ \A i, j \in 1..made : n[i] = n[j] => i = j
       /\ \A j \in 1..made : e[j] = "env" => n[j] = EnvName
       /\ creds = [j \in CredIds |-> IF j > made THEN NoCred ELSE
                     [name |-> n[j], score |-> s[j], secret |-> j, source |-> e[j], by |-> e[j]]]
       /\ acl = [j \in CredIds |-> IF j > made THEN {} ELSE g[j]]
  /\ env \in {0, made + 1} /\ stored = made + 1
  /\ boot = "hydrate" /\ crashes = 0
  /\ ask = [c \in VaultCalls |-> NoAsk]

-----------------------------------------------------------------------------
\* The row of a name is overwritten, or made: whether it was is what hydration
\* goes by.
UpsertByName(row, new) ==
  \/ /\ \E j \in CredOf(row.name) : creds' = [creds EXCEPT ![j] = row]
     /\ ~new /\ UNCHANGED made
  \/ /\ CredOf(row.name) = {} /\ made < MaxCreds
     /\ made' = made + 1 /\ creds' = [creds EXCEPT ![made'] = row]
     /\ new

\* Boot.  An operator's entry is left alone, a hydrated one gets the secret of
\* the environment, a new one a grant for everybody - in a statement of its own.
HydrateFromEnv(score) ==
  LET kept == env = 0 \/ \E j \in CredOf(EnvName) : creds[j].source = "user"
      row == [name |-> EnvName, score |-> score, secret |-> env, source |-> "env", by |-> "env"]
  IN
  /\ boot = "hydrate"
  /\ \/ kept /\ boot' = "serving" /\ UNCHANGED <<creds, made>>
     \/ \E new \in BOOLEAN :
          /\ ~kept /\ UpsertByName(row, new)
          /\ boot' = IF new THEN "grant" ELSE "serving"
  /\ UNCHANGED <<acl, ask, stored, env, crashes>>

GrantHydrated ==
  /\ boot = "grant" /\ boot' = "serving"
  /\ \E j \in CredOf(EnvName) : acl' = [acl EXCEPT ![j] = @ \cup {"*"}]
  /\ UNCHANGED <<creds, made, stored, env, crashes, ask>>

\* Calls under way are lost; the environment may differ at the next start.
Crash ==
  /\ crashes < MaxCrashes /\ crashes' = crashes + 1
  /\ boot' = "hydrate"
  /\ ask' = [c \in VaultCalls |-> IF ask[c].at = "none" THEN NoAsk ELSE [NoAsk EXCEPT !.at = "over"]]
  /\ \/ UNCHANGED <<env, stored>>
     \/ stored < MaxStored /\ stored' = stored + 1 /\ env' = stored'
  /\ UNCHANGED <<creds, acl, made>>

-----------------------------------------------------------------------------
\* The routes that change the vault.  A refused request changes nothing.
Begins(c) == boot = "serving" /\ ask[c].at = "none"
Ended(k, result) == [k EXCEPT !.at = "over", !.result = result]

Refuse(c) == Begins(c) /\ Turn(c, Ended(NoAsk, "refused")) /\ Rest

\* POST: the row, then the grant for everybody whose failure is not looked at.
Create(c, n, score) ==
  /\ Begins(c) /\ CredOf(n) = {}
  /\ made < MaxCreds /\ made' = made + 1
  /\ stored < MaxStored /\ stored' = stored + 1
  /\ Write([creds EXCEPT ![made'] = [name |-> n, score |-> score, secret |-> stored',
                                     source |-> "user", by |-> "user"]],
           acl, [ask EXCEPT ![c] = [NoAsk EXCEPT !.at = "insert", !.actor = "*", !.id = made']])
  /\ UNCHANGED <<env, boot, crashes>>

\* Grant reads the row first, ...
ReadForGrant(c, j, g) ==
  /\ Begins(c) /\ Held(j)
  /\ Turn(c, [NoAsk EXCEPT !.at = "insert", !.actor = g, !.id = j])
  /\ Rest

\* ... and inserts: the foreign key fails when the row has gone.
InsertGrant(c) ==
  LET j == ask[c].id IN
  /\ ask[c].at = "insert"
  /\ \/ /\ Held(j)
        /\ Write(creds, [acl EXCEPT ![j] = @ \cup {ask[c].actor}], [ask EXCEPT ![c] = Ended(@, "granted")])
     \/ Turn(c, Ended(ask[c], "failed"))
  /\ Rest

Revoke(c, j, g) ==
  /\ Begins(c)
  /\ Write(creds, [acl EXCEPT ![j] = @ \ {g}], [ask EXCEPT ![c] = Ended(NoAsk, "revoked")])
  /\ Rest

ReadForRotate(c, j) ==
  /\ Begins(c) /\ Held(j)
  /\ Turn(c, [NoAsk EXCEPT !.at = "rotate", !.id = j])
  /\ Rest

\* A row that has gone is rotated in vain, and the caller told it was rotated.
Rotate(c) ==
  LET j == ask[c].id IN
  /\ ask[c].at = "rotate" /\ stored < MaxStored /\ stored' = stored + 1
  /\ Write(IF Held(j) THEN [creds EXCEPT ![j].secret = stored', ![j].by = "user"] ELSE creds, acl,
           [ask EXCEPT ![c] = Ended([@ EXCEPT !.secret = stored'], "rotated")])
  /\ UNCHANGED <<made, env, boot, crashes>>

\* DELETE: first the grants, ...
DeleteGrants(c, j) ==
  /\ Begins(c)
  /\ Write(creds, [acl EXCEPT ![j] = {}], [ask EXCEPT ![c] = [NoAsk EXCEPT !.at = "erase", !.id = j]])
  /\ Rest

\* ... then the row, and by the foreign key what was granted in between.
DeleteCred(c) ==
  LET j == ask[c].id IN
  /\ ask[c].at = "erase"
  /\ Write([creds EXCEPT ![j] = NoCred], [acl EXCEPT ![j] = {}],
           [ask EXCEPT ![c] = Ended(@, IF Held(j) THEN "deleted" ELSE "unknown")])
  /\ Rest

-----------------------------------------------------------------------------
\* matchCandidates: the most specific first.  The sort is stable, and the rows
\* came ordered by name, which no two have in common.
Precedes(rows, i, j) ==
  \/ rows[i].score > rows[j].score
  \/ rows[i].score = rows[j].score /\ rows[i].name < rows[j].name
\* The least specific first.
LastMatch(rows, S) == CHOOSE i \in S : \A j \in S \ {i} : Precedes(rows, j, i)
FirstMatch(rows, S) == CHOOSE i \in S : \A j \in S \ {i} : Precedes(rows, i, j)

\* The usage log is written with the call's own context, its failure ignored.
Logged(c, k, result) ==
  \E logged \in BOOLEAN : Turn(c, [Ended(k, result) EXCEPT !.logged = logged])

\* List, or GetByName when the caller gives a name.
Look(c, a, n) ==
  LET k == [NoAsk EXCEPT !.at = "look", !.actor = a, !.wanted = n]
      hits == About(creds, k)
      now == Readable(creds, acl, k)
  IN
  IF hits = {} THEN Logged(c, k, "no_match")
  ELSE Turn(c, [k EXCEPT !.left = hits, !.always = now, !.ever = now, !.listed = Listed(creds)])
Resolve(c, a) == Begins(c) /\ Look(c, a, 0) /\ Rest
ResolveByName(c, a, n) == Begins(c) /\ Look(c, a, n) /\ Rest

\* The first candidate its actor may read is taken.
CheckAcl(c) ==
  LET k == ask[c]
      j == FirstMatch(k.listed, k.left)
  IN
  /\ k.at = "look"
  /\ IF Allows(acl[j], k.actor) THEN Turn(c, [k EXCEPT !.at = "fetch", !.id = j])
     ELSE IF k.left = {j} THEN Logged(c, k, "denied")
     ELSE Turn(c, [k EXCEPT !.left = @ \ {j}])
  /\ Rest

\* Once it is taken there is no way back to the others, even if it has gone.
FetchCipher(c) ==
  LET k == ask[c] IN
  /\ k.at = "fetch"
  /\ IF Held(k.id) THEN Logged(c, [k EXCEPT !.secret = creds[k.id].secret], "allowed")
     ELSE Turn(c, Ended(k, "gone"))
  /\ Rest

\* The caller's context ends, or a statement fails.
SqlFails(c) == Asking(c) /\ Turn(c, Ended(ask[c], "failed")) /\ Rest

VaultNext ==
  \/ \E score \in Scores : HydrateFromEnv(score)
  \/ GrantHydrated \/ Crash
  \/ \E c \in VaultCalls :
       \/ Refuse(c) \/ InsertGrant(c) \/ Rotate(c) \/ DeleteCred(c)
       \/ \E n \in CredNames, score \in Scores : Create(c, n, score)
       \/ \E j \in 1..made :
            \/ ReadForRotate(c, j) \/ DeleteGrants(c, j)
            \/ \E g \in Grantees : ReadForGrant(c, j, g) \/ Revoke(c, j, g)
       \/ \E a \in Actors : Resolve(c, a) \/ \E n \in CredNames : ResolveByName(c, a, n)
       \/ CheckAcl(c) \/ FetchCipher(c) \/ SqlFails(c)

VaultSpec == VaultInit /\ [][VaultNext]_vaultVars

-----------------------------------------------------------------------------
\* Whatever is granted, revoked, rotated and deleted meanwhile: a secret is of
\* a credential its caller could read at some moment of the call, no more
\* specific one could be read throughout, and a caller who is denied, or told
\* there is no match, could read none throughout.  (vault.go:535-573)
SecretsAreDue ==
  \A c \in VaultCalls :
    LET k == ask[c] IN
    /\ k.result = "allowed" => /\ k.id \in k.ever
                               /\ \A j \in k.always : k.listed[j].score <= k.listed[k.id].score
    /\ k.result \in {"denied", "no_match"} => k.always = {}

\* "Ties are broken by credential creation order (oldest first)"
\* (vault.go:532-534).  TLC refutes it: by name.
OldestIsFirst ==
  \A c \in VaultCalls :
    LET k == ask[c] IN
    k.result = "allowed" => \A j \in k.always :
      k.listed[j].score = k.listed[k.id].score => k.id <= j

\* "every Resolve call writes one row to credential_usage_log" (vault.go:26).
\* Refuted: not when it fails, nor when the row cannot be written.
EveryResolveIsLogged ==
  \A c \in VaultCalls : ask[c].result \in {"allowed", "denied", "no_match", "gone"} => ask[c].logged

\* "never clobber a user-managed entry" (hydrate.go:18-20).  Refuted: a hydrated
\* credential an operator rotates gets the environment's secret at the next boot.
RotationsStay ==
  [][\A j \in CredIds : boot = "hydrate" /\ creds[j].by = "user" => creds'[j].secret = creds[j].secret]_vaultVars
=============================================================================
