----------------------------- MODULE SecretsInv -----------------------------
(***************************************************************************)
(* The inductive invariants of the gateway and of the vault.               *)
(***************************************************************************)
EXTENDS Gateway, Vault

-----------------------------------------------------------------------------
(* Gateway: keys *)

KeyRows == {NoKey} \cup [provider : Providers, born : 1..secrets, secret : 1..secrets]
KeyTurns == [at : {"none", "list", "decrypt", "register", "over"}, listed : [KeyIds -> KeyRows],
             left : SUBSET Providers, secret : Nat, alone : BOOLEAN]
KeyTypeOK ==
  /\ secrets \in Nat /\ keys \in [KeyIds -> KeyRows] /\ live \in [Providers -> Nat]
  /\ change \in [KeyRequests -> KeyTurns]
  /\ hydrated \in BOOLEAN

\* Live(p): the registry has the newest secret of p.
Live(p) == live[p] = keys[NewestKey(keys, p)].secret

\* A key request has listed keys of the providers it has left; one that is alone
\* has listed what is there, and made the providers it has done.
RequestInv ==
  \A q \in KeyRequests :
    LET k == change[q] IN
    /\ k.at \in {"decrypt", "register"} => k.left # {} /\ k.left \subseteq HasKey(k.listed)
    /\ k.alone /\ q \in Changing =>
         /\ Changing = {q}
         /\ k.at \in {"decrypt", "register"} =>
              k.listed = keys /\ \A p \in HasKey(keys) \ k.left : Live(p)
         /\ k.at = "register" => /\ k.secret # 0
                                 /\ k.secret = keys[NewestKey(keys, Least(k.left))].secret

KeyInv == KeyTypeOK /\ RequestInv /\ (hydrated => Changing = {}) /\ KeysAreLive

-----------------------------------------------------------------------------
(* Gateway: chat calls *)

Entered == [i : DOMAIN Candidates, answer : Answers, secret : Nat]
ChatPlaces == {"none", "refused", "next", "ask", "backoff", "row", "over"}
Calls == [at : ChatPlaces, i : Nat, tries : Nat, secret : Nat,
          last : Answers \cup {"none", "gone", "deadline"}, ctx : {"live", "gone", "deadline"},
          log : Seq(Entered), rows : Nat]
Open == {"next", "ask", "backoff", "row"}

AskedAt(k, i) == {j \in DOMAIN k.log : k.log[j].i = i}
Reached(k) == {k.log[j].i : j \in DOMAIN k.log}

\* What the log of a call says of the asks so far, ...
LogInv(k) ==
  /\ \A i \in DOMAIN Candidates : Cardinality(AskedAt(k, i)) <= MaxAttempts
  /\ \A j \in DOMAIN k.log \ {1} :
       IF k.log[j].i = k.log[j - 1].i
         THEN k.log[j - 1].answer \in Transient /\ k.log[j].secret = k.log[j - 1].secret
         ELSE /\ rule.chained /\ k.log[j].i > k.log[j - 1].i
              /\ k.log[j - 1].answer # "ok"
              /\ rule.triggers = {} \/ Trigger(k.log[j - 1].answer) \in rule.triggers
  /\ k.rows <= Cardinality(Reached(k))
\* ... and what the candidate that is asked now has of it.
NowInv(k) ==
  LET n == Len(k.log) IN
  k.at \in Open =>
    /\ k.i \in DOMAIN Candidates
    /\ \A j \in DOMAIN k.log : k.log[j].i <= k.i /\ (k.at = "next" => k.log[j].i # k.i)
    /\ k.at \in {"ask", "backoff"} =>
         /\ k.tries < MaxAttempts /\ Cardinality(AskedAt(k, k.i)) <= k.tries
         /\ n # 0 /\ k.log[n].i = k.i => k.log[n].answer \in Transient /\ k.log[n].secret = k.secret
    /\ k.at = "row" /\ k.ctx = "live" => n # 0 /\ k.log[n].i = k.i /\ k.log[n].answer = k.last
    /\ k.ctx = "live" /\ n # 0 /\ k.log[n].i # k.i =>
         /\ rule.chained /\ k.log[n].answer # "ok"
         /\ rule.triggers = {} \/ Trigger(k.log[n].answer) \in rule.triggers
    /\ k.rows <= Cardinality(Reached(k) \ {k.i})
ChatInv ==
  /\ chat \in [Chats -> Calls]
  /\ \A c \in Chats : LogInv(chat[c]) /\ NowInv(chat[c]) /\ (chat[c].at = "none" => chat[c] = NoChat)

GatewayInv == KeyInv /\ ChatInv

-----------------------------------------------------------------------------
(* Vault *)

CredRows == [name : CredNames \cup {0}, score : Scores \cup {0}, secret : Nat, source : Sources, by : Sources]
Results == {"none", "refused", "granted", "failed", "revoked", "rotated", "deleted",
            "unknown", "no_match", "denied", "allowed", "gone"}
Asks == [at : {"none", "look", "fetch", "insert", "rotate", "erase", "over"}, actor : Grantees,
         wanted : CredNames \cup {0}, left : SUBSET CredIds, id : 0..MaxCreds, secret : Nat,
         listed : [CredIds -> [name : CredNames \cup {0}, score : Scores \cup {0}]],
         always : SUBSET CredIds, ever : SUBSET CredIds,
         result : Results, logged : BOOLEAN]
VaultTypeOK ==
  /\ made \in 0..MaxCreds /\ stored \in Nat /\ env \in Nat
  /\ creds \in [CredIds -> CredRows] /\ acl \in [CredIds -> SUBSET Grantees]
  /\ boot \in {"hydrate", "grant", "serving"}
  /\ ask \in [VaultCalls -> Asks]

\* Ids are not used again, names are of one row, and what is gone has no grant.
RowInv ==
  /\ \A j \in CredIds : /\ Held(j) => j <= made
                        /\ ~Held(j) => acl[j] = {}
  /\ \A i, j \in CredIds : Held(i) /\ Held(j) /\ creds[i].name = creds[j].name => i = j

\* While a call asks, rows keep the name and the patterns they were listed with;
\* what it could read throughout is still to be tried, or less specific.
AskOK(k) ==
  /\ k.at # "over" => k.result = "none"
  /\ k.result = "allowed" => /\ k.id \in k.ever
                             /\ \A j \in k.always : k.listed[j].score <= k.listed[k.id].score
  /\ k.result \in {"denied", "no_match"} => k.always = {}
  /\ k.at \in {"look", "fetch"} =>
       /\ boot = "serving"
       /\ k.always \subseteq Readable(creds, acl, k) /\ Readable(creds, acl, k) \subseteq k.ever
  /\ k.at = "look" =>
       /\ k.left # {} /\ k.always \subseteq k.left
       /\ \A i \in k.left :
            /\ i <= made /\ k.listed[i].name # 0
            /\ IF k.wanted = 0 THEN k.listed[i].score > 0 ELSE k.listed[i].name = k.wanted
            /\ Held(i) => creds[i].name = k.listed[i].name /\ creds[i].score = k.listed[i].score
            /\ \A j \in k.left : k.listed[i].name = k.listed[j].name => i = j
  /\ k.at = "fetch" =>
       /\ k.id \in k.ever
       /\ \A j \in k.always : k.listed[j].score <= k.listed[k.id].score

VaultInv == VaultTypeOK /\ RowInv /\ \A c \in VaultCalls : AskOK(ask[c])
=============================================================================
