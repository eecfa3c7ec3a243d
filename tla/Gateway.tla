------------------------------ MODULE Gateway ------------------------------
(****************************************************************************)
(* The AI gateway (internal/gateway) and the provider keys it is built from *)
(* (internal/keystore).  A chat call asks a provider, repeats what may pass *)
(* and, when a fallback rule is installed, goes on to the next candidate;   *)
(* requests that change a key make the registry anew afterwards.            *)
(****************************************************************************)
EXTENDS Naturals, Sequences, FiniteSets

CONSTANTS
  Chats,        \* chat completions
  KeyRequests,  \* POST, rotate and DELETE of provider keys
  KeyIds,
  Candidates,   \* the primary's provider and the fallbacks', a sequence of numbers
  RuleSets,     \* the trigger lists a rule may have
  MaxAttempts,  \* RetryPolicy.MaxAttempts
  MaxSecrets    \* bound: secrets are numbered in the order they are stored, 0 is none

ASSUME GatewayAssumption ==
  /\ MaxAttempts \in Nat \ {0} /\ MaxSecrets \in Nat /\ IsFiniteSet(KeyIds)
  /\ Candidates \in Seq(Nat \ {0}) /\ Candidates # <<>>

Providers == {Candidates[i] : i \in DOMAIN Candidates}

VARIABLES
  keys,      \* provider_keys; provider 0: no row.  born: the secret it was created with
  secrets,   \* secrets stored so far
  live,      \* Registry.providers: the secret each adapter was built with, 0 for none
  change,    \* where each key request is
  hydrated,  \* history: the last key request ran alone and registered all it read
  rule,      \* the chain's rule for the primary
  chat       \* where each chat call is

gatewayVars == <<keys, secrets, live, change, hydrated, rule, chat>>

-----------------------------------------------------------------------------
NoKey == [provider |-> 0, born |-> 0, secret |-> 0]
Least(S) == CHOOSE x \in S : \A y \in S : x <= y

\* The newest record of a provider: by created_at, which a rotation keeps.
KeysOf(table, p) == {k \in KeyIds : table[k].provider = p}
NewestKey(table, p) ==
  CHOOSE k \in KeysOf(table, p) : \A j \in KeysOf(table, p) : table[j].born <= table[k].born
HasKey(table) == {p \in Providers : KeysOf(table, p) # {}}

NoChange == [at |-> "none", listed |-> [k \in KeyIds |-> NoKey], left |-> {}, secret |-> 0,
             alone |-> FALSE]
NoChat == [at |-> "none", i |-> 0, tries |-> 0, secret |-> 0, last |-> "none",
           ctx |-> "live", log |-> <<>>, rows |-> 0]

\* Boot hydrates the registry from the keys that are there.
GatewayInit ==
  /\ secrets = Cardinality(KeyIds)
  /\ \E f \in [KeyIds -> 1..secrets], p \in [KeyIds -> Providers \cup {0}] :
       /\ \A j, k \in KeyIds : f[j] = f[k] => j = k
       /\ keys = [k \in KeyIds |-> IF p[k] = 0 THEN NoKey
                                   ELSE [provider |-> p[k], born |-> f[k], secret |-> f[k]]]
  /\ live = [p \in Providers |-> IF p \in HasKey(keys) THEN keys[NewestKey(keys, p)].secret ELSE 0]
  /\ change = [q \in KeyRequests |-> NoChange] /\ hydrated = TRUE
  /\ rule \in [chained : {TRUE}, triggers : RuleSets] \cup [chained : {FALSE}, triggers : {{}}]
  /\ chat = [c \in Chats |-> NoChat]

-----------------------------------------------------------------------------
\* Key requests.  The statement commits before the registry is made anew.
Changing == {q \in KeyRequests : change[q].at \notin {"none", "over"}}
Changed(q, table) ==
  /\ change[q].at = "none"
  /\ keys' = table
  /\ change' = [d \in KeyRequests |->
       IF d = q THEN [NoChange EXCEPT !.at = "list", !.alone = Changing = {}]
       ELSE [change[d] EXCEPT !.alone = FALSE]]
  /\ hydrated' = FALSE
  /\ UNCHANGED <<live, rule, chat>>

CreateKey(q, k, p) ==
  /\ keys[k] = NoKey /\ secrets < MaxSecrets /\ secrets' = secrets + 1
  /\ Changed(q, [keys EXCEPT ![k] = [provider |-> p, born |-> secrets', secret |-> secrets']])

RotateKey(q, k) ==
  /\ keys[k] # NoKey /\ secrets < MaxSecrets /\ secrets' = secrets + 1
  /\ Changed(q, [keys EXCEPT ![k].secret = secrets'])

DeleteKey(q, k) ==
  /\ keys[k] # NoKey /\ secrets' = secrets
  /\ Changed(q, [keys EXCEPT ![k] = NoKey])

\* HydrateFromKeystore: list, then provider by provider decrypt and register.
ListKeys(q) ==
  /\ change[q].at = "list"
  /\ change' = [change EXCEPT ![q].at = IF HasKey(keys) = {} THEN "over" ELSE "decrypt",
                              ![q].listed = keys, ![q].left = HasKey(keys)]
  /\ hydrated' = (HasKey(keys) = {} /\ change[q].alone)
  /\ UNCHANGED <<keys, secrets, live, rule, chat>>

\* Decrypt reads the secret the row has by now; a row that is gone, or cannot
\* be decrypted, leaves the provider as it is.
Decrypt(q) ==
  LET k == NewestKey(change[q].listed, Least(change[q].left)) IN
  /\ change[q].at = "decrypt"
  /\ \/ keys[k] # NoKey
        /\ change' = [change EXCEPT ![q].at = "register", ![q].secret = keys[k].secret]
     \/ change' = [change EXCEPT ![q].at = "register", ![q].secret = 0, ![q].alone = FALSE]
  /\ UNCHANGED <<keys, secrets, live, hydrated, rule, chat>>

\* Register replaces the adapter of that name; none is ever taken away.
RegisterProvider(q) ==
  LET p == Least(change[q].left) IN
  /\ change[q].at = "register"
  /\ live' = IF change[q].secret = 0 THEN live ELSE [live EXCEPT ![p] = change[q].secret]
  /\ change' = [change EXCEPT ![q].left = @ \ {p},
                              ![q].at = IF change[q].left = {p} THEN "over" ELSE "decrypt"]
  /\ hydrated' = (change[q].left = {p} /\ change[q].alone)
  /\ UNCHANGED <<keys, secrets, rule, chat>>

-----------------------------------------------------------------------------
\* Chat calls.  What a provider may answer: 2xx; 429; 504, or nothing until the
\* client or its dialer gives up; another 5xx or a broken connection; 408; and
\* another status, or a 2xx that does not decode.
Answers == {"ok", "busy", "late", "down", "slow", "refused"}
Transient == {"busy", "late", "down"}

\* classifyError: what the client's own timeouts return is a DeadlineExceeded.
Trigger(last) ==
  CASE last = "busy" -> "rate_limit"
    [] last \in {"late", "slow", "deadline"} -> "timeout"
    [] OTHER -> "error"

To(c, k) == /\ chat' = [chat EXCEPT ![c] = k]
            /\ UNCHANGED <<keys, secrets, live, change, hydrated, rule>>

\* Bad JSON, a stream or no messages are refused; the model is well formed.
Submit(c) ==
  /\ chat[c].at = "none"
  /\ \/ To(c, [chat[c] EXCEPT !.at = "refused"])
     \/ To(c, [chat[c] EXCEPT !.at = "next", !.i = 1])

\* The caller hangs up, or its deadline passes.
CtxEnds(c, why) ==
  /\ chat[c].at \notin {"none", "refused", "over"} /\ chat[c].ctx = "live"
  /\ To(c, [chat[c] EXCEPT !.ctx = why])

\* An error goes on to the next candidate when a trigger of the rule matches;
\* an empty list matches all.
GoesOn(c, last) ==
  /\ rule.chained /\ chat[c].i < Len(Candidates)
  /\ rule.triggers = {} \/ Trigger(last) \in rule.triggers
Failed(c, k, last) ==
  IF GoesOn(c, last) THEN [k EXCEPT !.at = "next", !.i = chat[c].i + 1] ELSE [k EXCEPT !.at = "over"]

\* The chain, not the registry, looks at the context first.
NextCandidate(c) ==
  LET key == live[Candidates[chat[c].i]] IN
  /\ chat[c].at = "next"
  /\ IF rule.chained /\ chat[c].ctx # "live" THEN To(c, [chat[c] EXCEPT !.at = "over"])
     ELSE IF key = 0 THEN To(c, Failed(c, chat[c], "unknown"))
     ELSE To(c, [chat[c] EXCEPT !.at = "ask", !.tries = 0, !.secret = key])

\* doJSONRequest: what may pass is asked again, with the same adapter.
\* One attempt too many.
MayRetryOnce(c) == chat[c].tries < MaxAttempts
MayRetry(c) == chat[c].tries + 1 < MaxAttempts

Asked(c, k, last) ==
  [k EXCEPT !.at = IF last \in Transient \cup {"gone", "deadline"} /\ MayRetry(c)
                     THEN "backoff" ELSE "row",
            !.tries = chat[c].tries + 1, !.last = last]

Ask(c, answer) ==
  LET k == chat[c]
      entered == [i |-> k.i, answer |-> answer, secret |-> k.secret]
  IN
  /\ k.at = "ask" /\ k.ctx = "live"
  /\ To(c, Asked(c, [k EXCEPT !.log = Append(@, entered)], answer))

\* A request whose context is dead is not sent; that counts as a network error.
AskDead(c) ==
  /\ chat[c].at = "ask" /\ chat[c].ctx # "live"
  /\ To(c, Asked(c, chat[c], chat[c].ctx))

\* select over the timer and ctx.Done: when both are ready either may win.
Backoff(c) ==
  /\ chat[c].at = "backoff"
  /\ \/ To(c, [chat[c] EXCEPT !.at = "ask"])
     \/ chat[c].ctx # "live" /\ To(c, [chat[c] EXCEPT !.at = "row", !.last = chat[c].ctx])

\* One row per Dispatch, written with the call's own context: none when it is
\* dead.  Whether it was written is not looked at.
WriteRow(c) ==
  LET k == chat[c]
      Done(r) == To(c, IF k.last = "ok" THEN [r EXCEPT !.at = "over"] ELSE Failed(c, r, k.last))
  IN
  /\ k.at = "row"
  /\ \/ k.ctx = "live" /\ Done([k EXCEPT !.rows = @ + 1])
     \/ Done(k)

KeyStep(q) ==
  \/ \E k \in KeyIds, p \in Providers : CreateKey(q, k, p)
  \/ \E k \in KeyIds : RotateKey(q, k) \/ DeleteKey(q, k)
  \/ ListKeys(q) \/ Decrypt(q) \/ RegisterProvider(q)

ChatStep(c) ==
  \/ Submit(c) \/ NextCandidate(c) \/ AskDead(c) \/ Backoff(c) \/ WriteRow(c)
  \/ \E why \in {"gone", "deadline"} : CtxEnds(c, why)
  \/ \E answer \in Answers : Ask(c, answer)

GatewayNext == (\E q \in KeyRequests : KeyStep(q)) \/ (\E c \in Chats : ChatStep(c))

GatewaySpec == GatewayInit /\ [][GatewayNext]_gatewayVars

-----------------------------------------------------------------------------
\* A provider is asked MaxAttempts times at most, and again only after what may
\* pass.  (transport.go:95-152)
AsksOf(c, i) == {j \in DOMAIN chat[c].log : chat[c].log[j].i = i}
RetriesAreDue(c) ==
  LET log == chat[c].log IN
  /\ \A i \in DOMAIN Candidates : Cardinality(AsksOf(c, i)) <= MaxAttempts
  /\ \A j \in DOMAIN log \ {1} :
       log[j].i = log[j - 1].i => /\ log[j - 1].answer \in {"busy", "late", "down"}
                                  /\ log[j].secret = log[j - 1].secret

\* The answers each trigger fires on.  (fallback.go:15-26)
Fires == [rate_limit |-> {"busy"}, timeout |-> {"late", "slow"},
          error |-> {"down", "refused"}]

\* Candidates are asked in the rule's order; the next one only when a trigger
\* of the rule fires on the last answer of the one before.  (fallback.go:96-139)
FallbacksAreDue(c) ==
  LET log == chat[c].log IN
  \A j \in DOMAIN log \ {1} :
    log[j].i # log[j - 1].i =>
      /\ rule.chained /\ log[j].i > log[j - 1].i
      /\ log[j - 1].answer # "ok"
      /\ rule.triggers = {}
         \/ \E t \in DOMAIN Fires \cap rule.triggers : log[j - 1].answer \in Fires[t]

\* The metrics have one row for a provider asked, never one for each ask.
\* (gateway.go:285-350)
RowsAreOfAsks(c) == chat[c].rows <= Cardinality({chat[c].log[j].i : j \in DOMAIN chat[c].log})

\* A registry made anew by a key request that met no other has, for each
\* provider with a key, the secret of its newest record.  (hydrate.go:78-142)
KeysAreLive ==
  hydrated => \A p \in HasKey(keys) : live[p] = keys[NewestKey(keys, p)].secret

\* The gateway asks whom it should, as often as it should, with the right key.
AsksAreDue ==
  /\ \A c \in Chats : RetriesAreDue(c) /\ FallbacksAreDue(c) /\ RowsAreOfAsks(c)
  /\ KeysAreLive

\* "Re-running this function converges the live registry to the keystore state"
\* (hydrate.go:74-76).  TLC refutes it: a deleted key stays in use, ...
DeletedKeysAreDead ==
  hydrated => \A p \in Providers \ HasKey(keys) : live[p] = 0
\* ... and of two requests that overlap the older may register last.
RestedKeysAreLive ==
  Changing = {} => \A p \in HasKey(keys) : live[p] = keys[NewestKey(keys, p)].secret
=============================================================================
