---------------------------- MODULE SingleFlight ----------------------------
(***************************************************************************)
(* What StartRun promises its callers (the comment on Runner.StartRun and  *)
(* migration 0008): a request is answered with the run that owns it, there *)
(* is one such run at a time, and a request is admitted afresh only when   *)
(* its previous owner has settled.  Nothing is said here of registries,    *)
(* rows, contexts or restarts; PipelineRuns implements this module.        *)
(***************************************************************************)
CONSTANTS Clients, Runs, Fingerprints, None

VARIABLES
  owner,   \* the run in flight for each fingerprint, or None
  used,    \* the run ids handed out so far
  answer   \* what each client's last call returned, or None

vars == <<owner, used, answer>>

Init ==
  /\ owner = [f \in Fingerprints |-> None]
  /\ used = {}
  /\ answer = [c \in Clients |-> None]

\* A new call: the previous answer is of no more use.
Ask(c) ==
  /\ answer' = [answer EXCEPT ![c] = None]
  /\ UNCHANGED <<owner, used>>

\* A request with no run in flight gets a run of its own, with a fresh id.
Admit(f, r) ==
  /\ owner[f] = None /\ r \notin used
  /\ owner' = [owner EXCEPT ![f] = r]
  /\ used' = used \cup {r}
  /\ UNCHANGED answer

\* A caller is told the run that is in flight for its request.
Answer(c, f) ==
  /\ owner[f] # None
  /\ answer' = [answer EXCEPT ![c] = owner[f]]
  /\ UNCHANGED <<owner, used>>

\* The run in flight reaches a terminal status.
Settle(f) ==
  /\ owner[f] # None
  /\ owner' = [owner EXCEPT ![f] = None]
  /\ UNCHANGED <<used, answer>>

Next ==
  \/ \E c \in Clients : Ask(c)
  \/ \E f \in Fingerprints :
       \/ \E r \in Runs : Admit(f, r)
       \/ \E c \in Clients : Answer(c, f)
       \/ Settle(f)

Spec == Init /\ [][Next]_vars
=============================================================================
