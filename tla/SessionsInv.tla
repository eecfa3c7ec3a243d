---------------------------- MODULE SessionsInv ----------------------------
(***************************************************************************)
(* The inductive invariant of Sessions.  NothingForgotten and its siblings *)
(* are not inductive: what makes them so is which actor may touch a session*)
(* at which point of its life.                                             *)
(***************************************************************************)
EXTENDS Sessions

Creating(a)    == call[a].at \in {"create", "start", "inspect", "insert"}
Terminating(a) == call[a].at \in {"stop", "remove"}

Cancelled(s) == \E r \in Runs : runOf[s] = r /\ kill[r] # "none"

\* Nobody names a session that was not created.
NamedInv ==
  /\ \A a \in Actors : call[a].at # "idle" => container[call[a].sess] # "none"
  /\ \A s \in doomed : container[s] # "none"
  /\ \A r \in Runs : \A s \in victims[r] : container[s] # "none"
  /\ \A s \in Sessions : InTable(s) => container[s] # "none"

\* A session being created has one creator, no entry and no terminator; one
\* being terminated has no entry any more.
PhaseInv ==
  /\ \A a \in Actors : Creating(a) =>
       /\ call[a].want \in Limits
       /\ call[a].keep => call[a].sess \in kept
       /\ ~InTable(call[a].sess)
       /\ \/ Live(call[a].sess) \/ Cancelled(call[a].sess)
          \/ call[a].at = "create" /\ container[call[a].sess] = "asked"
       /\ \A b \in Actors : b # a /\ call[b].sess = call[a].sess =>
            ~Creating(b) /\ ~Terminating(b)
  /\ \A a \in Actors : Terminating(a) => ~InTable(call[a].sess)

\* What a kill has listed covers what is left of the run.
KillInv ==
  \A r \in Runs :
    /\ victims[r] # {} => kill[r] \in {"listed", "remove"}
    /\ \A s \in victims[r] : runOf[s] = r
    /\ Listed(r) =>
         \A s \in Sessions :
           runOf[s] = r /\ Live(s) => s \in leaked \cup victims[r] \cup late

\* A container docker has not made yet is in nobody's hands but those of a call
\* that waits for it; one made too late for the list gets no further.
AskedInv ==
  /\ \A s \in Sessions : container[s] = "asked" =>
       /\ s \in strayed \/ \E a \in Actors : call[a].sess = s /\ call[a].at = "create"
       /\ ~InTable(s)
       /\ \A a \in Actors : call[a].sess = s =>
            call[a].at \notin {"start", "inspect", "insert", "stop", "remove"}
  /\ \A s \in late :
       /\ container[s] \in {"created", "gone"} /\ ~InTable(s) /\ Cancelled(s)
       /\ \A a \in Actors : call[a].sess = s =>
            call[a].at \notin {"inspect", "insert", "stop", "remove"}

\* Before the listener is up, nobody is at work, and the reaper has listed all.
DownInv ==
  phase # "up" =>
    /\ \A a \in Actors : call[a] = Idle
    /\ \A s \in Sessions : ~InTable(s)
    /\ doomed = {}
    /\ \A r \in Runs : victims[r] = {} /\ kill[r] \in {"none", "over"}
    /\ phase = "booting" => \A s \in Sessions : Live(s) => s \in stale \cup leaked \cup strayed

IInv ==
  /\ TypeOK /\ NamedInv /\ PhaseInv /\ KillInv /\ AskedInv /\ DownInv
  /\ NothingForgotten /\ EphemeralSessionEnds /\ EntryHasContainer
=============================================================================
