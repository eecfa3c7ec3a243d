------------------------------ MODULE Sessions ------------------------------
(***************************************************************************)
(* Session containers: the docker session runtime                          *)
(* (internal/session/docker/runtime.go), the watchdog                      *)
(* (internal/session/watchdog.go), and those who use them: Engine.Execute  *)
(* of the pack engine, the REST sessions routes, CancelRun's kill.         *)
(*                                                                         *)
(* Two things must agree: the containers docker holds, and the runtime's   *)
(* table of sessions.  Every docker request and every locked access to the *)
(* table is one action; between two of them anyone may move.  A session is *)
(* its id, which is also its container.                                    *)
(***************************************************************************)
EXTENDS Naturals

CONSTANTS
  Calls,       \* concurrent pack executions and REST requests
  Watchdog,    \* the watchdog's goroutine
  Sessions,    \* the session ids Create may draw
  Runs,        \* pipeline runs, each cancelled at most once
  Limits,      \* the values of Spec.Timeout, in clock ticks
  MaxFailures, \* bound: how many stops and removals docker refuses
  MaxCrashes,  \* bound: how often the process dies
  None         \* "no value"

Actors == Calls \cup {Watchdog}

ASSUME SessionsAssumption ==
  /\ Watchdog \notin Calls
  /\ Limits \subseteq Nat \ {0}     \* withDefaults replaces 0
  /\ MaxFailures \in Nat /\ MaxCrashes \in Nat
  /\ None \notin Actors \cup Sessions \cup Runs

VARIABLES
  container, \* docker: "none", "asked" (it has the request to create it),
             \* "created", "running", "stopped" or "gone"
  runOf,     \* docker: the container's helmdeck.run_id label, or None
  limit,     \* Runtime.sessions: Spec.Timeout of each entry, 0 without one
  age,       \* now - CreatedAt of each entry, up to the largest limit
  kept,      \* the sessions whose creator leaves them to the watchdog
  call,      \* what each actor is doing
  doomed,    \* the entries the watchdog's tick found expired
  kill,      \* how far CancelRun got with each run
  victims,   \* the containers TerminateByRunID has listed and not removed
  phase,     \* the process: "down", "booting" or "up"
  stale,     \* the containers PruneOrphans has listed and not removed
  leaked,    \* history: the containers a failed stop or removal left behind
  strayed,   \* history: those whose create request outlived its caller
  late,      \* history: those docker made after CancelRun had listed the run's
  failures, crashes

docker == <<container, runOf>>
table  == <<limit, age>>
cancel == <<kill, victims>>
boot   == <<phase, stale, crashes>>
fault  == <<leaked, strayed, late, failures>>
vars   == <<docker, table, kept, call, doomed, cancel, boot, fault>>

-----------------------------------------------------------------------------
Live(s) == container[s] \in {"created", "running", "stopped"}
InTable(s) == limit[s] # 0

\* want: the timeout asked for; keep: the session outlives the call.
Idle == [at |-> "idle", sess |-> None, want |-> 0, keep |-> FALSE]

Goto(a, place) == call' = [call EXCEPT ![a].at = place]
Done(a) == call' = [call EXCEPT ![a] = Idle]

\* docker refuses every request made on the context of a cancelled run.
CtxLive(r) == r \in Runs => kill[r] = "none"

Remove(s) == container' = [container EXCEPT ![s] = "gone"]

\* A request docker refuses, or whose caller's context is gone: the container
\* stays.
LeftBehind(s) ==
  /\ failures < MaxFailures /\ Live(s)
  /\ failures' = failures + 1
  /\ leaked' = leaked \cup {s}
  /\ UNCHANGED <<docker, strayed, late>>

Init ==
  /\ container = [s \in Sessions |-> "none"]
  /\ runOf = [s \in Sessions |-> None]
  /\ limit = [s \in Sessions |-> 0] /\ age = [s \in Sessions |-> 0]
  /\ kept = {}
  /\ call = [a \in Actors |-> Idle]
  /\ doomed = {}
  /\ kill = [r \in Runs |-> "none"] /\ victims = [r \in Runs |-> {}]
  /\ phase = "up" /\ stale = {} /\ crashes = 0
  /\ leaked = {} /\ strayed = {} /\ late = {} /\ failures = 0

-----------------------------------------------------------------------------
(* Create: ContainerCreate, ContainerStart, ContainerInspect, table insert *)

\* A pack that asks for a new session, for a run or not, and keeps it or not;
\* POST /sessions keeps it.  The request is on its way to docker.
RequestContainer(c, s, r, want, keep) ==
  /\ phase = "up" /\ call[c] = Idle
  /\ container[s] = "none" /\ CtxLive(r)
  /\ container' = [container EXCEPT ![s] = "asked"]
  /\ runOf' = [runOf EXCEPT ![s] = r]
  /\ call' = [call EXCEPT ![c] =
                [at |-> "create", sess |-> s, want |-> want, keep |-> keep]]
  /\ kept' = IF keep THEN kept \cup {s} ELSE kept
  /\ UNCHANGED <<table, doomed, cancel, boot, fault>>

\* CancelRun has listed the containers of the run.
Listed(r) == kill[r] \in {"listed", "remove", "done"}

\* docker makes the container, whether or not anybody waits for it.
MakeContainer(s) ==
  /\ container[s] = "asked"
  /\ container' = [container EXCEPT ![s] = "created"]
  /\ late' = IF \E r \in Runs : runOf[s] = r /\ Listed(r) THEN late \cup {s} ELSE late
  /\ UNCHANGED <<runOf, leaked, strayed, failures, table, kept, call, doomed,
                 cancel, boot>>

CreateAnswered(c) ==
  /\ call[c].at = "create" /\ container[call[c].sess] # "asked"
  /\ Goto(c, "start")
  /\ UNCHANGED <<docker, table, kept, doomed, cancel, boot, fault>>

\* ContainerCreate returns an error and Create returns it: docker refused, or
\* the context ended while docker had the request.  Then the container may
\* have been made, or be made later, and nobody knows of it.
CreateFails(c) ==
  /\ call[c].at = "create"
  /\ LET s == call[c].sess IN
       \/ /\ container[s] = "asked" /\ Remove(s)
          /\ UNCHANGED <<runOf, fault>>
       \/ /\ strayed' = strayed \cup {s}
          /\ UNCHANGED <<docker, leaked, late, failures>>
  /\ Done(c)
  /\ UNCHANGED <<table, kept, doomed, cancel, boot>>

StartContainer(c) ==
  /\ call[c].at = "start"
  /\ LET s == call[c].sess IN
       /\ CtxLive(runOf[s]) /\ container[s] = "created"
       /\ container' = [container EXCEPT ![s] = "running"]
  /\ Goto(c, "inspect")
  /\ UNCHANGED <<runOf, table, kept, doomed, cancel, boot, fault>>

InspectContainer(c) ==
  /\ call[c].at = "inspect"
  /\ CtxLive(runOf[call[c].sess]) /\ container[call[c].sess] = "running"
  /\ Goto(c, "insert")
  /\ UNCHANGED <<docker, table, kept, doomed, cancel, boot, fault>>

\* Start or inspect failed: the container is removed, on a fresh context.
AbandonCreate(c) ==
  /\ call[c].at \in {"start", "inspect"}
  /\ LET s == call[c].sess IN
       \/ Remove(s) /\ UNCHANGED <<runOf, fault>>
       \/ LeftBehind(s)
  /\ Done(c)
  /\ UNCHANGED <<table, kept, doomed, cancel, boot>>

InsertEntry(c) ==
  /\ call[c].at = "insert"
  /\ limit' = [limit EXCEPT ![call[c].sess] = call[c].want]
  /\ age' = [age EXCEPT ![call[c].sess] = 0]
  /\ Goto(c, "handler")
  /\ UNCHANGED <<docker, kept, doomed, cancel, boot, fault>>

-----------------------------------------------------------------------------
(* Execute with a pinned session *)

\* Get: the table lookup; an unknown session ends the call.
PinSession(c, s, want) ==
  /\ phase = "up" /\ call[c] = Idle /\ InTable(s)
  /\ call' = [call EXCEPT ![c] =
                [at |-> "pin", sess |-> s, want |-> want, keep |-> TRUE]]
  /\ UNCHANGED <<docker, table, kept, doomed, cancel, boot, fault>>

\* Get: inspect, and copy the entry; a container that is gone ends the call.
PinInspect(c) ==
  /\ call[c].at = "pin"
  /\ LET s == call[c].sess IN
       IF Live(s)
         THEN Goto(c, IF call[c].want > limit[s] THEN "extend" ELSE "handler")
         ELSE Done(c)
  /\ UNCHANGED <<docker, table, kept, doomed, cancel, boot, fault>>

\* Mutant: the table's limit is overwritten without a comparison.
ExtendUnchecked(c) ==
  /\ call[c].at = "extend"
  /\ LET s == call[c].sess IN
       limit' = [limit EXCEPT ![s] = IF InTable(s) THEN call[c].want ELSE @]
  /\ Goto(c, "handler")
  /\ UNCHANGED <<age, docker, kept, doomed, cancel, boot, fault>>

\* The engine compared with its copy; the runtime compares again, locked.
ExtendTimeout(c) ==
  /\ call[c].at = "extend"
  /\ LET s == call[c].sess IN
       limit' = [limit EXCEPT ![s] =
                   IF InTable(s) /\ call[c].want > @ THEN call[c].want ELSE @]
  /\ Goto(c, "handler")
  /\ UNCHANGED <<age, docker, kept, doomed, cancel, boot, fault>>

\* Mutant: no deferred termination when the handler fails.
HandlerJustReturns(c) ==
  /\ call[c].at = "handler"
  /\ \/ Done(c)
     \/ ~call[c].keep /\ Goto(c, "take")
  /\ UNCHANGED <<docker, table, kept, doomed, cancel, boot, fault>>

\* The handler is over, well or not (a failed CDP dial never starts it): only
\* a session of the call's own that nobody asked to preserve is terminated.
HandlerReturns(c) ==
  /\ call[c].at = "handler"
  /\ IF call[c].keep THEN Done(c) ELSE Goto(c, "take")
  /\ UNCHANGED <<docker, table, kept, doomed, cancel, boot, fault>>

-----------------------------------------------------------------------------
(* Terminate *)

\* DELETE /sessions/{id}
CallDelete(c, s) ==
  /\ phase = "up" /\ call[c] = Idle /\ container[s] # "none"
  /\ call' = [call EXCEPT ![c] =
                [at |-> "take", sess |-> s, want |-> 0, keep |-> TRUE]]
  /\ UNCHANGED <<docker, table, kept, doomed, cancel, boot, fault>>

\* Mutant: the entry stays until the watchdog finds it.
PeekEntry(a) ==
  /\ call[a].at = "take"
  /\ IF InTable(call[a].sess) THEN Goto(a, "stop") ELSE Done(a)
  /\ UNCHANGED <<docker, table, kept, doomed, cancel, boot, fault>>

\* The entry is deleted before docker is asked; without an entry, Terminate
\* returns at once.
TakeEntry(a) ==
  /\ call[a].at = "take"
  /\ LET s == call[a].sess IN
       /\ IF InTable(s) THEN Goto(a, "stop") ELSE Done(a)
       /\ limit' = [limit EXCEPT ![s] = 0]
       /\ age' = [age EXCEPT ![s] = 0]
  /\ UNCHANGED <<docker, kept, doomed, cancel, boot, fault>>

\* A container that is gone already is no error, here and in RemoveContainer.
StopContainer(a) ==
  /\ call[a].at = "stop"
  /\ LET s == call[a].sess IN
       container' = [container EXCEPT ![s] = IF Live(s) THEN "stopped" ELSE @]
  /\ Goto(a, "remove")
  /\ UNCHANGED <<runOf, table, kept, doomed, cancel, boot, fault>>

RemoveContainer(a) ==
  /\ call[a].at = "remove"
  /\ Remove(call[a].sess)
  /\ Done(a)
  /\ UNCHANGED <<runOf, table, kept, doomed, cancel, boot, fault>>

\* The error is returned or logged; nobody tries again.
TerminateFails(a) ==
  /\ call[a].at \in {"stop", "remove"}
  /\ LeftBehind(call[a].sess)
  /\ Done(a)
  /\ UNCHANGED <<table, kept, doomed, cancel, boot>>

-----------------------------------------------------------------------------
(* The clock and the watchdog *)

Expired(s) == InTable(s) /\ age[s] >= limit[s]

Tick ==
  /\ \E s \in Sessions : InTable(s) /\ \E l \in Limits : age[s] < l
  /\ age' = [s \in Sessions |->
               IF InTable(s) /\ \E l \in Limits : age[s] < l
                 THEN age[s] + 1 ELSE age[s]]
  /\ UNCHANGED <<docker, limit, kept, call, doomed, cancel, boot, fault>>

\* tick: List copies the table and the clock is read once.
ListExpired ==
  /\ phase = "up" /\ call[Watchdog] = Idle /\ doomed = {}
  /\ doomed' = {s \in Sessions : Expired(s)}
  /\ doomed' # {}
  /\ UNCHANGED <<docker, table, kept, call, cancel, boot, fault>>

\* Mutant: the watchdog leaves kept sessions to their users.
DoomUnkept(s) ==
  /\ call[Watchdog] = Idle /\ s \in doomed
  /\ doomed' = doomed \ {s}
  /\ call' = [call EXCEPT ![Watchdog] =
                IF s \in kept THEN Idle
                ELSE [at |-> "take", sess |-> s, want |-> 0, keep |-> TRUE]]
  /\ UNCHANGED <<docker, table, kept, cancel, boot, fault>>

\* The expired sessions of the copy are terminated one after the other.
Doom(s) ==
  /\ call[Watchdog] = Idle /\ s \in doomed
  /\ doomed' = doomed \ {s}
  /\ call' = [call EXCEPT ![Watchdog] =
                [at |-> "take", sess |-> s, want |-> 0, keep |-> TRUE]]
  /\ UNCHANGED <<docker, table, kept, cancel, boot, fault>>

-----------------------------------------------------------------------------
(* CancelRun: the run's context, then TerminateByRunID *)

CancelContext(r) ==
  /\ phase = "up" /\ kill[r] = "none"
  /\ kill' = [kill EXCEPT ![r] = "fired"]
  /\ UNCHANGED <<docker, table, kept, call, doomed, victims, boot, fault>>

\* Mutant: the runtime looks for the run's sessions in its own table.
ListRunInTable(r) ==
  /\ kill[r] = "fired"
  /\ LET found == {s \in Sessions : runOf[s] = r /\ InTable(s)} IN
       /\ victims' = [victims EXCEPT ![r] = found]
       /\ kill' = [kill EXCEPT ![r] = IF found = {} THEN "done" ELSE "listed"]
  /\ UNCHANGED <<docker, table, kept, call, doomed, boot, fault>>

\* ContainerList by label, stopped containers included.
ListRun(r) ==
  /\ kill[r] = "fired"
  /\ LET found == {s \in Sessions : runOf[s] = r /\ Live(s)} IN
       /\ victims' = [victims EXCEPT ![r] = found]
       /\ kill' = [kill EXCEPT ![r] = IF found = {} THEN "done" ELSE "listed"]
  /\ UNCHANGED <<docker, table, kept, call, doomed, boot, fault>>

\* The listing itself fails: CancelRun logs it and returns.
ListRunFails(r) ==
  /\ kill[r] = "fired" /\ failures < MaxFailures
  /\ failures' = failures + 1
  /\ leaked' = leaked \cup {s \in Sessions : runOf[s] = r /\ Live(s)}
  /\ kill' = [kill EXCEPT ![r] = "done"]
  /\ UNCHANGED <<docker, table, kept, call, doomed, victims, boot, strayed, late>>

DropEntries(r) ==
  /\ kill[r] = "listed"
  /\ limit' = [s \in Sessions |-> IF s \in victims[r] THEN 0 ELSE limit[s]]
  /\ age' = [s \in Sessions |-> IF s \in victims[r] THEN 0 ELSE age[s]]
  /\ kill' = [kill EXCEPT ![r] = "remove"]
  /\ UNCHANGED <<docker, kept, call, doomed, victims, boot, fault>>

RemoveVictim(r, s) ==
  /\ kill[r] = "remove" /\ s \in victims[r]
  /\ \/ Remove(s) /\ UNCHANGED <<runOf, fault>>
     \/ LeftBehind(s)
  /\ victims' = [victims EXCEPT ![r] = @ \ {s}]
  /\ UNCHANGED <<table, kept, call, doomed, kill, boot>>

KillReturns(r) ==
  /\ kill[r] = "remove" /\ victims[r] = {}
  /\ kill' = [kill EXCEPT ![r] = "done"]
  /\ UNCHANGED <<docker, table, kept, call, doomed, victims, boot, fault>>

-----------------------------------------------------------------------------
(* Crash and restart *)

\* Table, calls and runs are gone with the process; the containers stay.
Crash ==
  /\ phase # "down" /\ crashes < MaxCrashes
  /\ phase' = "down" /\ crashes' = crashes + 1 /\ stale' = {}
  /\ limit' = [s \in Sessions |-> 0] /\ age' = [s \in Sessions |-> 0]
  /\ call' = [a \in Actors |-> Idle] /\ doomed' = {}
  /\ kill' = [r \in Runs |->
                IF kill[r] = "none" /\ \A s \in Sessions : runOf[s] # r
                  THEN "none" ELSE "over"]
  /\ victims' = [r \in Runs |-> {}]
  /\ strayed' = strayed \cup {s \in Sessions : container[s] = "asked"}
  /\ UNCHANGED <<docker, kept, leaked, late, failures>>

\* Mutant: only running containers are listed.
ListRunning ==
  /\ phase = "down"
  /\ phase' = "booting"
  /\ stale' = {s \in Sessions : container[s] = "running"}
  /\ UNCHANGED <<docker, table, kept, call, doomed, cancel, crashes, fault>>

\* PruneOrphans: every managed container, for the table is empty.
ListManaged ==
  /\ phase = "down"
  /\ phase' = "booting"
  /\ stale' = {s \in Sessions : Live(s)}
  /\ UNCHANGED <<docker, table, kept, call, doomed, cancel, crashes, fault>>

\* The listing fails: it is logged, and the process starts all the same.
ListManagedFails ==
  /\ phase = "down" /\ failures < MaxFailures
  /\ phase' = "booting" /\ stale' = {}
  /\ failures' = failures + 1
  /\ leaked' = leaked \cup {s \in Sessions : Live(s)}
  /\ UNCHANGED <<docker, table, kept, call, doomed, cancel, crashes, strayed, late>>

PruneOrphan(s) ==
  /\ phase = "booting" /\ s \in stale
  /\ \/ Remove(s) /\ UNCHANGED <<runOf, fault>>
     \/ LeftBehind(s)
  /\ stale' = stale \ {s}
  /\ UNCHANGED <<table, kept, call, doomed, cancel, phase, crashes>>

Listen ==
  /\ phase = "booting" /\ stale = {}
  /\ phase' = "up"
  /\ UNCHANGED <<docker, table, kept, call, doomed, cancel, stale, crashes, fault>>

-----------------------------------------------------------------------------
Ask(c) ==
  \/ \E s \in Sessions, r \in Runs \cup {None}, l \in Limits, keep \in BOOLEAN :
       RequestContainer(c, s, r, l, keep)
  \/ \E s \in Sessions : CallDelete(c, s) \/ \E l \in Limits : PinSession(c, s, l)

Create(c) ==
  \/ CreateAnswered(c) \/ CreateFails(c)
  \/ StartContainer(c) \/ InspectContainer(c) \/ AbandonCreate(c) \/ InsertEntry(c)

Pin(c) == PinInspect(c) \/ ExtendTimeout(c)

Terminate(a) ==
  TakeEntry(a) \/ StopContainer(a) \/ RemoveContainer(a) \/ TerminateFails(a)

WatchdogTick == ListExpired \/ \E s \in Sessions : Doom(s)

TerminateByRunID(r) ==
  \/ ListRun(r) \/ ListRunFails(r) \/ DropEntries(r) \/ KillReturns(r)
  \/ \E s \in Sessions : RemoveVictim(r, s)

Boot ==
  ListManaged \/ ListManagedFails \/ Listen \/ \E s \in Sessions : PruneOrphan(s)

Next ==
  \/ \E c \in Calls : Ask(c) \/ Create(c) \/ Pin(c) \/ HandlerReturns(c)
  \/ \E a \in Actors : Terminate(a)
  \/ \E s \in Sessions : MakeContainer(s)
  \/ WatchdogTick \/ Tick
  \/ \E r \in Runs : CancelContext(r) \/ TerminateByRunID(r)
  \/ Crash \/ Boot

Spec == Init /\ [][Next]_vars

(***************************************************************************)
(* Time passes, the watchdog ticks, and a goroutine that can run does run. *)
(* A handler may run for ever: HandlerReturns gets no fairness.            *)
(***************************************************************************)
Fairness ==
  /\ WF_vars(Tick) /\ WF_vars(WatchdogTick) /\ WF_vars(Boot)
  /\ \A c \in Calls : WF_vars(Create(c)) /\ WF_vars(Pin(c))
  /\ \A a \in Actors : WF_vars(Terminate(a))
  /\ \A r \in Runs : WF_vars(TerminateByRunID(r))

FairSpec == Spec /\ Fairness

-----------------------------------------------------------------------------
(* Properties *)

Places == {"idle", "create", "start", "inspect", "insert", "pin", "extend", "handler",
           "take", "stop", "remove"}

\* Type correctness.
TypeOK ==
  /\ container \in [Sessions -> {"none", "asked", "created", "running", "stopped", "gone"}]
  /\ runOf \in [Sessions -> Runs \cup {None}]
  /\ limit \in [Sessions -> Limits \cup {0}]
  /\ age \in [Sessions -> Nat]
  /\ kept \subseteq Sessions
  /\ call \in [Actors -> [at : Places, sess : Sessions \cup {None},
                          want : Limits \cup {0}, keep : BOOLEAN]]
  /\ \A a \in Actors : call[a].at # "idle" => call[a].sess \in Sessions
  /\ doomed \subseteq Sessions
  /\ kill \in [Runs -> {"none", "fired", "listed", "remove", "done", "over"}]
  /\ victims \in [Runs -> SUBSET Sessions]
  /\ phase \in {"down", "booting", "up"} /\ stale \subseteq Sessions
  /\ leaked \subseteq Sessions /\ strayed \subseteq Sessions /\ late \subseteq Sessions
  /\ failures \in 0..MaxFailures /\ crashes \in 0..MaxCrashes

\* Somebody is about to give s its table entry or to remove its container.
InHand(s) ==
  \/ \E a \in Actors :
       /\ call[a].sess = s
       /\ call[a].at \in {"create", "start", "inspect", "insert", "stop", "remove"}
  \/ \E r \in Runs : s \in victims[r]

\* No container is forgotten: while requests are served, every container docker
\* holds is in the table, or in the hands of a call that will put it there or
\* remove it, or was left by a failed removal, or is one whose creator gave up
\* (or died) with the request on its way.  That last kind is the only one a
\* creation loses: restarts, kills in its middle and two terminations of one
\* session forget nothing.
NothingForgotten ==
  phase = "up" =>
    \A s \in Sessions :
      Live(s) => InTable(s) \/ InHand(s) \/ s \in leaked \cup strayed

\* A session of a pack that does not preserve it never outlives the pack's call
\* (ADR 004), however the call ends, but for the same two kinds.
EphemeralSessionEnds ==
  phase = "up" =>
    \A s \in Sessions :
      Live(s) /\ s \notin kept =>
        \/ \E c \in Calls : call[c].sess = s /\ ~call[c].keep
        \/ InHand(s) \/ s \in leaked \cup strayed

\* Once CancelRun has returned, no container of the run is left but those docker
\* refused to remove and those it made only after the list: a Create whose
\* container was there when the list was made is caught at any later place,
\* because the context is cancelled first and the list goes by label.  What was
\* made later is never used, and its creator, if it still waits, removes it.
CancelReclaims ==
  \A r \in Runs : kill[r] = "done" =>
    \A s \in Sessions : runOf[s] = r /\ Live(s) =>
      \/ s \in leaked
      \/ /\ s \in late /\ container[s] = "created" /\ ~InTable(s)
         /\ InHand(s) \/ s \in strayed

\* The table names no session without a container, except one whose run was
\* cancelled while it was being created.
EntryHasContainer ==
  \A s \in Sessions : InTable(s) =>
    Live(s) \/ \E r \in Runs : runOf[s] = r /\ kill[r] # "none"

\* Two packs that pin one session and race to extend it never bring its
\* deadline forward.
DeadlineNeverShrinks ==
  [][\A s \in Sessions : InTable(s) /\ InTable(s)' => limit[s]' >= limit[s]]_vars

\* While docker answers, no container stays for ever, though its handler may run
\* for ever, its creator may have gone and packs may extend it; but one whose
\* creator gave up before docker answered stays until the next boot.
EverySessionEnds == \A s \in Sessions : Live(s) ~> ~Live(s) \/ s \in strayed

-----------------------------------------------------------------------------
(* What the documentation says and the code does not do *)

\* A failed creation is cleaned up after "so we don't leak the container"
\* (runtime.go): no creation would leave one to the next boot.
CreatesLeaveNothing ==
  phase = "up" =>
    \A s \in Sessions : Live(s) => InTable(s) \/ InHand(s) \/ s \in leaked

\* "Abandoned sessions are cleaned up by the watchdog after the default
\* 5-minute timeout", docker refusing one request or not.
AbandonedIsCleaned == \A s \in Sessions : Expired(s) ~> ~Live(s)

\* ExtendTimeout raises the timeout "so the watchdog uses the longer deadline".
WatchdogUsesCurrentDeadline ==
  [][\A s \in Sessions :
       /\ call[Watchdog].at = "take" /\ call[Watchdog].sess = s
       /\ InTable(s) /\ call'[Watchdog].at = "stop"
       => Expired(s)]_vars
=============================================================================
