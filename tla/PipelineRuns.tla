---------------------------- MODULE PipelineRuns ----------------------------
(***************************************************************************)
(* The pipeline run machinery of the control plane                         *)
(* (internal/pipelines: runs.go, runner.go, store.go): one goroutine per   *)
(* run, the in-memory run registry, the pipeline_runs table, single-flight *)
(* coalescing under startMu, CancelRun, the TTL sweeper, and the boot-time *)
(* orphan reaper.                                                          *)
(*                                                                         *)
(* A run is identified by a model value.  Its inputs are abstracted to     *)
(* their fingerprint, sha256(caller || pipeline || canonical inputs); its  *)
(* step records to the sequence of their statuses.  Each access to the     *)
(* registry or to the database is atomic (a mutex, one SQLite connection); *)
(* what the code does between two accesses is where actions may interleave.*)
(***************************************************************************)
EXTENDS Naturals, Sequences

CONSTANTS
  Clients,       \* concurrent callers of StartRun, Rerun and CancelRun
  Runs,          \* the run ids newRunID may return
  Fingerprints,  \* distinct (caller, pipeline, inputs) requests
  BadInputs,     \* the fingerprints whose inputs are JSON but not an object
  NSteps,        \* number of steps of a pipeline definition
  MaxCrashes,    \* bound: how often the process may die
  None           \* "no value"

ASSUME ParameterAssumption ==
  /\ NSteps \in Nat \ {0}        \* Validate: at least one step
  /\ MaxCrashes \in Nat
  /\ BadInputs \subseteq Fingerprints
  /\ None \notin Clients \cup Runs \cup Fingerprints

VARIABLES
  phase,     \* the process: "down", "booting" (before the listener) or "up"
  crashes,   \* how often it died so far
  orphans,   \* the rows the reaper's query returned and has not yet saved
  fp,        \* column fingerprint: the fingerprint each run was created with
  row,       \* the pipeline_runs table
  reg,       \* runRegistry.runs: the live snapshots
  cancels,   \* runRegistry.cancels: the runs whose cancel func is stored
  cancelReq, \* runRegistry.cancelReq
  startMu,   \* runRegistry.startMu: its holder, or None
  req,       \* each client's call in progress
  answer,    \* the run id each client's last call returned, or None
  pc,        \* where each run's goroutine is
  loc,       \* the Run struct that goroutine owns
  ctx,       \* the run context: "live", "canceled" or "expired" (30 minutes)
  exec       \* what the step's Execute call is doing

durable  == <<fp, row>>
registry == <<reg, cancels, cancelReq>>
calls    == <<startMu, req, answer>>
worker   == <<pc, loc, ctx, exec>>
process  == <<phase, crashes, orphans>>
vars     == <<durable, registry, calls, worker, process>>

-----------------------------------------------------------------------------
(* Statuses, snapshots and rows *)

InFlight == {"pending", "running"}
Terminal == {"succeeded", "failed", "cancelled"}
Status   == InFlight \cup Terminal \cup {"absent"}
StepStatus == {"running", "succeeded", "failed", "cancelled"}
ErrorText  == {"none", "setup", "step", "cancelled", "orphan"}
FailureClass == {"none", "classified", "transient"}

\* What a Run struct holds, and the part of it SaveRun writes: the failure
\* class is a field of the struct with no column of its own.
Snapshot == [status : Status, steps : Seq(StepStatus),
             err : ErrorText, class : FailureClass]
Row      == [status : Status, steps : Seq(StepStatus), err : ErrorText]

NoSnapshot == [status |-> "absent", steps |-> <<>>, err |-> "none", class |-> "none"]
NoRow      == [status |-> "absent", steps |-> <<>>, err |-> "none"]
NewRun     == [NoSnapshot EXCEPT !.status = "pending"]

Columns(s) == [status |-> s.status, steps |-> s.steps, err |-> s.err]

\* scanRunWithFingerprint: a row read back has an empty failure class.
Scanned(w) == [status |-> w.status, steps |-> w.steps, err |-> w.err,
               class |-> "none"]

\* GetRun: the live snapshot if present, else the persisted row.
View(r) == IF reg[r].status # "absent" THEN reg[r] ELSE Scanned(row[r])

\* Mutant: the lookup and the index know only status 'running'.
RunningRowsOnly(f) == {r \in Runs : fp[r] = f /\ row[r].status = "running"}

\* FindInFlightByFingerprint, and the rows the partial unique index covers.
InFlightRows(f) == {r \in Runs : fp[r] = f /\ row[r].status \in {"pending", "running"}}

\* SaveRun(ctx, run): database/sql refuses a context that is done.
Saved(r, s, c) == IF c = "live" THEN [row EXCEPT ![r] = Columns(s)] ELSE row

WithLast(steps, st) == [steps EXCEPT ![Len(steps)] = st]
Step(s, st) == [s EXCEPT !.steps = WithLast(s.steps, st)]
Ended(s, st, e, cl) == [s EXCEPT !.status = st, !.err = e, !.class = cl]

-----------------------------------------------------------------------------
Idle == [op |-> "idle", fp |-> None, run |-> None]

Init ==
  /\ phase = "up" /\ crashes = 0 /\ orphans = {}
  /\ fp  = [r \in Runs |-> None]
  /\ row = [r \in Runs |-> NoRow]
  /\ reg = [r \in Runs |-> NoSnapshot]
  /\ cancels = {} /\ cancelReq = {}
  /\ startMu = None
  /\ req = [c \in Clients |-> Idle]
  /\ answer = [c \in Clients |-> None]
  /\ pc  = [r \in Runs |-> "none"]
  /\ loc = [r \in Runs |-> NoSnapshot]
  /\ ctx = [r \in Runs |-> "live"]
  /\ exec = [r \in Runs |-> "none"]

-----------------------------------------------------------------------------
(* StartRun and Rerun *)

\* The pipeline exists, validates and has no unfilled placeholder; the other
\* outcomes return an error and change nothing.
CallStart(c, f) ==
  /\ phase = "up" /\ req[c] = Idle
  /\ req' = [req EXCEPT ![c] = [op |-> "start", fp |-> f, run |-> None]]
  /\ answer' = [answer EXCEPT ![c] = None]
  /\ UNCHANGED <<startMu, durable, registry, worker, process>>

\* Rerun by the caller who started r: StartRun with the inputs GetRun found.
CallRerun(c, r) ==
  /\ phase = "up" /\ req[c] = Idle
  /\ View(r).status # "absent"
  /\ req' = [req EXCEPT ![c] = [op |-> "start", fp |-> fp[r], run |-> None]]
  /\ answer' = [answer EXCEPT ![c] = None]
  /\ UNCHANGED <<startMu, durable, registry, worker, process>>

\* Mutant: the lookup does not look at the status.
CoalesceOntoAnyRun(c, r) ==
  /\ req[c].op = "start" /\ startMu = None
  /\ row[r].status # "absent" /\ fp[r] = req[c].fp
  /\ answer' = [answer EXCEPT ![c] = r]
  /\ req' = [req EXCEPT ![c] = Idle]
  /\ UNCHANGED <<startMu, durable, registry, worker, process>>

\* startMu taken, and an in-flight row found: its id is the answer.
Coalesce(c, r) ==
  /\ req[c].op = "start" /\ startMu = None
  /\ r \in InFlightRows(req[c].fp)
  /\ answer' = [answer EXCEPT ![c] = r]
  /\ req' = [req EXCEPT ![c] = Idle]
  /\ UNCHANGED <<startMu, durable, registry, worker, process>>

\* Mutant: the lookup is made without startMu.
LookupUnlocked(c) ==
  /\ req[c].op = "start"
  /\ InFlightRows(req[c].fp) = {}
  /\ req' = [req EXCEPT ![c].op = "insert"]
  /\ UNCHANGED <<startMu, answer, durable, registry, worker, process>>

\* startMu taken, no in-flight row.
LookupMisses(c) ==
  /\ req[c].op = "start" /\ startMu = None
  /\ InFlightRows(req[c].fp) = {}
  /\ startMu' = c
  /\ req' = [req EXCEPT ![c].op = "insert"]
  /\ UNCHANGED <<answer, durable, registry, worker, process>>

\* The request's context is gone: the lookup and the INSERT both fail.
AbandonStart(c) ==
  /\ req[c].op = "start" /\ startMu = None
  /\ req' = [req EXCEPT ![c] = Idle]
  /\ UNCHANGED <<startMu, answer, durable, registry, worker, process>>

\* CreateRun: the INSERT, which the partial unique index would refuse.
InsertRun(c, r) ==
  /\ req[c].op = "insert"
  /\ row[r].status = "absent"
  /\ InFlightRows(req[c].fp) = {}
  /\ fp' = [fp EXCEPT ![r] = req[c].fp]
  /\ row' = [row EXCEPT ![r] = Columns(NewRun)]
  /\ req' = [req EXCEPT ![c] = [op |-> "register", fp |-> @.fp, run |-> r]]
  /\ UNCHANGED <<startMu, answer, registry, worker, process>>

\* Mutant: the error path of CreateRun forgets to unlock.
InsertFailsLocked(c) ==
  /\ req[c].op = "insert"
  /\ req' = [req EXCEPT ![c] = Idle]
  /\ UNCHANGED <<startMu, answer, durable, registry, worker, process>>

\* The request's context goes between the two: CreateRun fails.  The code then
\* resolves again, for a winner the unique index refused it for; within one
\* process IndexNeverRefuses shows there is none, and on the dead context that
\* lookup fails as well.
InsertFails(c) ==
  /\ req[c].op = "insert"
  /\ startMu' = None
  /\ req' = [req EXCEPT ![c] = Idle]
  /\ UNCHANGED <<answer, durable, registry, worker, process>>

\* reg.put, the goroutine spawned with its 30-minute context, the return.
RegisterRun(c) ==
  /\ req[c].op = "register"
  /\ LET r == req[c].run IN
       /\ reg' = [reg EXCEPT ![r] = NewRun]
       /\ pc'  = [pc EXCEPT ![r] = "spawned"]
       /\ loc' = [loc EXCEPT ![r] = NewRun]
       /\ answer' = [answer EXCEPT ![c] = r]
  /\ startMu' = None
  /\ req' = [req EXCEPT ![c] = Idle]
  /\ UNCHANGED <<cancels, cancelReq, ctx, exec, durable, process>>

-----------------------------------------------------------------------------
(* The run goroutine: StartRun's closure around RunSync *)

Goto(r, l) == pc' = [pc EXCEPT ![r] = l]

SetCancel(r) ==
  /\ pc[r] = "spawned"
  /\ cancels' = cancels \cup {r}
  /\ Goto(r, "entry")
  /\ UNCHANGED <<reg, cancelReq, loc, ctx, exec, durable, calls, process>>

\* RunSync's entry: a cancel that came first ends the run without a step.
CancelledBeforeStart(r) ==
  /\ pc[r] = "entry" /\ r \in cancelReq
  /\ loc' = [loc EXCEPT ![r] = Ended(@, "cancelled", "cancelled", "none")]
  /\ Goto(r, "finishBackground")
  /\ UNCHANGED <<ctx, exec, durable, registry, calls, process>>

\* The inputs unmarshal into a map, or RunSync returns an error.
DecodeInputs(r) ==
  /\ pc[r] = "entry" /\ r \notin cancelReq
  /\ IF fp[r] \in BadInputs
       THEN Goto(r, "setupError") /\ UNCHANGED loc
       ELSE Goto(r, "starting") /\ loc' = [loc EXCEPT ![r].status = "running"]
  /\ UNCHANGED <<ctx, exec, durable, registry, calls, process>>

\* The first SaveRun is the only one whose failure RunSync returns.
SaveRunning(r) ==
  /\ pc[r] = "starting"
  /\ row' = Saved(r, loc[r], ctx[r])
  /\ IF ctx[r] = "live"
       THEN Goto(r, "nextStep") /\ reg' = [reg EXCEPT ![r] = loc[r]]
       ELSE Goto(r, "setupError") /\ UNCHANGED reg
  /\ UNCHANGED <<fp, cancels, cancelReq, loc, ctx, exec, calls, process>>

\* Mutant: the closure drops RunSync's error.
SetupErrorDropped(r) ==
  /\ pc[r] = "setupError"
  /\ Goto(r, "done")
  /\ UNCHANGED <<loc, ctx, exec, durable, registry, calls, process>>

\* RunSync returned an error: after a cancel the closure just returns.
SetupFails(r) ==
  /\ pc[r] = "setupError"
  /\ IF r \in cancelReq
       THEN Goto(r, "done") /\ UNCHANGED loc
       ELSE /\ loc' = [loc EXCEPT ![r] = Ended(@, "failed", "setup", "none")]
            /\ Goto(r, "finishBackground")
  /\ UNCHANGED <<ctx, exec, durable, registry, calls, process>>

\* A step record is appended, saved and published; Execute is called.
BeginStep(r) ==
  /\ pc[r] = "nextStep" /\ Len(loc[r].steps) < NSteps
  /\ LET s == [loc[r] EXCEPT !.steps = Append(@, "running")] IN
       /\ loc' = [loc EXCEPT ![r] = s]
       /\ reg' = [reg EXCEPT ![r] = s]
       /\ row' = Saved(r, s, ctx[r])
  /\ exec' = [exec EXCEPT ![r] = "working"]
  /\ Goto(r, "step")
  /\ UNCHANGED <<fp, cancels, cancelReq, ctx, calls, process>>

\* The progress callback: it saves on a fresh context.
ReportProgress(r) ==
  /\ pc[r] = "step" /\ exec[r] = "working"
  /\ reg' = [reg EXCEPT ![r] = loc[r]]
  /\ row' = Saved(r, loc[r], "live")
  /\ UNCHANGED <<fp, cancels, cancelReq, worker, calls, process>>

\* A docker-exec read blocks: started on a live context (a dead one is refused),
\* it then ignores the context.  The session is one of the run, labelled with
\* its id, or one the request pinned with _session_id, which has no such label.
StepWedges(r) ==
  /\ pc[r] = "step" /\ exec[r] = "working" /\ ctx[r] = "live"
  /\ \E where \in {"wedged", "outside"} : exec' = [exec EXCEPT ![r] = where]
  /\ UNCHANGED <<pc, loc, ctx, durable, registry, calls, process>>

\* A step blocked in a session the runtime's table has: "wedged", in a session
\* of the run; "missed", the same after a kill that did not get as far as the
\* table; "outside", in a pinned session.  In "leaked" the table has no entry.
InTable == {"wedged", "missed", "outside"}

\* Mutant: the watchdog leaves labelled sessions to CancelRun.
SessionExpiresIfCancelled(r) ==
  /\ pc[r] = "step" /\ exec[r] \in InTable /\ r \in cancelReq
  /\ exec' = [exec EXCEPT ![r] = "lost"]
  /\ UNCHANGED <<pc, loc, ctx, durable, registry, calls, process>>

\* The watchdog terminates the wedged session when its timeout has passed, if
\* the runtime's table still has it.
SessionExpires(r) ==
  /\ pc[r] = "step" /\ exec[r] \in InTable
  /\ exec' = [exec EXCEPT ![r] = "lost"]
  /\ UNCHANGED <<pc, loc, ctx, durable, registry, calls, process>>

StepSucceeds(r) ==
  /\ pc[r] = "step" /\ exec[r] = "working"
  /\ LET s == Step(loc[r], "succeeded") IN
       /\ loc' = [loc EXCEPT ![r] = s]
       /\ reg' = [reg EXCEPT ![r] = s]
       /\ row' = Saved(r, s, ctx[r])
  /\ exec' = [exec EXCEPT ![r] = "none"]
  /\ Goto(r, "nextStep")
  /\ UNCHANGED <<fp, cancels, cancelReq, ctx, calls, process>>

\* runStep returned an error: bad wiring, a failed pack, a dead context, or
\* the session container gone ("killed" stays as a record of a cancel).
StepErrors(r) ==
  /\ pc[r] = "step" /\ exec[r] \in {"working", "lost", "killed"}
  /\ Goto(r, "stepError")
  /\ exec' = [exec EXCEPT ![r] = IF @ = "killed" THEN @ ELSE "none"]
  /\ UNCHANGED <<loc, ctx, durable, registry, calls, process>>

\* Mutant: the flag is not consulted.
IsCancelByContext(r) == ctx[r] = "canceled"

\* The race guard: is this error a cancel or a failure?
IsCancel(r) == r \in cancelReq \/ ctx[r] = "canceled"

JudgeStepError(r) ==
  /\ pc[r] = "stepError"
  /\ IF IsCancel(r)
       THEN /\ loc' = [loc EXCEPT ![r] =
                         Ended(Step(@, "cancelled"), "cancelled", "cancelled", "none")]
            /\ Goto(r, "finishBackground")
       ELSE /\ loc' = [loc EXCEPT ![r] =
                         Ended(Step(@, "failed"), "failed", "step", "classified")]
            /\ Goto(r, "finish")
  /\ UNCHANGED <<ctx, exec, durable, registry, calls, process>>

AllStepsDone(r) ==
  /\ pc[r] = "nextStep" /\ Len(loc[r].steps) = NSteps
  /\ loc' = [loc EXCEPT ![r].status = "succeeded"]
  /\ Goto(r, "finish")
  /\ UNCHANGED <<ctx, exec, durable, registry, calls, process>>

\* finish: SaveRun, on the run's context or on a fresh one; an error is only
\* logged.
FinishSave(r) ==
  /\ pc[r] \in {"finish", "finishBackground"}
  /\ row' = Saved(r, loc[r], IF pc[r] = "finish" THEN ctx[r] ELSE "live")
  /\ Goto(r, "publish")
  /\ UNCHANGED <<fp, loc, ctx, exec, registry, calls, process>>

\* finish: reg.put; the goroutine ends.
FinishPut(r) ==
  /\ pc[r] = "publish"
  /\ reg' = [reg EXCEPT ![r] = loc[r]]
  /\ Goto(r, "done")
  /\ UNCHANGED <<cancels, cancelReq, loc, ctx, exec, durable, calls, process>>

\* The 30-minute timeout of the run context.
Expire(r) ==
  /\ pc[r] \notin {"none", "done"} /\ ctx[r] = "live"
  /\ ctx' = [ctx EXCEPT ![r] = "expired"]
  /\ UNCHANGED <<pc, loc, exec, durable, registry, calls, process>>

-----------------------------------------------------------------------------
(* CancelRun *)

\* GetRun found the run and it is not terminal (else an error, no change).
CallCancel(c, r) ==
  /\ phase = "up" /\ req[c] = Idle
  /\ View(r).status \in InFlight
  /\ req' = [req EXCEPT ![c] = [op |-> "mark", fp |-> None, run |-> r]]
  /\ answer' = [answer EXCEPT ![c] = None]
  /\ UNCHANGED <<startMu, durable, registry, worker, process>>

\* Mutant: CancelRun writes the terminal status itself.
MarkAndWriteCancelled(c) ==
  /\ req[c].op = "mark"
  /\ cancelReq' = cancelReq \cup {req[c].run}
  /\ row' = [row EXCEPT ![req[c].run].status = "cancelled"]
  /\ req' = [req EXCEPT ![c].op = "fire"]
  /\ UNCHANGED <<fp, reg, cancels, startMu, answer, worker, process>>

MarkCancelRequested(c) ==
  /\ req[c].op = "mark"
  /\ cancelReq' = cancelReq \cup {req[c].run}
  /\ req' = [req EXCEPT ![c].op = "fire"]
  /\ UNCHANGED <<reg, cancels, startMu, answer, durable, worker, process>>

\* takeCancel; a stored cancel func cancels the context, once.
FireCancel(c) ==
  /\ req[c].op = "fire"
  /\ LET r == req[c].run IN
       /\ cancels' = cancels \ {r}
       /\ ctx' = [ctx EXCEPT ![r] =
                    IF r \in cancels /\ @ = "live" THEN "canceled" ELSE @]
  /\ req' = [req EXCEPT ![c].op = "kill"]
  /\ UNCHANGED <<reg, cancelReq, pc, loc, exec, startMu, answer, durable, process>>

\* Mutant: no canceller wired; CancelRun stops at the context.
KillNothing(c) ==
  /\ req[c].op = "kill"
  /\ req' = [req EXCEPT ![c] = Idle]
  /\ UNCHANGED <<startMu, answer, durable, registry, worker, process>>

\* TerminateByRunID lists the containers with the run's label, drops their
\* entries from the table and removes them.  A step wedged in one gets an
\* error; a step in no session of the run is not touched.  CancelRun only logs
\* a failure: of the list ("missed") or of a removal ("leaked").
AfterKill(e) ==
  CASE e \in {"wedged", "missed"} -> {"killed", "missed", "leaked"}
    [] e = "leaked"               -> {"killed", "leaked"}
    [] e = "working"              -> {"killed", "working"}
    [] OTHER                      -> {e}

KillSessions(c) ==
  /\ req[c].op = "kill"
  /\ LET r == req[c].run IN
       \E after \in AfterKill(exec[r]) :
         exec' = [exec EXCEPT ![r] = after]
  /\ req' = [req EXCEPT ![c] = Idle]
  /\ UNCHANGED <<startMu, answer, pc, loc, ctx, durable, registry, process>>

-----------------------------------------------------------------------------
(* The TTL sweeper, and the life of the process *)

\* One entry of a sweep: terminal, ended more than runTTL ago.
Sweep(r) ==
  /\ phase = "up" /\ reg[r].status \in Terminal
  /\ reg' = [reg EXCEPT ![r] = NoSnapshot]
  /\ cancels' = cancels \ {r}
  /\ cancelReq' = cancelReq \ {r}
  /\ UNCHANGED <<durable, calls, worker, process>>

\* The process dies: goroutines, calls and registry are gone, the table stays.
Crash ==
  /\ phase # "down" /\ crashes < MaxCrashes
  /\ phase' = "down" /\ crashes' = crashes + 1 /\ orphans' = {}
  /\ reg' = [r \in Runs |-> NoSnapshot] /\ cancels' = {} /\ cancelReq' = {}
  /\ startMu' = None /\ req' = [c \in Clients |-> Idle]
  /\ pc' = [r \in Runs |-> "none"] /\ loc' = [r \in Runs |-> NoSnapshot]
  /\ ctx' = [r \in Runs |-> "live"] /\ exec' = [r \in Runs |-> "none"]
  /\ UNCHANGED <<answer, durable>>

\* Mutant: the reaper's query has no WHERE clause.
ListAllRows ==
  /\ phase = "down"
  /\ phase' = "booting"
  /\ orphans' = {r \in Runs : row[r].status # "absent"}
  /\ UNCHANGED <<crashes, durable, registry, calls, worker>>

\* main: ReconcileOrphans starts with ListInFlightRuns.
ListOrphans ==
  /\ phase = "down"
  /\ phase' = "booting"
  /\ orphans' = {r \in Runs : row[r].status \in {"pending", "running"}}
  /\ UNCHANGED <<crashes, durable, registry, calls, worker>>

\* Mutant: the step in flight is left as it is.
ReapedRunOnly(w) ==
  [Scanned(w) EXCEPT !.status = "failed", !.err = "orphan", !.class = "transient"]

\* A reaped run is failed, and so is the step it was in.
Reaped(w) ==
  [Scanned(w) EXCEPT
     !.status = "failed", !.err = "orphan", !.class = "transient",
     !.steps = [i \in DOMAIN @ |-> IF @[i] = "running" THEN "failed" ELSE @[i]]]

Reap(r) ==
  /\ phase = "booting" /\ r \in orphans
  /\ row' = [row EXCEPT ![r] = Columns(Reaped(row[r]))]
  /\ orphans' = orphans \ {r}
  /\ UNCHANGED <<fp, phase, crashes, registry, calls, worker>>

\* The reaper is done: the sweeper starts and the listener accepts requests.
Listen ==
  /\ phase = "booting" /\ orphans = {}
  /\ phase' = "up"
  /\ UNCHANGED <<orphans, crashes, durable, registry, calls, worker>>

-----------------------------------------------------------------------------
StartCall(c) ==
  \/ \E f \in Fingerprints : CallStart(c, f)
  \/ \E r \in Runs : CallRerun(c, r)
  \/ \E r \in Runs : CallCancel(c, r)

InStart(c) ==
  \/ LookupMisses(c) \/ AbandonStart(c) \/ InsertFails(c) \/ RegisterRun(c)
  \/ \E r \in Runs : Coalesce(c, r) \/ InsertRun(c, r)

InCancel(c) == MarkCancelRequested(c) \/ FireCancel(c) \/ KillSessions(c)

Setup(r) ==
  \/ SetCancel(r) \/ CancelledBeforeStart(r) \/ DecodeInputs(r)
  \/ SaveRunning(r) \/ SetupFails(r)

\* Progress of the step in hand; a wedge is not progress.
StepReturns(r) == StepSucceeds(r) \/ StepErrors(r)

Advance(r) ==
  \/ Setup(r) \/ BeginStep(r) \/ StepReturns(r) \/ JudgeStepError(r)
  \/ AllStepsDone(r) \/ FinishSave(r) \/ FinishPut(r)

Boot == ListOrphans \/ Listen \/ \E r \in Runs : Reap(r)

Next ==
  \/ \E c \in Clients : StartCall(c) \/ InStart(c) \/ InCancel(c)
  \/ \E r \in Runs : Advance(r) \/ ReportProgress(r) \/ StepWedges(r)
                       \/ SessionExpires(r) \/ Expire(r) \/ Sweep(r)
  \/ Crash \/ Boot

Spec == Init /\ [][Next]_vars

(***************************************************************************)
(* The Go scheduler runs every goroutine that can run; a Go mutex hands    *)
(* itself to a waiter that has waited long enough (starvation mode), so a  *)
(* call that waits for startMu again and again gets it.  Nothing makes a   *)
(* caller call, a step wedge, the sweeper's hour pass or the process die.  *)
(***************************************************************************)
Fairness ==
  /\ \A r \in Runs : WF_vars(Advance(r))
  /\ \A c \in Clients : SF_vars(InStart(c)) /\ WF_vars(InCancel(c))
  /\ WF_vars(Boot)

FairSpec == Spec /\ Fairness

-----------------------------------------------------------------------------
(* Properties *)

\* Type correctness.
TypeOK ==
  /\ phase \in {"down", "booting", "up"} /\ crashes \in 0..MaxCrashes
  /\ orphans \subseteq Runs
  /\ fp  \in [Runs -> Fingerprints \cup {None}]
  /\ row \in [Runs -> Row]
  /\ reg \in [Runs -> Snapshot]
  /\ cancels \subseteq Runs /\ cancelReq \subseteq Runs
  /\ startMu \in Clients \cup {None}
  /\ req \in [Clients ->
         [op : {"idle", "start", "insert"}, fp : Fingerprints \cup {None},
          run : {None}]
         \cup [op : {"register", "mark", "fire", "kill"},
               fp : Fingerprints \cup {None}, run : Runs]]
  /\ answer \in [Clients -> Runs \cup {None}]
  /\ pc \in [Runs -> {"none", "spawned", "entry", "starting", "setupError",
                      "nextStep", "step", "stepError", "finish",
                      "finishBackground", "publish", "done"}]
  /\ loc \in [Runs -> Snapshot]
  /\ ctx \in [Runs -> {"live", "canceled", "expired"}]
  /\ exec \in [Runs -> {"none", "working", "wedged", "outside", "missed",
                         "leaked", "lost", "killed"}]

\* The runs whose goroutine may still execute steps.
Active(r) == pc[r] \notin {"none", "publish", "done"}

Registering(r) == \E c \in Clients : req[c].op = "register" /\ req[c].run = r

\* At most one row per fingerprint is pending or running (migration 0008), for
\* any order of inserts, saves, cancels, crashes and reaps.
AtMostOneInFlight ==
  \A r, s \in Runs :
    /\ row[r].status \in InFlight /\ row[s].status \in InFlight
    /\ fp[r] = fp[s]
    => r = s

\* Two goroutines never work on the same request at the same time, whatever a
\* cancel, a timeout or a restart did to the first one: the duplicate
\* execution that StartRun's coalescing is there to prevent.
NoDuplicateExecution ==
  \A r, s \in Runs : Active(r) /\ Active(s) /\ fp[r] = fp[s] => r = s

\* Between StartRun's lookup and its insert no duplicate can appear, although
\* goroutines, cancels and the sweeper run meanwhile: with startMu the unique
\* index is never the one to refuse.
IndexNeverRefuses ==
  \A c \in Clients : req[c].op = "insert" => InFlightRows(req[c].fp) = {}

\* While requests are served, a row that says pending or running belongs to a
\* goroutine that is alive or being started, or to one that ended on a dead
\* context or after a cancel request.  No other history leaves a row in flight
\* for good: not a bad input, a failed step or a restart.
InFlightRowsAccounted ==
  phase = "up" =>
    \A r \in Runs : row[r].status \in InFlight =>
      \/ Active(r) \/ Registering(r)
      \/ pc[r] \in {"publish", "done"} /\ (ctx[r] # "live" \/ r \in cancelReq)

\* The status of the step a run is at or ended with.
LastStep(s) == IF s.steps = <<>> THEN "none" ELSE s.steps[Len(s.steps)]

\* The step records tell the same story as the run's status, in the table and
\* in the registry: steps run in order, the run stops at the first that does
\* not succeed, and it succeeds only when all of them did.
TellsOneStory(s) ==
  /\ \A i \in 1..Len(s.steps) - 1 : s.steps[i] = "succeeded"
  /\ Len(s.steps) <= NSteps
  /\ s.status \in {"absent", "pending"} => LastStep(s) = "none"
  /\ s.status = "running"   => LastStep(s) \in {"none", "running", "succeeded"}
  /\ s.status = "succeeded" => Len(s.steps) = NSteps /\ LastStep(s) = "succeeded"
  /\ s.status = "cancelled" => LastStep(s) \in {"none", "cancelled"}
  /\ s.status = "failed" =>
       \/ LastStep(s) \in {"none", "failed"}
       \/ s.err = "orphan" /\ LastStep(s) = "succeeded"

HistoryConsistent ==
  \A r \in Runs : TellsOneStory(row[r]) /\ TellsOneStory(reg[r])

\* Once GetRun and the table both report a run ended, no later action changes
\* what GetRun reports of it: not a late save, the sweep of its snapshot, a
\* second cancel, a crash or the reaper.
SettledViewFinal ==
  [][\A r \in Runs :
       View(r).status \in Terminal /\ row[r].status \in Terminal =>
         Columns(View(r)') = Columns(View(r))]_vars

\* A step that failed because CancelRun killed its session is never reported
\* as a failure of the run: the flag is up before the kill (the race guard).
\* And only a run somebody asked to cancel is reported cancelled: the 30-minute
\* timeout is a failure.
KilledIsCancelled ==
  \A r \in Runs :
    /\ exec[r] = "killed" => loc[r].status # "failed"
    /\ reg[r].status = "cancelled" => r \in cancelReq

\* A cancel gets the run's goroutine to its end without the watchdog, at
\* whatever place it finds it and also when its step is wedged in a session of
\* the run.  Two things leave it where it is: the step is wedged in a session
\* somebody pinned, or docker failed the kill, which CancelRun only logs.
CancelEndsGoroutine ==
  \A r \in Runs :
    r \in cancelReq /\ Active(r)
      ~> ~Active(r) \/ exec[r] \in {"outside", "missed", "leaked"}

\* No goroutine lives for ever while the watchdog ticks: a wedged step is ended
\* even when nobody cancels, in a pinned session as in one of the run, after a
\* failed cancel too.  The exception is the session whose removal failed after
\* TerminateByRunID had dropped its entry: the watchdog never sees it again.
EveryGoroutineEnds ==
  \A r \in Runs :
    WF_vars(SessionExpires(r)) => (Active(r) ~> ~Active(r) \/ exec[r] = "leaked")

\* Every StartRun call returns: startMu is always released.
StartReturns ==
  \A c \in Clients :
    req[c].op \in {"start", "insert", "register"} ~> req[c].op = "idle"

-----------------------------------------------------------------------------
(* PipelineRuns implements SingleFlight: the owner of a request is the run  *)
(* whose row is in flight, the ids used are those with a row.               *)

Owner(f) == IF InFlightRows(f) = {} THEN None ELSE CHOOSE r \in InFlightRows(f) : TRUE

SF == INSTANCE SingleFlight WITH
        owner <- [f \in Fingerprints |-> Owner(f)],
        used  <- {r \in Runs : row[r].status # "absent"}

\* Every behaviour of the runner is one of SingleFlight: no request is admitted
\* twice, and every answer names the run in flight at the time.
ImplementsSingleFlight == SF!Spec

-----------------------------------------------------------------------------
(* What the code's comments say and the code does not do *)

\* "Terminal runs are evicted after runTTL; durable history always lives in
\* pipeline_runs, so GetRun falls back to the store": what GetRun reported as
\* ended would stay ended.
ReportedEndIsDurable ==
  [][\A r \in Runs : View(r).status \in Terminal /\ phase' = "up" =>
       View(r)'.status \in Terminal]_vars

\* "The run goroutine writes the terminal RunCancelled status (via RunSync's
\* race guard)": a goroutine that ended would have left a terminal status.
GoroutineWritesTheEnd ==
  \A r \in Runs : pc[r] = "done" => View(r).status \in Terminal

\* "Each reaped run is marked failed (with failure_class "transient" -- a retry
\* is reasonable)": GetRun would report the class of a reaped run.
ReapedRunIsTransient ==
  phase = "up" =>
    \A r \in Runs : View(r).err = "orphan" => View(r).class = "transient"
=============================================================================
