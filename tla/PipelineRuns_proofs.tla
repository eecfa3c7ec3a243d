------------------------ MODULE PipelineRuns_proofs ------------------------
(***************************************************************************)
(* Proofs about PipelineRuns, for any number of clients, runs, requests,   *)
(* steps and crashes.                                                      *)
(***************************************************************************)
EXTENDS PipelineRunsInv, SequenceTheorems, TLAPS

-----------------------------------------------------------------------------
(* What the operators on step records return *)

\* WithLast only ever replaces the last step status (SaveRun's whole-array
\* rewrite of steps_json never adds or loses a step).
LEMMA WithLastType ==
  ASSUME NEW steps \in Seq(StepStatus), NEW st \in StepStatus
  PROVE  /\ WithLast(steps, st) \in Seq(StepStatus)
         /\ Len(WithLast(steps, st)) = Len(steps)
<1>1. CASE Len(steps) = 0
  <2>1. steps = << >> BY <1>1, EmptySeq
  <2>2. WithLast(steps, st) = steps BY <2>1, <1>1 DEF WithLast
  <2>. QED BY <2>2
<1>2. CASE Len(steps) # 0
  <2>1. Len(steps) \in 1..Len(steps) BY <1>2, LenProperties
  <2>. QED BY <2>1, ExceptSeq DEF WithLast
<1>. QED BY <1>1, <1>2

\* The reaper rewrites step statuses in place.
LEMMA ReapedType ==
  ASSUME NEW w \in Row
  PROVE  /\ Columns(Reaped(w)) \in Row
         /\ Columns(Reaped(w)).status = "failed"
         /\ Columns(Reaped(w)).err = "orphan"
         /\ Len(Columns(Reaped(w)).steps) = Len(w.steps)
         /\ \A i \in 1..Len(w.steps) :
              Columns(Reaped(w)).steps[i] =
                IF w.steps[i] = "running" THEN "failed" ELSE w.steps[i]
<1> DEFINE t == [i \in DOMAIN w.steps |-> IF w.steps[i] = "running" THEN "failed" ELSE w.steps[i]]
<1>1. w.steps \in Seq(StepStatus) BY DEF Row
<1>2. Len(w.steps) \in Nat /\ DOMAIN w.steps = 1..Len(w.steps)
  BY <1>1, LenProperties
<1>3. \A i \in 1..Len(w.steps) : w.steps[i] \in StepStatus BY <1>1, ElementOfSeq
<1>4. t \in [1..Len(w.steps) -> StepStatus] BY <1>2, <1>3 DEF StepStatus
<1>5. t \in Seq(StepStatus) /\ Len(t) = Len(w.steps) BY <1>2, <1>4
<1>6. Columns(Reaped(w)) = [status |-> "failed", steps |-> t, err |-> "orphan"]
  BY DEF Columns, Reaped, Scanned
<1>. QED BY <1>2, <1>5, <1>6 DEF Row, Status, Terminal, InFlight, ErrorText

\* Step(s, st) is the snapshot s with its last step status replaced.
LEMMA StepType ==
  ASSUME NEW s \in Snapshot, NEW st \in StepStatus
  PROVE  /\ Step(s, st) \in Snapshot
         /\ Step(s, st).status = s.status
         /\ Step(s, st).err = s.err
         /\ Step(s, st).class = s.class
         /\ Step(s, st).steps = WithLast(s.steps, st)
<1>1. s.steps \in Seq(StepStatus) BY DEF Snapshot
<1>2. WithLast(s.steps, st) \in Seq(StepStatus) BY <1>1, WithLastType
<1>. QED BY <1>2 DEF Step, Snapshot

\* A save writes one row or none.
LEMMA SavedType ==
  ASSUME row \in [Runs -> Row], NEW r \in Runs, NEW s \in Snapshot, NEW c
  PROVE  /\ Saved(r, s, c) \in [Runs -> Row]
         /\ Columns(s) \in Row /\ Columns(s).status = s.status
         /\ \A q \in Runs : Saved(r, s, c)[q] =
              IF q = r /\ c = "live" THEN Columns(s) ELSE row[q]
BY DEF Saved, Columns, Snapshot, Row

\* Ending a run sets its status, error and failure class.
LEMMA EndedType ==
  ASSUME NEW s \in Snapshot, NEW st \in Terminal, NEW e \in ErrorText,
         NEW cl \in FailureClass
  PROVE  /\ Ended(s, st, e, cl) \in Snapshot
         /\ Ended(s, st, e, cl).status = st
         /\ Ended(s, st, e, cl).err = e
         /\ Ended(s, st, e, cl).steps = s.steps
BY DEF Ended, Snapshot, Status

\* The values the model starts records from.
LEMMA EmptyRecords ==
  /\ NoSnapshot \in Snapshot /\ NewRun \in Snapshot
  /\ NoRow \in Row /\ Columns(NewRun) \in Row
  /\ NewRun.status = "pending" /\ NewRun.steps = << >>
  /\ Columns(NewRun).status = "pending" /\ Columns(NewRun).steps = << >>
  /\ NoSnapshot.status = "absent" /\ NoRow.status = "absent"
<1>1. << >> \in Seq(StepStatus) BY EmptySeq
<1>2. NewRun = [status |-> "pending", steps |-> << >>, err |-> "none", class |-> "none"]
  BY DEF NewRun, NoSnapshot
<1>3. Columns(NewRun) = [status |-> "pending", steps |-> << >>, err |-> "none"]
  BY <1>2 DEF Columns
<1>4. NoSnapshot \in Snapshot
  BY <1>1 DEF NoSnapshot, Snapshot, Status, ErrorText, FailureClass
<1>5. NewRun \in Snapshot
  BY <1>1, <1>2 DEF Snapshot, Status, InFlight, ErrorText, FailureClass
<1>6. NoRow \in Row BY <1>1 DEF NoRow, Row, Status, ErrorText
<1>7. Columns(NewRun) \in Row
  BY <1>1, <1>3 DEF Row, Status, InFlight, ErrorText
<1>. QED BY <1>2, <1>3, <1>4, <1>5, <1>6, <1>7 DEF NoSnapshot, NoRow

-----------------------------------------------------------------------------
(* Type correctness *)

LEMMA TypeInit == Init => TypeOK
BY ParameterAssumption, EmptyRecords DEF Init, TypeOK, Idle

LEMMA TypeCalls ==
  ASSUME TypeOK, NEW c \in Clients, StartCall(c) \/ InStart(c) \/ InCancel(c)
  PROVE  TypeOK'
<1> USE DEF TypeOK, durable, registry, calls, worker, process
<1>1. ASSUME NEW f \in Fingerprints, CallStart(c, f) PROVE TypeOK'
  BY <1>1 DEF CallStart, Idle
<1>2. ASSUME NEW r \in Runs, CallRerun(c, r) PROVE TypeOK'
  BY <1>2 DEF CallRerun, Idle
<1>3. ASSUME NEW r \in Runs, CallCancel(c, r) PROVE TypeOK'
  BY <1>3 DEF CallCancel, Idle
<1>4. CASE LookupMisses(c) BY <1>4 DEF LookupMisses
<1>5. CASE AbandonStart(c) BY <1>5 DEF AbandonStart, Idle
<1>6. CASE InsertFails(c) BY <1>6 DEF InsertFails, Idle
<1>7. CASE RegisterRun(c) BY <1>7, EmptyRecords DEF RegisterRun, Idle
<1>8. ASSUME NEW r \in Runs, Coalesce(c, r) PROVE TypeOK'
  BY <1>8 DEF Coalesce, Idle
<1>9. ASSUME NEW r \in Runs, InsertRun(c, r) PROVE TypeOK'
  <2>1. req' \in [Clients ->
          [op : {"idle", "start", "insert"}, fp : Fingerprints \cup {None},
           run : {None}]
          \cup [op : {"register", "mark", "fire", "kill"},
                fp : Fingerprints \cup {None}, run : Runs]]
    BY <1>9 DEF InsertRun
  <2>2. fp' \in [Runs -> Fingerprints \cup {None}] BY <1>9 DEF InsertRun
  <2>. QED BY <1>9, <2>1, <2>2, EmptyRecords DEF InsertRun
<1>10. CASE MarkCancelRequested(c) BY <1>10 DEF MarkCancelRequested
<1>11. CASE FireCancel(c) BY <1>11 DEF FireCancel
<1>12. CASE KillSessions(c) BY <1>12 DEF KillSessions, AfterKill, Idle
<1>. QED
  BY <1>1, <1>2, <1>3, <1>4, <1>5, <1>6, <1>7, <1>8, <1>9, <1>10, <1>11, <1>12
     DEF StartCall, InStart, InCancel

LEMMA TypeGoroutine ==
  ASSUME TypeOK, NEW r \in Runs,
         \/ Advance(r) \/ ReportProgress(r) \/ StepWedges(r)
         \/ SessionExpires(r) \/ Expire(r) \/ Sweep(r)
  PROVE  TypeOK'
<1> USE DEF TypeOK, durable, registry, calls, worker, process, Goto
<1>1. loc[r] \in Snapshot /\ loc[r].steps \in Seq(StepStatus) BY DEF Snapshot
<1>2. CASE SetCancel(r) BY <1>2 DEF SetCancel
<1>3. CASE CancelledBeforeStart(r)
  BY <1>1, <1>3, EndedType
     DEF CancelledBeforeStart, Terminal, ErrorText, FailureClass
<1>4. CASE DecodeInputs(r)
  <2>1. [loc[r] EXCEPT !.status = "running"] \in Snapshot
    BY <1>1 DEF Snapshot, Status, InFlight
  <2>. QED BY <1>4, <2>1 DEF DecodeInputs
<1>5. CASE SaveRunning(r) BY <1>1, <1>5, SavedType DEF SaveRunning
<1>6. CASE SetupFails(r)
  <2>1. Ended(loc[r], "failed", "setup", "none") \in Snapshot
    BY <1>1, EndedType DEF Terminal, ErrorText, FailureClass
  <2>. QED BY <1>6, <2>1 DEF SetupFails
<1>7. CASE BeginStep(r)
  <2> DEFINE s == [loc[r] EXCEPT !.steps = Append(@, "running")]
  <2>1. Append(loc[r].steps, "running") \in Seq(StepStatus)
    BY <1>1, AppendProperties DEF StepStatus
  <2>2. s \in Snapshot BY <1>1, <2>1 DEF Snapshot
  <2>. QED BY <1>7, <2>2, SavedType DEF BeginStep
<1>8. CASE StepSucceeds(r)
  <2>1. Step(loc[r], "succeeded") \in Snapshot BY <1>1, StepType DEF StepStatus
  <2>. QED BY <1>8, <2>1, SavedType DEF StepSucceeds
<1>9. CASE StepErrors(r) BY <1>9 DEF StepErrors
<1>10. CASE JudgeStepError(r)
  <2>1. Step(loc[r], "cancelled") \in Snapshot BY <1>1, StepType DEF StepStatus
  <2>2. Step(loc[r], "failed") \in Snapshot BY <1>1, StepType DEF StepStatus
  <2>3. Ended(Step(loc[r], "cancelled"), "cancelled", "cancelled", "none") \in Snapshot
    BY <2>1, EndedType DEF Terminal, ErrorText, FailureClass
  <2>4. Ended(Step(loc[r], "failed"), "failed", "step", "classified") \in Snapshot
    BY <2>2, EndedType DEF Terminal, ErrorText, FailureClass
  <2>. QED BY <1>10, <2>3, <2>4 DEF JudgeStepError
<1>11. CASE AllStepsDone(r)
  BY <1>1, <1>11 DEF AllStepsDone, Snapshot, Status, Terminal
<1>12. CASE FinishSave(r) BY <1>1, <1>12, SavedType DEF FinishSave
<1>13. CASE FinishPut(r) BY <1>13 DEF FinishPut
<1>14. CASE ReportProgress(r) BY <1>1, <1>14, SavedType DEF ReportProgress
<1>15. CASE StepWedges(r) BY <1>15 DEF StepWedges
<1>16. CASE SessionExpires(r) BY <1>16 DEF SessionExpires, InTable
<1>17. CASE Expire(r) BY <1>17 DEF Expire
<1>18. CASE Sweep(r) BY <1>18, EmptyRecords DEF Sweep
<1>. QED
  BY <1>2, <1>3, <1>4, <1>5, <1>6, <1>7, <1>8, <1>9, <1>10, <1>11, <1>12,
     <1>13, <1>14, <1>15, <1>16, <1>17, <1>18
     DEF Advance, Setup, StepReturns

LEMMA TypeProcess ==
  ASSUME TypeOK, Crash \/ Boot
  PROVE  TypeOK'
<1> USE DEF TypeOK, durable, registry, calls, worker, process
<1>1. CASE Crash BY <1>1, ParameterAssumption, EmptyRecords DEF Crash, Idle
<1>2. CASE ListOrphans BY <1>2 DEF ListOrphans
<1>3. CASE Listen BY <1>3 DEF Listen
<1>4. ASSUME NEW r \in Runs, Reap(r) PROVE TypeOK'
  BY <1>4, ReapedType DEF Reap
<1>. QED BY <1>1, <1>2, <1>3, <1>4 DEF Boot

\* Type correctness: every variable keeps its type, for every value of the
\* constants.
THEOREM TypeCorrect == Spec => []TypeOK
<1>1. TypeOK /\ [Next]_vars => TypeOK'
  <2> SUFFICES ASSUME TypeOK, [Next]_vars PROVE TypeOK'
    OBVIOUS
  <2>1. CASE Next
    BY <2>1, TypeCalls, TypeGoroutine, TypeProcess DEF Next
  <2>2. CASE UNCHANGED vars
    BY <2>2 DEF TypeOK, vars, durable, registry, calls, worker, process
  <2>. QED BY <2>1, <2>2
<1>. QED BY TypeInit, <1>1, PTL DEF Spec

-----------------------------------------------------------------------------
(* Goroutine steps *)

\* A step of the goroutine of r, or of what acts on that run alone.
RunStep(r) ==
  \/ Advance(r) \/ ReportProgress(r) \/ StepWedges(r)
  \/ SessionExpires(r) \/ Expire(r) \/ Sweep(r)

\* Such a step touches no call, no other run and no fingerprint.
LEMMA RunStepIsLocal ==
  ASSUME TypeOK, NEW r \in Runs, RunStep(r)
  PROVE  /\ UNCHANGED <<calls, process, fp>>
         /\ \A q \in Runs \ {r} :
              /\ row'[q] = row[q] /\ reg'[q] = reg[q] /\ pc'[q] = pc[q]
              /\ loc'[q] = loc[q] /\ ctx'[q] = ctx[q] /\ exec'[q] = exec[q]
              /\ q \in cancels' <=> q \in cancels
              /\ q \in cancelReq' <=> q \in cancelReq
<1> USE DEF TypeOK, durable, registry, calls, worker, process, Goto, Saved
<1>1. CASE Setup(r)
  BY <1>1 DEF Setup, SetCancel, CancelledBeforeStart, DecodeInputs, SaveRunning, SetupFails
<1>2. CASE BeginStep(r) BY <1>2 DEF BeginStep
<1>3. CASE StepReturns(r) BY <1>3 DEF StepReturns, StepSucceeds, StepErrors
<1>4. CASE JudgeStepError(r) \/ AllStepsDone(r)
  BY <1>4 DEF JudgeStepError, AllStepsDone
<1>5. CASE FinishSave(r) \/ FinishPut(r) BY <1>5 DEF FinishSave, FinishPut
<1>6. CASE ReportProgress(r) BY <1>6 DEF ReportProgress
<1>7. CASE StepWedges(r) \/ SessionExpires(r) \/ Expire(r) \/ Sweep(r)
  BY <1>7 DEF StepWedges, SessionExpires, InTable, Expire, Sweep
<1>. QED BY <1>1, <1>2, <1>3, <1>4, <1>5, <1>6, <1>7 DEF RunStep, Advance

\* The invariant of r and what the calls rely on survive a step of r: no row is
\* created or revived, and a flag goes only with its run.
LEMMA RunStepInv ==
  ASSUME TypeOK, NEW r \in Runs, RunInv(r), RunStep(r)
  PROVE  /\ RunInv(r)'
         /\ row'[r].status \in InFlight => row[r].status \in InFlight
         /\ row[r].status = "absent" <=> row'[r].status = "absent"
         /\ pc[r] # "none" /\ pc'[r] # "none"
         /\ r \in cancelReq \/ (pc[r] = "done" /\ r \notin cancels)
              => r \in cancelReq' \/ (pc'[r] = "done" /\ r \notin cancels')
<1> USE DEF TypeOK, RunInv, RowInv, ActiveInv, LocInv, StrandedInv, CancelInv,
            Active, Goto, durable, registry, calls, worker, process,
            InFlight, Terminal
<1>1. CASE SetCancel(r) BY <1>1 DEF SetCancel
<1>2. CASE CancelledBeforeStart(r)
  BY <1>2, EndedType DEF CancelledBeforeStart, ErrorText, FailureClass
<1>3. CASE DecodeInputs(r) BY <1>3 DEF DecodeInputs, Snapshot
<1>4. CASE SaveRunning(r)
  <2>1. row'[r].status = IF ctx[r] = "live" THEN loc[r].status ELSE row[r].status
    BY <1>4, SavedType DEF SaveRunning
  <2>. QED BY <1>4, <2>1 DEF SaveRunning
<1>5. CASE SetupFails(r) BY <1>5, EndedType DEF SetupFails, ErrorText, FailureClass
<1>6. CASE BeginStep(r)
  <2> DEFINE s == [loc[r] EXCEPT !.steps = Append(@, "running")]
  <2>1. loc[r] \in Snapshot /\ loc[r].steps \in Seq(StepStatus) BY DEF Snapshot
  <2>2. Append(loc[r].steps, "running") \in Seq(StepStatus)
    BY <2>1, AppendProperties DEF StepStatus
  <2>3. s \in Snapshot /\ s.status = loc[r].status BY <2>1, <2>2 DEF Snapshot
  <2>4. row' = Saved(r, s, ctx[r]) /\ loc' = [loc EXCEPT ![r] = s]
        /\ reg' = [reg EXCEPT ![r] = s]
    BY <1>6 DEF BeginStep
  <2> HIDE DEF s
  <2>5. row'[r].status = IF ctx[r] = "live" THEN s.status ELSE row[r].status
    BY <2>3, <2>4, SavedType
  <2>. QED BY <1>6, <2>3, <2>4, <2>5 DEF BeginStep
<1>7. CASE StepSucceeds(r)
  <2>1. Step(loc[r], "succeeded") \in Snapshot
        /\ Step(loc[r], "succeeded").status = loc[r].status
    BY StepType DEF StepStatus
  <2>2. row'[r].status = IF ctx[r] = "live" THEN loc[r].status ELSE row[r].status
    BY <1>7, <2>1, SavedType DEF StepSucceeds
  <2>. QED BY <1>7, <2>1, <2>2 DEF StepSucceeds
<1>8. CASE StepErrors(r) BY <1>8 DEF StepErrors
<1>9. CASE JudgeStepError(r)
  <2>1. Step(loc[r], "cancelled") \in Snapshot /\ Step(loc[r], "failed") \in Snapshot
    BY StepType DEF StepStatus
  <2>2. CASE IsCancel(r)
    <3>1. loc'[r].status = "cancelled"
      BY <1>9, <2>1, <2>2, EndedType DEF JudgeStepError, ErrorText, FailureClass
    <3>. QED BY <1>9, <2>2, <3>1 DEF JudgeStepError, IsCancel
  <2>3. CASE ~IsCancel(r)
    <3>1. loc'[r].status = "failed"
      BY <1>9, <2>1, <2>3, EndedType DEF JudgeStepError, ErrorText, FailureClass
    <3>. QED BY <1>9, <2>3, <3>1 DEF JudgeStepError, IsCancel
  <2>. QED BY <2>2, <2>3
<1>10. CASE AllStepsDone(r) BY <1>10 DEF AllStepsDone, Snapshot
<1>11. CASE FinishSave(r)
  <2>1. row'[r].status = IF pc[r] = "finishBackground" \/ ctx[r] = "live" THEN loc[r].status ELSE row[r].status
    BY <1>11, SavedType DEF FinishSave
  <2>. QED BY <1>11, <2>1 DEF FinishSave
<1>12. CASE FinishPut(r) BY <1>12 DEF FinishPut
<1>13. CASE ReportProgress(r)
  <2>1. row'[r].status = IF TRUE THEN loc[r].status ELSE row[r].status
    BY <1>13, SavedType DEF ReportProgress
  <2>. QED BY <1>13, <2>1 DEF ReportProgress
<1>14. CASE StepWedges(r) BY <1>14 DEF StepWedges
<1>15. CASE SessionExpires(r) BY <1>15 DEF SessionExpires, InTable
<1>16. CASE Expire(r) BY <1>16 DEF Expire
<1>17. CASE Sweep(r) BY <1>17, EmptyRecords DEF Sweep
<1>. QED
  BY <1>1, <1>2, <1>3, <1>4, <1>5, <1>6, <1>7, <1>8, <1>9, <1>10, <1>11, <1>12,
     <1>13, <1>14, <1>15, <1>16, <1>17
     DEF RunStep, Advance, Setup, StepReturns

LEMMA RunStepKeepsIInv ==
  ASSUME IInv, NEW r \in Runs, RunStep(r)
  PROVE  IInv'
<1>1. TypeOK /\ RunInv(r) BY DEF IInv
<1>2. TypeOK' BY <1>1, TypeGoroutine DEF RunStep
<1>3. /\ UNCHANGED <<calls, process, fp>>
      /\ \A q \in Runs \ {r} :
           /\ row'[q] = row[q] /\ reg'[q] = reg[q] /\ pc'[q] = pc[q]
           /\ loc'[q] = loc[q] /\ ctx'[q] = ctx[q] /\ exec'[q] = exec[q]
           /\ q \in cancels' <=> q \in cancels
           /\ q \in cancelReq' <=> q \in cancelReq
  BY <1>1, RunStepIsLocal
<1>4. /\ RunInv(r)'
      /\ row'[r].status \in InFlight => row[r].status \in InFlight
      /\ row[r].status = "absent" <=> row'[r].status = "absent"
      /\ pc[r] # "none" /\ pc'[r] # "none"
      /\ r \in cancelReq \/ (pc[r] = "done" /\ r \notin cancels)
           => r \in cancelReq' \/ (pc'[r] = "done" /\ r \notin cancels')
  BY <1>1, RunStepInv
<1>5. \A q \in Runs : RunInv(q)'
  <2> SUFFICES ASSUME NEW q \in Runs, q # r PROVE RunInv(q)' BY <1>4
  <2>. QED
    BY <1>3 DEF IInv, RunInv, RowInv, ActiveInv, LocInv, StrandedInv, CancelInv, Active
<1>6. AtMostOneInFlight' BY <1>3, <1>4 DEF IInv, AtMostOneInFlight
<1>7. phase = "up" /\ phase' = "up" /\ orphans' = orphans
  BY <1>3, <1>4 DEF IInv, DownInv, process
<1>8. DownInv' BY <1>7 DEF IInv, DownInv
<1>9. InFlightRowsAccounted'
  <2> SUFFICES ASSUME NEW q \in Runs, row'[q].status \in InFlight
               PROVE  \/ Active(q)' \/ Registering(q)'
                      \/ pc'[q] \in {"publish", "done"}
                           /\ (ctx'[q] # "live" \/ q \in cancelReq')
    BY DEF InFlightRowsAccounted
  <2>1. CASE q = r BY <2>1, <1>4 DEF RunInv, StrandedInv, Active
  <2>2. CASE q # r
    BY <2>2, <1>3, <1>7 DEF IInv, InFlightRowsAccounted, Active, Registering, calls
  <2>. QED BY <2>1, <2>2
<1>10. \A c \in Clients : CallInv(c)'
  <2> SUFFICES ASSUME NEW c \in Clients PROVE CallInv(c)' OBVIOUS
  <2>1. CallInv(c) /\ req' = req /\ startMu' = startMu /\ fp' = fp
    BY <1>3 DEF IInv, calls
  <2>2. InFlightRows(req[c].fp)' \subseteq InFlightRows(req[c].fp)
    BY <2>1, <1>3, <1>4 DEF InFlightRows, InFlight
  <2>3. req[c].op = "register" => req[c].run # r BY <2>1, <1>4 DEF CallInv
  <2>4. req[c].op \in {"register", "mark", "fire", "kill"} => req[c].run \in Runs
    BY <1>1 DEF TypeOK
  <2>. QED BY <2>1, <2>2, <2>3, <2>4, <1>3, <1>4 DEF CallInv
<1>. QED BY <1>2, <1>5, <1>6, <1>8, <1>9, <1>10 DEF IInv

-----------------------------------------------------------------------------
(* Calls *)

\* A call's step that leaves the runs alone: only the call itself is in doubt.
LEMMA QuietCallKeepsIInv ==
  ASSUME IInv, TypeOK', NEW c \in Clients, phase = "up",
         UNCHANGED <<durable, registry, worker, process>>,
         \A d \in Clients \ {c} : req'[d] = req[d] /\ (startMu' = d <=> startMu = d),
         req[c].op # "register" /\ req'[c].op # "register", CallInv(c)'
  PROVE  IInv'
<1> USE DEF durable, registry, worker, process
<1>1. \A r \in Runs : RunInv(r)'
  BY DEF IInv, RunInv, RowInv, ActiveInv, LocInv, StrandedInv, CancelInv, Active
<1>2. AtMostOneInFlight' /\ DownInv'
  BY DEF IInv, AtMostOneInFlight, DownInv
<1>3. \A d \in Clients : CallInv(d)'
  BY DEF IInv, CallInv, InFlightRows
<1>4. \A r \in Runs : Registering(r) => Registering(r)'
  BY DEF Registering
<1>5. InFlightRowsAccounted'
  BY <1>4 DEF IInv, InFlightRowsAccounted, Active
<1>. QED BY <1>1, <1>2, <1>3, <1>5 DEF IInv

LEMMA CallKeepsIInv ==
  ASSUME IInv, NEW c \in Clients, StartCall(c) \/ InStart(c) \/ InCancel(c)
  PROVE  IInv'
<1> USE DEF durable, registry, calls, worker, process
<1>1. TypeOK /\ CallInv(c) BY DEF IInv
<1>2. TypeOK' BY <1>1, TypeCalls
<1>3. phase = "up"
  BY DEF IInv, DownInv, Idle, StartCall, InStart, InCancel, CallStart, CallRerun,
         CallCancel, LookupMisses, AbandonStart, InsertFails, RegisterRun, Coalesce,
         InsertRun, MarkCancelRequested, FireCancel, KillSessions
<1>4. ASSUME NEW f \in Fingerprints, CallStart(c, f) PROVE IInv'
  BY <1>1, <1>2, <1>3, <1>4, QuietCallKeepsIInv DEF CallStart, CallInv, Idle, TypeOK
<1>5. ASSUME NEW r \in Runs, CallRerun(c, r) PROVE IInv'
  <2>1. fp[r] \in Fingerprints
    BY <1>5, EmptyRecords DEF CallRerun, View, IInv, RunInv, RowInv, Scanned
  <2>. QED
    BY <1>1, <1>2, <1>3, <1>5, <2>1, QuietCallKeepsIInv
       DEF CallRerun, CallInv, Idle, TypeOK
<1>6. ASSUME NEW r \in Runs, CallCancel(c, r) PROVE IInv'
  <2>1. row[r].status # "absent"
    BY <1>6, EmptyRecords DEF CallCancel, View, IInv, RunInv, RowInv, Scanned, InFlight
  <2>. QED
    BY <1>1, <1>2, <1>3, <1>6, <2>1, QuietCallKeepsIInv
       DEF CallCancel, CallInv, Idle, TypeOK
<1>7. CASE LookupMisses(c)
  <2>1. \A d \in Clients \ {c} : req'[d] = req[d] /\ (startMu' = d <=> startMu = d)
    BY <1>1, <1>7, ParameterAssumption DEF LookupMisses, TypeOK
  <2>2. CallInv(c)'
    BY <1>1, <1>7 DEF LookupMisses, CallInv, InFlightRows, TypeOK
  <2>. QED
    BY <1>1, <1>2, <1>3, <1>7, <2>1, <2>2, QuietCallKeepsIInv DEF LookupMisses, TypeOK
<1>8. CASE AbandonStart(c)
  BY <1>1, <1>2, <1>3, <1>8, QuietCallKeepsIInv DEF AbandonStart, CallInv, Idle, TypeOK
<1>9. CASE InsertFails(c)
  <2>1. startMu = c BY <1>1, <1>9 DEF InsertFails, CallInv
  <2>2. \A d \in Clients \ {c} : req'[d] = req[d] /\ (startMu' = d <=> startMu = d)
    BY <1>1, <1>9, <2>1, ParameterAssumption DEF InsertFails, TypeOK
  <2>3. CallInv(c)' BY <1>1, <1>9, ParameterAssumption DEF InsertFails, CallInv, Idle, TypeOK
  <2>. QED
    BY <1>1, <1>2, <1>3, <1>9, <2>2, <2>3, QuietCallKeepsIInv
       DEF InsertFails, Idle, TypeOK
<1>10. ASSUME NEW r \in Runs, Coalesce(c, r) PROVE IInv'
  BY <1>1, <1>2, <1>3, <1>10, QuietCallKeepsIInv DEF Coalesce, CallInv, Idle, TypeOK
<1>11. ASSUME NEW r \in Runs, InsertRun(c, r) PROVE IInv'
  <2>1. /\ startMu = c /\ InFlightRows(req[c].fp) = {} /\ req[c].fp \in Fingerprints
        /\ row[r].status = "absent" /\ pc[r] = "none"
        /\ \A d \in Clients : req[d].run # r
    BY <1>1, <1>11 DEF InsertRun, CallInv, IInv, RunInv, RowInv
  <2>2. /\ row'[r].status = "pending" /\ fp'[r] = req[c].fp
        /\ \A q \in Runs \ {r} : row'[q] = row[q] /\ fp'[q] = fp[q]
        /\ UNCHANGED <<registry, worker, process, startMu>>
        /\ req'[c] = [op |-> "register", fp |-> req[c].fp, run |-> r]
        /\ \A d \in Clients \ {c} : req'[d] = req[d]
    BY <1>1, <1>11, EmptyRecords DEF InsertRun, TypeOK
  <2>3. AtMostOneInFlight'
    BY <2>1, <2>2 DEF IInv, AtMostOneInFlight, InFlightRows, InFlight
  <2>4. DownInv' BY <1>3, <2>2 DEF IInv, DownInv
  <2>5. \A q \in Runs : RunInv(q)'
    <3> SUFFICES ASSUME NEW q \in Runs PROVE RunInv(q)' OBVIOUS
    <3>1. RunInv(q) BY DEF IInv
    <3>2. CASE q = r
      BY <3>1, <3>2, <2>1, <2>2
         DEF RunInv, RowInv, ActiveInv, LocInv, StrandedInv, CancelInv, Active
    <3>3. CASE q # r
      BY <3>1, <3>3, <2>2
         DEF RunInv, RowInv, ActiveInv, LocInv, StrandedInv, CancelInv, Active
    <3>. QED BY <3>2, <3>3
  <2>6. \A d \in Clients : CallInv(d)'
    <3> SUFFICES ASSUME NEW d \in Clients PROVE CallInv(d)' OBVIOUS
    <3>1. CallInv(d) BY DEF IInv
    <3>2. CASE d = c BY <3>1, <3>2, <2>1, <2>2 DEF CallInv
    <3>3. CASE d # c
      <4>1. req'[d] = req[d] /\ req[d].op \notin {"insert", "register"}
        BY <3>1, <3>3, <2>1, <2>2 DEF CallInv
      <4>. QED BY <3>1, <4>1, <2>1, <2>2 DEF CallInv
    <3>. QED BY <3>2, <3>3
  <2>7. InFlightRowsAccounted'
    <3>1. Registering(r)' BY <2>2 DEF Registering
    <3>2. \A q \in Runs : Registering(q) => Registering(q)'
      BY <1>11, <2>2 DEF Registering, InsertRun
    <3>. QED BY <3>1, <3>2, <2>2 DEF IInv, InFlightRowsAccounted, Active
  <2>. QED BY <1>2, <2>3, <2>4, <2>5, <2>6, <2>7 DEF IInv
<1>12. CASE RegisterRun(c)
  <2> DEFINE r == req[c].run
  <2>1. /\ startMu = c /\ r \in Runs /\ row[r].status = "pending" /\ pc[r] = "none"
        /\ fp[r] \in Fingerprints /\ reg[r] = NoSnapshot /\ exec[r] = "none"
        /\ ctx[r] = "live"
    BY <1>1, <1>12 DEF RegisterRun, CallInv, IInv, RunInv, RowInv, TypeOK
  <2> HIDE DEF r
  <2>2. /\ reg'[r].status = "pending" /\ pc'[r] = "spawned" /\ loc'[r].status = "pending"
        /\ \A q \in Runs \ {r} : reg'[q] = reg[q] /\ pc'[q] = pc[q] /\ loc'[q] = loc[q]
        /\ UNCHANGED <<cancels, cancelReq, ctx, exec, durable, process>>
        /\ req'[c] = Idle /\ startMu' = None
        /\ \A d \in Clients \ {c} : req'[d] = req[d]
    BY <1>1, <1>12, <2>1, EmptyRecords DEF RegisterRun, TypeOK, r
  <2>3. AtMostOneInFlight' /\ DownInv'
    BY <1>3, <2>2 DEF IInv, AtMostOneInFlight, DownInv
  <2>4. \A q \in Runs : RunInv(q)'
    <3> SUFFICES ASSUME NEW q \in Runs PROVE RunInv(q)' OBVIOUS
    <3>1. RunInv(q) BY DEF IInv
    <3>2. CASE q = r
      BY <3>1, <3>2, <2>1, <2>2
         DEF RunInv, RowInv, ActiveInv, LocInv, StrandedInv, CancelInv, Active, InFlight
    <3>3. CASE q # r
      BY <3>1, <3>3, <2>2
         DEF RunInv, RowInv, ActiveInv, LocInv, StrandedInv, CancelInv, Active
    <3>. QED BY <3>2, <3>3
  <2>5. \A d \in Clients : CallInv(d)'
    <3> SUFFICES ASSUME NEW d \in Clients PROVE CallInv(d)' OBVIOUS
    <3>1. CallInv(d) BY DEF IInv
    <3>2. CASE d = c
      BY <3>2, <2>2, ParameterAssumption DEF CallInv, Idle
    <3>3. CASE d # c
      <4>1. /\ req'[d] = req[d] /\ req[d].op \notin {"insert", "register"}
            /\ startMu' # d
        BY <3>1, <3>3, <2>1, <2>2, ParameterAssumption DEF CallInv
      <4>2. req[d].op \in {"fire", "kill"} => req[d].run \in Runs BY <1>1 DEF TypeOK
      <4>. QED BY <3>1, <4>1, <4>2, <2>1, <2>2 DEF CallInv
    <3>. QED BY <3>2, <3>3
  <2>6. InFlightRowsAccounted'
    <3>1. \A q \in Runs \ {r} : Registering(q) => Registering(q)'
      BY <2>2 DEF Registering, r
    <3>2. pc'[r] \notin {"none", "publish", "done"} BY <2>2
    <3>. QED BY <3>1, <3>2, <2>1, <2>2 DEF IInv, InFlightRowsAccounted, Active
  <2>. QED BY <1>2, <2>3, <2>4, <2>5, <2>6 DEF IInv
<1>13. CASE InCancel(c)
  <2>0. req[c].run \in Runs
    BY <1>1, <1>13 DEF InCancel, MarkCancelRequested, FireCancel, KillSessions, TypeOK
  <2>. PICK r \in Runs : r = req[c].run BY <2>0
  <2>1. row[r].status # "absent" /\ req[c].op \in {"mark", "fire", "kill"}
    BY <1>1, <1>13
       DEF InCancel, MarkCancelRequested, FireCancel, KillSessions, CallInv
  <2>2. /\ UNCHANGED <<durable, process, startMu, reg, pc, loc>>
        /\ \A d \in Clients \ {c} : req'[d] = req[d]
        /\ req'[c].op \in {"fire", "kill", "idle"}
        /\ req'[c].op # "idle" => req'[c].run = r
        /\ req'[c].op = "idle" => req'[c] = Idle
        /\ \A q \in Runs \ {r} :
             /\ ctx'[q] = ctx[q] /\ exec'[q] = exec[q]
             /\ q \in cancelReq' <=> q \in cancelReq
        /\ cancels' \subseteq cancels /\ cancelReq \subseteq cancelReq'
    <3>1. CASE MarkCancelRequested(c) BY <1>1, <3>1 DEF MarkCancelRequested, TypeOK
    <3>2. CASE FireCancel(c) BY <1>1, <3>2 DEF FireCancel, TypeOK
    <3>3. CASE KillSessions(c) BY <1>1, <3>3 DEF KillSessions, TypeOK, Idle
    <3>. QED BY <1>13, <3>1, <3>2, <3>3 DEF InCancel
  <2>3. RunInv(r) BY <2>1 DEF IInv
  <2>4. RunInv(r)' /\ CallInv(c)' /\ (ctx'[r] = "live" => ctx[r] = "live")
    <3>1. CASE MarkCancelRequested(c)
      <4>1. UNCHANGED <<ctx, exec>> /\ r \in cancelReq'
        BY <3>1 DEF MarkCancelRequested
      <4>2. RunInv(r)'
        BY <4>1, <2>1, <2>2, <2>3
           DEF RunInv, RowInv, ActiveInv, LocInv, StrandedInv, CancelInv, Active
      <4>3. CallInv(c)'
        BY <1>1, <3>1, <2>1, <2>2, <4>1, ParameterAssumption
           DEF MarkCancelRequested, CallInv, TypeOK
      <4>. QED BY <4>1, <4>2, <4>3
    <3>2. CASE FireCancel(c)
      <4>1. /\ UNCHANGED <<exec, cancelReq>>
            /\ ctx'[r] = IF r \in cancels /\ ctx[r] = "live" THEN "canceled" ELSE ctx[r]
            /\ req'[c].op = "kill" /\ r \notin cancels'
        BY <1>1, <3>2, <2>1 DEF FireCancel, TypeOK
      <4>2. r \in cancelReq \/ (pc[r] = "done" /\ r \notin cancels)
        BY <1>1, <3>2 DEF FireCancel, CallInv
      <4>3. RunInv(r)'
        BY <4>1, <4>2, <2>1, <2>2, <2>3
           DEF RunInv, RowInv, ActiveInv, LocInv, StrandedInv, CancelInv, Active
      <4>4. CallInv(c)'
        BY <1>1, <3>2, <2>1, <2>2, <4>1, <4>2 DEF FireCancel, CallInv
      <4>. QED BY <4>1, <4>3, <4>4
    <3>3. CASE KillSessions(c)
      <4>1. /\ UNCHANGED <<ctx, cancels, cancelReq>> /\ req'[c] = Idle
            /\ \/ exec'[r] = exec[r]
               \/ /\ exec[r] \in {"wedged", "missed", "leaked", "working"}
                  /\ exec'[r] \in {"killed", "missed", "leaked"}
                  /\ exec'[r] # "killed" => exec[r] # "working"
        BY <1>1, <3>3, <2>1 DEF KillSessions, AfterKill, TypeOK
      <4>2. r \in cancelReq \/ (pc[r] = "done" /\ r \notin cancels)
        BY <1>1, <3>3 DEF KillSessions, CallInv
      <4>3. RunInv(r)'
        BY <4>1, <4>2, <2>1, <2>2, <2>3
           DEF RunInv, RowInv, ActiveInv, LocInv, StrandedInv, CancelInv, Active
      <4>4. CallInv(c)'
        BY <1>1, <3>3, <2>1, <2>2, <4>1, ParameterAssumption DEF KillSessions, CallInv, Idle
      <4>. QED BY <4>1, <4>3, <4>4
    <3>. QED BY <1>13, <3>1, <3>2, <3>3 DEF InCancel
  <2>5. \A q \in Runs : RunInv(q)'
    <3> SUFFICES ASSUME NEW q \in Runs, q # r PROVE RunInv(q)' BY <2>4
    <3>. QED
      BY <2>2 DEF IInv, RunInv, RowInv, ActiveInv, LocInv, StrandedInv, CancelInv, Active
  <2>6. \A d \in Clients : CallInv(d)'
    <3> SUFFICES ASSUME NEW d \in Clients, d # c PROVE CallInv(d)' BY <2>4
    <3>1. CallInv(d) /\ req'[d] = req[d] BY <2>2 DEF IInv
    <3>2. InFlightRows(req[d].fp)' = InFlightRows(req[d].fp)
      BY <2>2, <3>1 DEF InFlightRows
    <3>. QED BY <3>1, <3>2, <2>2 DEF CallInv
  <2>7. AtMostOneInFlight' /\ DownInv'
    BY <1>3, <2>2 DEF IInv, AtMostOneInFlight, DownInv
  <2>8. InFlightRowsAccounted'
    <3>1. \A q \in Runs : Registering(q) => Registering(q)'
      BY <2>1, <2>2 DEF Registering
    <3>. QED BY <3>1, <2>2, <2>4 DEF IInv, InFlightRowsAccounted, Active
  <2>. QED BY <1>2, <2>5, <2>6, <2>7, <2>8 DEF IInv
<1>. QED
  BY <1>4, <1>5, <1>6, <1>7, <1>8, <1>9, <1>10, <1>11, <1>12, <1>13
     DEF StartCall, InStart

-----------------------------------------------------------------------------
(* Crash and boot *)

LEMMA ProcessKeepsIInv ==
  ASSUME IInv, Crash \/ Boot
  PROVE  IInv'
<1> USE DEF durable, registry, calls, worker, process
<1>1. TypeOK' BY TypeProcess DEF IInv
<1>2. CASE Crash
  <2>1. \A r \in Runs : RunInv(r)'
    BY <1>2, EmptyRecords
       DEF Crash, IInv, RunInv, RowInv, ActiveInv, LocInv, StrandedInv, CancelInv,
           Active, InFlight
  <2>2. \A c \in Clients : CallInv(c)'
    BY <1>2, ParameterAssumption DEF Crash, CallInv, Idle
  <2>3. AtMostOneInFlight' /\ InFlightRowsAccounted' /\ DownInv'
    BY <1>2 DEF Crash, IInv, AtMostOneInFlight, InFlightRowsAccounted, DownInv
  <2>. QED BY <1>1, <2>1, <2>2, <2>3 DEF IInv
<1>3. CASE ListOrphans \/ Listen
  <2>1. UNCHANGED <<durable, registry, calls, worker>>
    BY <1>3 DEF ListOrphans, Listen
  <2>2. \A r \in Runs : RunInv(r)'
    BY <2>1 DEF IInv, RunInv, RowInv, ActiveInv, LocInv, StrandedInv, CancelInv, Active
  <2>3. \A c \in Clients : CallInv(c)'
    BY <2>1 DEF IInv, CallInv, InFlightRows
  <2>4. AtMostOneInFlight' BY <2>1 DEF IInv, AtMostOneInFlight
  <2>5. InFlightRowsAccounted' /\ DownInv'
    BY <1>3, <2>1 DEF ListOrphans, Listen, IInv, InFlightRowsAccounted, DownInv, InFlight
  <2>. QED BY <1>1, <2>2, <2>3, <2>4, <2>5 DEF IInv
<1>4. ASSUME NEW r \in Runs, Reap(r) PROVE IInv'
  <2>1. /\ row[r].status \in InFlight /\ phase = "booting"
        /\ row'[r].status = "failed"
        /\ \A q \in Runs \ {r} : row'[q] = row[q]
        /\ orphans' = orphans \ {r}
        /\ UNCHANGED <<fp, phase, crashes, registry, calls, worker>>
    BY <1>4, ReapedType DEF Reap, IInv, DownInv, TypeOK
  <2>2. (\A q \in Runs : pc[q] = "none") /\ (\A c \in Clients : req[c] = Idle)
    BY <2>1 DEF IInv, DownInv
  <2>3. \A q \in Runs : RunInv(q)'
    <3> SUFFICES ASSUME NEW q \in Runs PROVE RunInv(q)' OBVIOUS
    <3>1. RunInv(q) BY DEF IInv
    <3>. QED
      BY <3>1, <2>1, <2>2
         DEF RunInv, RowInv, ActiveInv, LocInv, StrandedInv, CancelInv, Active, InFlight
  <2>4. \A c \in Clients : CallInv(c)'
    BY <2>1, <2>2, ParameterAssumption DEF IInv, CallInv, Idle
  <2>5. AtMostOneInFlight' /\ InFlightRowsAccounted' /\ DownInv'
    BY <2>1, <2>2 DEF IInv, AtMostOneInFlight, InFlightRowsAccounted, DownInv, InFlight
  <2>. QED BY <1>1, <2>3, <2>4, <2>5 DEF IInv
<1>. QED BY <1>2, <1>3, <1>4 DEF Boot

-----------------------------------------------------------------------------
(* The theorems *)

LEMMA InitIInv == Init => IInv
<1> SUFFICES ASSUME Init PROVE IInv OBVIOUS
<1>1. TypeOK BY TypeInit
<1>2. \A r \in Runs : RunInv(r)
  BY EmptyRecords
     DEF Init, RunInv, RowInv, ActiveInv, LocInv, StrandedInv, CancelInv, Active, InFlight
<1>3. \A c \in Clients : CallInv(c)
  BY ParameterAssumption DEF Init, CallInv, Idle
<1>4. AtMostOneInFlight /\ InFlightRowsAccounted /\ DownInv
  BY EmptyRecords DEF Init, AtMostOneInFlight, InFlightRowsAccounted, DownInv, InFlight
<1>. QED BY <1>1, <1>2, <1>3, <1>4 DEF IInv

LEMMA NextIInv == IInv /\ [Next]_vars => IInv'
<1> SUFFICES ASSUME IInv, [Next]_vars PROVE IInv' OBVIOUS
<1>1. CASE Next
  BY <1>1, CallKeepsIInv, RunStepKeepsIInv, ProcessKeepsIInv DEF Next, RunStep
<1>2. CASE UNCHANGED vars
  BY <1>2
     DEF IInv, vars, durable, registry, calls, worker, process, TypeOK,
         AtMostOneInFlight, InFlightRowsAccounted, DownInv, RunInv, RowInv,
         ActiveInv, LocInv, StrandedInv, CancelInv, CallInv, Active, Registering,
         InFlightRows
<1>. QED BY <1>1, <1>2

LEMMA Invariance == Spec => []IInv
BY InitIInv, NextIInv, PTL DEF Spec

\* At most one row per fingerprint is in flight, always.
THEOREM OneRowPerRequest == Spec => []AtMostOneInFlight
<1>1. IInv => AtMostOneInFlight BY DEF IInv
<1>. QED BY <1>1, Invariance, PTL

\* No two goroutines ever execute the same request.
THEOREM NoDuplicate == Spec => []NoDuplicateExecution
<1>1. IInv => NoDuplicateExecution
  BY DEF IInv, NoDuplicateExecution, AtMostOneInFlight, RunInv, ActiveInv
<1>. QED BY <1>1, Invariance, PTL

\* The unique index never refuses an insert.
THEOREM IndexIsIdle == Spec => []IndexNeverRefuses
<1>1. IInv => IndexNeverRefuses BY DEF IInv, IndexNeverRefuses, CallInv
<1>. QED BY <1>1, Invariance, PTL

\* Every row in flight has a goroutine that will end it, or one that ended on a
\* dead context or after a cancel request.
THEOREM RowsAccounted == Spec => []InFlightRowsAccounted
<1>1. IInv => InFlightRowsAccounted BY DEF IInv
<1>. QED BY <1>1, Invariance, PTL

\* A step killed by CancelRun is never reported as a failure, and only a run
\* that was asked to be is reported cancelled.
THEOREM CancelIsTruthful == Spec => []KilledIsCancelled
<1>1. IInv => KilledIsCancelled BY DEF IInv, KilledIsCancelled, RunInv, CancelInv
<1>. QED BY <1>1, Invariance, PTL

-----------------------------------------------------------------------------
(* PipelineRuns implements SingleFlight *)

\* What Owner means while AtMostOneInFlight holds: it is the run in flight, if any.
OwnerSound ==
  \A f \in Fingerprints :
    /\ \A r \in InFlightRows(f) : Owner(f) = r
    /\ InFlightRows(f) = {} => Owner(f) = None

LEMMA OwnerIsTheRow == IInv => OwnerSound
<1> SUFFICES ASSUME IInv, NEW f \in Fingerprints
             PROVE  /\ \A r \in InFlightRows(f) : Owner(f) = r
                    /\ InFlightRows(f) = {} => Owner(f) = None
  BY DEF OwnerSound
<1>1. ASSUME NEW r \in InFlightRows(f) PROVE Owner(f) = r
  <2>1. \A q \in InFlightRows(f) : q = r
    BY DEF IInv, AtMostOneInFlight, InFlightRows, InFlight
  <2>2. Owner(f) \in InFlightRows(f) BY <1>1 DEF Owner
  <2>. QED BY <2>1, <2>2
<1>2. InFlightRows(f) = {} => Owner(f) = None BY DEF Owner
<1>. QED BY <1>1, <1>2

\* A step that leaves requests, answers and which rows are absent or in flight alone.
Quiet ==
  /\ fp' = fp /\ answer' = answer
  /\ \A r \in Runs :
       /\ row'[r].status \in InFlight <=> row[r].status \in InFlight
       /\ row'[r].status = "absent" <=> row[r].status = "absent"

\* A quiet step changes nothing SingleFlight sees.
LEMMA QuietStutters == Quiet => UNCHANGED SF!vars
<1> SUFFICES ASSUME Quiet PROVE UNCHANGED SF!vars OBVIOUS
<1>1. ASSUME NEW f \in Fingerprints PROVE Owner(f)' = Owner(f)
  <2>1. InFlightRows(f)' = InFlightRows(f) BY DEF Quiet, InFlightRows, InFlight
  <2>. QED BY <2>1 DEF Owner
<1>2. {r \in Runs : row[r].status # "absent"}' = {r \in Runs : row[r].status # "absent"}
  BY DEF Quiet
<1>3. [f \in Fingerprints |-> Owner(f)]' = [f \in Fingerprints |-> Owner(f)]
  BY <1>1
<1>. QED BY <1>2, <1>3 DEF SF!vars, Quiet

\* One row leaves flight, and nothing else changes.
Ends(r) ==
  /\ fp' = fp /\ answer' = answer
  /\ row[r].status \in InFlight /\ row'[r].status \in Terminal
  /\ \A q \in Runs \ {r} : row'[q] = row[q]

LEMMA EndsSettles ==
  ASSUME IInv, IInv', NEW r \in Runs, Ends(r) PROVE SF!Next
<1>0. PICK f \in Fingerprints : f = fp[r]
  BY DEF IInv, RunInv, RowInv, Ends, InFlight
<1>1. f \in Fingerprints /\ row[r].status # "absent" BY DEF Ends, InFlight
<1>2. OwnerSound /\ OwnerSound' BY OwnerIsTheRow, PTL
<1>3. r \in InFlightRows(f) /\ InFlightRows(f)' = {}
  BY <1>0 DEF IInv, AtMostOneInFlight, InFlightRows, Ends, InFlight, Terminal
<1>4. Owner(f) = r /\ Owner(f)' = None BY <1>1, <1>2, <1>3 DEF OwnerSound
<1>5. ASSUME NEW g \in Fingerprints, g # f PROVE Owner(g)' = Owner(g)
  <2>1. InFlightRows(g)' = InFlightRows(g)
    BY <1>0, <1>5 DEF InFlightRows, Ends
  <2>. QED BY <2>1 DEF Owner
<1>6. r # None BY ParameterAssumption
<1>7. {q \in Runs : row[q].status # "absent"}' = {q \in Runs : row[q].status # "absent"}
  BY <1>1 DEF Ends, Terminal
<1>8. [g \in Fingerprints |-> Owner(g)]'
        = [[g \in Fingerprints |-> Owner(g)] EXCEPT ![f] = None]
  BY <1>1, <1>4, <1>5
<1>9. SF!Settle(f) BY <1>1, <1>4, <1>6, <1>7, <1>8 DEF SF!Settle, Ends
<1>. QED BY <1>1, <1>9 DEF SF!Next

\* A step of a goroutine, or of what acts on one run alone, ends the run's row or is
\* not seen.
LEMMA RunStepImplements ==
  ASSUME IInv, IInv', NEW r \in Runs, RunStep(r)
  PROVE  SF!Next \/ UNCHANGED SF!vars
<1>1. TypeOK /\ TypeOK' /\ RunInv(r) BY DEF IInv
<1>2. /\ fp' = fp /\ answer' = answer
      /\ \A q \in Runs \ {r} : row'[q] = row[q]
  BY <1>1, RunStepIsLocal DEF calls
<1>3. /\ row'[r].status \in InFlight => row[r].status \in InFlight
      /\ row[r].status = "absent" <=> row'[r].status = "absent"
  BY <1>1, RunStepInv
<1>4. row'[r].status \in Status BY <1>1 DEF TypeOK, Row
<1>5. CASE row[r].status \in InFlight /\ row'[r].status \notin InFlight
  <2>1. Ends(r) BY <1>2, <1>3, <1>4, <1>5 DEF Ends, Status, InFlight
  <2>. QED BY <2>1, EndsSettles
<1>6. CASE ~(row[r].status \in InFlight /\ row'[r].status \notin InFlight)
  <2>1. Quiet BY <1>2, <1>3, <1>6 DEF Quiet
  <2>. QED BY <2>1, QuietStutters
<1>. QED BY <1>5, <1>6

\* A step of a call asks, admits, answers, or is not seen.
LEMMA CallImplements ==
  ASSUME IInv, IInv', NEW c \in Clients, StartCall(c) \/ InStart(c) \/ InCancel(c)
  PROVE  SF!Next \/ UNCHANGED SF!vars
<1> USE DEF durable, registry, calls, worker, process
<1>0. OwnerSound /\ OwnerSound' BY OwnerIsTheRow, PTL
<1>1. TypeOK /\ CallInv(c) /\ OwnerSound /\ OwnerSound' BY <1>0 DEF IInv
<1>2. CASE StartCall(c)
  <2>1. answer' = [answer EXCEPT ![c] = None] /\ UNCHANGED durable
    BY <1>2 DEF StartCall, CallStart, CallRerun, CallCancel
  <2>2. [f \in Fingerprints |-> Owner(f)]' = [f \in Fingerprints |-> Owner(f)]
    BY <2>1 DEF Owner, InFlightRows
  <2>3. SF!Ask(c) BY <2>1, <2>2 DEF SF!Ask
  <2>. QED BY <2>3 DEF SF!Next
<1>3. ASSUME NEW r \in Runs, Coalesce(c, r) PROVE SF!Next
  <2>1. PICK f \in Fingerprints : f = req[c].fp BY <1>1, <1>3 DEF Coalesce, CallInv
  <2>2. /\ r \in InFlightRows(f) /\ UNCHANGED durable
        /\ answer' = [answer EXCEPT ![c] = r]
    BY <1>3, <2>1 DEF Coalesce
  <2>3. Owner(f) = r /\ r # None BY <1>1, <2>2, ParameterAssumption DEF OwnerSound
  <2>4. [g \in Fingerprints |-> Owner(g)]' = [g \in Fingerprints |-> Owner(g)]
    BY <2>2 DEF Owner, InFlightRows
  <2>5. SF!Answer(c, f) BY <2>2, <2>3, <2>4 DEF SF!Answer
  <2>. QED BY <2>5 DEF SF!Next
<1>4. CASE RegisterRun(c)
  <2>1. PICK r \in Runs : r = req[c].run BY <1>1, <1>4 DEF RegisterRun, TypeOK
  <2>2. /\ row[r].status = "pending" /\ fp[r] = req[c].fp /\ UNCHANGED durable
        /\ answer' = [answer EXCEPT ![c] = r]
    BY <1>1, <1>4, <2>1 DEF RegisterRun, CallInv
  <2>3. PICK f \in Fingerprints : f = fp[r]
    BY <2>2 DEF IInv, RunInv, RowInv
  <2>4. r \in InFlightRows(f) BY <2>2, <2>3 DEF InFlightRows
  <2>5. Owner(f) = r /\ r # None BY <1>1, <2>4, ParameterAssumption DEF OwnerSound
  <2>6. [g \in Fingerprints |-> Owner(g)]' = [g \in Fingerprints |-> Owner(g)]
    BY <2>2 DEF Owner, InFlightRows
  <2>7. SF!Answer(c, f) BY <2>2, <2>5, <2>6 DEF SF!Answer
  <2>. QED BY <2>7 DEF SF!Next
<1>5. ASSUME NEW r \in Runs, InsertRun(c, r) PROVE SF!Next
  <2>1. PICK f \in Fingerprints : f = req[c].fp BY <1>1, <1>5 DEF InsertRun, CallInv
  <2>2. /\ row[r].status = "absent" /\ InFlightRows(f) = {} /\ answer' = answer
        /\ fp' = [fp EXCEPT ![r] = f] /\ row' = [row EXCEPT ![r] = Columns(NewRun)]
    BY <1>5, <2>1 DEF InsertRun
  <2>3. fp'[r] = f /\ row'[r].status = "pending"
    BY <1>1, <2>2, EmptyRecords DEF TypeOK
  <2>4. \A q \in Runs \ {r} : fp'[q] = fp[q] /\ row'[q] = row[q]
    BY <1>1, <2>2 DEF TypeOK
  <2>5. r \in InFlightRows(f)' BY <2>3 DEF InFlightRows
  <2>6. Owner(f) = None /\ Owner(f)' = r BY <1>1, <2>2, <2>5 DEF OwnerSound
  <2>7. ASSUME NEW g \in Fingerprints, g # f PROVE Owner(g)' = Owner(g)
    <3>1. InFlightRows(g)' = InFlightRows(g)
      BY <2>2, <2>3, <2>4, <2>7 DEF InFlightRows
    <3>. QED BY <3>1 DEF Owner
  <2>8. [g \in Fingerprints |-> Owner(g)]'
          = [[g \in Fingerprints |-> Owner(g)] EXCEPT ![f] = r]
    BY <2>6, <2>7
  <2>9. {q \in Runs : row[q].status # "absent"}'
          = {q \in Runs : row[q].status # "absent"} \cup {r}
    BY <2>3, <2>4
  <2>10. SF!Admit(f, r) BY <2>2, <2>6, <2>8, <2>9 DEF SF!Admit
  <2>. QED BY <2>10 DEF SF!Next
<1>6. CASE LookupMisses(c) \/ AbandonStart(c) \/ InsertFails(c) \/ InCancel(c)
  <2>1. Quiet
    BY <1>6 DEF Quiet, LookupMisses, AbandonStart, InsertFails, InCancel,
                MarkCancelRequested, FireCancel, KillSessions
  <2>. QED BY <2>1, QuietStutters
<1>. QED BY <1>2, <1>3, <1>4, <1>5, <1>6 DEF InStart

\* A crash is not seen; the reaper ends the runs the crash left in flight.
LEMMA ProcessImplements ==
  ASSUME IInv, IInv', Crash \/ Boot
  PROVE  SF!Next \/ UNCHANGED SF!vars
<1> USE DEF durable, calls
<1>1. CASE Crash \/ ListOrphans \/ Listen
  <2>1. Quiet BY <1>1 DEF Quiet, Crash, ListOrphans, Listen
  <2>. QED BY <2>1, QuietStutters
<1>2. ASSUME NEW r \in Runs, Reap(r) PROVE SF!Next
  <2>1. Ends(r)
    BY <1>2, ReapedType DEF Reap, Ends, IInv, DownInv, TypeOK, Terminal
  <2>. QED BY <2>1, EndsSettles
<1>. QED BY <1>1, <1>2 DEF Boot

LEMMA InitImplements == Init => SF!Init
<1> SUFFICES ASSUME Init PROVE SF!Init OBVIOUS
<1>1. \A r \in Runs : row[r].status = "absent" BY EmptyRecords DEF Init
<1>2. ASSUME NEW f \in Fingerprints PROVE Owner(f) = None
  <2>1. InFlightRows(f) = {} BY <1>1 DEF InFlightRows
  <2>. QED BY <2>1 DEF Owner
<1>. QED BY <1>1, <1>2 DEF SF!Init, Init

\* The runner implements SingleFlight: whatever the callers, goroutines, timeouts
\* and restarts do, no request is admitted while it has an owner, and every answer
\* names the owner of the time.
THEOREM RunnerImplementsSingleFlight == Spec => ImplementsSingleFlight
<1>1. IInv /\ IInv' /\ [Next]_vars => [SF!Next]_(SF!vars)
  <2> SUFFICES ASSUME IInv, IInv', [Next]_vars
               PROVE  SF!Next \/ UNCHANGED SF!vars
    OBVIOUS
  <2>1. CASE Next
    BY <2>1, CallImplements, RunStepImplements, ProcessImplements DEF Next, RunStep
  <2>2. CASE UNCHANGED vars
    <3>1. Quiet BY <2>2 DEF Quiet, vars, durable, calls
    <3>. QED BY <3>1, QuietStutters
  <2>. QED BY <2>1, <2>2
<1>. QED BY <1>1, InitImplements, Invariance, PTL DEF Spec, SF!Spec, ImplementsSingleFlight

-----------------------------------------------------------------------------
(* The history of a run: step records and statuses *)

\* Before the first step a run may be pending, running, or already over.
LEMMA EmptyStory ==
  ASSUME NEW s, s.steps = << >>, s.status # "succeeded"
  PROVE  TellsOneStory(s)
<1>1. LastStep(s) = "none" BY DEF LastStep
<1>2. Len(s.steps) = 0 BY EmptySeq
<1>3. NSteps \in Nat \ {0} BY ParameterAssumption
<1>. QED BY <1>1, <1>2, <1>3 DEF TellsOneStory

\* TellsOneStory looks at nothing but what SaveRun writes.
LEMMA StoryOfColumns ==
  ASSUME NEW s, TellsOneStory(s) PROVE TellsOneStory(Columns(s))
BY DEF TellsOneStory, LastStep, Columns

\* A new step record follows steps that succeeded.
LEMMA StoryAppends ==
  ASSUME NEW s \in Snapshot, NEW t, TellsOneStory(s), s.status = "running",
         LastStep(s) \in {"none", "succeeded"}, Len(s.steps) < NSteps,
         t = [s EXCEPT !.steps = Append(@, "running")]
  PROVE  TellsOneStory(t) /\ LastStep(t) = "running" /\ t.status = "running"
<1>1. s.steps \in Seq(StepStatus) BY DEF Snapshot
<1>2. t.steps = Append(s.steps, "running") /\ t.status = "running" BY DEF Snapshot
<1>3. /\ Len(t.steps) = Len(s.steps) + 1 /\ Len(s.steps) \in Nat
      /\ t.steps[Len(s.steps) + 1] = "running"
      /\ \A i \in 1..Len(s.steps) : t.steps[i] = s.steps[i]
  BY <1>1, <1>2, AppendProperties, LenProperties DEF StepStatus
<1>4. t.steps # << >> BY <1>1, <1>2, AppendProperties DEF StepStatus
<1>5. LastStep(t) = "running" BY <1>3, <1>4 DEF LastStep
<1>6. \A i \in 1..Len(s.steps) : s.steps[i] = "succeeded"
  <2> SUFFICES ASSUME NEW i \in 1..Len(s.steps) PROVE s.steps[i] = "succeeded"
    OBVIOUS
  <2>1. CASE i = Len(s.steps)
    <3>1. s.steps # << >> BY <1>3, EmptySeq
    <3>2. s.steps[Len(s.steps)] \in StepStatus BY <1>1, <1>3, ElementOfSeq
    <3>. QED BY <2>1, <3>1, <3>2 DEF LastStep, StepStatus
  <2>2. CASE i # Len(s.steps) BY <2>2, <1>3 DEF TellsOneStory
  <2>. QED BY <2>1, <2>2
<1>7. NSteps \in Nat BY ParameterAssumption
<1>. QED BY <1>2, <1>3, <1>5, <1>6, <1>7 DEF TellsOneStory

\* The record of the step in hand is replaced by its outcome.
LEMMA StepStory ==
  ASSUME NEW s \in Snapshot, NEW st \in StepStatus, TellsOneStory(s),
         LastStep(s) = "running"
  PROVE  /\ LastStep(Step(s, st)) = st
         /\ Len(Step(s, st).steps) = Len(s.steps) /\ Len(s.steps) <= NSteps
         /\ \A i \in 1..Len(s.steps) - 1 : Step(s, st).steps[i] = "succeeded"
<1>1. s.steps \in Seq(StepStatus) BY DEF Snapshot
<1>2. Step(s, st).steps = WithLast(s.steps, st) BY StepType
<1>3. Len(s.steps) \in Nat /\ s.steps # << >> BY <1>1, LenProperties DEF LastStep
<1>4. Len(s.steps) \in 1..Len(s.steps) /\ DOMAIN s.steps = 1..Len(s.steps)
  BY <1>1, <1>3, EmptySeq, LenProperties
<1>5. Len(WithLast(s.steps, st)) = Len(s.steps) BY <1>1, WithLastType
<1>6. /\ WithLast(s.steps, st)[Len(s.steps)] = st
      /\ \A i \in 1..Len(s.steps) - 1 : WithLast(s.steps, st)[i] = s.steps[i]
  BY <1>3, <1>4 DEF WithLast
<1>7. WithLast(s.steps, st) # << >> BY <1>3, <1>4, <1>5, EmptySeq
<1>8. LastStep(Step(s, st)) = st BY <1>2, <1>5, <1>6, <1>7 DEF LastStep
<1>. QED BY <1>2, <1>5, <1>6, <1>8 DEF TellsOneStory

\* A step that succeeds leaves the run running.
LEMMA StorySucceeds ==
  ASSUME NEW s \in Snapshot, TellsOneStory(s), LastStep(s) = "running",
         s.status = "running"
  PROVE  /\ TellsOneStory(Step(s, "succeeded"))
         /\ LastStep(Step(s, "succeeded")) = "succeeded"
<1>1. Step(s, "succeeded").status = "running" BY StepType DEF StepStatus
<1>. QED BY <1>1, StepStory DEF TellsOneStory, StepStatus

\* A step that does not ends the run with it.
LEMMA StoryBreaks ==
  ASSUME NEW s \in Snapshot, NEW st \in {"failed", "cancelled"}, NEW e \in ErrorText,
         NEW cl \in FailureClass, TellsOneStory(s), LastStep(s) = "running"
  PROVE  TellsOneStory(Ended(Step(s, st), st, e, cl))
<1> DEFINE t == Ended(Step(s, st), st, e, cl)
<1>1. Step(s, st) \in Snapshot /\ st \in Terminal BY StepType DEF StepStatus, Terminal
<1>2. t.status = st /\ t.steps = Step(s, st).steps BY <1>1, EndedType
<1>3. LastStep(t) = st BY <1>2, StepStory DEF LastStep, StepStatus
<1> HIDE DEF t
<1>4. TellsOneStory(t)
  BY <1>2, <1>3, StepStory DEF TellsOneStory, StepStatus
<1>. QED BY <1>4 DEF t

\* The run succeeds when all its steps did.
LEMMA StoryCloses ==
  ASSUME NEW s \in Snapshot, TellsOneStory(s), Len(s.steps) = NSteps,
         LastStep(s) \in {"none", "succeeded"}
  PROVE  TellsOneStory([s EXCEPT !.status = "succeeded"])
<1>1. s.steps # << >> BY ParameterAssumption, EmptySeq
<1>2. s.steps[Len(s.steps)] \in StepStatus
  BY <1>1, ParameterAssumption, ElementOfSeq DEF Snapshot
<1>3. LastStep(s) = "succeeded" BY <1>1, <1>2 DEF LastStep, StepStatus
<1>. QED BY <1>3 DEF TellsOneStory, LastStep, Snapshot

\* The reaper fails a run in flight and the step it was in.
LEMMA StoryReaped ==
  ASSUME NEW w \in Row, TellsOneStory(w), w.status \in InFlight
  PROVE  TellsOneStory(Columns(Reaped(w)))
<1> DEFINE t == Columns(Reaped(w))
<1>1. /\ t.status = "failed" /\ t.err = "orphan" /\ Len(t.steps) = Len(w.steps)
      /\ \A i \in 1..Len(w.steps) :
           t.steps[i] = IF w.steps[i] = "running" THEN "failed" ELSE w.steps[i]
      /\ t \in Row
  BY ReapedType
<1> HIDE DEF t
<1>2. w.steps \in Seq(StepStatus) /\ t.steps \in Seq(StepStatus) BY <1>1 DEF Row
<1>3. Len(w.steps) \in Nat BY <1>2, LenProperties
<1>4. CASE w.steps = << >>
  <2>1. t.steps = << >> BY <1>1, <1>2, <1>4, EmptySeq
  <2>. QED BY <1>1, <2>1, EmptyStory DEF t
<1>5. CASE w.steps # << >>
  <2>1. Len(w.steps) \in 1..Len(w.steps) /\ t.steps # << >>
    BY <1>1, <1>2, <1>3, <1>5, EmptySeq
  <2>2. LastStep(w) \in {"none", "running", "succeeded"}
    BY DEF TellsOneStory, InFlight
  <2>3. w.steps[Len(w.steps)] \in StepStatus BY <1>2, <2>1, ElementOfSeq
  <2>4. LastStep(t) \in {"failed", "succeeded"}
    BY <1>1, <1>5, <2>1, <2>2, <2>3 DEF LastStep, StepStatus
  <2>5. TellsOneStory(t) BY <1>1, <1>3, <2>4 DEF TellsOneStory
  <2>. QED BY <2>5 DEF t
<1>. QED BY <1>4, <1>5

\* A step of a run keeps its history in order.
LEMMA RunStepHistory ==
  ASSUME TypeOK, NEW r \in Runs, RunInv(r), StoryInv(r), EndInv(r), RunStep(r)
  PROVE  StoryInv(r)' /\ EndInv(r)'
<1> USE DEF TypeOK, RunInv, RowInv, ActiveInv, LocInv, StoryInv, EndInv, Active, Goto,
            durable, registry, calls, worker, process, InFlight, Terminal
<1>0. loc[r] \in Snapshot OBVIOUS
<1>1. CASE SetCancel(r) BY <1>1 DEF SetCancel
<1>2. CASE CancelledBeforeStart(r)
  <2>1. TellsOneStory(Ended(loc[r], "cancelled", "cancelled", "none"))
        /\ Ended(loc[r], "cancelled", "cancelled", "none").status = "cancelled"
    BY <1>0, <1>2, EndedType, EmptyStory DEF CancelledBeforeStart, ErrorText, FailureClass
  <2>. QED BY <1>2, <2>1 DEF CancelledBeforeStart
<1>3. CASE DecodeInputs(r)
  <2> DEFINE s == [loc[r] EXCEPT !.status = "running"]
  <2>1. CASE fp[r] \in BadInputs BY <1>3, <2>1 DEF DecodeInputs
  <2>2. CASE fp[r] \notin BadInputs
    <3>1. s.steps = << >> /\ s.status = "running"
      BY <1>0, <1>3 DEF DecodeInputs, Snapshot
    <3>2. TellsOneStory(s) BY <3>1, EmptyStory
    <3>3. loc' = [loc EXCEPT ![r] = s] /\ pc'[r] = "starting"
      BY <1>3, <2>2 DEF DecodeInputs
    <3> HIDE DEF s
    <3>. QED BY <1>3, <3>1, <3>2, <3>3 DEF DecodeInputs
  <2>. QED BY <2>1, <2>2
<1>4. CASE SaveRunning(r)
  <2>1. TellsOneStory(Columns(loc[r])) BY StoryOfColumns
  <2>2. row'[r] = IF ctx[r] = "live" THEN Columns(loc[r]) ELSE row[r]
    BY <1>0, <1>4, SavedType DEF SaveRunning
  <2>3. LastStep(loc[r]) = "none" BY <1>4 DEF SaveRunning, LastStep
  <2>. QED BY <1>4, <2>1, <2>2, <2>3 DEF SaveRunning
<1>5. CASE SetupFails(r)
  <2>1. TellsOneStory(Ended(loc[r], "failed", "setup", "none"))
        /\ Ended(loc[r], "failed", "setup", "none").status = "failed"
    BY <1>0, <1>5, EndedType, EmptyStory DEF SetupFails, ErrorText, FailureClass
  <2>. QED BY <1>5, <2>1 DEF SetupFails
<1>6. CASE BeginStep(r)
  <2>1. PICK s : s = [loc[r] EXCEPT !.steps = Append(@, "running")] OBVIOUS
  <2>2. row' = Saved(r, s, ctx[r]) /\ loc' = [loc EXCEPT ![r] = s]
        /\ reg' = [reg EXCEPT ![r] = s] /\ pc' = [pc EXCEPT ![r] = "step"]
    BY <1>6, <2>1 DEF BeginStep
  <2>3. TellsOneStory(s) /\ LastStep(s) = "running" /\ s.status = "running"
    BY <1>0, <1>6, <2>1, StoryAppends DEF BeginStep
  <2>4. TellsOneStory(Columns(s)) BY <2>3, StoryOfColumns
  <2>5. row'[r] = IF ctx[r] = "live" THEN Columns(s) ELSE row[r] BY <2>2 DEF Saved
  <2>. QED BY <2>2, <2>3, <2>4, <2>5
<1>7. CASE StepSucceeds(r)
  <2>1. PICK s : s = Step(loc[r], "succeeded") OBVIOUS
  <2>2. row' = Saved(r, s, ctx[r]) /\ loc' = [loc EXCEPT ![r] = s]
        /\ reg' = [reg EXCEPT ![r] = s] /\ pc' = [pc EXCEPT ![r] = "nextStep"]
    BY <1>7, <2>1 DEF StepSucceeds
  <2>3. TellsOneStory(s) /\ LastStep(s) = "succeeded"
    BY <1>0, <1>7, <2>1, StorySucceeds DEF StepSucceeds
  <2>4. TellsOneStory(Columns(s)) BY <2>3, StoryOfColumns
  <2>5. row'[r] = IF ctx[r] = "live" THEN Columns(s) ELSE row[r] BY <2>2 DEF Saved
  <2>. QED BY <2>2, <2>3, <2>4, <2>5
<1>8. CASE StepErrors(r) BY <1>8 DEF StepErrors
<1>9. CASE JudgeStepError(r)
  <2>1. TellsOneStory(Ended(Step(loc[r], "cancelled"), "cancelled", "cancelled", "none"))
    BY <1>0, <1>9, StoryBreaks DEF JudgeStepError, ErrorText, FailureClass
  <2>2. TellsOneStory(Ended(Step(loc[r], "failed"), "failed", "step", "classified"))
    BY <1>0, <1>9, StoryBreaks DEF JudgeStepError, ErrorText, FailureClass
  <2>. QED BY <1>9, <2>1, <2>2 DEF JudgeStepError
<1>10. CASE AllStepsDone(r)
  <2>1. PICK s : s = [loc[r] EXCEPT !.status = "succeeded"] OBVIOUS
  <2>2. TellsOneStory(s) BY <1>0, <1>10, <2>1, StoryCloses DEF AllStepsDone
  <2>3. loc' = [loc EXCEPT ![r] = s] BY <1>10, <2>1 DEF AllStepsDone
  <2>. QED BY <1>10, <2>2, <2>3 DEF AllStepsDone
<1>11. CASE FinishSave(r)
  <2>1. TellsOneStory(Columns(loc[r])) BY StoryOfColumns
  <2>2. row'[r] = IF pc[r] = "finishBackground" \/ ctx[r] = "live"
                    THEN Columns(loc[r]) ELSE row[r]
    BY <1>0, <1>11, SavedType DEF FinishSave
  <2>. QED BY <1>11, <2>1, <2>2 DEF FinishSave
<1>12. CASE FinishPut(r) BY <1>12 DEF FinishPut
<1>13. CASE ReportProgress(r)
  <2>1. TellsOneStory(Columns(loc[r])) BY StoryOfColumns
  <2>2. row'[r] = Columns(loc[r]) BY <1>0, <1>13, SavedType DEF ReportProgress
  <2>. QED BY <1>13, <2>1, <2>2 DEF ReportProgress
<1>14. CASE StepWedges(r) BY <1>14 DEF StepWedges
<1>15. CASE SessionExpires(r) BY <1>15 DEF SessionExpires, InTable
<1>16. CASE Expire(r) BY <1>16 DEF Expire
<1>17. CASE Sweep(r)
  <2>1. TellsOneStory(NoSnapshot) BY EmptyRecords, EmptyStory DEF NoSnapshot
  <2>. QED BY <1>17, <2>1, EmptyRecords DEF Sweep
<1>. QED
  BY <1>1, <1>2, <1>3, <1>4, <1>5, <1>6, <1>7, <1>8, <1>9, <1>10, <1>11, <1>12,
     <1>13, <1>14, <1>15, <1>16, <1>17
     DEF RunStep, Advance, Setup, StepReturns

\* The steps of a run disturb no other run's history.
LEMMA RunStepKeepsHistory ==
  ASSUME IInv, HistoryInv, NEW r \in Runs, RunStep(r) PROVE HistoryInv'
<1>1. TypeOK /\ RunInv(r) /\ StoryInv(r) /\ EndInv(r) BY DEF IInv, HistoryInv
<1>2. \A q \in Runs \ {r} :
        /\ row'[q] = row[q] /\ reg'[q] = reg[q] /\ pc'[q] = pc[q] /\ loc'[q] = loc[q]
  BY <1>1, RunStepIsLocal
<1>3. StoryInv(r)' /\ EndInv(r)' BY <1>1, RunStepHistory
<1>. QED BY <1>2, <1>3 DEF HistoryInv, StoryInv, EndInv

\* Calls start histories and change none.
LEMMA CallKeepsHistory ==
  ASSUME IInv, HistoryInv, NEW c \in Clients, StartCall(c) \/ InStart(c) \/ InCancel(c)
  PROVE  HistoryInv'
<1> USE DEF durable, registry, calls, worker, process
<1>0. TypeOK /\ CallInv(c) BY DEF IInv
<1>1. TellsOneStory(NewRun) /\ TellsOneStory(Columns(NewRun))
  BY EmptyRecords, EmptyStory
<1>2. ASSUME NEW r \in Runs, InsertRun(c, r) PROVE HistoryInv'
  <2>1. row' = [row EXCEPT ![r] = Columns(NewRun)] /\ UNCHANGED <<reg, pc, loc>>
        /\ row[r].status = "absent"
    BY <1>2 DEF InsertRun
  <2>2. pc[r] = "none" BY <2>1 DEF IInv, RunInv, RowInv
  <2>. QED BY <1>0, <1>1, <2>1, <2>2 DEF HistoryInv, StoryInv, EndInv, TypeOK
<1>3. CASE RegisterRun(c)
  <2>1. PICK r \in Runs : r = req[c].run BY <1>0, <1>3 DEF RegisterRun, TypeOK
  <2>2. /\ reg' = [reg EXCEPT ![r] = NewRun] /\ loc' = [loc EXCEPT ![r] = NewRun]
        /\ pc' = [pc EXCEPT ![r] = "spawned"] /\ row' = row
    BY <1>3, <2>1 DEF RegisterRun
  <2>. QED BY <1>0, <1>1, <2>2, EmptyRecords DEF HistoryInv, StoryInv, EndInv, TypeOK
<1>4. CASE UNCHANGED <<row, reg, loc, pc>>
  BY <1>4 DEF HistoryInv, StoryInv, EndInv
<1>. QED
  BY <1>2, <1>3, <1>4
     DEF StartCall, InStart, InCancel, CallStart, CallRerun, CallCancel, LookupMisses,
         AbandonStart, InsertFails, Coalesce, MarkCancelRequested, FireCancel, KillSessions

\* A crash forgets what goroutines recorded; the reaper closes what the table holds.
LEMMA ProcessKeepsHistory ==
  ASSUME IInv, HistoryInv, Crash \/ Boot PROVE HistoryInv'
<1> USE DEF durable, registry, calls, worker, process
<1>1. CASE Crash
  <2>1. TellsOneStory(NoSnapshot) BY EmptyRecords, EmptyStory DEF NoSnapshot
  <2>. QED BY <1>1, <2>1 DEF Crash, HistoryInv, StoryInv, EndInv
<1>2. ASSUME NEW r \in Runs, Reap(r) PROVE HistoryInv'
  <2>1. /\ row[r].status \in InFlight /\ row[r] \in Row /\ pc[r] = "none"
        /\ row' = [row EXCEPT ![r] = Columns(Reaped(row[r]))]
        /\ UNCHANGED <<reg, loc, pc>>
    BY <1>2 DEF Reap, IInv, DownInv, TypeOK
  <2>2. TellsOneStory(Columns(Reaped(row[r])))
    BY <2>1, StoryReaped DEF HistoryInv, StoryInv
  <2>. QED BY <2>1, <2>2 DEF HistoryInv, StoryInv, EndInv, IInv, TypeOK
<1>3. CASE ListOrphans \/ Listen
  BY <1>3 DEF ListOrphans, Listen, HistoryInv, StoryInv, EndInv
<1>. QED BY <1>1, <1>2, <1>3 DEF Boot

LEMMA HistoryInvariance == Spec => []HistoryInv
<1>1. Init => HistoryInv
  <2>1. TellsOneStory(NoSnapshot) /\ TellsOneStory(NoRow)
    BY EmptyRecords, EmptyStory DEF NoSnapshot, NoRow
  <2>. QED BY <2>1 DEF Init, HistoryInv, StoryInv, EndInv
<1>2. IInv /\ HistoryInv /\ [Next]_vars => HistoryInv'
  <2> SUFFICES ASSUME IInv, HistoryInv, [Next]_vars PROVE HistoryInv' OBVIOUS
  <2>1. CASE Next
    BY <2>1, CallKeepsHistory, RunStepKeepsHistory, ProcessKeepsHistory DEF Next, RunStep
  <2>2. CASE UNCHANGED vars
    BY <2>2 DEF vars, durable, registry, worker, HistoryInv, StoryInv, EndInv
  <2>. QED BY <2>1, <2>2
<1>. QED BY <1>1, <1>2, Invariance, PTL DEF Spec

\* The step records tell the same story as the status, in table and registry.
THEOREM HistoryIsConsistent == Spec => []HistoryConsistent
<1>1. HistoryInv => HistoryConsistent BY DEF HistoryInv, StoryInv, HistoryConsistent
<1>. QED BY <1>1, HistoryInvariance, PTL

\* A run that GetRun and the table report ended has no goroutine at work, and both
\* tell the same end.
LEMMA SettledAgrees ==
  ASSUME IInv, HistoryInv, NEW r \in Runs,
         View(r).status \in Terminal, row[r].status \in Terminal
  PROVE  /\ pc[r] \in {"none", "done"}
         /\ Columns(View(r)) = row[r] /\ Columns(Scanned(row[r])) = row[r]
<1>1. row[r] \in Row /\ reg[r] \in Snapshot BY DEF IInv, TypeOK
<1>2. Columns(Scanned(row[r])) = row[r] BY <1>1 DEF Columns, Scanned, Row
<1>3. pc[r] \in {"none", "done"}
  BY DEF IInv, TypeOK, RunInv, ActiveInv, Active, View, InFlight, Terminal
<1>4. CASE reg[r].status = "absent"
  <2>1. View(r) = Scanned(row[r]) BY <1>4 DEF View
  <2>. QED BY <1>2, <1>3, <2>1
<1>5. CASE reg[r].status # "absent"
  <2>1. pc[r] = "done"
    BY <1>3, <1>5, EmptyRecords DEF IInv, RunInv, RowInv
  <2>. QED BY <1>2, <1>3, <1>5, <2>1 DEF View, HistoryInv, EndInv
<1>. QED BY <1>2, <1>3, <1>4, <1>5

\* What a step may do to the row and the snapshot of a settled run.
LEMMA SettledStep ==
  ASSUME IInv, HistoryInv, Next, NEW r \in Runs,
         View(r).status \in Terminal, row[r].status \in Terminal
  PROVE  row'[r] = row[r] /\ (reg'[r] = reg[r] \/ reg'[r] = NoSnapshot)
<1> USE DEF durable, registry, calls, worker, process
<1>1. TypeOK /\ pc[r] \in {"none", "done"} BY SettledAgrees DEF IInv
<1>2. ASSUME NEW q \in Runs, RunStep(q)
      PROVE  row'[r] = row[r] /\ (reg'[r] = reg[r] \/ reg'[r] = NoSnapshot)
  <2>1. CASE q # r BY <1>1, <1>2, <2>1, RunStepIsLocal
  <2>2. CASE q = r
    <3>1. RunInv(r) BY DEF IInv
    <3>2. pc[r] = "done" BY <1>1, <1>2, <2>2, <3>1, RunStepInv
    <3>3. Sweep(r)
      BY <1>2, <2>2, <3>2
         DEF RunStep, Advance, Setup, SetCancel, CancelledBeforeStart, DecodeInputs,
             SaveRunning, SetupFails, BeginStep, StepReturns, StepSucceeds, StepErrors,
             JudgeStepError, AllStepsDone, FinishSave, FinishPut, ReportProgress,
             StepWedges, SessionExpires, Expire
    <3>. QED BY <1>1, <3>3 DEF Sweep, TypeOK
  <2>. QED BY <2>1, <2>2
<1>3. ASSUME NEW c \in Clients, StartCall(c) \/ InStart(c) \/ InCancel(c)
      PROVE  row'[r] = row[r] /\ reg'[r] = reg[r]
  <2>1. ASSUME NEW q \in Runs, InsertRun(c, q) PROVE row'[r] = row[r] /\ reg'[r] = reg[r]
    BY <1>1, <2>1 DEF InsertRun, TypeOK, Terminal
  <2>2. CASE RegisterRun(c)
    BY <1>1, <2>2 DEF RegisterRun, IInv, CallInv, TypeOK, Terminal
  <2>3. CASE UNCHANGED <<row, reg>> BY <2>3
  <2>. QED
    BY <1>3, <2>1, <2>2, <2>3
       DEF StartCall, InStart, InCancel, CallStart, CallRerun, CallCancel, LookupMisses,
           AbandonStart, InsertFails, Coalesce, MarkCancelRequested, FireCancel,
           KillSessions
<1>4. CASE Crash BY <1>4 DEF Crash
<1>5. CASE Boot
  <2>1. ASSUME NEW q \in Runs, Reap(q) PROVE row'[r] = row[r] /\ reg'[r] = reg[r]
    BY <1>1, <2>1 DEF Reap, IInv, DownInv, TypeOK, InFlight, Terminal
  <2>. QED BY <1>5, <2>1 DEF Boot, ListOrphans, Listen
<1>. QED BY <1>2, <1>3, <1>4, <1>5 DEF Next, RunStep

\* What GetRun reports of a settled run never changes again.
THEOREM SettledIsFinal == Spec => SettledViewFinal
<1> DEFINE Final ==
      \A r \in Runs :
        View(r).status \in Terminal /\ row[r].status \in Terminal =>
          Columns(View(r)') = Columns(View(r))
<1>1. IInv /\ HistoryInv /\ [Next]_vars => [Final]_vars
  <2> SUFFICES ASSUME IInv, HistoryInv, Next, NEW r \in Runs,
                      View(r).status \in Terminal, row[r].status \in Terminal
               PROVE  Columns(View(r)') = Columns(View(r))
    OBVIOUS
  <2>1. Columns(View(r)) = row[r] /\ Columns(Scanned(row[r])) = row[r]
    BY SettledAgrees
  <2>2. row'[r] = row[r] /\ (reg'[r] = reg[r] \/ reg'[r] = NoSnapshot)
    BY SettledStep
  <2>3. CASE reg'[r] = reg[r] BY <2>2, <2>3 DEF View
  <2>4. CASE reg'[r] = NoSnapshot
    <3>1. View(r)' = Scanned(row[r]) BY <2>2, <2>4, EmptyRecords DEF View
    <3>. QED BY <2>1, <3>1
  <2>. QED BY <2>2, <2>3, <2>4
<1>. QED BY <1>1, Invariance, HistoryInvariance, PTL DEF Spec, SettledViewFinal
=============================================================================
