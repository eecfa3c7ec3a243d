--------------------------- MODULE PipelineRunsInv ---------------------------
(***************************************************************************)
(* The inductive invariant behind the safety properties of PipelineRuns:   *)
(* how a goroutine's place, its row, its snapshot and the calls in         *)
(* progress hang together.  TLC checks it on the instances of              *)
(* MCPipelineRuns, PipelineRuns_proofs proves it for all of them.          *)
(***************************************************************************)
EXTENDS PipelineRuns

\* Without a row there is no goroutine; without a goroutine, no snapshot and no
\* cancel func.
RowInv(r) ==
  /\ row[r].status = "absent" => pc[r] = "none"
  /\ row[r].status # "absent" => fp[r] \in Fingerprints
  /\ pc[r] = "none" => /\ reg[r] = NoSnapshot /\ exec[r] = "none"
                       /\ ctx[r] = "live" /\ r \notin cancels

\* Until its last save, a goroutine's row and snapshot are in flight.
ActiveInv(r) ==
  /\ Active(r) => row[r].status \in InFlight /\ reg[r].status \in InFlight
  /\ pc[r] = "publish" => reg[r].status \in InFlight
  /\ exec[r] \notin {"none", "killed"} => pc[r] = "step"

\* The status of the goroutine's Run struct at each of its places.
LocInv(r) ==
  /\ pc[r] \in {"spawned", "entry"} => loc[r].status = "pending"
  /\ pc[r] \in {"starting", "nextStep", "step", "stepError"}
       => loc[r].status = "running"
  /\ pc[r] = "setupError" => loc[r].status \in InFlight
  /\ pc[r] \in {"finish", "finishBackground", "publish"}
       => loc[r].status \in Terminal

\* A row left in flight by an ended goroutine: its last save met a dead
\* context, or a cancel was requested and its snapshot is in flight too.
StrandedInv(r) ==
  row[r].status \in InFlight /\ pc[r] \in {"publish", "done"} /\ ctx[r] = "live"
    => pc[r] = "done" /\ r \in cancelReq /\ reg[r].status \in InFlight

\* Every trace a cancel leaves leads back to its flag, until the run is over.
CancelInv(r) ==
  /\ ctx[r] = "canceled" => r \in cancelReq \/ pc[r] = "done"
  /\ exec[r] = "killed" =>
       /\ r \in cancelReq \/ pc[r] = "done"
       /\ loc[r].status # "failed"
       /\ pc[r] \in {"step", "stepError", "finishBackground", "publish", "done"}
  /\ loc[r].status = "cancelled" => r \in cancelReq \/ pc[r] = "done"
  /\ reg[r].status = "cancelled" => r \in cancelReq

RunInv(r) ==
  /\ RowInv(r) /\ ActiveInv(r) /\ LocInv(r) /\ StrandedInv(r) /\ CancelInv(r)

\* A call between lookup and return holds startMu and has no rival; a run being
\* registered has its row and no goroutine yet; a cancel past its mark has left
\* the flag, or the run is over.
CallInv(c) ==
  /\ req[c].op \in {"insert", "register"} <=> startMu = c
  /\ req[c].op \in {"start", "insert"} => req[c].fp \in Fingerprints
  /\ req[c].op = "insert" => InFlightRows(req[c].fp) = {}
  /\ req[c].op = "register" =>
       /\ row[req[c].run].status = "pending" /\ fp[req[c].run] = req[c].fp
       /\ pc[req[c].run] = "none"
  /\ req[c].run \in Runs => row[req[c].run].status # "absent"
  /\ req[c].op \in {"fire", "kill"} =>
       \/ req[c].run \in cancelReq
       \/ pc[req[c].run] = "done" /\ req[c].run \notin cancels

\* While requests are not served nothing runs, and the reaper's list is the
\* set of rows in flight.
DownInv ==
  /\ phase # "up" => /\ \A r \in Runs : pc[r] = "none"
                     /\ \A c \in Clients : req[c] = Idle
  /\ phase = "booting" => orphans = {r \in Runs : row[r].status \in InFlight}
  /\ phase # "booting" => orphans = {}

IInv ==
  /\ TypeOK /\ AtMostOneInFlight /\ InFlightRowsAccounted /\ DownInv
  /\ \A r \in Runs : RunInv(r)
  /\ \A c \in Clients : CallInv(c)

\* What a goroutine has recorded of its steps at each of its places.
StoryInv(r) ==
  /\ TellsOneStory(row[r]) /\ TellsOneStory(reg[r]) /\ TellsOneStory(loc[r])
  /\ pc[r] \in {"spawned", "entry", "starting", "setupError"} => loc[r].steps = <<>>
  /\ pc[r] = "nextStep" => LastStep(loc[r]) \in {"none", "succeeded"}
  /\ pc[r] \in {"step", "stepError"} => LastStep(loc[r]) = "running"

\* Once the last save is made, a row and a snapshot that both ended agree.
EndInv(r) ==
  /\ pc[r] = "publish" /\ row[r].status \in Terminal => row[r] = Columns(loc[r])
  /\ pc[r] = "done" /\ row[r].status \in Terminal /\ reg[r].status \in Terminal
       => row[r] = Columns(reg[r])

HistoryInv == \A r \in Runs : StoryInv(r) /\ EndInv(r)
=============================================================================
