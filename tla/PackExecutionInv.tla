-------------------------- MODULE PackExecutionInv --------------------------
(* The inductive invariant of the pack engine: what holds of every call k. *)
EXTENDS PackExecution

InHandler(k) == k.phase = "run"
Answered(k)  == k.phase \in {"leave", "over"}

\* A call that has not reached its handler has had no effect; one that is
\* answered has one of the closed set of codes.
PhaseAgrees(k) ==
  /\ ~InHandler(k) /\ ~Answered(k) => k.did = {}
  /\ k.phase # "idle" => k.pack \in Packs /\ k.input \in Inputs
  /\ Answered(k) => k.code \in Codes \cup {Ok}

\* What is left of the handler keeps what its whole path promises.
RestKeeps(rest, kinds, errors) ==
  \A i \in 1..Len(rest) : rest[i].does \in kinds => Spares(rest, i, errors)
RestSpares(rest, errors) ==
  \A i \in 1..Len(rest) : Errors(rest[i]) \cap errors = {}

\* A handler that acted is past the steps whose errors are retried.
ActedIsSafe(k) ==
  k.pack \notin LateRetriers =>
    /\ InHandler(k) => RestKeeps(k.rest, {"act"}, Unsafe)
    /\ InHandler(k) /\ "act" \in k.did => RestSpares(k.rest, Unsafe)
    /\ Answered(k) /\ k.code \in Retryable => "act" \notin k.did

\* A handler that had an effect is past the steps that look at its input.
RefusalIsClean(k) ==
  k.pack \notin LateRefusers =>
    /\ InHandler(k) => RestKeeps(k.rest, Effects, Blames)
    /\ InHandler(k) /\ k.did # {} => RestSpares(k.rest, Blames)
    /\ Answered(k) /\ k.code = Invalid => k.did = {}

ServedIsOwn(c, k) ==
  \A x \in k.served :
    /\ x.maker = Caller[c]
    /\ x.answers # NoAnswer => x.answers = <<k.pack, k.input>> /\ x.valid

CallOK(c, k) ==
  PhaseAgrees(k) /\ ActedIsSafe(k) /\ RefusalIsClean(k) /\ ServedIsOwn(c, k)

\* Every entry is in its maker's namespace, and an answer under the key of
\* what it answers.
EntriesAreOwn ==
  \A x \in kept :
    /\ x.maker = x.caller
    /\ x.answers # NoAnswer => x.answers = x.key /\ x.valid

PackIInv ==
  PackTypeOK /\ (\A c \in Calls : CallOK(c, call[c])) /\ EntriesAreOwn
=============================================================================
