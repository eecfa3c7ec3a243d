------------------------ MODULE PackExecution_proofs ------------------------
(***************************************************************************)
(* Proofs about the pack engine, for any catalogue of packs in which the   *)
(* handlers but the named ones type the errors that follow an effect and   *)
(* check their input before it.                                            *)
(* A step moves one call: one lemma per action says that the invariant of  *)
(* that call holds after it.                                               *)
(***************************************************************************)
EXTENDS PackExecutionInv, TLAPS

\* The codes, as the constants they are.
LEMMA CodeFacts ==
  /\ {Invalid, BadOutput, NoSession, Failed, NoArtifact, Timeout} \subseteq Codes
  /\ Retryable \subseteq Codes /\ Untyped \cap Codes = {} /\ Raw # Gone /\ Ok \notin Retryable
  /\ Invalid \notin Retryable /\ Failed \notin Retryable /\ BadOutput \notin Retryable
  /\ Invalid # Ok /\ Invalid # Failed /\ Invalid # BadOutput
  /\ Invalid # Timeout /\ Invalid # NoSession
BY DEF Codes, Retryable, Ok, Untyped, Raw, Gone, Invalid, BadOutput, Stale, NoSession, Failed,
       NoArtifact, Timeout, BadKey, Exhausted, Internal

\* What is left of a path after its first step.
LEMMA TailOfPath ==
  ASSUME NEW path \in Path, path # <<>>
  PROVE  /\ Tail(path) \in Path /\ Head(path) = path[1] /\ Head(path) \in Steps
         /\ Len(path) \in Nat \ {0} /\ Len(Tail(path)) = Len(path) - 1
         /\ \A i \in 1..Len(Tail(path)) : Tail(path)[i] = path[i + 1]
BY DEF Path

\* A step of one call leaves the others as they are.
LEMMA OneCall ==
  ASSUME PackIInv, NEW c \in Calls, NEW k \in CallType,
         call' = [call EXCEPT ![c] = k], CallOK(c, k)
  PROVE  call' \in [Calls -> CallType] /\ \A d \in Calls : CallOK(d, call'[d])
<1>1. \A d \in Calls : call'[d] = IF d = c THEN k ELSE call[d]  BY DEF PackIInv, PackTypeOK
<1>. QED  BY <1>1 DEF PackIInv, PackTypeOK

\* An entry that says whose it is and what it answers replaces another.
LEMMA Putting ==
  ASSUME PackIInv, NEW c \in Calls, NEW sess \in Sessions \cup {None}, NEW key \in Keys,
         NEW answers \in {NoAnswer, key}, kept' = Put(Entry(Caller[c], sess, key, answers))
  PROVE  kept' \subseteq Entries /\ EntriesAreOwn'
<1>. DEFINE x == Entry(Caller[c], sess, key, answers)
<1>1. NoAnswer \in Keys
  BY DEF NoAnswer, Keys, HandlersKey
<1>2. /\ x \in Entries /\ x.maker = x.caller
      /\ x.answers # NoAnswer => x.answers = x.key /\ x.valid
  BY <1>1 DEF Entry, Entries, Callers
<1>3. kept' \subseteq kept \cup {x}
  BY DEF Put
<1>. QED
  BY <1>2, <1>3 DEF PackIInv, PackTypeOK, EntriesAreOwn

\* What a path promises, what is left of it promises too; and an effect makes
\* the promise good.
LEMMA TailKeeps ==
  ASSUME NEW path \in Path, path # <<>>, NEW kinds, NEW errors, RestKeeps(path, kinds, errors)
  PROVE  /\ RestKeeps(Tail(path), kinds, errors)
         /\ path[1].does \in kinds => RestSpares(Tail(path), errors) /\ path[1].after \cap errors = {}
         /\ RestSpares(path, errors) => RestSpares(Tail(path), errors)
<1>1. /\ Len(path) \in Nat \ {0} /\ Len(Tail(path)) = Len(path) - 1
      /\ \A i \in 1..Len(Tail(path)) : Tail(path)[i] = path[i + 1]
  BY TailOfPath
<1>2. RestKeeps(Tail(path), kinds, errors)
  BY <1>1 DEF RestKeeps, Spares
<1>3. path[1].does \in kinds => RestSpares(Tail(path), errors) /\ path[1].after \cap errors = {}
  BY <1>1 DEF RestKeeps, Spares, RestSpares
<1>4. RestSpares(path, errors) => RestSpares(Tail(path), errors)
  BY <1>1 DEF RestSpares
<1>. QED  BY <1>2, <1>3, <1>4

\* A call may leave with a code that its effects allow.
LEMMA Leaving ==
  ASSUME PackIInv, NEW c \in Calls, NEW code \in Codes \cup {Ok}, NEW did \in SUBSET Effects,
         call[c].phase # "idle",
         call[c].pack \notin LateRetriers /\ code \in Retryable => "act" \notin did,
         call[c].pack \notin LateRefusers /\ code = Invalid => did = {},
         NEW k, k = [call[c] EXCEPT !.phase = "leave", !.code = code, !.did = did],
         call' = [call EXCEPT ![c] = k]
  PROVE  call' \in [Calls -> CallType] /\ \A d \in Calls : CallOK(d, call'[d])
<1>1. call[c] \in CallType /\ CallOK(c, call[c])
  BY DEF PackIInv, PackTypeOK
<1>2. k \in CallType
  BY <1>1 DEF CallType
<1>3. CallOK(c, k)
  BY <1>1 DEF CallOK, PhaseAgrees, ActedIsSafe, RefusalIsClean, ServedIsOwn, InHandler, Answered, CallType
<1>. QED
  BY <1>2, <1>3, OneCall

\* A refused input: nothing was done yet.
LEMMA RefuseInputStep == ASSUME PackIInv, NEW c \in Calls, RefuseInput(c) PROVE PackIInv'
<1>1. call[c] \in CallType /\ CallOK(c, call[c])
  BY DEF PackIInv, PackTypeOK
<1>2. PICK k : k = [call[c] EXCEPT !.phase = "leave", !.code = Invalid, !.did = call[c].did]
  OBVIOUS
<1>3. call' = [call EXCEPT ![c] = k]
  BY <1>1, <1>2 DEF RefuseInput, Leave, PackIInv, PackTypeOK, CallType
<1>4. call[c].phase # "idle" /\ call[c].did \in SUBSET Effects
  BY <1>1 DEF RefuseInput, CallType
<1>5. /\ Invalid \in Retryable => "act" \notin call[c].did
      /\ Invalid = Invalid => call[c].did = {}
  BY <1>1, CodeFacts DEF RefuseInput, CallOK, PhaseAgrees, InHandler, Answered
<1>6. call' \in [Calls -> CallType] /\ \A d \in Calls : CallOK(d, call'[d])
  BY <1>2, <1>3, <1>4, <1>5, Leaving, CodeFacts
<1>. QED
  BY <1>6 DEF RefuseInput, PackIInv, PackTypeOK, EntriesAreOwn, CallOK, PhaseAgrees, Answered, Over

\* No session: nothing was done yet.
LEMMA NoSessionForStep == ASSUME PackIInv, NEW c \in Calls, NoSessionFor(c) PROVE PackIInv'
<1>1. call[c] \in CallType /\ CallOK(c, call[c])
  BY DEF PackIInv, PackTypeOK
<1>2. PICK k : k = [call[c] EXCEPT !.phase = "leave", !.code = NoSession, !.did = call[c].did]
  OBVIOUS
<1>3. call' = [call EXCEPT ![c] = k]
  BY <1>1, <1>2 DEF NoSessionFor, Leave, PackIInv, PackTypeOK, CallType
<1>4. call[c].phase # "idle" /\ call[c].did \in SUBSET Effects
  BY <1>1 DEF NoSessionFor, CallType
<1>5. /\ NoSession \in Retryable => "act" \notin call[c].did
      /\ NoSession = Invalid => call[c].did = {}
  BY <1>1, CodeFacts DEF NoSessionFor, CallOK, PhaseAgrees, InHandler, Answered
<1>6. call' \in [Calls -> CallType] /\ \A d \in Calls : CallOK(d, call'[d])
  BY <1>2, <1>3, <1>4, <1>5, Leaving, CodeFacts
<1>. QED
  BY <1>6 DEF NoSessionFor, PackIInv, PackTypeOK, EntriesAreOwn, CallOK, PhaseAgrees, Answered, Over

\* A panic is a code nobody retries.
LEMMA PanicStep == ASSUME PackIInv, NEW c \in Calls, Panic(c) PROVE PackIInv'
<1>1. call[c] \in CallType /\ CallOK(c, call[c])
  BY DEF PackIInv, PackTypeOK
<1>2. PICK k : k = [call[c] EXCEPT !.phase = "leave", !.code = Failed, !.did = call[c].did]
  OBVIOUS
<1>3. call' = [call EXCEPT ![c] = k]
  BY <1>1, <1>2 DEF Panic, Leave, PackIInv, PackTypeOK, CallType
<1>4. call[c].phase # "idle" /\ call[c].did \in SUBSET Effects
  BY <1>1 DEF Panic, AtStep, CallType
<1>5. /\ Failed \in Retryable => "act" \notin call[c].did
      /\ Failed = Invalid => call[c].did = {}
  BY <1>1, CodeFacts DEF Panic, AtStep, CallOK, PhaseAgrees, InHandler, Answered
<1>6. call' \in [Calls -> CallType] /\ \A d \in Calls : CallOK(d, call'[d])
  BY <1>2, <1>3, <1>4, <1>5, Leaving, CodeFacts
<1>. QED
  BY <1>6 DEF Panic, PackIInv, PackTypeOK, EntriesAreOwn, CallOK, PhaseAgrees, Answered, Over

\* A call begins with nothing done.
LEMMA BeginStep == ASSUME PackIInv, NEW c \in Calls, NEW p \in Packs, NEW i \in Inputs, NEW pin \in 0..made, Begin(c, p, i, pin) PROVE PackIInv'
<1>1. call[c] \in CallType /\ CallOK(c, call[c])
  BY DEF PackIInv, PackTypeOK
<1>2. PICK k : k = [NoCall EXCEPT !.phase = "input", !.pack = p, !.input = i, !.pin = pin]
  OBVIOUS
<1>3. call' = [call EXCEPT ![c] = k]
  BY <1>1, <1>2 DEF Begin, PackIInv, PackTypeOK, CallType, NoCall, Sessions, None, Path, PackAssumption
<1>4. k \in CallType
  <2>1. pin \in Sessions \cup {None}
    BY WellFormed DEF PackIInv, PackTypeOK, PackAssumption, Sessions, None
  <2>2. <<>> \in Path
    BY DEF Path
  <2>. QED
    BY <1>2, <2>1, <2>2 DEF CallType, NoCall, None
<1>5. CallOK(c, k)
  BY <1>1, <1>2 DEF Begin, CallOK, PhaseAgrees, ActedIsSafe, RefusalIsClean, ServedIsOwn, InHandler, Answered, CallType, NoCall
<1>6. call' \in [Calls -> CallType] /\ \A d \in Calls : CallOK(d, call'[d])
  BY <1>3, <1>4, <1>5, OneCall
<1>. QED
  BY <1>1, <1>6, WellFormed DEF Begin, PackIInv, PackTypeOK, EntriesAreOwn, CallOK, PhaseAgrees, Answered, Over, PackAssumption

\* A pack without a session is ready.
LEMMA NeedsNoneStep == ASSUME PackIInv, NEW c \in Calls, NeedsNone(c) PROVE PackIInv'
<1>1. call[c] \in CallType /\ CallOK(c, call[c])
  BY DEF PackIInv, PackTypeOK
<1>2. PICK k : k = [call[c] EXCEPT !.phase = "ready"]
  OBVIOUS
<1>3. call' = [call EXCEPT ![c] = k]
  BY <1>1, <1>2 DEF NeedsNone, PackIInv, PackTypeOK, CallType
<1>4. k \in CallType
  BY <1>1, <1>2 DEF NeedsNone, PackIInv, PackTypeOK, CallType
<1>5. CallOK(c, k)
  BY <1>1, <1>2 DEF NeedsNone, CallOK, PhaseAgrees, ActedIsSafe, RefusalIsClean, ServedIsOwn, InHandler, Answered, CallType
<1>6. call' \in [Calls -> CallType] /\ \A d \in Calls : CallOK(d, call'[d])
  BY <1>3, <1>4, <1>5, OneCall
<1>. QED
  BY <1>1, <1>6, WellFormed DEF NeedsNone, PackIInv, PackTypeOK, EntriesAreOwn, CallOK, PhaseAgrees, Answered, Over, PackAssumption

\* The pinned session.
LEMMA AttachStep == ASSUME PackIInv, NEW c \in Calls, Attach(c) PROVE PackIInv'
<1>1. call[c] \in CallType /\ CallOK(c, call[c])
  BY DEF PackIInv, PackTypeOK
<1>2. PICK k : k = [call[c] EXCEPT !.phase = "ready", !.sess = call[c].pin]
  OBVIOUS
<1>3. call' = [call EXCEPT ![c] = k]
  BY <1>1, <1>2 DEF Attach, PackIInv, PackTypeOK, CallType
<1>4. k \in CallType
  BY <1>1, <1>2 DEF Attach, PackIInv, PackTypeOK, CallType
<1>5. CallOK(c, k)
  BY <1>1, <1>2 DEF Attach, CallOK, PhaseAgrees, ActedIsSafe, RefusalIsClean, ServedIsOwn, InHandler, Answered, CallType
<1>6. call' \in [Calls -> CallType] /\ \A d \in Calls : CallOK(d, call'[d])
  BY <1>3, <1>4, <1>5, OneCall
<1>. QED
  BY <1>1, <1>6, WellFormed DEF Attach, PackIInv, PackTypeOK, EntriesAreOwn, CallOK, PhaseAgrees, Answered, Over, PackAssumption

\* A session of its own.
LEMMA CreateStep == ASSUME PackIInv, NEW c \in Calls, Create(c) PROVE PackIInv'
<1>1. call[c] \in CallType /\ CallOK(c, call[c])
  BY DEF PackIInv, PackTypeOK
<1>2. PICK k : k = [call[c] EXCEPT !.phase = "ready", !.sess = made + 1]
  OBVIOUS
<1>3. call' = [call EXCEPT ![c] = k]
  BY <1>1, <1>2 DEF Create, PackIInv, PackTypeOK, CallType, Sessions, PackAssumption
<1>4. k \in CallType
  <2>1. made + 1 \in Sessions
    BY WellFormed DEF Create, PackIInv, PackTypeOK, PackAssumption, Sessions
  <2>. QED
    BY <1>1, <1>2, <2>1 DEF CallType
<1>5. CallOK(c, k)
  BY <1>1, <1>2 DEF Create, CallOK, PhaseAgrees, ActedIsSafe, RefusalIsClean, ServedIsOwn, InHandler, Answered, CallType
<1>6. call' \in [Calls -> CallType] /\ \A d \in Calls : CallOK(d, call'[d])
  BY <1>3, <1>4, <1>5, OneCall
<1>. QED
  BY <1>1, <1>6, WellFormed DEF Create, PackIInv, PackTypeOK, EntriesAreOwn, CallOK, PhaseAgrees, Answered, Over, PackAssumption

\* The context ends.
LEMMA EndContextStep == ASSUME PackIInv, NEW c \in Calls, EndContext(c) PROVE PackIInv'
<1>1. call[c] \in CallType /\ CallOK(c, call[c])
  BY DEF PackIInv, PackTypeOK
<1>2. PICK k : k = [call[c] EXCEPT !.ended = TRUE]
  OBVIOUS
<1>3. call' = [call EXCEPT ![c] = k]
  BY <1>1, <1>2 DEF EndContext, PackIInv, PackTypeOK, CallType
<1>4. k \in CallType
  BY <1>1, <1>2 DEF EndContext, PackIInv, PackTypeOK, CallType
<1>5. CallOK(c, k)
  BY <1>1, <1>2 DEF EndContext, CallOK, PhaseAgrees, ActedIsSafe, RefusalIsClean, ServedIsOwn, InHandler, Answered, CallType
<1>6. call' \in [Calls -> CallType] /\ \A d \in Calls : CallOK(d, call'[d])
  BY <1>3, <1>4, <1>5, OneCall
<1>. QED
  BY <1>1, <1>6, WellFormed DEF EndContext, PackIInv, PackTypeOK, EntriesAreOwn, CallOK, PhaseAgrees, Answered, Over, PackAssumption

\* The caller has its answer.
LEMMA FinishStep == ASSUME PackIInv, NEW c \in Calls, Finish(c) PROVE PackIInv'
<1>1. call[c] \in CallType /\ CallOK(c, call[c])
  BY DEF PackIInv, PackTypeOK
<1>2. PICK k : k = [call[c] EXCEPT !.phase = "over", !.row = IF call[c].ended THEN "" ELSE call[c].code]
  OBVIOUS
<1>3. call' = [call EXCEPT ![c] = k]
  BY <1>1, <1>2 DEF Finish, PackIInv, PackTypeOK, CallType
<1>4. k \in CallType
  BY <1>1, <1>2, ZenonT(30) DEF Finish, PackIInv, PackTypeOK, CallType
<1>5. CallOK(c, k)
  BY <1>1, <1>2 DEF Finish, CallOK, PhaseAgrees, ActedIsSafe, RefusalIsClean, ServedIsOwn, InHandler, Answered, CallType
<1>6. call' \in [Calls -> CallType] /\ \A d \in Calls : CallOK(d, call'[d])
  BY <1>3, <1>4, <1>5, OneCall
<1>. QED
  BY <1>1, <1>6, WellFormed DEF Finish, PackIInv, PackTypeOK, EntriesAreOwn, CallOK, PhaseAgrees, Answered, Over, PackAssumption

\* What the cache serves is the caller's own.
LEMMA ServeCachedStep == ASSUME PackIInv, NEW c \in Calls, ServeCached(c) PROVE PackIInv'
<1>1. call[c] \in CallType /\ CallOK(c, call[c])
  BY DEF PackIInv, PackTypeOK
<1>2. PICK x \in Hits(c) : call' = [Leave(c, Ok) EXCEPT ![c].served = {x}]
  BY DEF ServeCached
<1>3. PICK k : k = [call[c] EXCEPT !.phase = "leave", !.code = Ok, !.served = {x}]
  OBVIOUS
<1>4. call' = [call EXCEPT ![c] = k]
  BY <1>1, <1>2, <1>3 DEF Leave, PackIInv, PackTypeOK, CallType
<1>5. k \in CallType
  BY <1>1, <1>3 DEF PackIInv, PackTypeOK, CallType, Hits
<1>6. CallOK(c, k)
  <2>1. /\ x.maker = Caller[c]
        /\ x.answers # NoAnswer => x.answers = <<call[c].pack, call[c].input>> /\ x.valid
    BY DEF Hits, Mine, CacheKey, PackIInv, EntriesAreOwn
  <2>. QED
    BY <1>1, <1>3, <2>1, CodeFacts DEF ServeCached, CallOK, PhaseAgrees, ActedIsSafe, RefusalIsClean, ServedIsOwn, InHandler, Answered, CallType
<1>7. call' \in [Calls -> CallType] /\ \A d \in Calls : CallOK(d, call'[d])
  BY <1>4, <1>5, <1>6, OneCall
<1>. QED
  BY <1>7 DEF ServeCached, PackIInv, PackTypeOK, EntriesAreOwn, CallOK, PhaseAgrees, Answered, Over

\* The handler starts at the head of one of its paths, which promise what the
\* catalogue's assumptions say.
LEMMA InvokeStep == ASSUME PackIInv, NEW c \in Calls, Invoke(c) PROVE PackIInv'
<1>1. call[c] \in CallType /\ CallOK(c, call[c])
  BY DEF PackIInv, PackTypeOK
<1>2. call[c].pack \in Packs /\ call[c].did = {}
  BY <1>1 DEF Invoke, CallOK, PhaseAgrees, InHandler, Answered
<1>3. PICK path \in Catalogue[call[c].pack].paths :
        call' = [call EXCEPT ![c].phase = "run", ![c].rest = path]
  BY DEF Invoke, Of
<1>4. /\ path \in Path
      /\ call[c].pack \notin LateRetriers => RestKeeps(path, {"act"}, Unsafe)
      /\ call[c].pack \notin LateRefusers => RestKeeps(path, Effects, Blames)
  BY <1>2, WellFormed, LateErrorsTyped, InputsCheckedFirst
     DEF PackAssumption, HandlersTypeLateErrors, HandlersCheckFirst, RestKeeps
<1>5. PICK k : k = [call[c] EXCEPT !.phase = "run", !.rest = path]
  OBVIOUS
<1>6. call' = [call EXCEPT ![c] = k]
  BY <1>1, <1>3, <1>5 DEF PackIInv, PackTypeOK, CallType
<1>7. k \in CallType
  BY <1>1, <1>4, <1>5 DEF CallType
<1>8. CallOK(c, k)
  BY <1>1, <1>2, <1>4, <1>5 DEF Invoke, CallOK, PhaseAgrees, ActedIsSafe, RefusalIsClean, ServedIsOwn, InHandler, Answered, CallType
<1>9. call' \in [Calls -> CallType] /\ \A d \in Calls : CallOK(d, call'[d])
  BY <1>6, <1>7, <1>8, OneCall
<1>. QED
  BY <1>9 DEF Invoke, PackIInv, PackTypeOK, EntriesAreOwn, CallOK, PhaseAgrees, Answered, Over

\* A handler at a step, and what is left after it.
LEMMA AtStepFacts ==
  ASSUME PackIInv, NEW c \in Calls, AtStep(c)
  PROVE  /\ call[c] \in CallType /\ CallOK(c, call[c]) /\ call[c].phase = "run"
         /\ call[c].rest \in Path /\ call[c].rest # <<>>
         /\ Tail(call[c].rest) \in Path
         /\ Current(c) = call[c].rest[1] /\ Current(c) \in Steps
         /\ call[c].pack \notin LateRetriers =>
              /\ RestKeeps(call[c].rest, {"act"}, Unsafe)
              /\ "act" \in call[c].did => RestSpares(call[c].rest, Unsafe)
         /\ call[c].pack \notin LateRefusers =>
              /\ RestKeeps(call[c].rest, Effects, Blames)
              /\ call[c].did # {} => RestSpares(call[c].rest, Blames)
<1>1. call[c] \in CallType /\ CallOK(c, call[c]) /\ call[c].phase = "run" /\ call[c].rest # <<>>
  BY DEF AtStep, PackIInv, PackTypeOK
<1>2. call[c].rest \in Path
  BY <1>1 DEF CallType
<1>. QED
  BY <1>1, <1>2, TailOfPath DEF Current, CallOK, ActedIsSafe, RefusalIsClean, InHandler

\* A step taken, or skipped, leaves a call whose rest keeps its promises.
LEMMA Advancing ==
  ASSUME PackIInv, NEW c \in Calls, AtStep(c), NEW did, did \in {{}, Effect(c)},
         NEW k, k = [call[c] EXCEPT !.rest = Tail(call[c].rest), !.did = call[c].did \cup did],
         call' = [call EXCEPT ![c] = k]
  PROVE  call' \in [Calls -> CallType] /\ \A d \in Calls : CallOK(d, call'[d])
<1>1. /\ call[c] \in CallType /\ CallOK(c, call[c]) /\ call[c].phase = "run"
      /\ call[c].rest \in Path /\ call[c].rest # <<>> /\ Tail(call[c].rest) \in Path
      /\ Current(c) = call[c].rest[1]
  BY AtStepFacts
<1>2. did \in SUBSET Effects /\ did \subseteq {call[c].rest[1].does}
  BY <1>1 DEF Effect
<1>3. k \in CallType
  BY <1>1, <1>2 DEF CallType
<1>4. call[c].pack \notin LateRetriers =>
        RestKeeps(k.rest, {"act"}, Unsafe) /\ ("act" \in k.did => RestSpares(k.rest, Unsafe))
  <2>. SUFFICES ASSUME call[c].pack \notin LateRetriers
       PROVE RestKeeps(k.rest, {"act"}, Unsafe) /\ ("act" \in k.did => RestSpares(k.rest, Unsafe))
    OBVIOUS
  <2>1. RestKeeps(Tail(call[c].rest), {"act"}, Unsafe)
        /\ (call[c].rest[1].does = "act" => RestSpares(Tail(call[c].rest), Unsafe))
        /\ (RestSpares(call[c].rest, Unsafe) => RestSpares(Tail(call[c].rest), Unsafe))
    BY <1>1, TailKeeps, AtStepFacts
  <2>2. "act" \in call[c].did => RestSpares(call[c].rest, Unsafe)
    BY AtStepFacts
  <2>3. k.rest = Tail(call[c].rest) /\ k.did = call[c].did \cup did
    BY <1>1 DEF CallType
  <2>. QED
    BY <1>2, <2>1, <2>2, <2>3
<1>5. call[c].pack \notin LateRefusers =>
        RestKeeps(k.rest, Effects, Blames) /\ (k.did # {} => RestSpares(k.rest, Blames))
  <2>. SUFFICES ASSUME call[c].pack \notin LateRefusers
       PROVE RestKeeps(k.rest, Effects, Blames) /\ (k.did # {} => RestSpares(k.rest, Blames))
    OBVIOUS
  <2>1. RestKeeps(Tail(call[c].rest), Effects, Blames)
        /\ (call[c].rest[1].does \in Effects => RestSpares(Tail(call[c].rest), Blames))
        /\ (RestSpares(call[c].rest, Blames) => RestSpares(Tail(call[c].rest), Blames))
    BY <1>1, TailKeeps, AtStepFacts
  <2>2. call[c].did # {} => RestSpares(call[c].rest, Blames)
    BY AtStepFacts
  <2>3. k.rest = Tail(call[c].rest) /\ k.did = call[c].did \cup did
    BY <1>1 DEF CallType
  <2>. QED
    BY <1>2, <2>1, <2>2, <2>3
<1>6. CallOK(c, k)
  BY <1>1, <1>4, <1>5 DEF CallOK, PhaseAgrees, ActedIsSafe, RefusalIsClean, ServedIsOwn, InHandler, Answered, CallType
<1>. QED
  BY <1>3, <1>6, OneCall

\* A step for some inputs only, passed over.
LEMMA SkipStep == ASSUME PackIInv, NEW c \in Calls, Skip(c) PROVE PackIInv'
<1>1. AtStep(c) /\ call[c] \in CallType
  BY DEF Skip, PackIInv, PackTypeOK
<1>2. PICK k : k = [call[c] EXCEPT !.rest = Tail(call[c].rest), !.did = call[c].did \cup {}]
  OBVIOUS
<1>3. call' = [call EXCEPT ![c] = k]
  BY <1>1, <1>2, ZenonT(30) DEF Skip, PackIInv, PackTypeOK, CallType
<1>4. call' \in [Calls -> CallType] /\ \A d \in Calls : CallOK(d, call'[d])
  BY <1>1, <1>2, <1>3, Advancing
<1>. QED
  BY <1>4 DEF Skip, PackIInv, PackTypeOK, EntriesAreOwn, CallOK, PhaseAgrees, Answered, Over

\* A step that has its effect.
LEMMA DoStep == ASSUME PackIInv, NEW c \in Calls, Do(c) PROVE PackIInv'
<1>1. AtStep(c) /\ call[c] \in CallType /\ CallOK(c, call[c]) /\ call[c].pack \in Packs
  BY DEF Do, AtStep, PackIInv, PackTypeOK, CallOK, PhaseAgrees
<1>2. PICK k : k = [call[c] EXCEPT !.rest = Tail(call[c].rest), !.did = call[c].did \cup Effect(c)]
  OBVIOUS
<1>3. call' = [call EXCEPT ![c] = k]
  BY <1>1, <1>2 DEF Do, PackIInv, PackTypeOK, CallType
<1>4. call' \in [Calls -> CallType] /\ \A d \in Calls : CallOK(d, call'[d])
  BY <1>1, <1>2, <1>3, Advancing
<1>5. kept' \subseteq Entries /\ EntriesAreOwn'
  <2>1. kept' = kept \/ \E key \in Keys : kept' = Write(c, key, NoAnswer)
    <3>1. HandlersKey \in Keys
      BY DEF Keys
    <3>. QED
      BY <3>1 DEF Do, Written
  <2>2. CASE kept' = kept
    BY <2>2 DEF PackIInv, PackTypeOK, EntriesAreOwn
  <2>3. ASSUME NEW key \in Keys, kept' = Write(c, key, NoAnswer)
        PROVE  kept' \subseteq Entries /\ EntriesAreOwn'
    <3>1. call[c].sess \in Sessions \cup {None}
      BY <1>1 DEF CallType
    <3>. QED
      BY <2>3, <3>1, Putting DEF Write
  <2>. QED
    BY <2>1, <2>2, <2>3
<1>6. arts' \in [Calls -> SUBSET Calls]
  BY DEF Do, Stored, PackIInv, PackTypeOK
<1>. QED
  BY <1>4, <1>5, <1>6 DEF Do, PackIInv, PackTypeOK, CallOK, PhaseAgrees, Answered, Over

\* A step that fails: with what its path allows at that point.
LEMMA FailStep == ASSUME PackIInv, NEW c \in Calls, Fail(c) PROVE PackIInv'
<1>1. /\ AtStep(c) /\ call[c] \in CallType /\ call[c].phase = "run"
      /\ call[c].rest \in Path /\ call[c].rest # <<>> /\ Len(call[c].rest) \in Nat \ {0}
      /\ Current(c) = call[c].rest[1] /\ Current(c) \in Steps
  BY AtStepFacts, TailOfPath DEF Fail
<1>2. PICK did, err, code :
        /\ did \in {{}, Effect(c)} /\ err \in Errors(Current(c))
        /\ code \in Wrap(err, call[c].ended)
        /\ did = Effect(c) => err \in Current(c).after \/ Effect(c) = {}
        /\ call' = [Leave(c, code) EXCEPT ![c].did = @ \cup did]
  <2>1. CASE \E err \in Current(c).before : \E code \in Wrap(err, call[c].ended) :
               call' = Leave(c, code)
    <3>1. PICK err \in Current(c).before : \E code \in Wrap(err, call[c].ended) : call' = Leave(c, code)
      BY <2>1
    <3>2. PICK code \in Wrap(err, call[c].ended) : call' = Leave(c, code)
      BY <3>1
    <3>3. Leave(c, code) = [Leave(c, code) EXCEPT ![c].did = @ \cup {}]
      <4>1. Leave(c, code) = [call EXCEPT ![c] = [call[c] EXCEPT !.phase = "leave", !.code = code]]
        BY <1>1 DEF Leave, PackIInv, PackTypeOK
      <4>2. Leave(c, code)[c] = [call[c] EXCEPT !.phase = "leave", !.code = code]
        BY <1>1, <4>1 DEF PackIInv, PackTypeOK
      <4>3. [Leave(c, code)[c] EXCEPT !.did = @ \cup {}] = Leave(c, code)[c]
        BY <1>1, <4>2 DEF CallType
      <4>4. [Leave(c, code) EXCEPT ![c].did = @ \cup {}] = [Leave(c, code) EXCEPT ![c] = Leave(c, code)[c]]
        BY <4>3
      <4>. QED
        BY <1>1, <4>1, <4>4 DEF PackIInv, PackTypeOK
    <3>4. err \in Errors(Current(c)) /\ ({} = Effect(c) => Effect(c) = {})
      BY <3>1 DEF Errors
    <3>. QED
      BY <3>2, <3>3, <3>4
  <2>2. CASE \E err \in Current(c).after : \E code \in Wrap(err, call[c].ended) :
               call' = [Leave(c, code) EXCEPT ![c].did = @ \cup Effect(c)]
    <3>1. PICK err \in Current(c).after : \E code \in Wrap(err, call[c].ended) :
               call' = [Leave(c, code) EXCEPT ![c].did = @ \cup Effect(c)]
      BY <2>2
    <3>2. err \in Errors(Current(c))
      BY <3>1 DEF Errors
    <3>. QED
      BY <3>1, <3>2
  <2>. QED
    BY <2>1, <2>2 DEF Fail
<1>3. /\ code \in Codes /\ (code = err \/ err \in Untyped)
      /\ code = Invalid => code = err \/ err = Raw
  <2>1. err \in Codes \cup Untyped
    BY <1>1, <1>2 DEF Errors, Steps, Causes
  <2>2. CASE err = Gone
    <3>1. code = Timeout
      BY <1>2, <2>2, CodeFacts DEF Wrap
    <3>. QED
      BY <2>2, <3>1, CodeFacts DEF Untyped
  <2>3. CASE err = Raw
    <3>1. code \in Hints
      BY <1>2, <2>3, CodeFacts DEF Wrap
    <3>. QED
      BY <2>3, <3>1, CodeFacts DEF Untyped, Hints
  <2>4. CASE err \notin Untyped
    <3>1. code = err
      BY <1>2, <2>4 DEF Wrap, Untyped
    <3>. QED
      BY <2>1, <2>4, <3>1
  <2>. QED
    BY <2>2, <2>3, <2>4 DEF Untyped
<1>4. did \in SUBSET Effects /\ call[c].did \cup did \in SUBSET Effects
  BY <1>1, <1>2 DEF Effect, CallType
<1>5. call[c].pack \notin LateRetriers /\ code \in Retryable => "act" \notin call[c].did \cup did
  <2>. SUFFICES ASSUME call[c].pack \notin LateRetriers, code \in Retryable
       PROVE "act" \notin call[c].did /\ "act" \notin did
    OBVIOUS
  <2>1. "act" \in call[c].did => err \notin Unsafe
    BY <1>1, <1>2, AtStepFacts DEF RestSpares
  <2>2. "act" \in did => err \notin Unsafe
    BY <1>1, <1>2, AtStepFacts DEF RestKeeps, Spares, Effect
  <2>. QED
    BY <1>3, <2>1, <2>2 DEF Unsafe
<1>6. call[c].pack \notin LateRefusers /\ code = Invalid => call[c].did \cup did = {}
  <2>. SUFFICES ASSUME call[c].pack \notin LateRefusers, code = Invalid
       PROVE call[c].did = {} /\ did = {}
    OBVIOUS
  <2>1. call[c].did # {} => err \notin Blames
    BY <1>1, <1>2, AtStepFacts DEF RestSpares
  <2>2. did # {} => err \notin Blames
    BY <1>1, <1>2, AtStepFacts DEF RestKeeps, Spares, Effect
  <2>. QED
    BY <1>3, <2>1, <2>2 DEF Blames
<1>7. PICK k : k = [call[c] EXCEPT !.phase = "leave", !.code = code, !.did = call[c].did \cup did]
  OBVIOUS
<1>8. call' = [call EXCEPT ![c] = k]
  BY <1>1, <1>2, <1>7 DEF Leave, PackIInv, PackTypeOK, CallType
<1>9. call' \in [Calls -> CallType] /\ \A d \in Calls : CallOK(d, call'[d])
  BY <1>1, <1>3, <1>4, <1>5, <1>6, <1>7, <1>8, Leaving
<1>. QED
  BY <1>9 DEF Fail, PackIInv, PackTypeOK, EntriesAreOwn, CallOK, PhaseAgrees, Answered, Over

\* The handler is through: its output is refused, or is the answer.
LEMMA ReturnStep == ASSUME PackIInv, NEW c \in Calls, Return(c) PROVE PackIInv'
<1>1. /\ call[c] \in CallType /\ call[c].phase = "run" /\ call[c].did \in SUBSET Effects
      /\ call[c].pack \in Packs /\ call[c].input \in Inputs
  BY DEF Return, PackIInv, PackTypeOK, CallType, CallOK, PhaseAgrees
<1>2. PICK code \in {BadOutput, Ok} : call' = Leave(c, code)
  BY DEF Return
<1>3. PICK k : k = [call[c] EXCEPT !.phase = "leave", !.code = code, !.did = call[c].did]
  OBVIOUS
<1>4. call' = [call EXCEPT ![c] = k]
  BY <1>1, <1>2, <1>3 DEF Leave, PackIInv, PackTypeOK, CallType
<1>5. call' \in [Calls -> CallType] /\ \A d \in Calls : CallOK(d, call'[d])
  BY <1>1, <1>3, <1>4, CodeFacts, Leaving
<1>6. kept' \subseteq Entries /\ EntriesAreOwn'
  <2>1. kept' = kept \/ (Of(c).cached /\ kept' = Write(c, CacheKey(c), CacheKey(c)))
    BY DEF Return
  <2>2. CASE kept' = kept
    BY <2>2 DEF PackIInv, PackTypeOK, EntriesAreOwn
  <2>3. CASE Of(c).cached /\ kept' = Write(c, CacheKey(c), CacheKey(c))
    <3>1. CacheKey(c) \in Keys
      BY <1>1, <2>3 DEF CacheKey, Keys, Of
    <3>2. call[c].sess \in Sessions \cup {None}
      BY <1>1 DEF CallType
    <3>. QED
      BY <2>3, <3>1, <3>2, Putting DEF Write
  <2>. QED
    BY <2>1, <2>2, <2>3
<1>. QED
  BY <1>5, <1>6 DEF Return, PackIInv, PackTypeOK, CallOK, PhaseAgrees, Answered, Over

\* A fact stored by HTTP.
LEMMA StoreFactStep ==
  ASSUME PackIInv, NEW c \in Calls, NEW key \in Keys, StoreFact(c, key) PROVE PackIInv'
<1>1. kept' \subseteq Entries /\ EntriesAreOwn'
  BY Putting DEF StoreFact
<1>2. call' = call /\ begun' \in 0..MaxCalls
  BY WellFormed DEF StoreFact, PackIInv, PackTypeOK, PackAssumption
<1>. QED
  BY <1>1, <1>2 DEF StoreFact, PackIInv, PackTypeOK, Over

\* Every step of the specification keeps the invariant.
LEMMA Inductive == PackIInv /\ [Next]_vars => PackIInv'
<1>. SUFFICES ASSUME PackIInv, [Next]_vars PROVE PackIInv'
  OBVIOUS
<1>1. ASSUME NEW c \in Calls, NEW p \in Packs, NEW i \in Inputs, NEW pin \in 0..made,
             Begin(c, p, i, pin) PROVE PackIInv'
  BY <1>1, BeginStep
<1>2. ASSUME NEW c \in Calls, Execute(c) PROVE PackIInv'
  BY <1>2, RefuseInputStep, NeedsNoneStep, AttachStep, CreateStep, NoSessionForStep,
     ServeCachedStep, InvokeStep, SkipStep, DoStep, FailStep, PanicStep, ReturnStep,
     FinishStep DEF Execute
<1>3. ASSUME NEW c \in Calls, EndContext(c) PROVE PackIInv'
  BY <1>3, EndContextStep
<1>4. ASSUME NEW s \in live, SessionEnds(s) PROVE PackIInv'
  BY <1>4 DEF SessionEnds, PackIInv, PackTypeOK, EntriesAreOwn, Over
<1>5. ASSUME NEW x \in kept, EntryExpires(x) PROVE PackIInv'
  BY <1>5 DEF EntryExpires, PackIInv, PackTypeOK, EntriesAreOwn, Over
<1>6. ASSUME NEW c \in Calls, NEW key \in Keys, StoreFact(c, key) PROVE PackIInv'
  BY <1>6, StoreFactStep
<1>7. CASE UNCHANGED vars
  BY <1>7 DEF vars, PackIInv, PackTypeOK, EntriesAreOwn, Over
<1>. QED
  BY <1>1, <1>2, <1>3, <1>4, <1>5, <1>6, <1>7 DEF Next

LEMMA Initially == Init => PackIInv
<1>. SUFFICES ASSUME Init PROVE PackIInv
  OBVIOUS
<1>1. NoCall \in CallType
  BY DEF NoCall, CallType, None, Path
<1>2. \A c \in Calls : CallOK(c, NoCall)
  BY DEF NoCall, CallOK, PhaseAgrees, ActedIsSafe, RefusalIsClean, ServedIsOwn, InHandler, Answered
<1>3. NoCall.phase = "idle"
  BY DEF NoCall
<1>4. call = [c \in Calls |-> NoCall] /\ begun = 0 /\ made = 0 /\ live = {} /\ kept = {}
      /\ arts = [c \in Calls |-> {}]
  BY DEF Init
<1>5. \A c \in Calls : call[c] = NoCall
  BY <1>4
<1>6. call \in [Calls -> CallType] /\ \A c \in Calls : CallOK(c, call[c])
  <2>1. call \in [Calls -> CallType]
    BY <1>1, <1>4
  <2>. QED
    BY <1>2, <1>5, <2>1
<1>7. \A c \in Calls : Over(c) => call[c].code \in Codes \cup {Ok}
  BY <1>3, <1>5 DEF Over
<1>8. begun \in 0..MaxCalls /\ made \in 0..MaxSessions /\ live \subseteq 1..made
      /\ kept \subseteq Entries /\ arts \in [Calls -> SUBSET Calls]
  BY <1>4, WellFormed DEF PackAssumption
<1>9. EntriesAreOwn
  BY <1>4 DEF EntriesAreOwn
<1>. QED
  BY <1>6, <1>7, <1>8, <1>9 DEF PackIInv, PackTypeOK

THEOREM Invariance == Spec => []PackIInv
BY Initially, Inductive, PTL DEF Spec

\* PackTypeOK: the engine's variables keep their types and every answer
\* carries a code of the closed set.
THEOREM TypeCorrect == Spec => []PackTypeOK
<1>1. PackIInv => PackTypeOK
  BY DEF PackIInv
<1>. QED
  BY <1>1, Invariance, PTL

\* RetryIsSafe: over any number of concurrent calls, a context that ends
\* anywhere and whichever step fails, the engine turns no error of a handler
\* that acted into one a pipeline calls transient, if the handlers but those
\* named type the errors that follow an effect (LateErrorsTyped, which TLC
\* checks of the shipped catalogue).
THEOREM RetriesAreSafe == Spec => []RetryIsSafe
<1>1. PackIInv => RetryIsSafe
  BY DEF PackIInv, RetryIsSafe, ActedInVain, CallOK, ActedIsSafe, Answered, Over
<1>. QED
  BY <1>1, Invariance, PTL

\* RefusedIsClean: whatever interleaves, a call told that its input is wrong
\* has neither acted nor had a provider paid for, if the handlers but those
\* named check inputs before effects (InputsCheckedFirst, checked likewise).
THEOREM RefusalsAreClean == Spec => []RefusedIsClean
<1>1. PackIInv => RefusedIsClean
  BY DEF PackIInv, RefusedIsClean, CallOK, RefusalIsClean, Answered, Over
<1>. QED
  BY <1>1, Invariance, PTL

\* CacheServesOwn: although packs, notes and facts share the namespace and
\* any of them may write any key, no caller is served what another wrote, nor
\* an answer to another question or one that was rejected.
THEOREM CacheIsPrivate == Spec => []CacheServesOwn
<1>1. PackIInv => CacheServesOwn
  BY DEF PackIInv, CacheServesOwn, CacheKey, CallOK, ServedIsOwn
<1>. QED
  BY <1>1, Invariance, PTL
=============================================================================
