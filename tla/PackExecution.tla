--------------------------- MODULE PackExecution ---------------------------
(***************************************************************************)
(* The pack engine (internal/packs/packs.go: Engine.Execute, classify.go): *)
(* calls of packs that check their input, take or make a session, look in  *)
(* the cache, run the handler step by step, keep what it stored and leave. *)
(* What each handler can do is a parameter; PackCatalogue has the packs    *)
(* this repository ships.                                                  *)
(***************************************************************************)
EXTENDS PackSteps, FiniteSets

CONSTANTS
  Calls,        \* slots for concurrent calls of Execute
  Caller,       \* the caller each slot runs for
  Catalogue,    \* name |-> [paths, session, keeps, cached]
  LateRefusers, \* packs that find a mistake in the input late
  LateRetriers, \* packs that fail in a retryable way late
  Inputs,       \* the inputs a caller can repeat
  MaxCalls,     \* bound on the calls of a behaviour
  MaxSessions   \* bound on the sessions the runtime makes

Packs == DOMAIN Catalogue
Sessions == 1..MaxSessions
None == 0
Ok == "ok"

\* Keys of the memory: of the cache, pack.Name + "/" + sha256hex(input), for
\* the packs that are cached; and one for every other key.
HandlersKey == <<>>
Keys == ({p \in Packs : Catalogue[p].cached} \X Inputs) \cup {HandlersKey}

\* Codes a pipeline calls transient: isRetryable, pipelines/classify.go.
Retryable == {Timeout, NoSession, NoArtifact, Exhausted}

\* What a repeated call would do twice.
Effects == {"act", "pay"}
Errors(s) == s.before \cup s.after

Path == Seq(Steps)
PackAssumption ==
  /\ None \notin Inputs /\ MaxSessions \in Nat /\ MaxCalls \in Nat
  /\ \A p \in Packs :
       /\ Catalogue[p].paths \subseteq Path
       /\ Catalogue[p].session \in BOOLEAN
       /\ Catalogue[p].keeps \in BOOLEAN /\ Catalogue[p].cached \in BOOLEAN
ASSUME WellFormed == PackAssumption

\* From step i on, once it had its effect, no error of these.
Spares(path, i, errors) ==
  /\ path[i].after \cap errors = {}
  /\ \A j \in i+1..Len(path) : Errors(path[j]) \cap errors = {}

\* But in the packs named: once a handler has changed the outside world, no
\* error of a later step is one a caller is told to retry, nor one the
\* engine has to classify.
Unsafe == Retryable \cup Untyped
HandlersTypeLateErrors ==
  \A p \in Packs \ LateRetriers : \A path \in Catalogue[p].paths :
    \A i \in 1..Len(path) : path[i].does = "act" => Spares(path, i, Unsafe)
ASSUME LateErrorsTyped == HandlersTypeLateErrors

\* But in others: once it has had any effect, none is the caller's mistake.
Blames == {Invalid, Raw}
HandlersCheckFirst ==
  \A p \in Packs \ LateRefusers : \A path \in Catalogue[p].paths :
    \A i \in 1..Len(path) : path[i].does \in Effects => Spares(path, i, Blames)
ASSUME InputsCheckedFirst == HandlersCheckFirst

VARIABLES
  call,   \* the state of each slot
  begun,  \* how many calls have begun
  made,   \* how many sessions the runtime has made
  live,   \* the sessions that run
  arts,   \* the calls whose artifacts are as young as this call and carry
          \* its pack's name
  kept    \* memory entries: where (namespace and key), who wrote it, which
          \* call of a pack it answers, whether it passed the output schema
vars == <<call, begun, made, live, arts, kept>>

\* did: the effects the handler had.  served: the entry, if the cache
\* answered.
NoCall == [phase |-> "idle", pack |-> "", input |-> None, pin |-> None,
           sess |-> None, rest |-> <<>>, did |-> {}, ended |-> FALSE,
           code |-> "", served |-> {}, row |-> ""]

Running(c) == call[c].phase \notin {"idle", "over"}
Of(c)      == Catalogue[call[c].pack]

\* Mutant: the namespace is the session's alone.
MineBySession(c, x) == x.session = call[c].sess
\* The namespace: the caller's, and the session's if the call has one.  All
\* packs share it, and so does what the caller itself stores.
Mine(c, x) == x.caller = Caller[c] /\ x.session = call[c].sess

CacheKey(c) == <<call[c].pack, call[c].input>>
Hits(c) == {x \in kept : Of(c).cached /\ Mine(c, x) /\ x.key = CacheKey(c)}

\* What nothing computed answers no call and met no schema.
NoAnswer == <<>>
Entry(caller, session, key, answers) ==
  [caller |-> caller, session |-> session, key |-> key, maker |-> caller,
   answers |-> answers, valid |-> answers # NoAnswer]
\* A Put replaces the entry of its namespace and key.
Put(x) == {y \in kept : y.caller # x.caller \/ y.session # x.session
                         \/ y.key # x.key} \cup {x}
Write(c, key, answers) == Put(Entry(Caller[c], call[c].sess, key, answers))

Init ==
  /\ call = [c \in Calls |-> NoCall]
  /\ begun = 0 /\ made = 0
  /\ live = {} /\ kept = {}
  /\ arts = [c \in Calls |-> {}]

-----------------------------------------------------------------------------
\* The pin is the _session_id of the input: any session there ever was.
Begin(c, p, i, pin) ==
  /\ ~Running(c)
  /\ begun < MaxCalls
  /\ begun' = begun + 1
  /\ call' = [call EXCEPT ![c] = [NoCall EXCEPT !.phase = "input", !.pack = p,
                                                !.input = i, !.pin = pin]]
  /\ arts' = [arts EXCEPT ![c] = {}]
  /\ UNCHANGED <<made, live, kept>>

Leave(c, code) == [call EXCEPT ![c].phase = "leave", ![c].code = code]

RefuseInput(c) ==
  /\ call[c].phase = "input"
  /\ call' = Leave(c, Invalid)
  /\ UNCHANGED <<begun, made, live, arts, kept>>

\* Only a pack that declares it has a session looks at the one named.
NeedsNone(c) ==
  /\ call[c].phase = "input" /\ ~Of(c).session
  /\ call' = [call EXCEPT ![c].phase = "ready"]
  /\ UNCHANGED <<begun, made, live, arts, kept>>

Attach(c) ==
  /\ call[c].phase = "input" /\ Of(c).session /\ call[c].pin \in live
  /\ call' = [call EXCEPT ![c].phase = "ready", ![c].sess = call[c].pin]
  /\ UNCHANGED <<begun, made, live, arts, kept>>

Create(c) ==
  /\ call[c].phase = "input" /\ Of(c).session /\ call[c].pin = None
  /\ made < MaxSessions
  /\ made' = made + 1
  /\ live' = live \cup {made + 1}
  /\ call' = [call EXCEPT ![c].phase = "ready", ![c].sess = made + 1]
  /\ UNCHANGED <<begun, arts, kept>>

\* The runtime has no such session, or cannot make one, or no browser
\* answers in the one there is.
NoSessionFor(c) ==
  /\ \/ call[c].phase = "input" /\ Of(c).session /\ call[c].pin \notin live
     \/ call[c].phase = "ready" /\ call[c].sess # None
  /\ call' = Leave(c, NoSession)
  /\ UNCHANGED <<begun, made, live, arts, kept>>

\* The cache answers before the handler runs, and the handler's artifacts
\* are not collected.
ServeCached(c) ==
  /\ call[c].phase = "ready"
  /\ \E x \in Hits(c) :
       call' = [Leave(c, Ok) EXCEPT ![c].served = {x}]
  /\ UNCHANGED <<begun, made, live, arts, kept>>

\* A cache that cannot be read is a miss.
Invoke(c) ==
  /\ call[c].phase = "ready"
  /\ \E path \in Of(c).paths :
       call' = [call EXCEPT ![c].phase = "run", ![c].rest = path]
  /\ UNCHANGED <<begun, made, live, arts, kept>>

-----------------------------------------------------------------------------
(* The handler.                                                            *)
Current(c) == Head(call[c].rest)
AtStep(c)  == call[c].phase = "run" /\ call[c].rest # <<>>

Skip(c) ==
  /\ AtStep(c) /\ Current(c).opt
  /\ call' = [call EXCEPT ![c].rest = Tail(@)]
  /\ UNCHANGED <<begun, made, live, arts, kept>>

\* A handler without a session has no executor; the memory refuses a call
\* whose context has ended, which a handler may not care about.
CanDo(c) ==
  /\ Current(c).does # "stop"
  /\ Current(c).does = "exec" => call[c].sess # None
  /\ Current(c).does \in {"note", "fact", "drop"} /\ call[c].ended =>
       Current(c).before = {}

\* What the current step does that a repeated call would do twice.
Effect(c) == {Current(c).does} \cap Effects

\* A stored artifact is younger than every call that runs.
Stored(c) ==
  [d \in Calls |->
     IF d = c \/ (Running(d) /\ call[d].pack = call[c].pack)
       THEN arts[d] \cup {c} ELSE arts[d]]

\* memory_store.go: the key is the caller's to choose, a cache key included.
Written(c) ==
  IF call[c].ended THEN {kept}
  ELSE CASE Current(c).does = "note" -> {Write(c, HandlersKey, NoAnswer)}
         [] Current(c).does = "fact" -> {Write(c, key, NoAnswer) : key \in Keys}
         [] OTHER -> {kept}

Do(c) ==
  /\ AtStep(c) /\ CanDo(c)
  /\ call' = [call EXCEPT ![c].rest = Tail(@), ![c].did = @ \cup Effect(c)]
  /\ arts' = IF Current(c).does = "store" THEN Stored(c) ELSE arts
  /\ kept' \in Written(c)
  /\ UNCHANGED <<begun, made, live>>

Hints == {Timeout, NoSession, NoArtifact, Invalid, Failed}
\* Mutant: the context's end comes before the handler's own code.
WrapContextFirst(err, ended) ==
  CASE ended       -> {Timeout}
    [] err = Raw   -> Hints
    [] err = Gone  -> {}
    [] OTHER       -> {err}
\* wrap: a code the handler chose stands, whatever became of the context;
\* only an untyped error is classified: a context's own, which is there once
\* the context has ended, or by what it wraps (a timer of its own, a session
\* that is gone) and what its text says.
Wrap(err, ended) ==
  CASE err = Gone  -> {Timeout : x \in {TRUE} \cap {ended}}
    [] err = Raw   -> Hints
    [] OTHER       -> {err}

\* A step fails with or without having had its effect.
Fail(c) ==
  /\ AtStep(c)
  /\ \/ \E err \in Current(c).before : \E code \in Wrap(err, call[c].ended) :
          call' = Leave(c, code)
     \/ \E err \in Current(c).after : \E code \in Wrap(err, call[c].ended) :
          call' = [Leave(c, code) EXCEPT ![c].did = @ \cup Effect(c)]
  /\ UNCHANGED <<begun, made, live, arts, kept>>

\* safeInvoke: a panic is an untyped error without a hint in its text.
Panic(c) ==
  /\ AtStep(c)
  /\ call' = Leave(c, Failed)
  /\ UNCHANGED <<begun, made, live, arts, kept>>

\* Mutant: an output that does not fit is told like an input that does not.
ReturnRefused(c) ==
  /\ call[c].phase = "run" /\ call[c].rest = <<>>
  /\ call' \in {Leave(c, Invalid), Leave(c, Ok)}
  /\ UNCHANGED <<begun, made, live, arts, kept>>

\* The output's schema, then the cache, which may refuse the entry.  No
\* artifact store of this repository fails to list what it indexed.
Return(c) ==
  /\ call[c].phase = "run" /\ call[c].rest = <<>>
  /\ \/ /\ call' = Leave(c, BadOutput)
        /\ UNCHANGED kept
     \/ /\ call' = Leave(c, Ok)
        /\ \/ /\ Of(c).cached /\ ~call[c].ended
              /\ kept' = Write(c, CacheKey(c), CacheKey(c))
           \/ UNCHANGED kept
  /\ UNCHANGED <<begun, made, live, arts>>

-----------------------------------------------------------------------------
(* The deferred part: the session the call made goes, unless the pack      *)
(* keeps it; the runtime may fail to remove it.  Then the row of the       *)
(* audit, with the call's own context; then the caller has its answer.     *)
Disposable(c) == call[c].sess # None /\ call[c].pin = None /\ ~Of(c).keeps

Finish(c) ==
  /\ call[c].phase = "leave"
  /\ live' \in IF Disposable(c) THEN {live, live \ {call[c].sess}} ELSE {live}
  /\ call' = [call EXCEPT
       ![c].phase = "over",
       ![c].row = IF call[c].ended THEN "" ELSE call[c].code]
  /\ UNCHANGED <<begun, made, arts, kept>>

EndContext(c) ==
  /\ Running(c) /\ ~call[c].ended
  /\ call' = [call EXCEPT ![c].ended = TRUE]
  /\ UNCHANGED <<begun, made, live, arts, kept>>

\* The watchdog, or a caller that asks for it, ends a session.
SessionEnds(s) ==
  /\ s \in live
  /\ live' = live \ {s}
  /\ UNCHANGED <<call, begun, made, arts, kept>>

\* POST /api/v1/memory/store: the same as the pack, by HTTP.  It counts as
\* a call of the caller's.
StoreFact(c, key) ==
  /\ begun < MaxCalls
  /\ begun' = begun + 1
  /\ kept' = Put(Entry(Caller[c], None, key, NoAnswer))
  /\ UNCHANGED <<call, made, live, arts>>

EntryExpires(x) ==
  /\ x \in kept
  /\ kept' = kept \ {x}
  /\ UNCHANGED <<call, begun, made, live, arts>>

Execute(c) ==
  \/ RefuseInput(c) \/ NeedsNone(c) \/ Attach(c) \/ Create(c)
  \/ NoSessionFor(c) \/ ServeCached(c) \/ Invoke(c)
  \/ Skip(c) \/ Do(c) \/ Fail(c) \/ Panic(c) \/ Return(c) \/ Finish(c)

Next ==
  \/ \E c \in Calls :
       \/ \E p \in Packs, i \in Inputs, pin \in 0..made : Begin(c, p, i, pin)
       \/ Execute(c)
       \/ EndContext(c)
       \/ \E key \in Keys : StoreFact(c, key)
  \/ \E s \in live : SessionEnds(s)
  \/ \E x \in kept : EntryExpires(x)

Spec == Init /\ [][Next]_vars

-----------------------------------------------------------------------------
(* What the engine promises.                                               *)
Callers == {Caller[c] : c \in Calls}
Entries == [caller : Callers, session : Sessions \cup {None}, key : Keys,
            maker : Callers, answers : Keys, valid : BOOLEAN]
CallType ==
  [phase : {"idle", "input", "ready", "run", "leave", "over"},
   pack : Packs \cup {""}, input : Inputs \cup {None},
   pin : Sessions \cup {None}, sess : Sessions \cup {None}, rest : Path,
   did : SUBSET Effects, ended : BOOLEAN,
   code : Codes \cup {Ok, ""}, served : SUBSET Entries,
   row : Codes \cup {Ok, ""}]

Over(c) == call[c].phase = "over"

\* The type of every variable; "every error is a *PackError carrying one of
\* the closed-set codes in errors.go" (packs.go, Execute).
PackTypeOK ==
  /\ call \in [Calls -> CallType]
  /\ \A c \in Calls : Over(c) => call[c].code \in Codes \cup {Ok}
  /\ begun \in 0..MaxCalls /\ made \in 0..MaxSessions
  /\ live \subseteq 1..made /\ kept \subseteq Entries
  /\ arts \in [Calls -> SUBSET Calls]

\* A code that a pipeline calls transient, and safe to retry, means that the
\* handler changed nothing outside: whatever the context did meanwhile, and
\* whichever step failed; but for the packs named (classify.go;
\* pipelines/classify.go, isRetryable).
ActedInVain(c) ==
  Over(c) /\ call[c].code \in Retryable /\ "act" \in call[c].did
RetryIsSafe ==
  \A c \in Calls : ActedInVain(c) => call[c].pack \in LateRetriers

\* "Fix them and re-run": a call refused for its input has neither changed
\* anything outside nor had a model or another provider paid for, but for
\* the packs named.
RefusedIsClean ==
  \A c \in Calls :
    Over(c) /\ call[c].code = Invalid /\ call[c].pack \notin LateRefusers =>
      call[c].did = {}

\* What the cache serves the caller wrote: an answer, which passed the output
\* schema, to a call of its own of the same pack with the same input, or a
\* fact it stored under that very key.  Never another caller's, and never
\* the answer to another question.
CacheServesOwn ==
  \A c \in Calls : \A x \in call[c].served :
    /\ x.maker = Caller[c]
    /\ x.answers # NoAnswer => x.answers = CacheKey(c) /\ x.valid

(* Refuted: what the code says of itself and does not do (README).         *)
\* isRetryable: "whether a failure class is safe to auto-retry": a launched
\* application, an agent that ran, and then a picture that cannot be stored.
EveryRetryIsSafe == \A c \in Calls : ~ActedInVain(c)
\* Execute: "a schema-invalid output is never cached (otherwise a rejected
\* payload would be served as success on the next call [...])"; a fact is.
ServedFitsSchema == \A c \in Calls : \A x \in call[c].served : x.valid
\* Execute: "collect artifacts the handler wrote during THIS run".
ArtifactsAreOwn ==
  \A c \in Calls : Over(c) /\ call[c].code = Ok => arts[c] \subseteq {c}
\* Execute: "Writes one row per Execute call".
EveryCallHasRow == \A c \in Calls : Over(c) => call[c].row = call[c].code
\* content.ground takes clone_path and path of a session the caller names.
PinIsUsed ==
  \A c \in Calls :
    AtStep(c) /\ Current(c).does = "exec" /\ call[c].pin \in live =>
      call[c].sess = call[c].pin
=============================================================================
