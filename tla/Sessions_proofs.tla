-------------------------- MODULE Sessions_proofs --------------------------
(***************************************************************************)
(* Proofs about Sessions.  One lemma per conjunct of the inductive         *)
(* invariant IInv says that every step of Next preserves it; each has one  *)
(* step per group of actions, split by action where that takes an argument.*)
(***************************************************************************)
EXTENDS SessionsInv, TLAPS

\* Type correctness: every assignment stays within its set.
LEMMA TypeOKStep == IInv /\ Next => TypeOK'
<1>. SUFFICES ASSUME IInv, Next PROVE TypeOK'  OBVIOUS
<1>. USE SessionsAssumption DEF IInv, Idle, Goto, Done, CtxLive, Remove, LeftBehind, docker, table, cancel, boot, fault
<1>1. ASSUME NEW c \in Calls, Ask(c) PROVE TypeOK'
  <2>1. ASSUME NEW s \in Sessions, NEW r \in Runs \cup {None}, NEW want \in Limits, NEW keep \in BOOLEAN, RequestContainer(c, s, r, want, keep) PROVE TypeOK'
    BY <2>1 DEF TypeOK, Places, Actors, RequestContainer
  <2>2. ASSUME NEW s \in Sessions, CallDelete(c, s) PROVE TypeOK'
    BY <2>2 DEF TypeOK, Places, Actors, CallDelete
  <2>3. ASSUME NEW s \in Sessions, NEW want \in Limits, PinSession(c, s, want) PROVE TypeOK'
    BY <2>3 DEF TypeOK, Places, Actors, PinSession
  <2>. QED  BY <1>1, <2>1, <2>2, <2>3 DEF Ask
<1>2. ASSUME NEW c \in Calls, Create(c) PROVE TypeOK'
  <2>1. CASE StartContainer(c)
    BY <2>1 DEF TypeOK, Places, Actors, StartContainer
  <2>2. CASE InspectContainer(c)
    BY <2>2 DEF TypeOK, Places, Actors, InspectContainer
  <2>3. CASE AbandonCreate(c)
    BY <2>3 DEF TypeOK, Places, Actors, AbandonCreate
  <2>4. CASE InsertEntry(c)
    BY <2>4 DEF TypeOK, Places, Actors, InsertEntry
  <2>5. CASE CreateAnswered(c)
    BY <2>5 DEF TypeOK, Places, Actors, CreateAnswered
  <2>6. CASE CreateFails(c)
    BY <2>6 DEF TypeOK, Places, Actors, CreateFails
  <2>. QED  BY <1>2, <2>1, <2>2, <2>3, <2>4, <2>5, <2>6 DEF Create
<1>3. ASSUME NEW c \in Calls, Pin(c) \/ HandlerReturns(c) PROVE TypeOK'
  <2>1. CASE PinInspect(c)
    <3>1. CASE Live(call[c].sess) /\ call[c].want > limit[call[c].sess]
      BY <2>1, <3>1 DEF TypeOK, Places, Actors, PinInspect
    <3>2. CASE Live(call[c].sess) /\ ~(call[c].want > limit[call[c].sess])
      BY <2>1, <3>2 DEF TypeOK, Places, Actors, PinInspect
    <3>3. CASE ~Live(call[c].sess)
      <4>1. call' = [call EXCEPT ![c] = Idle]
        BY <2>1, <3>3 DEF PinInspect
      <4>. QED  BY <2>1, <3>3, <4>1 DEF TypeOK, Places, Actors, PinInspect
    <3>. QED  BY <3>1, <3>2, <3>3
  <2>2. CASE ExtendTimeout(c)
    BY <2>2 DEF TypeOK, Places, Actors, ExtendTimeout
  <2>3. CASE HandlerReturns(c)
    <3>1. CASE call[c].keep
      <4>1. call' = [call EXCEPT ![c] = Idle]
        BY <2>3, <3>1 DEF HandlerReturns
      <4>. QED  BY <2>3, <3>1, <4>1 DEF TypeOK, Places, Actors, HandlerReturns
    <3>2. CASE ~call[c].keep
      BY <2>3, <3>2 DEF TypeOK, Places, Actors, HandlerReturns
    <3>. QED  BY <3>1, <3>2
  <2>. QED  BY <1>3, <2>1, <2>2, <2>3 DEF Pin
<1>4. ASSUME NEW a \in Actors, Terminate(a) PROVE TypeOK'
  <2>1. CASE TakeEntry(a)
    <3>1. CASE InTable(call[a].sess)
      BY <2>1, <3>1 DEF TypeOK, Places, Actors, TakeEntry
    <3>2. CASE ~InTable(call[a].sess)
      <4>1. call' = [call EXCEPT ![a] = Idle]
        BY <2>1, <3>2 DEF TakeEntry
      <4>. QED  BY <2>1, <3>2, <4>1 DEF TypeOK, Places, Actors, TakeEntry
    <3>. QED  BY <3>1, <3>2
  <2>2. CASE StopContainer(a)
    BY <2>2 DEF TypeOK, Places, Actors, StopContainer
  <2>3. CASE RemoveContainer(a)
    BY <2>3 DEF TypeOK, Places, Actors, RemoveContainer
  <2>4. CASE TerminateFails(a)
    BY <2>4 DEF TypeOK, Places, Actors, TerminateFails
  <2>. QED  BY <1>4, <2>1, <2>2, <2>3, <2>4 DEF Terminate
<1>5. CASE WatchdogTick \/ Tick
  <2>1. CASE ListExpired
    BY <2>1 DEF TypeOK, Places, Actors, ListExpired, Expired
  <2>2. ASSUME NEW s \in Sessions, Doom(s) PROVE TypeOK'
    BY <2>2 DEF TypeOK, Places, Actors, Doom
  <2>3. CASE Tick
    BY <2>3 DEF TypeOK, Places, Actors, Tick
  <2>. QED  BY <1>5, <2>1, <2>2, <2>3 DEF WatchdogTick
<1>6. ASSUME NEW r \in Runs, CancelContext(r) \/ TerminateByRunID(r) PROVE TypeOK'
  BY <1>6 DEF TypeOK, Places, Actors, CancelContext, TerminateByRunID, Listed, ListRun, ListRunFails, DropEntries, KillReturns, RemoveVictim
<1>7. CASE Crash \/ Boot
  <2>1. CASE Crash
    BY <2>1 DEF TypeOK, Places, Actors, Crash
  <2>2. CASE ListManaged \/ ListManagedFails
    BY <2>2 DEF TypeOK, Places, Actors, ListManaged, ListManagedFails
  <2>3. CASE Listen
    BY <2>3 DEF TypeOK, Places, Actors, Listen
  <2>4. ASSUME NEW s \in Sessions, PruneOrphan(s) PROVE TypeOK'
    BY <2>4 DEF TypeOK, Places, Actors, PruneOrphan
  <2>. QED  BY <1>7, <2>1, <2>2, <2>3, <2>4 DEF Boot
<1>8. ASSUME NEW s \in Sessions, MakeContainer(s) PROVE TypeOK'
  BY <1>8 DEF TypeOK, Places, Actors, MakeContainer, Listed
<1>. QED  BY <1>1, <1>2, <1>3, <1>4, <1>5, <1>6, <1>7, <1>8 DEF Next

\* Only created sessions get into calls, the table, a tick or a kill.
LEMMA NamedInvStep == IInv /\ Next => NamedInv'
<1>. SUFFICES ASSUME IInv, Next PROVE NamedInv'  OBVIOUS
<1>. USE SessionsAssumption DEF IInv, KillInv, TypeOK, Places, Actors, InTable, Live, Idle, Goto, Done, CtxLive, Remove, LeftBehind, docker, table, cancel, boot, fault
<1>1. ASSUME NEW c \in Calls, Ask(c) PROVE NamedInv'
  BY <1>1 DEF NamedInv, Ask, RequestContainer, CallDelete, PinSession
<1>2. ASSUME NEW c \in Calls, Create(c) PROVE NamedInv'
  BY <1>2 DEF NamedInv, Create, CreateAnswered, CreateFails, StartContainer, InspectContainer, AbandonCreate, InsertEntry
<1>3. ASSUME NEW c \in Calls, Pin(c) \/ HandlerReturns(c) PROVE NamedInv'
  BY <1>3 DEF NamedInv, Pin, PinInspect, ExtendTimeout, HandlerReturns
<1>4. ASSUME NEW a \in Actors, Terminate(a) PROVE NamedInv'
  BY <1>4 DEF NamedInv, Terminate, TakeEntry, StopContainer, RemoveContainer, TerminateFails
<1>5. CASE WatchdogTick \/ Tick
  BY <1>5 DEF NamedInv, WatchdogTick, ListExpired, Doom, Tick, Expired
<1>6. ASSUME NEW r \in Runs, CancelContext(r) \/ TerminateByRunID(r) PROVE NamedInv'
  BY <1>6 DEF NamedInv, CancelContext, TerminateByRunID, Listed, ListRun, ListRunFails, DropEntries, KillReturns, RemoveVictim
<1>7. CASE Crash \/ Boot
  BY <1>7 DEF NamedInv, Crash, Boot, ListManaged, ListManagedFails, Listen, PruneOrphan
<1>8. ASSUME NEW s \in Sessions, MakeContainer(s) PROVE NamedInv'
  BY <1>8 DEF NamedInv, MakeContainer, Listed
<1>. QED  BY <1>1, <1>2, <1>3, <1>4, <1>5, <1>6, <1>7, <1>8 DEF Next

\* A creation is alone with its session, and a termination has taken the entry.
LEMMA PhaseInvStep == IInv /\ Next => PhaseInv'
<1>. SUFFICES ASSUME IInv, Next PROVE PhaseInv'  OBVIOUS
<1>. USE SessionsAssumption DEF IInv, NamedInv, TypeOK, Actors, Creating, Terminating, InTable, Live, Cancelled, KillInv, DownInv, Idle, Goto, Done, CtxLive, Remove, LeftBehind, docker, table, cancel, boot, fault
<1>1. ASSUME NEW c \in Calls, Ask(c) PROVE PhaseInv'
  BY <1>1, SMTT(30) DEF PhaseInv, Ask, RequestContainer, CallDelete, PinSession
<1>2. ASSUME NEW c \in Calls, Create(c) PROVE PhaseInv'
  <2>1. CASE StartContainer(c)
    BY <2>1 DEF PhaseInv, StartContainer
  <2>2. CASE InspectContainer(c)
    BY <2>2 DEF PhaseInv, InspectContainer
  <2>3. CASE AbandonCreate(c)
    BY <2>3 DEF PhaseInv, AbandonCreate
  <2>4. CASE InsertEntry(c)
    BY <2>4 DEF PhaseInv, InsertEntry
  <2>5. CASE CreateAnswered(c)
    BY <2>5 DEF PhaseInv, CreateAnswered
  <2>6. CASE CreateFails(c)
    BY <2>6 DEF PhaseInv, CreateFails
  <2>. QED  BY <1>2, <2>1, <2>2, <2>3, <2>4, <2>5, <2>6 DEF Create
<1>3. ASSUME NEW c \in Calls, Pin(c) \/ HandlerReturns(c) PROVE PhaseInv'
  BY <1>3, SMTT(30) DEF PhaseInv, Pin, PinInspect, ExtendTimeout, HandlerReturns
<1>4. ASSUME NEW a \in Actors, Terminate(a) PROVE PhaseInv'
  <2>1. CASE TakeEntry(a)
    BY <2>1, SMTT(30) DEF PhaseInv, TakeEntry
  <2>2. CASE StopContainer(a)
    BY <2>2 DEF PhaseInv, StopContainer
  <2>3. CASE RemoveContainer(a)
    BY <2>3 DEF PhaseInv, RemoveContainer
  <2>4. CASE TerminateFails(a)
    BY <2>4 DEF PhaseInv, TerminateFails
  <2>. QED  BY <1>4, <2>1, <2>2, <2>3, <2>4 DEF Terminate
<1>5. CASE WatchdogTick \/ Tick
  BY <1>5 DEF PhaseInv, WatchdogTick, ListExpired, Doom, Tick, Expired
<1>6. ASSUME NEW r \in Runs, CancelContext(r) \/ TerminateByRunID(r) PROVE PhaseInv'
  BY <1>6 DEF PhaseInv, CancelContext, TerminateByRunID, Listed, ListRun, ListRunFails, DropEntries, KillReturns, RemoveVictim
<1>7. CASE Crash \/ Boot
  BY <1>7 DEF PhaseInv, Crash, Boot, ListManaged, ListManagedFails, Listen, PruneOrphan
<1>8. ASSUME NEW s \in Sessions, MakeContainer(s) PROVE PhaseInv'
  BY <1>8 DEF PhaseInv, MakeContainer, Listed
<1>. QED  BY <1>1, <1>2, <1>3, <1>4, <1>5, <1>6, <1>7, <1>8 DEF Next

\* No container of a cancelled run appears after it was listed.
LEMMA KillInvStep == IInv /\ Next => KillInv'
<1>. SUFFICES ASSUME IInv, Next PROVE KillInv'  OBVIOUS
<1>. USE SessionsAssumption DEF IInv, Listed, TypeOK, Live, DownInv, NamedInv, Idle, Goto, Done, CtxLive, Remove, LeftBehind, docker, table, cancel, boot, fault
<1>1. ASSUME NEW c \in Calls, Ask(c) PROVE KillInv'
  <2>1. ASSUME NEW s \in Sessions, NEW r \in Runs \cup {None}, NEW want \in Limits, NEW keep \in BOOLEAN, RequestContainer(c, s, r, want, keep) PROVE KillInv'
    BY <2>1 DEF KillInv, RequestContainer
  <2>2. ASSUME NEW s \in Sessions, CallDelete(c, s) PROVE KillInv'
    BY <2>2 DEF KillInv, CallDelete
  <2>3. ASSUME NEW s \in Sessions, NEW want \in Limits, PinSession(c, s, want) PROVE KillInv'
    BY <2>3 DEF KillInv, PinSession
  <2>. QED  BY <1>1, <2>1, <2>2, <2>3 DEF Ask
<1>2. ASSUME NEW c \in Calls, Create(c) PROVE KillInv'
  BY <1>2 DEF KillInv, Create, CreateAnswered, CreateFails, StartContainer, InspectContainer, AbandonCreate, InsertEntry
<1>3. ASSUME NEW c \in Calls, Pin(c) \/ HandlerReturns(c) PROVE KillInv'
  BY <1>3 DEF KillInv, Pin, PinInspect, ExtendTimeout, HandlerReturns
<1>4. ASSUME NEW a \in Actors, Terminate(a) PROVE KillInv'
  BY <1>4 DEF KillInv, Terminate, TakeEntry, StopContainer, RemoveContainer, TerminateFails
<1>5. CASE WatchdogTick \/ Tick
  BY <1>5 DEF KillInv, WatchdogTick, ListExpired, Doom, Tick, Expired
<1>6. ASSUME NEW r \in Runs, CancelContext(r) \/ TerminateByRunID(r) PROVE KillInv'
  BY <1>6 DEF KillInv, CancelContext, TerminateByRunID, Listed, ListRun, ListRunFails, DropEntries, KillReturns, RemoveVictim
<1>7. CASE Crash \/ Boot
  BY <1>7 DEF KillInv, Crash, Boot, ListManaged, ListManagedFails, Listen, PruneOrphan
<1>8. ASSUME NEW s \in Sessions, MakeContainer(s) PROVE KillInv'
  BY <1>8 DEF KillInv, MakeContainer, Listed
<1>. QED  BY <1>1, <1>2, <1>3, <1>4, <1>5, <1>6, <1>7, <1>8 DEF Next

\* Nothing runs between a crash and the end of the boot.
LEMMA DownInvStep == IInv /\ Next => DownInv'
<1>. SUFFICES ASSUME IInv, Next PROVE DownInv'  OBVIOUS
<1>. USE SessionsAssumption DEF IInv, TypeOK, Actors, InTable, Live, Idle, Goto, Done, CtxLive, Remove, LeftBehind, docker, table, cancel, boot, fault
<1>1. ASSUME NEW c \in Calls, Ask(c) PROVE DownInv'
  BY <1>1 DEF DownInv, Ask, RequestContainer, CallDelete, PinSession
<1>2. ASSUME NEW c \in Calls, Create(c) PROVE DownInv'
  BY <1>2 DEF DownInv, Create, CreateAnswered, CreateFails, StartContainer, InspectContainer, AbandonCreate, InsertEntry
<1>3. ASSUME NEW c \in Calls, Pin(c) \/ HandlerReturns(c) PROVE DownInv'
  BY <1>3 DEF DownInv, Pin, PinInspect, ExtendTimeout, HandlerReturns
<1>4. ASSUME NEW a \in Actors, Terminate(a) PROVE DownInv'
  BY <1>4 DEF DownInv, Terminate, TakeEntry, StopContainer, RemoveContainer, TerminateFails
<1>5. CASE WatchdogTick \/ Tick
  BY <1>5 DEF DownInv, WatchdogTick, ListExpired, Doom, Tick, Expired
<1>6. ASSUME NEW r \in Runs, CancelContext(r) \/ TerminateByRunID(r) PROVE DownInv'
  BY <1>6 DEF DownInv, CancelContext, TerminateByRunID, Listed, ListRun, ListRunFails, DropEntries, KillReturns, RemoveVictim
<1>7. CASE Crash \/ Boot
  <2>1. CASE Crash
    BY <2>1 DEF DownInv, Crash
  <2>2. CASE ListManaged \/ ListManagedFails
    BY <2>2 DEF DownInv, ListManaged, ListManagedFails
  <2>3. CASE Listen
    BY <2>3 DEF DownInv, Listen
  <2>4. ASSUME NEW s \in Sessions, PruneOrphan(s) PROVE DownInv'
    BY <2>4, ZenonT(30) DEF DownInv, PruneOrphan
  <2>. QED  BY <1>7, <2>1, <2>2, <2>3, <2>4 DEF Boot
<1>8. ASSUME NEW s \in Sessions, MakeContainer(s) PROVE DownInv'
  <2>1. phase # "up" => s \in strayed
    BY <1>8 DEF DownInv, AskedInv, MakeContainer
  <2>2. /\ phase' = phase /\ call' = call /\ limit' = limit /\ doomed' = doomed
        /\ victims' = victims /\ kill' = kill /\ stale' = stale
        /\ leaked' = leaked /\ strayed' = strayed
        /\ \A q \in Sessions \ {s} : container'[q] = container[q]
    BY <1>8 DEF MakeContainer
  <2>. QED  BY <2>1, <2>2 DEF DownInv
<1>. QED  BY <1>1, <1>2, <1>3, <1>4, <1>5, <1>6, <1>7, <1>8 DEF Next

\* A container changes hands, it never drops out of them: InsertEntry hands it
\* to the table, TakeEntry and DropEntries take it back.
LEMMA NothingForgottenStep == IInv /\ Next => NothingForgotten'
<1>. SUFFICES ASSUME IInv, Next PROVE NothingForgotten'  OBVIOUS
<1>. USE SessionsAssumption DEF IInv, TypeOK, NamedInv, PhaseInv, KillInv, DownInv, Creating, Terminating, InHand, InTable, Live, Actors, Idle, Goto, Done, CtxLive, Remove, LeftBehind, docker, table, cancel, boot, fault
<1>1. ASSUME NEW c \in Calls, Ask(c) PROVE NothingForgotten'
  <2>1. ASSUME NEW s \in Sessions, NEW r \in Runs \cup {None}, NEW want \in Limits, NEW keep \in BOOLEAN, RequestContainer(c, s, r, want, keep) PROVE NothingForgotten'
    BY <2>1 DEF NothingForgotten, RequestContainer
  <2>2. ASSUME NEW s \in Sessions, CallDelete(c, s) PROVE NothingForgotten'
    BY <2>2 DEF NothingForgotten, CallDelete
  <2>3. ASSUME NEW s \in Sessions, NEW want \in Limits, PinSession(c, s, want) PROVE NothingForgotten'
    BY <2>3 DEF NothingForgotten, PinSession
  <2>. QED  BY <1>1, <2>1, <2>2, <2>3 DEF Ask
<1>2. ASSUME NEW c \in Calls, Create(c) PROVE NothingForgotten'
  <2>1. CASE StartContainer(c)
    BY <2>1 DEF NothingForgotten, StartContainer
  <2>2. CASE InspectContainer(c)
    BY <2>2 DEF NothingForgotten, InspectContainer
  <2>3. CASE AbandonCreate(c)
    BY <2>3 DEF NothingForgotten, AbandonCreate
  <2>4. CASE InsertEntry(c)
    BY <2>4 DEF NothingForgotten, InsertEntry
  <2>5. CASE CreateAnswered(c)
    BY <2>5 DEF NothingForgotten, CreateAnswered
  <2>6. CASE CreateFails(c)
    BY <2>6 DEF NothingForgotten, CreateFails
  <2>. QED  BY <1>2, <2>1, <2>2, <2>3, <2>4, <2>5, <2>6 DEF Create
<1>3. ASSUME NEW c \in Calls, Pin(c) \/ HandlerReturns(c) PROVE NothingForgotten'
  BY <1>3, SMTT(30) DEF NothingForgotten, Pin, PinInspect, ExtendTimeout, HandlerReturns
<1>4. ASSUME NEW a \in Actors, Terminate(a) PROVE NothingForgotten'
  BY <1>4, SMTT(30) DEF NothingForgotten, Terminate, TakeEntry, StopContainer, RemoveContainer, TerminateFails
<1>5. CASE WatchdogTick \/ Tick
  BY <1>5 DEF NothingForgotten, WatchdogTick, ListExpired, Doom, Tick, Expired
<1>6. ASSUME NEW r \in Runs, CancelContext(r) \/ TerminateByRunID(r) PROVE NothingForgotten'
  BY <1>6 DEF NothingForgotten, CancelContext, TerminateByRunID, Listed, ListRun, ListRunFails, DropEntries, KillReturns, RemoveVictim
<1>7. CASE Crash \/ Boot
  BY <1>7 DEF NothingForgotten, Crash, Boot, ListManaged, ListManagedFails, Listen, PruneOrphan
<1>8. ASSUME NEW s \in Sessions, MakeContainer(s) PROVE NothingForgotten'
  BY <1>8 DEF NothingForgotten, AskedInv, MakeContainer
<1>. QED  BY <1>1, <1>2, <1>3, <1>4, <1>5, <1>6, <1>7, <1>8 DEF Next

\* The deferred Terminate of a call finds its entry, or somebody else took it.
LEMMA EphemeralSessionEndsStep == IInv /\ Next => EphemeralSessionEnds'
<1>. SUFFICES ASSUME IInv, Next PROVE EphemeralSessionEnds'  OBVIOUS
<1>. USE SessionsAssumption DEF IInv, NothingForgotten, TypeOK, KillInv, DownInv, InHand, InTable, Live, Actors, Idle, Goto, Done, CtxLive, Remove, LeftBehind, docker, table, cancel, boot, fault
<1>1. ASSUME NEW c \in Calls, Ask(c) PROVE EphemeralSessionEnds'
  <2>1. ASSUME NEW s \in Sessions, NEW r \in Runs \cup {None}, NEW want \in Limits, NEW keep \in BOOLEAN, RequestContainer(c, s, r, want, keep) PROVE EphemeralSessionEnds'
    BY <2>1 DEF EphemeralSessionEnds, RequestContainer
  <2>2. ASSUME NEW s \in Sessions, CallDelete(c, s) PROVE EphemeralSessionEnds'
    BY <2>2 DEF EphemeralSessionEnds, CallDelete
  <2>3. ASSUME NEW s \in Sessions, NEW want \in Limits, PinSession(c, s, want) PROVE EphemeralSessionEnds'
    BY <2>3 DEF EphemeralSessionEnds, PinSession
  <2>. QED  BY <1>1, <2>1, <2>2, <2>3 DEF Ask
<1>2. ASSUME NEW c \in Calls, Create(c) PROVE EphemeralSessionEnds'
  <2>1. CASE StartContainer(c)
    BY <2>1 DEF EphemeralSessionEnds, StartContainer
  <2>2. CASE InspectContainer(c)
    BY <2>2 DEF EphemeralSessionEnds, InspectContainer
  <2>3. CASE AbandonCreate(c)
    BY <2>3 DEF EphemeralSessionEnds, AbandonCreate
  <2>4. CASE InsertEntry(c)
    BY <2>4 DEF EphemeralSessionEnds, InsertEntry, PhaseInv, Creating
  <2>5. CASE CreateAnswered(c)
    BY <2>5 DEF EphemeralSessionEnds, CreateAnswered
  <2>6. CASE CreateFails(c)
    BY <2>6 DEF EphemeralSessionEnds, CreateFails
  <2>. QED  BY <1>2, <2>1, <2>2, <2>3, <2>4, <2>5, <2>6 DEF Create
<1>3. ASSUME NEW c \in Calls, Pin(c) \/ HandlerReturns(c) PROVE EphemeralSessionEnds'
  BY <1>3, SMTT(30) DEF EphemeralSessionEnds, Pin, PinInspect, ExtendTimeout, HandlerReturns
<1>4. ASSUME NEW a \in Actors, Terminate(a) PROVE EphemeralSessionEnds'
  <2>1. CASE TakeEntry(a)
    <3>1. /\ container' = container /\ victims' = victims /\ kept' = kept
          /\ leaked' = leaked /\ strayed' = strayed /\ phase' = phase
          /\ \A b \in Actors \ {a} : call'[b] = call[b]
          /\ call[a].at = "take"
      BY <2>1 DEF TakeEntry
    <3>2. \A s \in Sessions : InHand(s) => InHand(s)'
      BY <3>1
    <3>3. InTable(call[a].sess) =>
            call'[a].at = "stop" /\ call'[a].sess = call[a].sess
      BY <2>1 DEF TakeEntry
    <3>4. \A s \in Sessions : call[a].sess = s /\ Live(s) /\ phase = "up" =>
            InHand(s)' \/ s \in leaked' \cup strayed'
      <4>. SUFFICES ASSUME NEW s \in Sessions, call[a].sess = s, Live(s), phase = "up"
                    PROVE  InHand(s)' \/ s \in leaked' \cup strayed'
        OBVIOUS
      <4>1. CASE InTable(s)
        BY <4>1, <3>3
      <4>2. CASE ~InTable(s)
        BY <4>2, <3>1, <3>2
      <4>. QED  BY <4>1, <4>2
    <3>. QED  BY <3>1, <3>2, <3>4 DEF EphemeralSessionEnds
  <2>2. CASE StopContainer(a)
    BY <2>2 DEF EphemeralSessionEnds, StopContainer
  <2>3. CASE RemoveContainer(a)
    BY <2>3 DEF EphemeralSessionEnds, RemoveContainer
  <2>4. CASE TerminateFails(a)
    BY <2>4 DEF EphemeralSessionEnds, TerminateFails
  <2>. QED  BY <1>4, <2>1, <2>2, <2>3, <2>4 DEF Terminate
<1>5. CASE WatchdogTick \/ Tick
  BY <1>5 DEF EphemeralSessionEnds, WatchdogTick, ListExpired, Doom, Tick, Expired
<1>6. ASSUME NEW r \in Runs, CancelContext(r) \/ TerminateByRunID(r) PROVE EphemeralSessionEnds'
  BY <1>6, SMTT(30) DEF EphemeralSessionEnds, CancelContext, TerminateByRunID, Listed, ListRun, ListRunFails, DropEntries, KillReturns, RemoveVictim
<1>7. CASE Crash \/ Boot
  BY <1>7 DEF EphemeralSessionEnds, Crash, Boot, ListManaged, ListManagedFails, Listen, PruneOrphan
<1>8. ASSUME NEW s \in Sessions, MakeContainer(s) PROVE EphemeralSessionEnds'
  BY <1>8 DEF EphemeralSessionEnds, AskedInv, MakeContainer
<1>. QED  BY <1>1, <1>2, <1>3, <1>4, <1>5, <1>6, <1>7, <1>8 DEF Next

\* What docker has not made is in nobody's hands, what it made late stays there.
LEMMA AskedInvStep == IInv /\ Next => AskedInv'
<1>. SUFFICES ASSUME IInv, Next PROVE AskedInv'  OBVIOUS
<1>. USE SessionsAssumption DEF IInv, TypeOK, Actors, NamedInv, PhaseInv, KillInv, DownInv, Creating, Terminating, Cancelled, InTable, Live, Idle, Goto, Done, CtxLive, Remove, LeftBehind, docker, table, cancel, boot, fault
<1>1. ASSUME NEW c \in Calls, Ask(c) PROVE AskedInv'
  <2>1. ASSUME NEW s \in Sessions, NEW r \in Runs \cup {None}, NEW want \in Limits, NEW keep \in BOOLEAN, RequestContainer(c, s, r, want, keep) PROVE AskedInv'
    BY <2>1 DEF AskedInv, RequestContainer
  <2>2. ASSUME NEW s \in Sessions, CallDelete(c, s) PROVE AskedInv'
    BY <2>2 DEF AskedInv, CallDelete
  <2>3. ASSUME NEW s \in Sessions, NEW want \in Limits, PinSession(c, s, want) PROVE AskedInv'
    BY <2>3 DEF AskedInv, PinSession
  <2>. QED  BY <1>1, <2>1, <2>2, <2>3 DEF Ask
<1>2. ASSUME NEW c \in Calls, Create(c) PROVE AskedInv'
  <2>1. CASE StartContainer(c)
    BY <2>1 DEF AskedInv, StartContainer
  <2>2. CASE InspectContainer(c)
    BY <2>2 DEF AskedInv, InspectContainer
  <2>3. CASE AbandonCreate(c)
    BY <2>3 DEF AskedInv, AbandonCreate
  <2>4. CASE InsertEntry(c)
    BY <2>4 DEF AskedInv, InsertEntry
  <2>5. CASE CreateAnswered(c)
    BY <2>5 DEF AskedInv, CreateAnswered
  <2>6. CASE CreateFails(c)
    BY <2>6 DEF AskedInv, CreateFails
  <2>. QED  BY <1>2, <2>1, <2>2, <2>3, <2>4, <2>5, <2>6 DEF Create
<1>3. ASSUME NEW c \in Calls, Pin(c) \/ HandlerReturns(c) PROVE AskedInv'
  BY <1>3, SMTT(30) DEF AskedInv, Pin, PinInspect, ExtendTimeout, HandlerReturns
<1>4. ASSUME NEW a \in Actors, Terminate(a) PROVE AskedInv'
  <2>1. CASE TakeEntry(a)
    <3>1. /\ container' = container /\ kill' = kill /\ runOf' = runOf
          /\ late' = late /\ strayed' = strayed
          /\ \A b \in Actors \ {a} : call'[b] = call[b]
          /\ call[a].at = "take" /\ call[a].sess \in Sessions
          /\ \A s \in Sessions : ~InTable(s) => limit'[s] = 0
      BY <2>1 DEF TakeEntry
    <3>2. \/ call'[a] = Idle
          \/ InTable(call[a].sess) /\ call'[a].sess = call[a].sess
      <4>1. CASE InTable(call[a].sess)
        BY <2>1, <4>1 DEF TakeEntry
      <4>2. CASE ~InTable(call[a].sess)
        <5>1. call' = [call EXCEPT ![a] = Idle]
          BY <2>1, <4>2 DEF TakeEntry
        <5>2. call'[a] = Idle
          BY <5>1, Zenon DEF TypeOK
        <5>. QED  BY <5>2
      <4>. QED  BY <4>1, <4>2
    <3>. QED  BY <3>1, <3>2 DEF AskedInv
  <2>2. CASE StopContainer(a)
    BY <2>2 DEF AskedInv, StopContainer
  <2>3. CASE RemoveContainer(a)
    BY <2>3 DEF AskedInv, RemoveContainer
  <2>4. CASE TerminateFails(a)
    BY <2>4 DEF AskedInv, TerminateFails
  <2>. QED  BY <1>4, <2>1, <2>2, <2>3, <2>4 DEF Terminate
<1>5. CASE WatchdogTick \/ Tick
  BY <1>5 DEF AskedInv, WatchdogTick, ListExpired, Doom, Tick, Expired
<1>6. ASSUME NEW r \in Runs, CancelContext(r) \/ TerminateByRunID(r) PROVE AskedInv'
  BY <1>6 DEF AskedInv, CancelContext, TerminateByRunID, Listed, ListRun, ListRunFails, DropEntries, KillReturns, RemoveVictim
<1>7. CASE Crash \/ Boot
  BY <1>7 DEF AskedInv, Crash, Boot, ListManaged, ListManagedFails, Listen, PruneOrphan
<1>8. ASSUME NEW s \in Sessions, MakeContainer(s) PROVE AskedInv'
  BY <1>8 DEF AskedInv, MakeContainer, Listed
<1>. QED  BY <1>1, <1>2, <1>3, <1>4, <1>5, <1>6, <1>7, <1>8 DEF Next

\* When the last victim is removed, what is left of the run was made too late for
\* the list: it has no entry, so somebody has it in hand or nobody knows of it.
LEMMA ReclaimedByThen == IInv => CancelReclaims
<1>. SUFFICES ASSUME IInv, NEW r \in Runs, kill[r] = "done",
                     NEW s \in Sessions, runOf[s] = r, Live(s), s \notin leaked
              PROVE  /\ s \in late /\ container[s] = "created" /\ ~InTable(s)
                     /\ InHand(s) \/ s \in strayed
  BY DEF CancelReclaims
<1>1. s \in late
  BY DEF IInv, KillInv, Listed
<1>2. container[s] = "created" /\ ~InTable(s)
  BY <1>1 DEF IInv, AskedInv, Live
<1>3. phase = "up"
  BY DEF IInv, DownInv
<1>. QED  BY <1>1, <1>2, <1>3 DEF IInv, NothingForgotten

\* Containers are removed after their entries, except by a kill.
LEMMA EntryHasContainerStep == IInv /\ Next => EntryHasContainer'
<1>. SUFFICES ASSUME IInv, Next PROVE EntryHasContainer'  OBVIOUS
<1>. USE SessionsAssumption DEF IInv, TypeOK, PhaseInv, KillInv, DownInv, NamedInv, InTable, Live, Cancelled, Creating, Terminating, Actors, Idle, Goto, Done, CtxLive, Remove, LeftBehind, docker, table, cancel, boot, fault
<1>1. ASSUME NEW c \in Calls, Ask(c) PROVE EntryHasContainer'
  BY <1>1 DEF EntryHasContainer, Ask, RequestContainer, CallDelete, PinSession
<1>2. ASSUME NEW c \in Calls, Create(c) PROVE EntryHasContainer'
  BY <1>2 DEF EntryHasContainer, Create, CreateAnswered, CreateFails, StartContainer, InspectContainer, AbandonCreate, InsertEntry
<1>3. ASSUME NEW c \in Calls, Pin(c) \/ HandlerReturns(c) PROVE EntryHasContainer'
  BY <1>3 DEF EntryHasContainer, Pin, PinInspect, ExtendTimeout, HandlerReturns
<1>4. ASSUME NEW a \in Actors, Terminate(a) PROVE EntryHasContainer'
  BY <1>4 DEF EntryHasContainer, Terminate, TakeEntry, StopContainer, RemoveContainer, TerminateFails
<1>5. CASE WatchdogTick \/ Tick
  BY <1>5 DEF EntryHasContainer, WatchdogTick, ListExpired, Doom, Tick, Expired
<1>6. ASSUME NEW r \in Runs, CancelContext(r) \/ TerminateByRunID(r) PROVE EntryHasContainer'
  BY <1>6 DEF EntryHasContainer, CancelContext, TerminateByRunID, Listed, ListRun, ListRunFails, DropEntries, KillReturns, RemoveVictim
<1>7. CASE Crash \/ Boot
  BY <1>7 DEF EntryHasContainer, Crash, Boot, ListManaged, ListManagedFails, Listen, PruneOrphan
<1>8. ASSUME NEW s \in Sessions, MakeContainer(s) PROVE EntryHasContainer'
  BY <1>8 DEF EntryHasContainer, MakeContainer, Listed
<1>. QED  BY <1>1, <1>2, <1>3, <1>4, <1>5, <1>6, <1>7, <1>8 DEF Next

\* The inductive invariant, and the theorems that follow from it.
LEMMA InitIInv == Init => IInv
BY SessionsAssumption
DEF Init, Idle, IInv, TypeOK, Places, Actors, NamedInv, PhaseInv, Creating,
    Terminating, KillInv, Listed, AskedInv, DownInv, NothingForgotten,
    EphemeralSessionEnds, EntryHasContainer, InTable, Live

LEMMA NextIInv == IInv /\ [Next]_vars => IInv'
<1>1. ASSUME IInv, Next PROVE IInv'
  BY <1>1, TypeOKStep, NamedInvStep, PhaseInvStep, KillInvStep, DownInvStep,
     AskedInvStep, NothingForgottenStep, EphemeralSessionEndsStep,
     EntryHasContainerStep DEF IInv
<1>2. ASSUME IInv, UNCHANGED vars PROVE IInv'
  BY <1>2 DEF vars, docker, table, cancel, boot, fault, IInv, TypeOK, NamedInv,
     PhaseInv, Creating, Terminating, Cancelled, KillInv, Listed, AskedInv, DownInv,
     InHand, NothingForgotten, EphemeralSessionEnds, EntryHasContainer, InTable, Live
<1>. QED  BY <1>1, <1>2

LEMMA Invariance == Spec => []IInv
BY InitIInv, NextIInv, PTL DEF Spec

\* The type invariant of the session runtime, for any constants.
THEOREM TypeCorrect == Spec => []TypeOK
<1>1. IInv => TypeOK  BY DEF IInv
<1>. QED  BY <1>1, Invariance, PTL

\* Whatever the number of callers, sessions and runs, and however often docker
\* refuses or the process dies, no container is forgotten.
THEOREM ContainersAccounted == Spec => []NothingForgotten
<1>1. IInv => NothingForgotten  BY DEF IInv
<1>. QED  BY <1>1, Invariance, PTL

\* No session of a pack that does not preserve it outlives the pack's call.
THEOREM SessionsAreEphemeral == Spec => []EphemeralSessionEnds
<1>1. IInv => EphemeralSessionEnds  BY DEF IInv
<1>. QED  BY <1>1, Invariance, PTL

\* A cancelled run leaves no container but those docker refused to remove or made
\* when they had been listed.
THEOREM CancelLeavesNothing == Spec => []CancelReclaims
BY ReclaimedByThen, Invariance, PTL

\* The table names no session without a container, cancelled runs excepted.
THEOREM TableIsTrue == Spec => []EntryHasContainer
<1>1. IInv => EntryHasContainer  BY DEF IInv
<1>. QED  BY <1>1, Invariance, PTL

\* Racing extensions never bring a deadline forward.
THEOREM ExtensionsOnlyExtend == Spec => DeadlineNeverShrinks
<1>1. ASSUME IInv, Next
      PROVE \A s \in Sessions : InTable(s) /\ InTable(s)' => limit[s]' >= limit[s]
  <2>. USE <1>1, SessionsAssumption DEF IInv, TypeOK, Actors, InTable, docker,
         table, boot, fault, Goto, Done
  <2>1. ASSUME NEW c \in Calls, Ask(c) PROVE limit' = limit
    BY <2>1 DEF Ask, RequestContainer, CallDelete, PinSession
  <2>2. ASSUME NEW c \in Calls, Create(c)
        PROVE  \A s \in Sessions : InTable(s) /\ InTable(s)' => limit[s]' >= limit[s]
    BY <2>2 DEF Create, CreateAnswered, CreateFails, StartContainer, InspectContainer, AbandonCreate, InsertEntry,
       PhaseInv, Creating
  <2>3. ASSUME NEW c \in Calls, Pin(c) \/ HandlerReturns(c)
        PROVE  \A s \in Sessions : InTable(s) /\ InTable(s)' => limit[s]' >= limit[s]
    BY <2>3 DEF Pin, PinInspect, ExtendTimeout, HandlerReturns
  <2>4. ASSUME NEW a \in Actors, Terminate(a)
        PROVE  \A s \in Sessions : limit[s]' \in {0, limit[s]}
    BY <2>4 DEF Terminate, TakeEntry, StopContainer, RemoveContainer, TerminateFails
  <2>5. ASSUME WatchdogTick \/ Tick PROVE limit' = limit
    BY <2>5 DEF WatchdogTick, ListExpired, Doom, Tick
  <2>6. ASSUME NEW r \in Runs, CancelContext(r) \/ TerminateByRunID(r)
        PROVE  \A s \in Sessions : limit[s]' \in {0, limit[s]}
    BY <2>6 DEF CancelContext, TerminateByRunID, Listed, ListRun, ListRunFails, DropEntries,
       KillReturns, RemoveVictim
  <2>7. ASSUME Crash \/ Boot
        PROVE  \A s \in Sessions : limit[s]' \in {0, limit[s]}
    BY <2>7 DEF Crash, Boot, ListManaged, ListManagedFails, Listen, PruneOrphan
  <2>8. \A s \in Sessions : limit[s] \in Nat
    <3>1. Limits \cup {0} \subseteq Nat
      BY SessionsAssumption
    <3>2. limit \in [Sessions -> Limits \cup {0}]
      BY <1>1 DEF IInv, TypeOK
    <3>. QED  BY <3>1, <3>2
  <2>9. CASE \A s \in Sessions : limit[s]' \in {0, limit[s]}
    BY <2>8, <2>9
  <2>10. CASE limit' = limit
    BY <2>8, <2>10
  <2>11. ASSUME NEW s \in Sessions, MakeContainer(s) PROVE limit' = limit
    BY <2>11 DEF MakeContainer
  <2>. QED
    BY <2>1, <2>2, <2>3, <2>4, <2>5, <2>6, <2>7, <2>9, <2>10, <2>11 DEF Next
<1>. QED  BY <1>1, Invariance, PTL DEF Spec, DeadlineNeverShrinks
=============================================================================
