------------------------- MODULE RepoCache_proofs -------------------------
(***************************************************************************)
(* Proofs about RepoCache.  The lock excludes because everybody who opened *)
(* a lock file that is still named opened the same inode (NameInv) and     *)
(* works only while it holds it (HolderInv); what the tree holds follows.  *)
(***************************************************************************)
EXTENDS RepoCacheInv, TLAPS

\* Type correctness: every assignment stays within its set.
LEMMA TypeOKStep == IInv /\ Next => TypeOK'
<1>. SUFFICES ASSUME IInv, Next PROVE TypeOK'  OBVIOUS
<1>. USE RepoCacheAssumption DEF IInv, PlaceInv, Inside, Handed, Actors, Goto, Close, Exit, Unlock, Enter, Blank, Resting, Opens, Unlink, Wiped, HasGit, Dir, Holding, Damage, Touch, clone, file, locks, sweep, history
<1>1. ASSUME NEW f \in Fetches, NEW d \in Clones, NEW i \in Inodes, OpenLock(f, d, i) PROVE TypeOK'
  <2>1. name' \in [Clones -> Inodes \cup {None}]
    BY <1>1 DEF TypeOK, OpenLock
  <2>2. fetch' = [fetch EXCEPT ![f].at = "wait", ![f].dir = d, ![f].fd = i]
    BY <1>1 DEF OpenLock
  <2>3. fetch[f] \in FetchRecord
    BY DEF TypeOK
  <2>4. [fetch[f] EXCEPT !.at = "wait", !.dir = d, !.fd = i] \in FetchRecord
    BY <2>3 DEF FetchRecord, Places
  <2>5. fetch' \in [Fetches -> FetchRecord]
    BY <2>2, <2>4 DEF TypeOK
  <2>. QED  BY <1>1, <2>1, <2>5 DEF TypeOK, OpenLock
<1>1a. ASSUME NEW f \in Fetches, NEW d \in Clones, LockRefused(f, d) PROVE TypeOK'
  BY <1>1a DEF TypeOK, Places, FetchRecord, LockRefused
<1>2. ASSUME NEW f \in Fetches, Script(f) PROVE TypeOK'
  <2>1. CASE Lock(f)
    <3> DEFINE S == {g \in Fetches : fetch[g].at = "over"}
    <3>1. S \in SUBSET Fetches
      OBVIOUS
    <3>2. fetch' = [fetch EXCEPT ![f].at = "locked", ![f].before = S]
      BY <2>1 DEF Lock
    <3> HIDE DEF S
    <3>3. fetch[f] \in FetchRecord
      BY DEF TypeOK
    <3>4. [fetch[f] EXCEPT !.at = "locked", !.before = S] \in FetchRecord
      BY <3>1, <3>3 DEF FetchRecord, Places
    <3>5. fetch' \in [Fetches -> FetchRecord]
      BY <3>2, <3>4 DEF TypeOK
    <3>. QED  BY <2>1, <3>5 DEF TypeOK, Lock
  <2>2. CASE LockTimesOut(f)
    BY <2>2 DEF TypeOK, Places, FetchRecord, LockTimesOut
  <2>3. CASE FindsGit(f)
    <3>1. fetch' = [fetch EXCEPT ![f].at = "fetch", ![f].hit = TRUE]
      BY <2>3 DEF FindsGit
    <3>2. fetch[f] \in FetchRecord
      BY DEF TypeOK
    <3>3. [fetch[f] EXCEPT !.at = "fetch", !.hit = TRUE] \in FetchRecord
      BY <3>2 DEF FetchRecord, Places
    <3>4. fetch' \in [Fetches -> FetchRecord]
      BY <3>1, <3>3 DEF TypeOK
    <3>. QED  BY <2>3, <3>4 DEF TypeOK, FindsGit
  <2>3a. CASE StartsOver(f)
    BY <2>3a, SMTT(30) DEF TypeOK, Places, FetchRecord, StartsOver
  <2>4. CASE GitFetches(f)
    BY <2>4 DEF TypeOK, Places, FetchRecord, GitFetches
  <2>5. CASE GitClones(f)
    <3>1. PICK t \in {"complete", "torn"} : tree' = [tree EXCEPT ![Dir(f)] = t]
      BY <2>5 DEF GitClones
    <3>2. fetch' \in [Fetches -> FetchRecord]
      BY <2>5, SMTT(30) DEF TypeOK, Places, FetchRecord, GitClones
    <3>. QED  BY <2>5, <3>1, <3>2 DEF TypeOK, GitClones
  <2>6. CASE FetchFails(f)
    BY <2>6 DEF TypeOK, Places, FetchRecord, FetchFails
  <2>6a. CASE CloneFails(f)
    BY <2>6a, SMTT(30) DEF TypeOK, Places, FetchRecord, CloneFails
  <2>7. CASE CheckoutFails(f)
    BY <2>7 DEF TypeOK, Places, FetchRecord, CheckoutFails
  <2>8. CASE ResetTree(f)
    BY <2>8, SMTT(30) DEF TypeOK, Places, FetchRecord, ResetTree
  <2>8a. CASE ResetFails(f)
    BY <2>8a DEF TypeOK, Places, FetchRecord, ResetFails
  <2>9. CASE ReadMarker(f)
    <3> DEFINE S == (reused[Dir(f)] = "1")
    <3>1. S \in BOOLEAN
      OBVIOUS
    <3>2. fetch' = [fetch EXCEPT ![f].at = "envelope", ![f].reused = S]
      BY <2>9 DEF ReadMarker
    <3> HIDE DEF S
    <3>3. fetch[f] \in FetchRecord
      BY DEF TypeOK
    <3>4. [fetch[f] EXCEPT !.at = "envelope", !.reused = S] \in FetchRecord
      BY <3>1, <3>3 DEF FetchRecord, Places
    <3>5. fetch' \in [Fetches -> FetchRecord]
      BY <3>2, <3>4 DEF TypeOK
    <3>. QED  BY <2>9, <3>5 DEF TypeOK, ReadMarker
  <2>10. CASE PrivateClone(f)
    <3>1. CASE Exit(f)
      BY <2>10, <3>1 DEF TypeOK, Places, FetchRecord, PrivateClone
    <3>2. CASE Goto(f, "use") /\ UNCHANGED holder
      <4>1. fetch' = [fetch EXCEPT ![f].at = "use"]
        BY <3>2 DEF Goto
      <4>2. fetch[f] \in FetchRecord
        BY DEF TypeOK
      <4>3. [fetch[f] EXCEPT !.at = "use"] \in FetchRecord
        BY <4>2 DEF FetchRecord, Places
      <4>4. fetch' \in [Fetches -> FetchRecord]
        BY <4>1, <4>3 DEF TypeOK
      <4>. QED  BY <2>10, <3>2, <4>4 DEF TypeOK, PrivateClone
    <3>. QED  BY <2>10, <3>1, <3>2 DEF PrivateClone
  <2>11. CASE Envelope(f)
    <3>1. fetch' = [fetch EXCEPT ![f].at = "use"]
      BY <2>11 DEF Envelope, Goto
    <3>2. fetch[f] \in FetchRecord
      BY DEF TypeOK
    <3>3. [fetch[f] EXCEPT !.at = "use"] \in FetchRecord
      BY <3>2 DEF FetchRecord, Places
    <3>4. fetch' \in [Fetches -> FetchRecord]
      BY <3>1, <3>3 DEF TypeOK
    <3>. QED  BY <2>11, <3>4 DEF TypeOK, Envelope
  <2>12. CASE EnvelopeFails(f)
    BY <2>12 DEF TypeOK, Places, FetchRecord, EnvelopeFails
  <2>. QED  BY <1>2, <2>1, <2>2, <2>3, <2>3a, <2>4, <2>5, <2>6, <2>6a, <2>7, <2>8, <2>8a, <2>9, <2>10, <2>11, <2>12 DEF Script
<1>3. ASSUME NEW f \in Fetches, Edit(f) \/ Killed(f) \/ KilledInGit(f) PROVE TypeOK'
  <2>1. CASE Edit(f)
    BY <2>1 DEF TypeOK, Places, FetchRecord, Edit
  <2>2. CASE Killed(f)
    BY <2>2 DEF TypeOK, Places, FetchRecord, Killed
  <2>3. CASE KilledInGit(f)
    BY <2>3 DEF TypeOK, Places, FetchRecord, KilledInGit
  <2>. QED  BY <1>3, <2>1, <2>2, <2>3
<1>4. ASSUME NEW d \in Clones, Age(d) PROVE TypeOK'
  BY <1>4 DEF TypeOK, Places, FetchRecord, Age
<1>5. CASE Sweep
  <2>1. ASSUME NEW victims \in SUBSET Clones, Discover(victims) PROVE TypeOK'
    BY <2>1 DEF TypeOK, Places, FetchRecord, Discover
  <2>2. ASSUME NEW d \in Clones, NEW i \in Inodes, JanitorOpens(d, i) PROVE TypeOK'
    BY <2>2 DEF TypeOK, Places, FetchRecord, JanitorOpens
  <2>3. CASE TryLock
    BY <2>3 DEF TypeOK, Places, FetchRecord, TryLock
  <2>4. CASE RemoveAll
    BY <2>4 DEF TypeOK, Places, FetchRecord, RemoveAll
  <2>. QED  BY <1>5, <2>1, <2>2, <2>3, <2>4 DEF Sweep
<1>6. CASE JanitorTrouble
  <2>1. CASE RemoveFails
    BY <2>1 DEF TypeOK, Places, FetchRecord, RemoveFails
  <2>2. CASE Restart
    BY <2>2, SMTT(30) DEF TypeOK, Places, FetchRecord, Restart
  <2>3. ASSUME NEW d \in Clones, RemoveUnlocked(d) PROVE TypeOK'
    BY <2>3 DEF TypeOK, Places, FetchRecord, RemoveUnlocked
  <2>. QED  BY <1>6, <2>1, <2>2, <2>3 DEF JanitorTrouble
<1>. QED  BY <1>1, <1>1a, <1>2, <1>3, <1>4, <1>5, <1>6 DEF Next

\* A fetch inside has a clone and an open lock file, and no other has one.
LEMMA PlaceInvStep == IInv /\ Next => PlaceInv'
<1>. SUFFICES ASSUME IInv, Next PROVE PlaceInv'  OBVIOUS
<1>. USE RepoCacheAssumption DEF IInv, TypeOK, FetchRecord, Places, Inside, Handed, Actors, Goto, Close, Exit, Unlock, Enter, Blank, Resting, Opens, Unlink, Wiped, HasGit, Dir, Holding, Damage, Touch, clone, file, locks, sweep, history
<1>1. ASSUME NEW f \in Fetches, NEW d \in Clones, NEW i \in Inodes, OpenLock(f, d, i) PROVE PlaceInv'
  BY <1>1 DEF PlaceInv, OpenLock
<1>1a. ASSUME NEW f \in Fetches, NEW d \in Clones, LockRefused(f, d) PROVE PlaceInv'
  BY <1>1a DEF PlaceInv, LockRefused
<1>2. ASSUME NEW f \in Fetches, Script(f) PROVE PlaceInv'
  <2>1. CASE Lock(f)
    BY <2>1 DEF PlaceInv, Lock
  <2>2. CASE LockTimesOut(f)
    BY <2>2 DEF PlaceInv, LockTimesOut
  <2>3. CASE FindsGit(f)
    BY <2>3 DEF PlaceInv, FindsGit
  <2>3a. CASE StartsOver(f)
    BY <2>3a DEF PlaceInv, StartsOver
  <2>4. CASE GitFetches(f)
    BY <2>4 DEF PlaceInv, GitFetches
  <2>5. CASE GitClones(f)
    BY <2>5 DEF PlaceInv, GitClones
  <2>6. CASE FetchFails(f)
    BY <2>6 DEF PlaceInv, FetchFails
  <2>6a. CASE CloneFails(f)
    BY <2>6a DEF PlaceInv, CloneFails
  <2>7. CASE CheckoutFails(f)
    BY <2>7 DEF PlaceInv, CheckoutFails
  <2>8. CASE ResetTree(f)
    BY <2>8 DEF PlaceInv, ResetTree
  <2>8a. CASE ResetFails(f)
    BY <2>8a DEF PlaceInv, ResetFails
  <2>9. CASE ReadMarker(f)
    BY <2>9 DEF PlaceInv, ReadMarker
  <2>10. CASE PrivateClone(f)
    BY <2>10, SMTT(30) DEF PlaceInv, PrivateClone
  <2>11. CASE Envelope(f)
    BY <2>11 DEF PlaceInv, Envelope
  <2>12. CASE EnvelopeFails(f)
    BY <2>12 DEF PlaceInv, EnvelopeFails
  <2>. QED  BY <1>2, <2>1, <2>2, <2>3, <2>3a, <2>4, <2>5, <2>6, <2>6a, <2>7, <2>8, <2>8a, <2>9, <2>10, <2>11, <2>12 DEF Script
<1>3. ASSUME NEW f \in Fetches, Edit(f) \/ Killed(f) \/ KilledInGit(f) PROVE PlaceInv'
  <2>1. CASE Edit(f)
    BY <2>1 DEF PlaceInv, Edit
  <2>2. CASE Killed(f)
    BY <2>2 DEF PlaceInv, Killed
  <2>3. CASE KilledInGit(f)
    BY <2>3 DEF PlaceInv, KilledInGit
  <2>. QED  BY <1>3, <2>1, <2>2, <2>3
<1>4. ASSUME NEW d \in Clones, Age(d) PROVE PlaceInv'
  BY <1>4 DEF PlaceInv, Age
<1>5. CASE Sweep
  <2>1. ASSUME NEW victims \in SUBSET Clones, Discover(victims) PROVE PlaceInv'
    BY <2>1 DEF PlaceInv, Discover
  <2>2. ASSUME NEW d \in Clones, NEW i \in Inodes, JanitorOpens(d, i) PROVE PlaceInv'
    BY <2>2 DEF PlaceInv, JanitorOpens
  <2>3. CASE TryLock
    BY <2>3 DEF PlaceInv, TryLock
  <2>4. CASE RemoveAll
    BY <2>4 DEF PlaceInv, RemoveAll
  <2>. QED  BY <1>5, <2>1, <2>2, <2>3, <2>4 DEF Sweep
<1>6. CASE JanitorTrouble
  <2>1. CASE RemoveFails
    BY <2>1 DEF PlaceInv, RemoveFails
  <2>2. CASE Restart
    BY <2>2 DEF PlaceInv, Restart
  <2>3. ASSUME NEW d \in Clones, RemoveUnlocked(d) PROVE PlaceInv'
    BY <2>3 DEF PlaceInv, RemoveUnlocked
  <2>. QED  BY <1>6, <2>1, <2>2, <2>3 DEF JanitorTrouble
<1>. QED  BY <1>1, <1>1a, <1>2, <1>3, <1>4, <1>5, <1>6 DEF Next

\* Whoever works in a tree keeps the lock it opened.
LEMMA HolderInvStep == IInv /\ Next => HolderInv'
<1>. SUFFICES ASSUME IInv, Next PROVE HolderInv'  OBVIOUS
<1>. USE RepoCacheAssumption DEF IInv, TypeOK, FetchRecord, Places, PlaceInv, Inside, Handed, Actors, Goto, Close, Exit, Unlock, Enter, Blank, Resting, Opens, Unlink, Wiped, HasGit, Dir, Holding, Damage, Touch, clone, file, locks, sweep, history
<1>1. ASSUME NEW f \in Fetches, NEW d \in Clones, NEW i \in Inodes, OpenLock(f, d, i) PROVE HolderInv'
  BY <1>1 DEF HolderInv, OpenLock
<1>1a. ASSUME NEW f \in Fetches, NEW d \in Clones, LockRefused(f, d) PROVE HolderInv'
  BY <1>1a DEF HolderInv, LockRefused
<1>2. ASSUME NEW f \in Fetches, Script(f) PROVE HolderInv'
  <2>1. CASE Lock(f)
    BY <2>1 DEF HolderInv, Lock
  <2>2. CASE LockTimesOut(f)
    BY <2>2 DEF HolderInv, LockTimesOut
  <2>3. CASE FindsGit(f)
    BY <2>3 DEF HolderInv, FindsGit
  <2>3a. CASE StartsOver(f)
    BY <2>3a DEF HolderInv, StartsOver
  <2>4. CASE GitFetches(f)
    BY <2>4 DEF HolderInv, GitFetches
  <2>5. CASE GitClones(f)
    BY <2>5 DEF HolderInv, GitClones
  <2>6. CASE FetchFails(f)
    BY <2>6 DEF HolderInv, FetchFails
  <2>6a. CASE CloneFails(f)
    BY <2>6a DEF HolderInv, CloneFails
  <2>7. CASE CheckoutFails(f)
    BY <2>7 DEF HolderInv, CheckoutFails
  <2>8. CASE ResetTree(f)
    BY <2>8 DEF HolderInv, ResetTree
  <2>8a. CASE ResetFails(f)
    BY <2>8a DEF HolderInv, ResetFails
  <2>9. CASE ReadMarker(f)
    BY <2>9 DEF HolderInv, ReadMarker
  <2>10. CASE PrivateClone(f)
    BY <2>10, SMTT(30) DEF HolderInv, PrivateClone
  <2>11. CASE Envelope(f)
    BY <2>11 DEF HolderInv, Envelope
  <2>12. CASE EnvelopeFails(f)
    BY <2>12 DEF HolderInv, EnvelopeFails
  <2>. QED  BY <1>2, <2>1, <2>2, <2>3, <2>3a, <2>4, <2>5, <2>6, <2>6a, <2>7, <2>8, <2>8a, <2>9, <2>10, <2>11, <2>12 DEF Script
<1>3. ASSUME NEW f \in Fetches, Edit(f) \/ Killed(f) \/ KilledInGit(f) PROVE HolderInv'
  <2>1. CASE Edit(f)
    BY <2>1 DEF HolderInv, Edit
  <2>2. CASE Killed(f)
    BY <2>2 DEF HolderInv, Killed
  <2>3. CASE KilledInGit(f)
    BY <2>3 DEF HolderInv, KilledInGit
  <2>. QED  BY <1>3, <2>1, <2>2, <2>3
<1>4. ASSUME NEW d \in Clones, Age(d) PROVE HolderInv'
  BY <1>4 DEF HolderInv, Age
<1>5. CASE Sweep
  <2>1. ASSUME NEW victims \in SUBSET Clones, Discover(victims) PROVE HolderInv'
    BY <2>1 DEF HolderInv, Discover
  <2>2. ASSUME NEW d \in Clones, NEW i \in Inodes, JanitorOpens(d, i) PROVE HolderInv'
    BY <2>2 DEF HolderInv, JanitorOpens
  <2>3. CASE TryLock
    BY <2>3 DEF HolderInv, TryLock
  <2>4. CASE RemoveAll
    BY <2>4 DEF HolderInv, RemoveAll
  <2>. QED  BY <1>5, <2>1, <2>2, <2>3, <2>4 DEF Sweep
<1>6. CASE JanitorTrouble
  <2>1. CASE RemoveFails
    BY <2>1 DEF HolderInv, RemoveFails
  <2>2. CASE Restart
    BY <2>2 DEF HolderInv, Restart
  <2>3. ASSUME NEW d \in Clones, RemoveUnlocked(d) PROVE HolderInv'
    BY <2>3 DEF HolderInv, RemoveUnlocked
  <2>. QED  BY <1>6, <2>1, <2>2, <2>3 DEF JanitorTrouble
<1>. QED  BY <1>1, <1>1a, <1>2, <1>3, <1>4, <1>5, <1>6 DEF Next

\* An open lock file is the one named until it is unlinked.
LEMMA NameInvStep == IInv /\ Next => NameInv'
<1>. SUFFICES ASSUME IInv, Next PROVE NameInv'  OBVIOUS
<1>. USE RepoCacheAssumption DEF IInv, TypeOK, FetchRecord, PlaceInv, HolderInv, Places, Inside, Actors, Goto, Close, Exit, Unlock, Enter, Blank, Resting, Opens, Unlink, Wiped, HasGit, Dir, Holding, Damage, Touch, clone, file, locks, sweep, history
<1>1. ASSUME NEW f \in Fetches, NEW d \in Clones, NEW i \in Inodes, OpenLock(f, d, i) PROVE NameInv'
  BY <1>1 DEF NameInv, OpenLock
<1>1a. ASSUME NEW f \in Fetches, NEW d \in Clones, LockRefused(f, d) PROVE NameInv'
  BY <1>1a DEF NameInv, LockRefused
<1>2. ASSUME NEW f \in Fetches, Script(f) PROVE NameInv'
  <2>1. CASE Lock(f)
    BY <2>1 DEF NameInv, Lock
  <2>2. CASE LockTimesOut(f)
    BY <2>2 DEF NameInv, LockTimesOut
  <2>3. CASE FindsGit(f)
    BY <2>3 DEF NameInv, FindsGit
  <2>3a. CASE StartsOver(f)
    BY <2>3a DEF NameInv, StartsOver
  <2>4. CASE GitFetches(f)
    BY <2>4 DEF NameInv, GitFetches
  <2>5. CASE GitClones(f)
    BY <2>5 DEF NameInv, GitClones
  <2>6. CASE FetchFails(f)
    BY <2>6 DEF NameInv, FetchFails
  <2>6a. CASE CloneFails(f)
    BY <2>6a DEF NameInv, CloneFails
  <2>7. CASE CheckoutFails(f)
    BY <2>7 DEF NameInv, CheckoutFails
  <2>8. CASE ResetTree(f)
    BY <2>8 DEF NameInv, ResetTree
  <2>8a. CASE ResetFails(f)
    BY <2>8a DEF NameInv, ResetFails
  <2>9. CASE ReadMarker(f)
    BY <2>9 DEF NameInv, ReadMarker
  <2>10. CASE PrivateClone(f)
    <3>1. CASE Exit(f)
      BY <2>10, <3>1 DEF NameInv, PrivateClone
    <3>2. CASE Goto(f, "use") /\ UNCHANGED holder
      BY <2>10, <3>2 DEF NameInv, PrivateClone
    <3>. QED  BY <2>10, <3>1, <3>2 DEF PrivateClone
  <2>11. CASE Envelope(f)
    BY <2>11 DEF NameInv, Envelope
  <2>12. CASE EnvelopeFails(f)
    BY <2>12 DEF NameInv, EnvelopeFails
  <2>. QED  BY <1>2, <2>1, <2>2, <2>3, <2>3a, <2>4, <2>5, <2>6, <2>6a, <2>7, <2>8, <2>8a, <2>9, <2>10, <2>11, <2>12 DEF Script
<1>3. ASSUME NEW f \in Fetches, Edit(f) \/ Killed(f) \/ KilledInGit(f) PROVE NameInv'
  <2>1. CASE Edit(f)
    BY <2>1 DEF NameInv, Edit
  <2>2. CASE Killed(f)
    BY <2>2 DEF NameInv, Killed
  <2>3. CASE KilledInGit(f)
    BY <2>3 DEF NameInv, KilledInGit
  <2>. QED  BY <1>3, <2>1, <2>2, <2>3
<1>4. ASSUME NEW d \in Clones, Age(d) PROVE NameInv'
  BY <1>4 DEF NameInv, Age
<1>5. CASE Sweep
  <2>1. ASSUME NEW victims \in SUBSET Clones, Discover(victims) PROVE NameInv'
    BY <2>1 DEF NameInv, Discover
  <2>2. ASSUME NEW d \in Clones, NEW i \in Inodes, JanitorOpens(d, i) PROVE NameInv'
    BY <2>2 DEF NameInv, JanitorOpens
  <2>3. CASE TryLock
    BY <2>3 DEF NameInv, TryLock
  <2>4. CASE RemoveAll
    BY <2>4 DEF NameInv, RemoveAll
  <2>. QED  BY <1>5, <2>1, <2>2, <2>3, <2>4 DEF Sweep
<1>6. CASE JanitorTrouble
  <2>1. CASE RemoveFails
    BY <2>1 DEF NameInv, RemoveFails
  <2>2. CASE Restart
    BY <2>2 DEF NameInv, Restart
  <2>3. ASSUME NEW d \in Clones, RemoveUnlocked(d) PROVE NameInv'
    BY <2>3 DEF NameInv, RemoveUnlocked
  <2>. QED  BY <1>6, <2>1, <2>2, <2>3 DEF JanitorTrouble
<1>. QED  BY <1>1, <1>1a, <1>2, <1>3, <1>4, <1>5, <1>6 DEF Next

\* The lock excludes: whoever works in a tree whose lock file is named holds it.
LEMMA Exclusion == IInv => OneWorker
<1>. SUFFICES ASSUME IInv, NEW d \in Clones \ unlinked,
                     NEW a \in Actors, NEW b \in Actors, Working(a, d), Working(b, d)
              PROVE  a = b
  BY DEF OneWorker
<1>. USE RepoCacheAssumption DEF IInv, Actors
<1>1. ASSUME NEW c \in Actors, Working(c, d) PROVE name[d] \in Inodes /\ holder[name[d]] = c
  <2>1. CASE c = Janitor
    BY <1>1, <2>1 DEF Working, HolderInv, NameInv
  <2>2. CASE c \in Fetches
    BY <1>1, <2>2 DEF Working, Dir, HolderInv, NameInv, PlaceInv, Inside
  <2>. QED  BY <2>1, <2>2
<1>. QED  BY <1>1

\* Until the janitor touches its clone, a fetch inside is alone there.
LEMMA AloneInside ==
  ASSUME IInv, NEW f \in Fetches, fetch[f].at \in Inside, Dir(f) \notin evicted
  PROVE  /\ Alone(f)
         /\ \A g \in Fetches : Dir(g) = Dir(f) /\ fetch[g].at \in Inside => g = f
<1>1. Dir(f) \in Clones \ unlinked
  BY DEF IInv, PlaceInv, TreeInv
<1>2. Working(f, Dir(f))
  BY RepoCacheAssumption DEF Working, Inside
<1>3. \A a \in Actors : Working(a, Dir(f)) => a = f
  BY <1>1, <1>2, Exclusion DEF OneWorker, Actors
<1>4. \A g \in Fetches : Dir(g) = Dir(f) /\ fetch[g].at \in Inside => Working(g, Dir(f))
  BY RepoCacheAssumption DEF Working, Inside
<1>. QED  BY <1>3, <1>4 DEF Alone, Actors

\* Nobody but the janitor tears a tree.
LEMMA TreeInvStep == IInv /\ Next => TreeInv'
<1>. SUFFICES ASSUME IInv, Next PROVE TreeInv'  OBVIOUS
<1>. USE RepoCacheAssumption DEF IInv, TypeOK, FetchRecord, PlaceInv, Places, Inside, Actors, Goto, Close, Exit, Unlock, Enter, Blank, Resting, Opens, Unlink, Wiped, HasGit, Dir, Holding, Damage, Touch, clone, file, locks, sweep, history
<1>1. ASSUME NEW f \in Fetches, NEW d \in Clones, NEW i \in Inodes, OpenLock(f, d, i) PROVE TreeInv'
  BY <1>1 DEF TreeInv, OpenLock
<1>1a. ASSUME NEW f \in Fetches, NEW d \in Clones, LockRefused(f, d) PROVE TreeInv'
  BY <1>1a DEF TreeInv, LockRefused
<1>2. ASSUME NEW f \in Fetches, Script(f) PROVE TreeInv'
  <2>1. CASE Lock(f)
    BY <2>1 DEF TreeInv, Lock
  <2>2. CASE LockTimesOut(f)
    BY <2>2 DEF TreeInv, LockTimesOut
  <2>3. CASE FindsGit(f)
    BY <2>3 DEF TreeInv, FindsGit
  <2>3a. CASE StartsOver(f)
    BY <2>3a DEF TreeInv, StartsOver
  <2>4. CASE GitFetches(f)
    BY <2>4 DEF TreeInv, GitFetches
  <2>5. CASE GitClones(f)
    <3>1. \A g \in Fetches : Dir(g) = Dir(f) /\ fetch[g].at = "clone" /\ Dir(f) \notin evicted => g = f
      BY <2>5, AloneInside DEF GitClones
    <3>2. Dir(f) \notin evicted => Alone(f)
      BY <2>5, AloneInside DEF GitClones
    <3>. QED  BY <2>5, <3>1, <3>2 DEF TreeInv, GitClones
  <2>6. CASE FetchFails(f)
    BY <2>6 DEF TreeInv, FetchFails
  <2>6a. CASE CloneFails(f)
    <3>1. \A g \in Fetches : Dir(g) = Dir(f) /\ fetch[g].at = "clone" /\ Dir(f) \notin evicted => g = f
      BY <2>6a, AloneInside DEF CloneFails
    <3>. QED  BY <2>6a, <3>1 DEF TreeInv, CloneFails
  <2>7. CASE CheckoutFails(f)
    BY <2>7 DEF TreeInv, CheckoutFails
  <2>8. CASE ResetTree(f)
    <3>1. \A g \in Fetches : Dir(g) = Dir(f) /\ fetch[g].at = "clone" /\ Dir(f) \notin evicted => g = f
      BY <2>8, AloneInside DEF ResetTree
    <3>2. /\ tree' \in {[tree EXCEPT ![Dir(f)] = "complete"], tree}
          /\ tree' = tree => tree[Dir(f)] \in {"torn", "complete"}
      <4>1. CASE tree[Dir(f)] = "torn"
        BY <2>8, <4>1 DEF ResetTree
      <4>2. CASE tree[Dir(f)] # "torn"
        <5>1. tree' = [tree EXCEPT ![Dir(f)] = "complete"]
          BY <2>8, <4>2 DEF ResetTree
        <5>. QED  BY <2>8, <5>1 DEF ResetTree
      <4>. QED  BY <4>1, <4>2
    <3>3. damaged' = damaged \ {Dir(f)} /\ UNCHANGED <<evicted, unlinked, jan>>
      BY <2>8 DEF ResetTree
    <3>4. fetch' = [fetch EXCEPT ![f].at = "report", ![f].fd = None]
      BY <2>8 DEF ResetTree
    <3>5. \A d \in Clones : tree'[d] = "cut" => d \in damaged'
      BY <3>2, <3>3 DEF TreeInv
    <3>6. \A d \in Clones \ evicted : tree'[d] # "torn"
      BY <3>2 DEF TreeInv
    <3>7. ASSUME NEW g \in Fetches, fetch'[g].at = "clone", Dir(g)' \notin evicted
          PROVE  tree'[Dir(g)'] = "partial"
      <4>1. g # f /\ fetch'[g] = fetch[g]
        BY <3>4, <3>7
      <4>. QED  BY <3>1, <3>2, <3>7, <4>1 DEF TreeInv
    <3>. QED  BY <3>3, <3>5, <3>6, <3>7 DEF TreeInv
  <2>8a. CASE ResetFails(f)
    <3>1. \A g \in Fetches : Dir(g) = Dir(f) /\ fetch[g].at = "clone" /\ Dir(f) \notin evicted => g = f
      BY <2>8a, AloneInside DEF ResetFails
    <3>. QED  BY <2>8a, <3>1 DEF TreeInv, ResetFails
  <2>9. CASE ReadMarker(f)
    BY <2>9 DEF TreeInv, ReadMarker
  <2>10. CASE PrivateClone(f)
    BY <2>10, SMTT(30) DEF TreeInv, PrivateClone
  <2>11. CASE Envelope(f)
    BY <2>11 DEF TreeInv, Envelope
  <2>12. CASE EnvelopeFails(f)
    BY <2>12 DEF TreeInv, EnvelopeFails
  <2>. QED  BY <1>2, <2>1, <2>2, <2>3, <2>3a, <2>4, <2>5, <2>6, <2>6a, <2>7, <2>8, <2>8a, <2>9, <2>10, <2>11, <2>12 DEF Script
<1>3. ASSUME NEW f \in Fetches, Edit(f) \/ Killed(f) \/ KilledInGit(f) PROVE TreeInv'
  <2>1. CASE Edit(f)
    BY <2>1 DEF TreeInv, Edit
  <2>2. CASE Killed(f)
    BY <2>2 DEF TreeInv, Killed
  <2>3. CASE KilledInGit(f)
    <3>1. CASE fetch[f].at = "clone"
      <4>1. \A g \in Fetches : Dir(g) = Dir(f) /\ fetch[g].at = "clone" /\ Dir(f) \notin evicted => g = f
        BY <3>1, AloneInside
      <4>. QED  BY <2>3, <3>1, <4>1 DEF TreeInv, KilledInGit
    <3>2. CASE fetch[f].at # "clone"
      BY <2>3, <3>2 DEF TreeInv, KilledInGit
    <3>. QED  BY <3>1, <3>2
  <2>. QED  BY <1>3, <2>1, <2>2, <2>3
<1>4. ASSUME NEW d \in Clones, Age(d) PROVE TreeInv'
  BY <1>4 DEF TreeInv, Age
<1>5. CASE Sweep
  <2>1. ASSUME NEW victims \in SUBSET Clones, Discover(victims) PROVE TreeInv'
    BY <2>1 DEF TreeInv, Discover
  <2>2. ASSUME NEW d \in Clones, NEW i \in Inodes, JanitorOpens(d, i) PROVE TreeInv'
    BY <2>2 DEF TreeInv, JanitorOpens
  <2>3. CASE TryLock
    BY <2>3 DEF TreeInv, TryLock
  <2>4. CASE RemoveAll
    BY <2>4 DEF TreeInv, RemoveAll
  <2>. QED  BY <1>5, <2>1, <2>2, <2>3, <2>4 DEF Sweep
<1>6. CASE JanitorTrouble
  <2>1. CASE RemoveFails
    BY <2>1 DEF TreeInv, RemoveFails
  <2>2. CASE Restart
    BY <2>2 DEF TreeInv, Restart
  <2>3. ASSUME NEW d \in Clones, RemoveUnlocked(d) PROVE TreeInv'
    BY <2>3 DEF TreeInv, RemoveUnlocked
  <2>. QED  BY <1>6, <2>1, <2>2, <2>3 DEF JanitorTrouble
<1>. QED  BY <1>1, <1>1a, <1>2, <1>3, <1>4, <1>5, <1>6 DEF Next

\* The reset comes between old work and a hand-over.
LEMMA EditInvStep == IInv /\ Next => EditInv'
<1>. SUFFICES ASSUME IInv, Next PROVE EditInv'  OBVIOUS
<1>. USE RepoCacheAssumption DEF IInv, TypeOK, FetchRecord, PlaceInv, Places, Inside, Handed, Actors, Goto, Close, Exit, Unlock, Enter, Blank, Resting, Opens, Unlink, Wiped, HasGit, Dir, Holding, Damage, Touch, clone, file, locks, sweep, history
<1>1. ASSUME NEW f \in Fetches, NEW d \in Clones, NEW i \in Inodes, OpenLock(f, d, i) PROVE EditInv'
  BY <1>1 DEF EditInv, OpenLock
<1>1a. ASSUME NEW f \in Fetches, NEW d \in Clones, LockRefused(f, d) PROVE EditInv'
  BY <1>1a DEF EditInv, LockRefused
<1>2. ASSUME NEW f \in Fetches, Script(f) PROVE EditInv'
  <2>1. CASE Lock(f)
    BY <2>1 DEF EditInv, Lock
  <2>2. CASE LockTimesOut(f)
    BY <2>2 DEF EditInv, LockTimesOut
  <2>3. CASE FindsGit(f)
    BY <2>3 DEF EditInv, FindsGit
  <2>3a. CASE StartsOver(f)
    BY <2>3a DEF EditInv, StartsOver
  <2>4. CASE GitFetches(f)
    BY <2>4 DEF EditInv, GitFetches
  <2>5. CASE GitClones(f)
    BY <2>5 DEF EditInv, GitClones
  <2>6. CASE FetchFails(f)
    BY <2>6 DEF EditInv, FetchFails
  <2>6a. CASE CloneFails(f)
    BY <2>6a DEF EditInv, CloneFails
  <2>7. CASE CheckoutFails(f)
    BY <2>7 DEF EditInv, CheckoutFails
  <2>8. CASE ResetTree(f)
    BY <2>8 DEF EditInv, ResetTree
  <2>8a. CASE ResetFails(f)
    BY <2>8a DEF EditInv, ResetFails
  <2>9. CASE ReadMarker(f)
    BY <2>9 DEF EditInv, ReadMarker
  <2>10. CASE PrivateClone(f)
    BY <2>10, SMTT(30) DEF EditInv, PrivateClone
  <2>11. CASE Envelope(f)
    BY <2>11 DEF EditInv, Envelope
  <2>12. CASE EnvelopeFails(f)
    BY <2>12 DEF EditInv, EnvelopeFails
  <2>. QED  BY <1>2, <2>1, <2>2, <2>3, <2>3a, <2>4, <2>5, <2>6, <2>6a, <2>7, <2>8, <2>8a, <2>9, <2>10, <2>11, <2>12 DEF Script
<1>3. ASSUME NEW f \in Fetches, Edit(f) \/ Killed(f) \/ KilledInGit(f) PROVE EditInv'
  <2>1. CASE Edit(f)
    BY <2>1 DEF EditInv, Edit
  <2>2. CASE Killed(f)
    BY <2>2 DEF EditInv, Killed
  <2>3. CASE KilledInGit(f)
    BY <2>3 DEF EditInv, KilledInGit
  <2>. QED  BY <1>3, <2>1, <2>2, <2>3
<1>4. ASSUME NEW d \in Clones, Age(d) PROVE EditInv'
  BY <1>4 DEF EditInv, Age
<1>5. CASE Sweep
  <2>1. ASSUME NEW victims \in SUBSET Clones, Discover(victims) PROVE EditInv'
    BY <2>1 DEF EditInv, Discover
  <2>2. ASSUME NEW d \in Clones, NEW i \in Inodes, JanitorOpens(d, i) PROVE EditInv'
    BY <2>2 DEF EditInv, JanitorOpens
  <2>3. CASE TryLock
    BY <2>3 DEF EditInv, TryLock
  <2>4. CASE RemoveAll
    BY <2>4 DEF EditInv, RemoveAll
  <2>. QED  BY <1>5, <2>1, <2>2, <2>3, <2>4 DEF Sweep
<1>6. CASE JanitorTrouble
  <2>1. CASE RemoveFails
    BY <2>1 DEF EditInv, RemoveFails
  <2>2. CASE Restart
    BY <2>2 DEF EditInv, Restart
  <2>3. ASSUME NEW d \in Clones, RemoveUnlocked(d) PROVE EditInv'
    BY <2>3 DEF EditInv, RemoveUnlocked
  <2>. QED  BY <1>6, <2>1, <2>2, <2>3 DEF JanitorTrouble
<1>. QED  BY <1>1, <1>1a, <1>2, <1>3, <1>4, <1>5, <1>6 DEF Next

\* A tree in use stays complete.
LEMMA HandedOutIsCompleteStep == IInv /\ Next => HandedOutIsComplete'
<1>. SUFFICES ASSUME IInv, Next PROVE HandedOutIsComplete'  OBVIOUS
<1>. USE RepoCacheAssumption DEF IInv, TypeOK, FetchRecord, PlaceInv, TreeInv, Places, Inside, Handed, Actors, Goto, Close, Exit, Unlock, Enter, Blank, Resting, Opens, Unlink, Wiped, HasGit, Dir, Holding, Damage, Touch, clone, file, locks, sweep, history
<1>1. ASSUME NEW f \in Fetches, NEW d \in Clones, NEW i \in Inodes, OpenLock(f, d, i) PROVE HandedOutIsComplete'
  BY <1>1 DEF HandedOutIsComplete, OpenLock
<1>1a. ASSUME NEW f \in Fetches, NEW d \in Clones, LockRefused(f, d) PROVE HandedOutIsComplete'
  BY <1>1a DEF HandedOutIsComplete, LockRefused
<1>2. ASSUME NEW f \in Fetches, Script(f) PROVE HandedOutIsComplete'
  <2>1. CASE Lock(f)
    BY <2>1 DEF HandedOutIsComplete, Lock
  <2>2. CASE LockTimesOut(f)
    BY <2>2 DEF HandedOutIsComplete, LockTimesOut
  <2>3. CASE FindsGit(f)
    BY <2>3 DEF HandedOutIsComplete, FindsGit
  <2>3a. CASE StartsOver(f)
    BY <2>3a DEF HandedOutIsComplete, StartsOver
  <2>4. CASE GitFetches(f)
    BY <2>4 DEF HandedOutIsComplete, GitFetches
  <2>5. CASE GitClones(f)
    BY <2>5 DEF HandedOutIsComplete, GitClones
  <2>6. CASE FetchFails(f)
    BY <2>6 DEF HandedOutIsComplete, FetchFails
  <2>6a. CASE CloneFails(f)
    BY <2>6a DEF HandedOutIsComplete, CloneFails
  <2>7. CASE CheckoutFails(f)
    BY <2>7 DEF HandedOutIsComplete, CheckoutFails
  <2>8. CASE ResetTree(f)
    BY <2>8 DEF HandedOutIsComplete, ResetTree
  <2>8a. CASE ResetFails(f)
    BY <2>8a DEF HandedOutIsComplete, ResetFails
  <2>9. CASE ReadMarker(f)
    BY <2>9 DEF HandedOutIsComplete, ReadMarker
  <2>10. CASE PrivateClone(f)
    BY <2>10, SMTT(30) DEF HandedOutIsComplete, PrivateClone
  <2>11. CASE Envelope(f)
    BY <2>11 DEF HandedOutIsComplete, Envelope
  <2>12. CASE EnvelopeFails(f)
    BY <2>12 DEF HandedOutIsComplete, EnvelopeFails
  <2>. QED  BY <1>2, <2>1, <2>2, <2>3, <2>3a, <2>4, <2>5, <2>6, <2>6a, <2>7, <2>8, <2>8a, <2>9, <2>10, <2>11, <2>12 DEF Script
<1>3. ASSUME NEW f \in Fetches, Edit(f) \/ Killed(f) \/ KilledInGit(f) PROVE HandedOutIsComplete'
  <2>1. CASE Edit(f)
    BY <2>1 DEF HandedOutIsComplete, Edit
  <2>2. CASE Killed(f)
    BY <2>2 DEF HandedOutIsComplete, Killed
  <2>3. CASE KilledInGit(f)
    BY <2>3 DEF HandedOutIsComplete, KilledInGit
  <2>. QED  BY <1>3, <2>1, <2>2, <2>3
<1>4. ASSUME NEW d \in Clones, Age(d) PROVE HandedOutIsComplete'
  BY <1>4 DEF HandedOutIsComplete, Age
<1>5. CASE Sweep
  <2>1. ASSUME NEW victims \in SUBSET Clones, Discover(victims) PROVE HandedOutIsComplete'
    BY <2>1 DEF HandedOutIsComplete, Discover
  <2>2. ASSUME NEW d \in Clones, NEW i \in Inodes, JanitorOpens(d, i) PROVE HandedOutIsComplete'
    BY <2>2 DEF HandedOutIsComplete, JanitorOpens
  <2>3. CASE TryLock
    BY <2>3 DEF HandedOutIsComplete, TryLock
  <2>4. CASE RemoveAll
    BY <2>4 DEF HandedOutIsComplete, RemoveAll
  <2>. QED  BY <1>5, <2>1, <2>2, <2>3, <2>4 DEF Sweep
<1>6. CASE JanitorTrouble
  <2>1. CASE RemoveFails
    BY <2>1 DEF HandedOutIsComplete, RemoveFails
  <2>2. CASE Restart
    BY <2>2 DEF HandedOutIsComplete, Restart
  <2>3. ASSUME NEW d \in Clones, RemoveUnlocked(d) PROVE HandedOutIsComplete'
    BY <2>3 DEF HandedOutIsComplete, RemoveUnlocked
  <2>. QED  BY <1>6, <2>1, <2>2, <2>3 DEF JanitorTrouble
<1>. QED  BY <1>1, <1>1a, <1>2, <1>3, <1>4, <1>5, <1>6 DEF Next

\* The inductive invariant, and the theorems that follow from it.
LEMMA InitIInv == Init => IInv
<1>. SUFFICES ASSUME Init PROVE IInv  OBVIOUS
<1>. USE RepoCacheAssumption DEF Init, Blank, Resting, HasGit, Holding, Dir, Actors, Inside, Handed
<1>1. TypeOK
  <2>1. Blank("new") \in FetchRecord
    BY DEF FetchRecord, Places
  <2>2. fetch \in [Fetches -> FetchRecord]
    BY <2>1
  <2>3. tree \in [Clones -> {"absent", "partial", "cut", "complete", "torn"}]
    OBVIOUS
  <2>4. /\ name \in [Clones -> Inodes \cup {None}] /\ holder \in [Inodes -> Actors \cup {None}]
        /\ edits \in [Clones -> SUBSET Fetches] /\ kept \in [Clones -> SUBSET Fetches]
        /\ reused \in [Clones -> {"none", "0", "1"}]
    OBVIOUS
  <2>5. /\ damaged \subseteq Clones /\ foreign \subseteq Clones /\ fresh \subseteq Clones
        /\ todo \subseteq Clones /\ evicted \subseteq Clones /\ unlinked \subseteq Clones
    OBVIOUS
  <2>6. /\ jan \in [at : {"rest", "try", "remove"}, dir : Clones \cup {None}, fd : Inodes \cup {None}]
        /\ failures \in 0..MaxFailures
    OBVIOUS
  <2>. HIDE DEF Init
  <2>. QED  BY <2>2, <2>3, <2>4, <2>5, <2>6 DEF TypeOK
<1>2. PlaceInv /\ HolderInv /\ NameInv
  <2>1. PlaceInv
    BY DEF PlaceInv
  <2>2. HolderInv
    BY DEF HolderInv
  <2>3. NameInv
    BY DEF NameInv
  <2>. QED  BY <2>1, <2>2, <2>3
<1>3. TreeInv /\ EditInv /\ HandedOutIsComplete
  BY DEF TreeInv, EditInv, HandedOutIsComplete
<1>. QED  BY <1>1, <1>2, <1>3 DEF IInv

LEMMA NextIInv == IInv /\ [Next]_vars => IInv'
<1>1. ASSUME IInv, Next PROVE IInv'
  BY <1>1, TypeOKStep, PlaceInvStep, HolderInvStep, NameInvStep, TreeInvStep,
     EditInvStep, HandedOutIsCompleteStep DEF IInv
<1>2. ASSUME IInv, UNCHANGED vars PROVE IInv'
  BY <1>2 DEF vars, clone, file, locks, sweep, history, IInv, TypeOK, PlaceInv, HolderInv,
     NameInv, TreeInv, EditInv, HandedOutIsComplete, Holding, Dir
<1>. QED  BY <1>1, <1>2

LEMMA Invariance == Spec => []IInv
BY InitIInv, NextIInv, PTL DEF Spec

\* The type invariant of the repos volume, for any constants.
THEOREM TypeCorrect == Spec => []TypeOK
<1>1. IInv => TypeOK  BY DEF IInv
<1>. QED  BY <1>1, Invariance, PTL

\* For any number of sessions, clones and sweeps: as long as a clone's lock file
\* has not been unlinked, one session at a time, or the janitor, works in it.
THEOREM LockExcludes == Spec => []OneWorker
BY Exclusion, Invariance, PTL

\* Until the janitor touches it, a clone that was handed out has a HEAD, it is
\* complete unless a git command was killed or failed in it, and no other session
\* destroys it.
THEOREM HandOversAreSound == Spec => []HandedOutIsComplete
<1>1. IInv => HandedOutIsComplete  BY DEF IInv
<1>. QED  BY <1>1, Invariance, PTL

\* No session is handed the uncommitted files of one that was over before it got the
\* lock, unless a git command was killed or failed in the tree since.
THEOREM ResetIsThorough == Spec => []LeftoversAreGone
<1>1. IInv => LeftoversAreGone
  BY DEF IInv, EditInv, LeftoversAreGone, Holding, Handed
<1>. QED  BY <1>1, Invariance, PTL
=============================================================================
