----------------------------- MODULE RepoCache -----------------------------
(***************************************************************************)
(* The persistent repos volume (ADR 040): the shell script repo.fetch runs *)
(* in a session's container (internal/packs/builtin/repo_fetch.go), and    *)
(* the janitor that evicts clones (internal/repos/janitor.go).  Neither    *)
(* knows the other: they meet at the files of a clone, its .lock, its      *)
(* .hdreused and its tree.                                                 *)
(*                                                                         *)
(* A lock is held on the inode a descriptor was opened on, and the name    *)
(* .lock may be unlinked and created again.  One action is one command of  *)
(* the script or one system call of the janitor that the others can see.   *)
(***************************************************************************)
EXTENDS Naturals

CONSTANTS
  Fetches,     \* calls of repo.fetch, each in a session of its own
  Janitor,
  Clones,      \* /repos/<caller>/<hash>
  Inodes,      \* of the lock files, enough of them
  Capped,      \* whether a size cap is set
  MaxFailures, \* bound: the janitor's failed calls and restarts
  None         \* "no value"

Actors == Fetches \cup {Janitor}

ASSUME RepoCacheAssumption ==
  /\ Janitor \notin Fetches
  /\ None \notin Actors \cup Inodes \cup Clones
  /\ Capped \in BOOLEAN /\ MaxFailures \in Nat

VARIABLES
  tree,    \* "absent", "partial" (cut short before it had a HEAD), "cut" (HEAD
           \* resolves, files are missing), "complete", "torn" (partly removed)
  edits,   \* the sessions whose uncommitted files are in the tree
  kept,    \* the sessions whose commits or nested repositories are in it
  damaged, \* the clones a git command was killed or failed in since the last reset
  reused,  \* .hdreused: "none", "0" or "1"
  fresh,   \* the clones whose .hdaccess is younger than the TTL
  name,    \* the inode .lock names, or None
  foreign, \* the clones whose .lock the janitor created: 0600, of another user
  holder,  \* who holds the flock on an inode, or None
  fetch,   \* where each fetch is
  jan,     \* where the janitor is
  todo,    \* the clones this sweep has still to evict
  evicted, unlinked, \* history: clones the janitor began to remove; whose .lock it unlinked
  failures

clone   == <<tree, edits, kept, damaged>>
file    == <<name, foreign>>
locks   == <<file, holder>>
sweep   == <<jan, todo, failures>>
history == <<evicted, unlinked>>
vars    == <<clone, reused, fresh, locks, fetch, sweep, history>>

-----------------------------------------------------------------------------
\* dir and fd: the clone and the open lock file; hit: a clone was there; reused:
\* what the caller is told; before (history): the sessions over at the flock.
Blank(place) == [at |-> place, dir |-> None, fd |-> None, hit |-> FALSE,
                 reused |-> FALSE, private |-> FALSE, before |-> {}]
Resting == [at |-> "rest", dir |-> None, fd |-> None]

\* The working tree a fetch has to do with.
Dir(f) == fetch[f].dir
HasGit(d) == tree[d] # "absent"

Wiped(d) ==
  /\ tree' = [tree EXCEPT ![d] = "absent"]
  /\ edits' = [edits EXCEPT ![d] = {}] /\ kept' = [kept EXCEPT ![d] = {}]
  /\ damaged' = damaged \ {d}

\* git stops half-way in a clone: it leaves one of the trees, and perhaps a stale
\* index.lock.
Damage(d, trees) ==
  /\ \E t \in trees : tree' = [tree EXCEPT ![d] = t]
  /\ damaged' = damaged \cup {d}

Goto(f, place) == fetch' = [fetch EXCEPT ![f].at = place]

\* The kernel drops a flock with the last descriptor, however the process ends.
Close(a) == holder' = [i \in Inodes |-> IF holder[i] = a THEN None ELSE holder[i]]

\* The subshell is left: the lock file is closed.
Unlock(f) ==
  /\ fetch' = [fetch EXCEPT ![f].at = "report", ![f].fd = None]
  /\ Close(f)

Exit(f) ==
  /\ fetch' = [fetch EXCEPT ![f] = Blank("over")]
  /\ Close(f)

\* open(O_CREAT): the inode named, or a new one.
Opens(d, i) ==
  /\ IF name[d] # None THEN i = name[d]
       ELSE /\ \A e \in Clones : name[e] # i
            /\ \A f \in Fetches : fetch[f].fd # i
            /\ jan.fd # i /\ holder[i] = None
  /\ name' = [name EXCEPT ![d] = i]

Working(a, d) ==
  IF a = Janitor
    THEN jan.at = "remove" /\ jan.dir = d
    ELSE Dir(a) = d /\ fetch[a].at \in {"locked", "fetch", "clone", "reset"}

Alone(f) == \A a \in Actors \ {f} : ~Working(a, Dir(f))

\* The handler decides before the script runs: a volume is mounted.
Persistent(f) == fetch[f].at = "use"

Holding(f) == fetch[f].at = "use" /\ ~fetch[f].private

\* A volume on which earlier sessions left some clones and their lock files.
Init ==
  /\ tree \in [Clones -> {"absent", "complete"}]
  /\ edits = [d \in Clones |-> {}] /\ kept = [d \in Clones |-> {}] /\ damaged = {}
  /\ reused = [d \in Clones |-> "none"]
  /\ fresh \in SUBSET {d \in Clones : HasGit(d)}
  /\ name \in [Clones -> Inodes \cup {None}] /\ foreign = {}
  /\ \A d \in Clones : HasGit(d) <=> name[d] # None
  /\ \A d, e \in Clones : name[d] = name[e] /\ name[d] # None => d = e
  /\ holder = [i \in Inodes |-> None]
  /\ fetch = [f \in Fetches |-> Blank("new")]
  /\ jan = Resting /\ todo = {} /\ failures = 0
  /\ evicted = {} /\ unlinked = {}

-----------------------------------------------------------------------------
(* cloneAcquireScript, the persistent path *)

\* ( ... ) 9> .lock, created 0666
OpenLock(f, d, i) ==
  /\ fetch[f].at = "new" /\ d \notin foreign
  /\ Opens(d, i)
  /\ fetch' = [fetch EXCEPT ![f].at = "wait", ![f].dir = d, ![f].fd = i]
  /\ UNCHANGED <<clone, reused, fresh, foreign, holder, sweep, history>>

\* A lock file of the janitor's: the redirection fails, and the script exits.
LockRefused(f, d) ==
  /\ fetch[f].at = "new" /\ d \in foreign
  /\ Exit(f)
  /\ UNCHANGED <<clone, reused, fresh, file, sweep, history>>

Enter(f) ==
  fetch' = [fetch EXCEPT ![f].at = "locked",
                         ![f].before = {g \in Fetches : fetch[g].at = "over"}]

\* Mutant: no flock.
LockNothing(f) ==
  /\ fetch[f].at = "wait"
  /\ Enter(f)
  /\ UNCHANGED <<clone, reused, fresh, file, holder, sweep, history>>

\* flock
Lock(f) ==
  /\ fetch[f].at = "wait" /\ holder[fetch[f].fd] = None
  /\ holder' = [holder EXCEPT ![fetch[f].fd] = f]
  /\ Enter(f)
  /\ UNCHANGED <<clone, reused, fresh, file, sweep, history>>

\* flock -w 120 gives up: a private clone in /tmp.
LockTimesOut(f) ==
  /\ fetch[f].at = "wait" /\ holder[fetch[f].fd] # None
  /\ fetch' = [fetch EXCEPT ![f] = Blank("private"), ![f].private = TRUE]
  /\ UNCHANGED <<clone, reused, fresh, locks, sweep, history>>

\* [ -d .git ], which a torn tree may have lost.
FindsGit(f) ==
  /\ fetch[f].at = "locked" /\ HasGit(Dir(f))
  /\ fetch' = [fetch EXCEPT ![f].at = "fetch", ![f].hit = TRUE]
  /\ UNCHANGED <<clone, reused, fresh, locks, sweep, history>>

\* rm -rf, and a clone from scratch.
StartsOver(f) ==
  /\ fetch[f].at = "locked" /\ tree[Dir(f)] \in {"absent", "torn"}
  /\ Goto(f, "clone")
  /\ tree' = [tree EXCEPT ![Dir(f)] = "partial"]
  /\ edits' = [edits EXCEPT ![Dir(f)] = {}] /\ kept' = [kept EXCEPT ![Dir(f)] = {}]
  /\ damaged' = damaged \ {Dir(f)}
  /\ UNCHANGED <<reused, fresh, locks, sweep, history>>

GitFetches(f) ==
  /\ fetch[f].at = "fetch" /\ HasGit(Dir(f))
  /\ reused' = [reused EXCEPT ![Dir(f)] = "1"]
  /\ Goto(f, "reset")
  /\ UNCHANGED <<clone, fresh, locks, sweep, history>>

\* What a clone comes to when others are at work in its directory, nobody knows.
GitClones(f) ==
  /\ fetch[f].at = "clone" /\ tree[Dir(f)] = "partial"
  /\ \E t \in IF Alone(f) THEN {"complete"} ELSE {"complete", "torn"} :
       tree' = [tree EXCEPT ![Dir(f)] = t]
  /\ reused' = [reused EXCEPT ![Dir(f)] = "0"]
  /\ Goto(f, "reset")
  /\ UNCHANGED <<edits, kept, damaged, fresh, locks, sweep, history>>

\* The script exits with git's status.
FetchFails(f) ==
  /\ fetch[f].at = "fetch"
  /\ Exit(f)
  /\ UNCHANGED <<clone, reused, fresh, file, sweep, history>>

\* A failed clone removes what it wrote, unless it was checking the files out:
\* HEAD is set by then, and git leaves the repository.
CloneFails(f) ==
  /\ fetch[f].at = "clone"
  /\ \/ Wiped(Dir(f))
     \/ /\ tree[Dir(f)] = "partial"
        /\ Damage(Dir(f), {"cut"}) /\ UNCHANGED <<edits, kept>>
  /\ Exit(f)
  /\ UNCHANGED <<reused, fresh, file, sweep, history>>

\* checkout -f of a ref git does not know, with the index locked, or half-way.
CheckoutFails(f) ==
  /\ fetch[f].at = "reset"
  /\ \/ UNCHANGED clone
     \/ /\ tree[Dir(f)] = "complete"
        /\ Damage(Dir(f), {"cut"}) /\ UNCHANGED <<edits, kept>>
  /\ Exit(f)
  /\ UNCHANGED <<reused, fresh, file, sweep, history>>

\* touch .hdaccess, and the end of the subshell.
Touch(f) == fresh' = IF HasGit(Dir(f)) THEN fresh \cup {Dir(f)} ELSE fresh

\* Mutant: only a clone that was fetched anew is cleaned.
ResetIfCloned(f) ==
  /\ fetch[f].at = "reset"
  /\ edits' = [edits EXCEPT ![Dir(f)] = IF fetch[f].hit THEN @ ELSE {}]
  /\ Touch(f) /\ Unlock(f)
  /\ UNCHANGED <<tree, kept, damaged, reused, file, sweep, history>>

\* [checkout -f] ; reset --hard ; clean -fdx.  A checked-out ref gives a HEAD to a
\* tree that has none.  What is committed stays, and a nested repository too.
ResetTree(f) ==
  /\ fetch[f].at = "reset" /\ HasGit(Dir(f))
  /\ \E t \in IF tree[Dir(f)] = "torn" THEN {"torn", "complete"} ELSE {"complete"} :
       tree' = [tree EXCEPT ![Dir(f)] = t]
  /\ edits' = [edits EXCEPT ![Dir(f)] = {}]
  /\ damaged' = damaged \ {Dir(f)}
  /\ Touch(f) /\ Unlock(f)
  /\ UNCHANGED <<kept, reused, file, sweep, history>>

\* || true: without a HEAD, with a stale index.lock or a full disk they fail, at
\* once or half-way, and nobody is told.
ResetFails(f) ==
  /\ fetch[f].at = "reset"
  /\ Damage(Dir(f), IF tree[Dir(f)] = "complete" THEN {"complete", "cut"}
                                                 ELSE {tree[Dir(f)]})
  /\ \E left \in {edits[Dir(f)], {}} : edits' = [edits EXCEPT ![Dir(f)] = left]
  /\ Touch(f) /\ Unlock(f)
  /\ UNCHANGED <<kept, reused, file, sweep, history>>

\* REUSED=$(cat .hdreused || printf 0) ; rm -f .hdreused -- after the unlock.
ReadMarker(f) ==
  /\ fetch[f].at = "report"
  /\ fetch' = [fetch EXCEPT ![f].at = "envelope", ![f].reused = (reused[Dir(f)] = "1")]
  /\ reused' = [reused EXCEPT ![Dir(f)] = "none"]
  /\ UNCHANGED <<clone, fresh, locks, sweep, history>>

PrivateClone(f) ==
  /\ fetch[f].at = "private"
  /\ \/ Goto(f, "use") /\ UNCHANGED holder
     \/ Exit(f)
  /\ UNCHANGED <<clone, reused, fresh, file, sweep, history>>

\* Mutant: the envelope does not ask for HEAD.
EnvelopeOfAnyTree(f) ==
  /\ fetch[f].at = "envelope" /\ HasGit(Dir(f))
  /\ Goto(f, "use")
  /\ UNCHANGED <<clone, reused, fresh, locks, sweep, history>>

\* rev-parse HEAD, ls-files and the rest of the envelope: the tree is handed out.
Envelope(f) ==
  /\ fetch[f].at = "envelope" /\ tree[Dir(f)] \in {"complete", "cut", "torn"}
  /\ Goto(f, "use")
  /\ UNCHANGED <<clone, reused, fresh, locks, sweep, history>>

EnvelopeFails(f) ==
  /\ fetch[f].at = "envelope" /\ tree[Dir(f)] # "complete"
  /\ Exit(f)
  /\ UNCHANGED <<clone, reused, fresh, file, sweep, history>>

-----------------------------------------------------------------------------
(* The session after the fetch, and its end *)

\* fs.write, cmd.run and the like: a file, or a commit or a repository of its own.
Edit(f) ==
  /\ Holding(f) /\ HasGit(Dir(f))
  /\ \/ edits' = [edits EXCEPT ![Dir(f)] = @ \cup {f}] /\ UNCHANGED kept
     \/ kept' = [kept EXCEPT ![Dir(f)] = @ \cup {f}] /\ UNCHANGED edits
  /\ UNCHANGED <<tree, damaged, reused, fresh, locks, fetch, sweep, history>>

\* Mutant: a lock that outlives its process, like a pid file.
KilledKeepsLock(f) ==
  /\ fetch[f].at \notin {"new", "over"}
  /\ fetch' = [fetch EXCEPT ![f] = Blank("over")]
  /\ UNCHANGED <<clone, reused, fresh, locks, sweep, history>>

\* The watchdog, a cancel, or the caller ends the session, whatever it is doing.
Killed(f) ==
  /\ fetch[f].at \notin {"new", "over"}
  /\ Exit(f)
  /\ UNCHANGED <<clone, reused, fresh, file, sweep, history>>

\* ... while a git command of its writes the tree and holds the index: the checkout
\* of a clone, a reset, a commit.
KilledInGit(f) ==
  /\ \/ /\ fetch[f].at = "clone" /\ tree[Dir(f)] = "partial"
        /\ Damage(Dir(f), {"cut"})
     \/ /\ fetch[f].at = "reset" \/ Holding(f)
        /\ tree[Dir(f)] \in {"complete", "cut"}
        /\ Damage(Dir(f), {tree[Dir(f)], "cut"})
  /\ Exit(f)
  /\ UNCHANGED <<edits, kept, reused, fresh, file, sweep, history>>

-----------------------------------------------------------------------------
(* The janitor *)

\* Fourteen days without a fetch.
Age(d) ==
  /\ d \in fresh
  /\ fresh' = fresh \ {d}
  /\ UNCHANGED <<clone, reused, locks, fetch, sweep, history>>

\* Sweep reads the access times once: the stale clones go, and, over the cap, as
\* many of the others as their sizes ask for.
Discover(victims) ==
  /\ jan = Resting /\ todo = {} /\ victims # {}
  /\ victims \subseteq {d \in Clones : HasGit(d)}
  /\ {d \in Clones : HasGit(d) /\ d \notin fresh} \subseteq victims
  /\ Capped \/ victims \cap fresh = {}
  /\ todo' = victims
  /\ UNCHANGED <<clone, reused, fresh, locks, fetch, jan, failures, history>>

JanitorOpens(d, i) ==
  /\ jan = Resting /\ d \in todo
  /\ Opens(d, i)
  /\ foreign' = IF name[d] = None THEN foreign \cup {d} ELSE foreign
  /\ jan' = [at |-> "try", dir |-> d, fd |-> i]
  /\ todo' = todo \ {d}
  /\ UNCHANGED <<clone, reused, fresh, holder, fetch, failures, history>>

\* LOCK_NB: a busy clone is skipped; otherwise RemoveAll begins.
TryLock ==
  /\ jan.at = "try"
  /\ IF holder[jan.fd] # None
       THEN jan' = Resting /\ UNCHANGED <<clone, holder, evicted>>
       ELSE /\ holder' = [holder EXCEPT ![jan.fd] = Janitor]
            /\ jan' = [jan EXCEPT !.at = "remove"]
            /\ evicted' = evicted \cup {jan.dir}
            /\ tree' = [tree EXCEPT ![jan.dir] = IF HasGit(jan.dir) THEN "torn" ELSE @]
            /\ UNCHANGED <<edits, kept, damaged>>
  /\ UNCHANGED <<reused, fresh, file, fetch, todo, failures, unlinked>>

\* "Can't take the lock file; remove the clone anyway".
RemoveUnlocked(d) ==
  /\ jan = Resting /\ d \in todo /\ failures < MaxFailures
  /\ failures' = failures + 1
  /\ jan' = [at |-> "remove", dir |-> d, fd |-> None]
  /\ todo' = todo \ {d}
  /\ evicted' = evicted \cup {d} /\ unlinked' = unlinked \cup {d}
  /\ tree' = [tree EXCEPT ![d] = IF HasGit(d) THEN "torn" ELSE @]
  /\ UNCHANGED <<edits, kept, damaged, reused, fresh, locks, fetch>>

\* The marker files and the lock file go, with or without the tree.
Unlink(d) ==
  /\ fresh' = fresh \ {d}
  /\ reused' = [reused EXCEPT ![d] = "none"]
  /\ name' = [name EXCEPT ![d] = None] /\ foreign' = foreign \ {d}
  /\ unlinked' = unlinked \cup {d}
  /\ jan' = Resting /\ Close(Janitor)

RemoveAll ==
  /\ jan.at = "remove"
  /\ Wiped(jan.dir)
  /\ Unlink(jan.dir)
  /\ UNCHANGED <<fetch, todo, failures, evicted>>

RemoveFails ==
  /\ jan.at = "remove" /\ failures < MaxFailures
  /\ failures' = failures + 1
  /\ Unlink(jan.dir)
  /\ UNCHANGED <<clone, fetch, todo, evicted>>

\* The control plane dies, with some or all of a tree removed; the next one sweeps
\* at once.
Restart ==
  /\ jan # Resting \/ todo # {}
  /\ failures < MaxFailures
  /\ failures' = failures + 1
  /\ jan' = Resting /\ todo' = {} /\ Close(Janitor)
  /\ \/ UNCHANGED clone
     \/ jan.at = "remove" /\ Wiped(jan.dir)
  /\ UNCHANGED <<reused, fresh, file, fetch, history>>

-----------------------------------------------------------------------------
Script(f) ==
  \/ Lock(f) \/ LockTimesOut(f) \/ FindsGit(f) \/ StartsOver(f)
  \/ GitFetches(f) \/ GitClones(f) \/ FetchFails(f) \/ CloneFails(f)
  \/ CheckoutFails(f) \/ ResetTree(f) \/ ResetFails(f) \/ ReadMarker(f) \/ PrivateClone(f)
  \/ Envelope(f) \/ EnvelopeFails(f)

Sweep ==
  \/ \E victims \in SUBSET Clones : Discover(victims)
  \/ \E d \in Clones, i \in Inodes : JanitorOpens(d, i)
  \/ TryLock \/ RemoveAll

JanitorTrouble == RemoveFails \/ Restart \/ \E d \in Clones : RemoveUnlocked(d)

Next ==
  \/ \E f \in Fetches :
       \/ \E d \in Clones, i \in Inodes : OpenLock(f, d, i)
       \/ \E d \in Clones : LockRefused(f, d)
       \/ Script(f) \/ Edit(f) \/ Killed(f) \/ KilledInGit(f)
  \/ \E d \in Clones : Age(d)
  \/ Sweep \/ JanitorTrouble

Spec == Init /\ [][Next]_vars

(***************************************************************************)
(* The janitor sweeps every hour, and the watchdog ends every session.     *)
(* Nothing else is promised: git may hang.                                 *)
(***************************************************************************)
FairSpec ==
  /\ Spec /\ WF_vars(Sweep)
  /\ \A f \in Fetches : WF_vars(Killed(f))

-----------------------------------------------------------------------------
(* Properties *)

Places == {"new", "wait", "locked", "fetch", "clone", "reset", "report",
           "private", "envelope", "use", "over"}

FetchRecord ==
  [at : Places, dir : Clones \cup {None}, fd : Inodes \cup {None}, hit : BOOLEAN,
   reused : BOOLEAN, private : BOOLEAN, before : SUBSET Fetches]

\* Type correctness.
TypeOK ==
  /\ tree \in [Clones -> {"absent", "partial", "cut", "complete", "torn"}]
  /\ edits \in [Clones -> SUBSET Fetches] /\ kept \in [Clones -> SUBSET Fetches]
  /\ damaged \subseteq Clones /\ foreign \subseteq Clones
  /\ fresh \subseteq Clones /\ todo \subseteq Clones
  /\ evicted \subseteq Clones /\ unlinked \subseteq Clones
  /\ reused \in [Clones -> {"none", "0", "1"}]
  /\ name \in [Clones -> Inodes \cup {None}]
  /\ holder \in [Inodes -> Actors \cup {None}]
  /\ fetch \in [Fetches -> FetchRecord]
  /\ jan \in [at : {"rest", "try", "remove"}, dir : Clones \cup {None},
              fd : Inodes \cup {None}]
  /\ failures \in 0..MaxFailures

\* Until the janitor unlinks a clone's lock file, no two sessions, and no session
\* and the janitor, are at work in its tree: the flock excludes them, through
\* kills, time-outs and restarts.
OneWorker ==
  \A d \in Clones \ unlinked : \A a, b \in Actors :
    Working(a, d) /\ Working(b, d) => a = b

\* Until the janitor touches a clone, every session that was handed it has a tree
\* whose HEAD resolves, and a complete one unless a git command was killed or failed
\* in it: a clone cut short by a kill is handed out only if the kill came during the
\* checkout, and nobody's clone destroys a tree another session was given.
HandedOutIsComplete ==
  \A f \in Fetches :
    Holding(f) /\ Dir(f) \notin evicted =>
      \/ tree[Dir(f)] = "complete"
      \/ tree[Dir(f)] = "cut" /\ Dir(f) \in damaged

\* Unless a git command was killed or failed in it since, no session finds in its
\* tree the uncommitted files of a session that was over when it got the lock.
LeftoversAreGone ==
  \A f \in Fetches :
    Holding(f) /\ Dir(f) \notin damaged => edits[Dir(f)] \cap fetch[f].before = {}

\* A clone past its TTL is evicted or fetched again, though git may hang on it and
\* sessions may be killed with its lock.
StaleCloneGoes ==
  \A d \in Clones :
    HasGit(d) /\ d \notin fresh ~> ~HasGit(d) \/ d \in fresh

-----------------------------------------------------------------------------
(* What the documentation says and the code does not do *)

\* The flock lets no two sessions into one tree, lock file unlinked or not.
NeverTwoWorkers ==
  \A d \in Clones : \A f, g \in Fetches :
    Working(f, d) /\ Working(g, d) => f = g

\* "The repos janitor never evicts a clone a session currently holds."
HeldIsNotEvicted ==
  \A f \in Fetches : Holding(f) => ~Working(Janitor, Dir(f))

\* "Drop any leftover state from a prior session's work": a reset that failed drops
\* nothing, and commits and nested repositories survive every reset.
NoLeftoversEver ==
  \A f \in Fetches :
    Holding(f) => (edits[Dir(f)] \cup kept[Dir(f)]) \cap fetch[f].before = {}

\* A clone cut short is never handed out: one killed in its checkout has a HEAD, the
\* reset that its stale index.lock refuses is ignored, and rev-parse succeeds.
CutShortIsNotHandedOut ==
  \A f \in Fetches :
    Holding(f) /\ Dir(f) \notin evicted => tree[Dir(f)] = "complete"

\* A session's uncommitted work is not undone by another session's fetch.
WorkIsSafe ==
  [][\A f \in Fetches :
       Holding(f) /\ f \in edits[Dir(f)] /\ Dir(f) \notin evicted =>
         f \in edits'[Dir(f)] \/ ~Holding(f)']_vars

\* persistent is "true when the clone lives on the persistent repos volume".
PersistentIsTruthful == \A f \in Fetches : Persistent(f) => Holding(f)

\* reused is "true when this call hit an existing on-volume clone".
ReusedIsTruthful == \A f \in Fetches : Holding(f) => fetch[f].reused = fetch[f].hit
=============================================================================
