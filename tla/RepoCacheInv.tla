---------------------------- MODULE RepoCacheInv ----------------------------
(* The inductive invariant of RepoCache. *)
EXTENDS RepoCache

Inside == {"locked", "fetch", "clone", "reset"}
Handed == {"report", "envelope", "use"}

\* A fetch with a lock file open, and a janitor at work, have a clone.
PlaceInv ==
  /\ \A f \in Fetches :
       /\ fetch[f].at \in Inside \cup {"wait"} => Dir(f) \in Clones /\ fetch[f].fd \in Inodes
       /\ fetch[f].at \notin Inside \cup {"wait"} => fetch[f].fd = None
       /\ fetch[f].at \in Handed /\ ~fetch[f].private => Dir(f) \in Clones
       /\ fetch[f].private => fetch[f].at \in {"private", "use"}
       /\ fetch[f].at = "private" => fetch[f].private
  /\ jan.at # "rest" => jan.dir \in Clones
  /\ jan.at = "try" => jan.fd \in Inodes

\* Whoever works in a tree holds the lock it opened, and nobody else holds one.
HolderInv ==
  /\ \A f \in Fetches : fetch[f].at \in Inside => holder[fetch[f].fd] = f
  /\ jan.at = "remove" /\ jan.dir \notin unlinked => jan.fd \in Inodes /\ holder[jan.fd] = Janitor
  /\ \A i \in Inodes :
       /\ holder[i] \in Fetches => fetch[holder[i]].at \in Inside /\ fetch[holder[i]].fd = i
       /\ holder[i] = Janitor => jan.at = "remove" /\ jan.fd = i

\* Until it is unlinked, everybody who opened a clone's lock file opened the same.
NameInv ==
  /\ \A f \in Fetches :
       fetch[f].fd # None /\ Dir(f) \notin unlinked => fetch[f].fd = name[Dir(f)]
  /\ jan.at # "rest" /\ jan.dir \notin unlinked => jan.fd = name[jan.dir]

\* A clone the janitor has not touched is torn by nobody, and cut only by git.
TreeInv ==
  /\ unlinked \subseteq evicted
  /\ jan.at = "remove" => jan.dir \in evicted
  /\ \A d \in Clones \ evicted : tree[d] # "torn"
  /\ \A d \in Clones : tree[d] = "cut" => d \in damaged
  /\ \A f \in Fetches :
       fetch[f].at = "clone" /\ Dir(f) \notin evicted => tree[Dir(f)] = "partial"

\* A session that is over stays over, and its work is reset before a hand-over.
EditInv ==
  \A f \in Fetches :
    /\ \A g \in fetch[f].before : fetch[g].at = "over"
    /\ fetch[f].at \in Handed /\ ~fetch[f].private /\ Dir(f) \notin damaged =>
         edits[Dir(f)] \cap fetch[f].before = {}

IInv ==
  /\ TypeOK /\ PlaceInv /\ HolderInv /\ NameInv /\ TreeInv /\ EditInv
  /\ HandedOutIsComplete
=============================================================================
