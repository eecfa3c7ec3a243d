---------------------------- MODULE ServicesInv ----------------------------
(***************************************************************************)
(* The inductive invariants of six services: for each the types of its     *)
(* variables, and what every step keeps besides the property it is for.    *)
(***************************************************************************)
EXTENDS CdpClients, McpServers, MemoryStore, Marketplace, Artifacts, Webhooks

-----------------------------------------------------------------------------
(* CdpClients *)

Visiting == [at : {"door", "find", "dial", "insert", "use", "stuck", "evict", "close", "end", "left"},
             browser : Browsers \cup {AtDoor.browser}, client : 0..MaxDials, owns : BOOLEAN]
CdpTypeOK ==
  /\ up \subseteq Browsers
  /\ cached \in [Browsers -> 0..MaxDials]
  /\ dialled \in 0..MaxDials /\ open \subseteq 1..dialled
  /\ visit \in [Visits -> Visiting]

\* A visit that answers for a client: it dialled it, or took it out of the cache.
Carries(v) == visit[v].at \in {"insert", "close"} /\ visit[v].client # 0

\* Every open client is in one place: in the cache once, or with one visit.
OnePlaceInv ==
  /\ \A v \in Visits : /\ visit[v].at # "door" => visit[v].browser \in Browsers
                       /\ visit[v].at = "insert" => visit[v].client # 0
  /\ \A c \in open : \/ \E b \in Browsers : cached[b] = c
                     \/ \E v \in Visits : Carries(v) /\ visit[v].client = c
  /\ \A b \in Browsers :
       cached[b] # 0 => /\ cached[b] \in open
                        /\ \A d \in Browsers : cached[d] = cached[b] => d = b
  /\ \A v \in Visits :
       Carries(v) => /\ visit[v].client \in open
                     /\ \A b \in Browsers : cached[b] # visit[v].client
                     /\ \A w \in Visits : Carries(w) /\ visit[w].client = visit[v].client => w = v

CdpInv == CdpTypeOK /\ OnePlaceInv

-----------------------------------------------------------------------------
(* McpServers *)

Rows == [config : Configs \cup {0}, enabled : BOOLEAN, manifest : Configs \cup {0}, fresh : BOOLEAN]
Requests == [at : {"idle", "update", "queue", "fetch", "store", "done"},
             server : Servers \cup {"none"}, seen : Rows, got : Configs \cup {0}]
McpTypeOK ==
  /\ row \in [Servers -> Rows] /\ request \in [McpCalls -> Requests]
  /\ overtaken \subseteq Servers

\* A fetch asks with the config its row has, unless it was overtaken; the id of a
\* row that has gone is not used again while a request names it.
FetchInv ==
  \A c \in McpCalls :
    LET k == request[c] IN
    /\ k.at \in {"update", "queue", "fetch", "store"} => k.server \in Servers
    /\ k.at \in {"queue", "fetch", "store"} =>
         row[k.server].config \in {0, k.seen.config} \/ k.server \in overtaken
    /\ k.at = "store" => k.got = k.seen.config

McpInv ==
  /\ McpTypeOK /\ FetchInv /\ ManifestIsOfConfig
  /\ \A s \in Servers : ~Exists(s) => row[s].manifest = 0

-----------------------------------------------------------------------------
(* MemoryStore *)

Entries == [value : Nat, due : Nat]
Readers == [at : {"rest", "judge", "drop", "forget", "done"}, key : Keys \cup {AtRest.key},
            seen : Entries, whose : SUBSET Callers, left : Seq(Patterns)]
MemTypeOK ==
  /\ entry \in [Keys -> Entries] /\ kept \in [Keys -> Entries]
  /\ now \in Nat /\ puts \in Nat
  /\ crossed \subseteq Keys
  /\ reader \in [MemCalls -> Readers]

\* An entry is the one last put, or was dropped after that one expired.
EntryInv == \A k \in Keys : entry[k] = kept[k] \/ k \in crossed \/ Expired(kept[k])

\* What a Get may drop has expired, and what was put behind its back is crossed.
GetInv ==
  \A o \in MemCalls :
    LET r == reader[o] IN
    /\ r.at \in {"judge", "drop"} => r.key \in Keys
    /\ r.at = "drop" => Expired(r.seen)
    /\ r.at \in {"judge", "drop"} =>
         \/ r.seen.due = 0 \/ r.seen = kept[r.key] \/ r.key \in crossed
         \/ kept[r.key] = NoEntry \/ Expired(kept[r.key])

MemInv == MemTypeOK /\ EntryInv /\ GetInv

-----------------------------------------------------------------------------
(* Marketplace *)

Installing == {"manifest", "clean", "clone", "copy", "verify", "build", "register", "discard", "record"}
Places == Over \cup Installing \cup {"unregister", "remove", "upload", "run"}
Errand == [at : Places, version : 0..Releases, left : SUBSET Parts, parts : [Parts -> 0..Releases],
           alone : BOOLEAN]
MarketTypeOK ==
  /\ published \in 1..Releases /\ signed \in BOOLEAN /\ intact \in BOOLEAN
  /\ files \in [Parts -> 0..Releases]
  /\ registered \subseteq 1..Releases /\ recorded \in 0..Releases
  /\ errand \in [Errands -> Errand]

\* What a request that is alone has copied, checked and registered is what is there.
OwnWork(e) ==
  LET k == errand[e] IN
  /\ k.at \in {"manifest", "clean", "clone"} => k.left = Parts
  /\ k.at \in {"copy", "verify"} => \A p \in Parts : (k.at = "copy" /\ p \in k.left) \/ files[p] # 0
  /\ k.at \in {"build", "register", "record"} =>
       \A p \in Parts : files[p] # 0 /\ (signed => files[p] = k.version)
  /\ k.at = "record" => k.version \in registered
AloneInv ==
  \A e \in Errands :
    errand[e].alone /\ e \in Busy => (\A d \in Busy : d = e) /\ OwnWork(e)

\* An install has a version once it has the manifest, and files once it has cloned.
VersionInv ==
  \A e \in Errands :
    /\ errand[e].at \in Installing \ {"manifest"} => errand[e].version # 0
    /\ errand[e].at = "copy" => \A p \in Parts : errand[e].parts[p] # 0

\* Whoever would touch the directory has not begun.
IntactInv ==
  intact => \A e \in Errands : errand[e].at \in Over \cup {"manifest", "clean", "upload", "run"}

MarketInv == MarketTypeOK /\ AloneInv /\ VersionInv /\ IntactInv /\ InstalledIsWhole

-----------------------------------------------------------------------------
(* Artifacts *)

ArtifactTypeOK ==
  /\ bucket \subseteq Files /\ index \subseteq Files
  /\ sweeping \subseteq Files /\ dropping \subseteq Files /\ asked \subseteq Files
  /\ old \in [Files -> Nat] /\ ttl \in [Files -> PackTTLs]
  /\ put \in [Files -> {"none", "stored", "signed", "told", "kept", "failed"}]

\* An object is there from its upload until it is overdue or somebody asks for
\* its deletion; only overdue ones are swept, and one that is being dropped is
\* not there.
ObjectInv ==
  \A f \in Files :
    /\ put[f] = "none" => f \notin bucket \cup index \cup sweeping \cup dropping
    /\ put[f] \in {"stored", "signed", "told", "kept"} /\ f \notin asked /\ ~Overdue(f) => f \in bucket
    /\ f \in sweeping => Overdue(f)
    /\ f \in dropping => f \notin bucket

ArtifactInv == ArtifactTypeOK /\ ObjectInv /\ HandlesStand

-----------------------------------------------------------------------------
(* Webhooks *)

Trees == [main : Commits, head : Commits \cup {Nowhere}, dirty : SUBSET Deliveries,
          staged : SUBSET Deliveries, names : [Commits -> Commits \cup {Nowhere}]]
JobPlaces == {"none", "clone", "solve", "collect", "name", "commit", "push", "refused", "pull",
              "solved", "failed", "over"}
Jobs == [at : JobPlaces, mode : {"patch", "branch", "pull_request"}, own : BOOLEAN, tree : Trees,
         name : Commits \cup {Nowhere}, pushed : BOOLEAN, made : Commits \cup {Nowhere}]
WebhookTypeOK ==
  /\ main \in 0..MaxMerges /\ clone \in Trees
  /\ job \in [Deliveries -> Jobs]
  /\ branches \in [Commits -> Commits \cup {Nowhere}]
  /\ pulls \subseteq Commits
  /\ comments \in [Deliveries -> {"none", "failed", "finished"}]

\* The deliveries whose changes are somewhere in a clone.
HeadOf(t) == IF t.head = Nowhere THEN {} ELSE t.head.with
NamedIn(t) == {e \in Deliveries : \E c \in Commits : t.names[c] # Nowhere /\ e \in t.names[c].with}
Changes(t) == t.main.with \cup HeadOf(t) \cup t.dirty \cup t.staged \cup NamedIn(t)

Unbegun == {"none", "clone", "solve"}
Working == {"solve", "collect", "name", "commit", "push", "refused", "pull"}

\* A clone that somebody works in is there; a private one has the changes of its
\* job alone, the shared one those of jobs that work in it, and a job that has
\* not begun has changed nothing.
CloneInv ==
  /\ clone.head = Nowhere => clone = NoClone
  /\ \A d \in Deliveries :
       /\ job[d].at \in Working => Tree(d).head # Nowhere
       /\ ~job[d].own => job[d].at \notin {"none", "clone"}
       /\ job[d].own => Changes(job[d].tree) \subseteq {d} /\ d \notin Changes(clone)
       /\ job[d].at \in Unbegun => d \notin Changes(Tree(d))

\* A change that is in a clone and in a branch of the origin got there by a push
\* of the clone's branch of that name.
BranchInv ==
  \A c \in Commits :
    branches[c] # Nowhere =>
      /\ branches[c].with # {}
      /\ \A e \in branches[c].with :
           /\ job[e].at \notin Unbegun
           /\ e \in Changes(Tree(e)) => branches[c] = Tree(e).names[c]

\* A private clone has its own change, on the main it was cloned at.
OwnChange(d) ==
  LET k == job[d] IN
  k.own =>
    /\ k.at \in {"solve", "collect", "name", "commit"} => k.tree.head.with = {}
    /\ k.at = "commit" => k.name = k.tree.head
    /\ k.made # Nowhere => k.made = [base |-> k.name.base, with |-> {d}]

\* What a job made is the branch of its name in its clone until it is pushed,
\* and at the origin from then on.
Dispatched(d) ==
  LET k == job[d] IN
  /\ k.at \in {"commit", "push", "refused", "pull"} \/ k.pushed => k.name # Nowhere
  /\ k.at \in {"push", "pull", "refused"} \/ k.pushed => k.made # Nowhere
  /\ k.at \in {"none", "clone", "solve", "collect", "name", "commit"} => k.made = Nowhere
  /\ k.at = "push" => Tree(d).names[k.name] = k.made /\ k.made.with # {}
  /\ k.at \in {"none", "clone", "solve", "collect", "name", "commit", "push"} => ~k.pushed
  /\ k.pushed => branches[k.name] = k.made
  /\ k.at \in {"name", "commit", "push", "refused", "pull"} => k.mode # "patch"
  /\ k.at = "pull" => k.pushed
  /\ (k.at = "solved" \/ comments[d] = "finished") /\ k.mode # "patch" =>
       k.pushed /\ (k.mode = "pull_request" => k.name \in pulls)
  /\ comments[d] = "finished" => k.at = "over"

WebhookInv ==
  /\ WebhookTypeOK /\ CloneInv /\ BranchInv
  /\ \A d \in Deliveries : OwnChange(d) /\ Dispatched(d)
=============================================================================
