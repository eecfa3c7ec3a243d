------------------------------ MODULE Webhooks ------------------------------
(****************************************************************************)
(* From an issue to a pull request: the GitHub webhook                      *)
(* (internal/api/webhook_github.go) starts swe.solve once per delivery, on  *)
(* a context of its own, and comments on the issue; swe.solve               *)
(* (internal/packs/builtin/swe_solve.go) works in a clone - a private one,  *)
(* or the one all jobs share on the repositories' volume - commits to a     *)
(* branch named after the commit it started from, pushes it and opens a     *)
(* pull request.  What repo.fetch guarantees of the shared clone's files is *)
(* RepoCache; here it is which commit and whose changes they are.           *)
(****************************************************************************)
EXTENDS Naturals, FiniteSets

CONSTANTS
  Deliveries,  \* POSTs of GitHub, redeliveries among them
  MaxMerges,   \* bound: commits that main gets from others
  Nowhere

ASSUME WebhookAssumption ==
  MaxMerges \in Nat /\ Nowhere \notin [base : 0..MaxMerges, with : SUBSET Deliveries]

VARIABLES
  volume,   \* clones are on the volume
  ref,      \* the rule's "ref": main or none
  main,     \* the newest commit of main at the origin
  clone,    \* the clone on the volume
  job,      \* the dispatch of each delivery
  branches, \* the origin's branches: the commit behind each name
  pulls,    \* the names that a pull request was opened for
  comments  \* what was written on the issue for each delivery

webhookVars == <<volume, ref, main, clone, job, branches, pulls, comments>>

\* A commit is the commit of main it goes back to and whose changes are on top.
Commits == [base : 0..MaxMerges, with : SUBSET Deliveries]
OfMain(n) == [base |-> n, with |-> {}]

\* A clone: its local main, HEAD, changes that are not committed, those that are
\* staged, and its local branches, named after the commit each started from.
Cloned(n) == [main |-> OfMain(n), head |-> OfMain(n), dirty |-> {}, staged |-> {},
              names |-> [c \in Commits |-> Nowhere]]
NoClone == [Cloned(0) EXCEPT !.head = Nowhere]

NoJob == [at |-> "none", mode |-> "patch", own |-> TRUE, tree |-> NoClone, name |-> Nowhere, pushed |-> FALSE,
          made |-> Nowhere]

WebhookInit ==
  /\ volume \in BOOLEAN /\ ref \in {"none", "main"} /\ main = 0
  /\ clone = NoClone /\ job = [d \in Deliveries |-> NoJob]
  /\ branches = [c \in Commits |-> Nowhere] /\ pulls = {}
  /\ comments = [d \in Deliveries |-> "none"]

Goto(d, place) == job' = [job EXCEPT ![d].at = place]
Tree(d) == IF job[d].own THEN job[d].tree ELSE clone
SetTree(d, t, k) ==
  IF k.own THEN job' = [job EXCEPT ![d] = [k EXCEPT !.tree = t]] /\ UNCHANGED clone
           ELSE clone' = t /\ job' = [job EXCEPT ![d] = k]

-----------------------------------------------------------------------------
(* The webhook *)

\* A delivery that matches a rule: 200 at once, and nobody looks whether the
\* same event, or a comment of helmdeck's own, started a job before.
Dispatch(d, mode) ==
  /\ job[d].at = "none"
  /\ job' = [job EXCEPT ![d].at = "clone", ![d].mode = mode]
  /\ UNCHANGED <<volume, ref, main, clone, branches, pulls, comments>>

\* An error, or the 30 minutes are over: Execute returns an error.  What a
\* command did before it was cut off stays.
Fails(d) ==
  /\ job[d].at \in {"clone", "solve", "collect", "name", "commit", "push", "pull"}
  /\ Goto(d, "failed")
  /\ UNCHANGED <<volume, ref, main, clone, branches, pulls, comments>>

\* webhookResultBody: "_No changes were pushed._" whatever failed.
Body(d) == IF job[d].at = "failed" THEN "failed" ELSE "finished"

\* The comment has what is left of the same 30 minutes, and may be refused.
Comment(d) ==
  /\ job[d].at \in {"failed", "solved"}
  /\ comments' \in {comments, [comments EXCEPT ![d] = Body(d)]}
  /\ Goto(d, "over")
  /\ UNCHANGED <<volume, ref, main, clone, branches, pulls>>

\* Nothing of a dispatch is stored.
ProcessDies ==
  /\ job' = [d \in Deliveries |-> IF job[d].at = "none" THEN NoJob ELSE [job[d] EXCEPT !.at = "over"]]
  /\ UNCHANGED <<volume, ref, main, clone, branches, pulls, comments>>

-----------------------------------------------------------------------------
(* swe.solve *)

\* cloneAcquireScript: a clone that is there is fetched, put on the rule's ref
\* and reset - to its own HEAD: nothing moves its branches to the origin's.  Who
\* waits too long for its lock takes a private one.
Reused(t) ==
  [t EXCEPT !.head = IF ref = "main" THEN t.main ELSE @, !.dirty = {}, !.staged = {}]
AcquireClone(d) ==
  /\ job[d].at = "clone"
  /\ \E own \in {TRUE, ~volume} :
       SetTree(d, IF own \/ clone = NoClone THEN Cloned(main) ELSE Reused(clone),
                  [job[d] EXCEPT !.at = "solve", !.own = own])
  /\ UNCHANGED <<volume, ref, main, branches, pulls, comments>>

\* The agent edits the working tree, or finds nothing to change.
Solve(d) ==
  /\ job[d].at = "solve"
  /\ \E edits \in {{}, {d}} :
       SetTree(d, [Tree(d) EXCEPT !.dirty = @ \cup edits], [job[d] EXCEPT !.at = "collect"])
  /\ UNCHANGED <<volume, ref, main, branches, pulls, comments>>

\* git add -A, and the diff; patch mode ends here.
Collect(d) ==
  /\ job[d].at = "collect"
  /\ SetTree(d, [Tree(d) EXCEPT !.staged = Tree(d).dirty],
             [job[d] EXCEPT !.at = IF job[d].mode = "patch" THEN "solved" ELSE "name"])
  /\ UNCHANGED <<volume, ref, main, branches, pulls, comments>>

\* rev-parse --short HEAD, before the commit.
NameBranch(d) ==
  /\ job[d].at = "name"
  /\ job' = [job EXCEPT ![d].name = Tree(d).head, ![d].at = "commit"]
  /\ UNCHANGED <<volume, ref, main, clone, branches, pulls, comments>>

\* switch -c and commit: refused when the clone has that branch, or when there
\* is nothing to commit - and then the clone stays on the new branch.
Commit(d) ==
  /\ job[d].at = "commit"
  /\ LET t == Tree(d)
         new == [base |-> t.head.base, with |-> t.head.with \cup t.staged]
     IN \/ t.names[job[d].name] # Nowhere /\ Goto(d, "failed") /\ UNCHANGED clone
        \/ /\ t.names[job[d].name] = Nowhere /\ t.staged = {}
           /\ SetTree(d, [t EXCEPT !.names[job[d].name] = t.head], [job[d] EXCEPT !.at = "failed"])
        \/ /\ t.names[job[d].name] = Nowhere /\ t.staged # {}
           /\ SetTree(d, [t EXCEPT !.names[job[d].name] = new, !.head = new,
                                   !.dirty = @ \ t.staged, !.staged = {}],
                      [job[d] EXCEPT !.at = "push", !.made = new])
  /\ UNCHANGED <<volume, ref, main, branches, pulls, comments>>

\* Mutant: the push is forced.
MayPushForced(name, commit) == TRUE

\* Without force the origin takes a new name, what it has, or a descendant.
MayPush(name, commit) ==
  \/ branches[name] \in {Nowhere, commit}
  \/ /\ branches[name] # Nowhere
     /\ branches[name].base = commit.base /\ branches[name].with \subseteq commit.with

\* The push arrives; its answer may be lost.
Push(d) ==
  /\ job[d].at = "push"
  /\ LET commit == Tree(d).names[job[d].name] IN
       \/ /\ MayPush(job[d].name, commit)
          /\ branches' = [branches EXCEPT ![job[d].name] = commit]
          /\ \E next \in {IF job[d].mode = "branch" THEN "solved" ELSE "pull", "failed"} :
               job' = [job EXCEPT ![d].at = next, ![d].pushed = TRUE]
       \/ ~MayPush(job[d].name, commit) /\ Goto(d, "refused") /\ UNCHANGED branches
  /\ UNCHANGED <<volume, ref, main, clone, pulls, comments>>

\* A push that was refused fails the pack.
Refused(d) ==
  /\ job[d].at = "refused" /\ Goto(d, "failed")
  /\ UNCHANGED <<volume, ref, main, clone, branches, pulls, comments>>

\* GitHub opens one pull request for a branch.
OpenPull(d) ==
  /\ job[d].at = "pull" /\ job[d].name \notin pulls
  /\ pulls' = pulls \cup {job[d].name}
  /\ \E end \in {"solved", "failed"} : Goto(d, end)
  /\ UNCHANGED <<volume, ref, main, clone, branches, comments>>

-----------------------------------------------------------------------------
\* Somebody else's commit on main, and the janitor, which drops a clone that no
\* job uses (RepoCache has what becomes of one that is in use).
MainMoves ==
  /\ main < MaxMerges /\ main' = main + 1
  /\ UNCHANGED <<volume, ref, clone, job, branches, pulls, comments>>
CloneEvicted ==
  /\ clone # NoClone /\ clone' = NoClone
  /\ \A d \in Deliveries : job[d].at \in {"none", "clone", "failed", "solved", "over"}
  /\ UNCHANGED <<volume, ref, main, job, branches, pulls, comments>>

WebhookNext ==
  \/ \E d \in Deliveries, mode \in {"patch", "branch", "pull_request"} : Dispatch(d, mode)
  \/ \E d \in Deliveries :
       \/ AcquireClone(d) \/ Solve(d) \/ Collect(d) \/ NameBranch(d) \/ Commit(d) \/ Push(d)
       \/ Refused(d) \/ OpenPull(d) \/ Fails(d) \/ Comment(d)
  \/ ProcessDies \/ MainMoves \/ CloneEvicted

WebhookSpec == WebhookInit /\ [][WebhookNext]_webhookVars

-----------------------------------------------------------------------------
(* Properties *)

\* What a job tells of its branch stands, whatever other jobs of the issue, of
\* the clone and of the origin do: once it says that it pushed, the branch of
\* that name is its commit, with its pull request if it was to open one; no job
\* overwrites another's branch.  And with clones of their own, its commit is its
\* change alone, on the main it cloned.
ToldBranchesStand ==
  \A d \in Deliveries :
    /\ job[d].pushed =>
         /\ branches[job[d].name] = job[d].made
         /\ job[d].own => job[d].made = [base |-> job[d].name.base, with |-> {d}]
    /\ comments[d] = "finished" /\ job[d].mode # "patch" =>
         /\ job[d].pushed
         /\ job[d].mode = "pull_request" => job[d].name \in pulls

\* "The branch name is derived from a short sha so re-runs don't collide on a
\* stable name" (swe_solve.go:418-419).  TLC refutes it: the sha is that of the
\* commit the job started from, so a re-run collides until main moves.
RerunsDontCollide == \A d \in Deliveries : job[d].at # "refused"

\* "_No changes were pushed._" (webhook_github.go:343).  Refuted: the pull
\* request may fail after the push.
FailedPushedNothing == \A d \in Deliveries : comments[d] = "failed" => ~job[d].pushed

\* "git fetch && git checkout <ref> && git pull" (ADR 040:61).  Refuted: nothing
\* is pulled, a clone on the volume stays at the commit of its first fetch.
CloneIsCurrent ==
  [][\A d \in Deliveries :
       job[d].at = "clone" /\ job'[d].at = "solve" =>
         (IF ~job'[d].own THEN clone'.head ELSE job'[d].tree.head) = OfMain(main)]_webhookVars

\* Each pull request has one job's change.  Refuted on the volume: a second job
\* starts from the first one's commit.
PullsAreOwn == \A name \in pulls : Cardinality(branches[name].with \ name.with) = 1 /\ name.with = {}
=============================================================================
