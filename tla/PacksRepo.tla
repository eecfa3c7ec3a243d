----------------------------- MODULE PacksRepo -----------------------------
(***************************************************************************)
(* Handlers of the packs that work in a clone: files, commands, git and    *)
(* the coding agent (internal/packs/builtin).                              *)
(***************************************************************************)
EXTENDS PackSteps

Opened == Check({Invalid, NoSession})

\* repo_fetch.go: the credential, then one script: what it does to the shared
\* volume is RepoCache.
RepoFetch ==
  One(<<Opened, Bad, Guard, If(Look({Failed})), Look({Invalid}), Work({Failed}),
        Check({Failed})>>)

-----------------------------------------------------------------------------
(* fs_packs.go: a shell command each, reached through safeJoin.            *)
FSRead    == One(<<Opened, Look({Invalid, Failed}), Look({Failed})>>)
FSWrite   == One(<<Opened, Work({Failed})>>)
\* Size, read, count of matches, then the write of the whole new text.
FSPatch   == One(<<Opened, Look({Invalid}), Look({Failed}), Bad, Work({Failed})>>)
FSList    == One(<<Opened, Look({Failed, Invalid}), Bad>>)
FSDelete  == One(<<Opened, Work({Failed})>>)
\* The caller's command, with the session's network; output over the cap is
\* refused after it has run.
CmdRun    == One(<<Opened, Act({Failed}, {Failed}), Bad>>)
GitCommit == One(<<Opened, Work({Failed, Invalid})>>)
GitDiff   == One(<<Opened, Look({Failed})>>)
GitLog    == One(<<Opened, Look({Failed})>>)

\* repo_map.go
RepoMap   == One(<<Opened, Look({Failed}), Check({Failed})>>)

\* repo_push.go: the remote's URL, the credential, the branch, the push,
\* and the commit it left at the remote.
RepoPush ==
  One(<<Opened, Look({Failed}), Bad, Guard, If(Look({Failed})),
        If(Look({Failed, Invalid})), Act({Failed, Stale}, {Failed})>>)

-----------------------------------------------------------------------------
(* swe_solve.go: clone, map, run the agent, keep its trajectory, and as    *)
(* the mode says return the diff, push a branch or open a pull request.    *)
SolveClone == <<Opened, Recall, Bad, Guard, If(Look({Failed})),
                Work({Failed, Invalid}), Check({Failed})>>
\* The agent asks its model and runs what shell commands it likes.
SolveAgent == <<Look({}), Look({}), Act({Failed}, {Failed}), Look({Failed}),
                Look({}), Store>>
\* The fact about the solved task is kept if it can be.
StoreSolveNote == Note({})
SweSolvePush == <<Guard, If(Look({Failed})), Act({Failed, Stale}, {Failed})>>
SolveBranch == <<Look({}), Work({Failed, Invalid})>> \o SweSolvePush
\* A repository that is not GitHub's is refused once its branch is pushed.
SolvePR == SolveBranch \o <<Bad, Look({}), Check({Failed}), Act({Failed}, {Failed})>>
SweSolve ==
  Then(One(SolveClone \o SolveAgent),
       {<<StoreSolveNote>>, SolveBranch \o <<StoreSolveNote>>,
        SolvePR \o <<StoreSolveNote>>})
=============================================================================
