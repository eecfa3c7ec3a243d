----------------------------- MODULE PacksTools -----------------------------
(***************************************************************************)
(* Handlers of the packs that call an API, keep artifacts and facts, or    *)
(* run code (internal/packs/builtin, command_pack.go).                     *)
(***************************************************************************)
EXTENDS PackSteps

-----------------------------------------------------------------------------
(* github.go: the token is optional, the caller's mistakes and GitHub's    *)
(* refusals are both untyped and both become handler_failed; the answer is *)
(* GitHub's body, cut at 1 MiB, checked only by the output schema.         *)
Github(request) == <<Look({}), Check({Failed}), request, Check({BadOutput})>>
GithubRead   == Github(Look({Failed}))
GithubWrite  == Github(Act({Failed}, {Failed}))

GithubCreateIssue   == One(GithubWrite)
GithubPostComment   == One(GithubWrite)
GithubCreateRelease == One(GithubWrite)
GithubCreatePR      == One(GithubWrite)
GithubListPRs       == One(GithubRead)
GithubListIssues    == One(GithubRead)
GithubGetIssue      == One(GithubRead)
GithubSearch        == One(GithubRead)

\* The egress guard sees the URL its placeholders stand for.
HTTPFetch ==
  Then(One(<<Bad, Look({Invalid}), Guard, Check({Invalid})>>),
       {<<Dial({Failed})>>, <<Act({Failed}, {Failed})>>})

\* The vault entry, then the sender's domain if the caller names one.
EmailSend ==
  One(<<Bad, Look({Invalid}), If(Look({Failed, Invalid})),
        Act({Failed}, {Failed})>>)

-----------------------------------------------------------------------------
(* artifact_*.go                                                           *)
ArtifactPut            == One(<<Check({Invalid, NoArtifact}), Store>>)
ArtifactGet            == One(<<Check({Invalid, NoArtifact}), Look({NoArtifact})>>)
ArtifactList           == One(<<Check({Invalid, NoArtifact}), Look({NoArtifact})>>)
\* A key that cannot be read is reported as missing, never as an error.
ArtifactVerifyManifest ==
  Then(One(<<Check({Invalid, NoArtifact})>>), Loop(One(<<Look({})>>)))

(* memory_store.go, memory_forget.go                                       *)
MemoryStore  == {<<Bad>>, <<Bad, Fact({Internal})>>}
MemoryForget ==
  {<<>>} \cup Then(One(<<Bad>>),
                   Loop(Then(One(<<Look({Internal})>>),
                             Maybe(Loop(One(<<Drop({Internal})>>))))))

(* python_run.go, node_run.go: the caller's program, whose exit code is    *)
(* not an error.                                                           *)
LangRun   == One(<<Check({Invalid, NoSession}), Act({Failed}, {Failed})>>)
PythonRun == LangRun
NodeRun   == LangRun

\* command_pack.go: a subprocess that may do anything before it fails.
CommandPack ==
  One(<<Check({Internal}), Act({Failed, Internal}, {Failed}),
        Check({BadOutput})>>)
=============================================================================
