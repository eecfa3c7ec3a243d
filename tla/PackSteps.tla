----------------------------- MODULE PackSteps -----------------------------
(***************************************************************************)
(* The vocabulary the pack handlers of internal/packs are described in: a  *)
(* handler is the set of paths its control flow can take, a path the       *)
(* sequence of its steps, and a step the kind of thing it does together    *)
(* with the typed errors it can end the handler with.                      *)
(***************************************************************************)
EXTENDS Naturals, Sequences

(* errors.go: the closed set of codes.                                     *)
Invalid    == "invalid_input"
BadOutput  == "invalid_output"
Stale      == "schema_mismatch"
NoSession  == "session_unavailable"
Failed     == "handler_failed"
NoArtifact == "artifact_failed"
Timeout    == "timeout"
BadKey     == "credential_invalid"
Exhausted  == "resource_exhausted"
Internal   == "internal"
Codes == {Invalid, BadOutput, Stale, NoSession, Failed, NoArtifact, Timeout,
          BadKey, Exhausted, Internal}

\* What the engine buckets after the handler returned it: an untyped Go
\* error, and the bare error of a context that has ended.
Raw  == "raw"
Gone == "gone"
Untyped == {Raw, Gone}

\* What a step does:
\*   check  looks at the input or at what earlier steps returned
\*   guard  asks the egress guard about a host the caller named
\*   look   reads: the vault, an API, a file, an artifact
\*   dial   reads from a host the caller named
\*   wait   sleeps until a time or the end of the context
\*   work   changes files of the session
\*   store  stores an artifact
\*   recall looks for an entry of the pack's memory; a miss is no error
\*   note   writes an entry of the pack's memory under a key of its own
\*   fact   writes an entry under the key, and with the value, it was given
\*   drop   deletes audit rows of the caller
\*   exec   asks whether the engine gave the handler a session to work in
\*   pay    has a metered provider answer: a model, a voice, an image
\*   act    changes the outside world and cannot be repeated safely, or
\*          starts a program of the caller's choice, which may
\*   stop   ends the handler with an error
Kinds == {"check", "guard", "look", "dial", "wait", "work", "store", "recall",
          "note", "fact", "drop", "exec", "pay", "act", "stop"}
Causes == Codes \cup Untyped
Steps == [does : Kinds, before : SUBSET Causes, after : SUBSET Causes,
          opt : BOOLEAN]

\* before: errors when the step had no effect; after: errors once it had.
Step(does, before, after) ==
  [does |-> does, before |-> before, after |-> after, opt |-> FALSE]

Check(codes)       == Step("check", codes, {})
Guard              == Step("guard", {Invalid}, {})
Look(codes)        == Step("look", codes, {})
Dial(codes)        == Step("dial", codes, {})
\* A select of a timer and ctx.Done(): the end of the context is returned.
Wait               == Step("wait", {Gone}, {})
Recall             == Step("recall", {}, {})
NeedExec           == Step("exec", {NoSession}, {})
Work(codes)        == Step("work", codes, codes)
Store              == Step("store", {NoArtifact}, {NoArtifact})
TryStore           == Step("store", {}, {})
Note(codes)        == Step("note", codes, {})
Fact(codes)        == Step("fact", codes, {})
Drop(codes)        == Step("drop", codes, {})
Pay(codes)         == Step("pay", codes, codes)
Act(before, after) == Step("act", before, after)

Stop(codes)        == Step("stop", codes, {})
TryPay             == Step("pay", {}, {})

Bad == Check({Invalid})
\* dispatch_error.go: a model the gateway does not know is the caller's
\* mistake and answers nothing; anything else, an answer without choices
\* too, is the handler's failure.
Ask == Step("pay", {Invalid, Failed}, {Failed})
\* A model asked by the way: no answer is no error.
AskQuietly == TryPay
\* json_response.go: no answer, or none that parses, is the handler's failure.
DecodeStructuredResponse == Check({Failed})

\* Taken for some inputs only.
If(s) == [s EXCEPT !.opt = TRUE]

(* Sets of paths.                                                          *)
One(path)    == {path}
Then(A, B)   == {a \o b : a \in A, b \in B}
Maybe(A)     == A \cup {<<>>}
\* What a caller that swallows every error of a path may have done.
Swallow(path) ==
  {[i \in 1..n |-> [path[i] EXCEPT !.before = {}, !.after = {}]]
     : n \in 0..Len(path)}
\* A loop body, run at least once; two rounds stand for every later one.
Loop(A)      == A \cup Then(A, A)
=============================================================================
