----------------------------- MODULE AsyncJobs -----------------------------
(***************************************************************************)
(* Asynchronous pack calls (internal/mcp/jobs.go, webhook.go): the job     *)
(* registry, the goroutine that runs a pack and posts its outcome, the     *)
(* sweeper, and clients who poll with pack.status, tasks/get and           *)
(* pack.result over a connection that may break under any answer.          *)
(*                                                                         *)
(* A request looks its job up under the registry's lock and reads it under *)
(* the job's; in between, and before the answer arrives, others may move.  *)
(***************************************************************************)
EXTENDS Naturals

CONSTANTS
  Clients,     \* MCP clients, each with one request at a time
  Jobs,        \* the ids newJobID may draw
  TTL,         \* jobTTL, in clock ticks
  MaxAttempts, \* len(webhookRetryDelays)
  MaxRestarts, \* bound: how often the process restarts
  None         \* "no value"

ASSUME AsyncJobsAssumption ==
  /\ None \notin Jobs \cup Clients
  /\ TTL \in Nat /\ MaxAttempts \in Nat \ {0} /\ MaxRestarts \in Nat

VARIABLES
  state,    \* asyncJob.state; "none" before the job, "lost" after a restart
  outcome,  \* asyncJob.result and err: "none", "result" or "error"
  jobs,     \* the registry: the ids it holds
  owner,    \* who started the job
  caller,   \* the memory namespace the pack runs in, "unknown" without a caller
  age,      \* time since endedAt, up to TTL + 1
  hook,     \* the webhook: "off", "armed", "posting" or how it ended
  told,     \* the outcome in the payload, built once for all attempts
  attempts, \* POSTs sent
  received, \* the jobs of which the receiver has processed a POST
  call,     \* what each client's request is doing
  answered, \* history: the jobs whose result a pack.result carries or carried
  restarts

webhook == <<hook, told, attempts, received>>
job     == <<state, outcome, owner, caller>>
vars    == <<job, jobs, age, webhook, call, answered, restarts>>

-----------------------------------------------------------------------------
Answers == {"2xx", "redirected", "4xx", "none"}
Tools == {"pack.status", "tasks/get", "pack.result"}
Ended(j) == state[j] \in {"completed", "failed"}

\* saw and got: the state and the outcome the answer carries; late (history):
\* the receiver had heard of the job when the request read it.
Idle == [at |-> "idle", tool |-> None, id |-> None, saw |-> "none", got |-> "none",
         late |-> FALSE]

Init ==
  /\ state = [j \in Jobs |-> "none"] /\ outcome = [j \in Jobs |-> "none"]
  /\ jobs = {} /\ age = [j \in Jobs |-> 0]
  /\ owner = [j \in Jobs |-> None] /\ caller = [j \in Jobs |-> None]
  /\ hook = [j \in Jobs |-> "off"] /\ told = [j \in Jobs |-> "none"]
  /\ attempts = [j \in Jobs |-> 0] /\ received = {}
  /\ call = [c \in Clients |-> Idle]
  /\ answered = {} /\ restarts = 0

-----------------------------------------------------------------------------
(* startAsync *)

\* An Async pack called directly passes its caller on, pack.start does not.
StartAsync(c, j, url, subject) ==
  /\ state[j] = "none" /\ call[c] = Idle
  /\ subject \in {c, "unknown"}
  /\ state' = [state EXCEPT ![j] = "working"]
  /\ jobs' = jobs \cup {j}
  /\ owner' = [owner EXCEPT ![j] = c] /\ caller' = [caller EXCEPT ![j] = subject]
  /\ hook' = [hook EXCEPT ![j] = IF url THEN "armed" ELSE "off"]
  /\ UNCHANGED <<outcome, age, told, attempts, received, call, answered, restarts>>

\* Mutant: the state is published before the result.
ExecuteReturnsEarly(j, ok) ==
  /\ state[j] = "working"
  /\ state' = [state EXCEPT ![j] = IF ok THEN "completed" ELSE "failed"]
  /\ UNCHANGED <<outcome, owner, caller, jobs, age, webhook, call, answered, restarts>>

\* Execute returns: the outcome and the state are set under the job's lock.
ExecuteReturns(j, ok) ==
  /\ state[j] = "working"
  /\ state' = [state EXCEPT ![j] = IF ok THEN "completed" ELSE "failed"]
  /\ outcome' = [outcome EXCEPT ![j] = IF ok THEN "result" ELSE "error"]
  /\ UNCHANGED <<owner, caller, jobs, age, webhook, call, answered, restarts>>

-----------------------------------------------------------------------------
(* fireWebhook *)

\* Mutant: the webhook does not wait for the end.
BuildPayloadAtOnce(j) ==
  /\ hook[j] = "armed" /\ state[j] # "lost"
  /\ hook' = [hook EXCEPT ![j] = "posting"]
  /\ told' = [told EXCEPT ![j] = outcome[j]]
  /\ UNCHANGED <<job, jobs, age, attempts, received, call, answered, restarts>>

\* The goroutine goes on after the unlock and reads the job again.
BuildPayload(j) ==
  /\ hook[j] = "armed" /\ Ended(j)
  /\ hook' = [hook EXCEPT ![j] = "posting"]
  /\ told' = [told EXCEPT ![j] = outcome[j]]
  /\ UNCHANGED <<job, jobs, age, attempts, received, call, answered, restarts>>

\* A POST and what became of it: processed by the receiver or not, and answered
\* 2xx, 4xx, or with nothing the sender takes for an answer.  A 2xx may also be that
\* of a page the receiver redirects to, which http.Client fetches without the body.
Post(j, processed, answer) ==
  /\ hook[j] = "posting" /\ attempts[j] < MaxAttempts
  /\ answer = "2xx" => processed
  /\ attempts' = [attempts EXCEPT ![j] = @ + 1]
  /\ received' = IF processed THEN received \cup {j} ELSE received
  /\ hook' = [hook EXCEPT ![j] = IF answer \in {"2xx", "redirected"} THEN "delivered"
                                   ELSE IF answer = "4xx" THEN "refused" ELSE @]
  /\ UNCHANGED <<job, jobs, age, told, call, answered, restarts>>

\* A payload that does not marshal, a malformed URL: there is no request to send.
NoRequest(j) ==
  /\ hook[j] = "posting" /\ attempts[j] = 0
  /\ hook' = [hook EXCEPT ![j] = "refused"]
  /\ UNCHANGED <<job, jobs, age, told, attempts, received, call, answered, restarts>>

\* Mutant: one attempt too many is waited for.
GiveUpLate(j) ==
  /\ hook[j] = "posting" /\ attempts[j] > MaxAttempts
  /\ hook' = [hook EXCEPT ![j] = "dropped"]
  /\ UNCHANGED <<job, jobs, age, told, attempts, received, call, answered, restarts>>

GiveUp(j) ==
  /\ hook[j] = "posting" /\ attempts[j] = MaxAttempts
  /\ hook' = [hook EXCEPT ![j] = "dropped"]
  /\ UNCHANGED <<job, jobs, age, told, attempts, received, call, answered, restarts>>

-----------------------------------------------------------------------------
(* pack.status, tasks/get, pack.result *)

Ask(c, tool, j) ==
  /\ call[c] = Idle /\ state[j] # "none"
  /\ call' = [call EXCEPT ![c] = [Idle EXCEPT !.at = "lookup", !.tool = tool, !.id = j]]
  /\ UNCHANGED <<job, jobs, age, webhook, answered, restarts>>

\* Mutant: pack.result drops the job before it knows whether it has ended.
LookUpAndDrop(c) ==
  /\ call[c].at = "lookup"
  /\ call' = IF call[c].id \in jobs THEN [call EXCEPT ![c].at = "read"] ELSE [call EXCEPT ![c] = Idle]
  /\ jobs' = IF call[c].tool = "pack.result" THEN jobs \ {call[c].id} ELSE jobs
  /\ UNCHANGED <<job, age, webhook, answered, restarts>>

\* An unknown job is answered with an error, which tells the client nothing.
LookUp(c) ==
  /\ call[c].at = "lookup"
  /\ \/ call[c].id \in jobs /\ call' = [call EXCEPT ![c].at = "read"]
     \/ call[c].id \notin jobs /\ call' = [call EXCEPT ![c] = Idle]
  /\ UNCHANGED <<job, jobs, age, webhook, answered, restarts>>

\* The state and the outcome are copied under the job's lock.
ReadJob(c) ==
  /\ call[c].at = "read"
  /\ LET j == call[c].id IN
       call' = [call EXCEPT ![c].saw = state[j],
                            ![c].got = IF call[c].tool = "pack.status" THEN "none" ELSE outcome[j],
                            ![c].late = (j \in received),
                            ![c].at = IF call[c].tool = "pack.result" /\ state[j] = "completed"
                                        THEN "drop" ELSE "reply"]
  /\ UNCHANGED <<job, jobs, age, webhook, answered, restarts>>

\* pack.result of a completed job: it leaves the registry before the answer
\* leaves the process.
DropJob(c) ==
  /\ call[c].at = "drop"
  /\ jobs' = jobs \ {call[c].id}
  /\ answered' = answered \cup {call[c].id}
  /\ call' = [call EXCEPT ![c].at = "reply"]
  /\ UNCHANGED <<job, age, webhook, restarts>>

\* The answer arrives, or the connection is gone by then.
Reply(c) ==
  /\ call[c].at = "reply"
  /\ call' = [call EXCEPT ![c] = Idle]
  /\ UNCHANGED <<job, jobs, age, webhook, answered, restarts>>

-----------------------------------------------------------------------------
(* The sweeper, and a restart *)

Tick ==
  /\ \E j \in Jobs : Ended(j) /\ age[j] <= TTL
  /\ age' = [j \in Jobs |-> IF Ended(j) /\ age[j] <= TTL THEN age[j] + 1 ELSE age[j]]
  /\ UNCHANGED <<job, jobs, webhook, call, answered, restarts>>

Sweep ==
  /\ \E j \in jobs : Ended(j) /\ age[j] > TTL
  /\ jobs' = {j \in jobs : ~(Ended(j) /\ age[j] > TTL)}
  /\ UNCHANGED <<job, age, webhook, call, answered, restarts>>

\* Nothing of a job is on disk.
Restart ==
  /\ restarts < MaxRestarts
  /\ restarts' = restarts + 1
  /\ jobs' = {}
  /\ state' = [j \in Jobs |-> IF state[j] = "none" THEN "none" ELSE "lost"]
  /\ hook' = [j \in Jobs |-> IF hook[j] \in {"armed", "posting"} THEN "lost" ELSE hook[j]]
  /\ call' = [c \in Clients |-> Idle]
  /\ UNCHANGED <<outcome, owner, caller, age, told, attempts, received, answered>>

-----------------------------------------------------------------------------
FireWebhook(j) ==
  \/ BuildPayload(j) \/ NoRequest(j) \/ GiveUp(j)
  \/ \E processed \in BOOLEAN, answer \in Answers : Post(j, processed, answer)

Serve(c) == LookUp(c) \/ ReadJob(c) \/ DropJob(c) \/ Reply(c)

Next ==
  \/ \E c \in Clients, j \in Jobs :
       \/ \E url \in BOOLEAN, subject \in {c, "unknown"} : StartAsync(c, j, url, subject)
       \/ \E tool \in Tools : Ask(c, tool, j)
  \/ \E j \in Jobs : FireWebhook(j) \/ \E ok \in BOOLEAN : ExecuteReturns(j, ok)
  \/ \E c \in Clients : Serve(c)
  \/ Tick \/ Sweep \/ Restart

Spec == Init /\ [][Next]_vars

\* Time passes, and the goroutines of the process run.  A pack may never return.
FairSpec ==
  /\ Spec /\ WF_vars(Tick) /\ WF_vars(Sweep)
  /\ \A j \in Jobs : WF_vars(FireWebhook(j))
  /\ \A c \in Clients : WF_vars(Serve(c))

-----------------------------------------------------------------------------
(* Properties *)

\* Type correctness.
TypeOK ==
  /\ state \in [Jobs -> {"none", "working", "completed", "failed", "lost"}]
  /\ outcome \in [Jobs -> {"none", "result", "error"}]
  /\ jobs \subseteq Jobs /\ answered \subseteq Jobs
  /\ owner \in [Jobs -> Clients \cup {None}]
  /\ caller \in [Jobs -> Clients \cup {"unknown", None}]
  /\ age \in [Jobs -> 0..TTL + 1]
  /\ hook \in [Jobs -> {"off", "armed", "posting", "delivered", "refused", "dropped", "lost"}]
  /\ told \in [Jobs -> {"none", "result", "error"}]
  /\ attempts \in [Jobs -> 0..MaxAttempts] /\ received \subseteq Jobs
  /\ call \in [Clients -> [at : {"idle", "lookup", "read", "drop", "reply"},
                           tool : Tools \cup {None}, id : Jobs \cup {None},
                           saw : {"none", "working", "completed", "failed"},
                           got : {"none", "result", "error"}, late : BOOLEAN]]
  /\ restarts \in 0..MaxRestarts

\* Whatever a client is told of a job is true when it arrives: an end that is
\* reported is the job's end, with its outcome, and all clients are told the same.
AnswersAreWhole ==
  \A c \in Clients :
    LET j == call[c].id IN
    call[c].saw \in {"completed", "failed"} =>
      /\ call[c].saw = state[j]
      /\ call[c].tool # "pack.status" =>
           call[c].got = (IF state[j] = "completed" THEN "result" ELSE "error")

\* Until a restart, a job whose hour is not over can be asked for, unless it was
\* dropped by a pack.result that read its result: none is lost unread.
NoneLostUnread ==
  \A j \in Jobs :
    /\ state[j] = "working" \/ (Ended(j) /\ age[j] <= TTL)
    /\ j \notin jobs
    =>
      state[j] = "completed" /\ j \in answered

\* A webhook's receiver and the clients who poll agree, whatever attempts, polls and
\* restarts come between: what the receiver processed is the job's end, no poll
\* tells another outcome, and none that reads after the receiver heard of the end is
\* still told that the job works.
ReceiversHearTheSame ==
  \A j \in received :
    /\ told[j] = outcome[j] /\ outcome[j] # "none"
    /\ \A c \in Clients : call[c].id = j =>
         /\ call[c].got \in {"none", told[j]}
         /\ call[c].late => call[c].saw # "working"

\* Every delivery comes to an end.
WebhookSettles ==
  \A j \in Jobs :
    Ended(j) /\ hook[j] \in {"armed", "posting"}
      ~> hook[j] \in {"delivered", "refused", "dropped", "lost"}

-----------------------------------------------------------------------------
(* What the documentation says and the code does not do *)

\* "The job result is still available via tasks/get / pack.result for one hour".
KeptForAnHour == \A j \in Jobs : state[j] = "completed" /\ age[j] <= TTL => j \in jobs

\* "2xx response -> success": a redirect may be answered 2xx elsewhere.
DeliveredIsProcessed == \A j \in Jobs : hook[j] = "delivered" => j \in received

\* The job runs in the namespace of who started it.
SameNamespace == \A j \in Jobs : caller[j] = owner[j]
=============================================================================
