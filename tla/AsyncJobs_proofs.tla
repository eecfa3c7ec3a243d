-------------------------- MODULE AsyncJobs_proofs --------------------------
(***************************************************************************)
(* Proofs about AsyncJobs and about McpTransport.  One lemma per conjunct  *)
(* of the inductive invariant, IInv or TransportInv, says that every step  *)
(* of the next-state relation preserves it, with one step per action.      *)
(* The last part is the refinement of Dialogue.                            *)
(***************************************************************************)
EXTENDS AsyncJobsInv, McpTransportInv, SequenceTheorems, FiniteSetTheorems, TLAPS

\* A request that moves on, its other fields as they are, keeps its type.
LEMMA MoveKeepsType ==
  ASSUME TypeOK, NEW c \in Clients, NEW place \in {"read", "reply"},
         call' = [call EXCEPT ![c].at = place], jobs' \subseteq Jobs, answered' \subseteq Jobs,
         UNCHANGED <<job, age, webhook, restarts>>
  PROVE  TypeOK'
<1>1. [call[c] EXCEPT !.at = place] \in
        [at : {"idle", "lookup", "read", "drop", "reply"}, tool : Tools \cup {None}, id : Jobs \cup {None},
         saw : {"none", "working", "completed", "failed"}, got : {"none", "result", "error"}, late : BOOLEAN]
  <2>1. call[c] \in [at : {"idle", "lookup", "read", "drop", "reply"}, tool : Tools \cup {None}, id : Jobs \cup {None},
                     saw : {"none", "working", "completed", "failed"}, got : {"none", "result", "error"}, late : BOOLEAN]
    BY Zenon DEF TypeOK
  <2>. QED  BY <2>1
<1>2. call' = [call EXCEPT ![c] = [call[c] EXCEPT !.at = place]]
  OBVIOUS
<1>. QED  BY <1>1, <1>2 DEF TypeOK, job, webhook

\* Type correctness: every assignment stays within its set.
LEMMA TypeOKStep == IInv /\ Next => TypeOK'
<1>. SUFFICES ASSUME IInv, Next PROVE TypeOK'  OBVIOUS
<1>. USE AsyncJobsAssumption DEF IInv, Idle, Ended, Tools, job, webhook, TypeOK
<1>1. ASSUME NEW c \in Clients, NEW j \in Jobs, NEW url \in BOOLEAN, NEW subject \in {c, "unknown"}, StartAsync(c, j, url, subject) PROVE TypeOK'
  BY <1>1 DEF StartAsync
<1>2. ASSUME NEW c \in Clients, NEW j \in Jobs, NEW tool \in Tools, Ask(c, tool, j) PROVE TypeOK'
  BY <1>2 DEF Ask
<1>3. ASSUME NEW j \in Jobs, NEW ok \in BOOLEAN, ExecuteReturns(j, ok) PROVE TypeOK'
  BY <1>3 DEF ExecuteReturns
<1>3a. ASSUME NEW j \in Jobs, BuildPayload(j) PROVE TypeOK'
  BY <1>3a DEF BuildPayload
<1>4. ASSUME NEW j \in Jobs, NoRequest(j) PROVE TypeOK'
  BY <1>4 DEF NoRequest
<1>5. ASSUME NEW j \in Jobs, GiveUp(j) PROVE TypeOK'
  BY <1>5 DEF GiveUp
<1>6. ASSUME NEW j \in Jobs, NEW processed \in BOOLEAN, NEW answer \in Answers, Post(j, processed, answer) PROVE TypeOK'
  BY <1>6 DEF Post, JobInv
<1>7. ASSUME NEW c \in Clients, LookUp(c) PROVE TypeOK'
  <2>1. CASE call' = [call EXCEPT ![c].at = "read"]
    BY <1>7, <2>1, MoveKeepsType, Zenon DEF LookUp
  <2>2. CASE call' = [call EXCEPT ![c] = Idle]
    BY <1>7, <2>2 DEF LookUp
  <2>. QED  BY <1>7, <2>1, <2>2 DEF LookUp
<1>8. ASSUME NEW c \in Clients, ReadJob(c) PROVE TypeOK'
  BY <1>8 DEF ReadJob
<1>9. ASSUME NEW c \in Clients, DropJob(c) PROVE TypeOK'
  <2>1. call[c].id \in Jobs
    BY <1>9 DEF DropJob, CallInv
  <2>2. jobs' \subseteq Jobs /\ answered' \subseteq Jobs
    BY <1>9, <2>1 DEF DropJob
  <2>3. call' = [call EXCEPT ![c].at = "reply"]
    BY <1>9 DEF DropJob
  <2>. QED  BY <1>9, <2>2, <2>3, MoveKeepsType, Zenon DEF DropJob
<1>10. ASSUME NEW c \in Clients, Reply(c) PROVE TypeOK'
  BY <1>10 DEF Reply
<1>11. CASE Tick
  BY <1>11 DEF Tick
<1>12. CASE Sweep
  BY <1>12 DEF Sweep
<1>13. CASE Restart
  BY <1>13 DEF Restart
<1>. QED  BY <1>1, <1>2, <1>3, <1>3a, <1>4, <1>5, <1>6, <1>7, <1>8, <1>9, <1>10, <1>11, <1>12, <1>13 DEF Next, FireWebhook, Serve

\* A job has the outcome and the deliveries its state allows.
LEMMA JobInvStep == IInv /\ Next => JobInv'
<1>. SUFFICES ASSUME IInv, Next PROVE JobInv'  OBVIOUS
<1>. USE AsyncJobsAssumption DEF IInv, Idle, Ended, Tools, job, webhook, TypeOK, JobInv
<1>1. ASSUME NEW c \in Clients, NEW j \in Jobs, NEW url \in BOOLEAN, NEW subject \in {c, "unknown"}, StartAsync(c, j, url, subject) PROVE JobInv'
  BY <1>1 DEF StartAsync
<1>2. ASSUME NEW c \in Clients, NEW j \in Jobs, NEW tool \in Tools, Ask(c, tool, j) PROVE JobInv'
  BY <1>2 DEF Ask
<1>3. ASSUME NEW j \in Jobs, NEW ok \in BOOLEAN, ExecuteReturns(j, ok) PROVE JobInv'
  BY <1>3 DEF ExecuteReturns
<1>3a. ASSUME NEW j \in Jobs, BuildPayload(j) PROVE JobInv'
  BY <1>3a DEF BuildPayload
<1>4. ASSUME NEW j \in Jobs, NoRequest(j) PROVE JobInv'
  BY <1>4 DEF NoRequest
<1>5. ASSUME NEW j \in Jobs, GiveUp(j) PROVE JobInv'
  BY <1>5 DEF GiveUp
<1>6. ASSUME NEW j \in Jobs, NEW processed \in BOOLEAN, NEW answer \in Answers, Post(j, processed, answer) PROVE JobInv'
  BY <1>6 DEF Post
<1>7. ASSUME NEW c \in Clients, LookUp(c) PROVE JobInv'
  BY <1>7 DEF LookUp
<1>8. ASSUME NEW c \in Clients, ReadJob(c) PROVE JobInv'
  BY <1>8 DEF ReadJob
<1>9. ASSUME NEW c \in Clients, DropJob(c) PROVE JobInv'
  BY <1>9 DEF DropJob
<1>10. ASSUME NEW c \in Clients, Reply(c) PROVE JobInv'
  BY <1>10 DEF Reply
<1>11. CASE Tick
  BY <1>11 DEF Tick
<1>12. CASE Sweep
  BY <1>12 DEF Sweep
<1>13. CASE Restart
  <2>1. \A j \in Jobs : state'[j] = IF state[j] = "none" THEN "none" ELSE "lost"
    BY <1>13 DEF Restart
  <2>2. \A j \in Jobs : hook'[j] = IF hook[j] \in {"armed", "posting"} THEN "lost" ELSE hook[j]
    BY <1>13 DEF Restart
  <2>3. jobs' = {} /\ UNCHANGED <<outcome, age, told, attempts, received>>
    BY <1>13 DEF Restart
  <2>. QED  BY <2>1, <2>2, <2>3
<1>. QED  BY <1>1, <1>2, <1>3, <1>3a, <1>4, <1>5, <1>6, <1>7, <1>8, <1>9, <1>10, <1>11, <1>12, <1>13 DEF Next, FireWebhook, Serve

\* A request stays with a job that was started.
LEMMA CallInvStep == IInv /\ Next => CallInv'
<1>. SUFFICES ASSUME IInv, Next PROVE CallInv'  OBVIOUS
<1>. USE AsyncJobsAssumption DEF IInv, Idle, Ended, Tools, job, webhook, TypeOK, JobInv, CallInv
<1>1. ASSUME NEW c \in Clients, NEW j \in Jobs, NEW url \in BOOLEAN, NEW subject \in {c, "unknown"}, StartAsync(c, j, url, subject) PROVE CallInv'
  BY <1>1 DEF StartAsync
<1>2. ASSUME NEW c \in Clients, NEW j \in Jobs, NEW tool \in Tools, Ask(c, tool, j) PROVE CallInv'
  BY <1>2 DEF Ask
<1>3. ASSUME NEW j \in Jobs, NEW ok \in BOOLEAN, ExecuteReturns(j, ok) PROVE CallInv'
  BY <1>3 DEF ExecuteReturns
<1>3a. ASSUME NEW j \in Jobs, BuildPayload(j) PROVE CallInv'
  BY <1>3a DEF BuildPayload
<1>4. ASSUME NEW j \in Jobs, NoRequest(j) PROVE CallInv'
  BY <1>4 DEF NoRequest
<1>5. ASSUME NEW j \in Jobs, GiveUp(j) PROVE CallInv'
  BY <1>5 DEF GiveUp
<1>6. ASSUME NEW j \in Jobs, NEW processed \in BOOLEAN, NEW answer \in Answers, Post(j, processed, answer) PROVE CallInv'
  BY <1>6 DEF Post
<1>7. ASSUME NEW c \in Clients, LookUp(c) PROVE CallInv'
  <2>1. CASE call[c].id \in jobs /\ call' = [call EXCEPT ![c].at = "read"]
    <3>1. call[c].id \in Jobs /\ state[call[c].id] \in {"working", "completed", "failed"}
      BY <1>7, <2>1 DEF LookUp
    <3>. QED  BY <1>7, <2>1, <3>1 DEF LookUp
  <2>2. CASE call[c].id \notin jobs /\ call' = [call EXCEPT ![c] = Idle]
    BY <1>7, <2>2 DEF LookUp
  <2>. QED  BY <1>7, <2>1, <2>2 DEF LookUp
<1>8. ASSUME NEW c \in Clients, ReadJob(c) PROVE CallInv'
  <2>. DEFINE j == call[c].id
  <2>1. j \in Jobs /\ state[j] \notin {"none", "lost"}
    BY <1>8 DEF ReadJob
  <2>2. /\ call'[c].id = j /\ call'[c].at \in {"drop", "reply"} /\ call'[c].saw = state[j]
        /\ call'[c].got \in {"none", outcome[j]} /\ (call'[c].at = "drop" => state[j] = "completed")
    BY <1>8 DEF ReadJob
  <2>3. call'[c].late = (j \in received)
    BY <1>8 DEF ReadJob
  <2>4. \A d \in Clients : d # c => call'[d] = call[d]
    BY <1>8 DEF ReadJob
  <2>5. UNCHANGED <<state, outcome, received>>
    BY <1>8 DEF ReadJob
  <2>6. j \in received => state[j] # "working"
    BY <2>1
  <2>. HIDE DEF j
  <2>. DEFINE Sound(d) ==
         /\ call[d].at # "idle" => call[d].id \in Jobs /\ state[call[d].id] # "none"
         /\ call[d].at \in {"idle", "lookup", "read"} => call[d].saw = "none" /\ ~call[d].late
         /\ call[d].got # "none" => call[d].id \in Jobs /\ call[d].got = outcome[call[d].id]
         /\ call[d].late => call[d].id \in received /\ call[d].saw # "working"
         /\ call[d].at = "read" => state[call[d].id] # "lost"
         /\ call[d].at = "drop" => call[d].saw = "completed"
  <2>7. Sound(c)'
    BY <2>1, <2>2, <2>3, <2>5, <2>6
  <2>8. \A d \in Clients : d # c => Sound(d)'
    BY <2>4, <2>5
  <2>. QED  BY <2>7, <2>8
<1>9. ASSUME NEW c \in Clients, DropJob(c) PROVE CallInv'
  BY <1>9 DEF DropJob
<1>10. ASSUME NEW c \in Clients, Reply(c) PROVE CallInv'
  BY <1>10 DEF Reply
<1>11. CASE Tick
  BY <1>11 DEF Tick
<1>12. CASE Sweep
  BY <1>12 DEF Sweep
<1>13. CASE Restart
  <2>1. call' = [c \in Clients |-> Idle]
    BY <1>13 DEF Restart
  <2>2. \A c \in Clients : /\ call'[c].at = "idle" /\ call'[c].saw = "none"
                           /\ call'[c].got = "none" /\ ~call'[c].late
    BY <2>1
  <2>. QED  BY <2>2
<1>. QED  BY <1>1, <1>2, <1>3, <1>3a, <1>4, <1>5, <1>6, <1>7, <1>8, <1>9, <1>10, <1>11, <1>12, <1>13 DEF Next, FireWebhook, Serve

\* Once a job has ended its state and outcome are final until a restart, which
\* ends every request.
LEMMA AnswersAreWholeStep == IInv /\ Next => AnswersAreWhole'
<1>. SUFFICES ASSUME IInv, Next PROVE AnswersAreWhole'  OBVIOUS
<1>. USE AsyncJobsAssumption DEF IInv, Idle, Ended, Tools, job, webhook, TypeOK, JobInv, CallInv, AnswersAreWhole
<1>1. ASSUME NEW c \in Clients, NEW j \in Jobs, NEW url \in BOOLEAN, NEW subject \in {c, "unknown"}, StartAsync(c, j, url, subject) PROVE AnswersAreWhole'
  BY <1>1 DEF StartAsync
<1>2. ASSUME NEW c \in Clients, NEW j \in Jobs, NEW tool \in Tools, Ask(c, tool, j) PROVE AnswersAreWhole'
  BY <1>2 DEF Ask
<1>3. ASSUME NEW j \in Jobs, NEW ok \in BOOLEAN, ExecuteReturns(j, ok) PROVE AnswersAreWhole'
  BY <1>3 DEF ExecuteReturns
<1>3a. ASSUME NEW j \in Jobs, BuildPayload(j) PROVE AnswersAreWhole'
  BY <1>3a DEF BuildPayload
<1>4. ASSUME NEW j \in Jobs, NoRequest(j) PROVE AnswersAreWhole'
  BY <1>4 DEF NoRequest
<1>5. ASSUME NEW j \in Jobs, GiveUp(j) PROVE AnswersAreWhole'
  BY <1>5 DEF GiveUp
<1>6. ASSUME NEW j \in Jobs, NEW processed \in BOOLEAN, NEW answer \in Answers, Post(j, processed, answer) PROVE AnswersAreWhole'
  BY <1>6 DEF Post
<1>7. ASSUME NEW c \in Clients, LookUp(c) PROVE AnswersAreWhole'
  <2>1. CASE call[c].id \in jobs /\ call' = [call EXCEPT ![c].at = "read"]
    BY <1>7, <2>1 DEF LookUp
  <2>2. CASE call[c].id \notin jobs /\ call' = [call EXCEPT ![c] = Idle]
    BY <1>7, <2>2 DEF LookUp
  <2>. QED  BY <1>7, <2>1, <2>2 DEF LookUp
<1>8. ASSUME NEW c \in Clients, ReadJob(c) PROVE AnswersAreWhole'
  BY <1>8, SMTT(30) DEF ReadJob
<1>9. ASSUME NEW c \in Clients, DropJob(c) PROVE AnswersAreWhole'
  BY <1>9 DEF DropJob
<1>10. ASSUME NEW c \in Clients, Reply(c) PROVE AnswersAreWhole'
  BY <1>10 DEF Reply
<1>11. CASE Tick
  BY <1>11 DEF Tick
<1>12. CASE Sweep
  BY <1>12 DEF Sweep
<1>13. CASE Restart
  BY <1>13 DEF Restart
<1>. QED  BY <1>1, <1>2, <1>3, <1>3a, <1>4, <1>5, <1>6, <1>7, <1>8, <1>9, <1>10, <1>11, <1>12, <1>13 DEF Next, FireWebhook, Serve

\* Only a sweep past the hour and a read result take a job from the registry.
LEMMA NoneLostUnreadStep == IInv /\ Next => NoneLostUnread'
<1>. SUFFICES ASSUME IInv, Next PROVE NoneLostUnread'  OBVIOUS
<1>. USE AsyncJobsAssumption DEF IInv, Idle, Ended, Tools, job, webhook, TypeOK, JobInv, CallInv, AnswersAreWhole, NoneLostUnread
<1>1. ASSUME NEW c \in Clients, NEW j \in Jobs, NEW url \in BOOLEAN, NEW subject \in {c, "unknown"}, StartAsync(c, j, url, subject) PROVE NoneLostUnread'
  BY <1>1 DEF StartAsync
<1>2. ASSUME NEW c \in Clients, NEW j \in Jobs, NEW tool \in Tools, Ask(c, tool, j) PROVE NoneLostUnread'
  BY <1>2 DEF Ask
<1>3. ASSUME NEW j \in Jobs, NEW ok \in BOOLEAN, ExecuteReturns(j, ok) PROVE NoneLostUnread'
  BY <1>3 DEF ExecuteReturns
<1>3a. ASSUME NEW j \in Jobs, BuildPayload(j) PROVE NoneLostUnread'
  BY <1>3a DEF BuildPayload
<1>4. ASSUME NEW j \in Jobs, NoRequest(j) PROVE NoneLostUnread'
  BY <1>4 DEF NoRequest
<1>5. ASSUME NEW j \in Jobs, GiveUp(j) PROVE NoneLostUnread'
  BY <1>5 DEF GiveUp
<1>6. ASSUME NEW j \in Jobs, NEW processed \in BOOLEAN, NEW answer \in Answers, Post(j, processed, answer) PROVE NoneLostUnread'
  BY <1>6 DEF Post
<1>7. ASSUME NEW c \in Clients, LookUp(c) PROVE NoneLostUnread'
  BY <1>7 DEF LookUp
<1>8. ASSUME NEW c \in Clients, ReadJob(c) PROVE NoneLostUnread'
  BY <1>8 DEF ReadJob
<1>9. ASSUME NEW c \in Clients, DropJob(c) PROVE NoneLostUnread'
  BY <1>9 DEF DropJob
<1>10. ASSUME NEW c \in Clients, Reply(c) PROVE NoneLostUnread'
  BY <1>10 DEF Reply
<1>11. CASE Tick
  BY <1>11 DEF Tick
<1>12. CASE Sweep
  BY <1>12 DEF Sweep
<1>13. CASE Restart
  BY <1>13 DEF Restart
<1>. QED  BY <1>1, <1>2, <1>3, <1>3a, <1>4, <1>5, <1>6, <1>7, <1>8, <1>9, <1>10, <1>11, <1>12, <1>13 DEF Next, FireWebhook, Serve

\* The payload is built after the end of the job, which nothing changes.
LEMMA ReceiversHearTheSameHolds == IInv => ReceiversHearTheSame
<1>. SUFFICES ASSUME IInv, NEW j \in received PROVE
       /\ told[j] = outcome[j] /\ outcome[j] # "none"
       /\ \A c \in Clients : call[c].id = j =>
            /\ call[c].got \in {"none", told[j]}
            /\ call[c].late => call[c].saw # "working"
  BY DEF ReceiversHearTheSame
<1>1. j \in Jobs
  BY DEF IInv, TypeOK
<1>2. told[j] = outcome[j] /\ outcome[j] # "none"
  BY <1>1 DEF IInv, JobInv
<1>. QED  BY <1>2 DEF IInv, CallInv

\* IInv is inductive.
LEMMA Inductive == Spec => []IInv
<1>1. Init => IInv
  BY AsyncJobsAssumption DEF Init, IInv, Idle, Ended, Tools, TypeOK, JobInv, CallInv, AnswersAreWhole, NoneLostUnread
<1>2. IInv /\ [Next]_vars => IInv'
  <2>. SUFFICES ASSUME IInv, [Next]_vars PROVE IInv'  OBVIOUS
  <2>1. CASE Next
    BY <2>1, TypeOKStep, JobInvStep, CallInvStep, AnswersAreWholeStep, NoneLostUnreadStep DEF IInv
  <2>2. CASE UNCHANGED vars
    BY <2>2 DEF vars, job, webhook, IInv, Ended, Tools, TypeOK, JobInv, CallInv, AnswersAreWhole, NoneLostUnread
  <2>. QED  BY <2>1, <2>2
<1>. QED  BY <1>1, <1>2, PTL DEF Spec

-----------------------------------------------------------------------------
\* The registry, its jobs, the deliveries and the requests are of their types.
THEOREM TypeCorrect == Spec => []TypeOK
<1>. IInv => TypeOK  BY DEF IInv
<1>. QED  BY Inductive, PTL

\* No poll of pack.status, tasks/get or pack.result reports half of an ending: who
\* is told of one is told the state and the outcome the job ended with.
THEOREM AnswersAgree == Spec => []AnswersAreWhole
<1>. IInv => AnswersAreWhole  BY DEF IInv
<1>. QED  BY Inductive, PTL

\* Within its hour a job stays in the registry until a pack.result read its result.
THEOREM ResultsAreKept == Spec => []NoneLostUnread
<1>. IInv => NoneLostUnread  BY DEF IInv
<1>. QED  BY Inductive, PTL

\* What a webhook's receiver processed is the end of the job, no poll tells another,
\* and none that reads later is told that the job still works.
THEOREM DeliveriesAreTrue == Spec => []ReceiversHearTheSame
BY ReceiversHearTheSameHolds, Inductive, PTL

-----------------------------------------------------------------------------
(* Frames in order *)

\* Answers are counted one by one.
LEMMA AnsweredIs ==
  ASSUME NEW frames, NEW n \in Nat
  PROVE  /\ Answered(frames, n) \in Nat /\ Answered(frames, 0) = 0
         /\ Answered(frames, n + 1) =
              Answered(frames, n) + (IF frames[n + 1].kind = "answer" THEN 1 ELSE 0)
         /\ \A i \in 0..n : Answered(frames, i) <= Answered(frames, n)
<1>. DEFINE Upto(m) == {i \in 1..m : frames[i].kind = "answer"}
<1>1. \A m \in Nat : IsFiniteSet(Upto(m)) /\ Cardinality(Upto(m)) \in Nat
  <2>1. \A m \in Nat : IsFiniteSet(1..m) /\ Upto(m) \subseteq 1..m
    BY FS_Interval
  <2>2. \A m \in Nat : IsFiniteSet(Upto(m))
    <3>. HIDE DEF Upto
    <3>. QED  BY <2>1, FS_Subset
  <2>. HIDE DEF Upto
  <2>. QED  BY <2>2, FS_CardinalityType
<1>2. Upto(0) = {}
  OBVIOUS
<1>3. Upto(n + 1) = IF frames[n + 1].kind = "answer" THEN Upto(n) \cup {n + 1} ELSE Upto(n)
  <2>1. 1..(n + 1) = (1..n) \cup {n + 1}
    OBVIOUS
  <2>. QED  BY <2>1
<1>4. n + 1 \notin Upto(n)
  OBVIOUS
<1>5. \A i \in 0..n : i \in Nat /\ Upto(i) \subseteq Upto(n)
  OBVIOUS
<1>6. \A m : Answered(frames, m) = Cardinality(Upto(m))
  BY DEF Answered
<1>. HIDE DEF Upto
<1>7. Cardinality(Upto(n + 1)) = Cardinality(Upto(n)) + (IF frames[n + 1].kind = "answer" THEN 1 ELSE 0)
  BY <1>1, <1>3, <1>4, FS_AddElement
<1>8. \A i \in 0..n : Cardinality(Upto(i)) <= Cardinality(Upto(n))
  BY <1>1, <1>5, FS_Subset
<1>9. Cardinality(Upto(0)) = 0
  BY <1>2, FS_EmptySet
<1>. QED  BY <1>1, <1>6, <1>7, <1>8, <1>9

\* Of frames that begin alike as many are answers.
LEMMA AnsweredAlike ==
  ASSUME NEW f, NEW g, NEW n \in Nat, \A i \in 1..n : f[i] = g[i]
  PROVE  \A i \in 0..n : Answered(f, i) = Answered(g, i)
<1>1. \A i \in 0..n : {j \in 1..i : f[j].kind = "answer"} = {j \in 1..i : g[j].kind = "answer"}
  <2>1. ASSUME NEW i \in 0..n, NEW j \in 1..i PROVE f[j] = g[j]
    OBVIOUS
  <2>. QED  BY <2>1
<1>. QED  BY <1>1, Zenon DEF Answered

\* What begins frames that are in order is in order, and stays so when another
\* line is taken.
LEMMA PrefixInOrder ==
  ASSUME NEW f \in Seq(Frames), NEW g \in Seq(Frames), NEW lines, InOrder(f \o g, lines)
  PROVE  InOrder(f, lines)
<1>. DEFINE h == f \o g
<1>1. /\ Len(f) \in Nat /\ DOMAIN f = 1..Len(f) /\ DOMAIN f \subseteq DOMAIN h
      /\ \A i \in DOMAIN f : h[i] = f[i]
  BY ConcatProperties
<1>. HIDE DEF h
<1>2. \A i \in DOMAIN f : Answered(f, i) = Answered(h, i)
  <2>1. \A i \in 1..Len(f) : f[i] = h[i]
    BY <1>1
  <2>2. \A i \in 0..Len(f) : Answered(f, i) = Answered(h, i)
    BY <1>1, <2>1, AnsweredAlike
  <2>. QED  BY <1>1, <2>2
<1>3. InOrder(h, lines)
  BY DEF h
<1>4. ASSUME NEW i \in DOMAIN f, f[i].kind = "answer"
      PROVE  Answered(f, i) <= Len(lines) /\ f[i].of = lines[Answered(f, i)]
  <2>1. i \in DOMAIN h /\ h[i] = f[i]
    BY <1>1
  <2>. QED  BY <1>2, <1>3, <1>4, <2>1 DEF InOrder
<1>5. ASSUME NEW i \in DOMAIN f, NEW j \in DOMAIN f, i < j
      PROVE  /\ f[i].of # f[j].of => \E n \in i..j-1 : f[n] = AnswerTo(f[i].of)
             /\ f[i].kind = "answer" => f[i].of # f[j].of
  <2>1. \A n \in i..j-1 : h[n] = f[n]
    BY <1>1
  <2>2. i \in DOMAIN h /\ j \in DOMAIN h /\ h[i] = f[i] /\ h[j] = f[j]
    BY <1>1
  <2>3. /\ h[i].of # h[j].of => \E n \in i..j-1 : h[n] = AnswerTo(h[i].of)
        /\ h[i].kind = "answer" => h[i].of # h[j].of
    BY <1>3, <1>5, <2>2 DEF InOrder
  <2>. QED  BY <2>1, <2>2, <2>3
<1>. QED  BY <1>4, <1>5 DEF InOrder

\* A line that is taken leaves what was heard in order.
LEMMA OrderStays ==
  ASSUME NEW f \in Seq(Frames), NEW lines \in Seq(Asks), NEW a \in Asks, InOrder(f, lines)
  PROVE  InOrder(f, Append(lines, a))
<1>1. /\ Len(lines) \in Nat /\ Len(Append(lines, a)) = Len(lines) + 1
      /\ \A n \in 1..Len(lines) : Append(lines, a)[n] = lines[n]
  OBVIOUS
<1>2. ASSUME NEW i \in DOMAIN f, f[i].kind = "answer"
      PROVE  Answered(f, i) <= Len(lines) + 1 /\ f[i].of = Append(lines, a)[Answered(f, i)]
  <2>1. Answered(f, i) <= Len(lines) /\ f[i].of = lines[Answered(f, i)]
    BY <1>2 DEF InOrder
  <2>2. i - 1 \in Nat /\ i = (i - 1) + 1
    OBVIOUS
  <2>3. Answered(f, i) = Answered(f, i - 1) + 1 /\ Answered(f, i - 1) \in Nat
    BY <1>2, <2>2, AnsweredIs
  <2>. QED  BY <1>1, <2>1, <2>3
<1>. QED  BY <1>1, <1>2 DEF InOrder

\* A frame of the line taken last comes next: all lines before it have been
\* answered, and it has not.
LEMMA NextInOrder ==
  ASSUME NEW f \in Seq(Frames), NEW lines \in Seq(Asks), lines # <<>>, InOrder(f, lines),
         \A m, n \in DOMAIN lines : lines[m] = lines[n] => m = n,
         Len(lines) = Answered(f, Len(f)) + 1,
         NEW e \in Frames, e.of = lines[Len(lines)],
         \A i \in DOMAIN f : f[i].of # e.of => \E n \in i..Len(f) : f[n] = AnswerTo(f[i].of)
  PROVE  /\ InOrder(Append(f, e), lines)
         /\ Answered(Append(f, e), Len(Append(f, e))) =
              Answered(f, Len(f)) + (IF e.kind = "answer" THEN 1 ELSE 0)
         /\ \A i \in DOMAIN Append(f, e) : Append(f, e)[i].of # e.of =>
              \E n \in i..Len(Append(f, e)) : Append(f, e)[n] = AnswerTo(Append(f, e)[i].of)
<1>. DEFINE g == Append(f, e)
            last == Len(f)
<1>1. /\ last \in Nat /\ DOMAIN f = 1..last /\ Len(g) = last + 1 /\ DOMAIN g = 1..last + 1
      /\ \A i \in 1..last : g[i] = f[i]
      /\ g[last + 1] = e
  OBVIOUS
<1>. HIDE DEF g, last
<1>2. \A i \in 0..last : Answered(g, i) = Answered(f, i) /\ Answered(f, i) <= Answered(f, last)
  <2>1. last \in Nat /\ \A i \in 1..last : g[i] = f[i]
    BY <1>1
  <2>2. \A i \in 0..last : Answered(g, i) = Answered(f, i)
    BY <2>1, AnsweredAlike, ZenonT(30)
  <2>3. \A i \in 0..last : Answered(f, i) <= Answered(f, last)
    BY <1>1, AnsweredIs
  <2>. QED  BY <2>2, <2>3
<1>3. /\ Answered(g, last + 1) = Answered(f, last) + (IF e.kind = "answer" THEN 1 ELSE 0)
      /\ Answered(f, last) \in Nat
  <2>1. Answered(g, last + 1) = Answered(g, last) + (IF g[last + 1].kind = "answer" THEN 1 ELSE 0)
    BY <1>1, AnsweredIs
  <2>2. Answered(g, last) = Answered(f, last)
    BY <1>1, <1>2
  <2>3. Answered(f, last) \in Nat
    BY <1>1, AnsweredIs
  <2>. QED  BY <1>1, <2>1, <2>2, <2>3
<1>4. Len(lines) = Answered(f, last) + 1
  BY DEF last
<1>5. ASSUME NEW i \in DOMAIN f, f[i].kind = "answer"
      PROVE  f[i].of # e.of
  <2>1. Answered(f, i) <= Len(lines) /\ f[i].of = lines[Answered(f, i)]
    BY <1>5 DEF InOrder
  <2>2. i \in 1..last /\ i - 1 \in Nat /\ i = (i - 1) + 1
    BY <1>1
  <2>3. Answered(f, i) = Answered(f, i - 1) + 1 /\ Answered(f, i - 1) \in Nat
    <3>1. /\ Answered(f, i - 1) \in Nat
          /\ Answered(f, (i - 1) + 1) = Answered(f, i - 1) + (IF f[(i - 1) + 1].kind = "answer" THEN 1 ELSE 0)
      BY <2>2, AnsweredIs, Zenon
    <3>2. Answered(f, (i - 1) + 1) = Answered(f, i) /\ f[(i - 1) + 1] = f[i]
      BY <2>2, Zenon
    <3>. QED  BY <1>5, <3>1, <3>2, Zenon
  <2>4. Answered(f, i) <= Answered(f, last)
    BY <1>2, <2>2
  <2>5. Answered(f, i) \in DOMAIN lines /\ Answered(f, i) # Len(lines) /\ Len(lines) \in DOMAIN lines
    BY <1>3, <1>4, <2>3, <2>4
  <2>. QED  BY <2>1, <2>5
<1>6. ASSUME NEW i \in DOMAIN g, g[i].kind = "answer"
      PROVE  Answered(g, i) <= Len(lines) /\ g[i].of = lines[Answered(g, i)]
  <2>1. CASE i \in 1..last
    <3>1. i \in DOMAIN f /\ g[i] = f[i] /\ Answered(g, i) = Answered(f, i)
      BY <1>1, <1>2, <2>1
    <3>. QED  BY <1>6, <3>1 DEF InOrder
  <2>2. CASE i = last + 1
    <3>1. g[i] = e /\ Answered(g, i) = Answered(f, last) + 1
      BY <1>1, <1>3, <1>6, <2>2
    <3>. QED  BY <1>3, <1>4, <3>1
  <2>. QED  BY <1>1, <2>1, <2>2
<1>7. ASSUME NEW i \in DOMAIN g, NEW j \in DOMAIN g, i < j
      PROVE  /\ g[i].of # g[j].of => \E n \in i..j-1 : g[n] = AnswerTo(g[i].of)
             /\ g[i].kind = "answer" => g[i].of # g[j].of
  <2>1. i \in DOMAIN f /\ i \in 1..last /\ g[i] = f[i]
    BY <1>1, <1>7
  <2>2. CASE j \in 1..last
    <3>1. j \in DOMAIN f /\ g[j] = f[j] /\ \A n \in i..j-1 : g[n] = f[n]
      BY <1>1, <2>2
    <3>2. /\ f[i].of # f[j].of => \E n \in i..j-1 : f[n] = AnswerTo(f[i].of)
          /\ f[i].kind = "answer" => f[i].of # f[j].of
      BY <1>7, <2>1, <3>1 DEF InOrder
    <3>. QED  BY <2>1, <3>1, <3>2
  <2>3. CASE j = last + 1
    <3>1. g[j] = e /\ j - 1 = last /\ \A n \in i..j-1 : g[n] = f[n]
      BY <1>1, <2>1, <2>3
    <3>2. f[i].of # e.of => \E n \in i..last : f[n] = AnswerTo(f[i].of)
      BY <2>1 DEF last
    <3>. QED  BY <1>5, <2>1, <3>1, <3>2
  <2>. QED  BY <1>1, <2>2, <2>3
<1>8. ASSUME NEW i \in DOMAIN g, g[i].of # e.of
      PROVE  \E n \in i..Len(g) : g[n] = AnswerTo(g[i].of)
  <2>1. i \in 1..last /\ g[i] = f[i]
    BY <1>1, <1>8
  <2>2. \E n \in i..last : f[n] = AnswerTo(f[i].of)
    BY <1>1, <1>8, <2>1 DEF last
  <2>. QED  BY <1>1, <2>1, <2>2
<1>9. InOrder(g, lines)
  BY <1>6, <1>7 DEF InOrder
<1>. QED  BY <1>1, <1>3, <1>8, <1>9 DEF g, last

-----------------------------------------------------------------------------
(* The connection *)

\* A connection begins with TransportInv.
LEMMA TransportInitInv == TransportInit => TransportInv
<1>. SUFFICES ASSUME TransportInit PROVE TransportInv  OBVIOUS
<1>1. /\ peer = "new" /\ out = <<>> /\ heard = <<>> /\ taken = <<>> /\ wire \in {"sse", "socket"}
      /\ line = [a \in Asks |-> [kind |-> "note", at |-> "unsent"]]
      /\ server = [Scanning EXCEPT !.at = "none"]
  BY DEF TransportInit
<1>2. server.at = "none" /\ server.of = Scanning.of /\ server.left = 0
  BY <1>1 DEF Scanning
<1>3. server \in [at : {"none", "scan", "work", "report", "write", "over"},
                  of : Asks \cup {Scanning.of}, left : Nat]
  BY <1>1 DEF Scanning
<1>4. TransportTypeOK
  <2>1. line \in [Asks -> [kind : Kinds, at : {"unsent", "waits", "taken", "refused"}]]
    BY <1>1 DEF Kinds
  <2>2. <<>> \in Seq(Frames) /\ <<>> \in Seq(Asks)
    OBVIOUS
  <2>. QED  BY <1>1, <1>2, <1>3, <2>1, <2>2 DEF TransportTypeOK
<1>5. TakenInv /\ QuietInv
  BY <1>1, <1>2 DEF TakenInv, QuietInv, Busy
<1>6. StreamInv
  BY <1>1 DEF StreamInv, Stream, InOrder
<1>. QED  BY <1>4, <1>5, <1>6 DEF TransportInv

\* Every assignment of the connection stays within its set.
LEMMA TransportTypeStep == TransportInv /\ TransportNext => TransportTypeOK'
<1>. SUFFICES ASSUME TransportInv, TransportNext PROVE TransportTypeOK'  OBVIOUS
<1>. DEFINE Lines == [kind : Kinds, at : {"unsent", "waits", "taken", "refused"}]
            Servers == [at : {"none", "scan", "work", "report", "write", "over"},
                        of : Asks \cup {Scanning.of}, left : Nat]
<1>1. /\ wire \in {"sse", "socket"} /\ peer \in {"new", "here", "gone", "closed"}
      /\ line \in [Asks -> Lines] /\ server \in Servers /\ (server.at = "report" => server.left > 0)
      /\ out \in Seq(Frames) /\ heard \in Seq(Frames) /\ taken \in Seq(Asks)
      /\ (Busy => taken # <<>> /\ server.of = taken[Len(taken)])
  BY DEF TransportInv, TransportTypeOK, TakenInv
<1>. SUFFICES /\ wire' \in {"sse", "socket"} /\ peer' \in {"new", "here", "gone", "closed"}
              /\ line' \in [Asks -> Lines] /\ server' \in Servers /\ (server'.at = "report" => server'.left > 0)
              /\ out' \in Seq(Frames) /\ heard' \in Seq(Frames) /\ taken' \in Seq(Asks)
  BY DEF TransportTypeOK
<1>2. MaxProgress \in Nat
  BY McpTransportAssumption
<1>3. Busy => server.of \in Asks
  BY <1>1
<1>4. \A a \in Asks, place \in {"waits", "taken", "refused"} :
        Settle(a, place) => line' \in [Asks -> Lines]
  <2>. SUFFICES ASSUME NEW a \in Asks, NEW place \in {"waits", "taken", "refused"}, Settle(a, place)
                PROVE  line' \in [Asks -> Lines]
    OBVIOUS
  <2>. QED  BY <1>1 DEF Settle
<1>5. \A place \in {"scan", "work", "write", "over"} : To(place) => server' \in Servers /\ server'.at = place
  <2>1. ASSUME NEW place \in {"scan", "work", "write", "over"}
        PROVE  [server EXCEPT !.at = place] \in Servers /\ [server EXCEPT !.at = place].at = place
    BY <1>1
  <2>. QED  BY <2>1 DEF To
<1>6. Scanning \in Servers /\ Scanning.at = "scan"
  BY DEF Scanning
<1>. HIDE DEF Lines, Servers
<1>7. CASE OpenStream
  BY <1>1, <1>6, <1>7 DEF OpenStream
<1>8. CASE OpenSocket
  BY <1>1, <1>6, <1>8 DEF OpenSocket
<1>9. ASSUME NEW a \in Asks, NEW kind \in Kinds, PostLine(a, kind) \/ SendLine(a, kind)
      PROVE  /\ line' \in [Asks -> Lines]
             /\ UNCHANGED <<wire, peer, server, out, heard, taken>>
  <2>1. \A place \in {"waits", "refused"} : [kind |-> kind, at |-> place] \in Lines
    BY DEF Lines
  <2>2. \E place \in {"waits", "refused"} : line' = [line EXCEPT ![a] = [kind |-> kind, at |-> place]]
    BY <1>9 DEF PostLine, SendLine
  <2>3. line' \in [Asks -> Lines]
    BY <1>1, <2>1, <2>2
  <2>. QED  BY <1>9, <2>3 DEF PostLine, SendLine
<1>10. ASSUME NEW a \in Asks, Take(a)
       PROVE  /\ line' \in [Asks -> Lines] /\ server' \in Servers
              /\ (server'.at = "report" => server'.left > 0)
              /\ taken' \in Seq(Asks) /\ UNCHANGED <<wire, peer, out, heard>>
  <2>1. line' \in [Asks -> Lines]
    BY <1>1, <1>4, <1>10 DEF Take
  <2>2. CASE To("over") /\ UNCHANGED taken
    BY <1>1, <1>5, <1>10, <2>1, <2>2 DEF Take
  <2>3. CASE UNCHANGED <<server, taken>>
    BY <1>1, <1>10, <2>1, <2>3 DEF Take
  <2>4. CASE /\ server' = [at |-> IF line[a].kind = "call" THEN "work" ELSE "write", of |-> a, left |-> MaxProgress]
             /\ taken' = Append(taken, a)
    <3>1. server' \in Servers /\ server'.at # "report"
      BY <1>2, <2>4 DEF Servers
    <3>2. taken' \in Seq(Asks)
      BY <1>1, <2>4
    <3>. QED  BY <1>10, <2>1, <3>1, <3>2 DEF Take
  <2>. QED  BY <1>10, <2>2, <2>3, <2>4 DEF Take
<1>11. CASE EndOfInput
  BY <1>1, <1>5, <1>11 DEF EndOfInput
<1>12. CASE StartReport
  <2>1. [server EXCEPT !.at = "report"] \in Servers /\ [server EXCEPT !.at = "report"].left = server.left
    BY <1>1 DEF Servers
  <2>. QED  BY <1>1, <1>12, <2>1 DEF StartReport, To
<1>13. ASSUME NEW f \in Frames, Write(f) PROVE out' \in Seq(Frames) /\ heard' \in Seq(Frames)
  <2>1. Append(out, f) \in Seq(Frames) /\ Append(heard, f) \in Seq(Frames)
    BY <1>1
  <2>. QED  BY <1>1, <1>13, <2>1 DEF Write, ToChannel, ToSocket
<1>14. CASE Report
  <2>1. [of |-> server.of, kind |-> "progress"] \in Frames
    BY <1>3, <1>14 DEF Report, Busy, Frames
  <2>2. server.left - 1 \in Nat
    BY <1>1, <1>14 DEF Report, Servers
  <2>3. [server EXCEPT !.at = "work", !.left = @ - 1] \in Servers
        /\ [server EXCEPT !.at = "work", !.left = @ - 1].at = "work"
    BY <1>1, <2>2 DEF Servers
  <2>4. out' \in Seq(Frames) /\ heard' \in Seq(Frames)
    BY <1>13, <1>14, <2>1 DEF Report
  <2>. QED  BY <1>1, <1>14, <2>3, <2>4 DEF Report
<1>15. CASE PackReturns
  BY <1>1, <1>5, <1>15 DEF PackReturns
<1>16. CASE Answer
  <2>1. [of |-> server.of, kind |-> "answer"] \in Frames
    BY <1>3, <1>16 DEF Answer, Busy, Frames
  <2>2. out' \in Seq(Frames) /\ heard' \in Seq(Frames)
    BY <1>1, <1>13, <1>16, <2>1 DEF Answer
  <2>3. server' \in Servers /\ server'.at # "report"
    BY <1>5, <1>16 DEF Answer
  <2>. QED  BY <1>1, <1>16, <2>2, <2>3 DEF Answer
<1>17. CASE Deliver
  <2>0. out # <<>> /\ Head(out) \in Frames /\ Tail(out) \in Seq(Frames)
    BY <1>1, <1>17, HeadTailProperties DEF Deliver
  <2>1. out' = Tail(out) /\ (heard' = heard \/ heard' = Append(heard, Head(out)))
    BY <1>17 DEF Deliver
  <2>2. Append(heard, Head(out)) \in Seq(Frames)
    BY <1>1, <2>0
  <2>3. out' \in Seq(Frames) /\ heard' \in Seq(Frames)
    BY <1>1, <2>0, <2>1, <2>2
  <2>. QED  BY <1>1, <1>17, <2>3 DEF Deliver
<1>18. ASSUME NEW a \in Asks, RefusePost(a) PROVE line' \in [Asks -> Lines] /\ UNCHANGED <<wire, peer, server, out, heard, taken>>
  BY <1>4, <1>18 DEF RefusePost
<1>19. CASE LoopEnds \/ ClosePipe \/ DropSession \/ ReaderEnds \/ HangUp \/ NoticeGone \/ PeerLeaves
  BY <1>1, <1>19 DEF LoopEnds, ClosePipe, DropSession, ReaderEnds, HangUp, NoticeGone, PeerLeaves
<1>20. CASE StdinEnds \/ ConnectionBreaks \/ NextLine
  BY <1>1, <1>20 DEF StdinEnds, ConnectionBreaks, Disconnect, NextLine
<1>21. CASE \E a \in Asks : Take(a) \/ RefusePost(a)
  BY <1>1, <1>10, <1>18, <1>21
<1>22. CASE \E a \in Asks, kind \in Kinds : PostLine(a, kind) \/ SendLine(a, kind)
  BY <1>1, <1>9, <1>22
<1>. QED  BY <1>7, <1>8, <1>11, <1>12, <1>14, <1>15, <1>16, <1>17, <1>19, <1>20, <1>21, <1>22
          DEF TransportNext, ServeStep, PumpStep

\* Serve takes a line that waits, so none a second time, and is busy with it alone.
LEMMA TakenStep == TransportInv /\ TransportNext => TakenInv'
<1>. SUFFICES ASSUME TransportInv, TransportNext PROVE TakenInv'  OBVIOUS
<1>1. /\ taken \in Seq(Asks) /\ \A i \in DOMAIN taken : line[taken[i]].at = "taken" /\ taken[i] \in Asks
      /\ \A i, j \in DOMAIN taken : taken[i] = taken[j] => i = j
      /\ Busy => taken # <<>> /\ server.of = taken[Len(taken)]
      /\ line \in [Asks -> [kind : Kinds, at : {"unsent", "waits", "taken", "refused"}]]
      /\ server \in [at : {"none", "scan", "work", "report", "write", "over"},
                     of : Asks \cup {Scanning.of}, left : Nat]
  BY DEF TransportInv, TransportTypeOK, TakenInv
<1>2. ASSUME taken' = taken, Busy' => Busy, Busy' => server'.of = server.of,
             \A a \in Asks : line[a].at = "taken" => line'[a].at = "taken"
      PROVE  TakenInv'
  BY <1>1, <1>2 DEF TakenInv
<1>3. ASSUME UNCHANGED <<taken, line>>, UNCHANGED server PROVE TakenInv'
  BY <1>2, <1>3 DEF Busy
<1>4. CASE OpenStream \/ OpenSocket
  BY <1>2, <1>4 DEF OpenStream, OpenSocket, Busy, Scanning
<1>5. ASSUME NEW a \in Asks, NEW kind \in Kinds, PostLine(a, kind) \/ SendLine(a, kind) PROVE TakenInv'
  <2>1. /\ line[a].at = "unsent" /\ UNCHANGED <<taken, server>>
        /\ \E place \in {"waits", "refused"} : line' = [line EXCEPT ![a] = [kind |-> kind, at |-> place]]
    BY <1>5 DEF PostLine, SendLine
  <2>2. \A b \in Asks : line[b].at = "taken" => line'[b].at = "taken"
    BY <1>1, <2>1
  <2>. QED  BY <1>2, <2>1, <2>2 DEF Busy
<1>6. ASSUME NEW a \in Asks, RefusePost(a) PROVE TakenInv'
  <2>1. /\ line[a].at = "waits" /\ UNCHANGED <<taken, server>>
        /\ line' = [line EXCEPT ![a].at = "refused"]
    BY <1>6 DEF RefusePost, Settle
  <2>2. \A b \in Asks : line[b].at = "taken" => line'[b].at = "taken"
    BY <1>1, <2>1
  <2>. QED  BY <1>2, <2>1, <2>2 DEF Busy
<1>7. ASSUME NEW a \in Asks, Take(a) PROVE TakenInv'
  <2>1. server.at = "scan" /\ ~Busy /\ line[a].at = "waits"
        /\ (line' = [line EXCEPT ![a].at = "taken"] \/ (line[a].kind = "long" /\ line' = line))
    BY <1>7 DEF Take, Busy, Settle
  <2>2. \A b \in Asks : line[b].at = "taken" => line'[b].at = "taken"
    BY <1>1, <2>1
  <2>3. CASE To("over") /\ UNCHANGED taken
    <3>1. ~Busy'
      BY <1>1, <2>3 DEF To, Busy
    <3>. QED  BY <1>2, <2>2, <2>3, <3>1
  <2>4. CASE UNCHANGED <<server, taken>>
    BY <1>2, <2>2, <2>4 DEF Busy
  <2>5. CASE /\ line[a].kind \in Wanting /\ taken' = Append(taken, a)
             /\ server' = [at |-> IF line[a].kind = "call" THEN "work" ELSE "write", of |-> a, left |-> MaxProgress]
    <3>1. line'[a].at = "taken"
      BY <1>1, <2>1, <2>5 DEF Wanting
    <3>2. /\ DOMAIN taken = 1..Len(taken) /\ Len(taken) \in Nat /\ Len(taken') = Len(taken) + 1
          /\ DOMAIN taken' = 1..(Len(taken) + 1)
          /\ \A i \in 1..Len(taken) : taken'[i] = taken[i]
          /\ taken'[Len(taken) + 1] = a
      BY <1>1, <2>5
    <3>3. \A i \in DOMAIN taken : taken[i] # a
      BY <1>1, <2>1
    <3>4. \A i \in DOMAIN taken' : line'[taken'[i]].at = "taken"
      BY <1>1, <2>2, <3>1, <3>2
    <3>5. \A i, j \in DOMAIN taken' : taken'[i] = taken'[j] => i = j
      BY <1>1, <3>2, <3>3
    <3>6. taken' # <<>> /\ server'.of = taken'[Len(taken')]
      BY <2>5, <3>2
    <3>. QED  BY <3>4, <3>5, <3>6 DEF TakenInv
  <2>. QED  BY <1>7, <2>3, <2>4, <2>5 DEF Take
<1>8. CASE EndOfInput
  <2>1. ~Busy'
    BY <1>1, <1>8 DEF EndOfInput, To, Busy
  <2>. QED  BY <1>2, <1>8, <2>1 DEF EndOfInput
<1>9. CASE StartReport \/ PackReturns
  <2>1. Busy /\ server'.of = server.of /\ UNCHANGED <<taken, line>>
    BY <1>1, <1>9 DEF StartReport, PackReturns, To, Busy
  <2>. QED  BY <1>2, <2>1
<1>10. CASE Report
  <2>1. Busy /\ server'.of = server.of /\ UNCHANGED <<taken, line>>
    BY <1>1, <1>10 DEF Report, Busy
  <2>. QED  BY <1>2, <2>1
<1>11. CASE Answer
  <2>1. Busy /\ server'.of = server.of /\ UNCHANGED <<taken, line>>
    BY <1>1, <1>11 DEF Answer, To, Busy
  <2>. QED  BY <1>2, <2>1
<1>12. CASE Deliver \/ LoopEnds \/ ClosePipe \/ DropSession \/ ReaderEnds \/ HangUp \/ NoticeGone \/ PeerLeaves
  BY <1>3, <1>12 DEF Deliver, LoopEnds, ClosePipe, DropSession, ReaderEnds, HangUp, NoticeGone, PeerLeaves
<1>13. CASE StdinEnds \/ ConnectionBreaks \/ NextLine
  BY <1>3, <1>13 DEF StdinEnds, ConnectionBreaks, Disconnect, NextLine
<1>14. CASE \E a \in Asks : Take(a) \/ RefusePost(a)
  BY <1>6, <1>7, <1>14
<1>15. CASE \E a \in Asks, kind \in Kinds : PostLine(a, kind) \/ SendLine(a, kind)
  BY <1>5, <1>15
<1>. QED  BY <1>4, <1>8, <1>9, <1>10, <1>11, <1>12, <1>13, <1>14, <1>15 DEF TransportNext, ServeStep, PumpStep

\* Nothing is written before the connection opens, and to a socket nothing by way
\* of the channel.
LEMMA QuietStep == TransportInv /\ TransportNext => QuietInv'
<1>. SUFFICES ASSUME TransportInv, TransportNext PROVE QuietInv'  OBVIOUS
<1>1. /\ peer = "new" => server.at = "none" /\ taken = <<>> /\ heard = <<>> /\ out = <<>>
      /\ wire = "socket" => out = <<>>
  BY DEF TransportInv, QuietInv
<1>2. wire' = wire
  BY DEF TransportNext, ServeStep, PumpStep, OpenStream, OpenSocket, PostLine, SendLine, Take, EndOfInput, StartReport,
         Report, PackReturns, Answer, Deliver, NoticeGone, LoopEnds, ClosePipe, DropSession, RefusePost, PeerLeaves,
         StdinEnds, ConnectionBreaks, Disconnect, ReaderEnds, HangUp, NextLine
<1>3. peer' = "new" => peer = "new"
  BY DEF TransportNext, ServeStep, PumpStep, OpenStream, OpenSocket, PostLine, SendLine, Take, EndOfInput, StartReport,
         Report, PackReturns, Answer, Deliver, NoticeGone, LoopEnds, ClosePipe, DropSession, RefusePost, PeerLeaves,
         StdinEnds, ConnectionBreaks, Disconnect, ReaderEnds, HangUp, NextLine
<1>4. wire = "socket" => out' = out
  BY DEF TransportNext, ServeStep, PumpStep, OpenStream, OpenSocket, PostLine, SendLine, Take, EndOfInput, StartReport,
         Report, PackReturns, Answer, Deliver, NoticeGone, LoopEnds, ClosePipe, DropSession, RefusePost, PeerLeaves,
         StdinEnds, ConnectionBreaks, Disconnect, ReaderEnds, HangUp, NextLine, Write, ToSocket
<1>5. peer' = "new" /\ server.at = "none" => UNCHANGED <<server, taken, heard>> /\ (out = <<>> => out' = out)
  BY DEF TransportNext, ServeStep, PumpStep, OpenStream, OpenSocket, PostLine, SendLine, Take, EndOfInput, StartReport,
         Report, PackReturns, Answer, Deliver, NoticeGone, LoopEnds, ClosePipe, DropSession, RefusePost, PeerLeaves,
         StdinEnds, ConnectionBreaks, Disconnect, ReaderEnds, HangUp, NextLine
<1>. QED  BY <1>1, <1>2, <1>3, <1>4, <1>5 DEF QuietInv

\* A frame that is delivered goes from the channel to the peer.
LEMMA Delivered ==
  ASSUME NEW f \in Seq(Frames), NEW g \in Seq(Frames), g # <<>>
  PROVE  Append(f, Head(g)) \o Tail(g) = f \o g
<1>1. Head(g) \in Frames /\ Tail(g) \in Seq(Frames) /\ g = <<Head(g)>> \o Tail(g)
  OBVIOUS
<1>2. <<Head(g)>> \in Seq(Frames) /\ Append(f, Head(g)) = f \o <<Head(g)>>
  BY <1>1, AppendIsConcat
<1>3. (f \o <<Head(g)>>) \o Tail(g) = f \o (<<Head(g)>> \o Tail(g))
  BY <1>1, <1>2, ConcatAssociative
<1>. QED  BY <1>1, <1>2, <1>3

\* A frame that is written comes last.
LEMMA Written ==
  ASSUME NEW f \in Seq(Frames), NEW g \in Seq(Frames), NEW e \in Frames
  PROVE  f \o Append(g, e) = Append(f \o g, e)
<1>1. <<e>> \in Seq(Frames) /\ Append(g, e) = g \o <<e>>
  BY AppendIsConcat
<1>2. f \o g \in Seq(Frames) /\ Append(f \o g, e) = (f \o g) \o <<e>>
  BY ConcatProperties, AppendIsConcat
<1>. QED  BY <1>1, <1>2, ConcatAssociative

\* What a peer that is there hears is in order, taken for itself.
LEMMA HeardInOrder == TransportTypeOK /\ StreamInv => InOrder(heard, taken)
<1>1. CASE peer = "here"
  BY <1>1, PrefixInOrder DEF TransportTypeOK, StreamInv, Stream
<1>2. CASE peer # "here"
  BY <1>2 DEF StreamInv, Stream
<1>. QED  BY <1>1, <1>2

\* A step that neither takes a line nor writes, of a peer that stays or leaves.
LEMMA StillStep ==
  ASSUME TransportTypeOK, StreamInv, UNCHANGED <<heard, out, taken>>, Busy' = Busy,
         Busy => server'.of = server.of, peer' = peer \/ peer' # "here"
  PROVE  StreamInv'
<1>1. CASE peer' = "here"
  <2>1. peer = "here" /\ Stream = heard \o out /\ Stream' = heard \o out
    BY <1>1 DEF Stream
  <2>2. InOrder(heard \o out, taken)
        /\ Len(taken) = Answered(heard \o out, Len(heard \o out)) + (IF Busy THEN 1 ELSE 0)
    BY <2>1 DEF StreamInv
  <2>3. \A i \in DOMAIN (heard \o out) :
          (Busy => (heard \o out)[i].of # server.of) =>
             \E n \in i..Len(heard \o out) : (heard \o out)[n] = AnswerTo((heard \o out)[i].of)
    BY <2>1 DEF StreamInv, AllAnswered
  <2>4. AllAnswered(Stream)'
    BY <2>1, <2>3 DEF AllAnswered, AnswerTo
  <2>. QED  BY <2>1, <2>2, <2>4 DEF StreamInv
<1>2. CASE peer' # "here"
  <2>1. InOrder(heard, taken)
    BY HeardInOrder
  <2>. QED  BY <1>2, <2>1 DEF StreamInv, Stream
<1>. QED  BY <1>1, <1>2

\* Serve writes a frame of the line it is busy with.
LEMMA WriteStep ==
  ASSUME TransportInv, Busy, NEW e \in Frames, e.of = server.of, Write(e),
         UNCHANGED <<peer, taken, wire>>, server'.of = server.of, Busy' = (e.kind # "answer"),
         e.kind = "answer" => e = AnswerTo(server.of)
  PROVE  StreamInv'
<1>1. /\ heard \in Seq(Frames) /\ out \in Seq(Frames) /\ taken \in Seq(Asks)
      /\ wire \in {"sse", "socket"} /\ (wire = "socket" => out = <<>>)
      /\ taken # <<>> /\ server.of = taken[Len(taken)]
      /\ \A m, n \in DOMAIN taken : taken[m] = taken[n] => m = n
  BY DEF TransportInv, TransportTypeOK, QuietInv, TakenInv
<1>2. CASE peer = "here"
  <2>. DEFINE f == heard \o out
  <2>1. f \in Seq(Frames) /\ Len(f) \in Nat /\ DOMAIN f = 1..Len(f)
    BY <1>1, ConcatProperties
  <2>2. Stream = f
    BY <1>2 DEF Stream
  <2>3. Stream' = Append(f, e)
    <3>1. CASE wire = "sse"
      <4>1. out' = Append(out, e) /\ heard' = heard
        BY <3>1 DEF Write, ToChannel
      <4>. QED  BY <1>1, <1>2, <4>1, Written DEF Stream
    <3>2. CASE wire = "socket"
      <4>1. heard' = Append(heard, e) /\ out' = <<>> /\ out = <<>>
        BY <1>1, <1>2, <3>2 DEF Write, ToSocket
      <4>2. Append(heard, e) \in Seq(Frames)
        BY <1>1
      <4>3. heard \o <<>> = heard /\ Append(heard, e) \o <<>> = Append(heard, e)
        BY <1>1, <4>2, ConcatEmptySeq
      <4>. QED  BY <1>2, <4>1, <4>3 DEF Stream
    <3>. QED  BY <1>1, <3>1, <3>2
  <2>4. InOrder(f, taken) /\ Len(taken) = Answered(f, Len(f)) + 1
    BY <1>2, <2>2 DEF StreamInv, TransportInv
  <2>5. \A i \in DOMAIN f : f[i].of # e.of => \E n \in i..Len(f) : f[n] = AnswerTo(f[i].of)
    BY <1>2, <2>2 DEF StreamInv, TransportInv, AllAnswered
  <2>. DEFINE g == Append(f, e)
  <2>6. /\ InOrder(g, taken)
        /\ Answered(g, Len(g)) = Answered(f, Len(f)) + (IF e.kind = "answer" THEN 1 ELSE 0)
        /\ \A i \in DOMAIN g : g[i].of # e.of => \E n \in i..Len(g) : g[n] = AnswerTo(g[i].of)
    <3>1. e.of = taken[Len(taken)]
      BY <1>1
    <3>. HIDE DEF f
    <3>2. /\ f \in Seq(Frames) /\ taken \in Seq(Asks) /\ taken # <<>> /\ InOrder(f, taken)
          /\ \A m, n \in DOMAIN taken : taken[m] = taken[n] => m = n
          /\ Len(taken) = Answered(f, Len(f)) + 1
          /\ \A i \in DOMAIN f : f[i].of # e.of => \E n \in i..Len(f) : f[n] = AnswerTo(f[i].of)
      BY <1>1, <2>1, <2>4, <2>5
    <3>. QED  BY <3>1, <3>2, NextInOrder, Zenon
  <2>7. Len(g) \in Nat /\ DOMAIN g = 1..Len(g) /\ g[Len(g)] = e /\ Answered(f, Len(f)) \in Nat
    <3>1. Len(g) \in Nat /\ DOMAIN g = 1..Len(g) /\ g[Len(g)] = e
      <4>. HIDE DEF f
      <4>. QED  BY <2>1
    <3>2. Answered(f, Len(f)) \in Nat
      BY <2>1, AnsweredIs
    <3>. QED  BY <3>1, <3>2
  <2>. HIDE DEF f, g
  <2>8. Stream' = g
    BY <2>3 DEF g
  <2>9. Len(taken) = Answered(g, Len(g)) + (IF e.kind # "answer" THEN 1 ELSE 0)
    BY <2>4, <2>6, <2>7
  <2>10. ASSUME NEW i \in DOMAIN g, e.kind # "answer" => g[i].of # server.of
         PROVE  \E n \in i..Len(g) : g[n] = AnswerTo(g[i].of)
    <3>1. CASE g[i].of # e.of
      BY <2>6, <3>1
    <3>2. CASE g[i].of = e.of
      <4>1. e = AnswerTo(g[i].of)
        BY <2>10, <3>2
      <4>2. Len(g) \in i..Len(g)
        BY <2>7
      <4>. QED  BY <2>7, <4>1, <4>2
    <3>. QED  BY <3>1, <3>2
  <2>11. AllAnswered(Stream)'
    BY <2>8, <2>10 DEF AllAnswered, AnswerTo
  <2>. QED  BY <2>6, <2>8, <2>9, <2>11 DEF StreamInv
<1>3. CASE peer # "here"
  <2>1. heard' = heard
    BY <1>1, <1>3 DEF Write, ToChannel, ToSocket
  <2>. QED  BY <1>3, <2>1 DEF TransportInv, StreamInv, Stream
<1>. QED  BY <1>2, <1>3

\* Serve takes the next line: all lines before it have been answered.
LEMMA TakeStep ==
  ASSUME TransportInv, NEW a \in Asks, ~Busy, Busy', server'.of = a,
         taken' = Append(taken, a), UNCHANGED <<peer, heard, out>>
  PROVE  StreamInv'
<1>1. /\ heard \in Seq(Frames) /\ out \in Seq(Frames) /\ taken \in Seq(Asks)
      /\ Stream \in Seq(Frames) /\ Stream' = Stream
  <2>1. heard \in Seq(Frames) /\ out \in Seq(Frames) /\ taken \in Seq(Asks)
    BY DEF TransportInv, TransportTypeOK
  <2>2. heard \o out \in Seq(Frames)
    BY <2>1, ConcatProperties
  <2>. QED  BY <2>1, <2>2 DEF Stream
<1>2. InOrder(Stream, taken)
  BY DEF TransportInv, StreamInv
<1>3. InOrder(Stream, Append(taken, a))
  <2>. HIDE DEF Stream
  <2>. QED  BY <1>1, <1>2, OrderStays
<1>4. InOrder(Stream, taken)'
  BY <1>1, <1>3
<1>5. ASSUME peer = "here"
      PROVE  /\ Len(taken') = Answered(Stream, Len(Stream)) + 1
             /\ AllAnswered(Stream)'
  <2>1. Len(taken) = Answered(Stream, Len(Stream)) + 0 /\ AllAnswered(Stream)
    BY <1>5 DEF TransportInv, StreamInv
  <2>2. Answered(Stream, Len(Stream)) \in Nat
    <3>1. Len(Stream) \in Nat
      BY <1>1
    <3>. QED  BY <3>1, AnsweredIs
  <2>3. Len(taken') = Len(taken) + 1 /\ Len(taken) \in Nat
    BY <1>1
  <2>4. \A i \in DOMAIN Stream : \E n \in i..Len(Stream) : Stream[n] = AnswerTo(Stream[i].of)
    BY <2>1 DEF AllAnswered
  <2>5. AllAnswered(Stream)'
    BY <1>1, <2>4 DEF AllAnswered, AnswerTo
  <2>. QED  BY <2>1, <2>2, <2>3, <2>5
<1>. QED  BY <1>1, <1>4, <1>5 DEF StreamInv

\* The connection opens with nothing on its way.
LEMMA OpenStep ==
  ASSUME TransportInv, peer = "new", ~Busy', UNCHANGED <<heard, out, taken>>
  PROVE  StreamInv'
<1>1. heard = <<>> /\ out = <<>> /\ taken = <<>>
  BY DEF TransportInv, QuietInv
<1>2. Stream' = <<>> /\ taken' = <<>> /\ Len(<<>>) = 0 /\ DOMAIN <<>> = {}
  BY <1>1 DEF Stream
<1>3. Answered(<<>>, 0) = 0
  BY AnsweredIs
<1>4. InOrder(<<>>, <<>>)
  BY <1>2 DEF InOrder
<1>5. AllAnswered(Stream)'
  BY <1>2 DEF AllAnswered
<1>. QED  BY <1>2, <1>3, <1>4, <1>5 DEF StreamInv

\* What a peer hears or will hear stays in order, whichever step is taken.
LEMMA StreamStep == TransportInv /\ TransportNext => StreamInv'
<1>. SUFFICES ASSUME TransportInv, TransportNext PROVE StreamInv'  OBVIOUS
<1>1. /\ TransportTypeOK /\ StreamInv /\ (Busy => taken # <<>> /\ server.of = taken[Len(taken)])
      /\ taken \in Seq(Asks)
      /\ server \in [at : {"none", "scan", "work", "report", "write", "over"},
                     of : Asks \cup {Scanning.of}, left : Nat]
  BY DEF TransportInv, TransportTypeOK, TakenInv
<1>2. Busy => server.of \in Asks
  BY <1>1
<1>3. ASSUME UNCHANGED <<heard, out, taken, server>>, peer' = peer \/ peer' # "here" PROVE StreamInv'
  <2>1. Busy' = Busy /\ server'.of = server.of
    BY <1>3 DEF Busy
  <2>. QED  BY <1>1, <1>3, <2>1, StillStep
<1>4. CASE OpenStream \/ OpenSocket
  <2>1. peer = "new" /\ server' = Scanning /\ UNCHANGED <<heard, out, taken>>
    BY <1>4 DEF OpenStream, OpenSocket
  <2>2. ~Busy'
    BY <2>1 DEF Busy, Scanning
  <2>. QED  BY <2>1, <2>2, OpenStep
<1>5. ASSUME NEW a \in Asks, NEW kind \in Kinds, PostLine(a, kind) \/ SendLine(a, kind) PROVE StreamInv'
  BY <1>3, <1>5 DEF PostLine, SendLine
<1>6. ASSUME NEW a \in Asks, RefusePost(a) PROVE StreamInv'
  BY <1>3, <1>6 DEF RefusePost
<1>7. ASSUME NEW a \in Asks, Take(a) PROVE StreamInv'
  <2>1. ~Busy /\ UNCHANGED <<peer, heard, out>>
    BY <1>7 DEF Take, Busy
  <2>2. CASE To("over") /\ UNCHANGED taken
    <3>1. ~Busy'
      BY <1>1, <2>2 DEF To, Busy
    <3>2. Busy' = Busy
      BY <2>1, <3>1 DEF Busy
    <3>. QED  BY <1>1, <2>1, <2>2, <3>2, StillStep
  <2>3. CASE UNCHANGED <<server, taken>>
    BY <1>3, <2>1, <2>3
  <2>4. CASE /\ taken' = Append(taken, a)
             /\ server' = [at |-> IF line[a].kind = "call" THEN "work" ELSE "write", of |-> a, left |-> MaxProgress]
    <3>1. Busy' /\ server'.of = a
      BY <2>4 DEF Busy
    <3>. QED  BY <2>1, <2>4, <3>1, TakeStep
  <2>. QED  BY <1>7, <2>2, <2>3, <2>4 DEF Take
<1>8. CASE EndOfInput
  <2>1. ~Busy /\ ~Busy' /\ UNCHANGED <<peer, heard, out, taken>>
    BY <1>1, <1>8 DEF EndOfInput, To, Busy
  <2>2. Busy' = Busy
    BY <2>1 DEF Busy
  <2>. QED  BY <1>1, <2>1, <2>2, StillStep
<1>9. CASE StartReport \/ PackReturns
  <2>1. Busy /\ Busy' /\ server'.of = server.of /\ UNCHANGED <<peer, heard, out, taken>>
    BY <1>1, <1>9 DEF StartReport, PackReturns, To, Busy
  <2>. QED  BY <1>1, <2>1, StillStep
<1>10. CASE Report
  <2>. DEFINE e == [of |-> server.of, kind |-> "progress"]
  <2>1. Busy /\ Write(e) /\ UNCHANGED <<peer, taken, wire>>
    BY <1>10 DEF Report, Busy
  <2>2. e \in Frames /\ e.of = server.of /\ e.kind # "answer"
    BY <1>2, <2>1 DEF Frames
  <2>3. Busy' /\ server'.of = server.of
    BY <1>1, <1>10 DEF Report, Busy
  <2>. HIDE DEF e
  <2>. QED  BY <2>1, <2>2, <2>3, WriteStep
<1>11. CASE Answer
  <2>0. Busy /\ UNCHANGED <<peer, taken, wire>>
    BY <1>11 DEF Answer, Busy
  <2>1. ASSUME Write(AnswerTo(server.of)), To("scan") PROVE StreamInv'
    <3>1. AnswerTo(server.of) \in Frames /\ AnswerTo(server.of).of = server.of
          /\ AnswerTo(server.of).kind = "answer"
      BY <1>2, <2>0 DEF Frames, AnswerTo
    <3>2. ~Busy' /\ server'.of = server.of
      BY <1>1, <2>1 DEF To, Busy
    <3>3. Busy' = (AnswerTo(server.of).kind # "answer")
      BY <3>1, <3>2 DEF Busy
    <3>. QED  BY <2>0, <2>1, <3>1, <3>2, <3>3, WriteStep
  <2>2. ASSUME peer # "here", UNCHANGED <<out, heard>> PROVE StreamInv'
    BY <1>1, <2>0, <2>2 DEF StreamInv, Stream
  <2>. QED  BY <1>11, <2>1, <2>2 DEF Answer, AnswerTo
<1>12. CASE Deliver
  <2>0. /\ heard \in Seq(Frames) /\ out \in Seq(Frames) /\ out # <<>>
        /\ out' = Tail(out) /\ UNCHANGED <<peer, server, taken>>
        /\ (peer = "here" => heard' = Append(heard, Head(out))) /\ (peer # "here" => heard' = heard)
    BY <1>1, <1>12 DEF Deliver, TransportTypeOK
  <2>1. Stream' = Stream
    BY <2>0, Delivered DEF Stream
  <2>2. Busy' = Busy
    BY <2>0 DEF Busy
  <2>3. AllAnswered(Stream) => AllAnswered(Stream)'
    BY <2>0, <2>1, <2>2 DEF AllAnswered, AnswerTo
  <2>. QED  BY <1>1, <2>0, <2>1, <2>2, <2>3 DEF StreamInv
<1>13. CASE LoopEnds \/ ClosePipe \/ DropSession \/ ReaderEnds \/ HangUp \/ NoticeGone \/ PeerLeaves
  BY <1>3, <1>13 DEF LoopEnds, ClosePipe, DropSession, ReaderEnds, HangUp, NoticeGone, PeerLeaves
<1>14. CASE StdinEnds \/ ConnectionBreaks \/ NextLine
  BY <1>3, <1>14 DEF StdinEnds, ConnectionBreaks, Disconnect, NextLine
<1>15. CASE \E a \in Asks : Take(a) \/ RefusePost(a)
  BY <1>6, <1>7, <1>15
<1>16. CASE \E a \in Asks, kind \in Kinds : PostLine(a, kind) \/ SendLine(a, kind)
  BY <1>5, <1>16
<1>. QED  BY <1>4, <1>8, <1>9, <1>10, <1>11, <1>12, <1>13, <1>14, <1>15, <1>16
          DEF TransportNext, ServeStep, PumpStep

\* TransportInv is inductive.
THEOREM TransportKeepsInv == TransportSpec => []TransportInv
<1>1. TransportInv /\ [TransportNext]_transportVars => TransportInv'
  <2>. SUFFICES ASSUME TransportInv, [TransportNext]_transportVars PROVE TransportInv'
    OBVIOUS
  <2>1. CASE TransportNext
    BY <2>1, TransportTypeStep, TakenStep, QuietStep, StreamStep DEF TransportInv
  <2>2. CASE UNCHANGED transportVars
    <3>1. UNCHANGED <<wire, peer, line, server, out, heard, taken>>
      BY <2>2 DEF transportVars
    <3>2. Busy' = Busy
      BY <3>1 DEF Busy
    <3>3. StreamInv'
      BY <3>1, <3>2, StillStep DEF TransportInv
    <3>. QED  BY <3>1, <3>3 DEF TransportInv, TransportTypeOK, TakenInv, QuietInv, Busy
  <2>. QED  BY <2>1, <2>2
<1>. QED  BY <1>1, TransportInitInv, PTL DEF TransportSpec

\* The peer of an MCP connection hears every answer in the order in which Serve took
\* the lines, after the progress of its call and before that of the next, and misses
\* none while it is there (server.go:225-277, mcp_sse.go:164-204).
THEOREM AnswersAreInOrder == TransportSpec => []AnswersInOrder
<1>1. TransportInv => AnswersInOrder
  <2>. SUFFICES ASSUME TransportInv PROVE AnswersInOrder
    OBVIOUS
  <2>1. InOrder(heard, taken)
    BY HeardInOrder DEF TransportInv
  <2>2. ASSUME peer = "here"
        PROVE  /\ InOrder(heard \o out, taken)
               /\ Len(taken) = Answered(heard \o out, Len(heard \o out)) + (IF Busy THEN 1 ELSE 0)
    BY <2>2 DEF TransportInv, StreamInv, Stream
  <2>3. Busy => server.of = taken[Len(taken)]
    BY DEF TransportInv, TakenInv
  <2>. QED  BY <2>1, <2>2, <2>3 DEF AnswersInOrder
<1>. QED  BY <1>1, TransportKeepsInv, PTL

-----------------------------------------------------------------------------
(* McpTransport implements Dialogue *)

\* While the connection is there an answer is owed exactly when Serve is busy.
LEMMA PendingIsBusy ==
  ASSUME TransportInv, peer \notin {"gone", "closed"}
  PROVE  /\ Talk!Pending <=> Busy
         /\ Busy => server.of = taken[Len(taken)] /\ taken # <<>>
<1>1. CASE peer = "here"
  <2>1. Stream \in Seq(Frames) /\ Len(Stream) \in Nat
    <3>1. heard \in Seq(Frames) /\ out \in Seq(Frames)
      BY DEF TransportInv, TransportTypeOK
    <3>2. Stream = heard \o out
      BY <1>1 DEF Stream
    <3>. QED  BY <3>1, <3>2, ConcatProperties
  <2>2. Answered(Stream, Len(Stream)) \in Nat
    BY <2>1, AnsweredIs
  <2>3. Len(taken) = Answered(Stream, Len(Stream)) + (IF Busy THEN 1 ELSE 0)
    BY <1>1 DEF TransportInv, StreamInv
  <2>4. Talk!Pending <=> Answered(Stream, Len(Stream)) < Len(taken)
    BY DEF Talk!Pending, Answered, Talk!Cardinality, Cardinality
  <2>5. Answered(Stream, Len(Stream)) < Len(taken) <=> Busy
    <3>1. Busy \in BOOLEAN
      BY DEF Busy
    <3>. QED  BY <2>2, <2>3, <3>1
  <2>. QED  BY <2>4, <2>5 DEF TransportInv, TakenInv
<1>2. CASE peer = "new"
  <2>1. ~Busy /\ taken = <<>> /\ Stream = <<>>
    BY <1>2 DEF TransportInv, QuietInv, Busy, Stream
  <2>2. Answered(<<>>, 0) = 0 /\ Len(<<>>) = 0
    BY AnsweredIs
  <2>3. Talk!Pending <=> Answered(Stream, Len(Stream)) < Len(taken)
    BY DEF Talk!Pending, Answered, Talk!Cardinality, Cardinality
  <2>4. ~Talk!Pending
    BY <2>1, <2>2, <2>3
  <2>. QED  BY <2>1, <2>4 DEF Busy
<1>. QED  BY <1>1, <1>2 DEF TransportInv, TransportTypeOK

\* As long as nothing is taken, written or delivered, nothing is said.
LEMMA StillTalk ==
  ASSUME UNCHANGED <<heard, out, taken, peer>>
  PROVE  UNCHANGED Talk!vars
BY DEF Talk!vars, Stream

\* Opening it says nothing either.
LEMMA OpenTalk ==
  ASSUME TransportInv, peer = "new", peer' = "here", UNCHANGED <<heard, out, taken>>
  PROVE  UNCHANGED Talk!vars
<1>1. heard = <<>> /\ out = <<>>
  BY DEF TransportInv, QuietInv
<1>2. Stream = <<>> /\ Stream' = <<>>
  BY <1>1 DEF Stream
<1>. QED  BY <1>2 DEF Talk!vars

\* The peer keeps what it has heard: the stream loses its end, the channel.
LEMMA LeaveTalk ==
  ASSUME TransportInv, peer = "here", peer' \in {"gone", "closed"}, UNCHANGED <<heard, out, taken>>
  PROVE  Talk!Cut
<1>1. heard \in Seq(Frames) /\ out \in Seq(Frames)
  BY DEF TransportInv, TransportTypeOK
<1>2. Stream = heard \o out /\ Stream' = heard
  BY DEF Stream
<1>3. /\ Len(heard) \in Nat /\ Len(out) \in Nat /\ Len(heard \o out) = Len(heard) + Len(out)
      /\ \A i \in 1..Len(heard) : (heard \o out)[i] = heard[i]
  BY <1>1, ConcatProperties
<1>4. heard = SubSeq(heard \o out, 1, Len(heard))
  <2>. DEFINE h == heard \o out
              s == SubSeq(h, 1, Len(heard))
  <2>1. h \in Seq(Frames) /\ Len(heard) <= Len(h)
    BY <1>1, <1>3, ConcatProperties
  <2>2. s = [i \in 1..Len(heard) |-> h[i]]
    <3>. HIDE DEF h
    <3>1. \A i \in 1..Len(heard) : i + 1 - 1 = i
      BY <1>3
    <3>. QED  BY <1>3, <2>1, SubSeqProperties
  <2>3. heard = [i \in 1..Len(heard) |-> heard[i]]
    BY <1>1
  <2>. HIDE DEF s
  <2>. QED  BY <1>3, <2>2, <2>3
<1>5. Len(heard) \in 0..Len(heard \o out)
  BY <1>3
<1>. QED  BY <1>2, <1>4, <1>5 DEF Talk!Cut

\* A frame Serve writes is said, unless there is nobody.
LEMMA WriteTalk ==
  ASSUME TransportInv, Busy, NEW kind \in {"progress", "answer"},
         Write([of |-> server.of, kind |-> kind]), UNCHANGED <<peer, taken, wire>>
  PROVE  \/ UNCHANGED Talk!vars
         \/ /\ peer \notin {"gone", "closed"} /\ Talk!Pending /\ Talk!Say(kind)
            /\ UNCHANGED <<taken, peer>>
<1>. DEFINE e == [of |-> server.of, kind |-> kind]
<1>1. /\ heard \in Seq(Frames) /\ out \in Seq(Frames) /\ wire \in {"sse", "socket"}
      /\ (wire = "socket" => out = <<>>) /\ taken # <<>> /\ server.of = taken[Len(taken)]
      /\ taken \in Seq(Asks)
  BY DEF TransportInv, TransportTypeOK, QuietInv, TakenInv
<1>2. e \in Frames
  BY <1>1 DEF Frames
<1>3. Write(e)
  OBVIOUS
<1>. HIDE DEF e
<1>4. CASE peer = "here"
  <2>1. Stream' = Append(Stream, e)
    <3>1. CASE wire = "sse"
      <4>1. out' = Append(out, e) /\ heard' = heard
        BY <1>3, <3>1 DEF Write, ToChannel
      <4>. QED  BY <1>1, <1>2, <1>4, <4>1, Written DEF Stream
    <3>2. CASE wire = "socket"
      <4>1. heard' = Append(heard, e) /\ out' = <<>> /\ out = <<>>
        BY <1>1, <1>3, <1>4, <3>2 DEF Write, ToSocket
      <4>2. Append(heard, e) \in Seq(Frames)
        BY <1>1, <1>2
      <4>3. heard \o <<>> = heard /\ Append(heard, e) \o <<>> = Append(heard, e)
        BY <1>1, <4>2, ConcatEmptySeq
      <4>. QED  BY <1>4, <4>1, <4>3 DEF Stream
    <3>. QED  BY <1>1, <3>1, <3>2
  <2>2. Talk!Pending
    BY <1>4, PendingIsBusy
  <2>3. Talk!Say(kind)
    BY <1>1, <2>1 DEF Talk!Say, e
  <2>. QED  BY <1>4, <2>2, <2>3
<1>5. CASE peer # "here"
  <2>1. heard' = heard
    BY <1>1, <1>3, <1>5 DEF Write, ToChannel, ToSocket
  <2>2. Stream' = Stream
    BY <1>5, <2>1 DEF Stream
  <2>. QED  BY <2>2 DEF Talk!vars
<1>. QED  BY <1>4, <1>5

\* Every step of a connection is a step of Dialogue, or none.
LEMMA StepIsTalk == TransportInv /\ TransportNext => Talk!Next \/ UNCHANGED Talk!vars
<1>. SUFFICES ASSUME TransportInv, TransportNext PROVE Talk!Next \/ UNCHANGED Talk!vars  OBVIOUS
<1>1. CASE OpenStream \/ OpenSocket
  BY <1>1, OpenTalk DEF OpenStream, OpenSocket
<1>2. ASSUME NEW a \in Asks, NEW kind \in Kinds, PostLine(a, kind) \/ SendLine(a, kind)
      PROVE  UNCHANGED Talk!vars
  BY <1>2, StillTalk DEF PostLine, SendLine
<1>3. ASSUME NEW a \in Asks, RefusePost(a) PROVE UNCHANGED Talk!vars
  BY <1>3, StillTalk DEF RefusePost
<1>4. ASSUME NEW a \in Asks, Take(a) PROVE Talk!Next \/ UNCHANGED Talk!vars
  <2>1. ~Busy /\ line[a].at = "waits" /\ UNCHANGED <<peer, heard, out>>
    BY <1>4 DEF Take, Busy
  <2>2. CASE UNCHANGED taken
    BY <2>1, <2>2, StillTalk
  <2>3. CASE taken' = Append(taken, a)
    <3>1. \A i \in DOMAIN taken : taken[i] # a
      BY <2>1 DEF TransportInv, TakenInv
    <3>2. peer \in {"gone", "closed"} \/ ~Talk!Pending
      BY <2>1, PendingIsBusy
    <3>3. Stream' = Stream
      BY <2>1 DEF Stream
    <3>4. Talk!Take(a)
      BY <2>1, <2>3, <3>1, <3>2, <3>3 DEF Talk!Take
    <3>. QED  BY <3>4 DEF Talk!Next
  <2>. QED  BY <1>4, <2>2, <2>3 DEF Take
<1>5. CASE EndOfInput \/ StartReport \/ PackReturns
  BY <1>5, StillTalk DEF EndOfInput, StartReport, PackReturns
<1>6. CASE Report
  <2>1. Busy /\ Write([of |-> server.of, kind |-> "progress"]) /\ UNCHANGED <<peer, taken, wire>>
    BY <1>6 DEF Report, Busy
  <2>2. UNCHANGED Talk!vars \/ Talk!Report
    BY <2>1, WriteTalk DEF Talk!Report
  <2>. QED  BY <2>2 DEF Talk!Next
<1>7. CASE Answer
  <2>1. Busy /\ UNCHANGED <<peer, taken, wire>>
    BY <1>7 DEF Answer, Busy
  <2>2. CASE Write([of |-> server.of, kind |-> "answer"])
    <3>1. UNCHANGED Talk!vars \/ Talk!Answer
      BY <2>1, <2>2, WriteTalk DEF Talk!Answer
    <3>. QED  BY <3>1 DEF Talk!Next
  <2>3. CASE UNCHANGED <<out, heard>>
    BY <2>1, <2>3, StillTalk
  <2>. QED  BY <1>7, <2>2, <2>3 DEF Answer
<1>8. CASE Deliver
  <2>0. /\ heard \in Seq(Frames) /\ out \in Seq(Frames) /\ out # <<>>
        /\ out' = Tail(out) /\ UNCHANGED <<peer, server, taken>>
        /\ (peer = "here" => heard' = Append(heard, Head(out))) /\ (peer # "here" => heard' = heard)
    BY <1>8 DEF Deliver, TransportInv, TransportTypeOK
  <2>1. Stream' = Stream
    BY <2>0, Delivered DEF Stream
  <2>. QED  BY <2>0, <2>1 DEF Talk!vars
<1>9. ASSUME peer = "here", peer' \in {"gone", "closed"}, UNCHANGED <<heard, out, taken>>
      PROVE  Talk!Next
  BY <1>9, LeaveTalk DEF Talk!Next
<1>10. CASE LoopEnds \/ ClosePipe \/ ReaderEnds \/ NoticeGone \/ NextLine
  BY <1>10, StillTalk DEF LoopEnds, ClosePipe, ReaderEnds, NoticeGone, NextLine
<1>11. CASE DropSession \/ HangUp
  <2>1. UNCHANGED <<heard, out, taken>> /\ (peer' = peer \/ (peer = "here" /\ peer' = "closed"))
    BY <1>11 DEF DropSession, HangUp
  <2>. QED  BY <1>9, <2>1, StillTalk
<1>12. CASE PeerLeaves \/ StdinEnds \/ ConnectionBreaks
  BY <1>9, <1>12 DEF PeerLeaves, StdinEnds, ConnectionBreaks, Disconnect
<1>13. CASE \E a \in Asks : Take(a) \/ RefusePost(a)
  BY <1>3, <1>4, <1>13
<1>14. CASE \E a \in Asks, kind \in Kinds : PostLine(a, kind) \/ SendLine(a, kind)
  BY <1>2, <1>14
<1>. QED  BY <1>1, <1>5, <1>6, <1>7, <1>8, <1>10, <1>11, <1>12, <1>13, <1>14
          DEF TransportNext, ServeStep, PumpStep

\* A connection of either kind is a Dialogue that may be cut: whatever its peer,
\* its loop and the packs do, one line at a time is taken, reported on and answered,
\* and what is lost with the connection is the end of what was said.
THEOREM TransportImplementsDialogue == TransportSpec => ImplementsDialogue
<1>1. TransportInit => Talk!Init
  <2>. SUFFICES ASSUME TransportInit PROVE Talk!Init
    OBVIOUS
  <2>1. peer = "new" /\ heard = <<>> /\ out = <<>> /\ taken = <<>>
    BY DEF TransportInit
  <2>. QED  BY <2>1 DEF Talk!Init, Stream
<1>2. TransportInv /\ [TransportNext]_transportVars => [Talk!Next]_(Talk!vars)
  <2>. SUFFICES ASSUME TransportInv, [TransportNext]_transportVars
                PROVE  Talk!Next \/ UNCHANGED Talk!vars
    OBVIOUS
  <2>1. CASE UNCHANGED transportVars
    BY <2>1, StillTalk DEF transportVars
  <2>. QED  BY <2>1, StepIsTalk
<1>. QED  BY <1>1, <1>2, TransportKeepsInv, PTL DEF TransportSpec, Talk!Spec, ImplementsDialogue
=============================================================================
