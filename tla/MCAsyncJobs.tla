---------------------------- MODULE MCAsyncJobs ----------------------------
\* The registry of asynchronous jobs and one connection of a transport, side by
\* side: they share no state, and each behaviour is of one of the two while the
\* other rests.
EXTENDS AsyncJobsInv, McpTransportInv

VARIABLE part

sideBySide == <<vars, transportVars, part>>

McpInit == Init /\ TransportInit /\ part \in {"jobs", "connection"}

\* Clients are interchangeable: name the one that starts jobs.
Starter == CHOOSE c \in Clients : TRUE
StartedByOne == \A j \in Jobs : owner'[j] \in {None, Starter}

McpNext ==
  \/ part = "jobs" /\ Next /\ StartedByOne /\ UNCHANGED <<transportVars, part>>
  \/ part = "connection" /\ TransportNext /\ UNCHANGED <<vars, part>>

JobsFairness ==
  /\ WF_vars(part = "jobs" /\ Tick) /\ WF_vars(part = "jobs" /\ Sweep)
  /\ \A j \in Jobs : WF_vars(part = "jobs" /\ FireWebhook(j))
  /\ \A c \in Clients : WF_vars(part = "jobs" /\ Serve(c))

ConnectionFairness ==
  /\ WF_transportVars(part = "connection" /\ ServeStep)
  /\ WF_transportVars(part = "connection" /\ PumpStep)
  /\ WF_transportVars(part = "connection" /\ \E a \in Asks : RefusePost(a))

McpSpec == McpInit /\ [][McpNext]_sideBySide
McpFairSpec == McpSpec /\ JobsFairness /\ ConnectionFairness
=============================================================================
