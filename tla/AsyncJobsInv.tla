--------------------------- MODULE AsyncJobsInv ---------------------------
(* The inductive invariant of AsyncJobs. *)
EXTENDS AsyncJobs

\* Only what runs or has ended is registered; what an ended job leaves is its
\* outcome, and until it ends it has no age and posts nothing.
JobInv ==
  \A j \in Jobs :
    /\ j \in jobs => state[j] = "working" \/ Ended(j)
    /\ state[j] \in {"none", "working"} =>
         age[j] = 0 /\ attempts[j] = 0 /\ hook[j] \in {"off", "armed"} /\ outcome[j] = "none"
    /\ state[j] = "none" => hook[j] = "off"
    /\ state[j] = "completed" => outcome[j] = "result"
    /\ state[j] = "failed" => outcome[j] = "error"
    /\ hook[j] = "posting" => Ended(j)
    /\ hook[j] = "posting" \/ attempts[j] > 0 => told[j] = outcome[j] /\ outcome[j] # "none"
    /\ attempts[j] > 0 => Ended(j) \/ state[j] = "lost"
    /\ j \in received => attempts[j] > 0

\* A request names a job that was started, and has seen nothing before it reads.
CallInv ==
  \A c \in Clients :
    /\ call[c].at # "idle" => call[c].id \in Jobs /\ state[call[c].id] # "none"
    /\ call[c].at \in {"idle", "lookup", "read"} => call[c].saw = "none" /\ ~call[c].late
    /\ call[c].got # "none" => call[c].id \in Jobs /\ call[c].got = outcome[call[c].id]
    /\ call[c].late => call[c].id \in received /\ call[c].saw # "working"
    /\ call[c].at = "read" => state[call[c].id] # "lost"
    /\ call[c].at = "drop" => call[c].saw = "completed"

IInv ==
  /\ TypeOK /\ JobInv /\ CallInv
  /\ AnswersAreWhole /\ NoneLostUnread
=============================================================================
