------------------------------ MODULE Artifacts ------------------------------
(****************************************************************************)
(* The artifact store (internal/packs/s3store.go): a bucket that survives   *)
(* the process, the index of what this process put there, the TTL janitor   *)
(* (janitor.go) and the operator's uploads and deletions (api/artifacts.go).*)
(****************************************************************************)
EXTENDS Naturals, FiniteSets

CONSTANTS
  Files,             \* artifacts, each with a random key of its own
  PackTTLs,          \* the TTL of the pack that puts one; 0: none of its own
  DefaultTTL,
  MaxArtifactStarts  \* bound: restarts of the control plane

ASSUME ArtifactsAssumption == PackTTLs \subseteq Nat /\ DefaultTTL \in Nat \ {0}

VARIABLES
  bucket,   \* the objects
  old,      \* age of each, capped behind the longest TTL
  ttl,      \* PackTTL of the pack that put it
  put,      \* where each Put is; "kept": its caller has the handle since a restart
  index,    \* what ListForPack tells
  sweeping, \* what the janitor's sweep has left to delete
  dropping, \* Delete calls between RemoveObject and the index
  asked,    \* history: the operator asked for its deletion
  starts

artifactVars == <<bucket, old, ttl, put, index, sweeping, dropping, asked, starts>>

Oldest == CHOOSE t \in PackTTLs \cup {DefaultTTL} : \A u \in PackTTLs \cup {DefaultTTL} : u <= t

ArtifactInit ==
  /\ bucket = {} /\ old = [f \in Files |-> 0] /\ ttl \in [Files -> PackTTLs]
  /\ put = [f \in Files |-> "none"] /\ index = {} /\ sweeping = {} /\ dropping = {}
  /\ asked = {} /\ starts = 0

-----------------------------------------------------------------------------
(* Put: the object, the presigned URL, the index *)

\* An error of PutObject does not say that nothing was stored.
Upload(f) ==
  /\ put[f] = "none"
  /\ \/ bucket' = bucket \cup {f} /\ put' = [put EXCEPT ![f] = "stored"]
     \/ bucket' \in {bucket, bucket \cup {f}} /\ put' = [put EXCEPT ![f] = "failed"]
  /\ UNCHANGED <<old, ttl, index, sweeping, dropping, asked, starts>>

\* An object whose URL cannot be signed stays in the bucket, unknown to all.
Presign(f) ==
  /\ put[f] = "stored"
  /\ \E end \in {"signed", "failed"} : put' = [put EXCEPT ![f] = end]
  /\ UNCHANGED <<bucket, old, ttl, index, sweeping, dropping, asked, starts>>

IndexIt(f) ==
  /\ put[f] = "signed"
  /\ put' = [put EXCEPT ![f] = "told"] /\ index' = index \cup {f}
  /\ UNCHANGED <<bucket, old, ttl, sweeping, dropping, asked, starts>>

-----------------------------------------------------------------------------
(* Delete: the object, then the index; DELETE and the janitor both call it *)

\* Mutant: the index entry goes first, and stays gone when the bucket refuses.
RemoveUnindexed(f) ==
  /\ index' = index \ {f} /\ UNCHANGED dropping
  /\ bucket' \in {bucket, bucket \ {f}}

\* The bucket may refuse, or remove the object and say that it refused.
RemoveObject(f) ==
  /\ \/ bucket' = bucket \ {f} /\ dropping' = dropping \cup {f}
     \/ bucket' \in {bucket, bucket \ {f}} /\ UNCHANGED dropping
  /\ UNCHANGED index

Unindex(f) ==
  /\ f \in dropping /\ dropping' = dropping \ {f} /\ index' = index \ {f}
  /\ UNCHANGED <<bucket, old, ttl, put, sweeping, asked, starts>>

\* An operator knows keys from the index, or from the answer of a pack.
OperatorDeletes(f) ==
  /\ put[f] \in {"told", "kept"} /\ RemoveObject(f) /\ asked' = asked \cup {f}
  /\ UNCHANGED <<old, ttl, put, sweeping, starts>>

KeptFor(f) == IF ttl[f] > 0 THEN ttl[f] ELSE DefaultTTL

\* Ages are those at the beginning of the sweep.
Sweep ==
  /\ sweeping = {}
  /\ sweeping' = {f \in bucket : old[f] > KeptFor(f)} /\ sweeping' # {}
  /\ UNCHANGED <<bucket, old, ttl, put, index, dropping, asked, starts>>

\* A deletion that fails is left to the next sweep.
JanitorDeletes(f) ==
  /\ f \in sweeping /\ RemoveObject(f) /\ sweeping' = sweeping \ {f}
  /\ UNCHANGED <<old, ttl, put, asked, starts>>

-----------------------------------------------------------------------------
AgeMore ==
  /\ \E f \in bucket : old[f] <= Oldest
  /\ old' = [f \in Files |-> IF f \in bucket /\ old[f] <= Oldest THEN old[f] + 1 ELSE old[f]]
  /\ UNCHANGED <<bucket, ttl, put, index, sweeping, dropping, asked, starts>>

\* The index starts empty; the bucket is as it was.
ArtifactRestart ==
  /\ starts < MaxArtifactStarts /\ starts' = starts + 1
  /\ put' = [f \in Files |-> CASE put[f] \in {"stored", "signed"} -> "failed"
                               [] put[f] = "told" -> "kept"
                               [] OTHER -> put[f]]
  /\ index' = {} /\ sweeping' = {} /\ dropping' = {}
  /\ UNCHANGED <<bucket, old, ttl, asked>>

ArtifactNext ==
  \/ \E f \in Files : Upload(f) \/ Presign(f) \/ IndexIt(f)
  \/ \E f \in Files : OperatorDeletes(f) \/ JanitorDeletes(f) \/ Unindex(f)
  \/ Sweep \/ AgeMore \/ ArtifactRestart

ArtifactSpec == ArtifactInit /\ [][ArtifactNext]_artifactVars

-----------------------------------------------------------------------------
(* Properties *)

Overdue(f) == old[f] > KeptFor(f)

\* Whatever sweeps, deletions, failures and restarts come between: an artifact
\* whose handle somebody has can be fetched until its pack's TTL is over or an
\* operator deletes it, and until a restart the explorer shows it; what it shows
\* and cannot fetch is being deleted, or its deletion was reported as failed.
HandlesStand ==
  \A f \in Files :
    /\ put[f] \in {"told", "kept"} /\ f \notin asked /\ ~Overdue(f) => f \in bucket
    /\ put[f] = "told" /\ f \in bucket => f \in index
    /\ f \in index => put[f] = "told" /\ (f \in bucket \/ Overdue(f) \/ f \in asked)

\* What the explorer shows can be fetched.  TLC refutes it: Delete removes the
\* object before the entry, and leaves the entry when the bucket reports an
\* error after removing it.
ShownIsThere == index \subseteq bucket
=============================================================================
