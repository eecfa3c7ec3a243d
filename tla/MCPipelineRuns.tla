--------------------------- MODULE MCPipelineRuns ---------------------------
(* Instances of PipelineRuns for TLC. *)
EXTENDS PipelineRunsInv, TLC

\* Run ids and clients are interchangeable; fingerprints are not when one of
\* them stands for inputs that do not decode.
Interchangeable == Permutations(Runs) \cup Permutations(Clients)
=============================================================================
