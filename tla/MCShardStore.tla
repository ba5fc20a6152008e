--------------------------- MODULE MCShardStore ---------------------------
(* Model-checking instances of ShardStore. *)
EXTENDS ShardStore, TLC

\* Processes are interchangeable; used only where no liveness is checked.
ProcSymmetry == Permutations(Procs)
============================================================================
