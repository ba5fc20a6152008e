--------------------------- MODULE MCAgentSession ---------------------------
(* Model-checking instances of AgentSession. *)
EXTENDS AgentSession, TLC

\* Processes are interchangeable.
ProcSymmetry == Permutations(Procs)
=============================================================================
