---------------------------- MODULE MCMeshServer ----------------------------
(* Model-checking instances of MeshServer. *)
EXTENDS MeshServer, TLC

\* Every agent can do every task.
Generalists == [a \in Agents |-> Types]

\* Requests are interchangeable; used only where no liveness is checked.
SlotSymmetry == Permutations(Slots)
=============================================================================
