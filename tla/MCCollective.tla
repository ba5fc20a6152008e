--------------------------- MODULE MCCollective ---------------------------
(* Model-checking instances of Collective. *)
EXTENDS Collective, TLC

\* Agents, and the private entries, are interchangeable.
Renaming == Permutations(Agents) \cup Permutations(Entries)
============================================================================
