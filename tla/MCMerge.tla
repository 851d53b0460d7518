------------------------------ MODULE MCMerge ------------------------------
(* Instances of Merge for TLC. *)
EXTENDS Merge, TLC

\* Agents, sessions and files are interchangeable; Outside and the null
\* values are not in any of the sets.
Symmetry == Permutations(Agents) \cup Permutations(Sessions) \cup Permutations(Files)
=============================================================================
