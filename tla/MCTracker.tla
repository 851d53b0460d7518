----------------------------- MODULE MCTracker -----------------------------
(* Instances of Tracker for TLC. *)
EXTENDS Tracker, TLC

\* Fingerprints and holder names are interchangeable; cards are ordered.
Symmetry == Permutations(Prints) \cup Permutations(Names)

\* 'cb-2', which LIKE takes and the regular expression does not, and 'CB-2'.
SomeIds == {[like |-> TRUE, cast |-> 2, num |-> 0], Own(2)}

\* An id outside the tracker's numbering.
OtherId == {[like |-> FALSE, cast |-> 0, num |-> 0]}
=============================================================================
