----------------------------- MODULE MCBlockers -----------------------------
(* Blockers for TLC: a card waits for a card, for a requirement, for a date, *)
(* for a signal; one of the cards it waits for waits for it.                 *)
EXTENDS Blockers, TLC

CONSTANTS f1, f2, q1

Wait(item, by, type, at) == [item |-> item, by |-> by, type |-> type, at |-> at]

\* The dependencies two callers may finish at the same time, and a loop.
OnWork ==
  {Wait(f1, f2, "entity_resolved", 0), Wait(f1, q1, "entity_resolved", 0),
   Wait(f1, f1, "entity_resolved", 0), Wait(f1, NoEntity, "manual", 0)}

\* Dates and signals, with and without a dependency named.
OnTime ==
  {Wait(f1, NoEntity, "date", 1), Wait(f1, f2, "manual", 0), Wait(f2, f1, "entity_resolved", 0)}

All == OnWork \cup OnTime

CallerSymmetry == Permutations(Callers)
=============================================================================
