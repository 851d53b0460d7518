\* What resolve_blocker's docstring and the design document say of a blocker that was decided.
SPECIFICATION Spec
CONSTANTS
  f1 = f1  f2 = f2  q1 = q1
  Cards = {f1, f2}
  Reqs = {q1}
  Callers = {c1, c2}
  NoEntity = NoEntity
  Requests <- OnWork
  InputStatus = {"open", "fixed", "planned", "implemented"}
  MaxBlocks = 2
  MaxNow = 0
INVARIANTS ResolvedOrCancelled
CHECK_DEADLOCK TRUE
