\* What the design document says of duplicates.
SPECIFICATION Spec
CONSTANTS
  f1 = f1  f2 = f2  q1 = q1
  Cards = {f1, f2}
  Reqs = {q1}
  Callers = {c1, c2}
  NoEntity = NoEntity
  Requests <- OnWork
  InputStatus = {"open", "fixed", "planned", "implemented"}
  MaxBlocks = 2
  MaxNow = 0
INVARIANTS NoDuplicates
CHECK_DEADLOCK TRUE
