\* Two callers that add, finish, cancel, resolve and reopen what a card waits for.
SPECIFICATION Spec
CONSTANTS
  f1 = f1  f2 = f2  q1 = q1
  Cards = {f1, f2}
  Reqs = {q1}
  Callers = {c1, c2}
  NoEntity = NoEntity
  Requests <- All
  InputStatus = {"open", "fixed", "planned", "implemented"}
  MaxBlocks = 2
  MaxNow = 2
SYMMETRY CallerSymmetry
INVARIANTS TypeOK UnblockingIsTold
PROPERTIES CancelIsFinal OnlyReopeningReverts
CHECK_DEADLOCK TRUE
