\* What the contract says of the exceptions of add and import.
SPECIFICATION TrackerSpec
CONSTANTS
  Cards = {1, 2}
  Reqs = {}
  Names = {h1}
  Quals = {q1}
  Prints = {p1, p2}
  NoPrint = NoPrint
  InputIds <- SomeIds
  NoId = NoId
  LastInt = 2
  NoClaim = NoClaim
  Nobody = Nobody
  InputStatus = {"open", "fixed"}
  FileStatus = {}
  MaxNow = 0
INVARIANTS AddNeverLeaks
CHECK_DEADLOCK TRUE
