\* What claim() says of its outcomes.
SPECIFICATION TrackerSpec
CONSTANTS
  Cards = {1, 2}
  Reqs = {}
  Names = {h1}
  Quals = {q1}
  Prints = {p1}
  NoPrint = NoPrint
  InputIds <- OtherId
  NoId = NoId
  LastInt = 2
  NoClaim = NoClaim
  Nobody = Nobody
  InputStatus = {"open", "fixed", "wont_fix"}
  FileStatus = {}
  MaxNow = 0
INVARIANTS ClaimOutcomeIsDocumented
CHECK_DEADLOCK TRUE
