\* Two cards, two fingerprints, two distinct seconds and one holder: closed twins,
\* folds, restored rows, and claims that revive and release closed cards.
SPECIFICATION TrackerSpec
CONSTANTS
  Cards = {1, 2}
  Reqs = {}
  Names = {h1}
  Quals = {q1}
  Prints = {p1, p2}
  NoPrint = NoPrint
  InputIds <- SomeIds
  NoId = NoId
  LastInt = 2
  NoClaim = NoClaim
  Nobody = Nobody
  InputStatus = {"open", "in_progress", "fixed", "wont_fix"}
  FileStatus = {"open", "fixed", "wont_fix"}
  MaxNow = 1
SYMMETRY Symmetry
INVARIANTS TrackerTypeOK LookupsSuffice
PROPERTIES DecisionStands SightingIsVisible
CHECK_DEADLOCK TRUE
