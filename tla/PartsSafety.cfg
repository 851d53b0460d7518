\* Ten parts, each on its own small instance.
CONSTANTS
  top = top  repo = repo  wt = wt  NoDir = NoDir
  Dirs = {top, repo, wt}
  Parent <- ParentOf
  Main <- MainOf
  Callers = {c1}
  MaxTrouble = 1
  Related = {1, 2}
  Actors = {p1, p2}
  NoOne = NoOne
  MaxRows = 3
  Writers = {w1, w2}
  Nobody = Nobody
  MaxFiles = 3
  Names = {n1, n2}
  Fns = {1}
  k1 = k1  k2 = k2
  Keys = {k1, k2}
  Forbidden = {k2}
  MaxOps = 3
  lineA = lineA  lineB = lineB  brace = brace
  Bodies = {lineA, lineB, brace}
  Slight = {brace}
  Bases <- Files
  Metas <- Spellings
  MaxSpan = 2
  Around = 1
  MaxMoves = 2
  Cards = {card}
  Repairers = {r1, r2}
  Coordinates = {l1, l2}
  MaxEdits = 1
  Findings = {f1, f2}
  Rings <- Observed
  Trees <- Contents
  MaxCommits = 3
  MaxDisk = 1
  reader = reader
  Clients <- AllClients
  Benchmarks = {"x", "y"}
  Payloads <- Loads
  Asked <- Spelled
  Width = 1
  MaxNumber = 2
  Noted = {1}
  Passes = {r1, r2}
  Messages <- Texts
  MaxLog = 2
  MaxTouches = 1
  MaxPasses = 2
  Grouped <- Four
  HubDegrees = {1, 2, 4}
  Populations <- Filters
  MaxDeclared = 1
  MaxLinks = 3
SPECIFICATION MCSpec
CHECK_DEADLOCK FALSE
INVARIANTS TypeOK SearchesAreHonest DeclarationsHold DestinationStaysWhole CallerKeepsItsTransaction RunsAreWhole
PROPERTIES OnlyTheOptedInCreate AnchorsAreHonest RepairRespectsTheRow VerdictsAreEarned TrailersAreCareful ArchiveIsAtomic
