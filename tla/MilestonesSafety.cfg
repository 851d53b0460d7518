\* Three scenes: the capacity of two agents, the queue of one, the gate of a release.
SPECIFICATION MCSpec
CONSTANTS
  c1 = c1  q1 = q1  a1 = a1  a2 = a2
  Cards = {c1}
  Reqs = {q1}
  Free = {}
  Agents = {a1, a2}
  NoAgent = NoAgent
  Streams <- SeedStreams
  Releases <- SeedReleases
  InputStatus = {"open", "fixed", "planned", "implemented"}
  InputKinds = {"bug", "requirement", "external"}
  InputSizes = {"large", "triage"}
  InputStates = {"open"}
  Blockable = {c1}
  Branched = {c1}
  MaxHeld = 1
  MaxItems = 2
SYMMETRY AgentSymmetry
INVARIANTS TypeOK SlotsCoverAssignments
PROPERTIES HooksLeaveReleases PullIsLive ProjectionFollows
CHECK_DEADLOCK TRUE
