\* An agent pulls a card from the inbox, promotes it and releases it.
SPECIFICATION Spec
CONSTANTS
  c1 = c1  a1 = a1
  Cards = {c1}
  Reqs = {}
  Free = {}
  Agents = {a1}
  NoAgent = NoAgent
  Streams <- SeedStreams
  Releases <- SeedReleases
  InputStatus = {"open", "fixed"}
  InputKinds = {"bug"}
  InputSizes = {"small"}
  InputStates = {}
  Blockable = {}
  Branched = {}
  MaxHeld = 1
  MaxItems = 1
PROPERTIES ReleaseFreesSlot
