--------------------------- MODULE MCAttachments ---------------------------
(* Milestones for TLC in three scenes, one of them chosen at the start.      *)
(*   slots: one card, two agents with room for one attachment of each size,  *)
(*     and a release that closes and is opened again;                        *)
(*   queue: a card, a requirement and an external reference of the same      *)
(*     name, under two attachments of one agent, and sources written with    *)
(*     and without hooks;                                                    *)
(*   gate: one card with a blocker and a worktree a release waits for.       *)
EXTENDS Milestones, TLC

CONSTANTS c1, q1

VARIABLE scene

SeedStreams == {"stream/triage", "stream/maintenance"}
SeedReleases == {"release/1.1"}

Slots == INSTANCE Milestones WITH
  InputStatus <- {"open", "fixed"}, InputKinds <- {"bug"}, InputSizes <- {"large"},
  InputStates <- {"open"}, Blockable <- {}, Branched <- {}

Queue == INSTANCE Milestones WITH
  InputSizes <- {"triage"}, InputStates <- {}, Blockable <- {}, Branched <- {}

Gate == INSTANCE Milestones WITH
  InputStatus <- {"open", "fixed"}, InputKinds <- {"bug"}, InputSizes <- {"triage"},
  InputStates <- {}, Blockable <- {c1}, Branched <- {c1}

\* The agents are interchangeable.
AgentSymmetry == Permutations(Agents)

MCInit == scene \in {"slots", "queue", "gate"} /\ Init

\* Some agent holds nothing.
OneAgent == \E a \in Agents : Charged(held, a) = 0

MCNext ==
  /\ scene' = scene
  /\ \/ scene = "slots" /\ Slots!Next
     \/ scene = "queue" /\ Queue!Next /\ state' = state /\ OneAgent'
     \/ scene = "gate" /\ Gate!Next /\ OneAgent'

MCSpec == MCInit /\ [][MCNext]_<<vars, scene>>
=============================================================================
