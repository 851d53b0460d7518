---------------------------- MODULE MCMilestones ----------------------------
(* Milestones for TLC: two standing streams and the seeded release. *)
EXTENDS Milestones, TLC

SeedStreams == {"stream/triage", "stream/maintenance"}
SeedReleases == {"release/1.1"}

AgentSymmetry == Permutations(Agents)
=============================================================================
