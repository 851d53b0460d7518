\* Two agents, two sessions: takeover, renewal by a second agent of the same
\* session, restart after a takeover, and a main that moves under all of them.
\* No symmetry: it is not sound for a liveness property.
SPECIFICATION FairSpec
CONSTANTS
  Agents = {a1, a2}
  Sessions = {s1, s2}
  Files = {f1}
  TTL = 2
  NoAgent = NoAgent
  NoSession = NoSession
  Outside = Outside
INVARIANTS TypeOK LockMatchesSession LeaseExclusion NoMergeBehindGrant OneIsWarned
PROPERTIES DoneIsKept ImplementsLock DeadHolderIsReclaimed
CHECK_DEADLOCK TRUE
