\* A call of merge() on a session that already holds the lock, with the head of
\* an earlier check.
SPECIFICATION Spec
CONSTANTS
  Agents = {a1, a2}
  Sessions = {s1, s2}
  Files = {f1}
  TTL = 2
  NoAgent = NoAgent
  NoSession = NoSession
  Outside = Outside
SYMMETRY Symmetry
INVARIANTS NoMergeBehindCheck
CHECK_DEADLOCK TRUE
