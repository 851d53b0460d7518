----------------------------- MODULE LeasedLock -----------------------------
(***************************************************************************)
(* What the merge lock promises, without its tables, transactions or heads *)
(* (merge.py, the module docstring and the description of merge): one      *)
(* session holds it, for TTL ticks at most; agents trust it for no longer; *)
(* it changes hands only when nobody trusts it and it is free or lapsed.   *)
(***************************************************************************)
EXTENDS Naturals

CONSTANTS Agents, Sessions, TTL, NoSession

VARIABLES
  holder,    \* the session that holds the lock, or NoSession
  left,      \* the ticks until it lapses
  trusting   \* the agents that may work in the belief that they hold it

lockVars == <<holder, left, trusting>>

Init == holder = NoSession /\ left = 0 /\ trusting = {}

\* The caller may trust a grant of n ticks, unless it has none left.
Trust(a, n) == IF n > 0 THEN {{}, {a}} ELSE {{}}

\* Handing it out may take so long that nothing is left of the term.
Grant(a, s, n) ==
  /\ holder = NoSession \/ left = 0
  /\ trusting = {}
  /\ holder' = s
  /\ left' = n
  /\ trusting' \in Trust(a, n)

\* A second grant to the holder never shortens the first.
Renew(a, n) ==
  /\ holder # NoSession
  /\ n >= left
  /\ left' = n
  /\ \E t \in Trust(a, n) : trusting' = trusting \cup t
  /\ UNCHANGED holder

Release ==
  /\ holder # NoSession
  /\ holder' = NoSession
  /\ left' = 0
  /\ trusting' = {}

\* An agent dies, gives up or asks again.
Forget(a) ==
  /\ trusting' = trusting \ {a}
  /\ UNCHANGED <<holder, left>>

Age ==
  /\ left' = IF left > 0 THEN left - 1 ELSE 0
  /\ trusting' \in SUBSET trusting
  /\ left' = 0 => trusting' = {}
  /\ UNCHANGED holder

Next ==
  \/ \E a \in Agents, s \in Sessions, n \in 0 .. TTL : Grant(a, s, n)
  \/ \E a \in Agents, n \in 0 .. TTL : Renew(a, n)
  \/ \E a \in Agents : Forget(a)
  \/ Release
  \/ Age

Spec == Init /\ [][Next]_lockVars
=============================================================================
