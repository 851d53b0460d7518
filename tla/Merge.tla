------------------------------- MODULE Merge -------------------------------
(***************************************************************************)
(* Merge coordination between parallel agents: src/src/codebugs/merge.py.  *)
(*                                                                         *)
(* Sessions, their file claims and one lease-based merge lock live in      *)
(* SQLite.  Every writing call runs in db.txn (BEGIN IMMEDIATE), so it is  *)
(* one atomic step here, except merge(): it calls git inside its           *)
(* transaction, and neither git nor the clock waits for SQLite's write     *)
(* lock.  merge() is therefore the four steps begin, read the head, write, *)
(* commit; a writer that meets the open transaction waits.                 *)
(*                                                                         *)
(* The callers are agents that follow the tool descriptions: check, merge, *)
(* the git merge itself, finish.  They are not code of the repository: the *)
(* steps of theirs that call nothing in it (Land, Push, Crash) are marked  *)
(* external.                                                               *)
(*                                                                         *)
(* Timestamps are kept as the seconds left until they pass, so that Tick   *)
(* ages them all and no clock has to be bounded.  Main moves without bound *)
(* as well: of its history a merge depends only on who has moved it since  *)
(* a head was read (main never returns to an earlier commit).              *)
(***************************************************************************)
EXTENDS Naturals

CONSTANTS
  Agents,     \* the calling processes
  Sessions,   \* session ids
  Files,      \* file paths a session may claim
  TTL,        \* LOCK_TTL_SECONDS, in ticks
  NoAgent,    \* no transaction is open
  NoSession,  \* NULL in codemerge_locks.session_id
  Outside     \* the author of a move of main made under no live lease

ASSUME MergeAssumption ==
  /\ TTL \in Nat \ {0}
  /\ NoAgent \notin Agents
  /\ NoSession \notin Sessions
  /\ Outside \notin Sessions

VARIABLES
  sessions,   \* codemerge_sessions.status; "none" is a missing row
  claims,     \* codemerge_claims: the files of each session
  lock,       \* codemerge_locks, row 1: the holder, the seconds left
  txn,        \* the open merge() transaction, its progress, its new deadline
  landed,     \* the sessions that moved main under a lease since the head
              \* that the last grant of the lock compared
  pc,         \* where each agent is in the protocol
  sess,       \* the session each agent is acting for
  since,      \* who moved main since the head each agent's check reported
  lease,      \* what is left of the TTL seconds merge() promised each agent
  vetted      \* the files of each session when its last check came back clean

dbVars == <<sessions, claims, lock>>
agentVars == <<pc, sess, since, lease>>
vars == <<sessions, claims, lock, txn, landed, pc, sess, since, lease, vetted>>

Status == {"none", "active", "merging", "done", "abandoned"}
Live == {"active", "merging"}
Stage == {"none", "head", "write", "commit", "renewed"}
Place == {"idle", "checking", "checked", "granted", "landed", "dead"}

NoTxn == [owner |-> NoAgent, stage |-> "none", left |-> 0]
FreeLock == [holder |-> NoSession, left |-> 0]

TypeOK ==
  /\ sessions \in [Sessions -> Status]
  /\ claims \in [Sessions -> SUBSET Files]
  /\ lock \in [holder : Sessions \cup {NoSession}, left : 0 .. TTL]
  /\ txn \in [owner : Agents \cup {NoAgent}, stage : Stage, left : 0 .. TTL]
  /\ landed \in SUBSET Sessions
  /\ pc \in [Agents -> Place]
  /\ sess \in [Agents -> Sessions \cup {NoSession}]
  /\ since \in [Agents -> SUBSET (Sessions \cup {Outside})]
  /\ lease \in [Agents -> 0 .. TTL]
  /\ vetted \in [Sessions -> SUBSET Files]

Init ==
  /\ sessions = [s \in Sessions |-> "none"]
  /\ claims = [s \in Sessions |-> {}]
  /\ lock = FreeLock
  /\ txn = NoTxn
  /\ landed = {}
  /\ pc = [a \in Agents |-> "idle"]
  /\ sess = [a \in Agents |-> NoSession]
  /\ since = [a \in Agents |-> {}]
  /\ lease = [a \in Agents |-> 0]
  /\ vetted = [s \in Sessions |-> {}]

-----------------------------------------------------------------------------
(* Helpers. *)

\* BEGIN IMMEDIATE succeeds only while no other connection is writing.
CanWrite == txn.owner = NoAgent

\* Mutant: the lock row is not cleared.
KeepLock(s) == lock

\* UPDATE codemerge_locks SET session_id=NULL ... WHERE id=1 AND session_id=s.
ReleaseLock(s) == IF lock.holder = s THEN FreeLock ELSE lock

\* Agents whose grant on s has been closed by a call to finish or abandon
\* have no lease to rely on any more.
VoidLeases(s) == [a \in Agents |-> IF sess[a] = s THEN 0 ELSE lease[a]]

\* The agent's call returned: it starts over.
BackToIdle(a) ==
  /\ pc' = [pc EXCEPT ![a] = "idle"]
  /\ sess' = [sess EXCEPT ![a] = NoSession]
  /\ since' = [since EXCEPT ![a] = {}]
  /\ lease' = [lease EXCEPT ![a] = 0]

\* merge() found the lock row naming its own session: renew, compare nothing.
SelfOwned(s) == sessions[s] = "merging" /\ lock.holder = s

\* Mutant: a lock once taken is never read as lapsed.
LeaseNeverLapses == lock.holder # NoSession

\* Mutant: the second of the deadline is read as past already.
LeaseEndsEarly == lock.holder # NoSession /\ lock.left > 1

\* The lock names a session and its deadline is still in the future.
LeaseRunning == lock.holder # NoSession /\ lock.left > 0

\* Mutant: a session that is merging right now is not looked at.
OverlapsActive(s) ==
  \E t \in Sessions \ {s} : sessions[t] = "active" /\ claims[s] \cap claims[t] # {}

\* Another live session has claimed one of the files of s.
Overlaps(s) ==
  \E t \in Sessions \ {s} : sessions[t] \in Live /\ claims[s] \cap claims[t] # {}

-----------------------------------------------------------------------------
(* Sessions and claims. *)

\* start_session: a new row, or, with allow_restart, a finished one reused.
StartSession(s) ==
  /\ CanWrite
  /\ sessions[s] = "none"
  /\ sessions' = [sessions EXCEPT ![s] = "active"]
  /\ UNCHANGED <<claims, lock, txn, landed, vetted, agentVars>>

RestartSession(s) ==
  /\ CanWrite
  /\ sessions[s] \in {"abandoned", "done"}
  /\ sessions' = [sessions EXCEPT ![s] = "active"]
  /\ claims' = [claims EXCEPT ![s] = {}]
  /\ vetted' = [vetted EXCEPT ![s] = {}]
  /\ UNCHANGED <<lock, txn, landed, agentVars>>

AddClaim(s, f) ==
  /\ CanWrite
  /\ sessions[s] \in Live
  /\ claims' = [claims EXCEPT ![s] = @ \cup {f}]
  /\ UNCHANGED <<sessions, lock, txn, landed, vetted, agentVars>>

\* Mutant: the status is not a condition of the UPDATE.
AnyRow(s) == sessions[s] # "none"

\* The existence check before the transaction cannot go stale: no row is ever
\* deleted.  The refusal of a done session is a condition of the UPDATE.
Abandonable(s) == sessions[s] \notin {"none", "done"}

AbandonSession(s) ==
  /\ CanWrite
  /\ Abandonable(s)
  /\ sessions' = [sessions EXCEPT ![s] = "abandoned"]
  /\ lock' = ReleaseLock(s)
  /\ lease' = VoidLeases(s)
  /\ UNCHANGED <<claims, txn, landed, vetted, pc, sess, since>>

-----------------------------------------------------------------------------
(* check_overlaps: one query over the claims, then the head.  No transaction: *)
(* each reads the last commit at the moment it runs.                          *)

CheckClaims(a, s) ==
  /\ pc[a] = "idle"
  /\ sessions[s] # "none"
  /\ vetted' = [vetted EXCEPT ![s] = IF Overlaps(s) THEN {} ELSE claims[s]]
  /\ pc' = [pc EXCEPT ![a] = "checking"]
  /\ sess' = [sess EXCEPT ![a] = s]
  /\ UNCHANGED <<dbVars, txn, landed, since, lease>>

CheckHead(a) ==
  /\ pc[a] = "checking"
  /\ pc' = [pc EXCEPT ![a] = "checked"]
  /\ since' = [since EXCEPT ![a] = {}]
  /\ UNCHANGED <<dbVars, txn, landed, vetted, sess, lease>>

-----------------------------------------------------------------------------
(* merge: called after a check, or again by an agent that already has its *)
(* grant and retries, with the head it checked the first time.            *)

Calling(a) == pc[a] \in {"checked", "granted"}

\* Refused at once: not active, or held by another session on a live lease.
MergeRefused(a) ==
  /\ Calling(a)
  /\ CanWrite
  /\ ~SelfOwned(sess[a])
  /\ sessions[sess[a]] # "active" \/ LeaseRunning
  /\ BackToIdle(a)
  /\ UNCHANGED <<dbVars, txn, landed, vetted>>

\* The self-owned branch: a fresh deadline, whether or not the old one lapsed.
\* It compares no head, neither the one it is called with nor any other.
MergeRenew(a) ==
  /\ Calling(a)
  /\ CanWrite
  /\ SelfOwned(sess[a])
  /\ txn' = [owner |-> a, stage |-> "renewed", left |-> TTL]
  /\ lease' = [lease EXCEPT ![a] = TTL]
  /\ pc' = [pc EXCEPT ![a] = "checked"]
  /\ UNCHANGED <<dbVars, landed, vetted, sess, since>>

MergeBegin(a) ==
  /\ Calling(a)
  /\ CanWrite
  /\ ~SelfOwned(sess[a])
  /\ sessions[sess[a]] = "active"
  /\ ~LeaseRunning
  /\ txn' = [owner |-> a, stage |-> "head", left |-> 0]
  /\ pc' = [pc EXCEPT ![a] = "checked"]
  /\ UNCHANGED <<dbVars, landed, vetted, sess, since, lease>>

\* Mutant: the head is not compared.
HeadIgnored(a) == TRUE

\* The compare of the compare-and-swap; nothing has been written yet.
HeadMatches(a) == since[a] = {}

MergeReadHead(a) ==
  /\ txn.owner = a
  /\ txn.stage = "head"
  /\ \/ /\ HeadMatches(a)
        /\ txn' = [txn EXCEPT !.stage = "write"]
        /\ UNCHANGED agentVars
     \/ /\ ~HeadMatches(a)
        /\ txn' = NoTxn
        /\ BackToIdle(a)
  /\ UNCHANGED <<dbVars, landed, vetted>>

\* SQLite evaluates the deadline as it runs the UPDATE of the lock row.
MergeWrite(a) ==
  /\ txn.owner = a
  /\ txn.stage = "write"
  /\ txn' = [txn EXCEPT !.stage = "commit", !.left = TTL]
  /\ lease' = [lease EXCEPT ![a] = TTL]
  /\ UNCHANGED <<dbVars, landed, vetted, pc, sess, since>>

\* Mutant: a status of the takeover that the column does not have.
TakeoverExpires(s) ==
  [t \in Sessions |->
     IF t = s THEN "merging"
     ELSE IF t = lock.holder /\ sessions[t] = "merging" THEN "expired"
     ELSE sessions[t]]

\* A holder whose lease lapsed loses its session; ours becomes merging.
Takeover(s) ==
  [t \in Sessions |->
     IF t = s THEN "merging"
     ELSE IF t = lock.holder /\ sessions[t] = "merging" THEN "abandoned"
     ELSE sessions[t]]

MergeCommit(a) ==
  /\ txn.owner = a
  /\ txn.stage = "commit"
  /\ sessions' = Takeover(sess[a])
  /\ lock' = [holder |-> sess[a], left |-> txn.left]
  /\ txn' = NoTxn
  /\ pc' = [pc EXCEPT ![a] = "granted"]
  /\ landed' = since[a] \ {Outside}
  /\ UNCHANGED <<claims, vetted, sess, since, lease>>

\* Mutant: the renewal keeps the deadline it found (CB-41).
NotRenewed == lock

\* The lock row a renewal commits: only the deadline is new.
Renewed == [lock EXCEPT !.left = txn.left]

MergeRenewCommit(a) ==
  /\ txn.owner = a
  /\ txn.stage = "renewed"
  /\ lock' = Renewed
  /\ txn' = NoTxn
  /\ pc' = [pc EXCEPT ![a] = "granted"]
  /\ UNCHANGED <<sessions, claims, landed, vetted, sess, since, lease>>

-----------------------------------------------------------------------------
(* finish *)

FinishGuard(s) == sessions[s] = "merging"

\* success: the git merge landed.  Otherwise the session may try again.
Finish(a) ==
  /\ pc[a] \in {"granted", "landed"}
  /\ CanWrite
  /\ FinishGuard(sess[a])
  /\ sessions' = [sessions EXCEPT ![sess[a]] =
                    IF pc[a] = "landed" THEN "done" ELSE "active"]
  /\ lock' = ReleaseLock(sess[a])
  /\ lease' = VoidLeases(sess[a])
  /\ pc' = [pc EXCEPT ![a] = "idle"]
  /\ sess' = [sess EXCEPT ![a] = NoSession]
  /\ since' = [since EXCEPT ![a] = {}]
  /\ UNCHANGED <<claims, txn, landed, vetted>>

FinishRefused(a) ==
  /\ pc[a] \in {"granted", "landed"}
  /\ CanWrite
  /\ ~FinishGuard(sess[a])
  /\ BackToIdle(a)
  /\ UNCHANGED <<dbVars, txn, landed, vetted>>

-----------------------------------------------------------------------------
(* External: git, the clock, and agents that die. *)

\* Main moves: every agent with a head of its own is behind it now.
MovedBy(author) ==
  since' = [a \in Agents |-> IF pc[a] \in {"checked", "granted", "landed"}
                             THEN since[a] \cup {author} ELSE since[a]]

\* The agent's git merge moves main.  One made after its lease lapsed or was
\* voided is nobody's work as far as the lock is concerned.
Land(a) ==
  /\ pc[a] = "granted"
  /\ \/ /\ lease[a] > 0
        /\ MovedBy(sess[a])
        /\ landed' = landed \cup {sess[a]}
     \/ /\ lease[a] = 0
        /\ MovedBy(Outside)
        /\ UNCHANGED landed
  /\ pc' = [pc EXCEPT ![a] = "landed"]
  /\ UNCHANGED <<dbVars, txn, vetted, sess, lease>>

\* Main moves by a route that never asks for the lock.
Push ==
  /\ MovedBy(Outside)
  /\ UNCHANGED <<dbVars, txn, landed, vetted, pc, sess, lease>>

\* A dead process's open transaction is rolled back; its committed lock stays.
Crash(a) ==
  /\ pc[a] # "dead"
  /\ pc' = [pc EXCEPT ![a] = "dead"]
  /\ sess' = [sess EXCEPT ![a] = NoSession]
  /\ since' = [since EXCEPT ![a] = {}]
  /\ lease' = [lease EXCEPT ![a] = 0]
  /\ txn' = IF txn.owner = a THEN NoTxn ELSE txn
  /\ UNCHANGED <<dbVars, landed, vetted>>

Less(n) == IF n > 0 THEN n - 1 ELSE 0

Tick ==
  /\ lock' = [lock EXCEPT !.left = Less(@)]
  /\ txn' = [txn EXCEPT !.left = Less(@)]
  /\ lease' = [a \in Agents |-> Less(lease[a])]
  /\ UNCHANGED <<sessions, claims, landed, vetted, pc, sess, since>>

-----------------------------------------------------------------------------
\* What an agent does to get the lock, once it wants it.
Ask(a) ==
  \/ \E s \in Sessions : CheckClaims(a, s)
  \/ CheckHead(a)
  \/ MergeRefused(a)
  \/ MergeRenew(a)
  \/ MergeBegin(a)
  \/ MergeReadHead(a)
  \/ MergeWrite(a)
  \/ MergeCommit(a)
  \/ MergeRenewCommit(a)

Next ==
  \/ \E s \in Sessions : StartSession(s) \/ RestartSession(s) \/ AbandonSession(s)
  \/ \E s \in Sessions, f \in Files : AddClaim(s, f)
  \/ \E a \in Agents : Ask(a) \/ Finish(a) \/ FinishRefused(a) \/ Land(a) \/ Crash(a)
  \/ Push
  \/ Tick

Spec == Init /\ [][Next]_vars
-----------------------------------------------------------------------------
(* Safety. *)

\* The lock row and the sessions agree: exactly the holder is merging, so a
\* takeover, an abandon, a finish and a restart never leave two sessions
\* merging, or a session merging that has no way to be reclaimed.
LockMatchesSession ==
  \A s \in Sessions : sessions[s] = "merging" <=> lock.holder = s

Working(a) == pc[a] \in {"granted", "landed"} /\ lease[a] > 0

\* "Two agents merging at once" (CB-41): an agent still inside the TTL that
\* merge() promised it, whose session nobody closed, is the holder, however
\* long its call took and whoever renewed, retried or died meanwhile.
LeaseExclusion ==
  \A a \in Agents : Working(a) => SelfOwned(sess[a])

\* The compare-and-swap, for the lock: while an agent may rely on its session
\* holding the lock, no other session has merged under a lease since the head
\* that merge() compared when it gave that session the lock, through any
\* number of renewals, takeovers, retries and restarts.
NoMergeBehindGrant ==
  \A a \in Agents : Working(a) => landed \subseteq {sess[a]}

\* The compare-and-swap, for the caller (the description of codemerge_merge:
\* "If main has moved since check, returns proceed=False"): an agent that was
\* told to proceed is not behind the merge of another session that landed
\* after its own check.  False of a caller whose session another agent has
\* taken to the lock meanwhile: merge() renews for it and compares no head.
NoMergeBehindCheck ==
  \A a \in Agents : Working(a) => since[a] \subseteq {Outside, sess[a]}

\* Two live sessions that both claimed a file cannot both have been told by
\* check_overlaps that they are clean about it: whoever looked last saw the
\* other, though claims and checks take no common lock.
OneIsWarned ==
  \A s, t \in Sessions :
    (s # t /\ sessions[s] \in Live /\ sessions[t] \in Live) =>
      claims[s] \cap claims[t] \cap vetted[s] \cap vetted[t] = {}

\* abandon_session: the record that a merge succeeded is never overwritten;
\* a done session only ever leaves that state by being restarted, empty.
DoneIsKept ==
  [][\A s \in Sessions : (sessions[s] = "done" /\ sessions'[s] # "done") =>
       sessions'[s] = "active" /\ claims'[s] = {}]_vars

-----------------------------------------------------------------------------
(* Refinement: the tables, the transaction and the agents are a lock with a *)
(* lease, as merge.py's docstring describes it.                             *)

Trusting == {a \in Agents : Working(a)}

Lock == INSTANCE LeasedLock WITH
          holder <- lock.holder, left <- lock.left, trusting <- Trusting

\* Every call, commit, rollback and tick is a step of the lock or none: however
\* the statements of merge() interleave with other calls, the lock changes
\* hands only when it is free or lapsed and nobody trusts it any more.
ImplementsLock == Lock!Spec

-----------------------------------------------------------------------------
(* Liveness.  The clock runs, and an agent that has not died goes on asking *)
(* for the lock until it gets it.  Nothing is assumed of sessions being     *)
(* closed, of agents finishing, or of main, which anybody may go on moving  *)
(* between every check and the merge() that follows it.                     *)

FairSpec == Spec /\ WF_vars(Tick) /\ \A a \in Agents : WF_vars(Ask(a))

\* The holder died: nobody is acting for the session that holds the lock.
Orphaned(s) ==
  lock.holder = s /\ \A a \in Agents : sess[a] # s

\* A live agent that wants the lock for the active session t and no other.
WorksFor(a, t) ==
  /\ pc[a] \in {"idle", "checking", "checked"}
  /\ sess[a] \in {t, NoSession}
  /\ sessions[t] = "active"

\* merge() refuses with main_moved, past the test of the lock.
HeadRefusal == \E a \in Agents : MergeReadHead(a) /\ ~HeadMatches(a)

\* The TTL reclaims the lock from a holder that has died: an agent that keeps
\* asking for a session of its own does not find it held by the dead for ever.
\* It stays with them only while main goes on moving between the checks and
\* the calls of those who ask, so that main_moved refuses them without end.
DeadHolderIsReclaimed ==
  \A s, t \in Sessions, a \in Agents :
    <>[](Orphaned(s) /\ WorksFor(a, t)) => []<><<HeadRefusal>>_vars
=============================================================================
