---------------------------- MODULE MergeProofs ----------------------------
(***************************************************************************)
(* The safety of merge coordination and its refinement of a leased lock,   *)
(* for every set of agents, sessions and files and every TTL.              *)
(***************************************************************************)
EXTENDS Merge, TLAPS

\* An agent that has named a session.
Engaged(a) == pc[a] \in {"checking", "checked", "granted", "landed"}

SessOK == \A a \in Agents : Engaged(a) => sess[a] \in Sessions

\* What merge() established before its transaction reached each stage, and
\* what cannot change under it because no other writer gets in.
TxnOK ==
  /\ txn.owner = NoAgent => txn.stage = "none"
  /\ \A a \in Agents : txn.owner = a =>
       /\ pc[a] = "checked"
       /\ txn.stage # "none"
       /\ txn.stage \in {"head", "write", "commit"} =>
            sessions[sess[a]] = "active" /\ ~LeaseRunning
       /\ txn.stage = "renewed" => SelfOwned(sess[a])
  /\ txn.stage \in {"commit", "renewed"} =>
       \A b \in Agents : lease[b] <= txn.left

\* No agent is promised more than the lock row holds.
LeaseOK ==
  \A a \in Agents : Working(a) => SelfOwned(sess[a]) /\ lease[a] <= lock.left

\* The holder's merges are the only ones since the head its grant compared,
\* and no merge under a lease falls between that compare and its commit.
HeadOK ==
  /\ lock.holder # NoSession => landed \subseteq {lock.holder}
  /\ txn.stage \in {"write", "commit"} => since[txn.owner] \subseteq {Outside}

\* A session is vetted for claims it has, so for none before it starts.
VettedOK ==
  \A s \in Sessions : vetted[s] \subseteq claims[s] /\ (sessions[s] = "none" => vetted[s] = {})

Inv ==
  /\ TypeOK
  /\ SessOK
  /\ LockMatchesSession
  /\ TxnOK
  /\ LeaseOK

-----------------------------------------------------------------------------
(* Typing. *)

\* Every step leaves the variables in their types; that only sessions
\* land needs SessOK as well.
LEMMA TypeStep == TypeOK /\ SessOK /\ [Next]_vars => TypeOK'
<1> SUFFICES ASSUME TypeOK, SessOK, [Next]_vars PROVE TypeOK'
  OBVIOUS
<1> USE DEF TypeOK, Status, Stage, Place, dbVars, agentVars
<1>a. TTL \in Nat /\ 0 \in 0 .. TTL /\ TTL \in 0 .. TTL
  BY MergeAssumption
<1>b. NoTxn \in [owner : Agents \cup {NoAgent}, stage : Stage, left : 0 .. TTL]
  BY <1>a DEF NoTxn
<1>c. \A s \in Sessions :
        ReleaseLock(s) \in [holder : Sessions \cup {NoSession}, left : 0 .. TTL]
  BY <1>a DEF ReleaseLock, FreeLock
<1>d. \A s \in Sessions : VoidLeases(s) \in [Agents -> 0 .. TTL]
  BY <1>a DEF VoidLeases
<1>e. \A n \in 0 .. TTL : Less(n) \in 0 .. TTL
  BY <1>a DEF Less
<1>1. ASSUME NEW s \in Sessions, StartSession(s) PROVE TypeOK'
  BY <1>1 DEF StartSession
<1>2. ASSUME NEW s \in Sessions, RestartSession(s) PROVE TypeOK'
  BY <1>2 DEF RestartSession
<1>3. ASSUME NEW s \in Sessions, AbandonSession(s) PROVE TypeOK'
  BY <1>3, <1>c, <1>d DEF AbandonSession
<1>4. ASSUME NEW s \in Sessions, NEW f \in Files, AddClaim(s, f) PROVE TypeOK'
  BY <1>4 DEF AddClaim
<1>5. ASSUME NEW a \in Agents, NEW s \in Sessions, CheckClaims(a, s) PROVE TypeOK'
  BY <1>5 DEF CheckClaims
<1>6. ASSUME NEW a \in Agents, CheckHead(a) PROVE TypeOK'
  BY <1>6 DEF CheckHead
<1>7. ASSUME NEW a \in Agents, MergeRefused(a) PROVE TypeOK'
  BY <1>7, <1>a DEF MergeRefused, BackToIdle
<1>8. ASSUME NEW a \in Agents, MergeRenew(a) PROVE TypeOK'
  BY <1>8, <1>a DEF MergeRenew
<1>9. ASSUME NEW a \in Agents, MergeBegin(a) PROVE TypeOK'
  BY <1>9, <1>a DEF MergeBegin
<1>10. ASSUME NEW a \in Agents, MergeReadHead(a) PROVE TypeOK'
  <2>1. CASE HeadMatches(a)
    BY <1>10, <2>1 DEF MergeReadHead
  <2>2. CASE ~HeadMatches(a)
    <3>1. txn' = NoTxn /\ BackToIdle(a)
      BY <1>10, <2>2 DEF MergeReadHead
    <3>2. pc' \in [Agents -> Place] /\ sess' \in [Agents -> Sessions \cup {NoSession}]
      BY <3>1 DEF BackToIdle
    <3>3. since' \in [Agents -> SUBSET (Sessions \cup {Outside})] /\ lease' \in [Agents -> 0 .. TTL]
      BY <3>1, <1>a DEF BackToIdle
    <3>4. UNCHANGED <<dbVars, landed, vetted>>
      BY <1>10 DEF MergeReadHead
    <3> QED
      BY <3>1, <3>2, <3>3, <3>4, <1>b
  <2> QED
    BY <2>1, <2>2
<1>11. ASSUME NEW a \in Agents, MergeWrite(a) PROVE TypeOK'
  <2>1. txn' = [owner |-> txn.owner, stage |-> "commit", left |-> TTL]
    BY <1>11 DEF MergeWrite
  <2> QED
    BY <1>11, <2>1, <1>a DEF MergeWrite
<1>12. ASSUME NEW a \in Agents, MergeCommit(a) PROVE TypeOK'
  <2>1. Takeover(sess[a]) \in [Sessions -> Status]
    BY DEF Takeover
  <2>2. lock' \in [holder : Sessions \cup {NoSession}, left : 0 .. TTL]
    BY <1>12 DEF MergeCommit
  <2> QED
    BY <1>12, <2>1, <2>2, <1>b DEF MergeCommit
<1>13. ASSUME NEW a \in Agents, MergeRenewCommit(a) PROVE TypeOK'
  <2>1. lock' = [holder |-> lock.holder, left |-> txn.left]
    BY <1>13 DEF MergeRenewCommit, Renewed
  <2> QED
    BY <1>13, <2>1, <1>b DEF MergeRenewCommit
<1>14. ASSUME NEW a \in Agents, Finish(a) PROVE TypeOK'
  <2>1. lock' \in [holder : Sessions \cup {NoSession}, left : 0 .. TTL]
    BY <1>14, <1>a DEF Finish, ReleaseLock, FreeLock
  <2>2. lease' \in [Agents -> 0 .. TTL]
    BY <1>14, <1>a DEF Finish, VoidLeases
  <2> QED
    BY <1>14, <2>1, <2>2 DEF Finish
<1>15. ASSUME NEW a \in Agents, FinishRefused(a) PROVE TypeOK'
  BY <1>15, <1>a DEF FinishRefused, BackToIdle
<1>16. ASSUME NEW a \in Agents, Land(a) PROVE TypeOK'
  <2>1. sess[a] \in Sessions
    BY <1>16 DEF Land, SessOK, Engaged
  <2>2. landed' \in SUBSET Sessions
    BY <1>16, <2>1 DEF Land
  <2>3. since' \in [Agents -> SUBSET (Sessions \cup {Outside})]
    BY <1>16, <2>1 DEF Land, MovedBy
  <2>4. UNCHANGED <<dbVars, txn, vetted, sess, lease>> /\ pc' = [pc EXCEPT ![a] = "landed"]
    BY <1>16 DEF Land
  <2> QED
    BY <2>2, <2>3, <2>4
<1>17. ASSUME NEW a \in Agents, Crash(a) PROVE TypeOK'
  BY <1>17, <1>a, <1>b DEF Crash
<1>18. CASE Push
  <2>1. since' \in [Agents -> SUBSET (Sessions \cup {Outside})]
    BY <1>18 DEF Push, MovedBy
  <2> QED
    BY <1>18, <2>1 DEF Push
<1>19. CASE Tick
  <2>1. lock' = [holder |-> lock.holder, left |-> Less(lock.left)]
    BY <1>19 DEF Tick
  <2>2. txn' = [owner |-> txn.owner, stage |-> txn.stage, left |-> Less(txn.left)]
    BY <1>19 DEF Tick
  <2>3. lease' \in [Agents -> 0 .. TTL]
    BY <1>19, <1>e DEF Tick
  <2>4. Less(lock.left) \in 0 .. TTL /\ Less(txn.left) \in 0 .. TTL
    BY <1>e
  <2>5. lock' \in [holder : Sessions \cup {NoSession}, left : 0 .. TTL]
    BY <2>1, <2>4
  <2>6. txn' \in [owner : Agents \cup {NoAgent}, stage : Stage, left : 0 .. TTL]
    BY <2>2, <2>4
  <2> QED
    BY <1>19, <2>3, <2>5, <2>6 DEF Tick
<1>20. CASE UNCHANGED vars
  BY <1>20 DEF vars
<1> QED
  BY <1>1, <1>2, <1>3, <1>4, <1>5, <1>6, <1>7, <1>8, <1>9, <1>10, <1>11, <1>12,
     <1>13, <1>14, <1>15, <1>16, <1>17, <1>18, <1>19, <1>20 DEF Next, Ask

-----------------------------------------------------------------------------
(* The invariant.  Each step is split by action; USE puts the definitions of *)
(* the state, not of the actions, into every leaf.                           *)

\* Everything starts free, idle and empty.
LEMMA InitInv == Init => Inv
<1> SUFFICES ASSUME Init PROVE Inv
  OBVIOUS
<1>1. TypeOK
  BY MergeAssumption DEF Init, TypeOK, Status, Stage, Place, NoTxn, FreeLock
<1>2. SessOK /\ LockMatchesSession /\ LeaseOK
  BY MergeAssumption DEF Init, SessOK, Engaged, LockMatchesSession, LeaseOK, Working, FreeLock
<1>3. TxnOK
  BY MergeAssumption DEF Init, TxnOK, NoTxn
<1> QED
  BY <1>1, <1>2, <1>3 DEF Inv

\* Whoever is engaged keeps the session it named.
LEMMA SessStep == Inv /\ [Next]_vars => SessOK'
<1> SUFFICES ASSUME Inv, [Next]_vars PROVE SessOK'
  OBVIOUS
<1> USE DEF Inv, TypeOK, SessOK, Engaged, dbVars, agentVars
<1>1. ASSUME NEW s \in Sessions, StartSession(s) \/ RestartSession(s) \/ AbandonSession(s)
      PROVE SessOK'
  BY <1>1 DEF StartSession, RestartSession, AbandonSession
<1>2. ASSUME NEW s \in Sessions, NEW f \in Files, AddClaim(s, f) PROVE SessOK'
  BY <1>2 DEF AddClaim
<1>3. ASSUME NEW a \in Agents, Ask(a) PROVE SessOK'
  <2>1. ASSUME NEW s \in Sessions, CheckClaims(a, s) PROVE SessOK'
    BY <2>1 DEF CheckClaims
  <2>2. CASE CheckHead(a) \/ MergeBegin(a) \/ MergeRenew(a)
    BY <2>2 DEF CheckHead, MergeBegin, MergeRenew, Calling
  <2>3. CASE MergeRefused(a) \/ MergeReadHead(a)
    BY <2>3 DEF MergeRefused, MergeReadHead, BackToIdle
  <2>4. CASE MergeWrite(a)
    BY <2>4 DEF MergeWrite
  <2>5. CASE MergeCommit(a) \/ MergeRenewCommit(a)
    BY <2>5 DEF MergeCommit, MergeRenewCommit, TxnOK
  <2> QED
    BY <1>3, <2>1, <2>2, <2>3, <2>4, <2>5 DEF Ask
<1>4. ASSUME NEW a \in Agents, Finish(a) \/ FinishRefused(a) \/ Land(a) \/ Crash(a)
      PROVE SessOK'
  BY <1>4 DEF Finish, FinishRefused, BackToIdle, Land, Crash
<1>5. CASE Push \/ Tick \/ UNCHANGED vars
  BY <1>5 DEF Push, Tick, vars
<1> QED
  BY <1>1, <1>2, <1>3, <1>4, <1>5 DEF Next

\* A session enters or leaves "merging" in the step in which the lock row
\* takes or drops its name.
LEMMA LockStep == Inv /\ [Next]_vars => LockMatchesSession'
<1> SUFFICES ASSUME Inv, [Next]_vars PROVE LockMatchesSession'
  OBVIOUS
<1> USE DEF Inv, TypeOK, LockMatchesSession, dbVars, agentVars
<1>1. ASSUME NEW s \in Sessions, StartSession(s) \/ RestartSession(s)
      PROVE LockMatchesSession'
  BY <1>1 DEF StartSession, RestartSession
<1>2. ASSUME NEW s \in Sessions, AbandonSession(s) PROVE LockMatchesSession'
  BY <1>2, MergeAssumption DEF AbandonSession, ReleaseLock, FreeLock
<1>3. ASSUME NEW s \in Sessions, NEW f \in Files, AddClaim(s, f)
      PROVE LockMatchesSession'
  BY <1>3 DEF AddClaim
<1>4. ASSUME NEW a \in Agents, Ask(a) PROVE LockMatchesSession'
  <2>1. ASSUME NEW s \in Sessions, CheckClaims(a, s) PROVE LockMatchesSession'
    BY <2>1 DEF CheckClaims
  <2>2. CASE CheckHead(a) \/ MergeRefused(a) \/ MergeBegin(a) \/ MergeRenew(a)
              \/ MergeReadHead(a) \/ MergeWrite(a)
    BY <2>2 DEF CheckHead, MergeRefused, MergeBegin, MergeRenew, MergeReadHead, MergeWrite
  <2>3. CASE MergeCommit(a)
    <3>1. sess[a] \in Sessions
      BY <2>3 DEF MergeCommit, TxnOK, SessOK, Engaged
    <3>2. sessions' = Takeover(sess[a]) /\ lock'.holder = sess[a]
      BY <2>3 DEF MergeCommit
    <3> QED
      BY <3>1, <3>2 DEF Takeover
  <2>4. CASE MergeRenewCommit(a)
    BY <2>4 DEF MergeRenewCommit, Renewed
  <2> QED
    BY <1>4, <2>1, <2>2, <2>3, <2>4 DEF Ask
<1>5. ASSUME NEW a \in Agents, Finish(a) PROVE LockMatchesSession'
  BY <1>5, MergeAssumption DEF Finish, FinishGuard, ReleaseLock, FreeLock, SessOK, Engaged
<1>6. ASSUME NEW a \in Agents, FinishRefused(a) \/ Land(a) \/ Crash(a)
      PROVE LockMatchesSession'
  BY <1>6 DEF FinishRefused, Land, Crash
<1>7. CASE Push \/ UNCHANGED vars
  BY <1>7 DEF Push, vars
<1>8. CASE Tick
  BY <1>8 DEF Tick
<1> QED
  BY <1>1, <1>2, <1>3, <1>4, <1>5, <1>6, <1>7, <1>8 DEF Next

\* No second writer gets in while merge() has its transaction open, so what it
\* read stays true; the clock only ever takes away.
LEMMA TxnStep == Inv /\ [Next]_vars => TxnOK'
<1> SUFFICES ASSUME Inv, [Next]_vars PROVE TxnOK'
  OBVIOUS
<1> USE DEF Inv, TypeOK, TxnOK, dbVars, agentVars, SelfOwned, LeaseRunning
<1>1. ASSUME NEW s \in Sessions, StartSession(s) \/ RestartSession(s) \/ AbandonSession(s)
      PROVE TxnOK'
  BY <1>1 DEF StartSession, RestartSession, AbandonSession, CanWrite
<1>2. ASSUME NEW s \in Sessions, NEW f \in Files, AddClaim(s, f) PROVE TxnOK'
  BY <1>2 DEF AddClaim
<1>3. ASSUME NEW a \in Agents, Ask(a) PROVE TxnOK'
  <2>1. ASSUME NEW s \in Sessions, CheckClaims(a, s) PROVE TxnOK'
    BY <2>1 DEF CheckClaims
  <2>2. CASE CheckHead(a)
    BY <2>2 DEF CheckHead
  <2>3. CASE MergeRefused(a)
    BY <2>3 DEF MergeRefused, CanWrite
  <2>4. CASE MergeBegin(a)
    BY <2>4 DEF MergeBegin, CanWrite
  <2>5. CASE MergeRenew(a)
    <3>1. txn'.owner = a /\ txn'.stage = "renewed" /\ txn'.left = TTL /\ a # NoAgent
      BY <2>5, MergeAssumption DEF MergeRenew
    <3>2. pc'[a] = "checked" /\ SelfOwned(sess[a])'
      BY <2>5 DEF MergeRenew
    <3>3. \A b \in Agents : lease'[b] <= TTL
      BY <2>5, MergeAssumption DEF MergeRenew
    <3> QED
      BY <3>1, <3>2, <3>3
  <2>6. CASE MergeReadHead(a)
    BY <2>6, MergeAssumption DEF MergeReadHead, NoTxn
  <2>7. CASE MergeWrite(a)
    <3>1. txn' = [owner |-> a, stage |-> "commit", left |-> TTL] /\ a # NoAgent
      BY <2>7, MergeAssumption DEF MergeWrite
    <3>2. pc'[a] = "checked" /\ sessions'[sess'[a]] = "active" /\ ~LeaseRunning'
      BY <2>7 DEF MergeWrite
    <3>3. \A b \in Agents : lease'[b] <= TTL
      BY <2>7, MergeAssumption DEF MergeWrite
    <3> QED
      BY <3>1, <3>2, <3>3
  <2>8. CASE MergeCommit(a) \/ MergeRenewCommit(a)
    BY <2>8, MergeAssumption DEF MergeCommit, MergeRenewCommit, NoTxn
  <2> QED
    BY <1>3, <2>1, <2>2, <2>3, <2>4, <2>5, <2>6, <2>7, <2>8 DEF Ask
<1>4. ASSUME NEW a \in Agents, Finish(a) \/ FinishRefused(a) PROVE TxnOK'
  BY <1>4 DEF Finish, FinishRefused, BackToIdle, CanWrite
<1>5. ASSUME NEW a \in Agents, Land(a) PROVE TxnOK'
  BY <1>5 DEF Land
<1>6. ASSUME NEW a \in Agents, Crash(a) PROVE TxnOK'
  <2>1. CASE txn.owner = a
    <3>1. txn' = NoTxn
      BY <1>6, <2>1 DEF Crash
    <3> QED
      BY <3>1, MergeAssumption DEF NoTxn
  <2>2. CASE txn.owner # a
    <3>1. UNCHANGED <<txn, sessions, lock>>
      BY <1>6, <2>2 DEF Crash
    <3>2. \A b \in Agents : lease'[b] <= lease[b] /\ lease'[b] \in Nat
      BY <1>6 DEF Crash
    <3>3. \A b \in Agents \ {a} : pc'[b] = pc[b] /\ sess'[b] = sess[b]
      BY <1>6 DEF Crash
    <3>4. txn.stage \in {"commit", "renewed"} => \A b \in Agents : lease'[b] <= txn.left
      BY <3>2
    <3> QED
      BY <2>2, <3>1, <3>3, <3>4
  <2> QED
    BY <2>1, <2>2
<1>7. CASE Push \/ UNCHANGED vars
  BY <1>7 DEF Push, vars
<1>8. CASE Tick
  BY <1>8 DEF Tick, Less
<1> QED
  BY <1>1, <1>2, <1>3, <1>4, <1>5, <1>6, <1>7, <1>8 DEF Next

\* Only merge() makes promises, and it commits at least what it promised; a
\* takeover finds every promise already lapsed.
LEMMA LeaseStep == Inv /\ [Next]_vars => LeaseOK'
<1> SUFFICES ASSUME Inv, [Next]_vars PROVE LeaseOK'
  OBVIOUS
<1> USE DEF Inv, TypeOK, LeaseOK, Working, dbVars, agentVars, SelfOwned
<1>1. ASSUME NEW s \in Sessions, StartSession(s) \/ RestartSession(s) PROVE LeaseOK'
  <2>1. sessions[s] # "merging" /\ UNCHANGED <<lock, pc, sess, lease>>
    BY <1>1 DEF StartSession, RestartSession
  <2>2. \A t \in Sessions \ {s} : sessions'[t] = sessions[t]
    BY <1>1 DEF StartSession, RestartSession
  <2>3. \A a \in Agents : Working(a) => sess[a] # s /\ sess[a] \in Sessions
    BY <2>1 DEF SessOK, Engaged
  <2> QED
    BY <2>1, <2>2, <2>3
<1>2. ASSUME NEW s \in Sessions, AbandonSession(s) PROVE LeaseOK'
  BY <1>2 DEF AbandonSession, VoidLeases, ReleaseLock, SessOK, Engaged
<1>3. ASSUME NEW s \in Sessions, NEW f \in Files, AddClaim(s, f) PROVE LeaseOK'
  BY <1>3 DEF AddClaim
<1>4. ASSUME NEW a \in Agents, Ask(a) PROVE LeaseOK'
  <2>1. ASSUME NEW s \in Sessions, CheckClaims(a, s) PROVE LeaseOK'
    BY <2>1 DEF CheckClaims
  <2>2. CASE CheckHead(a)
    BY <2>2 DEF CheckHead
  <2>3. CASE MergeRefused(a) \/ MergeReadHead(a)
    <3>1. UNCHANGED <<sessions, lock>>
      BY <2>3 DEF MergeRefused, MergeReadHead
    <3>2. BackToIdle(a) \/ UNCHANGED agentVars
      BY <2>3 DEF MergeRefused, MergeReadHead
    <3>3. \A b \in Agents : Working(b)' => Working(b) /\ sess'[b] = sess[b] /\ lease'[b] = lease[b]
      BY <3>2 DEF BackToIdle
    <3> QED
      BY <3>1, <3>3
  <2>4. CASE MergeBegin(a)
    BY <2>4 DEF MergeBegin
  <2>5. CASE MergeRenew(a)
    BY <2>5 DEF MergeRenew
  <2>6. CASE MergeWrite(a)
    BY <2>6 DEF MergeWrite, TxnOK
  <2>7. CASE MergeCommit(a)
    <3>1. sess[a] \in Sessions /\ ~LeaseRunning /\ \A b \in Agents : lease[b] <= txn.left
      BY <2>7 DEF MergeCommit, TxnOK, SessOK, Engaged
    <3>2. \A b \in Agents \ {a} : ~Working(b)
      BY <3>1, MergeAssumption DEF LeaseRunning, SessOK, Engaged
    <3>3. SelfOwned(sess[a])' /\ lock'.left = txn.left
      BY <2>7, <3>1 DEF MergeCommit, Takeover
    <3>4. \A b \in Agents \ {a} : pc'[b] = pc[b]
      BY <2>7 DEF MergeCommit
    <3>5. lease' = lease
      BY <2>7 DEF MergeCommit
    <3> QED
      BY <3>1, <3>2, <3>3, <3>4, <3>5
  <2>8. CASE MergeRenewCommit(a)
    BY <2>8 DEF MergeRenewCommit, Renewed, TxnOK
  <2> QED
    BY <1>4, <2>1, <2>2, <2>3, <2>4, <2>5, <2>6, <2>7, <2>8 DEF Ask
<1>5. ASSUME NEW a \in Agents, Finish(a) PROVE LeaseOK'
  BY <1>5 DEF Finish, VoidLeases, ReleaseLock, SessOK, Engaged
<1>6. ASSUME NEW a \in Agents, FinishRefused(a) \/ Land(a) \/ Crash(a) PROVE LeaseOK'
  BY <1>6 DEF FinishRefused, BackToIdle, Land, Crash
<1>7. CASE Push \/ UNCHANGED vars
  BY <1>7 DEF Push, vars
<1>8. CASE Tick
  BY <1>8 DEF Tick, Less
<1> QED
  BY <1>1, <1>2, <1>3, <1>4, <1>5, <1>6, <1>7, <1>8 DEF Next

\* The inductive invariant, put together.
LEMMA InvStep == Inv /\ [Next]_vars => Inv'
  BY TypeStep, SessStep, LockStep, TxnStep, LeaseStep DEF Inv

\* Between the compare and the commit no lease runs, so nobody merges under
\* one; from then on only agents of the holder have one.
LEMMA HeadStep == Inv /\ HeadOK /\ [Next]_vars => HeadOK'
<1> SUFFICES ASSUME Inv, HeadOK, [Next]_vars PROVE HeadOK'
  OBVIOUS
<1> USE DEF Inv, TypeOK, HeadOK, dbVars, agentVars
<1>a. txn.stage # "none" => txn.owner \in Agents
  BY DEF TxnOK
<1>1. ASSUME NEW s \in Sessions, StartSession(s) \/ RestartSession(s) PROVE HeadOK'
  BY <1>1 DEF StartSession, RestartSession
<1>2. ASSUME NEW s \in Sessions, lock' = ReleaseLock(s), UNCHANGED landed, CanWrite,
             UNCHANGED txn
      PROVE  HeadOK'
  BY <1>2 DEF ReleaseLock, FreeLock, CanWrite, TxnOK
<1>3. ASSUME NEW s \in Sessions, NEW f \in Files, AddClaim(s, f) PROVE HeadOK'
  BY <1>3 DEF AddClaim
<1>4. ASSUME NEW a \in Agents, Ask(a) PROVE HeadOK'
  <2>1. ASSUME NEW s \in Sessions, CheckClaims(a, s) PROVE HeadOK'
    BY <2>1 DEF CheckClaims
  <2>2. CASE CheckHead(a)
    <3>1. UNCHANGED <<lock, landed, txn>> /\ \A b \in Agents : since'[b] \subseteq since[b]
      BY <2>2 DEF CheckHead
    <3> QED
      BY <1>a, <3>1
  <2>3. CASE MergeRefused(a)
    BY <2>3 DEF MergeRefused, CanWrite, TxnOK
  <2>4. CASE MergeBegin(a) \/ MergeRenew(a)
    BY <2>4 DEF MergeBegin, MergeRenew
  <2>5. CASE MergeReadHead(a)
    <3>1. CASE HeadMatches(a)
      BY <2>5, <3>1 DEF MergeReadHead, HeadMatches
    <3>2. CASE ~HeadMatches(a)
      BY <2>5, <3>2 DEF MergeReadHead, NoTxn
    <3> QED
      BY <3>1, <3>2
  <2>6. CASE MergeWrite(a)
    BY <2>6 DEF MergeWrite
  <2>7. CASE MergeCommit(a)
    BY <2>7 DEF MergeCommit, NoTxn
  <2>8. CASE MergeRenewCommit(a)
    BY <2>8 DEF MergeRenewCommit, Renewed, NoTxn
  <2> QED
    BY <1>4, <2>1, <2>2, <2>3, <2>4, <2>5, <2>6, <2>7, <2>8 DEF Ask
<1>5. ASSUME NEW a \in Agents, Finish(a) PROVE HeadOK'
  BY <1>2, <1>5 DEF Finish, SessOK, Engaged
<1>6. ASSUME NEW a \in Agents, FinishRefused(a) PROVE HeadOK'
  BY <1>6 DEF FinishRefused, CanWrite, TxnOK
<1>7. ASSUME NEW a \in Agents, Crash(a) PROVE HeadOK'
  <2>1. UNCHANGED <<lock, landed>> /\ (txn' = NoTxn \/ txn' = txn)
        /\ \A b \in Agents : since'[b] \subseteq since[b]
    BY <1>7 DEF Crash
  <2> QED
    BY <1>a, <2>1 DEF NoTxn
<1>8. ASSUME NEW a \in Agents, Land(a) PROVE HeadOK'
  <2>1. UNCHANGED <<lock, txn>> /\ pc[a] = "granted"
    BY <1>8 DEF Land
  <2>2. CASE lease[a] > 0
    <3>1. lock.holder = sess[a] /\ sess[a] \in Sessions /\ LeaseRunning
      BY <2>1, <2>2, MergeAssumption
      DEF LeaseOK, Working, SelfOwned, SessOK, Engaged, LeaseRunning
    <3>2. txn.stage \notin {"write", "commit"}
      BY <1>a, <3>1 DEF TxnOK
    <3>3. landed' = landed \cup {sess[a]}
      BY <1>8, <2>2 DEF Land
    <3> QED
      BY <2>1, <3>1, <3>2, <3>3
  <2>3. CASE lease[a] = 0
    <3>1. MovedBy(Outside) /\ UNCHANGED landed
      BY <1>8, <2>3 DEF Land
    <3> QED
      BY <1>a, <2>1, <3>1 DEF MovedBy
  <2> QED
    BY <2>2, <2>3
<1>9. CASE Push
  BY <1>a, <1>9 DEF Push, MovedBy
<1>10. CASE Tick
  BY <1>10 DEF Tick
<1>11. CASE UNCHANGED vars
  BY <1>11 DEF vars
<1>12. ASSUME NEW s \in Sessions, AbandonSession(s) PROVE HeadOK'
  BY <1>2, <1>12 DEF AbandonSession
<1> QED
  BY <1>1, <1>3, <1>4, <1>5, <1>6, <1>7, <1>8, <1>9, <1>10, <1>11, <1>12 DEF Next

\* The later of two checks sees the earlier session's claims.  A session that
\* was not live when the other was vetted has to restart first, which empties it.
LEMMA WarnStep ==
  Inv /\ VettedOK /\ OneIsWarned /\ [Next]_vars => (VettedOK /\ OneIsWarned)'
<1> SUFFICES ASSUME Inv, VettedOK, OneIsWarned, [Next]_vars
             PROVE  (VettedOK /\ OneIsWarned)'
  OBVIOUS
<1> USE DEF Inv, TypeOK, VettedOK, OneIsWarned, Live, dbVars, agentVars
<1>1. ASSUME NEW s \in Sessions, StartSession(s) PROVE (VettedOK /\ OneIsWarned)'
  BY <1>1 DEF StartSession
<1>2. ASSUME NEW s \in Sessions, RestartSession(s) PROVE (VettedOK /\ OneIsWarned)'
  BY <1>2 DEF RestartSession
<1>3. ASSUME NEW s \in Sessions, AbandonSession(s) PROVE (VettedOK /\ OneIsWarned)'
  BY <1>3 DEF AbandonSession, Abandonable
<1>4. ASSUME NEW s \in Sessions, NEW f \in Files, AddClaim(s, f)
      PROVE  (VettedOK /\ OneIsWarned)'
  <2>1. UNCHANGED <<sessions, vetted>> /\ sessions[s] \in Live
    BY <1>4 DEF AddClaim
  <2>2. \A t \in Sessions : claims[t] \subseteq claims'[t]
    BY <1>4 DEF AddClaim
  <2>3. \A t \in Sessions \ {s} : claims'[t] = claims[t]
    BY <1>4 DEF AddClaim
  <2>4. VettedOK'
    BY <2>1, <2>2
  <2>5. OneIsWarned'
    BY <2>1, <2>3
  <2> QED
    BY <2>4, <2>5
<1>5. ASSUME NEW a \in Agents, Ask(a) PROVE (VettedOK /\ OneIsWarned)'
  <2>1. ASSUME NEW s \in Sessions, CheckClaims(a, s) PROVE (VettedOK /\ OneIsWarned)'
    BY <2>1 DEF CheckClaims, Overlaps
  <2>2. CASE CheckHead(a) \/ MergeRefused(a) \/ MergeBegin(a) \/ MergeRenew(a)
              \/ MergeReadHead(a) \/ MergeWrite(a) \/ MergeRenewCommit(a)
    BY <2>2 DEF CheckHead, MergeRefused, MergeBegin, MergeRenew, MergeReadHead, MergeWrite,
                MergeRenewCommit
  <2>3. CASE MergeCommit(a)
    <3>1. sessions[sess[a]] = "active" /\ sess[a] \in Sessions
      BY <2>3 DEF MergeCommit, TxnOK, SessOK, Engaged
    <3>2. sessions' = Takeover(sess[a]) /\ UNCHANGED <<claims, vetted>>
      BY <2>3 DEF MergeCommit
    <3>3. \A s \in Sessions : /\ sessions'[s] \in Live => sessions[s] \in Live
                              /\ sessions'[s] = "none" => sessions[s] = "none"
      BY <3>1, <3>2 DEF Takeover
    <3>4. VettedOK'
      BY <3>2, <3>3
    <3>5. OneIsWarned'
      <4> SUFFICES ASSUME NEW s \in Sessions, NEW t \in Sessions, s # t,
                          sessions'[s] \in Live, sessions'[t] \in Live
                   PROVE  claims[s] \cap claims[t] \cap vetted[s] \cap vetted[t] = {}
        BY <3>2
      <4>1. sessions[s] \in Live /\ sessions[t] \in Live
        BY <3>3
      <4> QED
        BY <4>1
    <3> QED
      BY <3>4, <3>5
  <2> QED
    BY <1>5, <2>1, <2>2, <2>3 DEF Ask
<1>6. ASSUME NEW a \in Agents, Finish(a) PROVE (VettedOK /\ OneIsWarned)'
  <2>1. sess[a] \in Sessions /\ sessions[sess[a]] = "merging"
    BY <1>6 DEF Finish, FinishGuard, SessOK, Engaged
  <2>2. UNCHANGED <<claims, vetted>>
        /\ \A s \in Sessions \ {sess[a]} : sessions'[s] = sessions[s]
    BY <1>6 DEF Finish
  <2>3. sessions'[sess[a]] # "none"
    BY <1>6, <2>1 DEF Finish
  <2>4. \A s \in Sessions : /\ sessions'[s] \in Live => sessions[s] \in Live
                            /\ sessions'[s] = "none" => sessions[s] = "none"
    BY <2>1, <2>2, <2>3
  <2>5. VettedOK'
    BY <2>2, <2>4
  <2>6. OneIsWarned'
    <3> SUFFICES ASSUME NEW s \in Sessions, NEW t \in Sessions, s # t,
                        sessions'[s] \in Live, sessions'[t] \in Live
                 PROVE  claims[s] \cap claims[t] \cap vetted[s] \cap vetted[t] = {}
      BY <2>2
    <3>1. sessions[s] \in Live /\ sessions[t] \in Live
      BY <2>4
    <3> QED
      BY <3>1
  <2> QED
    BY <2>5, <2>6
<1>7. ASSUME NEW a \in Agents, FinishRefused(a) \/ Land(a) \/ Crash(a)
      PROVE  (VettedOK /\ OneIsWarned)'
  BY <1>7 DEF FinishRefused, Land, Crash
<1>8. CASE Push \/ Tick \/ UNCHANGED vars
  BY <1>8 DEF Push, Tick, vars
<1> QED
  BY <1>1, <1>2, <1>3, <1>4, <1>5, <1>6, <1>7, <1>8 DEF Next

\* The sessions a step may take out of "done": only the one being restarted.
LEMMA DoneStep ==
  ASSUME Inv, [Next]_vars, NEW s \in Sessions, sessions[s] = "done", sessions'[s] # "done"
  PROVE  sessions'[s] = "active" /\ claims'[s] = {}
<1> USE DEF Inv, TypeOK, dbVars, agentVars
<1>1. CASE \E t \in Sessions : RestartSession(t)
  BY <1>1 DEF RestartSession
<1>2. CASE \E t \in Sessions : StartSession(t) \/ AbandonSession(t)
  BY <1>2 DEF StartSession, AbandonSession, Abandonable
<1>3. CASE \E a \in Agents : MergeCommit(a)
  BY <1>3 DEF MergeCommit, Takeover, TxnOK
<1>4. CASE \E a \in Agents : Finish(a)
  BY <1>4 DEF Finish, FinishGuard
<1>5. CASE UNCHANGED sessions
  BY <1>5
<1>6. ASSUME NEW a \in Agents, Ask(a), ~MergeCommit(a) PROVE UNCHANGED sessions
  BY <1>6 DEF Ask, CheckClaims, CheckHead, MergeRefused, MergeRenew, MergeBegin,
              MergeReadHead, MergeWrite, MergeRenewCommit
<1>7. ASSUME NEW a \in Agents, FinishRefused(a) \/ Land(a) \/ Crash(a)
      PROVE  UNCHANGED sessions
  BY <1>7 DEF FinishRefused, Land, Crash
<1>8. ASSUME NEW t \in Sessions, NEW f \in Files, AddClaim(t, f) PROVE UNCHANGED sessions
  BY <1>8 DEF AddClaim
<1>9. CASE Push \/ Tick \/ UNCHANGED vars
  BY <1>9 DEF Push, Tick, vars
<1> QED
  BY <1>1, <1>2, <1>3, <1>4, <1>5, <1>6, <1>7, <1>8, <1>9 DEF Next

-----------------------------------------------------------------------------
(* The theorems. *)

\* The invariant the others rest on holds of every run.
LEMMA Invariance == Spec => []Inv
<1>1. Init => Inv
  BY InitInv
<1>2. Inv /\ [Next]_vars => Inv'
  BY InvStep
<1> QED
  BY <1>1, <1>2, PTL DEF Spec

\* Every run of the merge protocol keeps its tables typed.
THEOREM Typing == Spec => []TypeOK
<1>1. Inv => TypeOK
  BY DEF Inv
<1> QED
  BY <1>1, Invariance, PTL

\* Exactly the lock row's holder is merging (merge, finish, abandon, takeover).
THEOREM LockAgrees == Spec => []LockMatchesSession
<1>1. Inv => LockMatchesSession
  BY DEF Inv
<1> QED
  BY <1>1, Invariance, PTL

\* An agent within the TTL merge() promised it holds the lock: takeovers,
\* renewals and slow calls never let a second agent merge beside it.
THEOREM Exclusion == Spec => []LeaseExclusion
<1>1. Inv => LeaseExclusion
  BY DEF Inv, LeaseOK, LeaseExclusion
<1> QED
  BY <1>1, Invariance, PTL

\* The compare-and-swap of merge(): since the head that the holder's grant
\* compared, no other session has merged under a lease.
THEOREM MergedSinceGrant == Spec => []NoMergeBehindGrant
<1>1. Init => HeadOK
  BY DEF Init, HeadOK, NoTxn, FreeLock
<1>2. Inv /\ HeadOK /\ [Next]_vars => HeadOK'
  BY HeadStep
<1>3. Inv /\ HeadOK => NoMergeBehindGrant
  <2> SUFFICES ASSUME Inv, HeadOK, NEW a \in Agents, Working(a)
               PROVE  landed \subseteq {sess[a]}
    BY DEF NoMergeBehindGrant
  <2>1. lock.holder = sess[a] /\ sess[a] \in Sessions
    BY DEF Inv, LeaseOK, SelfOwned, SessOK, Engaged, Working
  <2> QED
    BY <2>1, MergeAssumption DEF HeadOK
<1> QED
  BY <1>1, <1>2, <1>3, Invariance, PTL DEF Spec

\* Two live sessions with a file in common are never both told it is theirs.
THEOREM Warned == Spec => []OneIsWarned
<1>1. Init => VettedOK /\ OneIsWarned
  BY DEF Init, VettedOK, OneIsWarned
<1>2. Inv /\ (VettedOK /\ OneIsWarned) /\ [Next]_vars => (VettedOK /\ OneIsWarned)'
  BY WarnStep
<1> QED
  BY <1>1, <1>2, Invariance, PTL DEF Spec

\* A merge recorded as done stays recorded until the session is restarted.
THEOREM DoneStays == Spec => DoneIsKept
<1>1. Inv /\ [Next]_vars =>
        [\A s \in Sessions : (sessions[s] = "done" /\ sessions'[s] # "done") =>
           sessions'[s] = "active" /\ claims'[s] = {}]_vars
  BY DoneStep
<1> QED
  BY <1>1, Invariance, PTL DEF Spec, DoneIsKept

-----------------------------------------------------------------------------
(* The refinement: Merge implements LeasedLock.  The mapping: the lock row,  *)
(* and the agents that are inside the term merge() promised them.  Inv       *)
(* supplies what the abstract lock asks of each step: a lapsed row is        *)
(* trusted by nobody, and a row is never shorter than the promises.          *)

\* The agents that trust a row are its holder's, and none trusts a lapsed one.
LEMMA TrustInv ==
  ASSUME Inv, NEW a \in Trusting
  PROVE  a \in Agents /\ Working(a) /\ lock.holder = sess[a] /\ sess[a] \in Sessions /\ lock.left > 0
<1> USE DEF Inv, TypeOK, LeaseOK, SelfOwned, SessOK, Engaged, Working, Trusting
<1> QED
  OBVIOUS

\* A step that leaves the row alone and gives nobody trust: an agent that had
\* it may lose it.
LEMMA Losing ==
  ASSUME Inv, NEW a \in Agents, UNCHANGED lock,
         \A b \in Agents \ {a} : Working(b)' <=> Working(b), ~Working(a)'
  PROVE  [Lock!Next]_Lock!lockVars
<1>1. Trusting' = Trusting \ {a}
  BY DEF Trusting
<1>2. Lock!Forget(a)
  BY <1>1 DEF Lock!Forget
<1> QED
  BY <1>2 DEF Lock!Next

\* A step that touches neither the row nor anybody's trust.
LEMMA Keeping ==
  ASSUME UNCHANGED lock, \A b \in Agents : Working(b)' <=> Working(b)
  PROVE  [Lock!Next]_Lock!lockVars
<1>1. Trusting' = Trusting
  BY DEF Trusting
<1> QED
  BY <1>1 DEF Lock!lockVars

\* finish and abandon: the calls that close a session void its promises.
LEMMA Closing ==
  ASSUME Inv, NEW s \in Sessions, lock' = ReleaseLock(s), lease' = VoidLeases(s),
         \A b \in Agents : sess[b] # s => pc'[b] = pc[b]
  PROVE  [Lock!Next]_Lock!lockVars
<1> USE DEF VoidLeases, Working
<1>1. \A b \in Agents : sess[b] = s => ~Working(b)'
  BY DEF Inv, TypeOK
<1>2. \A b \in Agents : sess[b] # s => (Working(b)' <=> Working(b))
  OBVIOUS
<1>3. CASE lock.holder = s
  <2>1. Trusting' = {}
    BY <1>1, <1>2, <1>3, TrustInv DEF Trusting
  <2>2. lock'.holder = NoSession /\ lock'.left = 0 /\ lock.holder # NoSession
    BY <1>3, MergeAssumption DEF ReleaseLock, FreeLock
  <2> QED
    BY <2>1, <2>2 DEF Lock!Next, Lock!Release
<1>4. CASE lock.holder # s
  <2>1. \A b \in Agents : Working(b) => sess[b] # s
    BY <1>4, TrustInv DEF Trusting
  <2>2. UNCHANGED lock
    BY <1>4 DEF ReleaseLock
  <2> QED
    BY <1>1, <1>2, <2>1, <2>2, Keeping
<1> QED
  BY <1>3, <1>4

\* The commit of a fresh grant: the row was free or lapsed when the
\* transaction began, and nobody could change that under it.
LEMMA Granting ==
  ASSUME Inv, NEW a \in Agents, MergeCommit(a)
  PROVE  [Lock!Next]_Lock!lockVars
<1> USE DEF Inv, TypeOK
<1>1. pc[a] = "checked" /\ ~LeaseRunning /\ sess[a] \in Sessions
  BY DEF MergeCommit, TxnOK, SessOK, Engaged
<1>2. Trusting = {}
  BY <1>1, TrustInv, MergeAssumption DEF LeaseRunning
<1>3. lock'.holder = sess[a] /\ lock'.left = txn.left /\ lease' = lease
  BY DEF MergeCommit
<1>4. \A b \in Agents \ {a} : ~Working(b)'
  <2>1. \A b \in Agents \ {a} : pc'[b] = pc[b]
    BY DEF MergeCommit
  <2> QED
    BY <1>2, <1>3, <2>1 DEF Working, Trusting
<1>5. lease[a] <= txn.left
  BY DEF MergeCommit, TxnOK
<1>6. lock.holder = NoSession \/ lock.left = 0
  BY <1>1 DEF LeaseRunning
<1>7. Trusting' \in Lock!Trust(a, txn.left)
  <2>1. CASE lease[a] > 0
    <3>1. Trusting' \in {{}, {a}} /\ txn.left > 0
      BY <1>4, <1>5, <2>1 DEF Trusting
    <3> QED
      BY <3>1 DEF Lock!Trust
  <2>2. CASE lease[a] = 0
    <3>1. Trusting' = {}
      BY <1>3, <1>4, <2>2 DEF Working, Trusting
    <3> QED
      BY <3>1 DEF Lock!Trust
  <2> QED
    BY <2>1, <2>2
<1>8. Lock!Grant(a, sess[a], txn.left)
  BY <1>2, <1>3, <1>6, <1>7 DEF Lock!Grant
<1> QED
  BY <1>1, <1>8 DEF Lock!Next

\* The commit of a renewal: the row gets the deadline the transaction computed.
LEMMA Renewing ==
  ASSUME Inv, NEW a \in Agents, MergeRenewCommit(a), lock.left <= txn.left
  PROVE  [Lock!Next]_Lock!lockVars
<1> USE DEF Inv, TypeOK
<1>1. SelfOwned(sess[a]) /\ sess[a] \in Sessions /\ pc[a] = "checked"
  BY DEF MergeRenewCommit, TxnOK, SessOK, Engaged
<1>2. lock'.holder = lock.holder /\ lock'.left = txn.left /\ lock.holder # NoSession
  BY <1>1, MergeAssumption DEF MergeRenewCommit, Renewed, SelfOwned
<1>3. \A b \in Agents \ {a} : Working(b)' <=> Working(b)
  BY DEF MergeRenewCommit, Working
<1>4. ~Working(a) /\ lease[a] <= txn.left /\ lease' = lease
  BY <1>1 DEF Working, MergeRenewCommit, TxnOK
<1>5. \E t \in Lock!Trust(a, txn.left) : Trusting' = Trusting \cup t
  <2>1. CASE Working(a)'
    <3>1. Trusting' = Trusting \cup {a} /\ txn.left > 0
      BY <1>3, <1>4, <2>1 DEF Trusting, Working
    <3> QED
      BY <3>1 DEF Lock!Trust
  <2>2. CASE ~Working(a)'
    <3>1. Trusting' = Trusting \cup {}
      BY <1>3, <1>4, <2>2 DEF Trusting
    <3> QED
      BY <3>1 DEF Lock!Trust
  <2> QED
    BY <2>1, <2>2
<1>6. Lock!Renew(a, txn.left)
  BY <1>2, <1>5 DEF Lock!Renew
<1> QED
  BY <1>6 DEF Lock!Next

\* A tick: no promise outlives the row.
LEMMA Ageing ==
  ASSUME Inv, Tick
  PROVE  [Lock!Next]_Lock!lockVars
<1> USE DEF Inv, TypeOK
<1>1. \A b \in Agents : Working(b)' => Working(b) /\ lease[b] > 1
  BY DEF Tick, Less, Working
<1>2. lock'.holder = lock.holder /\ lock'.left = Less(lock.left)
  BY DEF Tick
<1>3. Trusting' \in SUBSET Trusting
  BY <1>1 DEF Trusting
<1>4. lock'.left = 0 => Trusting' = {}
  BY <1>1, <1>2 DEF Trusting, LeaseOK, Less
<1>5. Lock!Age
  BY <1>2, <1>3, <1>4 DEF Lock!Age, Less
<1> QED
  BY <1>5 DEF Lock!Next

-----------------------------------------------------------------------------
\* A running renewal never shortens the row: its deadline is the later one.
RenewOK == txn.stage = "renewed" => lock.left <= txn.left

LEMMA RenewStep == Inv /\ RenewOK /\ [Next]_vars => RenewOK'
<1> SUFFICES ASSUME Inv, RenewOK, [Next]_vars PROVE RenewOK'
  OBVIOUS
<1> USE DEF Inv, TypeOK, RenewOK, dbVars, agentVars
<1>1. ASSUME NEW s \in Sessions, StartSession(s) \/ RestartSession(s) PROVE RenewOK'
  BY <1>1 DEF StartSession, RestartSession
<1>2. ASSUME NEW s \in Sessions, AbandonSession(s) PROVE RenewOK'
  BY <1>2 DEF AbandonSession, CanWrite, TxnOK
<1>3. ASSUME NEW s \in Sessions, NEW f \in Files, AddClaim(s, f) PROVE RenewOK'
  BY <1>3 DEF AddClaim
<1>4. ASSUME NEW a \in Agents, Ask(a) PROVE RenewOK'
  <2>1. CASE MergeRenew(a)
    BY <2>1, MergeAssumption DEF MergeRenew
  <2>2. CASE MergeBegin(a) \/ MergeReadHead(a) \/ MergeWrite(a)
    <3>1. CASE MergeBegin(a)
      BY <3>1 DEF MergeBegin
    <3>2. CASE MergeReadHead(a)
      <4>1. txn' = [txn EXCEPT !.stage = "write"] \/ txn' = NoTxn
        BY <3>2 DEF MergeReadHead
      <4> QED
        BY <4>1 DEF NoTxn
    <3>3. CASE MergeWrite(a)
      BY <3>3 DEF MergeWrite
    <3> QED
      BY <2>2, <3>1, <3>2, <3>3
  <2>3. CASE MergeCommit(a) \/ MergeRenewCommit(a)
    BY <2>3 DEF MergeCommit, MergeRenewCommit, NoTxn
  <2>4. CASE CheckHead(a) \/ MergeRefused(a) \/ \E s \in Sessions : CheckClaims(a, s)
    BY <2>4 DEF CheckHead, MergeRefused, CheckClaims
  <2> QED
    BY <1>4, <2>1, <2>2, <2>3, <2>4 DEF Ask
<1>5. ASSUME NEW a \in Agents, Finish(a) PROVE RenewOK'
  BY <1>5 DEF Finish, CanWrite, TxnOK
<1>6. ASSUME NEW a \in Agents, FinishRefused(a) \/ Land(a) \/ Crash(a) PROVE RenewOK'
  BY <1>6 DEF FinishRefused, Land, Crash, NoTxn
<1>7. CASE Push \/ UNCHANGED vars
  BY <1>7 DEF Push, vars
<1>8. CASE Tick
  BY <1>8 DEF Tick, Less
<1> QED
  BY <1>1, <1>2, <1>3, <1>4, <1>5, <1>6, <1>7, <1>8 DEF Next

\* Every step of the merge protocol is a step of the lock, or none.
LEMMA RefineStep == Inv /\ RenewOK /\ [Next]_vars => [Lock!Next]_Lock!lockVars
<1> SUFFICES ASSUME Inv, RenewOK, [Next]_vars PROVE [Lock!Next]_Lock!lockVars
  OBVIOUS
<1> USE DEF dbVars, agentVars
<1>1. ASSUME NEW s \in Sessions, StartSession(s) \/ RestartSession(s)
      PROVE  [Lock!Next]_Lock!lockVars
  <2>1. UNCHANGED <<lock, pc, lease>>
    BY <1>1 DEF StartSession, RestartSession
  <2> QED
    BY <2>1, Keeping DEF Working
<1>2. ASSUME NEW s \in Sessions, AbandonSession(s) PROVE [Lock!Next]_Lock!lockVars
  BY <1>2, Closing DEF AbandonSession
<1>3. ASSUME NEW s \in Sessions, NEW f \in Files, AddClaim(s, f)
      PROVE  [Lock!Next]_Lock!lockVars
  <2>1. UNCHANGED <<lock, pc, lease>>
    BY <1>3 DEF AddClaim
  <2> QED
    BY <2>1, Keeping DEF Working
<1>4. ASSUME NEW a \in Agents, Ask(a) PROVE [Lock!Next]_Lock!lockVars
  <2>1. CASE MergeCommit(a)
    BY <2>1, Granting
  <2>2. CASE MergeRenewCommit(a)
    BY <2>2, Renewing DEF MergeRenewCommit, RenewOK
  <2>3. ASSUME Ask(a), ~MergeCommit(a), ~MergeRenewCommit(a)
        PROVE  /\ UNCHANGED lock
               /\ \A b \in Agents \ {a} : Working(b)' <=> Working(b)
               /\ Working(a)' => Working(a)
    <3> USE DEF Inv, TypeOK, Working
    <3>1. ASSUME NEW s \in Sessions, CheckClaims(a, s)
          PROVE  UNCHANGED <<lock, lease>> /\ pc' = [pc EXCEPT ![a] = "checking"]
      BY <3>1 DEF CheckClaims
    <3>2. CASE CheckHead(a)
      BY <3>2 DEF CheckHead
    <3>3. CASE MergeRefused(a)
      BY <3>3 DEF MergeRefused, BackToIdle
    <3>4. CASE MergeRenew(a)
      BY <3>4 DEF MergeRenew
    <3>5. CASE MergeBegin(a)
      BY <3>5 DEF MergeBegin
    <3>6. CASE MergeReadHead(a)
      <4>1. UNCHANGED lock /\ (BackToIdle(a) \/ UNCHANGED agentVars)
        BY <3>6 DEF MergeReadHead
      <4> QED
        BY <4>1 DEF BackToIdle
    <3>7. CASE MergeWrite(a)
      BY <3>7 DEF MergeWrite, TxnOK
    <3> QED
      BY <2>3, <3>1, <3>2, <3>3, <3>4, <3>5, <3>6, <3>7 DEF Ask
  <2>4. CASE ~MergeCommit(a) /\ ~MergeRenewCommit(a)
    <3>1. CASE Working(a)'
      BY <1>4, <2>3, <2>4, <3>1, Keeping
    <3>2. CASE ~Working(a)'
      BY <1>4, <2>3, <2>4, <3>2, Losing
    <3> QED
      BY <3>1, <3>2
  <2> QED
    BY <2>1, <2>2, <2>4
<1>5. ASSUME NEW a \in Agents, Finish(a) PROVE [Lock!Next]_Lock!lockVars
  <2>1. sess[a] \in Sessions
    BY <1>5 DEF Finish, Inv, SessOK, Engaged
  <2>2. \A b \in Agents : sess[b] # sess[a] => pc'[b] = pc[b]
    BY <1>5 DEF Finish, Inv, TypeOK
  <2>3. lock' = ReleaseLock(sess[a]) /\ lease' = VoidLeases(sess[a])
    BY <1>5 DEF Finish
  <2> QED
    BY <2>1, <2>2, <2>3, Closing
<1>6. ASSUME NEW a \in Agents, FinishRefused(a) \/ Crash(a) PROVE [Lock!Next]_Lock!lockVars
  <2> USE DEF Inv, TypeOK, Working
  <2>1. UNCHANGED lock /\ \A b \in Agents \ {a} : Working(b)' <=> Working(b)
    BY <1>6 DEF FinishRefused, BackToIdle, Crash
  <2>2. ~Working(a)'
    BY <1>6 DEF FinishRefused, BackToIdle, Crash
  <2> QED
    BY <2>1, <2>2, Losing
<1>7. ASSUME NEW a \in Agents, Land(a) PROVE [Lock!Next]_Lock!lockVars
  BY <1>7, Keeping DEF Land, Inv, TypeOK, Working
<1>8. CASE Push \/ UNCHANGED vars
  <2>1. UNCHANGED <<lock, pc, lease>>
    BY <1>8 DEF Push, vars
  <2> QED
    BY <2>1, Keeping DEF Working
<1>9. CASE Tick
  BY <1>9, Ageing
<1> QED
  BY <1>1, <1>2, <1>3, <1>4, <1>5, <1>6, <1>7, <1>8, <1>9 DEF Next

\* merge.py is a lock with a lease: it changes hands only when it is free or
\* lapsed and nobody trusts it, and it is never trusted longer than it runs.
THEOREM Implements == Spec => ImplementsLock
<1>1. Init => Lock!Init /\ RenewOK
  <2> SUFFICES ASSUME Init PROVE Lock!Init /\ RenewOK
    OBVIOUS
  <2>1. Trusting = {}
    BY DEF Init, Trusting, Working
  <2> QED
    BY <2>1 DEF Init, FreeLock, NoTxn, RenewOK, Lock!Init
<1>2. Inv /\ RenewOK /\ [Next]_vars => RenewOK'
  BY RenewStep
<1>3. Inv /\ RenewOK /\ [Next]_vars => [Lock!Next]_Lock!lockVars
  BY RefineStep
<1> QED
  BY <1>1, <1>2, <1>3, Invariance, PTL DEF Spec, ImplementsLock, Lock!Spec
=============================================================================
