------------------------------ MODULE SweepProofs ------------------------------
(***************************************************************************)
(* Sweeps, for any items, lifecycles and batches: what next_batch offers,  *)
(* that items move along declared transitions only, and that their order   *)
(* is stable.                                                              *)
(*                                                                         *)
(* add_items is a loop, so the proof has an invariant of the loop beside   *)
(* that of the sweep: LoopInv says what the first k upserts of a batch     *)
(* have made of the rows, and LoopStep that the next one keeps it.         *)
(***************************************************************************)
EXTENDS Sweep, WellFoundedInduction, TLAPS

Stored(rs, i) == rs[i] # NoItem

\* No two items of rs share a position.
Distinct(rs) ==
  \A i, j \in Items : Stored(rs, i) /\ Stored(rs, j) /\ i # j => rs[i].position # rs[j].position

\* Finitely many positions are taken.
Limited(rs) == \E n \in Nat : \A i \in Items : Stored(rs, i) => rs[i].position <= n

\* The flag next_batch reads is the state of the item.
FlagIsState ==
  sweep # "absent" /\ ~Finished(Head(life.states)) =>
    \A i \in Held : rows[i].processed <=> Finished(rows[i].state)

SweepInv ==
  /\ SweepTypeOK
  /\ sweep = "absent" => Held = {}
  /\ sweep # "absent" => Declared(life)
  /\ Distinct(rows) /\ Limited(rows)
  /\ FlagIsState

\* What the first k upserts of a batch have made of the rows.
LoopInv(rs, batch, k) ==
  /\ rs \in [Items -> Row \cup {NoItem}]
  /\ \A i \in Items : rs[i] = rows[i] \/ i \in ToSet(batch)
  /\ \A i \in Held :
       /\ Stored(rs, i)
       /\ rs[i].state = rows[i].state /\ rs[i].processed = rows[i].processed
       /\ rs[i].position = rows[i].position
       /\ rs[i].count <= rows[i].count + k
  /\ \A i \in Items \ Held : Stored(rs, i) =>
       /\ rs[i].state = Head(life.states) /\ rs[i].processed = FALSE
       /\ rs[i].count <= k
       /\ \A j \in Held : rows[j].position < rs[i].position
  /\ Distinct(rs) /\ Limited(rs)

-----------------------------------------------------------------------------
(* Positions. *)

\* A non-empty set of numbers has a least element.
LEMMA LeastExists ==
  ASSUME NEW S \in SUBSET Nat, S # {}
  PROVE  \E m \in S : \A k \in S : m <= k
  <1>1. PICK m \in S : \A k \in S : ~(<<k, m>> \in OpToRel(<, Nat))
    BY NatLessThanWellFounded, WFMin
  <1>2. \A k \in S : k < m => <<k, m>> \in OpToRel(<, Nat)
    BY DEF OpToRel
  <1>3. \A k \in S : k \in Nat /\ m \in Nat /\ ~(k < m)
    BY <1>1, <1>2
  <1> QED BY <1>3

\* A set of numbers with a bound has a greatest element.
LEMMA GreatestExists ==
  ASSUME NEW S \in SUBSET Nat, S # {}, NEW n \in Nat, \A k \in S : k <= n
  PROVE  \E m \in S : \A k \in S : k <= m
  <1> DEFINE Gaps == {n - k : k \in S}
  <1>1. Gaps \in SUBSET Nat /\ Gaps # {}
    <2>1. \A k \in S : k \in Nat /\ n - k \in Nat
      OBVIOUS
    <2> QED BY <2>1
  <1>2. PICK g \in Gaps : \A h \in Gaps : g <= h
    BY <1>1, LeastExists
  <1>3. PICK m \in S : g = n - m
    BY <1>2
  <1>4. \A k \in S : n - m <= n - k
    BY <1>2, <1>3
  <1>5. \A k \in S : k \in Nat /\ k <= m
    BY <1>4
  <1> QED BY <1>5

\* _next_position is behind every item, whatever is archived.
LEMMA NextPositionIsLast ==
  ASSUME NEW rs \in [Items -> Row \cup {NoItem}], Limited(rs)
  PROVE  /\ NextPosition(rs) \in Nat
         /\ \A i \in Items : Stored(rs, i) => rs[i].position < NextPosition(rs)
  <1> DEFINE p == {rs[i].position : i \in {j \in Items : rs[j] # NoItem}}
  <1>1. \A i \in Items : Stored(rs, i) => rs[i].position \in Nat /\ rs[i].position \in p
    BY DEF Stored, Row
  <1>2. p \in SUBSET Nat
    BY DEF Row
  <1>3. PICK n \in Nat : \A k \in p : k <= n
    BY DEF Limited, Stored
  <1>4. NextPosition(rs) = IF p = {} THEN 0 ELSE 1 + CHOOSE m \in p : \A k \in p : k <= m
    BY DEF NextPosition
  <1> HIDE DEF p
  <1>5. CASE p = {}
    BY <1>1, <1>4, <1>5
  <1>6. CASE p # {}
    <2> DEFINE top == CHOOSE m \in p : \A k \in p : k <= m
    <2>1. top \in p /\ \A k \in p : k <= top
      BY <1>2, <1>3, <1>6, GreatestExists
    <2>2. NextPosition(rs) = 1 + top
      BY <1>4, <1>6
    <2> HIDE DEF top
    <2>3. top \in Nat
      BY <2>1, <1>2
    <2> QED BY <2>1, <2>2, <2>3, <1>1
  <1> QED BY <1>5, <1>6

-----------------------------------------------------------------------------
(* The loop of add_items. *)

\* The recursion of Upserts has a solution, which Upserts then is.
LEMMA Unfold ==
  ASSUME NEW batch \in Seq(Items)
  PROVE  /\ Upserts(batch)[0] = rows
         /\ \A k \in 1 .. Len(batch) :
              Upserts(batch)[k] = Upsert(Upserts(batch)[k - 1], batch[k])
  <1> DEFINE Solves(f, n) ==
        f = [k \in 0 .. n |-> IF k = 0 THEN rows ELSE Upsert(f[k - 1], batch[k])]
      Unsolved == {n \in Nat : \A f : ~Solves(f, n)}
  <1>1. Unsolved = {}
    <2>1. SUFFICES ASSUME Unsolved # {} PROVE FALSE
      OBVIOUS
    <2>2. PICK n \in Unsolved : \A m \in Unsolved : n <= m
      BY <2>1, LeastExists
    <2>3. n # 0
      <3>1. Solves([k \in 0 .. 0 |-> rows], 0)
        OBVIOUS
      <3> QED BY <3>1, <2>2
    <2>4. n - 1 \in Nat /\ ~(n <= n - 1)
      BY <2>3
    <2>5. PICK f : Solves(f, n - 1)
      <3>1. n - 1 \notin Unsolved
        BY <2>2, <2>4
      <3> HIDE DEF Solves
      <3> QED BY <3>1, <2>4
    <2> DEFINE g == [k \in 0 .. n |-> IF k = n THEN Upsert(f[n - 1], batch[n]) ELSE f[k]]
    <2>6. \A k \in 0 .. n : g[k] = IF k = 0 THEN rows ELSE Upsert(g[k - 1], batch[k])
      <3> SUFFICES ASSUME NEW k \in 0 .. n
                   PROVE  g[k] = IF k = 0 THEN rows ELSE Upsert(g[k - 1], batch[k])
        OBVIOUS
      <3>1. CASE k = n
        <4>1. g[k] = Upsert(f[n - 1], batch[n])
          BY <3>1
        <4>2. g[k - 1] = f[n - 1]
          BY <3>1, <2>4
        <4> QED BY <4>1, <4>2, <3>1, <2>3
      <3>2. CASE k # n
        <4>1. k \in 0 .. (n - 1) /\ g[k] = f[k]
          BY <3>2
        <4>2. f[k] = IF k = 0 THEN rows ELSE Upsert(f[k - 1], batch[k])
          BY <4>1, <2>5
        <4>3. k # 0 => g[k - 1] = f[k - 1]
          BY <4>1
        <4> QED BY <4>1, <4>2, <4>3
      <3> QED BY <3>1, <3>2
    <2>7. g = [k \in 0 .. n |-> g[k]]
      OBVIOUS
    <2>8. Solves(g, n)
      <3> HIDE DEF g
      <3> QED BY <2>6, <2>7
    <2> QED BY <2>2, <2>8
  <1>2. Len(batch) \in Nat
    OBVIOUS
  <1>3. \E f : Solves(f, Len(batch))
    BY <1>1, <1>2
  <1>4. Upserts(batch) = CHOOSE f : Solves(f, Len(batch))
    BY DEF Upserts
  <1>5. Solves(Upserts(batch), Len(batch))
    <2> HIDE DEF Solves
    <2> QED BY <1>3, <1>4
  <1> DEFINE u == Upserts(batch)
  <1>6. u = [k \in 0 .. Len(batch) |-> IF k = 0 THEN rows ELSE Upsert(u[k - 1], batch[k])]
    BY <1>5
  <1> HIDE DEF u
  <1>7. \A k \in 0 .. Len(batch) : u[k] = IF k = 0 THEN rows ELSE Upsert(u[k - 1], batch[k])
    BY <1>6
  <1>8. u[0] = rows /\ \A k \in 1 .. Len(batch) : u[k] = Upsert(u[k - 1], batch[k])
    BY <1>2, <1>7
  <1> QED BY <1>8 DEF u

\* The rows before the first upsert.
LEMMA LoopStart ==
  ASSUME SweepInv, NEW batch \in Seq(Items)
  PROVE  LoopInv(rows, batch, 0)
  <1>1. \A i \in Held : rows[i].count \in Nat /\ rows[i].count <= rows[i].count + 0
    BY DEF SweepInv, SweepTypeOK, Held, Row
  <1> QED BY <1>1 DEF SweepInv, SweepTypeOK, LoopInv, Held, Stored

\* A row seen again is a row, with one count more and the rest as it was.
LEMMA SeenAgainIsRow ==
  ASSUME NEW r \in Row, r.count + 1 <= MaxCount
  PROVE  /\ SeenAgain(r) \in Row
         /\ SeenAgain(r).state = r.state /\ SeenAgain(r).processed = r.processed
         /\ SeenAgain(r).position = r.position /\ SeenAgain(r).count = r.count + 1
  <1> DEFINE new == SeenAgain(r)
  <1>1. PICK s \in States, p \in BOOLEAN, n \in 1 .. MaxCount, a \in BOOLEAN, at \in Nat :
          r = [state |-> s, processed |-> p, count |-> n, archived |-> a, position |-> at]
    BY DEF Row
  <1>2. r.count = n /\ n + 1 \in 1 .. MaxCount
    BY <1>1, SweepAssumption
  <1>3. new = [state |-> s, processed |-> p, count |-> n + 1, archived |-> FALSE,
               position |-> at]
    <2> DEFINE mid == [r EXCEPT !.count = n + 1]
    <2>1. mid = [state |-> s, processed |-> p, count |-> n + 1, archived |-> a,
                 position |-> at]
      BY <1>1
    <2>2. new = [mid EXCEPT !.archived = FALSE]
      BY <1>2 DEF SeenAgain
    <2> HIDE DEF mid, new
    <2> QED BY <2>1, <2>2
  <1> HIDE DEF new
  <1>4. new \in Row
    BY <1>2, <1>3 DEF Row
  <1> QED BY <1>1, <1>3, <1>4 DEF new

\* The next upsert, of an item with room for a count, is one of a new row behind
\* the others or leaves the state, the flag and the position of the row it finds.
LEMMA LoopStep ==
  ASSUME SweepInv, sweep = "active",
         NEW batch \in Seq(Items), Len(batch) <= MaxCount,
         \A i \in Held \cap ToSet(batch) : rows[i].count + Len(batch) <= MaxCount,
         NEW rs, NEW k \in 1 .. Len(batch), LoopInv(rs, batch, k - 1)
  PROVE  LoopInv(Upsert(rs, batch[k]), batch, k)
  <1> DEFINE it == batch[k]
             at == NextPosition(rs)
             row == IF rs[it] = NoItem THEN NewRow(at) ELSE SeenAgain(rs[it])
             new == Upsert(rs, it)
  <1>1. it \in Items /\ it \in ToSet(batch)
    BY DEF ToSet
  <1>2. /\ rs \in [Items -> Row \cup {NoItem}]
        /\ \A i \in Items : rs[i] = rows[i] \/ i \in ToSet(batch)
        /\ Distinct(rs) /\ Limited(rs)
    BY DEF LoopInv
  <1>3. /\ \A i \in Held :
             /\ Stored(rs, i)
             /\ rs[i].state = rows[i].state /\ rs[i].processed = rows[i].processed
             /\ rs[i].position = rows[i].position
             /\ rs[i].count <= rows[i].count + (k - 1)
        /\ \A i \in Items \ Held : Stored(rs, i) =>
             /\ rs[i].state = Head(life.states) /\ rs[i].processed = FALSE
             /\ rs[i].count <= k - 1
             /\ \A j \in Held : rows[j].position < rs[i].position
    BY DEF LoopInv
  <1>4. at \in Nat /\ \A i \in Items : Stored(rs, i) => rs[i].position < at
    BY <1>2, NextPositionIsLast
  <1>5. Head(life.states) \in States
    BY SweepAssumption DEF SweepInv, SweepTypeOK, Declared, Lifecycle
  <1>6. new = [rs EXCEPT ![it] = row]
    BY <1>1 DEF Upsert
  <1>7. /\ \A i \in Held : rows[i].count \in Nat
        /\ \A i \in Items : Stored(rs, i) => rs[i] \in Row /\ rs[i].count \in Nat
    BY <1>2 DEF SweepInv, SweepTypeOK, Held, Row, Stored
  <1>8. k \in Nat /\ k - 1 <= k /\ k <= Len(batch) /\ Len(batch) \in Nat
    OBVIOUS
  <1>9. CASE ~Stored(rs, it)
    <2>1. row = [state |-> Head(life.states), processed |-> FALSE, count |-> 1,
                 archived |-> FALSE, position |-> at]
      BY <1>9 DEF Stored, NewRow
    <2> HIDE DEF row, at, it, new
    <2>2. row \in Row
      BY <2>1, <1>4, <1>5, <1>8, SweepAssumption DEF Row
    <2>3. row # NoItem
      BY <2>2, NullAssumption
    <2>4. /\ row.state = Head(life.states) /\ row.processed = FALSE
          /\ row.count <= k /\ row.position = at
      BY <2>1
    <2>5. it \in Items \ Held
      BY <1>1, <1>3, <1>9
    <2>6. \A j \in Held : rows[j].position < at
      BY <1>3, <1>4 DEF Held
    <2>7. /\ new \in [Items -> Row \cup {NoItem}]
          /\ new[it] = row
          /\ \A i \in Items : i # it => new[i] = rs[i]
      BY <1>1, <1>2, <1>6, <2>2
    <2>8. \A i \in Items : new[i] = rows[i] \/ i \in ToSet(batch)
      BY <1>1, <1>2, <2>7
    <2>9. \A i \in Held :
            /\ Stored(new, i)
            /\ new[i].state = rows[i].state /\ new[i].processed = rows[i].processed
            /\ new[i].position = rows[i].position
            /\ new[i].count <= rows[i].count + k
      <3> SUFFICES ASSUME NEW i \in Held
                   PROVE  /\ Stored(new, i)
                          /\ new[i].state = rows[i].state /\ new[i].processed = rows[i].processed
                          /\ new[i].position = rows[i].position
                          /\ new[i].count <= rows[i].count + k
        OBVIOUS
      <3>1. i \in Items /\ i # it /\ new[i] = rs[i] /\ Stored(rs, i)
        BY <1>3, <2>5, <2>7 DEF Held
      <3>2. rs[i].count <= rows[i].count + (k - 1) /\ rs[i].count \in Nat /\ rows[i].count \in Nat
        BY <1>3, <1>7, <3>1
      <3> QED BY <1>3, <1>8, <3>1, <3>2 DEF Stored
    <2>10. \A i \in Items \ Held : Stored(new, i) =>
             /\ new[i].state = Head(life.states) /\ new[i].processed = FALSE
             /\ new[i].count <= k
             /\ \A j \in Held : rows[j].position < new[i].position
      <3> SUFFICES ASSUME NEW i \in Items \ Held, Stored(new, i)
                   PROVE  /\ new[i].state = Head(life.states) /\ new[i].processed = FALSE
                          /\ new[i].count <= k
                          /\ \A j \in Held : rows[j].position < new[i].position
        OBVIOUS
      <3>1. CASE i = it
        BY <2>4, <2>6, <2>7, <3>1
      <3>2. CASE i # it
        <4>1. new[i] = rs[i] /\ Stored(rs, i)
          BY <2>7, <3>2 DEF Stored
        <4>2. rs[i].count <= k - 1 /\ rs[i].count \in Nat
          BY <1>3, <1>7, <4>1
        <4> QED BY <1>3, <1>8, <4>1, <4>2
      <3> QED BY <3>1, <3>2
    <2>11. Distinct(new)
      <3>1. \A i \in Items : Stored(rs, i) => rs[i].position \in Nat /\ rs[i].position # at
        BY <1>4, <1>7 DEF Row
      <3>2. \A i \in Items \ {it} : (Stored(new, i) <=> Stored(rs, i)) /\ new[i] = rs[i]
        BY <2>7 DEF Stored
      <3>3. new[it].position = at
        BY <2>4, <2>7
      <3> QED BY <1>2, <3>1, <3>2, <3>3 DEF Distinct
    <2>12. Limited(new)
      <3>1. \A i \in Items : Stored(new, i) => new[i].position <= at
        BY <1>4, <1>7, <2>4, <2>7 DEF Stored, Row
      <3> QED BY <1>4, <3>1 DEF Limited
    <2>13. LoopInv(new, batch, k)
      BY <2>7, <2>8, <2>9, <2>10, <2>11, <2>12 DEF LoopInv
    <2> QED BY <2>13 DEF new, it
  <1>10. CASE Stored(rs, it)
    <2>1. rs[it] \in Row /\ row = SeenAgain(rs[it])
      BY <1>1, <1>7, <1>10 DEF Stored
    <2> HIDE DEF row, at, it, new
    <2>2. rs[it].count + 1 <= MaxCount
      <3>1. CASE it \in Held
        <4>1. /\ rs[it].count <= rows[it].count + (k - 1)
              /\ rows[it].count + Len(batch) <= MaxCount
              /\ rs[it].count \in Nat /\ rows[it].count \in Nat
          BY <3>1, <1>1, <1>3, <1>7, <1>10
        <4> QED BY <4>1, <1>8, SweepAssumption
      <3>2. CASE it \notin Held
        <4>1. rs[it].count <= k - 1 /\ rs[it].count \in Nat
          BY <3>2, <1>1, <1>3, <1>7, <1>10
        <4> QED BY <4>1, <1>8, SweepAssumption
      <3> QED BY <3>1, <3>2
    <2>3. /\ row \in Row
          /\ row.state = rs[it].state /\ row.processed = rs[it].processed
          /\ row.position = rs[it].position /\ row.count = rs[it].count + 1
      BY <2>1, <2>2, SeenAgainIsRow
    <2>4. row # NoItem
      BY <2>3, NullAssumption
    <2>5. /\ new \in [Items -> Row \cup {NoItem}]
          /\ new[it] = row
          /\ \A i \in Items : i # it => new[i] = rs[i]
      BY <1>1, <1>2, <1>6, <2>3
    <2>6. \A i \in Items : Stored(new, i) <=> Stored(rs, i)
      BY <1>10, <2>4, <2>5 DEF Stored
    <2>7. \A i \in Items : Stored(rs, i) =>
            /\ new[i].state = rs[i].state /\ new[i].processed = rs[i].processed
            /\ new[i].position = rs[i].position
            /\ new[i].count <= rs[i].count + 1
            /\ new[i].count \in Nat
      <3> SUFFICES ASSUME NEW i \in Items, Stored(rs, i)
                   PROVE  /\ new[i].state = rs[i].state /\ new[i].processed = rs[i].processed
                          /\ new[i].position = rs[i].position
                          /\ new[i].count <= rs[i].count + 1
                          /\ new[i].count \in Nat
        OBVIOUS
      <3>1. rs[i].count \in Nat /\ rs[it].count \in Nat
        BY <1>1, <1>7, <1>10
      <3> QED BY <2>3, <2>5, <3>1
    <2>8. \A i \in Items : new[i] = rows[i] \/ i \in ToSet(batch)
      BY <1>1, <1>2, <2>5
    <2>9. \A i \in Held :
            /\ Stored(new, i)
            /\ new[i].state = rows[i].state /\ new[i].processed = rows[i].processed
            /\ new[i].position = rows[i].position
            /\ new[i].count <= rows[i].count + k
      <3> SUFFICES ASSUME NEW i \in Held
                   PROVE  /\ Stored(new, i)
                          /\ new[i].state = rows[i].state /\ new[i].processed = rows[i].processed
                          /\ new[i].position = rows[i].position
                          /\ new[i].count <= rows[i].count + k
        OBVIOUS
      <3>1. i \in Items /\ Stored(rs, i)
        BY <1>3 DEF Held
      <3>2. /\ rs[i].count <= rows[i].count + (k - 1) /\ rs[i].count \in Nat
            /\ rows[i].count \in Nat /\ new[i].count <= rs[i].count + 1 /\ new[i].count \in Nat
        BY <1>3, <1>7, <2>7, <3>1
      <3>3. new[i].count <= rows[i].count + k
        BY <1>8, <3>2
      <3> QED BY <1>3, <2>6, <2>7, <3>1, <3>3
    <2>10. \A i \in Items \ Held : Stored(new, i) =>
             /\ new[i].state = Head(life.states) /\ new[i].processed = FALSE
             /\ new[i].count <= k
             /\ \A j \in Held : rows[j].position < new[i].position
      <3> SUFFICES ASSUME NEW i \in Items \ Held, Stored(new, i)
                   PROVE  /\ new[i].state = Head(life.states) /\ new[i].processed = FALSE
                          /\ new[i].count <= k
                          /\ \A j \in Held : rows[j].position < new[i].position
        OBVIOUS
      <3>1. Stored(rs, i)
        BY <2>6
      <3>2. /\ rs[i].count <= k - 1 /\ rs[i].count \in Nat
            /\ new[i].count <= rs[i].count + 1 /\ new[i].count \in Nat
        BY <1>3, <1>7, <2>7, <3>1
      <3>3. new[i].count <= k
        BY <1>8, <3>2
      <3> QED BY <1>3, <2>7, <3>1, <3>3
    <2>11. Distinct(new) /\ Limited(new)
      BY <1>2, <2>6, <2>7 DEF Distinct, Limited
    <2>12. LoopInv(new, batch, k)
      BY <2>5, <2>8, <2>9, <2>10, <2>11 DEF LoopInv
    <2> QED BY <2>12 DEF new, it
  <1> QED BY <1>9, <1>10

\* What the batch has made of the rows.
LEMMA LoopEnd ==
  ASSUME SweepInv, NEW batch \in Batches, AddItems(batch)
  PROVE  LoopInv(rows', batch, Len(batch))
  <1> DEFINE u == Upserts(batch)
             Bad == {k \in Nat : k <= Len(batch) /\ ~LoopInv(u[k], batch, k)}
  <1>1. batch \in Seq(Items) /\ Len(batch) \in Nat
    BY SweepAssumption
  <1>2. u[0] = rows /\ \A k \in 1 .. Len(batch) : u[k] = Upsert(u[k - 1], batch[k])
    BY <1>1, Unfold
  <1>3. /\ sweep = "active" /\ Len(batch) <= MaxCount /\ rows' = u[Len(batch)]
        /\ \A i \in Held \cap ToSet(batch) : rows[i].count + Len(batch) <= MaxCount
    BY DEF AddItems
  <1> HIDE DEF u
  <1>4. Bad = {}
    <2>1. SUFFICES ASSUME Bad # {} PROVE FALSE
      OBVIOUS
    <2>2. PICK k \in Bad : \A m \in Bad : k <= m
      BY <2>1, LeastExists
    <2>3. k # 0
      BY <2>2, <1>1, <1>2, LoopStart
    <2>4. k \in 1 .. Len(batch) /\ k - 1 \in Nat /\ k - 1 <= Len(batch) /\ ~(k <= k - 1)
      BY <2>2, <2>3, <1>1
    <2>5. LoopInv(u[k - 1], batch, k - 1)
      BY <2>2, <2>4
    <2>6. LoopInv(u[k], batch, k)
      BY <2>4, <2>5, <1>1, <1>2, <1>3, LoopStep
    <2> QED BY <2>2, <2>6
  <1>5. LoopInv(u[Len(batch)], batch, Len(batch))
    BY <1>1, <1>4
  <1> QED BY <1>3, <1>5

-----------------------------------------------------------------------------
(* The invariant. *)

LEMMA SweepInitInv == SweepInit => SweepInv
  <1> SUFFICES ASSUME SweepInit PROVE SweepInv
    OBVIOUS
  <1>1. rows \in [Items -> Row \cup {NoItem}] /\ Held = {}
    BY DEF SweepInit, Held
  <1>2. \A i \in Items : ~Stored(rows, i)
    BY DEF SweepInit, Stored
  <1>3. SweepTypeOK
    BY <1>1, NullAssumption DEF SweepInit, SweepTypeOK
  <1>4. Distinct(rows) /\ Limited(rows)
    BY <1>2 DEF Distinct, Limited
  <1> QED BY <1>1, <1>3, <1>4 DEF SweepInit, SweepInv, FlagIsState

LEMMA CreateSweepStep ==
  ASSUME SweepInv, NEW l \in Lifecycles, CreateSweep(l) PROVE SweepInv'
  <1>1. /\ sweep = "absent" /\ sweep' = "active" /\ life' = l /\ rows' = rows /\ Declared(l)
    BY DEF CreateSweep
  <1>2. Held = {} /\ Held' = Held
    BY <1>1 DEF SweepInv, Held
  <1>3. SweepTypeOK'
    BY <1>1, <1>2, SweepAssumption, NullAssumption DEF SweepInv, SweepTypeOK
  <1>4. Distinct(rows)' /\ Limited(rows)'
    BY <1>1 DEF SweepInv, Distinct, Limited, Stored
  <1>5. FlagIsState'
    BY <1>2 DEF FlagIsState
  <1> QED BY <1>1, <1>3, <1>4, <1>5 DEF SweepInv

LEMMA AddItemsStep ==
  ASSUME SweepInv, NEW batch \in Batches, AddItems(batch) PROVE SweepInv'
  <1>1. sweep = "active" /\ sweep' = sweep /\ life' = life
    BY DEF AddItems
  <1>2. LoopInv(rows', batch, Len(batch))
    BY LoopEnd
  <1>3. /\ rows' \in [Items -> Row \cup {NoItem}]
        /\ \A i \in Held : rows'[i].state = rows[i].state /\ rows'[i].processed = rows[i].processed
        /\ \A i \in Held' \ Held : rows'[i].state = Head(life.states) /\ rows'[i].processed = FALSE
        /\ Held' \subseteq Items
    BY <1>2 DEF LoopInv, Held, Stored
  <1>4. Distinct(rows)' /\ Limited(rows)'
    BY <1>2 DEF LoopInv, Distinct, Limited, Stored
  <1>5. Head(life.states) \in ToSet(life.states)
    BY <1>1, SweepAssumption DEF SweepInv, SweepTypeOK, Declared, Lifecycle, ToSet
  <1>6. SweepTypeOK'
    BY <1>1, <1>3, <1>5 DEF SweepInv, SweepTypeOK
  <1>7. FlagIsState'
    BY <1>1, <1>3 DEF SweepInv, FlagIsState, Finished
  <1> QED BY <1>1, <1>4, <1>6, <1>7 DEF SweepInv

\* Rows that come, go or move nowhere keep their order.
LEMMA InPlace ==
  ASSUME SweepInv, rows' \in [Items -> Row \cup {NoItem}], Held' = Held,
         \A i \in Held : rows'[i].position = rows[i].position
  PROVE  Distinct(rows)' /\ Limited(rows)'
  BY DEF SweepInv, Distinct, Limited, Stored, Held

\* A marked row is a row: the state is the one asked for, the flag says whether it
\* is terminal, and the position stays.
LEMMA MarkedIsRow ==
  ASSUME NEW s \in States, NEW r \in Row
  PROVE  /\ Marked(r, s) \in Row
         /\ Marked(r, s).state = s /\ Marked(r, s).position = r.position
         /\ Marked(r, s).processed = Finished(s)
  <1> DEFINE flag == Finished(s)
  <1>1. flag \in BOOLEAN
    BY DEF Finished
  <1> DEFINE mid == [r EXCEPT !.state = s]
             new == Marked(r, s)
  <1>2. mid \in Row /\ mid.state = s /\ mid.position = r.position
    BY DEF Row
  <1>3. new = [mid EXCEPT !.processed = flag]
    BY DEF Marked, Row
  <1> HIDE DEF mid, flag, new
  <1>4. new \in Row /\ new.state = mid.state /\ new.position = mid.position
                   /\ new.processed = flag
    BY <1>1, <1>2, <1>3 DEF Row
  <1> QED BY <1>2, <1>4 DEF new, flag

LEMMA MarkItemsStep ==
  ASSUME SweepInv, NEW batch \in SUBSET Items, NEW s \in States, MarkItems(batch, s)
  PROVE  /\ SweepInv'
         /\ Held' = Held
         /\ \A i \in Held : /\ rows'[i].position = rows[i].position
                            /\ Allowed(rows[i].state, rows'[i].state)
  <1>1. /\ sweep # "absent" /\ Target(s) /\ sweep' = sweep /\ life' = life
        /\ \A i \in batch : rows[i] # NoItem /\ Allowed(rows[i].state, s)
        /\ rows' = [i \in Items |-> IF i \in batch THEN Marked(rows[i], s) ELSE rows[i]]
    BY DEF MarkItems
  <1>2. \A r \in Row : /\ Marked(r, s) \in Row
                       /\ Marked(r, s).state = s /\ Marked(r, s).position = r.position
                       /\ Marked(r, s).processed = Finished(s)
    BY MarkedIsRow
  <1>3. \A i \in batch : rows[i] \in Row /\ rows'[i] = Marked(rows[i], s)
    BY <1>1 DEF SweepInv, SweepTypeOK
  <1>4. \A i \in Items \ batch : rows'[i] = rows[i]
    BY <1>1
  <1>5. rows' \in [Items -> Row \cup {NoItem}]
    BY <1>1, <1>2, <1>3 DEF SweepInv, SweepTypeOK
  <1>6. Held' = Held
    BY <1>1, <1>2, <1>3, <1>4, NullAssumption DEF Held
  <1>7. \A i \in Held : /\ rows'[i].position = rows[i].position
                        /\ Allowed(rows[i].state, rows'[i].state)
    BY <1>1, <1>2, <1>3, <1>4 DEF Held, Allowed
  <1>8. \A i \in Held : rows'[i].state = s \/ rows'[i].state = rows[i].state
    BY <1>2, <1>3, <1>4 DEF Held
  <1>9. SweepTypeOK'
    BY <1>1, <1>5, <1>6, <1>8 DEF SweepInv, SweepTypeOK, Target
  <1>10. Distinct(rows)' /\ Limited(rows)'
    BY <1>5, <1>6, <1>7, InPlace
  <1>11. FlagIsState'
    BY <1>1, <1>2, <1>3, <1>4, <1>6 DEF SweepInv, FlagIsState, Finished, Held
  <1> QED BY <1>1, <1>6, <1>7, <1>9, <1>10, <1>11 DEF SweepInv

LEMMA ArchiveItemsStep ==
  ASSUME SweepInv, NEW batch \in SUBSET Items, ArchiveItems(batch)
  PROVE  /\ SweepInv'
         /\ Held' = Held
         /\ \A i \in Held : /\ rows'[i].position = rows[i].position
                            /\ rows'[i].state = rows[i].state
  <1>1. /\ sweep # "absent" /\ batch \subseteq Held /\ sweep' = sweep /\ life' = life
        /\ rows' = [i \in Items |-> IF i \in batch THEN [rows[i] EXCEPT !.archived = TRUE]
                                                   ELSE rows[i]]
    BY DEF ArchiveItems
  <1>2. \A r \in Row : LET a == [r EXCEPT !.archived = TRUE] IN
          /\ a \in Row /\ a.state = r.state /\ a.position = r.position
          /\ a.processed = r.processed
    BY DEF Row
  <1>3. \A i \in Held : rows[i] \in Row
    BY DEF SweepInv, SweepTypeOK, Held
  <1>4. \A i \in Held : /\ rows'[i] \in Row /\ rows'[i].state = rows[i].state
                        /\ rows'[i].position = rows[i].position
                        /\ rows'[i].processed = rows[i].processed
    BY <1>1, <1>2, <1>3 DEF Held
  <1>5. \A i \in Items \ Held : rows'[i] = rows[i] /\ rows[i] = NoItem
    BY <1>1 DEF Held
  <1>6. rows' \in [Items -> Row \cup {NoItem}]
    BY <1>1, <1>4, <1>5 DEF SweepInv, SweepTypeOK
  <1>7. Held' = Held
    BY <1>4, <1>5, NullAssumption DEF Held
  <1>8. SweepTypeOK'
    BY <1>1, <1>4, <1>6, <1>7 DEF SweepInv, SweepTypeOK
  <1>9. Distinct(rows)' /\ Limited(rows)'
    BY <1>4, <1>6, <1>7, InPlace
  <1>10. FlagIsState'
    BY <1>1, <1>4, <1>7 DEF SweepInv, FlagIsState, Finished
  <1> QED BY <1>1, <1>4, <1>7, <1>8, <1>9, <1>10 DEF SweepInv

LEMMA SweepInvStep == SweepInv /\ [SweepNext]_sweepVars => SweepInv'
  <1> SUFFICES ASSUME SweepInv, [SweepNext]_sweepVars PROVE SweepInv'
    OBVIOUS
  <1>1. ASSUME ArchiveSweep \/ UNCHANGED sweepVars PROVE SweepInv'
    <2>1. life' = life /\ rows' = rows /\ (sweep' = sweep \/ (sweep = "active" /\ sweep' = "archived"))
      BY <1>1 DEF ArchiveSweep, sweepVars
    <2>2. SweepTypeOK'
      BY <2>1 DEF SweepInv, SweepTypeOK, Held
    <2> QED BY <2>1, <2>2 DEF SweepInv, Held, Distinct, Limited, Stored, FlagIsState, Finished, Declared
  <1> QED
    BY <1>1, CreateSweepStep, AddItemsStep, MarkItemsStep, ArchiveItemsStep DEF SweepNext

LEMMA SweepInvariance == SweepSpec => []SweepInv
  BY SweepInitInv, SweepInvStep, PTL DEF SweepSpec

\* Every row is in a state of the sweep's lifecycle.
THEOREM SweepTyping == SweepSpec => []SweepTypeOK
  <1>1. SweepInv => SweepTypeOK
    BY DEF SweepInv
  <1> QED BY <1>1, SweepInvariance, PTL

\* next_batch chooses from the items that are not finished: the flag it reads
\* follows the state through re-detections, archivings and moves back.
THEOREM OfferedAreUnfinished == SweepSpec => []OfferedIsUnfinished
  <1>1. SweepInv => OfferedIsUnfinished
    BY DEF SweepInv, FlagIsState, OfferedIsUnfinished, Offered
  <1> QED BY <1>1, SweepInvariance, PTL

\* An item seen again or archived stays in its state, and mark_items moves it
\* along a declared transition.
THEOREM TransitionsAreDeclared == SweepSpec => TransitionsHold
  <1> DEFINE A == \A i \in Held : rows'[i] # NoItem /\ Allowed(rows[i].state, rows'[i].state)
  <1>1. SweepInv /\ [SweepNext]_sweepVars => [A]_sweepVars
    <2> SUFFICES ASSUME SweepInv, SweepNext PROVE A
      OBVIOUS
    <2>1. ASSUME rows' = rows PROVE A
      BY <2>1 DEF Allowed, Held
    <2>2. ASSUME NEW batch \in Batches, AddItems(batch) PROVE A
      BY <2>2, LoopEnd DEF LoopInv, Stored, Allowed
    <2>3. ASSUME NEW batch \in SUBSET Items, NEW s \in States, MarkItems(batch, s) PROVE A
      <3>1. Held' = Held /\ \A i \in Held : Allowed(rows[i].state, rows'[i].state)
        BY <2>3, MarkItemsStep
      <3> QED BY <3>1 DEF Held
    <2>4. ASSUME NEW batch \in SUBSET Items, ArchiveItems(batch) PROVE A
      <3>1. Held' = Held /\ \A i \in Held : rows'[i].state = rows[i].state
        BY <2>4, ArchiveItemsStep
      <3> QED BY <3>1 DEF Held, Allowed
    <2> QED BY <2>1, <2>2, <2>3, <2>4 DEF SweepNext, CreateSweep, ArchiveSweep
  <1> HIDE DEF A
  <1>2. SweepSpec => [][A]_sweepVars
    BY <1>1, SweepInvariance, PTL DEF SweepSpec
  <1> QED BY <1>2 DEF TransitionsHold, A

\* Items keep the position they were first added at, and a new one goes behind
\* all the others, whatever is archived.
THEOREM OrderStands == SweepSpec => OrderIsStable
  <1> DEFINE A ==
        /\ \A i \in Held : rows'[i].position = rows[i].position
        /\ \A i, j \in Items : rows'[i] # NoItem /\ rows'[j] # NoItem /\ i # j
             => /\ rows'[i].position # rows'[j].position
                /\ i \in Held /\ j \notin Held => rows'[i].position < rows'[j].position
  <1>1. SweepInv /\ [SweepNext]_sweepVars => [A]_sweepVars
    <2> SUFFICES ASSUME SweepInv, SweepNext PROVE A
      OBVIOUS
    <2>1. Distinct(rows')
      BY SweepInvStep DEF SweepInv, Distinct, Stored
    <2>2. ASSUME Held' = Held, \A i \in Held : rows'[i].position = rows[i].position PROVE A
      BY <2>1, <2>2 DEF Distinct, Stored, Held
    <2>3. ASSUME NEW batch \in Batches, AddItems(batch) PROVE A
      BY <2>1, <2>3, LoopEnd DEF LoopInv, Distinct, Stored
    <2>4. ASSUME rows' = rows PROVE A
      BY <2>2, <2>4 DEF Held
    <2> QED
      BY <2>2, <2>3, <2>4, MarkItemsStep, ArchiveItemsStep DEF SweepNext, CreateSweep, ArchiveSweep
  <1> HIDE DEF A
  <1>2. SweepSpec => [][A]_sweepVars
    BY <1>1, SweepInvariance, PTL DEF SweepSpec
  <1> QED BY <1>2 DEF OrderIsStable, A
=============================================================================
