-------------------------- MODULE MilestonesProofs --------------------------
(***************************************************************************)
(* Milestones, for any entities, agents, milestones and capacity: the      *)
(* ledger covers the assignments, what is pulled is unfinished, a status   *)
(* reaches every stream, and releases keep their own statuses.             *)
(*                                                                         *)
(* The ledger is three counters for each agent, and the attachments an     *)
(* agent has are counted over the whole table, so every step compares two  *)
(* cardinalities.  One argument serves every action that frees slots:      *)
(* freeing those of some rows takes from no counter more than the agent    *)
(* had among these rows (CountBySize, FreedKeepsTheRest).  Anchored is     *)
(* needed because dismiss_item writes the status of the entity that an     *)
(* attachment names: without it the write could be to no row, or of a      *)
(* status of the other kind of entity.                                     *)
(***************************************************************************)
EXTENDS Milestones, FiniteSetTheorems, TLAPS

AllStatuses == LiveStatus \cup FindingTerminal \cup RequirementOpen \cup RequirementTerminal

\* An attachment that names an entity names one of its own kind, which exists.
Anchored ==
  \A i \in Ids : items[i].kind # "external" =>
    /\ items[i].ref \in Entities /\ items[i].kind = KindOf(items[i].ref)
    /\ Exists(items[i].ref)

IInv ==
  /\ TypeOK
  /\ status \in [Entities -> AllStatuses \cup {"absent"}]
  /\ Anchored
  /\ SlotsCoverAssignments

-----------------------------------------------------------------------------
(* The attachments as a function of their ids, and the slots in the ledger. *)

LEMMA ItemsAreAFunction ==
  ASSUME items \in Seq(Item)
  PROVE  /\ Len(items) \in Nat /\ Ids = 1 .. Len(items) /\ IsFiniteSet(Ids)
         /\ items \in [Ids -> Item]
  <1>1. Len(items) \in Nat /\ Ids = 1 .. Len(items) /\ items \in [Ids -> Item]
    BY DEF Ids
  <1> QED BY <1>1, FS_Interval

\* A rewriting of the rows is a table with the same ids.
LEMMA Rewriting ==
  ASSUME items \in Seq(Item), NEW new \in [Ids -> Item]
  PROVE  new \in Seq(Item) /\ Len(new) = Len(items) /\ DOMAIN new = Ids
  <1>1. Len(items) \in Nat /\ Ids = 1 .. Len(items)
    BY ItemsAreAFunction
  <1> QED BY <1>1

Mine(rows, a) == {i \in rows : items[i].agent = a}
Sized(rows, a, s) == {i \in rows : items[i].agent = a /\ items[i].size = s}

\* The attachments an agent holds, counted by size.
LEMMA CountBySize ==
  ASSUME items \in Seq(Item), NEW rows \in SUBSET Ids, NEW a
  PROVE  /\ IsFiniteSet(Mine(rows, a)) /\ Cardinality(Mine(rows, a)) \in Nat
         /\ \A s \in Sizes : Cardinality(Sized(rows, a, s)) \in Nat
         /\ Cardinality(Mine(rows, a)) = Cardinality(Sized(rows, a, "large"))
              + Cardinality(Sized(rows, a, "small")) + Cardinality(Sized(rows, a, "triage"))
  <1> DEFINE L == Sized(rows, a, "large")
             S == Sized(rows, a, "small")
             T == Sized(rows, a, "triage")
  <1>1. IsFiniteSet(rows)
    BY ItemsAreAFunction, FS_Subset
  <1>2. Mine(rows, a) \in SUBSET rows /\ \A s \in Sizes : Sized(rows, a, s) \in SUBSET rows
    BY DEF Mine, Sized
  <1>3. /\ IsFiniteSet(Mine(rows, a)) /\ Cardinality(Mine(rows, a)) \in Nat
        /\ \A s \in Sizes : IsFiniteSet(Sized(rows, a, s)) /\ Cardinality(Sized(rows, a, s)) \in Nat
    BY <1>1, <1>2, FS_Subset, FS_CardinalityType
  <1>4. IsFiniteSet(L) /\ IsFiniteSet(S) /\ IsFiniteSet(T)
    BY <1>3 DEF Sizes
  <1>5. \A i \in rows : items[i].size \in Sizes
    BY ItemsAreAFunction DEF Item
  <1>6. Mine(rows, a) = (L \cup S) \cup T /\ L \cap S = {} /\ (L \cup S) \cap T = {}
    BY <1>5 DEF Mine, Sized, Sizes
  <1>7. IsFiniteSet(L \cup S) /\ Cardinality(L \cup S) = Cardinality(L) + Cardinality(S) - Cardinality(L \cap S)
    BY <1>4, FS_Union
  <1>8. Cardinality((L \cup S) \cup T)
          = Cardinality(L \cup S) + Cardinality(T) - Cardinality((L \cup S) \cap T)
    BY <1>4, <1>7, FS_Union
  <1>9. Cardinality({}) = 0
    BY FS_EmptySet
  <1>10. Cardinality(L) \in Nat /\ Cardinality(S) \in Nat /\ Cardinality(T) \in Nat
    BY <1>3 DEF Sizes
  <1> HIDE DEF L, S, T
  <1>11. Cardinality(L \cap S) = 0 /\ Cardinality((L \cup S) \cap T) = 0
    <2>1. L \cap S = {} /\ (L \cup S) \cap T = {}
      BY <1>6
    <2> QED BY <2>1, <1>9, Zenon
  <1>12. Cardinality(Mine(rows, a)) = Cardinality((L \cup S) \cup T)
    <2>1. Mine(rows, a) = (L \cup S) \cup T
      BY <1>6
    <2> QED BY <2>1, Zenon
  <1>13. Cardinality(Mine(rows, a)) = Cardinality(L) + Cardinality(S) + Cardinality(T)
    <2> DEFINE l == Cardinality(L)
               m == Cardinality(S)
               t == Cardinality(T)
               lm == Cardinality(L \cup S)
               lmt == Cardinality((L \cup S) \cup T)
               x == Cardinality(L \cap S)
               y == Cardinality((L \cup S) \cap T)
    <2>1. l \in Nat /\ m \in Nat /\ t \in Nat /\ lm = l + m - x /\ lmt = lm + t - y /\ x = 0 /\ y = 0
      BY <1>7, <1>8, <1>10, <1>11
    <2>2. Cardinality(Mine(rows, a)) = lmt
      BY <1>12
    <2> HIDE DEF l, m, t, lm, lmt, x, y
    <2>3. lmt = l + m + t
      BY <2>1
    <2> QED BY <2>2, <2>3 DEF l, m, t
  <1> QED BY <1>3, <1>13 DEF L, S, T

LEMMA ThreeBounds ==
  ASSUME NEW x1 \in Nat, NEW x2 \in Nat, NEW x3 \in Nat, NEW y1 \in Nat, NEW y2 \in Nat,
         NEW y3 \in Nat, NEW z1 \in Nat, NEW z2 \in Nat, NEW z3 \in Nat,
         x1 <= y1 + z1, x2 <= y2 + z2, x3 <= y3 + z3
  PROVE  x1 + x2 + x3 <= (y1 + y2 + y3) + (z1 + z2 + z3)
  OBVIOUS

\* Each counter after slots are freed: it stays a number and never loses more
\* than what was freed.
LEMMA FreedTyped ==
  ASSUME items \in Seq(Item), held \in [Agents -> [Sizes -> Nat]], NEW rows \in SUBSET Ids
  PROVE  /\ Freed(rows) \in [Agents -> [Sizes -> Nat]]
         /\ \A a \in Agents, s \in Sizes :
              held[a][s] <= Freed(rows)[a][s] + Cardinality(Sized(rows, a, s))
  <1>1. \A a \in Agents, s \in Sizes :
          Freed(rows)[a][s] = Less(held[a][s], Cardinality(Sized(rows, a, s)))
    BY DEF Freed, Sized
  <1>2. \A n, k \in Nat : Less(n, k) \in Nat /\ n <= Less(n, k) + k
    BY DEF Less
  <1>3. \A a \in Agents, s \in Sizes : Cardinality(Sized(rows, a, s)) \in Nat
    BY CountBySize
  <1>4. Freed(rows) \in [Agents -> [Sizes -> Nat]]
    BY <1>1, <1>2, <1>3 DEF Freed, Sized
  <1>5. ASSUME NEW a \in Agents, NEW s \in Sizes
        PROVE  held[a][s] <= Freed(rows)[a][s] + Cardinality(Sized(rows, a, s))
    <2> DEFINE n == held[a][s]
               k == Cardinality(Sized(rows, a, s))
    <2>1. n \in Nat /\ k \in Nat /\ Freed(rows)[a][s] = Less(n, k)
      BY <1>1, <1>3
    <2> HIDE DEF n, k
    <2>2. n <= Freed(rows)[a][s] + k
      BY <1>2, <2>1
    <2> QED BY <2>2 DEF n, k
  <1> QED BY <1>4, <1>5

\* Releasing the slots of some rows costs an agent at most as many as it had there.
LEMMA FreedKeepsTheRest ==
  ASSUME items \in Seq(Item), held \in [Agents -> [Sizes -> Nat]],
         NEW rows \in SUBSET Ids, NEW a \in Agents
  PROVE  Charged(held, a) <= Charged(Freed(rows), a) + Cardinality(Mine(rows, a))
  <1>1. \A s \in Sizes : /\ held[a][s] \in Nat /\ Freed(rows)[a][s] \in Nat
                         /\ Cardinality(Sized(rows, a, s)) \in Nat
                         /\ held[a][s] <= Freed(rows)[a][s] + Cardinality(Sized(rows, a, s))
    BY FreedTyped, CountBySize
  <1>2. Cardinality(Mine(rows, a)) = Cardinality(Sized(rows, a, "large"))
          + Cardinality(Sized(rows, a, "small")) + Cardinality(Sized(rows, a, "triage"))
    BY CountBySize
  <1>3. "large" \in Sizes /\ "small" \in Sizes /\ "triage" \in Sizes
    BY DEF Sizes
  <1> DEFINE K(s) == Cardinality(Sized(rows, a, s))
             m == Cardinality(Mine(rows, a))
             h(s) == held[a][s]
             f(s) == Freed(rows)[a][s]
  <1>4. \A s \in Sizes : h(s) \in Nat /\ f(s) \in Nat /\ K(s) \in Nat /\ h(s) <= f(s) + K(s)
    BY <1>1
  <1>5. m = K("large") + K("small") + K("triage")
    BY <1>2
  <1>6. /\ Charged(held, a) = h("large") + h("small") + h("triage")
        /\ Charged(Freed(rows), a) = f("large") + f("small") + f("triage")
    BY DEF Charged
  <1> HIDE DEF K, m, h, f
  <1>7. /\ h("large") \in Nat /\ f("large") \in Nat /\ K("large") \in Nat
        /\ h("small") \in Nat /\ f("small") \in Nat /\ K("small") \in Nat
        /\ h("triage") \in Nat /\ f("triage") \in Nat /\ K("triage") \in Nat
        /\ h("large") <= f("large") + K("large")
        /\ h("small") <= f("small") + K("small")
        /\ h("triage") <= f("triage") + K("triage")
    BY <1>3, <1>4
  <1>8. h("large") + h("small") + h("triage")
          <= (f("large") + f("small") + f("triage")) + (K("large") + K("small") + K("triage"))
    BY <1>7, ThreeBounds
  <1> QED BY <1>5, <1>6, <1>8, Zenon DEF m

-----------------------------------------------------------------------------
(* How a step keeps the ledger and the tables. *)

\* The rows the step rewrites lose their agents, and their slots are freed.
LEMMA RewritingKeepsSlots ==
  ASSUME items \in Seq(Item), held \in [Agents -> [Sizes -> Nat]], SlotsCoverAssignments,
         NEW rows \in SUBSET Ids, items' \in [Ids -> Item], held' = Freed(rows),
         \A i \in rows : items'[i].agent = NoAgent,
         \A i \in Ids \ rows : items'[i].agent = items[i].agent
  PROVE  SlotsCoverAssignments' /\ held' \in [Agents -> [Sizes -> Nat]]
  <1>1. Ids' = Ids /\ IsFiniteSet(Ids)
    BY ItemsAreAFunction, Rewriting DEF Ids
  <1>2. held' \in [Agents -> [Sizes -> Nat]]
    BY FreedTyped
  <1>3. ASSUME NEW a \in Agents
        PROVE  Cardinality({i \in Ids : items'[i].agent = a}) <= Charged(held', a)
    <2> DEFINE New == {i \in Ids : items'[i].agent = a}
               Old == {i \in Ids : items[i].agent = a}
    <2>1. a # NoAgent
      BY MilestonesAssumption
    <2>2. New = Old \ Mine(rows, a)
      BY <2>1 DEF Mine
    <2>3. IsFiniteSet(Old) /\ Old \cap Mine(rows, a) = Mine(rows, a)
      BY <1>1, FS_Subset DEF Mine
    <2> HIDE DEF New, Old
    <2>4. Cardinality(New) = Cardinality(Old) - Cardinality(Old \cap Mine(rows, a))
      BY <2>2, <2>3, FS_Difference
    <2>5. Cardinality(Old \cap Mine(rows, a)) = Cardinality(Mine(rows, a))
      BY <2>3, Zenon
    <2>6. Cardinality(Mine(rows, a)) \in Nat /\ Cardinality(Old) \in Nat
      BY <2>3, CountBySize, FS_CardinalityType
    <2>7. Charged(held, a) <= Charged(held', a) + Cardinality(Mine(rows, a))
      BY FreedKeepsTheRest
    <2>8. Cardinality(Old) <= Charged(held, a)
      BY DEF SlotsCoverAssignments, Old
    <2>9. Charged(held, a) \in Nat /\ Charged(held', a) \in Nat
      BY <1>2 DEF Charged, Sizes
    <2>10. Cardinality(New) <= Charged(held', a)
      BY <2>4, <2>5, <2>6, <2>7, <2>8, <2>9
    <2> QED BY <2>10 DEF New
  <1> QED BY <1>1, <1>2, <1>3 DEF SlotsCoverAssignments

\* Nobody has an attachment more, and the ledger charges nobody less.
LEMMA SlotsStay ==
  ASSUME items \in Seq(Item), held \in [Agents -> [Sizes -> Nat]], SlotsCoverAssignments,
         held' = held,
         \A a \in Agents : \A i \in Ids' : items'[i].agent = a => i \in Ids /\ items[i].agent = a
  PROVE  SlotsCoverAssignments'
  <1> SUFFICES ASSUME NEW a \in Agents
               PROVE  Cardinality({i \in Ids' : items'[i].agent = a}) <= Charged(held, a)
    BY DEF SlotsCoverAssignments
  <1> DEFINE New == {i \in Ids' : items'[i].agent = a}
             Old == {i \in Ids : items[i].agent = a}
  <1>1. IsFiniteSet(Old) /\ Cardinality(Old) \in Nat
    BY ItemsAreAFunction, FS_Subset, FS_CardinalityType
  <1>2. New \in SUBSET Old
    OBVIOUS
  <1>3. Cardinality(New) <= Cardinality(Old) /\ Cardinality(New) \in Nat
    BY <1>1, <1>2, FS_Subset, FS_CardinalityType
  <1>4. Cardinality(Old) <= Charged(held, a) /\ Charged(held, a) \in Nat
    BY DEF SlotsCoverAssignments, Charged, Sizes
  <1> HIDE DEF New, Old
  <1>5. Cardinality(New) <= Charged(held, a)
    BY <1>1, <1>3, <1>4
  <1> QED BY <1>5 DEF New

\* What a step of the source status owes the invariant.
StatusStep ==
  /\ status' \in [Entities -> AllStatuses \cup {"absent"}]
  /\ \A e \in Entities : status'[e] \in Statuses(e) \cup {"absent"}
  /\ \A e \in Entities : Exists(e) => status'[e] # "absent"

LEMMA StatusStays == ASSUME IInv, status' = status PROVE StatusStep
  BY DEF IInv, TypeOK, StatusStep, Exists

LEMMA StatusWritten ==
  ASSUME IInv, NEW e \in Entities, NEW new \in Statuses(e), status' = [status EXCEPT ![e] = new]
  PROVE  StatusStep
  <1>1. new \in AllStatuses /\ new # "absent"
    BY DEF Statuses, AllStatuses, LiveStatus, FindingTerminal, RequirementOpen, RequirementTerminal
  <1> QED BY <1>1 DEF IInv, TypeOK, StatusStep, Exists

\* A step that rewrites rows, and keeps what each of them names.
LEMMA RowsStep ==
  ASSUME IInv, StatusStep, items' \in [Ids -> Item],
         \A i \in Ids : items'[i].kind = items[i].kind /\ items'[i].ref = items[i].ref,
         \A i, j \in Ids :
           items'[i].at = items'[j].at /\ items[i].kind = items[j].kind /\ items[i].ref = items[j].ref
           => i = j,
         held' \in [Agents -> [Sizes -> Nat]], SlotsCoverAssignments',
         state' \in [Milestones -> States], blocked' \subseteq Blockable
  PROVE  IInv'
  <1>1. items \in Seq(Item) /\ Ids' = Ids /\ items' \in Seq(Item) /\ Len(items') = Len(items)
    BY Rewriting DEF Ids, IInv, TypeOK
  <1>2. TypeOK'
    BY <1>1 DEF TypeOK, IInv, StatusStep
  <1>3. Anchored'
    BY <1>1 DEF IInv, Anchored, StatusStep, Exists
  <1> QED BY <1>2, <1>3 DEF IInv, StatusStep

\* A step that adds a row nobody is assigned to.
LEMMA AppendStep ==
  ASSUME IInv, StatusStep, NEW row \in Item, items' = Append(items, row),
         Len(items) < MaxItems, row.agent = NoAgent, ~Attached(row.at, row.kind, row.ref),
         row.kind # "external" => /\ row.ref \in Entities /\ row.kind = KindOf(row.ref)
                                  /\ status'[row.ref] # "absent",
         UNCHANGED <<held, state, blocked>>
  PROVE  IInv'
  <1> DEFINE n == Len(items)
  <1>1. n \in Nat /\ Ids = 1 .. n /\ items \in Seq(Item) /\ items \in [Ids -> Item]
    BY ItemsAreAFunction DEF IInv, TypeOK
  <1>2. /\ items' \in Seq(Item) /\ Len(items') = n + 1 /\ Ids' = 1 .. n + 1
        /\ \A i \in Ids : items'[i] = items[i]
        /\ items'[n + 1] = row
    BY <1>1 DEF Ids
  <1> HIDE DEF n
  <1>3. Ids' = Ids \cup {n + 1} /\ n + 1 \notin Ids
    BY <1>1, <1>2
  <1>4. Len(items') <= MaxItems
    BY <1>1, <1>2, MilestonesAssumption DEF n
  <1>5. \A i, j \in Ids' :
          items'[i].at = items'[j].at /\ items'[i].kind = items'[j].kind /\ items'[i].ref = items'[j].ref
          => i = j
    BY <1>2, <1>3 DEF IInv, TypeOK, Attached
  <1>6. TypeOK'
    BY <1>2, <1>4, <1>5 DEF IInv, TypeOK, StatusStep
  <1>7. Anchored'
    BY <1>2, <1>3 DEF IInv, Anchored, StatusStep, Exists
  <1>8. SlotsCoverAssignments'
    <2>1. \A a \in Agents : \A i \in Ids' : items'[i].agent = a => i \in Ids /\ items[i].agent = a
      BY <1>2, <1>3, MilestonesAssumption
    <2> QED BY <2>1, SlotsStay DEF IInv, TypeOK
  <1> QED BY <1>6, <1>7, <1>8 DEF IInv, StatusStep

-----------------------------------------------------------------------------
(* The actions. *)

\* The rows an action rewrites lose their agents; the others stay.
LEMMA RewriteStep ==
  ASSUME IInv, StatusStep, NEW rows \in SUBSET Ids, items' \in [Ids -> Item],
         \A i \in Ids :
           items'[i].at = items[i].at /\ items'[i].kind = items[i].kind /\ items'[i].ref = items[i].ref,
         \A i \in rows : items'[i].agent = NoAgent,
         \A i \in Ids \ rows : items'[i].agent = items[i].agent,
         held' = Freed(rows), UNCHANGED <<state, blocked>>
  PROVE  IInv'
  <1>1. SlotsCoverAssignments' /\ held' \in [Agents -> [Sizes -> Nat]]
    BY RewritingKeepsSlots DEF IInv, TypeOK
  <1> QED BY <1>1, RowsStep DEF IInv, TypeOK

\* One row changes under the same agent.
LEMMA OneRowStep ==
  ASSUME IInv, NEW i \in Ids, NEW row \in Item, Change(i, row), held' = held,
         row.kind = items[i].kind, row.ref = items[i].ref, row.agent = items[i].agent,
         row.at = items[i].at \/ ~Attached(row.at, items[i].kind, items[i].ref)
  PROVE  IInv'
  <1>1. items \in Seq(Item) /\ items \in [Ids -> Item] /\ items' = [items EXCEPT ![i] = row]
    BY ItemsAreAFunction DEF IInv, TypeOK, Change
  <1>2. items' \in [Ids -> Item] /\ Ids' = Ids
    BY <1>1 DEF Ids
  <1>3. StatusStep
    BY StatusStays DEF Change
  <1>4. SlotsCoverAssignments'
    BY <1>1, <1>2, SlotsStay DEF IInv, TypeOK
  <1>5. \A j \in Ids : items'[j].kind = items[j].kind /\ items'[j].ref = items[j].ref
    BY <1>1
  <1>6. \A j, k \in Ids :
          items'[j].at = items'[k].at /\ items[j].kind = items[k].kind /\ items[j].ref = items[k].ref
          => j = k
    BY <1>1 DEF IInv, TypeOK, Attached
  <1> QED BY <1>2, <1>3, <1>4, <1>5, <1>6, RowsStep DEF IInv, TypeOK, Change

LEMMA UpdateSourceStep ==
  ASSUME IInv, NEW e \in Entities, NEW new \in Statuses(e), UpdateSource(e, new)
  PROVE  IInv'
  <1> DEFINE rows == HookRows(e, new)
             s == HookStatus(e, new)
  <1>1. rows \in SUBSET Ids
    BY DEF HookRows, ClosedRows, ReopenedRows
  <1>2. s \in ItemStatus
    BY DEF HookStatus, Outcome, ItemStatus
  <1>3. /\ items' = Rewritten(rows, s) /\ held' = Freed(rows) /\ UNCHANGED <<state, blocked>>
        /\ status' = [status EXCEPT ![e] = new]
    BY DEF UpdateSource
  <1>4. items \in [Ids -> Item]
    BY ItemsAreAFunction DEF IInv, TypeOK
  <1> HIDE DEF rows, s
  <1>5. items' \in [Ids -> Item]
    BY <1>2, <1>3, <1>4 DEF Rewritten, Item
  <1>6. \A i \in Ids : /\ items'[i].at = items[i].at /\ items'[i].kind = items[i].kind
                       /\ items'[i].ref = items[i].ref
    BY <1>3, <1>4 DEF Rewritten, Item
  <1>7. /\ \A i \in rows : items'[i].agent = NoAgent
        /\ \A i \in Ids \ rows : items'[i].agent = items[i].agent
    BY <1>1, <1>3, <1>4 DEF Rewritten, Item
  <1>8. StatusStep
    BY <1>3, StatusWritten
  <1> QED BY <1>1, <1>3, <1>5, <1>6, <1>7, <1>8, RewriteStep

LEMMA SilentSourceStep ==
  ASSUME IInv, NEW e \in Entities, NEW new \in Statuses(e), SilentSource(e, new)
  PROVE  IInv'
  <1>1. StatusStep
    BY StatusWritten DEF SilentSource
  <1>2. UNCHANGED <<items, held, state, blocked>>
    BY DEF SilentSource
  <1>3. items' \in [Ids -> Item] /\ SlotsCoverAssignments'
    BY <1>2, ItemsAreAFunction DEF IInv, TypeOK, SlotsCoverAssignments, Charged, Ids
  <1> QED BY <1>1, <1>2, <1>3, RowsStep DEF IInv, TypeOK

LEMMA AddFindingStep ==
  ASSUME IInv, NEW e \in Entities, NEW urgent \in BOOLEAN, AddFinding(e, urgent)
  PROVE  IInv'
  <1> DEFINE m == IF urgent THEN "stream/security" ELSE "stream/triage"
             row == NewItem(m, "bug", e, "triage", FALSE)
  <1>1. /\ e \in Cards /\ m \in Streams /\ Len(items) < MaxItems
        /\ status' = [status EXCEPT ![e] = "open"]
        /\ items' = IF Attached(m, "bug", e) THEN items ELSE Append(items, row)
        /\ UNCHANGED <<held, state, blocked>>
    BY DEF AddFinding
  <1>2. StatusStep
    BY <1>1, StatusWritten DEF Statuses, LiveStatus
  <1>3. row \in Item /\ row.at = m /\ row.kind = "bug" /\ row.ref = e /\ row.agent = NoAgent
    BY <1>1 DEF NewItem, Item, Milestones, Kinds, Refs, Sizes, ItemStatus
  <1>4. KindOf(e) = "bug" /\ status'[e] # "absent"
    BY <1>1 DEF KindOf, IInv
  <1> HIDE DEF m, row
  <1>5. CASE ~Attached(m, "bug", e)
    BY <1>1, <1>2, <1>3, <1>4, <1>5, AppendStep
  <1>6. CASE Attached(m, "bug", e)
    <2>1. items' = items
      BY <1>1, <1>6
    <2>2. items' \in [Ids -> Item] /\ SlotsCoverAssignments'
      BY <1>1, <2>1, ItemsAreAFunction DEF IInv, TypeOK, SlotsCoverAssignments, Charged, Ids
    <2> QED BY <1>1, <1>2, <2>1, <2>2, RowsStep DEF IInv, TypeOK
  <1> QED BY <1>5, <1>6

LEMMA AddItemStep ==
  ASSUME IInv, NEW m \in Milestones, NEW k \in Kinds, NEW r \in Refs, NEW size \in Sizes,
         NEW linked \in BOOLEAN, AddItem(m, k, r, size, linked)
  PROVE  IInv'
  <1> DEFINE row == NewItem(m, k, r, size, linked)
  <1>1. /\ Len(items) < MaxItems /\ ValidRef(k, r) /\ ~Attached(m, k, r)
        /\ items' = Append(items, row) /\ UNCHANGED <<status, held, state, blocked>>
    BY DEF AddItem
  <1>2. row \in Item /\ row.at = m /\ row.kind = k /\ row.ref = r /\ row.agent = NoAgent
    BY DEF NewItem, Item, ItemStatus
  <1>3. StatusStep
    BY <1>1, StatusStays
  <1>4. k # "external" => r \in Entities /\ k = KindOf(r) /\ status'[r] # "absent"
    BY <1>1 DEF ValidRef, Exists
  <1> HIDE DEF row
  <1> QED BY <1>1, <1>2, <1>3, <1>4, AppendStep

\* The calls that rewrite the newest attachment of a reference and leave its agent.
LEMMA EditStep ==
  ASSUME IInv, NEW r \in Refs, NEW m \in Milestones, NEW s \in ItemStatus, NEW size \in Sizes,
         NEW linked \in BOOLEAN,
         \/ MoveItem(r, m) \/ SetItemStatus(r, s) \/ Defer(r, m) \/ Promote(r, m, size, linked)
         \/ MarkBranchOnly(r) \/ MarkIntegrated(r)
  PROVE  IInv'
  <1>1. items \in [Ids -> Item] /\ {"deferred", "done"} \subseteq ItemStatus
    BY ItemsAreAFunction DEF IInv, TypeOK, ItemStatus
  <1>2. \A i : Newest(r, i) => i \in Ids /\ items[i].ref = r
    BY DEF Newest
  <1>3. ASSUME NEW i \in Ids, NEW row \in Item, items[i].ref = r, Change(i, row), held' = held,
               row.kind = items[i].kind, row.ref = items[i].ref, row.agent = items[i].agent,
               row.at = items[i].at \/ ~Attached(row.at, items[i].kind, r)
        PROVE  IInv'
    BY <1>3, OneRowStep
  <1>4. CASE MoveItem(r, m)
    <2>1. PICK i \in Ids : /\ Newest(r, i) /\ ~Attached(m, items[i].kind, r) /\ held' = held
                           /\ Change(i, [items[i] EXCEPT !.at = m])
      BY <1>4 DEF MoveItem
    <2> DEFINE row == [items[i] EXCEPT !.at = m]
    <2>2. row \in Item /\ row.kind = items[i].kind /\ row.ref = items[i].ref
            /\ row.agent = items[i].agent /\ row.at = m
      BY <1>1 DEF Item
    <2>3. Change(i, row)
      BY <2>1
    <2> HIDE DEF row
    <2> QED BY <1>2, <1>3, <2>1, <2>2, <2>3
  <1>5. CASE SetItemStatus(r, s)
    <2>1. PICK i \in Ids : /\ Newest(r, i) /\ held' = held
                           /\ Change(i, [items[i] EXCEPT !.status = s])
      BY <1>5 DEF SetItemStatus
    <2> DEFINE row == [items[i] EXCEPT !.status = s]
    <2>2. row \in Item /\ row.kind = items[i].kind /\ row.ref = items[i].ref
            /\ row.agent = items[i].agent /\ row.at = items[i].at
      BY <1>1 DEF Item
    <2>3. Change(i, row)
      BY <2>1
    <2> HIDE DEF row
    <2> QED BY <1>2, <1>3, <2>1, <2>2, <2>3
  <1>6. CASE Defer(r, m)
    <2>1. PICK i \in Ids : /\ Newest(r, i) /\ held' = held
                           /\ items[i].at = m \/ ~Attached(m, items[i].kind, r)
                           /\ Change(i, [items[i] EXCEPT !.at = m, !.status = "deferred"])
      BY <1>6 DEF Defer
    <2> DEFINE row == [items[i] EXCEPT !.at = m, !.status = "deferred"]
    <2>2. row \in Item /\ row.kind = items[i].kind /\ row.ref = items[i].ref
            /\ row.agent = items[i].agent /\ row.at = m
      BY <1>1 DEF Item
    <2>3. Change(i, row)
      BY <2>1
    <2> HIDE DEF row
    <2> QED BY <1>2, <1>3, <2>1, <2>2, <2>3
  <1>7. CASE Promote(r, m, size, linked)
    <2>1. PICK i \in Ids :
            /\ Newest(r, i) /\ held' = held /\ ~Attached(m, items[i].kind, r)
            /\ Change(i, [items[i] EXCEPT !.at = m, !.size = size, !.linked = @ \/ linked])
      BY <1>7 DEF Promote
    <2> DEFINE row == [items[i] EXCEPT !.at = m, !.size = size, !.linked = @ \/ linked]
    <2>2. row \in Item /\ row.kind = items[i].kind /\ row.ref = items[i].ref
            /\ row.agent = items[i].agent /\ row.at = m
      BY <1>1 DEF Item
    <2>3. Change(i, row)
      BY <2>1
    <2> HIDE DEF row
    <2> QED BY <1>2, <1>3, <2>1, <2>2, <2>3
  <1>8. CASE MarkBranchOnly(r)
    <2>1. PICK i \in Ids : /\ Newest(r, i) /\ held' = held
                           /\ Change(i, [items[i] EXCEPT !.branch_only = TRUE])
      BY <1>8 DEF MarkBranchOnly
    <2> DEFINE row == [items[i] EXCEPT !.branch_only = TRUE]
    <2>2. row \in Item /\ row.kind = items[i].kind /\ row.ref = items[i].ref
            /\ row.agent = items[i].agent /\ row.at = items[i].at
      BY <1>1 DEF Item
    <2>3. Change(i, row)
      BY <2>1
    <2> HIDE DEF row
    <2> QED BY <1>2, <1>3, <2>1, <2>2, <2>3
  <1>9. CASE MarkIntegrated(r)
    <2>1. PICK i \in Ids : /\ Newest(r, i) /\ held' = held
                           /\ Change(i, [items[i] EXCEPT !.branch_only = FALSE, !.status = "done"])
      BY <1>9 DEF MarkIntegrated
    <2> DEFINE row == [items[i] EXCEPT !.branch_only = FALSE, !.status = "done"]
    <2>2. row \in Item /\ row.kind = items[i].kind /\ row.ref = items[i].ref
            /\ row.agent = items[i].agent /\ row.at = items[i].at
      BY <1>1 DEF Item
    <2>3. Change(i, row)
      BY <2>1
    <2> HIDE DEF row
    <2> QED BY <1>2, <1>3, <2>1, <2>2, <2>3
  <1> QED BY <1>4, <1>5, <1>6, <1>7, <1>8, <1>9

LEMMA DismissStep ==
  ASSUME IInv, NEW r \in Refs, Dismiss(r)
  PROVE  IInv'
  <1>1. PICK i \in Ids :
          LET k == items[i].kind
              new == Dismissal(k)
              rows == IF k # "external" /\ Exists(r) /\ status[r] # new
                        THEN ClosedRows(r, new) \ {i} ELSE {} IN
          /\ Newest(r, i)
          /\ status' = IF k # "external" THEN [status EXCEPT ![r] = new] ELSE status
          /\ held' = Freed(rows)
          /\ items' = [Rewritten(rows, "dismissed") EXCEPT ![i].status = "dismissed"]
          /\ UNCHANGED <<state, blocked>>
    BY DEF Dismiss
  <1> DEFINE k == items[i].kind
             new == Dismissal(k)
             rows == IF k # "external" /\ Exists(r) /\ status[r] # new
                       THEN ClosedRows(r, new) \ {i} ELSE {}
  <1>2. items \in [Ids -> Item] /\ items[i].ref = r /\ "dismissed" \in ItemStatus
    BY <1>1, ItemsAreAFunction DEF IInv, TypeOK, Newest, ItemStatus
  <1>3. rows \in SUBSET Ids /\ i \notin rows
    BY DEF ClosedRows
  <1>4. k # "external" => r \in Entities /\ new \in Statuses(r)
    BY <1>2 DEF IInv, Anchored, KindOf, Statuses, Dismissal, FindingTerminal, RequirementTerminal
  <1>5. /\ status' = IF k # "external" THEN [status EXCEPT ![r] = new] ELSE status
        /\ held' = Freed(rows)
        /\ items' = [Rewritten(rows, "dismissed") EXCEPT ![i].status = "dismissed"]
        /\ UNCHANGED <<state, blocked>>
    BY <1>1
  <1> HIDE DEF rows, new, k
  <1>6. StatusStep
    BY <1>4, <1>5, StatusWritten, StatusStays
  <1> DEFINE mid == Rewritten(rows, "dismissed")
  <1>7. /\ mid \in [Ids -> Item]
        /\ \A j \in Ids : /\ mid[j].at = items[j].at /\ mid[j].kind = items[j].kind
                          /\ mid[j].ref = items[j].ref
        /\ \A j \in rows : mid[j].agent = NoAgent
        /\ \A j \in Ids \ rows : mid[j].agent = items[j].agent
    BY <1>2, <1>3 DEF Rewritten, Item
  <1>8. items' = [mid EXCEPT ![i] = [mid[i] EXCEPT !.status = "dismissed"]]
    BY <1>5
  <1> HIDE DEF mid
  <1>9. items' \in [Ids -> Item]
    BY <1>2, <1>7, <1>8 DEF Item
  <1>10. \A j \in Ids : /\ items'[j].at = mid[j].at /\ items'[j].kind = mid[j].kind
                        /\ items'[j].ref = mid[j].ref /\ items'[j].agent = mid[j].agent
    BY <1>7, <1>8 DEF Item
  <1> QED BY <1>3, <1>5, <1>6, <1>7, <1>9, <1>10, RewriteStep

LEMMA ReleaseItemStep ==
  ASSUME IInv, NEW r \in Refs, NEW as \in ItemStatus, ReleaseItem(r, as)
  PROVE  IInv'
  <1>1. PICK i \in Ids : Change(i, ReleasedRow(items[i], as)) /\ held' = Freed({i})
    BY DEF ReleaseItem
  <1>2. items \in [Ids -> Item]
    BY ItemsAreAFunction DEF IInv, TypeOK
  <1> DEFINE row == ReleasedRow(items[i], as)
  <1>3. /\ row \in Item /\ row.at = items[i].at /\ row.kind = items[i].kind /\ row.ref = items[i].ref
        /\ row.agent = NoAgent
    BY <1>2 DEF ReleasedRow, Item
  <1>4. items' = [items EXCEPT ![i] = row] /\ UNCHANGED <<status, state, blocked>>
    BY <1>1 DEF Change
  <1> HIDE DEF row
  <1>5. StatusStep
    BY <1>4, StatusStays
  <1>6. items' \in [Ids -> Item] /\ {i} \in SUBSET Ids
    BY <1>2, <1>3, <1>4
  <1>7. \A j \in Ids :
          items'[j].at = items[j].at /\ items'[j].kind = items[j].kind /\ items'[j].ref = items[j].ref
    BY <1>2, <1>3, <1>4
  <1>8. /\ \A j \in {i} : items'[j].agent = NoAgent
        /\ \A j \in Ids \ {i} : items'[j].agent = items[j].agent
    BY <1>2, <1>3, <1>4
  <1> QED BY <1>1, <1>4, <1>5, <1>6, <1>7, <1>8, RewriteStep

LEMMA PullNextStep ==
  ASSUME IInv, NEW a \in Agents, PullNext(a)
  PROVE  IInv'
  <1>1. PICK i \in Ids : /\ Change(i, [items[i] EXCEPT !.status = "in_progress", !.agent = a])
                         /\ held' = [held EXCEPT ![a][items[i].size] = @ + 1]
    BY DEF PullNext
  <1>2. items \in Seq(Item) /\ items \in [Ids -> Item] /\ held \in [Agents -> [Sizes -> Nat]]
    BY ItemsAreAFunction DEF IInv, TypeOK
  <1> DEFINE row == [items[i] EXCEPT !.status = "in_progress", !.agent = a]
             s == items[i].size
  <1>3. /\ row \in Item /\ row.at = items[i].at /\ row.kind = items[i].kind /\ row.ref = items[i].ref
        /\ row.agent = a /\ s \in Sizes
    BY <1>2 DEF Item, ItemStatus
  <1>4. /\ items' = [items EXCEPT ![i] = row] /\ UNCHANGED <<status, state, blocked>>
        /\ held' = [held EXCEPT ![a] = [held[a] EXCEPT ![s] = held[a][s] + 1]]
    BY <1>1 DEF Change
  <1> HIDE DEF row, s
  <1>5. StatusStep
    BY <1>4, StatusStays
  <1>6. items' \in [Ids -> Item] /\ Ids' = Ids
    BY <1>2, <1>3, <1>4 DEF Ids
  <1>7. \A j \in Ids :
          items'[j].at = items[j].at /\ items'[j].kind = items[j].kind /\ items'[j].ref = items[j].ref
    BY <1>2, <1>3, <1>4
  <1>8. held' \in [Agents -> [Sizes -> Nat]]
    BY <1>2, <1>3, <1>4
  <1>9. ASSUME NEW b \in Agents
        PROVE  Cardinality({j \in Ids : items'[j].agent = b}) <= Charged(held', b)
    <2> DEFINE New == {j \in Ids : items'[j].agent = b}
               Old == {j \in Ids : items[j].agent = b}
    <2>1. IsFiniteSet(Ids) /\ IsFiniteSet(Old) /\ Cardinality(Old) \in Nat
      BY <1>2, ItemsAreAFunction, FS_Subset, FS_CardinalityType
    <2>2. IsFiniteSet(New) /\ Cardinality(New) \in Nat
      BY <2>1, FS_Subset, FS_CardinalityType
    <2>3. Cardinality(Old) <= Charged(held, b) /\ Charged(held, b) \in Nat /\ Charged(held', b) \in Nat
      BY <1>2, <1>8 DEF IInv, SlotsCoverAssignments, Charged, Sizes
    <2>4. CASE b = a
      <3>1. New \in SUBSET (Old \cup {i})
        BY <1>2, <1>3, <1>4
      <3>2. Charged(held', b) = Charged(held, b) + 1
        BY <1>2, <1>3, <1>4, <2>4 DEF Charged, Sizes
      <3> HIDE DEF New, Old
      <3>3. /\ IsFiniteSet(Old \cup {i}) /\ Cardinality(Old \cup {i}) \in Nat
            /\ Cardinality(Old \cup {i}) <= Cardinality(Old) + 1
        <4>1. /\ IsFiniteSet(Old \cup {i})
              /\ Cardinality(Old \cup {i}) = IF i \in Old THEN Cardinality(Old) ELSE Cardinality(Old) + 1
          BY <2>1, FS_AddElement
        <4>2. Cardinality(Old \cup {i}) \in Nat
          BY <4>1, FS_CardinalityType
        <4> QED BY <2>1, <4>1, <4>2
      <3>4. Cardinality(New) <= Cardinality(Old \cup {i})
        BY <3>1, <3>3, FS_Subset
      <3>5. Cardinality(New) <= Charged(held', b)
        BY <2>1, <2>2, <2>3, <3>2, <3>3, <3>4
      <3> QED BY <3>5 DEF New
    <2>5. CASE b # a
      <3>1. New \in SUBSET Old
        BY <1>2, <1>3, <1>4, <2>5
      <3>2. Charged(held', b) = Charged(held, b)
        BY <1>2, <1>4, <2>5 DEF Charged
      <3> HIDE DEF New, Old
      <3>3. Cardinality(New) <= Cardinality(Old)
        BY <2>1, <3>1, FS_Subset
      <3>4. Cardinality(New) <= Charged(held', b)
        BY <2>1, <2>2, <2>3, <3>2, <3>3
      <3> QED BY <3>4 DEF New
    <2> QED BY <2>4, <2>5
  <1>10. SlotsCoverAssignments'
    BY <1>6, <1>9 DEF SlotsCoverAssignments
  <1> QED BY <1>4, <1>5, <1>6, <1>7, <1>8, <1>10, RowsStep DEF IInv, TypeOK

LEMMA ReconcileStep ==
  ASSUME IInv, ReconcileAll
  PROVE  IInv'
  <1> DEFINE rows == StaleRows
  <1>1. items \in [Ids -> Item] /\ rows \in SUBSET Ids
    BY ItemsAreAFunction DEF IInv, TypeOK, StaleRows
  <1>2. \A i \in Ids : Outcome(status[items[i].ref]) \in ItemStatus
    BY DEF Outcome, ItemStatus
  <1>3. /\ held' = Freed(rows) /\ UNCHANGED <<status, state, blocked>>
        /\ items' = [i \in Ids |->
             IF i \in rows
               THEN [items[i] EXCEPT !.status = Outcome(status[items[i].ref]), !.agent = NoAgent]
               ELSE items[i]]
    BY DEF ReconcileAll
  <1> HIDE DEF rows
  <1>4. items' \in [Ids -> Item]
    BY <1>1, <1>2, <1>3 DEF Item
  <1>5. \A i \in Ids :
          items'[i].at = items[i].at /\ items'[i].kind = items[i].kind /\ items'[i].ref = items[i].ref
    BY <1>1, <1>3 DEF Item
  <1>6. /\ \A i \in rows : items'[i].agent = NoAgent
        /\ \A i \in Ids \ rows : items'[i].agent = items[i].agent
    BY <1>1, <1>3 DEF Item
  <1> QED BY <1>1, <1>3, <1>4, <1>5, <1>6, RewriteStep, StatusStays

\* A step of milestones or blockers alone.
LEMMA OutsideStep ==
  ASSUME IInv, UNCHANGED <<status, items, held>>,
         state' \in [Milestones -> States], blocked' \subseteq Blockable
  PROVE  IInv'
  <1>1. items' \in [Ids -> Item] /\ SlotsCoverAssignments'
    BY ItemsAreAFunction DEF IInv, TypeOK, SlotsCoverAssignments, Charged, Ids
  <1> QED BY <1>1, StatusStays, RowsStep DEF IInv, TypeOK

-----------------------------------------------------------------------------
(* The invariant, and what it gives. *)

LEMMA InitInv == Init => IInv
  <1> SUFFICES ASSUME Init PROVE IInv
    OBVIOUS
  <1>1. items = <<>> /\ Len(items) = 0 /\ Ids = {}
    BY DEF Init, Ids
  <1>2. TypeOK
    BY <1>1, MilestonesAssumption DEF Init, TypeOK, States
  <1>3. Anchored
    BY <1>1 DEF Anchored
  <1>4. SlotsCoverAssignments
    <2> SUFFICES ASSUME NEW a \in Agents
                 PROVE  Cardinality({i \in Ids : items[i].agent = a}) <= Charged(held, a)
      BY DEF SlotsCoverAssignments
    <2>1. Charged(held, a) = 0
      BY DEF Init, Charged, Sizes
    <2>2. {i \in Ids : items[i].agent = a} = {}
      BY <1>1
    <2>3. Cardinality({i \in Ids : items[i].agent = a}) = 0
      BY <2>2, FS_EmptySet, Zenon
    <2> QED BY <2>1, <2>3
  <1> QED BY <1>2, <1>3, <1>4 DEF Init, IInv

LEMMA SourceInv == IInv /\ SourceStep => IInv'
  <1> SUFFICES ASSUME IInv, NEW e \in Entities,
                      \/ \E new \in InputStatus \cap Statuses(e) : UpdateSource(e, new) \/ SilentSource(e, new)
                      \/ \E urgent \in BOOLEAN : AddFinding(e, urgent)
               PROVE  IInv'
    BY DEF SourceStep
  <1> QED BY UpdateSourceStep, SilentSourceStep, AddFindingStep

LEMMA ItemInv == IInv /\ ItemStep => IInv'
  <1> SUFFICES ASSUME IInv, ItemStep PROVE IInv'
    OBVIOUS
  <1>1. PICK r \in Refs :
          \/ \E m \in Milestones :
               \/ \E size \in InputSizes, linked \in BOOLEAN :
                    (\E k \in InputKinds : AddItem(m, k, r, size, linked)) \/ Promote(r, m, size, linked)
               \/ MoveItem(r, m) \/ Defer(r, m)
          \/ \E s \in ItemStatus : SetItemStatus(r, s)
          \/ Dismiss(r) \/ MarkBranchOnly(r) \/ MarkIntegrated(r)
          \/ \E as \in {"open", "done"} : ReleaseItem(r, as)
    BY DEF ItemStep
  <1>2. /\ InputSizes \subseteq Sizes /\ InputKinds \subseteq Kinds /\ {"open", "done"} \subseteq ItemStatus
        /\ "triage" \in Sizes /\ TRUE \in BOOLEAN /\ "stream/triage" \in Milestones
    BY MilestonesAssumption DEF ItemStatus, Sizes, Milestones
  <1>3. CASE \E m \in Milestones, size \in InputSizes, linked \in BOOLEAN, k \in InputKinds :
               AddItem(m, k, r, size, linked)
    BY <1>2, <1>3, AddItemStep
  <1>4. CASE \E m \in Milestones, size \in InputSizes, linked \in BOOLEAN : Promote(r, m, size, linked)
    BY <1>2, <1>4, EditStep
  <1>5. CASE \E m \in Milestones : MoveItem(r, m) \/ Defer(r, m)
    BY <1>2, <1>5, EditStep
  <1>6. CASE \E s \in ItemStatus : SetItemStatus(r, s)
    BY <1>2, <1>6, EditStep
  <1>7. CASE MarkBranchOnly(r) \/ MarkIntegrated(r)
    BY <1>2, <1>7, EditStep
  <1>8. CASE Dismiss(r)
    BY <1>8, DismissStep
  <1>9. CASE \E as \in {"open", "done"} : ReleaseItem(r, as)
    BY <1>2, <1>9, ReleaseItemStep
  <1> QED BY <1>1, <1>3, <1>4, <1>5, <1>6, <1>7, <1>8, <1>9

LEMMA MilestoneInv == IInv /\ MilestoneStep => IInv'
  <1> SUFFICES ASSUME IInv, NEW m \in Milestones, NEW s \in States, NEW force \in BOOLEAN,
                      CloseMilestone(m, force) \/ UpdateMilestone(m, s)
               PROVE  IInv'
    BY MilestonesAssumption DEF MilestoneStep, States
  <1>1. UNCHANGED <<status, items, held, blocked>> /\ state' \in [Milestones -> States]
    BY DEF CloseMilestone, UpdateMilestone, States, IInv, TypeOK
  <1> QED BY <1>1, OutsideStep DEF IInv, TypeOK

LEMMA InvStep == IInv /\ [Next]_vars => IInv'
  <1> SUFFICES ASSUME IInv, [Next]_vars PROVE IInv'
    OBVIOUS
  <1>1. CASE \E r \in Blockable : Block(r)
    <2>1. UNCHANGED <<status, items, held, state>> /\ blocked' \subseteq Blockable
      BY <1>1 DEF Block, IInv, TypeOK
    <2> QED BY <2>1, OutsideStep DEF IInv, TypeOK
  <1>2. CASE UNCHANGED vars
    BY <1>2, OutsideStep DEF vars, IInv, TypeOK
  <1> QED BY <1>1, <1>2, SourceInv, ItemInv, PullNextStep, MilestoneInv, ReconcileStep DEF Next

LEMMA Invariance == Spec => []IInv
  BY InitInv, InvStep, PTL DEF Spec

\* Attachments, ledger and milestones keep their types, and a reference is
\* attached to a milestone at most once under one kind.
THEOREM Typing == Spec => []TypeOK
  BY Invariance, PTL DEF IInv

\* The ledger charges every agent for at least the attachments it has.
THEOREM SlotsCovered == Spec => []SlotsCoverAssignments
  BY Invariance, PTL DEF IInv

\* What an agent pulls has a source that is not finished.
THEOREM PullsLiveWork == Spec => PullIsLive
  <1> DEFINE A == \A a \in Agents : PullNext(a) =>
       \A i \in Ids : items'[i].status = "in_progress" /\ items[i] # items'[i]
         => items[i].kind = "external" \/ status[items[i].ref] \notin Terminal(items[i].ref)
  <1>1. IInv => A
    <2> SUFFICES ASSUME IInv, NEW a \in Agents, PullNext(a), NEW j \in Ids, items[j] # items'[j]
                 PROVE  LiveSource(j)
      BY DEF LiveSource
    <2>1. PICK i \in Ids : /\ LiveSource(i)
                           /\ Change(i, [items[i] EXCEPT !.status = "in_progress", !.agent = a])
      BY DEF PullNext, Eligible
    <2>2. items \in [Ids -> Item]
      BY ItemsAreAFunction DEF IInv, TypeOK
    <2>3. i = j
      BY <2>1, <2>2 DEF Change
    <2> QED BY <2>1, <2>3
  <1> HIDE DEF A
  <1>2. IInv /\ [Next]_vars => [A]_vars
    BY <1>1
  <1>3. Spec => [][A]_vars
    BY <1>2, Invariance, PTL DEF Spec
  <1> QED BY <1>3 DEF PullIsLive, A

\* A status written through the source's update function reaches every stream.
THEOREM ProjectionReachesStreams == Spec => ProjectionFollows
  <1> DEFINE A == \A e \in Entities, new \in InputStatus :
       UpdateSource(e, new) => \A i \in Ids :
         items[i].at \in Streams /\ items[i].kind = KindOf(e) /\ items[i].ref = e =>
           /\ new \in Terminal(e) => items'[i].status \notin {"open", "in_progress"}
           /\ new \notin Terminal(e) /\ status[e] \in Terminal(e)
                => items'[i].status \notin {"done", "dismissed"}
  <1>1. IInv => A
    <2> SUFFICES ASSUME IInv, NEW e \in Entities, NEW new \in InputStatus, UpdateSource(e, new),
                        NEW i \in Ids, InStream(i), Projects(i, e)
                 PROVE  /\ new \in Terminal(e) => items'[i].status \notin {"open", "in_progress"}
                        /\ new \notin Terminal(e) /\ status[e] \in Terminal(e)
                             => items'[i].status \notin {"done", "dismissed"}
      BY DEF InStream, Projects
    <2>1. items \in [Ids -> Item]
      BY ItemsAreAFunction DEF IInv, TypeOK
    <2>2. items'[i] = IF i \in HookRows(e, new)
                        THEN [items[i] EXCEPT !.status = HookStatus(e, new), !.agent = NoAgent]
                        ELSE items[i]
      BY DEF UpdateSource, Rewritten
    <2>3. items[i] \in Item
      BY <2>1
    <2>4. CASE new \in Terminal(e)
      <3>1. /\ HookRows(e, new) = ClosedRows(e, new) /\ HookStatus(e, new) = Outcome(new)
            /\ Outcome(new) \in {"done", "dismissed"}
        BY <2>4 DEF HookRows, HookStatus, Outcome
      <3>2. CASE i \in ClosedRows(e, new)
        BY <2>2, <2>3, <2>4, <3>1, <3>2 DEF Item
      <3>3. CASE i \notin ClosedRows(e, new)
        <4>1. items[i].status \in {"deferred", Outcome(new)}
          BY <3>3 DEF ClosedRows
        <4> QED BY <2>2, <2>4, <3>1, <3>3, <4>1
      <3> QED BY <3>2, <3>3
    <2>5. CASE new \notin Terminal(e) /\ status[e] \in Terminal(e)
      <3>1. HookRows(e, new) = ReopenedRows(e) /\ HookStatus(e, new) = "open"
        BY <2>5 DEF HookRows, HookStatus
      <3>2. CASE i \in ReopenedRows(e)
        BY <2>2, <2>3, <2>5, <3>1, <3>2 DEF Item
      <3>3. CASE i \notin ReopenedRows(e)
        <4>1. items[i].status \notin {"done", "dismissed"}
          BY <3>3 DEF ReopenedRows
        <4> QED BY <2>2, <2>5, <3>1, <3>3, <4>1
      <3> QED BY <3>2, <3>3
    <2> QED BY <2>4, <2>5
  <1> HIDE DEF A
  <1>2. IInv /\ [Next]_vars => [A]_vars
    BY <1>1
  <1>3. Spec => [][A]_vars
    BY <1>2, Invariance, PTL DEF Spec
  <1> QED BY <1>3 DEF ProjectionFollows, A

\* A step that writes a source's status finishes no attachment of a release.
THEOREM ReleasesAreTheirOwn == Spec => HooksLeaveReleases
  <1> DEFINE A == status' # status =>
       \A i \in Ids : items[i].at \in Releases /\ items'[i].status = "done"
                        => items[i].status = "done"
  <1>1. ASSUME IInv, Next PROVE A
    <2> SUFFICES ASSUME status' # status, NEW i \in Ids, items[i].at \in Releases
                 PROVE  items'[i].status = "done" => items[i].status = "done"
      OBVIOUS
    <2>1. items \in Seq(Item) /\ items \in [Ids -> Item] /\ ~InStream(i) /\ Ids = 1 .. Len(items)
      BY <1>1, ItemsAreAFunction, MilestonesAssumption DEF IInv, TypeOK, InStream
    <2>2. ASSUME NEW e, NEW new, UpdateSource(e, new) PROVE items'[i] = items[i]
      BY <2>1, <2>2 DEF UpdateSource, Rewritten, HookRows, ClosedRows, ReopenedRows
    <2>3. ASSUME NEW e, NEW new, SilentSource(e, new) PROVE items'[i] = items[i]
      BY <2>3 DEF SilentSource
    <2>4. ASSUME NEW e \in Entities, NEW urgent, AddFinding(e, urgent) PROVE items'[i] = items[i]
      BY <2>1, <2>4 DEF AddFinding
    <2>5. ASSUME NEW r, Dismiss(r) PROVE items'[i] = items[i] \/ items'[i].status = "dismissed"
      <3>1. PICK j, rows :
              /\ j \in Ids
              /\ rows \subseteq ClosedRows(r, Dismissal(items[j].kind))
              /\ items' = [Rewritten(rows, "dismissed") EXCEPT ![j].status = "dismissed"]
        BY <2>5 DEF Dismiss
      <3> DEFINE mid == Rewritten(rows, "dismissed")
      <3>2. i \notin rows
        BY <2>1, <3>1 DEF ClosedRows
      <3>3. DOMAIN mid = Ids /\ mid[i] = items[i]
        BY <3>2 DEF Rewritten
      <3>4. items' = [mid EXCEPT ![j] = [mid[j] EXCEPT !.status = "dismissed"]]
        BY <3>1
      <3> HIDE DEF mid
      <3>5. CASE i # j
        BY <3>3, <3>4, <3>5
      <3>6. CASE i = j
        <4>1. items'[i] = [items[i] EXCEPT !.status = "dismissed"]
          BY <3>3, <3>4, <3>6
        <4>2. items[i] \in Item
          BY <2>1
        <4> QED BY <4>1, <4>2 DEF Item
      <3> QED BY <3>5, <3>6
    <2>6. \A j, row : ~Change(j, row)
      BY DEF Change
    <2>7. /\ \A r, m : ~MoveItem(r, m) /\ ~Defer(r, m)
          /\ \A r, m, k, size, linked : ~AddItem(m, k, r, size, linked)
          /\ \A r, s : ~SetItemStatus(r, s) /\ ~ReleaseItem(r, s)
          /\ \A r : ~MarkBranchOnly(r) /\ ~MarkIntegrated(r)
      BY <2>6 DEF MoveItem, Defer, AddItem, SetItemStatus, ReleaseItem, MarkBranchOnly, MarkIntegrated
    <2>8. ASSUME NEW r, NEW m, NEW size, NEW linked, Promote(r, m, size, linked) PROVE FALSE
      BY <2>6, <2>8, Zenon DEF Promote
    <2>9. ~MilestoneStep /\ ~ReconcileAll /\ \A r : ~PullNext(r) /\ ~Block(r)
      BY <2>6 DEF MilestoneStep, CloseMilestone, UpdateMilestone, ReconcileAll, PullNext, Block
    <2>10. CASE SourceStep
      BY <2>2, <2>3, <2>4, <2>10 DEF SourceStep
    <2>11. CASE ItemStep
      <3>1. PICK r \in Refs : Dismiss(r)
        BY <2>7, <2>8, <2>11 DEF ItemStep
      <3> QED BY <2>5, <3>1
    <2> QED BY <1>1, <2>9, <2>10, <2>11 DEF Next
  <1> HIDE DEF A
  <1>2. IInv /\ [Next]_vars => [A]_vars
    BY <1>1
  <1>3. Spec => [][A]_vars
    BY <1>2, Invariance, PTL DEF Spec
  <1> QED BY <1>3 DEF HooksLeaveReleases, A
=============================================================================
