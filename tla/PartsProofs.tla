---------------------------- MODULE PartsProofs ----------------------------
(***************************************************************************)
(* Theorems about the parts: a tracker is created only by who may create   *)
(* it, the relations of findings do not contradict each other, hooks leave *)
(* the caller its transaction, and verdicts on provenance are earned.      *)
(*                                                                         *)
(* Each part has an inductive invariant of its own, a lemma per action,    *)
(* and a theorem about Spec, in which that part moves and the others stand *)
(* still.                                                                  *)
(***************************************************************************)
EXTENDS Parts, WellFoundedInduction, FiniteSetTheorems, TLAPS

-----------------------------------------------------------------------------
(* Numbers. *)

\* A non-empty set of numbers has a least element.
LEMMA LeastExists ==
  ASSUME NEW S \in SUBSET Nat, S # {}
  PROVE  \E m \in S : \A k \in S : m <= k
  <1>1. PICK m \in S : \A k \in S : ~(<<k, m>> \in OpToRel(<, Nat))
    BY NatLessThanWellFounded, WFMin
  <1>2. \A k \in S : k < m => <<k, m>> \in OpToRel(<, Nat)
    BY DEF OpToRel
  <1>3. \A k \in S : k \in Nat /\ m \in Nat /\ ~(k < m)
    BY <1>1, <1>2
  <1> QED BY <1>3

\* And one below a bound has a greatest.
LEMMA GreatestExists ==
  ASSUME NEW n \in Nat, NEW S \in SUBSET (1 .. n), S # {}
  PROVE  \E m \in S : \A k \in S : k <= m
  <1> DEFINE T == {n - k : k \in S}
  <1>1. T \in SUBSET Nat /\ T # {}
    <2>1. \A k \in S : n - k \in Nat
      OBVIOUS
    <2>2. \E k : k \in S
      OBVIOUS
    <2> QED BY <2>1, <2>2
  <1>2. PICK t \in T : \A u \in T : t <= u
    BY <1>1, LeastExists
  <1>3. PICK m \in S : t = n - m
    BY <1>2
  <1>4. \A k \in S : n - m <= n - k
    BY <1>2, <1>3
  <1> QED BY <1>4

-----------------------------------------------------------------------------
(* Discovery: a call that creates is one that walked or initialised. *)

LEMMA DiscoveryMove ==
  /\ Init => (part = "discovery" => Discovery!Init)
  /\ [Next]_vars => part' = part /\ (part = "discovery" => [Discovery!Next]_discoveryVars)
  BY DEF Init, Next, vars, discoveryVars

\* A call that may create is one that walked or that initialises.
Bound(j) == j = [at |-> j.at, root |-> j.root, create |-> j.create] /\ j.create \in BOOLEAN

DiscoveryInv ==
  /\ base \in [Dirs -> {"absent", "file", "other"}]
  /\ DOMAIN call = Callers /\ \A c \in Callers : Bound(call[c])

LEMMA BindingStep ==
  ASSUME DiscoveryInv, NEW c \in Callers, NEW j, Bound(j), call' = [call EXCEPT ![c] = j]
  PROVE  DOMAIN call' = Callers /\ \A o \in Callers : Bound(call'[o])
  <1>1. DOMAIN call' = Callers /\ \A o \in Callers : call'[o] = IF o = c THEN j ELSE call[o]
    BY DEF DiscoveryInv
  <1>2. \A o \in Callers : Bound(call[o])
    BY DEF DiscoveryInv
  <1> HIDE DEF Bound
  <1> QED BY <1>1, <1>2

LEMMA NewBinding ==
  ASSUME NEW at, NEW root, NEW create \in BOOLEAN
  PROVE  Bound([at |-> at, root |-> root, create |-> create])
  BY DEF Bound

LEMMA MovedBinding ==
  ASSUME NEW j, NEW at, Bound(j)
  PROVE  Bound([j EXCEPT !.at = at])
  <1>1. PICK was, root, create : j = [at |-> was, root |-> root, create |-> create]
    BY DEF Bound
  <1>2. create \in BOOLEAN
    BY <1>1 DEF Bound
  <1>3. [j EXCEPT !.at = at] = [at |-> at, root |-> root, create |-> create]
    BY <1>1
  <1> QED BY <1>2, <1>3, NewBinding

\* A step that opens no file moves one call, or deletes.
LEMMA ResolveStep ==
  ASSUME DiscoveryInv, NEW c \in Callers, NEW d \in Dirs,
         \/ Discovery!ResolveNamed(c, d) \/ Discovery!ResolveWalk(c, d)
         \/ Discovery!InitCheck(c, d) \/ Discovery!InitForce(c, d)
  PROVE  DiscoveryInv' /\ Discovery!OptedIn
  <1>1. PICK j : Bound(j) /\ call' = [call EXCEPT ![c] = j]
    BY NewBinding
       DEF Discovery!ResolveNamed, Discovery!ResolveWalk, Discovery!InitCheck, Discovery!InitForce
  <1>2. base' = base
    BY DEF Discovery!ResolveNamed, Discovery!ResolveWalk, Discovery!InitCheck, Discovery!InitForce
  <1>3. DOMAIN call' = Callers /\ \A o \in Callers : Bound(call'[o])
    BY <1>1, BindingStep
  <1>4. Discovery!OptedIn
    BY <1>2 DEF Discovery!OptedIn
  <1> QED BY <1>2, <1>3, <1>4 DEF DiscoveryInv, Bound

LEMMA OpenStep ==
  ASSUME DiscoveryInv, NEW c \in Callers, Discovery!Open(c)
  PROVE  DiscoveryInv' /\ Discovery!OptedIn
  <1>1. Bound(Discovery!Idle)
    BY NewBinding DEF Discovery!Idle
  <1>2. DOMAIN call' = Callers /\ \A o \in Callers : Bound(call'[o])
    BY <1>1, BindingStep DEF Discovery!Open
  <1>3. base' \in [Dirs -> {"absent", "file", "other"}]
    BY DEF Discovery!Open, DiscoveryInv
  <1>4. ASSUME NEW d \in Dirs, base[d] = "absent", base'[d] = "file"
        PROVE  call[c] = [at |-> "open", root |-> d, create |-> TRUE]
    <2>1. Discovery!Opens(c) /\ call[c].root = d
      BY <1>4 DEF Discovery!Open, DiscoveryInv
    <2>2. call[c].create
      BY <1>4, <2>1 DEF Discovery!Opens
    <2>3. Bound(call[c]) /\ call[c].at = "open"
      BY DEF DiscoveryInv, Discovery!Open
    <2>4. call[c].create = TRUE
      BY <2>2, <2>3 DEF Bound
    <2> QED BY <2>1, <2>3, <2>4 DEF Bound
  <1>5. Discovery!OptedIn
    BY <1>4 DEF Discovery!OptedIn
  <1> QED BY <1>2, <1>3, <1>5 DEF DiscoveryInv, Bound

LEMMA InitMakeStep ==
  ASSUME DiscoveryInv, NEW c \in Callers, Discovery!InitMake(c)
  PROVE  DiscoveryInv' /\ Discovery!OptedIn
  <1>1. Bound(Discovery!Idle)
    BY NewBinding DEF Discovery!Idle
  <1>2. Bound([call[c] EXCEPT !.at = "open"])
    BY MovedBinding DEF DiscoveryInv
  <1>3. base' = base
    BY DEF Discovery!InitMake
  <1>4. \/ call' = [call EXCEPT ![c] = Discovery!Idle]
        \/ call' = [call EXCEPT ![c] = [call[c] EXCEPT !.at = "open"]]
    BY DEF Discovery!InitMake
  <1>5. DOMAIN call' = Callers /\ \A o \in Callers : Bound(call'[o])
    BY <1>1, <1>2, <1>4, BindingStep
  <1>6. Discovery!OptedIn
    BY <1>3 DEF Discovery!OptedIn
  <1> QED BY <1>3, <1>5, <1>6 DEF DiscoveryInv, Bound

LEMMA WorldStep ==
  ASSUME DiscoveryInv,
         \/ \E c \in Callers : Discovery!Die(c)
         \/ \E d \in Dirs : Discovery!RemoveBase(d) \/ Discovery!Seal(d)
         \/ \E d \in Dirs, left \in {"absent", "other"} : Discovery!RemoveTracker(d, left)
         \/ \E d \in Dirs, q \in Discovery!Questions : Discovery!Darken(d, q)
  PROVE  DiscoveryInv' /\ Discovery!OptedIn
  <1>1. CASE \E c \in Callers : Discovery!Die(c)
    <2>1. PICK c \in Callers : Discovery!Die(c)
      BY <1>1
    <2>2. Bound(Discovery!Idle)
      BY NewBinding DEF Discovery!Idle
    <2>3. DOMAIN call' = Callers /\ \A o \in Callers : Bound(call'[o])
      BY <2>1, <2>2, BindingStep DEF Discovery!Die
    <2>4. base' = base
      BY <2>1 DEF Discovery!Die
    <2>5. Discovery!OptedIn
      BY <2>4 DEF Discovery!OptedIn
    <2> QED BY <2>3, <2>4, <2>5 DEF DiscoveryInv, Bound
  <1>2. ASSUME call' = call, base' = base \/ \E d \in Dirs : base' = [base EXCEPT ![d] = "absent"]
        PROVE  DiscoveryInv' /\ Discovery!OptedIn
    <2>1. base' \in [Dirs -> {"absent", "file", "other"}]
      BY <1>2 DEF DiscoveryInv
    <2>2. \A d \in Dirs : base'[d] \in {base[d], "absent"}
      BY <1>2 DEF DiscoveryInv
    <2>3. Discovery!OptedIn
      BY <2>2 DEF Discovery!OptedIn
    <2> QED BY <1>2, <2>1, <2>3 DEF DiscoveryInv, Bound
  <1> QED BY <1>1, <1>2
       DEF Discovery!RemoveBase, Discovery!Seal, Discovery!RemoveTracker, Discovery!Darken

LEMMA DiscoveryInvariance ==
  /\ Discovery!Init => DiscoveryInv
  /\ DiscoveryInv /\ [Discovery!Next]_discoveryVars => DiscoveryInv' /\ Discovery!OptedIn
  <1>1. Discovery!Init => DiscoveryInv
    <2>1. Bound(Discovery!Idle)
      BY NewBinding DEF Discovery!Idle
    <2> QED BY <2>1 DEF Discovery!Init, DiscoveryInv
  <1>2. DiscoveryInv /\ Discovery!Next => DiscoveryInv' /\ Discovery!OptedIn
    BY ResolveStep, OpenStep, InitMakeStep, WorldStep DEF Discovery!Next
  <1>3. DiscoveryInv /\ UNCHANGED discoveryVars => DiscoveryInv' /\ Discovery!OptedIn
    BY DEF DiscoveryInv, discoveryVars, Discovery!OptedIn, Bound
  <1> QED BY <1>1, <1>2, <1>3

\* No step makes a database where there was none, except the open of a call that
\* walked up to that tracker or initialises it: whoever deletes the file between
\* the check of a named root and its open (connect, db.py) causes a refusal, not a
\* second, empty tracker.
THEOREM OnlyOptedInCreate == Spec => OnlyTheOptedInCreate
  <1> DEFINE Inv == part = "discovery" => DiscoveryInv
             Created == part = "discovery" => Discovery!OptedIn
  <1>1. Init => Inv
    BY DiscoveryMove, DiscoveryInvariance
  <1>2. Inv /\ [Next]_vars => Inv'
    BY DiscoveryMove, DiscoveryInvariance
  <1>3. Inv /\ [Next]_vars => [Created]_vars
    BY DiscoveryMove, DiscoveryInvariance
  <1> HIDE DEF Created
  <1>4. Spec => [][Created]_vars
    BY <1>1, <1>2, <1>3, PTL DEF Spec
  <1> QED BY <1>4 DEF Created, OnlyTheOptedInCreate

-----------------------------------------------------------------------------
(* Relations: no two rows of the ledger clash, and every row is canonical. *)

LEMMA RelationsMove ==
  /\ Init => Relations!Init
  /\ [Next]_vars => part' = part /\ (part = "relations" => [Relations!Next]_relationsVars)
  BY DEF Init, Next, vars, relationsVars

\* Two rows that may not both stand.
Clash(a, b) ==
  /\ Relations!IsLive(a) /\ Relations!IsLive(b)
  /\ \/ a.src = b.src /\ a.rel = b.rel /\ a.dst = b.dst
     \/ /\ a.rel = "duplicate_of" /\ b.rel = "duplicate_of"
        /\ a.src = b.dst /\ a.dst = b.src
     \/ /\ a.rel = "duplicate_of" /\ b.rel = "distinct_from"
        /\ {a.src, a.dst} = {b.src, b.dst}

\* A row of two entities; a symmetric one with the lesser id first.
Canonical(row) ==
  row.src # row.dst /\ (row.rel \in Relations!Symmetric => row.src < row.dst)

RelationsInv ==
  /\ ledger \in Seq(Relations!Rows)
  /\ \A i \in DOMAIN ledger : Canonical(ledger[i])
  /\ \A i, j \in DOMAIN ledger : i # j => ~Clash(ledger[i], ledger[j])

LEMMA LedgerIsAFunction ==
  ASSUME ledger \in Seq(Relations!Rows)
  PROVE  /\ Len(ledger) \in Nat /\ DOMAIN ledger = 1 .. Len(ledger)
         /\ \A i \in DOMAIN ledger : ledger[i] \in Relations!Rows
  OBVIOUS

LEMMA OrientedEdge ==
  ASSUME NEW s \in Related, NEW d \in Related, s # d, NEW rel
  PROVE  /\ Relations!Orient(rel, s, d) \in {<<s, d>>, <<d, s>>}
         /\ rel \in Relations!Symmetric =>
              Relations!Orient(rel, s, d)[1] < Relations!Orient(rel, s, d)[2]
         /\ rel \in Relations!Symmetric /\ s < d => Relations!Orient(rel, s, d) = <<s, d>>
  <1>1. s \in Nat /\ d \in Nat
    BY PartsAssumption DEF PartsAssumption, Relations!RelationsAssumption
  <1>2. s < d \/ d < s
    BY <1>1
  <1> QED BY <1>1, <1>2 DEF Relations!Orient

LEMMA RelateStep ==
  ASSUME RelationsInv, NEW s \in Related, NEW d \in Related, NEW rel \in Relations!Rels,
         NEW who \in Actors, Relations!Relate(s, rel, d, who)
  PROVE  RelationsInv'
  <1> DEFINE edge == Relations!Orient(rel, s, d)
             new == [src |-> edge[1], rel |-> rel, dst |-> edge[2], source |-> who, retracted_by |-> NoOne]
  <1>1. /\ s # d /\ Relations!LiveEdge(ledger, edge[1], rel, edge[2]) = {}
        /\ ~Relations!Contradicted(rel, edge[1], edge[2])
        /\ ledger' = Append(ledger, new)
    BY DEF Relations!Relate
  <1>2. edge \in {<<s, d>>, <<d, s>>} /\ (rel \in Relations!Symmetric => edge[1] < edge[2])
    BY <1>1, OrientedEdge
  <1>3. edge[1] \in Related /\ edge[2] \in Related /\ edge[1] # edge[2]
    BY <1>1, <1>2
  <1> HIDE DEF edge
  <1>4. new \in Relations!Rows /\ Canonical(new)
    BY <1>2, <1>3 DEF Relations!Rows, Canonical
  <1>5. ASSUME NEW i \in DOMAIN ledger PROVE ~Clash(ledger[i], new) /\ ~Clash(new, ledger[i])
    <2> DEFINE r == ledger[i]
    <2>0. r \in Relations!Rows /\ Canonical(r)
      BY <1>5, LedgerIsAFunction DEF RelationsInv
    <2> SUFFICES ASSUME Relations!IsLive(r) PROVE ~Clash(r, new) /\ ~Clash(new, r)
      BY DEF Clash
    <2>1. ~(r.src = edge[1] /\ r.rel = rel /\ r.dst = edge[2])
      BY <1>1 DEF Relations!LiveEdge
    <2>2. rel = "duplicate_of" => ~(r.rel = "duplicate_of" /\ r.src = edge[2] /\ r.dst = edge[1])
      BY <1>1 DEF Relations!Contradicted, Relations!LiveEdge
    <2>3. ASSUME rel = "duplicate_of", r.rel = "distinct_from" PROVE {r.src, r.dst} # {edge[1], edge[2]}
      <3>1. r.src < r.dst /\ r.src \in Nat /\ r.dst \in Nat
        BY <2>0, <2>3, PartsAssumption
           DEF Canonical, Relations!Symmetric, Relations!Rows,
               PartsAssumption, Relations!RelationsAssumption
      <3> DEFINE pair == Relations!Orient("distinct_from", edge[1], edge[2])
      <3>2. pair \in {<<edge[1], edge[2]>>, <<edge[2], edge[1]>>} /\ pair[1] < pair[2]
        BY <1>3, OrientedEdge DEF Relations!Symmetric
      <3>3. ~(r.src = pair[1] /\ r.dst = pair[2])
        BY <1>1, <2>3 DEF Relations!Contradicted, Relations!LiveEdge
      <3> HIDE DEF pair
      <3>4. edge[1] \in Nat /\ edge[2] \in Nat
        BY <1>3, PartsAssumption DEF PartsAssumption, Relations!RelationsAssumption
      <3> QED BY <3>1, <3>2, <3>3, <3>4
    <2>4. ASSUME rel = "distinct_from", r.rel = "duplicate_of" PROVE {r.src, r.dst} # {edge[1], edge[2]}
      BY <1>1, <2>4 DEF Relations!Contradicted, Relations!LiveEdge
    <2> QED BY <2>1, <2>2, <2>3, <2>4 DEF Clash
  <1>6. /\ ledger' \in Seq(Relations!Rows) /\ DOMAIN ledger' = 1 .. (Len(ledger) + 1)
        /\ ledger'[Len(ledger) + 1] = new
        /\ \A i \in DOMAIN ledger : ledger'[i] = ledger[i]
    BY <1>1, <1>4 DEF RelationsInv
  <1> HIDE DEF new
  <1>7. DOMAIN ledger' = DOMAIN ledger \cup {Len(ledger) + 1} /\ Len(ledger) + 1 \notin DOMAIN ledger
    BY <1>6 DEF RelationsInv
  <1>8. \A i \in DOMAIN ledger' : Canonical(ledger'[i])
    BY <1>4, <1>6, <1>7 DEF RelationsInv
  <1>9. \A i, j \in DOMAIN ledger' : i # j => ~Clash(ledger'[i], ledger'[j])
    BY <1>5, <1>6, <1>7 DEF RelationsInv
  <1> QED BY <1>6, <1>8, <1>9 DEF RelationsInv, Canonical, Clash, Relations!IsLive

\* A tombstone can only take a row out of a clash.
LEMMA UnrelateStep ==
  ASSUME RelationsInv, NEW s \in Related, NEW d \in Related, NEW rel \in Relations!Rels,
         NEW who \in Actors, Relations!Unrelate(s, rel, d, who)
  PROVE  RelationsInv'
  <1>1. PICK i \in DOMAIN ledger :
          Relations!IsLive(ledger[i]) /\ ledger' = [ledger EXCEPT ![i].retracted_by = who]
    BY DEF Relations!Unrelate, Relations!LiveEdge
  <1> DEFINE new == [ledger[i] EXCEPT !.retracted_by = who]
  <1>2. ledger[i] \in Relations!Rows
    BY LedgerIsAFunction DEF RelationsInv
  <1>3. /\ new \in Relations!Rows
        /\ new.src = ledger[i].src /\ new.rel = ledger[i].rel /\ new.dst = ledger[i].dst
    BY <1>2 DEF Relations!Rows
  <1>4. /\ ledger' \in Seq(Relations!Rows) /\ DOMAIN ledger' = DOMAIN ledger
        /\ ledger'[i] = new /\ \A j \in DOMAIN ledger : j # i => ledger'[j] = ledger[j]
    BY <1>1, <1>3 DEF RelationsInv
  <1> HIDE DEF new
  <1>5. \A j \in DOMAIN ledger : Canonical(ledger'[j])
    BY <1>3, <1>4 DEF RelationsInv, Canonical
  <1>6. \A r : (Clash(new, r) => Clash(ledger[i], r)) /\ (Clash(r, new) => Clash(r, ledger[i]))
    BY <1>1, <1>3 DEF Clash
  <1>7. \A j, k \in DOMAIN ledger : j # k => ~Clash(ledger'[j], ledger'[k])
    BY <1>4, <1>6 DEF RelationsInv
  <1> QED BY <1>4, <1>5, <1>7 DEF RelationsInv, Canonical, Clash, Relations!IsLive

LEMMA RelationsInvariance ==
  /\ Relations!Init => RelationsInv
  /\ RelationsInv /\ [Relations!Next]_relationsVars => RelationsInv'
  <1>1. Relations!Init => RelationsInv
    BY DEF Relations!Init, RelationsInv
  <1>2. ASSUME RelationsInv, Relations!Next PROVE RelationsInv'
    <2>1. CASE \E s, d \in Related, rel \in Relations!Rels, who \in Actors :
                 Relations!Relate(s, rel, d, who)
      BY <1>2, <2>1, RelateStep
    <2>2. CASE \E s, d \in Related, rel \in Relations!Rels, who \in Actors :
                 Relations!Unrelate(s, rel, d, who)
      BY <1>2, <2>2, UnrelateStep
    <2>3. CASE \E c \in Related : Relations!AddCard(c)
      BY <1>2, <2>3 DEF Relations!AddCard, RelationsInv
    <2> QED BY <1>2, <2>1, <2>2, <2>3 DEF Relations!Next
  <1>3. RelationsInv /\ UNCHANGED relationsVars => RelationsInv'
    BY DEF RelationsInv, relationsVars
  <1> QED BY <1>1, <1>2, <1>3

\* What the rows say of one another, as the property puts it.
LEMMA NothingContradicts == RelationsInv => Relations!NoContradiction
  <1> SUFFICES ASSUME RelationsInv PROVE Relations!NoContradiction
    OBVIOUS
  <1>0. \A i \in DOMAIN ledger :
          /\ Canonical(ledger[i]) /\ ledger[i] \in Relations!Rows
          /\ ledger[i].src \in Nat /\ ledger[i].dst \in Nat
    BY LedgerIsAFunction, PartsAssumption
       DEF RelationsInv, Relations!Rows, PartsAssumption, Relations!RelationsAssumption
  <1>1. ASSUME NEW i \in DOMAIN ledger, NEW j \in DOMAIN ledger, i # j,
               Relations!IsLive(ledger[i]), Relations!IsLive(ledger[j]),
               {ledger[i].src, ledger[i].dst} = {ledger[j].src, ledger[j].dst},
               ledger[i].rel = ledger[j].rel
        PROVE  ledger[i].rel = "split_from" /\ ledger[i].src = ledger[j].dst
    <2>1. ~Clash(ledger[i], ledger[j])
      BY <1>1 DEF RelationsInv
    <2>2. ledger[i].src = ledger[j].dst /\ ledger[i].dst = ledger[j].src
      BY <1>1, <2>1 DEF Clash
    <2>3. ledger[i].rel \notin Relations!Symmetric
      BY <1>0, <1>1, <2>2 DEF Canonical
    <2>4. ledger[i].rel # "duplicate_of"
      BY <1>1, <2>1, <2>2 DEF Clash
    <2>5. ledger[i].rel \in Relations!Rels
      BY <1>0 DEF Relations!Rows
    <2> QED BY <2>2, <2>3, <2>4, <2>5 DEF Relations!Rels, Relations!Symmetric
  <1>2. ASSUME NEW pair \in Relations!ActiveSuppressions, NEW end \in {1, 2}
        PROVE  /\ \E row \in Relations!RelationsOf(pair[end]) :
                    row.rel = "distinct_from" /\ {row.src, row.dst} = {pair[1], pair[2]}
               /\ \A row \in Relations!RelationsOf(pair[end]) :
                    row.rel = "duplicate_of" => {row.src, row.dst} # {pair[1], pair[2]}
    <2>1. PICK i \in DOMAIN ledger :
            /\ Relations!IsLive(ledger[i]) /\ ledger[i].rel = "distinct_from"
            /\ pair = Relations!Orient("distinct_from", ledger[i].src, ledger[i].dst)
      BY DEF Relations!ActiveSuppressions
    <2>2. pair = <<ledger[i].src, ledger[i].dst>>
      BY <1>0, <2>1 DEF Relations!Orient, Canonical, Relations!Symmetric
    <2>3. ledger[i] \in Relations!RelationsOf(pair[end])
      BY <2>1, <2>2 DEF Relations!RelationsOf
    <2>4. ASSUME NEW row \in Relations!RelationsOf(pair[end]), row.rel = "duplicate_of"
          PROVE  {row.src, row.dst} # {pair[1], pair[2]}
      <3>1. PICK j \in DOMAIN ledger : row = ledger[j] /\ Relations!IsLive(ledger[j])
        BY DEF Relations!RelationsOf
      <3>2. j # i /\ ~Clash(ledger[j], ledger[i])
        BY <2>1, <2>4, <3>1 DEF RelationsInv
      <3> QED BY <2>1, <2>2, <2>4, <3>1, <3>2 DEF Clash
    <2> QED BY <2>1, <2>2, <2>3, <2>4
  <1> QED BY <1>1, <1>2 DEF Relations!NoContradiction

\* The cards are those of the constants.
LEMMA RelationsAreTyped ==
  /\ Relations!Init => cards \subseteq Related
  /\ cards \subseteq Related /\ [Relations!Next]_relationsVars => cards' \subseteq Related
  <1>1. Relations!Init => cards \subseteq Related
    BY DEF Relations!Init
  <1>2. ASSUME cards \subseteq Related, [Relations!Next]_relationsVars
        PROVE  UNCHANGED cards \/ \E e \in Related : cards' = cards \cup {e}
    <2>1. ASSUME NEW a, NEW rel, NEW b, NEW who, Relations!Relate(a, rel, b, who) \/ Relations!Unrelate(a, rel, b, who)
          PROVE  UNCHANGED cards
      BY <2>1 DEF Relations!Relate, Relations!Unrelate
    <2>2. ASSUME NEW e \in Related, Relations!AddCard(e) PROVE cards' = cards \cup {e}
      BY <2>2 DEF Relations!AddCard
    <2> QED BY <1>2, <2>1, <2>2 DEF Relations!Next, relationsVars
  <1> QED BY <1>1, <1>2


\* With the invariant, the state is typed.
LEMMA RelationsTyped == RelationsInv /\ cards \subseteq Related => Relations!TypeOK
  BY DEF RelationsInv, Relations!TypeOK

\* However relate and unrelate (relations.py) are called, from either end: no two
\* live relations of a pair contradict each other, and a pair that is suppressed is
\* shown as distinct at both of its ends, and as duplicate at neither.
THEOREM DeclarationsStand == Spec => []DeclarationsHold
  <1> DEFINE Inv == part = "relations" => RelationsInv
  <1>1. Init => Inv
    BY RelationsMove, RelationsInvariance
  <1>2. Inv /\ [Next]_vars => Inv'
    BY RelationsMove, RelationsInvariance
  <1>3. Inv => DeclarationsHold
    BY NothingContradicts DEF DeclarationsHold
  <1> QED BY <1>1, <1>2, <1>3, PTL DEF Spec

-----------------------------------------------------------------------------
(* Resolvers: where the savepoint of the running resolver is on the stack. *)

LEMMA ResolversMove ==
  /\ Init => Resolvers!Init
  /\ [Next]_vars => part' = part /\ (part = "resolvers" => [Resolvers!Next]_resolversVars)
  BY DEF Init, Next, vars, resolversVars

\* The invariant.

SavepointFrames == [name : {"begin", "again", "nonce", "guess"} \X Nat,
                    wrote : SUBSET (Names \cup {Resolvers!Caller})]
Entries == [name : Names, fn : Fns, keys : SUBSET (Keys \cup {Resolvers!Errors}), updatable : SUBSET Keys]
Runnings == [at : {"idle", "next", "resolver", "done", "aborted"}, turn : Nat, ops : Int,
             patch : SUBSET (Names \X (Keys \cup {Resolvers!Errors})), errors : SUBSET Names]

\* The first k resolvers.
First(k) == {registry[i].name : i \in 1 .. k}

\* The caller's transaction, with its writes and those of resolvers that did not fail.
Own(f, k, errors) ==
  /\ f.name = <<"begin", 0>> /\ Resolvers!Caller \in f.wrote
  /\ f.wrote \subseteq {Resolvers!Caller} \cup (First(k) \ errors)

\* A resolver in its savepoint, in what it opened on top of it.
Nested(fs, turn, errors, who) ==
  /\ Len(fs) >= 2 /\ Own(fs[1], turn - 1, errors) /\ fs[2].name = <<"nonce", turn>>
  /\ \A i \in 2 .. Len(fs) : fs[i].wrote \subseteq {who}
  /\ \A i \in 3 .. Len(fs) : fs[i].name = <<"guess", turn>>

\* Or it ended the transaction, and no savepoint of that name is left.
Lost(fs, turn) == \A i \in DOMAIN fs : fs[i].name # <<"nonce", turn>>

RegistryInv ==
  /\ registry \in Seq(Entries)
  /\ \A i \in DOMAIN registry : /\ registry[i].updatable \subseteq registry[i].keys
                                /\ Resolvers!Errors \notin registry[i].keys
  /\ \A i, j \in DOMAIN registry :
       i # j => registry[i].name # registry[j].name /\ registry[i].keys \cap registry[j].keys = {}

\* What the first k resolvers gave, and who of them failed.
Gathered(patch, errors, k) ==
  /\ errors \subseteq First(k)
  /\ \A p \in patch : \E i \in 1 .. k :
       /\ p[1] = registry[i].name /\ p[1] \notin errors
       /\ p[2] \in registry[i].keys \ Forbidden

ResolversInv ==
  /\ RegistryInv
  /\ frames \in Seq(SavepointFrames) /\ run \in Runnings /\ run.turn <= Len(registry)
  /\ run.at = "idle" => frames = <<>> /\ saved = {} /\ run.turn = 0 /\ run.patch = {} /\ run.errors = {}
  /\ run.at \in {"next", "done"} =>
       /\ Len(frames) = 1 /\ Own(frames[1], run.turn, run.errors) /\ saved = {}
       /\ Gathered(run.patch, run.errors, run.turn)
  /\ run.at = "resolver" =>
       /\ run.turn # 0
       /\ \/ Nested(frames, run.turn, run.errors, registry[run.turn].name) /\ saved = {}
          \/ Lost(frames, run.turn)
       /\ Gathered(run.patch, run.errors, run.turn - 1)

LEMMA RegistryIsAFunction ==
  ASSUME RegistryInv
  PROVE  /\ Len(registry) \in Nat /\ DOMAIN registry = 1 .. Len(registry)
         /\ \A i \in DOMAIN registry : registry[i] \in Entries
  BY DEF RegistryInv

LEMMA FramesAreAFunction ==
  ASSUME ResolversInv
  PROVE  /\ Len(frames) \in Nat /\ DOMAIN frames = 1 .. Len(frames)
         /\ \A i \in DOMAIN frames : frames[i] \in SavepointFrames
  BY DEF ResolversInv

\* The connection.

LEMMA InnermostIsThere ==
  ASSUME NEW fs \in Seq(SavepointFrames), NEW name
  PROVE  LET i == Resolvers!Innermost(fs, name) IN
         \/ i = 0 /\ \A k \in DOMAIN fs : fs[k].name # name
         \/ i \in DOMAIN fs /\ fs[i].name = name
  <1> DEFINE at == {i \in DOMAIN fs : fs[i].name = name}
  <1>1. CASE at = {}
    BY <1>1 DEF Resolvers!Innermost
  <1>2. CASE at # {}
    <2>1. at \in SUBSET (1 .. Len(fs)) /\ Len(fs) \in Nat
      OBVIOUS
    <2>2. \E i \in at : \A j \in at : j <= i
      BY <1>2, <2>1, GreatestExists
    <2>3. (CHOOSE i \in at : \A j \in at : j <= i) \in at
      BY <2>2
    <2> QED BY <1>2, <2>3 DEF Resolvers!Innermost
  <1> QED BY <1>1, <1>2

\* What a RELEASE leaves, of a savepoint that is not the outermost.
LEMMA ReleasedFrames ==
  ASSUME NEW fs \in Seq(SavepointFrames), NEW i \in DOMAIN fs, i # 1
  PROVE  LET gs == Resolvers!Released(fs, i) IN
         /\ gs \in Seq(SavepointFrames) /\ Len(gs) = i - 1
         /\ \A k \in 1 .. (i - 2) : gs[k] = fs[k]
         /\ gs[i - 1].name = fs[i - 1].name
         /\ gs[i - 1].wrote = fs[i - 1].wrote \cup UNION {fs[k].wrote : k \in i .. Len(fs)}
  <1> DEFINE low == SubSeq(fs, 1, i - 1)
             high == SubSeq(fs, i, Len(fs))
             wrote == fs[i - 1].wrote \cup UNION {fs[k].wrote : k \in i .. Len(fs)}
  <1>1. i \in 2 .. Len(fs) /\ Len(fs) \in Nat /\ i - 1 \in 1 .. Len(fs) /\ i - 1 \in Nat
    OBVIOUS
  <1>2. low \in Seq(SavepointFrames) /\ Len(low) = i - 1 /\ \A k \in 1 .. (i - 1) : low[k] = fs[k]
    BY <1>1
  <1>3. /\ DOMAIN high = 1 .. (Len(fs) - i + 1)
        /\ \A k \in DOMAIN high : high[k] = fs[i + k - 1]
    BY <1>1
  <1>4. Resolvers!AllWrote(high) = UNION {fs[k].wrote : k \in i .. Len(fs)}
    <2> HIDE DEF high, low, wrote
    <2>1. \A k \in DOMAIN high : i + k - 1 \in i .. Len(fs)
      BY <1>1, <1>3
    <2>2. ASSUME NEW k \in i .. Len(fs) PROVE k - i + 1 \in DOMAIN high /\ high[k - i + 1] = fs[k]
      <3>1. k - i + 1 \in 1 .. (Len(fs) - i + 1) /\ i + (k - i + 1) - 1 = k
        BY <1>1
      <3> QED BY <1>3, <3>1
    <2>3. ASSUME NEW w PROVE w \in UNION {fs[k].wrote : k \in i .. Len(fs)}
                              <=> \E k \in i .. Len(fs) : w \in fs[k].wrote
      OBVIOUS
    <2>4. ASSUME NEW w PROVE w \in Resolvers!AllWrote(high) <=> \E k \in DOMAIN high : w \in high[k].wrote
      BY DEF Resolvers!AllWrote
    <2>5. ASSUME NEW w PROVE (\E k \in DOMAIN high : w \in high[k].wrote)
                              <=> \E k \in i .. Len(fs) : w \in fs[k].wrote
      BY <1>3, <2>1, <2>2
    <2> QED BY <2>3, <2>4, <2>5
  <1>5. low[i - 1] = fs[i - 1] /\ fs[i - 1] \in SavepointFrames
    BY <1>1, <1>2
  <1>6. wrote \in SUBSET (Names \cup {Resolvers!Caller})
    <2>0. \A k \in 1 .. Len(fs) : fs[k] \in SavepointFrames
      OBVIOUS
    <2>1. \A k \in 1 .. Len(fs) : fs[k].wrote \in SUBSET (Names \cup {Resolvers!Caller})
      BY <2>0 DEF SavepointFrames
    <2>2. \A k \in i .. Len(fs) : k \in 1 .. Len(fs)
      BY <1>1
    <2> QED BY <1>1, <2>1, <2>2
  <1>7. Resolvers!Released(fs, i) = [low EXCEPT ![i - 1] = [fs[i - 1] EXCEPT !.wrote = wrote]]
    BY <1>4, <1>5 DEF Resolvers!Released
  <1> DEFINE f == [fs[i - 1] EXCEPT !.wrote = wrote]
  <1>8. f \in SavepointFrames /\ f.name = fs[i - 1].name /\ f.wrote = wrote
    BY <1>5, <1>6 DEF SavepointFrames
  <1> HIDE DEF low, f
  <1>9. Resolvers!Released(fs, i) = [low EXCEPT ![i - 1] = f]
    BY <1>7 DEF f
  <1>10. i - 1 \in 1 .. Len(low)
    BY <1>1, <1>2
  <1> HIDE DEF wrote
  <1>11. /\ Resolvers!Released(fs, i) \in Seq(SavepointFrames) /\ Len(Resolvers!Released(fs, i)) = i - 1
         /\ Resolvers!Released(fs, i)[i - 1] = f
         /\ \A k \in 1 .. (i - 2) : Resolvers!Released(fs, i)[k] = low[k]
    BY <1>1, <1>2, <1>8, <1>9, <1>10
  <1> QED BY <1>1, <1>2, <1>8, <1>11 DEF wrote

LEMMA ReleaseNested ==
  ASSUME NEW fs \in Seq(SavepointFrames), NEW turn \in Nat, NEW errors, NEW who,
         Nested(fs, turn, errors, who),
         NEW i \in DOMAIN fs, fs[i].name = <<"guess", turn>>
  PROVE  Nested(Resolvers!Released(fs, i), turn, errors, who) /\ i # 1
  <1> DEFINE gs == Resolvers!Released(fs, i)
  <1>1. i \in 3 .. Len(fs) /\ Len(fs) \in Nat
    BY DEF Nested, Own
  <1>2. /\ gs \in Seq(SavepointFrames) /\ Len(gs) = i - 1
        /\ \A k \in 1 .. (i - 2) : gs[k] = fs[k]
        /\ gs[i - 1].name = fs[i - 1].name
        /\ gs[i - 1].wrote = fs[i - 1].wrote \cup UNION {fs[k].wrote : k \in i .. Len(fs)}
    BY <1>1, ReleasedFrames
  <1> HIDE DEF gs
  <1>3. gs[1] = fs[1] /\ Len(gs) >= 2
    BY <1>1, <1>2
  <1>4. \A k \in 2 .. (i - 1) : k \in 2 .. Len(fs) /\ gs[k].name = fs[k].name
    BY <1>1, <1>2
  <1>5. \A k \in 2 .. (i - 1) : gs[k].wrote \subseteq {who}
    <2>0. \A k \in 2 .. Len(fs) : fs[k].wrote \subseteq {who}
      BY DEF Nested
    <2>1. \A k \in 2 .. (i - 2) : gs[k].wrote \subseteq {who}
      <3>1. \A k \in 2 .. (i - 2) : k \in 1 .. (i - 2) /\ k \in 2 .. Len(fs)
        BY <1>1
      <3> QED BY <1>2, <2>0, <3>1
    <2>2. \A k \in i .. Len(fs) : fs[k].wrote \subseteq {who}
      <3>1. \A k \in i .. Len(fs) : k \in 2 .. Len(fs)
        BY <1>1
      <3> QED BY <2>0, <3>1
    <2>3. gs[i - 1].wrote \subseteq {who}
      <3>1. i - 1 \in 2 .. Len(fs)
        BY <1>1
      <3> QED BY <1>2, <2>0, <2>2, <3>1
    <2> QED BY <1>1, <2>1, <2>3
  <1>6. Own(gs[1], turn - 1, errors)
    BY <1>3 DEF Nested
  <1>7. 2 \in 2 .. (i - 1) /\ Len(gs) = i - 1
    BY <1>1, <1>2
  <1>8. gs[2].name = <<"nonce", turn>>
    BY <1>4, <1>7 DEF Nested
  <1>9. \A k \in 3 .. Len(gs) : gs[k].name = <<"guess", turn>>
    <2>1. \A k \in 3 .. Len(gs) : k \in 2 .. (i - 1) /\ k \in 3 .. Len(fs)
      BY <1>1, <1>7
    <2> QED BY <1>4, <2>1 DEF Nested
  <1>10. Nested(gs, turn, errors, who)
    BY <1>3, <1>5, <1>6, <1>7, <1>8, <1>9 DEF Nested
  <1> QED BY <1>1, <1>10 DEF gs

LEMMA ReleaseLost ==
  ASSUME NEW fs \in Seq(SavepointFrames), NEW turn, Lost(fs, turn), NEW i \in DOMAIN fs
  PROVE  Lost(Resolvers!Released(fs, i), turn) /\ Resolvers!Released(fs, i) \in Seq(SavepointFrames)
  <1>1. CASE i = 1
    BY <1>1 DEF Resolvers!Released, Lost
  <1>2. CASE i # 1
    <2> DEFINE gs == Resolvers!Released(fs, i)
    <2>1. i \in 2 .. Len(fs) /\ Len(fs) \in Nat
      BY <1>2
    <2>2. /\ gs \in Seq(SavepointFrames) /\ Len(gs) = i - 1
          /\ \A k \in 1 .. (i - 2) : gs[k] = fs[k]
          /\ gs[i - 1].name = fs[i - 1].name
      BY <1>2, ReleasedFrames
    <2> HIDE DEF gs
    <2>3. \A k \in DOMAIN gs : k \in DOMAIN fs /\ gs[k].name = fs[k].name
      BY <2>1, <2>2
    <2> QED BY <2>2, <2>3 DEF Lost, gs
  <1> QED BY <1>1, <1>2

LEMMA WroteFrames ==
  ASSUME NEW fs \in Seq(SavepointFrames), fs # <<>>, NEW who \in Names
  PROVE  LET gs == Resolvers!Wrote(fs, who) IN
         /\ gs \in Seq(SavepointFrames) /\ Len(gs) = Len(fs)
         /\ \A k \in DOMAIN fs : /\ k # Len(fs) => gs[k] = fs[k]
                                 /\ gs[k].name = fs[k].name
                                 /\ gs[k].wrote \subseteq fs[k].wrote \cup {who}
  <1> DEFINE n == Len(fs)
             f == [fs[n] EXCEPT !.wrote = @ \cup {who}]
  <1>1. n \in Nat \ {0} /\ n \in DOMAIN fs /\ fs[n] \in SavepointFrames
    OBVIOUS
  <1>2. f \in SavepointFrames /\ f.name = fs[n].name /\ f.wrote = fs[n].wrote \cup {who}
    BY <1>1 DEF SavepointFrames
  <1>3. Resolvers!Wrote(fs, who) = [fs EXCEPT ![n] = f]
    BY DEF Resolvers!Wrote
  <1> HIDE DEF f
  <1> QED BY <1>1, <1>2, <1>3

\* Steps.

LEMMA RegisterStep ==
  ASSUME ResolversInv, NEW n \in Names, NEW f \in Fns, NEW keys \in SUBSET (Keys \cup {Resolvers!Errors}),
         NEW updatable \in SUBSET Keys, Resolvers!Register(n, f, keys, updatable)
  PROVE  ResolversInv'
  <1> DEFINE entry == [name |-> n, fn |-> f, keys |-> keys, updatable |-> updatable]
  <1>1. /\ run.at = "idle" /\ registry' = Append(registry, entry) /\ UNCHANGED <<frames, saved, run>>
        /\ updatable \subseteq keys /\ Resolvers!Errors \notin keys
        /\ \A i \in DOMAIN registry : registry[i].name # n /\ registry[i].keys \cap keys = {}
    BY DEF Resolvers!Register
  <1>2. /\ entry \in Entries /\ entry.name = n /\ entry.keys = keys /\ entry.updatable = updatable
    BY DEF Entries
  <1>3. Len(registry) \in Nat /\ DOMAIN registry = 1 .. Len(registry) /\ registry \in Seq(Entries)
    BY RegistryIsAFunction DEF ResolversInv, RegistryInv
  <1> HIDE DEF entry
  <1>4. /\ registry' \in Seq(Entries) /\ Len(registry') = Len(registry) + 1
        /\ DOMAIN registry' = DOMAIN registry \cup {Len(registry) + 1}
        /\ registry'[Len(registry) + 1] = entry
        /\ \A i \in DOMAIN registry : registry'[i] = registry[i] /\ i # Len(registry) + 1
    BY <1>1, <1>2, <1>3
  <1>5. RegistryInv'
    BY <1>1, <1>2, <1>4 DEF ResolversInv, RegistryInv
  <1>6. 0 <= Len(registry')
    BY <1>3, <1>4
  <1> QED BY <1>1, <1>5, <1>6 DEF ResolversInv

LEMMA StartStep ==
  ASSUME ResolversInv, Resolvers!Start
  PROVE  ResolversInv'
  <1> DEFINE f == [name |-> <<"begin", 0>>, wrote |-> {Resolvers!Caller}]
  <1>1. run.at = "idle" /\ frames' = <<f>> /\ run' = [run EXCEPT !.at = "next"] /\ UNCHANGED <<registry, saved>>
    BY DEF Resolvers!Start
  <1>2. f \in SavepointFrames /\ Own(f, 0, {})
    BY DEF SavepointFrames, Own
  <1> HIDE DEF f
  <1>3. frames' \in Seq(SavepointFrames) /\ Len(frames') = 1 /\ frames'[1] = f
    BY <1>1, <1>2
  <1>4. /\ run' \in Runnings /\ run'.at = "next" /\ run'.turn = 0 /\ run'.patch = {} /\ run'.errors = {}
        /\ saved' = {}
    BY <1>1 DEF ResolversInv, Runnings
  <1>5. Own(f, 0, {})' /\ Gathered({}, {}, 0)'
    BY <1>1, <1>2 DEF Own, First, Gathered
  <1>6. RegistryInv' /\ 0 <= Len(registry')
    BY <1>1, RegistryIsAFunction DEF ResolversInv, RegistryInv
  <1> QED BY <1>3, <1>4, <1>5, <1>6 DEF ResolversInv

\* The loop goes on with fs, sv and r.
LEMMA RunStep ==
  ASSUME RegistryInv, UNCHANGED registry, NEW fs \in Seq(SavepointFrames), NEW sv, NEW r \in Runnings,
         frames' = fs, saved' = sv, run' = r, r.turn <= Len(registry), r.at # "idle",
         r.at \in {"next", "done"} =>
           /\ Len(fs) = 1 /\ Own(fs[1], r.turn, r.errors) /\ sv = {}
           /\ Gathered(r.patch, r.errors, r.turn),
         r.at = "resolver" =>
           /\ r.turn # 0
           /\ (Nested(fs, r.turn, r.errors, registry[r.turn].name) /\ sv = {}) \/ Lost(fs, r.turn)
           /\ Gathered(r.patch, r.errors, r.turn - 1)
  PROVE  ResolversInv'
  <1>1. RegistryInv'
    BY DEF RegistryInv
  <1>2. ASSUME NEW f, NEW k, NEW errors, Own(f, k, errors) PROVE Own(f, k, errors)'
    BY <1>2 DEF Own, First
  <1>3. ASSUME NEW patch, NEW errors, NEW k, Gathered(patch, errors, k) PROVE Gathered(patch, errors, k)'
    BY <1>3 DEF Gathered, First
  <1>4. ASSUME NEW gs, NEW turn, NEW errors, NEW who, Nested(gs, turn, errors, who)
        PROVE  Nested(gs, turn, errors, who)'
    BY <1>2, <1>4 DEF Nested
  <1>5. ASSUME NEW gs, NEW turn, Lost(gs, turn) PROVE Lost(gs, turn)'
    BY <1>5 DEF Lost
  <1>6. r.at \in {"next", "done"} =>
          Own(fs[1], r.turn, r.errors)' /\ Gathered(r.patch, r.errors, r.turn)'
    BY <1>2, <1>3
  <1>7. r.at = "resolver" =>
          /\ (Nested(fs, r.turn, r.errors, registry[r.turn].name)' /\ sv = {}) \/ Lost(fs, r.turn)'
          /\ Gathered(r.patch, r.errors, r.turn - 1)'
    BY <1>3, <1>4, <1>5
  <1> HIDE DEF Own, Gathered, Nested, Lost
  <1> QED BY <1>1, <1>6, <1>7 DEF ResolversInv

\* What SAVEPOINT puts on top.
LEMMA LastFrame ==
  ASSUME NEW gs \in Seq(SavepointFrames), NEW f \in SavepointFrames
  PROVE  Append(gs, f)[Len(gs) + 1] = f
  OBVIOUS

LEMMA NextResolverStep ==
  ASSUME ResolversInv, Resolvers!NextResolver
  PROVE  ResolversInv'
  <1>1. /\ run.at = "next" /\ UNCHANGED <<registry, saved>> /\ run \in Runnings /\ run.turn <= Len(registry)
        /\ Len(frames) = 1 /\ Own(frames[1], run.turn, run.errors) /\ saved = {}
        /\ Gathered(run.patch, run.errors, run.turn)
        /\ RegistryInv /\ frames \in Seq(SavepointFrames)
    BY DEF Resolvers!NextResolver, ResolversInv
  <1>2. Len(registry) \in Nat /\ run.turn \in Nat
    BY <1>1, RegistryIsAFunction DEF Runnings
  <1>3. CASE run.turn = Len(registry)
    <2> DEFINE r == [run EXCEPT !.at = "done"]
    <2>1. run' = r /\ frames' = frames
      BY <1>3 DEF Resolvers!NextResolver
    <2>2. /\ r \in Runnings /\ r.at = "done" /\ r.turn = run.turn /\ r.patch = run.patch
          /\ r.errors = run.errors
      BY <1>1 DEF Runnings
    <2> HIDE DEF r
    <2> QED BY <1>1, <2>1, <2>2, RunStep
  <1>4. CASE run.turn # Len(registry)
    <2> DEFINE r == [run EXCEPT !.at = "resolver", !.turn = @ + 1, !.ops = MaxOps]
               f == [name |-> <<"nonce", run.turn + 1>>, wrote |-> {}]
               fs == Append(frames, f)
    <2>1. run' = r /\ frames' = fs
      BY <1>4 DEF Resolvers!NextResolver, Resolvers!SpName
    <2>2. MaxOps \in Int
      BY PartsAssumption DEF PartsAssumption, Resolvers!ResolversAssumption
    <2>3. /\ r \in Runnings /\ r.at = "resolver" /\ r.turn = run.turn + 1 /\ r.patch = run.patch
          /\ r.errors = run.errors
      <3>1. \A t \in Nat, ops \in Int :
              LET q == [run EXCEPT !.at = "resolver", !.turn = t, !.ops = ops] IN
              /\ q \in Runnings /\ q.at = "resolver" /\ q.turn = t /\ q.patch = run.patch
              /\ q.errors = run.errors
        BY <1>1 DEF Runnings
      <3>2. run.turn + 1 \in Nat
        BY <1>2
      <3> QED BY <2>2, <3>1, <3>2
    <2>4. f \in SavepointFrames /\ f.name = <<"nonce", run.turn + 1>> /\ f.wrote = {}
      BY <1>2 DEF SavepointFrames
    <2> HIDE DEF r, f
    <2>5. fs \in Seq(SavepointFrames) /\ Len(fs) = 2 /\ fs[1] = frames[1] /\ fs[2] = f
      <3>1. frames \in Seq(SavepointFrames) /\ Len(frames) = 1 /\ f \in SavepointFrames
        BY <1>1, <2>4
      <3>2. fs \in Seq(SavepointFrames) /\ Len(fs) = 2
        BY <3>1
      <3>3. fs[1] = frames[1]
        BY <3>1
      <3>4. fs[2] = f
        <4>1. fs[Len(frames) + 1] = f
          BY <3>1, LastFrame
        <4> HIDE DEF fs
        <4>2. Len(frames) + 1 = 2
          BY <3>1
        <4> QED BY <4>1, <4>2
      <3> QED BY <3>2, <3>3, <3>4
    <2> HIDE DEF fs
    <2>6. Nested(fs, r.turn, r.errors, registry[r.turn].name)
      BY <1>1, <1>2, <2>3, <2>4, <2>5 DEF Nested
    <2>7. r.turn # 0 /\ r.turn <= Len(registry) /\ r.turn - 1 = run.turn
      BY <1>1, <1>2, <1>4, <2>3
    <2> QED BY <1>1, <2>1, <2>3, <2>5, <2>6, <2>7, RunStep
  <1> QED BY <1>3, <1>4

LEMMA StatementStep ==
  ASSUME ResolversInv, Resolvers!Statement
  PROVE  ResolversInv'
  <1> DEFINE r == [run EXCEPT !.ops = @ - 1]
             who == registry[run.turn].name
             i == Resolvers!Innermost(frames, <<"guess", run.turn>>)
             guess == [name |-> <<"guess", run.turn>>, wrote |-> {}]
             again == [name |-> <<"again", 0>>, wrote |-> {}]
  <1>1. /\ run.at = "resolver" /\ UNCHANGED registry /\ run' = r /\ RegistryInv
        /\ run.turn <= Len(registry) /\ run.turn # 0 /\ run \in Runnings
        /\ frames \in Seq(SavepointFrames)
        /\ (Nested(frames, run.turn, run.errors, who) /\ saved = {}) \/ Lost(frames, run.turn)
        /\ Gathered(run.patch, run.errors, run.turn - 1)
    BY DEF Resolvers!Statement, ResolversInv
  <1>2. /\ r \in Runnings /\ r.at = "resolver" /\ r.turn = run.turn /\ r.patch = run.patch
        /\ r.errors = run.errors
    BY <1>1 DEF Runnings
  <1>3. run.turn \in DOMAIN registry /\ who \in Names /\ run.turn \in Nat /\ who = Resolvers!Mine.name
    BY <1>1, RegistryIsAFunction DEF Runnings, Entries, Resolvers!Mine
  <1> HIDE DEF r, who
  <1>4. SUFFICES /\ frames' \in Seq(SavepointFrames)
                 /\ \/ Nested(frames', run.turn, run.errors, who) /\ saved' = {}
                    \/ Lost(frames', run.turn)
    BY <1>1, <1>2, RunStep DEF who
  <1>5. CASE frames = <<>>
    <2>1. Lost(<<>>, run.turn) /\ <<>> \in Seq(SavepointFrames)
      BY DEF Lost
    <2>2. again \in SavepointFrames /\ <<again>> \in Seq(SavepointFrames) /\ Lost(<<again>>, run.turn)
      BY DEF SavepointFrames, Lost
    <2>3. /\ guess \in SavepointFrames
          /\ Append(frames, guess) \in Seq(SavepointFrames) /\ Lost(Append(frames, guess), run.turn)
      BY <1>3, <1>5 DEF SavepointFrames, Lost
    <2>4. i = 0
      <3>1. DOMAIN frames = {}
        BY <1>5
      <3> QED BY <3>1 DEF Resolvers!Innermost
    <2> QED BY <1>5, <2>1, <2>2, <2>3, <2>4 DEF Resolvers!Statement, Resolvers!InTransaction
  <1>6. CASE frames # <<>>
    <2>1. \/ frames' = Resolvers!Wrote(frames, who) /\ saved' = saved
          \/ frames' = <<>>
          \/ frames' = Append(frames, guess) /\ saved' = saved
          \/ i # 0 /\ frames' = Resolvers!Released(frames, i) /\ (i # 1 => saved' = saved)
      BY <1>3, <1>6 DEF Resolvers!Statement, Resolvers!InTransaction
    <2>2. CASE frames' = Resolvers!Wrote(frames, who) /\ saved' = saved
      <3>1. /\ frames' \in Seq(SavepointFrames) /\ Len(frames') = Len(frames) /\ Len(frames) \in Nat
            /\ DOMAIN frames = 1 .. Len(frames) /\ DOMAIN frames' = 1 .. Len(frames)
            /\ \A k \in DOMAIN frames : /\ k # Len(frames) => frames'[k] = frames[k]
                                        /\ frames'[k].name = frames[k].name
                                        /\ frames'[k].wrote \subseteq frames[k].wrote \cup {who}
        BY <1>1, <1>3, <1>6, <2>2, WroteFrames
      <3>2. CASE Nested(frames, run.turn, run.errors, who) /\ saved = {}
        <4>1. Len(frames) >= 2 /\ frames'[1] = frames[1]
          BY <3>1, <3>2 DEF Nested
        <4>2. \A k \in 2 .. Len(frames) : k \in DOMAIN frames /\ frames'[k].wrote \subseteq {who}
          BY <3>1, <3>2 DEF Nested
        <4> QED BY <2>2, <3>1, <3>2, <4>1, <4>2 DEF Nested
      <3>3. CASE Lost(frames, run.turn)
        BY <3>1, <3>3 DEF Lost
      <3> QED BY <1>1, <3>2, <3>3
    <2>3. CASE frames' = <<>>
      BY <2>3 DEF Lost
    <2>4. CASE frames' = Append(frames, guess) /\ saved' = saved
      <3>1. guess \in SavepointFrames /\ guess.name = <<"guess", run.turn>> /\ guess.wrote = {}
        BY <1>3 DEF SavepointFrames
      <3> HIDE DEF guess
      <3>2. /\ frames' \in Seq(SavepointFrames) /\ Len(frames') = Len(frames) + 1
            /\ frames'[Len(frames) + 1] = guess /\ \A k \in DOMAIN frames : frames'[k] = frames[k]
            /\ Len(frames) \in Nat
        BY <1>1, <2>4, <3>1
      <3> QED BY <1>1, <2>4, <3>1, <3>2 DEF Nested, Lost
    <2>5. CASE i # 0 /\ frames' = Resolvers!Released(frames, i) /\ (i # 1 => saved' = saved)
      <3>1. i \in DOMAIN frames /\ frames[i].name = <<"guess", run.turn>>
        BY <1>1, <2>5, InnermostIsThere
      <3>2. CASE Nested(frames, run.turn, run.errors, who) /\ saved = {}
        <4>1. Nested(frames', run.turn, run.errors, who) /\ i # 1
          BY <1>1, <1>3, <2>5, <3>1, <3>2, ReleaseNested
        <4>2. frames' \in Seq(SavepointFrames)
          BY <1>1, <2>5, <3>1, <4>1, ReleasedFrames
        <4> QED BY <2>5, <3>2, <4>1, <4>2
      <3>3. CASE Lost(frames, run.turn)
        BY <1>1, <2>5, <3>1, <3>3, ReleaseLost
      <3> QED BY <1>1, <3>2, <3>3
    <2> QED BY <2>1, <2>2, <2>3, <2>4, <2>5
  <1> QED BY <1>5, <1>6

\* The loop after a resolver.
Failing(r, ops, errors) == [r EXCEPT !.at = "next", !.ops = ops, !.errors = errors]
Returning(r, ops, patch) == [r EXCEPT !.at = "next", !.ops = ops, !.patch = patch]

LEMMA FailingRun ==
  ASSUME NEW r \in Runnings, NEW ops \in Int, NEW errors \in SUBSET Names
  PROVE  LET q == Failing(r, ops, errors) IN
         q \in Runnings /\ q.at = "next" /\ q.turn = r.turn /\ q.errors = errors /\ q.patch = r.patch
  BY DEF Failing, Runnings

LEMMA ReturningRun ==
  ASSUME NEW r \in Runnings, NEW ops \in Int, NEW patch \in SUBSET (Names \X (Keys \cup {Resolvers!Errors}))
  PROVE  LET q == Returning(r, ops, patch) IN
         q \in Runnings /\ q.at = "next" /\ q.turn = r.turn /\ q.errors = r.errors /\ q.patch = patch
  BY DEF Returning, Runnings

\* Where the savepoint's name is found.
LEMMA SavepointIsSecond ==
  ASSUME ResolversInv, run.at = "resolver"
  PROVE  LET i == Resolvers!Innermost(frames, <<"nonce", run.turn>>) IN
         \/ i = 0
         \/ i = 2 /\ Nested(frames, run.turn, run.errors, registry[run.turn].name) /\ saved = {}
  <1> DEFINE i == Resolvers!Innermost(frames, <<"nonce", run.turn>>)
  <1>1. frames \in Seq(SavepointFrames) /\ Len(frames) \in Nat /\ DOMAIN frames = 1 .. Len(frames)
    BY DEF ResolversInv
  <1>2. \/ i = 0
        \/ i \in DOMAIN frames /\ frames[i].name = <<"nonce", run.turn>>
    BY <1>1, InnermostIsThere
  <1> HIDE DEF i
  <1>3. CASE i \in DOMAIN frames /\ frames[i].name = <<"nonce", run.turn>>
    <2>1. Nested(frames, run.turn, run.errors, registry[run.turn].name) /\ saved = {}
      BY <1>3 DEF ResolversInv, Lost
    <2>2. i # 1
      BY <1>3, <2>1 DEF Nested, Own
    <2>3. i \notin 3 .. Len(frames)
      BY <1>3, <2>1 DEF Nested
    <2> QED BY <1>1, <1>3, <2>1, <2>2, <2>3 DEF i
  <1> QED BY <1>2, <1>3 DEF i

\* The resolver was the next one, and none of the others has its name.
LEMMA MineIsNew ==
  ASSUME ResolversInv, run.at = "resolver"
  PROVE  /\ run.turn \in DOMAIN registry /\ run.turn \in Nat \ {0} /\ Resolvers!Mine = registry[run.turn]
         /\ Resolvers!Mine.name \in Names /\ Resolvers!Mine.name # Resolvers!Caller
         /\ Resolvers!Mine.name \notin First(run.turn - 1)
         /\ First(run.turn) = First(run.turn - 1) \cup {Resolvers!Mine.name}
         /\ run.errors \subseteq First(run.turn - 1)
  <1>1. /\ RegistryInv /\ run \in Runnings /\ run.turn <= Len(registry) /\ run.turn # 0
        /\ run.errors \subseteq First(run.turn - 1)
    BY DEF ResolversInv, Gathered
  <1>2. run.turn \in DOMAIN registry /\ run.turn \in Nat \ {0}
    BY <1>1, RegistryIsAFunction DEF Runnings
  <1>3. Resolvers!Mine = registry[run.turn] /\ Resolvers!Mine.name \in Names
    BY <1>1, <1>2, RegistryIsAFunction DEF Resolvers!Mine, Entries
  <1>4. Resolvers!Mine.name # Resolvers!Caller
    BY <1>3, PartsAssumption DEF PartsAssumption, Resolvers!ResolversAssumption
  <1>5. \A i \in 1 .. (run.turn - 1) : i \in DOMAIN registry /\ i # run.turn
    BY <1>1, <1>2, RegistryIsAFunction
  <1>6. Resolvers!Mine.name \notin First(run.turn - 1)
    BY <1>1, <1>2, <1>3, <1>5 DEF First, RegistryInv
  <1>7. 1 .. run.turn = (1 .. (run.turn - 1)) \cup {run.turn}
    BY <1>2
  <1>8. First(run.turn) = First(run.turn - 1) \cup {Resolvers!Mine.name}
    BY <1>3, <1>7 DEF First
  <1> QED BY <1>1, <1>2, <1>3, <1>4, <1>6, <1>8

LEMMA AbortStep ==
  ASSUME ResolversInv, run.at = "resolver", UNCHANGED <<registry, saved>>, Resolvers!Abort
  PROVE  ResolversInv'
  <1> DEFINE r == [run EXCEPT !.at = "aborted"]
  <1>1. run' = r /\ frames' = frames /\ frames \in Seq(SavepointFrames) /\ RegistryInv
    BY DEF Resolvers!Abort, ResolversInv
  <1>2. r \in Runnings /\ r.at = "aborted" /\ r.turn <= Len(registry)
    BY DEF ResolversInv, Runnings
  <1> HIDE DEF r
  <1> QED BY <1>1, <1>2, RunStep

LEMMA FailedStep ==
  ASSUME ResolversInv, run.at = "resolver", UNCHANGED <<registry, saved>>, Resolvers!Failed
  PROVE  ResolversInv'
  <1> DEFINE i == Resolvers!Innermost(frames, <<"nonce", run.turn>>)
             me == Resolvers!Mine.name
             errors == run.errors \cup {me}
             r == Failing(run, 0, errors)
             fs == SubSeq(frames, 1, i - 1)
  <1>1. CASE i = 0
    BY <1>1, AbortStep DEF Resolvers!Failed, Resolvers!SpName
  <1>2. CASE i # 0
    <2>1. /\ i = 2 /\ Nested(frames, run.turn, run.errors, registry[run.turn].name) /\ saved = {}
          /\ frames' = fs /\ run' = r
      BY <1>2, SavepointIsSecond
         DEF Resolvers!Failed, Resolvers!SpName, Resolvers!Undo, Resolvers!RolledBack, Failing
    <2> HIDE DEF i
    <2>2. fs \in Seq(SavepointFrames) /\ Len(fs) = 1 /\ fs[1] = frames[1]
      <3>1. frames \in Seq(SavepointFrames) /\ Len(frames) >= 2 /\ Len(frames) \in Nat /\ fs = SubSeq(frames, 1, 1)
        BY <2>1 DEF ResolversInv, Nested
      <3> HIDE DEF fs
      <3> QED BY <3>1
    <2>3. me \in Names /\ run \in Runnings /\ errors \in SUBSET Names
      BY MineIsNew DEF ResolversInv, Runnings
    <2> HIDE DEF fs, errors
    <2>4. r \in Runnings /\ r.at = "next" /\ r.turn = run.turn /\ r.errors = errors /\ r.patch = run.patch
      BY <2>3, FailingRun
    <2> HIDE DEF r
    <2>5. Own(frames[1], run.turn, errors)
      <3>1. Own(frames[1], run.turn - 1, run.errors)
        BY <2>1 DEF Nested
      <3> QED BY <3>1, MineIsNew DEF Own, errors
    <2>6. Gathered(run.patch, errors, run.turn)
      <3>1. Gathered(run.patch, run.errors, run.turn - 1)
        BY DEF ResolversInv
      <3>2. \A k \in 1 .. (run.turn - 1) : k \in 1 .. run.turn /\ registry[k].name # me
        BY MineIsNew DEF First
      <3>3. errors \subseteq First(run.turn)
        BY <3>1, MineIsNew DEF Gathered, errors
      <3> QED BY <3>1, <3>2, <3>3 DEF Gathered, errors
    <2>7. RegistryInv /\ run.turn <= Len(registry) /\ saved' = {}
      BY <2>1 DEF ResolversInv
    <2> QED BY <2>1, <2>2, <2>4, <2>5, <2>6, <2>7, RunStep
  <1> QED BY <1>1, <1>2

LEMMA ReturnStep ==
  ASSUME ResolversInv, NEW outcome \in SUBSET (Keys \cup {Resolvers!Errors}), Resolvers!Return(outcome)
  PROVE  ResolversInv'
  <1> DEFINE i == Resolvers!Innermost(frames, <<"nonce", run.turn>>)
             me == Resolvers!Mine.name
             fs == Resolvers!Released(frames, i)
             patch == run.patch \cup ({me} \X outcome)
             r == Returning(run, 0, patch)
  <1>1. run.at = "resolver" /\ UNCHANGED registry
    BY DEF Resolvers!Return
  <1>2. CASE Resolvers!Abort /\ UNCHANGED saved
    BY <1>1, <1>2, AbortStep
  <1>3. CASE Resolvers!Failed /\ UNCHANGED saved
    BY <1>1, <1>3, FailedStep
  <1>4. CASE /\ i # 0 /\ Resolvers!Valid(outcome)
             /\ saved' = IF i = 1 THEN saved \cup Resolvers!AllWrote(frames) ELSE saved
             /\ frames' = fs
             /\ run' = [run EXCEPT !.at = IF Resolvers!InTransaction(frames') THEN "next" ELSE "aborted",
                                   !.ops = 0, !.patch = patch]
    <2>1. /\ i = 2 /\ Nested(frames, run.turn, run.errors, registry[run.turn].name) /\ saved = {}
          /\ saved' = {}
      BY <1>1, <1>4, SavepointIsSecond
    <2> HIDE DEF i
    <2>2. frames \in Seq(SavepointFrames) /\ Len(frames) \in Nat /\ 2 \in DOMAIN frames
      BY <2>1 DEF ResolversInv, Nested
    <2>3. /\ fs \in Seq(SavepointFrames) /\ Len(fs) = 1 /\ fs[1].name = frames[1].name
          /\ fs[1].wrote = frames[1].wrote \cup UNION {frames[k].wrote : k \in 2 .. Len(frames)}
      <3>1. fs = Resolvers!Released(frames, 2) /\ 2 - 1 = 1 /\ 2 # 1
        BY <2>1
      <3> HIDE DEF fs
      <3> QED BY <2>2, <3>1, ReleasedFrames
    <2> HIDE DEF fs
    <2>4. run' = r
      <3>1. Resolvers!InTransaction(frames')
        BY <1>4, <2>3 DEF Resolvers!InTransaction
      <3> QED BY <1>4, <3>1 DEF Returning
    <2>5. me \in Names /\ run \in Runnings /\ patch \in SUBSET (Names \X (Keys \cup {Resolvers!Errors}))
      BY <1>1, MineIsNew DEF ResolversInv, Runnings
    <2>6. \A p \in patch : p \in run.patch \/ (p[1] = me /\ p[2] \in outcome)
      OBVIOUS
    <2> HIDE DEF patch
    <2>7. r \in Runnings /\ r.at = "next" /\ r.turn = run.turn /\ r.errors = run.errors /\ r.patch = patch
      BY <2>5, ReturningRun
    <2> HIDE DEF r
    <2>8. Own(fs[1], run.turn, run.errors)
      <3>1. Own(frames[1], run.turn - 1, run.errors) /\ fs[1].wrote \subseteq frames[1].wrote \cup {me}
        <4>1. \A k \in 2 .. Len(frames) : frames[k].wrote \subseteq {me}
          BY <1>1, <2>1, MineIsNew DEF Nested
        <4> QED BY <2>1, <2>3, <4>1 DEF Nested
      <3> QED BY <1>1, <2>3, <3>1, MineIsNew DEF Own
    <2>9. Gathered(patch, run.errors, run.turn)
      <3>1. Gathered(run.patch, run.errors, run.turn - 1)
        BY <1>1 DEF ResolversInv
      <3>2. \A k \in 1 .. (run.turn - 1) : k \in 1 .. run.turn
        BY <1>1, MineIsNew
      <3>3. run.errors \subseteq First(run.turn) /\ me \notin run.errors /\ run.turn \in 1 .. run.turn
        BY <1>1, MineIsNew
      <3>4. me = registry[run.turn].name /\ outcome \subseteq registry[run.turn].keys \ Forbidden
        BY <1>1, <1>4, MineIsNew DEF Resolvers!Valid
      <3> QED BY <2>6, <3>1, <3>2, <3>3, <3>4 DEF Gathered
    <2>10. RegistryInv /\ run.turn <= Len(registry)
      BY DEF ResolversInv
    <2> QED BY <1>1, <1>4, <2>1, <2>3, <2>4, <2>7, <2>8, <2>9, <2>10, RunStep
  <1>5. i = 0 => ~(Resolvers!InTransaction(frames) /\ Resolvers!Valid(outcome) /\ i # 0)
    OBVIOUS
  <1> HIDE DEF i, fs, patch
  <1>6. Resolvers!Innermost(frames, Resolvers!SpName(run.turn)) = i
    BY DEF i, Resolvers!SpName
  <1> QED BY <1>2, <1>3, <1>4, <1>6 DEF Resolvers!Return, fs, patch

LEMMA ResolversInvariance ==
  /\ Resolvers!Init => ResolversInv
  /\ ResolversInv /\ [Resolvers!Next]_resolversVars => ResolversInv'
  <1>1. ASSUME Resolvers!Init PROVE ResolversInv
    <2>1. registry = <<>> /\ frames = <<>> /\ saved = {} /\ run = Resolvers!Ready
      BY <1>1 DEF Resolvers!Init
    <2>2. RegistryInv /\ frames \in Seq(SavepointFrames) /\ Len(registry) = 0
      BY <2>1 DEF RegistryInv
    <2>3. /\ run \in Runnings /\ run.at = "idle" /\ run.turn = 0 /\ run.patch = {} /\ run.errors = {}
      BY <2>1 DEF Resolvers!Ready, Runnings
    <2> QED BY <2>1, <2>2, <2>3 DEF ResolversInv
  <1>2. ASSUME ResolversInv, Resolvers!Next PROVE ResolversInv'
    <2>1. ASSUME Resolvers!Raise PROVE ResolversInv'
      BY <1>2, <2>1, FailedStep DEF Resolvers!Raise
    <2> QED BY <1>2, <2>1, RegisterStep, StartStep, NextResolverStep, StatementStep, ReturnStep
            DEF Resolvers!Next
  <1>3. ASSUME ResolversInv, UNCHANGED resolversVars PROVE ResolversInv'
    BY <1>3 DEF resolversVars, ResolversInv, RegistryInv, Own, First, Gathered, Nested, Lost
  <1> QED BY <1>1, <1>2, <1>3

LEMMA CallerIsInItsOwn ==
  ASSUME ResolversInv
  PROVE  Resolvers!CallerKeepsItsTransaction
  <1> SUFFICES ASSUME run.at = "done"
               PROVE  /\ Len(frames) = 1 /\ frames[1].name = <<"begin", 0>> /\ saved = {}
                      /\ Resolvers!Caller \in frames[1].wrote /\ frames[1].wrote \cap run.errors = {}
                      /\ \A p, q \in run.patch : p[2] = q[2] => p = q
                      /\ \A p \in run.patch :
                           p[1] \notin run.errors /\ p[2] \in Resolvers!Reserved \ Forbidden
                      /\ Resolvers!Updatable \subseteq Resolvers!Reserved \ {Resolvers!Errors}
    BY DEF Resolvers!CallerKeepsItsTransaction
  <1>1. /\ Len(frames) = 1 /\ Own(frames[1], run.turn, run.errors) /\ saved = {}
        /\ Gathered(run.patch, run.errors, run.turn) /\ RegistryInv /\ run \in Runnings
        /\ run.turn <= Len(registry)
    BY DEF ResolversInv
  <1>2. Resolvers!Caller \notin run.errors
    BY <1>1, PartsAssumption DEF PartsAssumption, Resolvers!ResolversAssumption, Runnings
  <1>3. frames[1].wrote \cap run.errors = {}
    BY <1>1, <1>2 DEF Own
  <1>4. \A k \in 1 .. run.turn : k \in DOMAIN registry
    BY <1>1, RegistryIsAFunction DEF Runnings
  <1>5. \A p \in run.patch : p = <<p[1], p[2]>>
    BY <1>1 DEF Runnings
  <1>6. \A p, q \in run.patch : p[2] = q[2] => p = q
    BY <1>1, <1>4, <1>5 DEF Gathered, RegistryInv
  <1>7. \A p \in run.patch : p[1] \notin run.errors /\ p[2] \in Resolvers!Reserved \ Forbidden
    BY <1>1, <1>4 DEF Gathered, Resolvers!Reserved
  <1>8. Resolvers!Updatable \subseteq Resolvers!Reserved \ {Resolvers!Errors}
    BY <1>1 DEF Resolvers!Updatable, Resolvers!Reserved, RegistryInv
  <1> QED BY <1>1, <1>3, <1>6, <1>7, <1>8 DEF Own

\* Whatever the resolvers do to the connection (run_pre_add_resolvers, db.py), when
\* the caller goes on to its INSERT it is in the transaction that it began, with
\* nothing on top of it and nothing committed, with its own writes and those of
\* resolvers that did not fail; and every key of the patch has one owner.
THEOREM CallerStaysInItsTransaction == Spec => []CallerKeepsItsTransaction
  <1> DEFINE I == part = "resolvers" => ResolversInv
  <1>1. Init => I
    BY ResolversMove, ResolversInvariance
  <1>2. I /\ [Next]_vars => I'
    BY ResolversMove, ResolversInvariance
  <1>3. I => CallerKeepsItsTransaction
    BY CallerIsInItsOwn DEF CallerKeepsItsTransaction
  <1> QED BY <1>1, <1>2, <1>3, PTL DEF Spec

\* The number in the name of a savepoint is that of a resolver, or 0.
Numbered(fs) == \A i \in DOMAIN fs : fs[i].name[2] \in 0 .. Len(registry)

\* What Runnings and the frames do not say of the types.
ResolversTypes ==
  /\ Numbered(frames) /\ saved \subseteq Names \cup {Resolvers!Caller}
  /\ run.ops \in 0 .. MaxOps /\ run.patch \subseteq Names \X Keys

\* A savepoint on the stack, what it wrote, and its release leave the others their names.
LEMMA AppendNumbered ==
  ASSUME RegistryInv, NEW fs \in Seq(SavepointFrames), Numbered(fs), NEW s \in {"again", "nonce", "guess"},
         NEW n \in 0 .. Len(registry)
  PROVE  Numbered(Append(fs, [name |-> <<s, n>>, wrote |-> {}]))
  <1> DEFINE f == [name |-> <<s, n>>, wrote |-> {}]
  <1>1. f.name[2] = n /\ f \in SavepointFrames
    BY RegistryIsAFunction DEF SavepointFrames
  <1> HIDE DEF f
  <1>2. \A i \in DOMAIN Append(fs, f) : \/ i \in DOMAIN fs /\ Append(fs, f)[i] = fs[i]
                                        \/ Append(fs, f)[i] = f
    OBVIOUS
  <1> QED BY <1>1, <1>2 DEF Numbered, f

\* So does a write.
LEMMA WroteNumbered ==
  ASSUME NEW fs \in Seq(SavepointFrames), Numbered(fs), fs # <<>>, NEW who \in Names
  PROVE  Numbered(Resolvers!Wrote(fs, who))
  <1> DEFINE gs == Resolvers!Wrote(fs, who)
  <1>1. gs \in Seq(SavepointFrames) /\ Len(gs) = Len(fs) /\ \A k \in DOMAIN fs : gs[k].name = fs[k].name
    BY WroteFrames
  <1> HIDE DEF gs
  <1>2. DOMAIN gs = DOMAIN fs
    BY <1>1
  <1> QED BY <1>1, <1>2 DEF Numbered, gs

\* So do a release and a rollback.
LEMMA ReleasedNumbered ==
  ASSUME NEW fs \in Seq(SavepointFrames), Numbered(fs), NEW i \in DOMAIN fs
  PROVE  Numbered(Resolvers!Released(fs, i)) /\ Numbered(SubSeq(fs, 1, i - 1))
  <1> DEFINE gs == Resolvers!Released(fs, i)
             hs == SubSeq(fs, 1, i - 1)
  <1>1. CASE i = 1
    <2>1. gs = <<>>
      BY <1>1 DEF Resolvers!Released
    <2>2. hs = <<>>
      BY <1>1
    <2> HIDE DEF gs, hs
    <2> QED BY <2>1, <2>2 DEF Numbered, gs, hs
  <1>2. CASE i # 1
    <2>1. i \in 2 .. Len(fs) /\ Len(fs) \in Nat
      BY <1>2
    <2>2. /\ gs \in Seq(SavepointFrames) /\ Len(gs) = i - 1
          /\ \A k \in 1 .. (i - 2) : gs[k] = fs[k]
          /\ gs[i - 1].name = fs[i - 1].name
      BY <1>2, ReleasedFrames
    <2> HIDE DEF gs
    <2>3. \A k \in DOMAIN gs : k \in DOMAIN fs /\ gs[k].name = fs[k].name
      BY <2>1, <2>2
    <2>4. \A k \in DOMAIN hs : k \in DOMAIN fs /\ hs[k] = fs[k]
      BY <2>1
    <2> HIDE DEF hs
    <2> QED BY <2>3, <2>4 DEF Numbered, gs, hs
  <1> QED BY <1>1, <1>2

\* Whoever wrote is a resolver or the caller.
LEMMA WhoWrote ==
  ASSUME ResolversInv
  PROVE  Resolvers!AllWrote(frames) \subseteq Names \cup {Resolvers!Caller}
  BY FramesAreAFunction DEF Resolvers!AllWrote, SavepointFrames

\* A resolver ends.
Ending(r, at, ops, patch) == [r EXCEPT !.at = at, !.ops = ops, !.patch = patch]

\* Its loop goes on with a typed patch.
LEMMA EndingRun ==
  ASSUME NEW r \in Runnings, NEW at \in {"next", "aborted"}, NEW ops \in Int,
         NEW patch \in SUBSET (Names \X (Keys \cup {Resolvers!Errors}))
  PROVE  LET q == Ending(r, at, ops, patch) IN q \in Runnings /\ q.ops = ops /\ q.patch = patch
  BY DEF Ending, Runnings

\* The types are an invariant, given the other one.
LEMMA ResolversTyped ==
  /\ Resolvers!Init => ResolversTypes
  /\ ResolversInv /\ ResolversTypes /\ [Resolvers!Next]_resolversVars => ResolversTypes'
  <1>1. ASSUME Resolvers!Init PROVE ResolversTypes
    <2>1. MaxOps \in Nat
      BY PartsAssumption DEF PartsAssumption, Resolvers!ResolversAssumption
    <2> QED BY <1>1, <2>1 DEF Resolvers!Init, Resolvers!Ready, ResolversTypes, Numbered
  <1>2. ASSUME ResolversInv, ResolversTypes, Resolvers!Next PROVE ResolversTypes'
    <2>1. /\ RegistryInv /\ run \in Runnings /\ run.turn <= Len(registry) /\ frames \in Seq(SavepointFrames)
          /\ Len(registry) \in Nat /\ run.turn \in 0 .. Len(registry) /\ MaxOps \in Nat
          /\ run.ops \in 0 .. MaxOps /\ run.patch \subseteq Names \X Keys /\ Numbered(frames)
          /\ saved \subseteq Names \cup {Resolvers!Caller}
      BY <1>2, RegistryIsAFunction, PartsAssumption
         DEF ResolversInv, ResolversTypes, Runnings, PartsAssumption, Resolvers!ResolversAssumption
    <2>0. run \in Runnings /\ run.turn + 1 \in Nat /\ run.ops - 1 \in Int /\ MaxOps \in Int
      BY <2>1 DEF Runnings
    <2>2. ASSUME UNCHANGED registry, NEW fs, Numbered(fs), frames' = fs, saved' \subseteq Names \cup {Resolvers!Caller},
                 NEW r \in Runnings, run' = r, r.ops \in 0 .. MaxOps, r.patch \subseteq Names \X Keys
          PROVE  ResolversTypes'
      BY <2>2 DEF ResolversTypes, Numbered
    <2>3. CASE \E n \in Names, f \in Fns, keys \in SUBSET (Keys \cup {Resolvers!Errors}), updatable \in SUBSET Keys :
                 Resolvers!Register(n, f, keys, updatable)
      <3>1. run.at = "idle" /\ UNCHANGED <<frames, saved, run>> /\ frames = <<>>
        BY <1>2, <2>3 DEF Resolvers!Register, ResolversInv
      <3> QED BY <2>1, <3>1 DEF ResolversTypes, Numbered
    <2>4. CASE Resolvers!Start
      <3> DEFINE fs == <<[name |-> <<"begin", 0>>, wrote |-> {Resolvers!Caller}]>>
                 r == [run EXCEPT !.at = "next"]
      <3>1. UNCHANGED <<registry, saved>> /\ frames' = fs /\ run' = r
        BY <2>4 DEF Resolvers!Start
      <3>2. r \in Runnings /\ r.ops = run.ops /\ r.patch = run.patch
        BY <2>0 DEF Runnings
      <3>3. Numbered(fs)
        BY <2>1 DEF Numbered
      <3> HIDE DEF fs, r
      <3> QED BY <2>1, <2>2, <3>1, <3>2, <3>3
    <2>5. CASE Resolvers!NextResolver
      <3>1. CASE run.turn = Len(registry)
        <4> DEFINE r == [run EXCEPT !.at = "done"]
        <4>1. UNCHANGED <<registry, saved, frames>> /\ run' = r
          BY <2>5, <3>1 DEF Resolvers!NextResolver
        <4>2. r \in Runnings /\ r.ops = run.ops /\ r.patch = run.patch
          BY <2>0 DEF Runnings
        <4> HIDE DEF r
        <4> QED BY <2>1, <2>2, <4>1, <4>2
      <3>2. CASE run.turn # Len(registry)
        <4> DEFINE r == [run EXCEPT !.at = "resolver", !.turn = @ + 1, !.ops = MaxOps]
                   f == [name |-> <<"nonce", run.turn + 1>>, wrote |-> {}]
        <4>1. UNCHANGED <<registry, saved>> /\ frames' = Append(frames, f) /\ run' = r
          BY <2>5, <3>2 DEF Resolvers!NextResolver, Resolvers!SpName
        <4>2. r \in Runnings /\ r.ops = MaxOps /\ r.patch = run.patch
          BY <2>0 DEF Runnings
        <4>3. run.turn + 1 \in 0 .. Len(registry)
          BY <2>1, <3>2
        <4>4. Numbered(Append(frames, f))
          BY <2>1, <4>3, AppendNumbered
        <4>5. r.ops \in 0 .. MaxOps
          BY <2>1, <4>2
        <4> HIDE DEF r, f
        <4>6. Numbered(Append(frames, f))
          BY <4>4 DEF f
        <4> QED BY <2>1, <2>2, <4>1, <4>2, <4>5, <4>6
      <3> QED BY <3>1, <3>2
    <2>6. CASE Resolvers!Statement
      <3> DEFINE r == [run EXCEPT !.ops = @ - 1]
                 i == Resolvers!Innermost(frames, <<"guess", run.turn>>)
                 guess == [name |-> <<"guess", run.turn>>, wrote |-> {}]
                 again == [name |-> <<"again", 0>>, wrote |-> {}]
      <3>1. run.at = "resolver" /\ UNCHANGED registry /\ run' = r /\ run.ops > 0
        BY <2>6 DEF Resolvers!Statement
      <3>2. r \in Runnings /\ r.ops = run.ops - 1 /\ r.patch = run.patch
        BY <2>0 DEF Runnings
      <3>3. r.ops \in 0 .. MaxOps
        BY <2>1, <3>1, <3>2
      <3> HIDE DEF r
      <3>4. Resolvers!Mine.name \in Names /\ Resolvers!AllWrote(frames) \subseteq Names \cup {Resolvers!Caller}
        BY <1>2, <3>1, MineIsNew, WhoWrote
      <3>5. saved' \subseteq Names \cup {Resolvers!Caller}
        BY <2>1, <2>6, <3>4 DEF Resolvers!Statement
      <3>6. Numbered(<<>>) /\ Numbered(<<again>>)
        BY <2>1 DEF Numbered
      <3>7. Numbered(Append(frames, guess))
        BY <2>1, AppendNumbered
      <3>8. frames # <<>> => Numbered(Resolvers!Wrote(frames, Resolvers!Mine.name))
        BY <2>1, <3>4, WroteNumbered
      <3>9. i # 0 => Numbered(Resolvers!Released(frames, i))
        BY <2>1, InnermostIsThere, ReleasedNumbered
      <3> HIDE DEF i, guess, again
      <3>10. \/ frames' = frames \/ frames' = <<>> \/ frames' = <<again>> \/ frames' = Append(frames, guess)
             \/ frames # <<>> /\ frames' = Resolvers!Wrote(frames, Resolvers!Mine.name)
             \/ i # 0 /\ frames' = Resolvers!Released(frames, i)
        BY <2>6 DEF Resolvers!Statement, Resolvers!InTransaction, i, guess, again
      <3>11. Numbered(frames')
        BY <2>1, <3>6, <3>7, <3>8, <3>9, <3>10
      <3> QED BY <2>1, <2>2, <3>1, <3>2, <3>3, <3>5, <3>11
    <2>7. ASSUME run.at = "resolver", UNCHANGED <<registry, saved>>, Resolvers!Abort PROVE ResolversTypes'
      <3> DEFINE r == [run EXCEPT !.at = "aborted"]
      <3>1. run' = r /\ frames' = frames
        BY <2>7 DEF Resolvers!Abort
      <3>2. r \in Runnings /\ r.ops = run.ops /\ r.patch = run.patch
        BY <2>0 DEF Runnings
      <3> HIDE DEF r
      <3> QED BY <2>1, <2>2, <2>7, <3>1, <3>2
    <2>8. ASSUME run.at = "resolver", UNCHANGED <<registry, saved>>, Resolvers!Failed PROVE ResolversTypes'
      <3> DEFINE i == Resolvers!Innermost(frames, <<"nonce", run.turn>>)
                 errors == run.errors \cup {Resolvers!Mine.name}
                 r == Failing(run, 0, errors)
      <3>1. CASE i = 0
        BY <2>7, <2>8, <3>1 DEF Resolvers!Failed, Resolvers!SpName
      <3>2. CASE i # 0
        <4>1. frames' = SubSeq(frames, 1, i - 1) /\ run' = r
          BY <2>8, <3>2 DEF Resolvers!Failed, Resolvers!SpName, Resolvers!Undo, Resolvers!RolledBack, Failing
        <4>2. errors \in SUBSET Names
          BY <1>2, <2>1, <2>8, MineIsNew DEF Runnings
        <4> HIDE DEF errors
        <4>3. r \in Runnings /\ r.patch = run.patch
          BY <2>0, <4>2, FailingRun
        <4>5. r.ops = 0 /\ 0 \in 0 .. MaxOps
          BY <2>0, <2>1 DEF Failing, Runnings
        <4>4. Numbered(SubSeq(frames, 1, i - 1))
          BY <2>1, <3>2, InnermostIsThere, ReleasedNumbered
        <4> HIDE DEF r, i
        <4> QED BY <2>1, <2>2, <2>8, <4>1, <4>3, <4>4, <4>5
      <3> QED BY <3>1, <3>2
    <2>9. CASE \E outcome \in SUBSET (Keys \cup {Resolvers!Errors}) : Resolvers!Return(outcome)
      <3> DEFINE i == Resolvers!Innermost(frames, <<"nonce", run.turn>>)
      <3>1. PICK outcome \in SUBSET (Keys \cup {Resolvers!Errors}) : Resolvers!Return(outcome)
        BY <2>9
      <3> DEFINE patch == run.patch \cup ({Resolvers!Mine.name} \X outcome)
      <3>2. run.at = "resolver" /\ UNCHANGED registry
        BY <3>1 DEF Resolvers!Return
      <3>3. CASE (Resolvers!Abort \/ Resolvers!Failed) /\ UNCHANGED saved
        BY <2>7, <2>8, <3>2, <3>3
      <3>4. CASE /\ i # 0 /\ Resolvers!Valid(outcome)
                 /\ saved' = IF i = 1 THEN saved \cup Resolvers!AllWrote(frames) ELSE saved
                 /\ frames' = Resolvers!Released(frames, i)
                 /\ run' = [run EXCEPT !.at = IF Resolvers!InTransaction(frames') THEN "next" ELSE "aborted",
                                       !.ops = 0, !.patch = patch]
        <4>1. outcome \subseteq Keys /\ Resolvers!Mine.name \in Names
          <5>1. run.turn \in DOMAIN registry /\ Resolvers!Mine = registry[run.turn] /\ Resolvers!Mine.name \in Names
            BY <1>2, <3>2, MineIsNew
          <5>2. Resolvers!Errors \notin registry[run.turn].keys
            BY <2>1, <5>1 DEF RegistryInv
          <5>3. outcome \subseteq registry[run.turn].keys
            BY <3>4, <5>1 DEF Resolvers!Valid
          <5> QED BY <5>1, <5>2, <5>3
        <4>2. patch \subseteq Names \X Keys /\ patch \subseteq Names \X (Keys \cup {Resolvers!Errors})
          BY <2>1, <4>1
        <4> HIDE DEF patch
        <4> DEFINE at == IF Resolvers!InTransaction(frames') THEN "next" ELSE "aborted"
                   r == Ending(run, at, 0, patch)
        <4>3. r \in Runnings /\ r.ops = 0 /\ r.patch = patch /\ 0 \in 0 .. MaxOps
          <5>1. at \in {"next", "aborted"}
            OBVIOUS
          <5> HIDE DEF at
          <5> QED BY <2>0, <2>1, <4>2, <5>1, EndingRun
        <4>4. run' = r
          BY <3>4 DEF Ending
        <4>5. Numbered(Resolvers!Released(frames, i))
          BY <2>1, <3>4, InnermostIsThere, ReleasedNumbered
        <4>6. saved' \subseteq Names \cup {Resolvers!Caller}
          BY <1>2, <2>1, <3>4, WhoWrote
        <4> HIDE DEF r, i, at
        <4> QED BY <2>1, <2>2, <3>2, <3>4, <4>2, <4>3, <4>4, <4>5, <4>6
      <3> QED BY <3>1, <3>3, <3>4 DEF Resolvers!Return, Resolvers!SpName
    <2> QED BY <1>2, <2>3, <2>4, <2>5, <2>6, <2>8, <2>9 DEF Resolvers!Next, Resolvers!Raise
  <1>3. ASSUME ResolversTypes, UNCHANGED resolversVars PROVE ResolversTypes'
    BY <1>3 DEF resolversVars, ResolversTypes, Numbered
  <1> QED BY <1>1, <1>2, <1>3

\* No two resolvers have one name.
LEMMA RegistryIsBounded ==
  ASSUME RegistryInv
  PROVE  Len(registry) \in 0 .. Resolvers!Cardinality(Names) /\ Resolvers!Cardinality(Names) \in Nat
  <1> DEFINE n == Len(registry)
             f == [i \in 1 .. n |-> registry[i].name]
  <1>1. n \in Nat /\ \A i \in 1 .. n : registry[i].name \in Names
    BY RegistryIsAFunction DEF Entries
  <1>2. \A i, j \in 1 .. n : i # j => registry[i].name # registry[j].name
    BY RegistryIsAFunction DEF RegistryInv
  <1>3. IsFiniteSet(Names)
    BY PartsAssumption
       DEF PartsAssumption, Resolvers!ResolversAssumption, Resolvers!IsFiniteSet, IsFiniteSet
  <1> HIDE DEF n
  <1>4. f \in Injection(1 .. n, Names)
    BY <1>1, <1>2 DEF Injection, IsInjective
  <1> HIDE DEF f
  <1>5. Cardinality(1 .. n) <= Cardinality(Names) /\ Cardinality(Names) \in Nat
    BY <1>3, <1>4, FS_Injection, FS_CardinalityType
  <1>6. Cardinality(1 .. n) = n
    BY <1>1, FS_Interval
  <1>7. Resolvers!Cardinality(Names) = Cardinality(Names)
    BY DEF Resolvers!Cardinality, Cardinality
  <1> QED BY <1>1, <1>5, <1>6, <1>7 DEF n

\* Both say that the state is typed.
LEMMA ResolversAreTyped == ResolversInv /\ ResolversTypes => Resolvers!TypeOK
  <1> SUFFICES ASSUME ResolversInv, ResolversTypes PROVE Resolvers!TypeOK
    OBVIOUS
  <1> DEFINE m == Resolvers!Cardinality(Names)
  <1>1. Len(registry) \in 0 .. m /\ m \in Nat /\ RegistryInv /\ run \in Runnings /\ run.turn <= Len(registry)
    BY RegistryIsBounded DEF ResolversInv
  <1> HIDE DEF m
  <1>2. registry \in Seq(Entries)
    BY <1>1 DEF RegistryInv
  <1>3. \A i \in DOMAIN frames : frames[i] \in Resolvers!Frames
    <2> SUFFICES ASSUME NEW i \in DOMAIN frames PROVE frames[i] \in Resolvers!Frames
      OBVIOUS
    <2>1. frames[i] \in SavepointFrames /\ frames[i].name[2] \in 0 .. m
      BY <1>1, FramesAreAFunction DEF ResolversTypes, Numbered
    <2>2. frames[i].name \in {"begin", "again", "nonce", "guess"} \X (0 .. m)
      BY <2>1 DEF SavepointFrames
    <2> QED BY <2>1, <2>2 DEF SavepointFrames, Resolvers!Frames, m
  <1>4. frames \in Seq(Resolvers!Frames)
    BY <1>3, FramesAreAFunction DEF ResolversInv
  <1>5. run.turn \in 0 .. m
    BY <1>1 DEF Runnings
  <1>6. run \in [at : {"idle", "next", "resolver", "done", "aborted"}, turn : 0 .. m, ops : 0 .. MaxOps,
                 patch : SUBSET (Names \X Keys), errors : SUBSET Names]
    BY <1>1, <1>5 DEF Runnings, ResolversTypes
  <1> QED BY <1>2, <1>4, <1>6 DEF Resolvers!TypeOK, ResolversTypes, Entries, m

-----------------------------------------------------------------------------
(* Provenance: what an answer in the cache, or on its way there, stands on. *)

LEMMA ProvenanceMove ==
  /\ Init => (part = "provenance" => Provenance!Init)
  /\ [Next]_vars => part' = part /\ (part = "provenance" => [Provenance!Next]_provenanceVars)
  BY DEF Init, Next, vars, provenanceVars

\* The invariant.

Caches == UNION {[D -> Provenance!Verdicts] : D \in SUBSET Provenance!Commits}
Stages == {"idle", "next", "log", "current", "stat", "dir", "diff"}
Batches == [at : Stages, todo : SUBSET Findings, one : SUBSET Findings, root : BOOLEAN,
            head : Nat, quiet : BOOLEAN, commit : [Findings -> Provenance!Commits], cache : Caches]

LEMMA CommitsAreNumbers ==
  Provenance!Commits \subseteq Nat /\ 0 \in Provenance!Commits /\ MaxCommits \in Nat \ {0} /\ MaxDisk \in Nat
  BY PartsAssumption DEF PartsAssumption, Provenance!ProvenanceAssumption, Provenance!Commits

ProvenanceTypes ==
  /\ history \in Seq(Trees) /\ Len(history) \in 1 .. MaxCommits
  /\ disk \in [is : {"file", "dir", "other", "absent"}, moves : 0 .. MaxDisk]
  /\ scope \in {"inside", "outside"} /\ seen \in [Findings -> Seq(Provenance!Commits)]
  /\ batch \in Batches

Unchanged(c) == \A k \in c .. batch.head : history[k].here = history[c].here

\* What it says of the file while nothing moves.
Fits(c, said) ==
  /\ said = "current" => ~Provenance!Touched(c)
  /\ said = "modified" => disk.is = "file" \/ (disk.is = "dir" /\ history[c].here \notin Provenance!Blobs)
  /\ said \in {"renamed", "deleted"} =>
       disk.is = "absent" \/ (disk.is = "dir" /\ history[c].here \in Provenance!Blobs)
  /\ said = "renamed" <=> Provenance!Paired(c) /\ said \in {"renamed", "deleted"}

\* What a verdict other than "unknown" says of a commit.
Earned(c, said) ==
  /\ c \in 1 .. Provenance!Tip /\ scope = "inside"
  /\ said = "current" => history[c].here # "absent" /\ Unchanged(c)
  /\ said # "current" => Provenance!Touched(c)
  /\ batch.quiet => Fits(c, said)

\* What the answers so far say of the commit that is asked about.
Staged(c) ==
  /\ c \in 1 .. Provenance!Tip /\ scope = "inside"
  /\ batch.at = "current" => Unchanged(c) /\ (batch.quiet => ~Provenance!Touched(c))
  /\ batch.at \in {"stat", "dir", "diff"} => Provenance!Touched(c)
  /\ batch.quiet /\ batch.at = "dir" => disk.is = "dir"
  /\ batch.quiet /\ batch.at = "diff" =>
       disk.is = "absent" \/ (disk.is = "dir" /\ history[c].here \in Provenance!Blobs)

CacheIsEarned == \A k \in DOMAIN batch.cache : batch.cache[k] # "unknown" => Earned(k, batch.cache[k])

ProvenanceInv ==
  /\ ProvenanceTypes
  /\ batch.at \in {"idle", "next"} => batch.one = {}
  /\ batch.at \notin {"idle", "next"} => \E f \in Findings : batch.one = {f} /\ Staged(batch.commit[f])
  /\ batch.head \in 1 .. Provenance!Tip
  /\ CacheIsEarned

LEMMA HistoryIsAFunction ==
  ASSUME ProvenanceTypes
  PROVE  Provenance!Tip \in Nat \ {0} /\ DOMAIN history = 1 .. Provenance!Tip
  BY DEF ProvenanceTypes, Provenance!Tip

\* Where every commit holds what the one before it held, all hold the same.
LEMMA NothingTouched ==
  ASSUME ProvenanceTypes, NEW c \in 1 .. Provenance!Tip, ~Provenance!Touched(c),
         NEW n \in 1 .. Provenance!Tip
  PROVE  \A k \in c .. n : history[k].here = history[c].here
  <1> DEFINE S == {k \in c .. n : history[k].here # history[c].here}
  <1> SUFFICES ASSUME S # {} PROVE FALSE
    OBVIOUS
  <1>1. S \in SUBSET Nat
    OBVIOUS
  <1>2. PICK m \in S : \A k \in S : m <= k
    BY <1>1, LeastExists
  <1>3. Provenance!Tip \in Nat
    BY HistoryIsAFunction
  <1>4. m \in c .. n /\ m # c /\ m - 1 \in c .. n /\ m - 1 \in c .. (Provenance!Tip - 1) /\ (m - 1) + 1 = m
    BY <1>2, <1>3
  <1>5. m - 1 \notin S
    BY <1>2, <1>4
  <1>6. history[m - 1].here = history[m].here
    BY <1>4 DEF Provenance!Touched
  <1> QED BY <1>2, <1>4, <1>5, <1>6

\* The history and the disk move.

LEMMA HistoryStep ==
  ASSUME ProvenanceInv, NEW tree \in Trees, Provenance!Commit(tree)
  PROVE  ProvenanceInv'
  <1> DEFINE n == Provenance!Tip
  <1>1. /\ history' = Append(history, tree) /\ disk' = [disk EXCEPT !.is = Provenance!OnDisk(tree.here)]
        /\ batch' = [batch EXCEPT !.quiet = FALSE] /\ UNCHANGED <<scope, seen>>
    BY DEF Provenance!Commit, Provenance!Moved
  <1>2. n \in Nat \ {0} /\ history \in Seq(Trees) /\ n = Len(history)
    BY HistoryIsAFunction DEF ProvenanceInv, ProvenanceTypes, Provenance!Tip
  <1>3. history' \in Seq(Trees) /\ Len(history') = n + 1 /\ \A k \in 1 .. n : history'[k] = history[k]
    BY <1>1, <1>2
  <1>4. batch' \in Batches /\ ~batch'.quiet /\ batch'.at = batch.at /\ batch'.one = batch.one
        /\ batch'.head = batch.head /\ batch'.commit = batch.commit /\ batch'.cache = batch.cache
    BY <1>1 DEF ProvenanceInv, ProvenanceTypes, Batches
  <1>5. disk' \in [is : {"file", "dir", "other", "absent"}, moves : 0 .. MaxDisk]
    <2>1. Provenance!OnDisk(tree.here) \in {"file", "dir", "other", "absent"}
      BY DEF Provenance!OnDisk
    <2> QED BY <1>1, <2>1 DEF ProvenanceInv, ProvenanceTypes
  <1>0. n + 1 \in 1 .. MaxCommits
    BY <1>2, CommitsAreNumbers DEF Provenance!Commit
  <1>6. ProvenanceTypes'
    BY <1>0, <1>1, <1>3, <1>4, <1>5 DEF ProvenanceInv, ProvenanceTypes
  <1>7. \A c \in 1 .. n : Provenance!Touched(c) => Provenance!Touched(c)'
    <2>1. Provenance!Tip' = n + 1
      BY <1>3 DEF Provenance!Tip
    <2>2. \A c \in 1 .. n, k \in Nat : k \in c .. (n - 1) => k \in c .. n /\ k \in 1 .. n /\ k + 1 \in 1 .. n
      BY <1>2
    <2> QED BY <1>2, <1>3, <2>1, <2>2 DEF Provenance!Touched
  <1>8. \A c \in 1 .. n : Unchanged(c) => Unchanged(c)'
    BY <1>2, <1>3, <1>4 DEF Unchanged, ProvenanceInv
  <1>9. Provenance!Tip' = n + 1 /\ \A c \in 1 .. n : c \in 1 .. Provenance!Tip'
    BY <1>2, <1>3 DEF Provenance!Tip
  <1>10. batch.head \in 1 .. Provenance!Tip'
    BY <1>9 DEF ProvenanceInv
  <1>11. \A c \in 1 .. n : history'[c] = history[c]
    BY <1>3
  <1>12. ASSUME NEW c, NEW said, Earned(c, said) PROVE Earned(c, said)'
    BY <1>1, <1>4, <1>7, <1>8, <1>9, <1>11, <1>12 DEF Earned
  <1>13. ASSUME NEW c, Staged(c) PROVE Staged(c)'
    BY <1>1, <1>4, <1>7, <1>8, <1>9, <1>11, <1>13 DEF Staged
  <1>14. CacheIsEarned'
    BY <1>4, <1>12 DEF CacheIsEarned, ProvenanceInv
  <1> QED BY <1>4, <1>6, <1>10, <1>13, <1>14 DEF ProvenanceInv

LEMMA DisturbStep ==
  ASSUME ProvenanceInv, NEW is \in {"file", "dir", "other", "absent"}, Provenance!Disturb(is)
  PROVE  ProvenanceInv'
  <1>1. /\ disk' = [is |-> is, moves |-> disk.moves + 1] /\ disk.moves < MaxDisk
        /\ batch' = [batch EXCEPT !.quiet = FALSE] /\ UNCHANGED <<history, scope, seen>>
    BY DEF Provenance!Disturb, Provenance!Moved
  <1>0. disk.moves + 1 \in 0 .. MaxDisk
    BY <1>1, CommitsAreNumbers DEF ProvenanceInv, ProvenanceTypes
  <1>2. batch' \in Batches /\ ~batch'.quiet /\ batch'.at = batch.at /\ batch'.one = batch.one
        /\ batch'.head = batch.head /\ batch'.commit = batch.commit /\ batch'.cache = batch.cache
    BY <1>1 DEF ProvenanceInv, ProvenanceTypes, Batches
  <1>3. ProvenanceTypes'
    BY <1>0, <1>1, <1>2 DEF ProvenanceInv, ProvenanceTypes
  <1>4. ASSUME NEW c, NEW said, Earned(c, said) PROVE Earned(c, said)'
    BY <1>1, <1>2, <1>4 DEF Earned, Fits, Unchanged, Provenance!Touched, Provenance!Tip
  <1>5. ASSUME NEW c, Staged(c) PROVE Staged(c)'
    BY <1>1, <1>2, <1>5 DEF Staged, Unchanged, Provenance!Touched, Provenance!Tip
  <1>6. CacheIsEarned'
    BY <1>2, <1>4 DEF CacheIsEarned, ProvenanceInv
  <1>7. Provenance!Tip' = Provenance!Tip
    BY <1>1 DEF Provenance!Tip
  <1> QED BY <1>2, <1>3, <1>5, <1>6, <1>7 DEF ProvenanceInv

\* The batch.

\* Only the batch moves, and it keeps what it knew.
LEMMA StageStep ==
  ASSUME ProvenanceInv, UNCHANGED <<history, disk, scope, seen>>,
         batch' \in Batches, batch'.at # "idle",
         batch'.head = batch.head, batch'.quiet = batch.quiet, batch'.commit = batch.commit,
         batch'.at = "next" => batch'.one = {},
         batch'.at # "next" => \E f \in Findings : batch'.one = {f} /\ Staged(batch.commit[f])',
         \A k \in DOMAIN batch'.cache :
           batch'.cache[k] # "unknown" =>
             (k \in DOMAIN batch.cache /\ batch'.cache[k] = batch.cache[k]) \/ Earned(k, batch'.cache[k])
  PROVE  ProvenanceInv'
  <1>1. ASSUME NEW c, NEW said, Earned(c, said) PROVE Earned(c, said)'
    BY <1>1 DEF Earned, Fits, Unchanged, Provenance!Touched, Provenance!Tip, Provenance!Paired
  <1>2. CacheIsEarned'
    BY <1>1 DEF CacheIsEarned, ProvenanceInv
  <1>3. ProvenanceTypes' /\ Provenance!Tip' = Provenance!Tip
    BY DEF ProvenanceInv, ProvenanceTypes, Provenance!Tip
  <1>4. batch'.at \in Stages
    BY DEF Batches
  <1> QED BY <1>2, <1>3, <1>4 DEF ProvenanceInv

\* A cache with one more verdict.
With(m, k, v) == [x \in DOMAIN m \cup {k} |-> IF x = k THEN v ELSE m[x]]

LEMMA CacheWith ==
  ASSUME NEW m \in Caches, NEW k \in Provenance!Commits, NEW v \in Provenance!Verdicts
  PROVE  /\ With(m, k, v) \in Caches /\ k \in DOMAIN With(m, k, v) /\ With(m, k, v)[k] = v
         /\ \A x \in DOMAIN With(m, k, v) : x = k \/ (x \in DOMAIN m /\ With(m, k, v)[x] = m[x])
  <1>1. PICK D \in SUBSET Provenance!Commits : m \in [D -> Provenance!Verdicts]
    BY DEF Caches
  <1>2. With(m, k, v) \in [D \cup {k} -> Provenance!Verdicts] /\ D \cup {k} \in SUBSET Provenance!Commits
    BY <1>1 DEF With
  <1> QED BY <1>2 DEF Caches, With

\* A verdict is told of the finding that is asked about.
LEMMA TellStep ==
  ASSUME ProvenanceInv, batch.at \notin {"idle", "next"}, UNCHANGED <<history, disk, scope, seen>>,
         NEW v \in Provenance!Verdicts, Provenance!Tell(Provenance!One, v),
         \A f \in Findings : batch.one = {f} /\ v # "unknown" => Earned(batch.commit[f], v)
  PROVE  ProvenanceInv'
  <1>1. PICK f \in Findings : batch.one = {f}
    BY DEF ProvenanceInv
  <1>2. Provenance!One = f
    BY <1>1 DEF Provenance!One
  <1> DEFINE k == batch.commit[f]
             m == With(batch.cache, k, v)
  <1>3. batch' = [batch EXCEPT !.at = "next", !.one = {}, !.cache = m]
    BY <1>2 DEF Provenance!Tell, Provenance!Key, With
  <1>4. batch \in Batches /\ k \in Provenance!Commits /\ batch.cache \in Caches
    BY DEF ProvenanceInv, ProvenanceTypes, Batches
  <1>5. /\ m \in Caches /\ k \in DOMAIN m /\ m[k] = v
        /\ \A x \in DOMAIN m : x = k \/ (x \in DOMAIN batch.cache /\ m[x] = batch.cache[x])
    BY <1>4, CacheWith
  <1>6. v # "unknown" => Earned(k, v)
    BY <1>1
  <1> HIDE DEF k, m
  <1>7. /\ batch' \in Batches /\ batch'.at = "next" /\ batch'.one = {} /\ batch'.cache = m
        /\ batch'.head = batch.head /\ batch'.quiet = batch.quiet /\ batch'.commit = batch.commit
    BY <1>3, <1>4, <1>5 DEF Batches, Stages
  <1> QED BY <1>5, <1>6, <1>7, StageStep

\* The next question about it.
LEMMA AskStep ==
  ASSUME ProvenanceInv, batch.at \notin {"idle", "next"}, UNCHANGED <<history, disk, scope, seen>>,
         NEW p \in Stages \ {"idle", "next"}, Provenance!Ask(p),
         NEW c, \A f \in Findings : batch.one = {f} => batch.commit[f] = c, Staged(c)'
  PROVE  ProvenanceInv'
  <1>1. PICK f \in Findings : batch.one = {f} /\ batch.commit[f] = c
    BY DEF ProvenanceInv
  <1>2. /\ batch' \in Batches /\ batch'.at = p /\ batch'.one = {f} /\ batch'.cache = batch.cache
        /\ batch'.head = batch.head /\ batch'.quiet = batch.quiet /\ batch'.commit = batch.commit
    BY <1>1 DEF Provenance!Ask, ProvenanceInv, ProvenanceTypes, Batches
  <1> QED BY <1>1, <1>2, StageStep

\* What an observation carries is the number of a commit.
LEMMA EffectiveIsACommit ==
  ASSUME ProvenanceInv, NEW f \in Findings
  PROVE  Provenance!Effective(f) \in Provenance!Commits
  <1> DEFINE usable == {i \in DOMAIN seen[f] : seen[f][i] # 0}
  <1>1. seen[f] \in Seq(Provenance!Commits) /\ Len(seen[f]) \in Nat /\ DOMAIN seen[f] = 1 .. Len(seen[f])
    BY DEF ProvenanceInv, ProvenanceTypes
  <1>2. CASE usable # {}
    <2>1. usable \in SUBSET (1 .. Len(seen[f]))
      BY <1>1
    <2>2. \E i \in usable : \A j \in usable : j <= i
      BY <1>1, <1>2, <2>1, GreatestExists
    <2>3. (CHOOSE i \in usable : \A j \in usable : j <= i) \in usable
      BY <2>2
    <2>4. \A i \in usable : seen[f][i] \in Provenance!Commits
      BY <1>1
    <2> QED BY <1>2, <2>3, <2>4 DEF Provenance!Effective
  <1>3. CASE usable = {}
    BY <1>3, CommitsAreNumbers DEF Provenance!Effective
  <1> QED BY <1>2, <1>3

LEMMA IdleBatch ==
  /\ Provenance!Idle \in Batches /\ Provenance!Idle.at = "idle" /\ Provenance!Idle.one = {}
  /\ Provenance!Idle.head = 1 /\ DOMAIN Provenance!Idle.cache = {}
  <1>1. <<>> \in [{} -> Provenance!Verdicts] /\ {} \in SUBSET Provenance!Commits
    OBVIOUS
  <1>2. <<>> \in Caches
    BY <1>1 DEF Caches
  <1> QED BY <1>2, CommitsAreNumbers DEF Provenance!Idle, Batches, Stages

LEMMA BeginStep ==
  ASSUME ProvenanceInv, NEW answered \in BOOLEAN, Provenance!Begin(answered)
  PROVE  ProvenanceInv'
  <1> DEFINE commits0 == [f \in Findings |-> Provenance!Effective(f)]
  <1>1. /\ UNCHANGED <<history, disk, scope, seen>>
        /\ batch' = [Provenance!Idle EXCEPT !.at = "next", !.todo = Findings, !.root = answered,
                                            !.commit = commits0, !.head = Provenance!Tip]
    BY DEF Provenance!Begin
  <1>2. commits0 \in [Findings -> Provenance!Commits]
    BY EffectiveIsACommit
  <1>3. Provenance!Tip \in Nat \ {0}
    BY HistoryIsAFunction DEF ProvenanceInv
  <1> HIDE DEF commits0
  <1>4. /\ batch' \in Batches /\ batch'.at = "next" /\ batch'.one = {} /\ DOMAIN batch'.cache = {}
        /\ batch'.head = Provenance!Tip
    BY <1>1, <1>2, <1>3, IdleBatch DEF Batches, Stages
  <1>5. ProvenanceTypes' /\ Provenance!Tip' = Provenance!Tip
    BY <1>1, <1>4 DEF ProvenanceInv, ProvenanceTypes, Provenance!Tip
  <1> QED BY <1>3, <1>4, <1>5 DEF ProvenanceInv, CacheIsEarned

LEMMA EndStep ==
  ASSUME ProvenanceInv, Provenance!End
  PROVE  ProvenanceInv'
  <1>1. UNCHANGED <<history, disk, scope, seen>> /\ batch' = Provenance!Idle
    BY DEF Provenance!End
  <1>2. Provenance!Tip \in Nat \ {0}
    BY HistoryIsAFunction DEF ProvenanceInv
  <1>3. ProvenanceTypes' /\ Provenance!Tip' = Provenance!Tip
    BY <1>1, IdleBatch DEF ProvenanceInv, ProvenanceTypes, Provenance!Tip
  <1> QED BY <1>1, <1>2, <1>3, IdleBatch DEF ProvenanceInv, CacheIsEarned

LEMMA NextFindingStep ==
  ASSUME ProvenanceInv, NEW f \in Findings, NEW answered \in BOOLEAN,
         Provenance!NextFinding(f, answered)
  PROVE  ProvenanceInv'
  <1> DEFINE rest == [batch EXCEPT !.todo = @ \ {f}]
             k == batch.commit[f]
             refused == k = 0 \/ k > Provenance!Tip \/ ~batch.root \/ scope # "inside" \/ ~answered
  <1>1. /\ batch.at = "next" /\ f \in batch.todo /\ UNCHANGED <<history, disk, scope, seen>>
        /\ batch \in Batches /\ batch.one = {} /\ k \in Provenance!Commits /\ k \in Nat
        /\ batch.cache \in Caches
    BY CommitsAreNumbers DEF Provenance!NextFinding, ProvenanceInv, ProvenanceTypes, Batches
  <1>2. /\ rest \in Batches /\ rest.at = "next" /\ rest.one = {} /\ rest.cache = batch.cache
        /\ rest.head = batch.head /\ rest.quiet = batch.quiet /\ rest.commit = batch.commit
    BY <1>1 DEF Batches
  <1>3. CASE k \in DOMAIN batch.cache
    <2>1. batch' = rest
      BY <1>3 DEF Provenance!NextFinding, Provenance!Key
    <2> QED BY <1>1, <1>2, <2>1, StageStep
  <1>4. CASE k \notin DOMAIN batch.cache /\ refused
    <2> DEFINE m == With(batch.cache, k, "unknown")
    <2>1. batch' = [rest EXCEPT !.cache = m]
      BY <1>4 DEF Provenance!NextFinding, Provenance!Key, With
    <2>2. /\ m \in Caches /\ m[k] = "unknown"
          /\ \A x \in DOMAIN m : x = k \/ (x \in DOMAIN batch.cache /\ m[x] = batch.cache[x])
      <3>1. "unknown" \in Provenance!Verdicts
        BY DEF Provenance!Verdicts
      <3> HIDE DEF k
      <3> QED BY <1>1, <3>1, CacheWith
    <2> HIDE DEF rest, k, m
    <2>3. /\ batch' \in Batches /\ batch'.at = "next" /\ batch'.one = {} /\ batch'.cache = m
          /\ batch'.head = batch.head /\ batch'.quiet = batch.quiet /\ batch'.commit = batch.commit
      BY <1>2, <2>1, <2>2 DEF Batches
    <2> QED BY <1>1, <2>2, <2>3, StageStep
  <1>5. CASE k \notin DOMAIN batch.cache /\ ~refused
    <2>1. batch' = [rest EXCEPT !.at = "log", !.one = {f}]
      BY <1>5 DEF Provenance!NextFinding, Provenance!Key
    <2>2. k \in 1 .. Provenance!Tip /\ scope = "inside"
      BY <1>1, <1>5, HistoryIsAFunction DEF ProvenanceInv
    <2> HIDE DEF rest
    <2>3. /\ batch' \in Batches /\ batch'.at = "log" /\ batch'.one = {f} /\ batch'.cache = batch.cache
          /\ batch'.head = batch.head /\ batch'.quiet = batch.quiet /\ batch'.commit = batch.commit
      BY <1>2, <2>1 DEF Batches, Stages
    <2>4. Staged(k)'
      BY <1>1, <2>2, <2>3 DEF Staged, Provenance!Tip
    <2> QED BY <1>1, <2>3, <2>4, StageStep
  <1> QED BY <1>3, <1>4, <1>5

\* The finding that is asked about.
LEMMA OneIsStaged ==
  ASSUME ProvenanceInv, batch.at \notin {"idle", "next"}
  PROVE  /\ Provenance!One \in Findings /\ batch.one = {Provenance!One}
         /\ Staged(batch.commit[Provenance!One])
         /\ \A f \in Findings : batch.one = {f} => f = Provenance!One
  <1>1. PICK f \in Findings : batch.one = {f} /\ Staged(batch.commit[f])
    BY DEF ProvenanceInv
  <1>2. Provenance!One = f
    BY <1>1 DEF Provenance!One
  <1> QED BY <1>1, <1>2

LEMMA AskedBatch ==
  ASSUME ProvenanceInv, NEW p \in Stages, Provenance!Ask(p)
  PROVE  /\ batch'.at = p /\ batch'.head = batch.head /\ batch'.quiet = batch.quiet
         /\ batch'.commit = batch.commit
  BY DEF Provenance!Ask, ProvenanceInv, ProvenanceTypes, Batches

LEMMA ProbeLogStep ==
  ASSUME ProvenanceInv, NEW answered \in BOOLEAN, Provenance!ProbeLog(answered)
  PROVE  ProvenanceInv'
  <1>0. PICK c : c = batch.commit[Provenance!One]
    OBVIOUS
  <1> DEFINE p == IF Provenance!Touched(c) THEN "stat" ELSE "current"
  <1>1. batch.at = "log" /\ UNCHANGED <<history, disk, scope, seen>>
    BY DEF Provenance!ProbeLog
  <1>2. Staged(c) /\ \A g \in Findings : batch.one = {g} => batch.commit[g] = c
    BY <1>0, <1>1, OneIsStaged
  <1>3. CASE ~answered
    BY <1>1, <1>3, TellStep DEF Provenance!ProbeLog, Provenance!Verdicts
  <1>4. CASE answered
    <2>1. Provenance!Ask(p) /\ p \in Stages \ {"idle", "next"}
      BY <1>0, <1>4 DEF Provenance!ProbeLog, Stages
    <2>2. ~Provenance!Touched(c) => Unchanged(c)
      BY <1>2, NothingTouched DEF Staged, ProvenanceInv, Unchanged
    <2>3. Provenance!Touched(c)' = Provenance!Touched(c) /\ Unchanged(c)' = Unchanged(c)
      BY <1>1, <2>1, AskedBatch DEF Provenance!Touched, Provenance!Tip, Unchanged
    <2>4. Staged(c)'
      BY <1>1, <1>2, <2>1, <2>2, <2>3, AskedBatch DEF Staged, Provenance!Tip
    <2> HIDE DEF p
    <2> QED BY <1>1, <1>2, <2>1, <2>4, AskStep
  <1> QED BY <1>3, <1>4

LEMMA ProbeCurrentStep ==
  ASSUME ProvenanceInv, NEW answered \in BOOLEAN, Provenance!ProbeCurrent(answered)
  PROVE  ProvenanceInv'
  <1>0. PICK c : c = batch.commit[Provenance!One]
    OBVIOUS
  <1> DEFINE v == IF ~answered \/ history[c].here = "absent" THEN "unknown" ELSE "current"
  <1>1. batch.at = "current" /\ UNCHANGED <<history, disk, scope, seen>> /\ Provenance!Tell(Provenance!One, v)
    BY <1>0 DEF Provenance!ProbeCurrent
  <1>2. Staged(c) /\ \A g \in Findings : batch.one = {g} => batch.commit[g] = c
    BY <1>0, <1>1, OneIsStaged
  <1>3. v \in Provenance!Verdicts /\ (v # "unknown" => Earned(c, v))
    BY <1>1, <1>2 DEF Staged, Earned, Fits, Provenance!Verdicts
  <1> HIDE DEF v
  <1> QED BY <1>1, <1>2, <1>3, TellStep

LEMMA ProbeStatStep ==
  ASSUME ProvenanceInv, NEW answered \in BOOLEAN, Provenance!ProbeStat(answered)
  PROVE  ProvenanceInv'
  <1>0. PICK c : c = batch.commit[Provenance!One]
    OBVIOUS
  <1>1. batch.at = "stat" /\ UNCHANGED <<history, disk, scope, seen>>
    BY DEF Provenance!ProbeStat
  <1>2. Staged(c) /\ \A g \in Findings : batch.one = {g} => batch.commit[g] = c
    BY <1>0, <1>1, OneIsStaged
  <1>3. Provenance!Touched(c)' = Provenance!Touched(c)
    BY <1>1 DEF Provenance!Touched, Provenance!Tip
  <1>4. CASE ~answered \/ disk.is = "other"
    BY <1>1, <1>4, TellStep DEF Provenance!ProbeStat, Provenance!Verdicts
  <1>5. CASE answered /\ disk.is = "file"
    <2>1. Provenance!Tell(Provenance!One, "modified")
      BY <1>5 DEF Provenance!ProbeStat
    <2>2. Earned(c, "modified")
      BY <1>1, <1>2, <1>5 DEF Staged, Earned, Fits
    <2> QED BY <1>1, <1>2, <2>1, <2>2, TellStep DEF Provenance!Verdicts
  <1>6. CASE answered /\ disk.is \in {"dir", "absent"}
    <2> DEFINE p == IF disk.is = "dir" THEN "dir" ELSE "diff"
    <2>1. Provenance!Ask(p) /\ p \in Stages \ {"idle", "next"}
      BY <1>6 DEF Provenance!ProbeStat, Stages
    <2>2. Staged(c)'
      BY <1>1, <1>2, <1>3, <1>6, <2>1, AskedBatch DEF Staged, Provenance!Tip
    <2> HIDE DEF p
    <2> QED BY <1>1, <1>2, <2>1, <2>2, AskStep
  <1> QED BY <1>4, <1>5, <1>6 DEF ProvenanceInv, ProvenanceTypes

LEMMA ProbeDirStep ==
  ASSUME ProvenanceInv, NEW answered \in BOOLEAN, Provenance!ProbeDir(answered)
  PROVE  ProvenanceInv'
  <1>0. PICK c : c = batch.commit[Provenance!One]
    OBVIOUS
  <1>1. batch.at = "dir" /\ UNCHANGED <<history, disk, scope, seen>>
    BY DEF Provenance!ProbeDir
  <1>2. Staged(c) /\ \A g \in Findings : batch.one = {g} => batch.commit[g] = c
    BY <1>0, <1>1, OneIsStaged
  <1>3. Provenance!Touched(c)' = Provenance!Touched(c)
    BY <1>1 DEF Provenance!Touched, Provenance!Tip
  <1>4. CASE ~answered
    BY <1>1, <1>4, TellStep DEF Provenance!ProbeDir, Provenance!Verdicts
  <1>5. CASE answered /\ history[c].here \notin Provenance!Blobs
    <2>1. Provenance!Tell(Provenance!One, "modified")
      BY <1>0, <1>5 DEF Provenance!ProbeDir
    <2>2. Earned(c, "modified")
      BY <1>1, <1>2, <1>5 DEF Staged, Earned, Fits
    <2> QED BY <1>1, <1>2, <2>1, <2>2, TellStep DEF Provenance!Verdicts
  <1>6. CASE answered /\ history[c].here \in Provenance!Blobs
    <2>1. Provenance!Ask("diff") /\ "diff" \in Stages \ {"idle", "next"}
      BY <1>0, <1>6 DEF Provenance!ProbeDir, Stages
    <2>2. Staged(c)'
      BY <1>1, <1>2, <1>3, <1>6, <2>1, AskedBatch DEF Staged, Provenance!Tip
    <2> QED BY <1>1, <1>2, <2>1, <2>2, AskStep
  <1> QED BY <1>4, <1>5, <1>6

LEMMA ProbeDiffStep ==
  ASSUME ProvenanceInv, NEW answered \in BOOLEAN, Provenance!ProbeDiff(answered)
  PROVE  ProvenanceInv'
  <1>0. PICK c : c = batch.commit[Provenance!One]
    OBVIOUS
  <1> DEFINE v == Provenance!Rename(c, answered)
  <1>1. batch.at = "diff" /\ UNCHANGED <<history, disk, scope, seen>> /\ Provenance!Tell(Provenance!One, v)
    BY <1>0 DEF Provenance!ProbeDiff
  <1>2. Staged(c) /\ \A g \in Findings : batch.one = {g} => batch.commit[g] = c
    BY <1>0, <1>1, OneIsStaged
  <1>3. v \in Provenance!Verdicts /\ (v # "unknown" => Earned(c, v))
    BY <1>1, <1>2 DEF Staged, Earned, Fits, Provenance!Verdicts, Provenance!Rename
  <1> HIDE DEF v
  <1> QED BY <1>1, <1>2, <1>3, TellStep

LEMMA ProvenanceInvariance ==
  ASSUME Provenance!ProvenanceAssumption
  PROVE  /\ Provenance!Init => ProvenanceInv
         /\ ProvenanceInv /\ [Provenance!Next]_provenanceVars => ProvenanceInv'
  <1>1. ASSUME Provenance!Init PROVE ProvenanceInv
    <2>1. PICK tree \in Trees : history = <<tree>>
      BY <1>1 DEF Provenance!Init
    <2>2. history \in Seq(Trees) /\ Len(history) = 1 /\ 1 \in 1 .. MaxCommits
      BY <2>1, CommitsAreNumbers
    <2>3. disk \in [is : {"file", "dir", "other", "absent"}, moves : 0 .. MaxDisk]
      BY <1>1, CommitsAreNumbers DEF Provenance!Init, Provenance!OnDisk
    <2>4. seen \in [Findings -> Seq(Provenance!Commits)]
      BY <1>1 DEF Provenance!Init, Provenance!ProvenanceAssumption
    <2>5. batch = Provenance!Idle
      BY <1>1 DEF Provenance!Init
    <2>6. scope \in {"inside", "outside"}
      BY <1>1 DEF Provenance!Init
    <2> QED BY <2>2, <2>3, <2>4, <2>5, <2>6, IdleBatch DEF ProvenanceInv, ProvenanceTypes, CacheIsEarned, Provenance!Tip
  <1>2. ASSUME ProvenanceInv, Provenance!Next PROVE ProvenanceInv'
    BY <1>2, HistoryStep, DisturbStep, BeginStep, ProbeLogStep, ProbeCurrentStep, ProbeStatStep,
       ProbeDirStep, ProbeDiffStep, NextFindingStep, EndStep DEF Provenance!Next
  <1>3. ASSUME ProvenanceInv, UNCHANGED provenanceVars PROVE ProvenanceInv'
    <2>1. /\ ProvenanceTypes' /\ (CacheIsEarned => CacheIsEarned') /\ Provenance!Tip' = Provenance!Tip
          /\ \A c : Staged(c) => Staged(c)'
      BY <1>3 DEF provenanceVars, ProvenanceInv, ProvenanceTypes, CacheIsEarned, Earned, Fits, Staged, Unchanged,
                  Provenance!Touched, Provenance!Tip, Provenance!Paired
    <2> QED BY <1>3, <2>1 DEF provenanceVars, ProvenanceInv
  <1> QED BY <1>1, <1>2, <1>3

\* The invariant says that the state is typed.
LEMMA ProvenanceIsTyped == ProvenanceInv => Provenance!TypeOK
  <1> SUFFICES ASSUME ProvenanceInv PROVE Provenance!TypeOK
    OBVIOUS
  <1>1. ProvenanceTypes
    BY DEF ProvenanceInv
  <1>2. Trees \subseteq [here : Provenance!Places, there : Provenance!Places]
    BY PartsAssumption DEF PartsAssumption, Provenance!ProvenanceAssumption
  <1>3. history \in Seq([here : Provenance!Places, there : Provenance!Places])
    <2> DEFINE T == [here : Provenance!Places, there : Provenance!Places]
    <2>1. Trees \subseteq T
      BY <1>2
    <2> HIDE DEF T
    <2>2. history \in Seq(T)
      BY <1>1, <2>1 DEF ProvenanceTypes
    <2> QED BY <2>2 DEF T
  <1>4. /\ batch.at \in Stages /\ batch.todo \subseteq Findings /\ batch.one \subseteq Findings
        /\ batch.cache \in Caches
    BY <1>1 DEF ProvenanceTypes, Batches
  <1>5. PICK D \in SUBSET Provenance!Commits : batch.cache \in [D -> Provenance!Verdicts]
    BY <1>4 DEF Caches
  <1>6. /\ DOMAIN batch.cache \subseteq Provenance!Commits
        /\ \A k \in DOMAIN batch.cache : batch.cache[k] \in Provenance!Verdicts
    BY <1>5
  <1>7. scope \in {"inside", "outside"}
    BY <1>1 DEF ProvenanceTypes
  <1> QED BY <1>1, <1>3, <1>4, <1>6, <1>7 DEF Provenance!TypeOK, ProvenanceTypes, Stages

\* The property.

\* Whom a step gives a verdict: it has one in the cache, and nothing else moved.
Told ==
  \A f \in batch.todo \cup batch.one :
    batch.at # "idle" /\ batch'.at = "next" /\ f \notin batch'.todo =>
      /\ batch.commit[f] \in DOMAIN batch'.cache
      /\ UNCHANGED <<history, disk, scope>>
      /\ batch'.head = batch.head /\ batch'.quiet = batch.quiet

LEMMA TellTold ==
  ASSUME ProvenanceInv, batch.at \notin {"idle", "next"}, NEW v, Provenance!Tell(Provenance!One, v),
         UNCHANGED <<history, disk, scope>>
  PROVE  Told
  <1>1. batch.one = {Provenance!One}
    BY OneIsStaged
  <1>2. batch \in Batches
    BY DEF ProvenanceInv, ProvenanceTypes
  <1>3. /\ batch'.todo = batch.todo /\ batch'.head = batch.head /\ batch'.quiet = batch.quiet
        /\ batch.commit[Provenance!One] \in DOMAIN batch'.cache
    BY <1>2 DEF Provenance!Tell, Provenance!Key, Batches
  <1> QED BY <1>1, <1>3 DEF Told

LEMMA StepTold ==
  ASSUME ProvenanceInv, Provenance!Next
  PROVE  Told
  <1>1. batch \in Batches /\ (batch.one # {} => batch.at \notin {"idle", "next"})
    BY DEF ProvenanceInv, ProvenanceTypes
  <1>2. CASE batch'.todo = batch.todo /\ batch'.at = batch.at
    BY <1>1, <1>2 DEF Told
  <1>3. CASE batch.at = "idle" \/ batch'.at # "next"
    BY <1>3 DEF Told
  <1>4. ASSUME NEW tree, Provenance!Commit(tree) PROVE Told
    BY <1>1, <1>2, <1>4 DEF Provenance!Commit, Provenance!Moved, Batches
  <1>5. ASSUME NEW is, Provenance!Disturb(is) PROVE Told
    BY <1>1, <1>2, <1>5 DEF Provenance!Disturb, Provenance!Moved, Batches
  <1>6. ASSUME NEW p \in Stages \ {"idle", "next"}, Provenance!Ask(p) PROVE Told
    BY <1>1, <1>3, <1>6 DEF Provenance!Ask, Batches
  <1>7. ASSUME NEW f \in Findings, NEW answered, Provenance!NextFinding(f, answered) PROVE Told
    <2> DEFINE rest == [batch EXCEPT !.todo = @ \ {f}]
               m == With(batch.cache, batch.commit[f], "unknown")
    <2>1. /\ batch.at = "next" /\ batch.one = {} /\ UNCHANGED <<history, disk, scope>>
      BY <1>1, <1>7 DEF Provenance!NextFinding
    <2>2. \/ batch' = rest /\ batch.commit[f] \in DOMAIN batch.cache
          \/ batch' = [rest EXCEPT !.cache = m]
          \/ batch' = [rest EXCEPT !.at = "log", !.one = {f}]
      BY <1>7 DEF Provenance!NextFinding, Provenance!Key, With
    <2>3. batch.commit[f] \in DOMAIN m
      BY DEF With
    <2>4. rest \in Batches /\ rest.todo = batch.todo \ {f} /\ rest.cache = batch.cache
          /\ rest.head = batch.head /\ rest.quiet = batch.quiet
      BY <1>1 DEF Batches
    <2> HIDE DEF rest, m
    <2>5. \/ batch'.at # "next"
          \/ /\ batch'.todo = batch.todo \ {f} /\ batch'.head = batch.head /\ batch'.quiet = batch.quiet
             /\ batch.commit[f] \in DOMAIN batch'.cache
      BY <2>2, <2>3, <2>4 DEF Batches
    <2> QED BY <2>1, <2>5 DEF Told
  <1>8. ASSUME NEW answered, Provenance!Begin(answered) PROVE Told
    BY <1>3, <1>8 DEF Provenance!Begin
  <1>9. ASSUME Provenance!End PROVE Told
    BY <1>3, <1>9 DEF Provenance!End, Provenance!Idle
  <1>10. ASSUME NEW answered \in BOOLEAN,
                \/ Provenance!ProbeLog(answered) \/ Provenance!ProbeCurrent(answered)
                \/ Provenance!ProbeStat(answered) \/ Provenance!ProbeDir(answered)
                \/ Provenance!ProbeDiff(answered)
         PROVE  Told
    <2>1. batch.at \notin {"idle", "next"} /\ UNCHANGED <<history, disk, scope>>
      BY <1>10 DEF Provenance!ProbeLog, Provenance!ProbeCurrent, Provenance!ProbeStat,
                   Provenance!ProbeDir, Provenance!ProbeDiff
    <2>2. \/ \E v : Provenance!Tell(Provenance!One, v)
          \/ \E p \in Stages \ {"idle", "next"} : Provenance!Ask(p)
      BY <1>10 DEF Provenance!ProbeLog, Provenance!ProbeCurrent, Provenance!ProbeStat,
                   Provenance!ProbeDir, Provenance!ProbeDiff, Stages
    <2> QED BY <1>6, <2>1, <2>2, TellTold
  <1> QED BY <1>4, <1>5, <1>7, <1>8, <1>9, <1>10 DEF Provenance!Next

LEMMA VerdictIsEarnedByEveryStep ==
  ASSUME ProvenanceInv, ProvenanceInv', Told
  PROVE  Provenance!VerdictIsEarned
  <1> SUFFICES ASSUME NEW f \in Findings, batch.at # "idle", f \in batch.todo \cup batch.one,
                      batch'.at = "next", f \notin batch'.todo,
                      batch'.cache[Provenance!Key(f)] # "unknown"
               PROVE  Earned(batch.commit[f], batch'.cache[Provenance!Key(f)])
    BY DEF Provenance!VerdictIsEarned, Earned, Fits, Unchanged
  <1>1. PICK c : c = batch.commit[f]
    OBVIOUS
  <1>2. PICK said : said = batch'.cache[c]
    OBVIOUS
  <1>3. /\ c \in DOMAIN batch'.cache /\ UNCHANGED <<history, disk, scope>>
        /\ batch'.head = batch.head /\ batch'.quiet = batch.quiet
    BY <1>1 DEF Told
  <1>4. said # "unknown" /\ Provenance!Key(f) = c
    BY <1>1, <1>2 DEF Provenance!Key
  <1>5. Earned(c, said)'
    BY <1>2, <1>3, <1>4 DEF ProvenanceInv, CacheIsEarned
  <1>6. Earned(c, said)
    BY <1>3, <1>5 DEF Earned, Fits, Unchanged, Provenance!Touched, Provenance!Tip, Provenance!Paired
  <1> QED BY <1>1, <1>2, <1>4, <1>6

\* Whatever git, the disk and the history do between the probes (file_status and
\* check_findings, provenance.py): a verdict other than "unknown" fits the newest
\* commit that its own finding was seen at, and while nothing moves it is true of
\* the file.
THEOREM VerdictsStand == Spec => VerdictsAreEarned
  <1> DEFINE I == part = "provenance" => ProvenanceInv
             A == part = "provenance" => Provenance!VerdictIsEarned
  <1>1. Init => I
    BY ProvenanceMove, ProvenanceInvariance, PartsAssumption DEF PartsAssumption
  <1>2. I /\ [Next]_vars => I'
    BY ProvenanceMove, ProvenanceInvariance, PartsAssumption DEF PartsAssumption
  <1>3. I /\ I' /\ [Next]_vars => [A]_vars
    <2> SUFFICES ASSUME I, I', Next, part = "provenance" PROVE Provenance!VerdictIsEarned
      BY DEF A
    <2>1. ProvenanceInv /\ ProvenanceInv' /\ Provenance!Next
      BY DEF Next
    <2> QED BY <2>1, StepTold, VerdictIsEarnedByEveryStep
  <1> HIDE DEF I, A
  <1>4. Spec => [][A]_vars
    BY <1>1, <1>2, <1>3, PTL DEF Spec
  <1> QED BY <1>4 DEF A, VerdictsAreEarned
=============================================================================
