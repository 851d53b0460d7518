----------------------------- MODULE Relations -----------------------------
(***************************************************************************)
(* The ledger of typed relations between entities: src/src/codebugs/       *)
(* relations.py.  Two relations are symmetric and stored in canonical      *)
(* orientation; duplicate_of goes from the loser to the survivor.  A       *)
(* relation is retracted by a tombstone; the row stays.                    *)
(*                                                                         *)
(* relate and unrelate each run under the write lock (db.txn), so each is  *)
(* one action; a call that is refused changes nothing.                     *)
(***************************************************************************)
EXTENDS Naturals, Sequences

CONSTANTS
  Ids,        \* ids of entities, as numbers: the order of the strings
  Actors,     \* who asserts and retracts
  NoOne,      \* no retracted_by
  MaxRows     \* bound: rows of the ledger

\* Ids are compared.
RelationsAssumption == Ids \subseteq Nat

VARIABLES
  cards,      \* the entities that exist; none is ever deleted
  ledger      \* finding_relations, in the order of the ids of its rows

vars == <<cards, ledger>>

\* The vocabulary; "related_to" stands for every relation that nothing
\* contradicts (split_from, follow_up_of and found_during are its directed kind).
Rels == {"duplicate_of", "distinct_from", "related_to", "split_from"}
Symmetric == {"distinct_from", "related_to"}

Rows == [src : Ids, rel : Rels, dst : Ids, source : Actors, retracted_by : Actors \cup {NoOne}]

TypeOK == cards \subseteq Ids /\ ledger \in Seq(Rows)

-----------------------------------------------------------------------------

\* Mutant: what was passed is stored.
OrientNot(rel, s, d) == <<s, d>>

\* _orient: the lesser id first in a symmetric relation.
Orient(rel, s, d) == IF rel \in Symmetric /\ d < s THEN <<d, s>> ELSE <<s, d>>

IsLive(row) == row.retracted_by = NoOne

\* _live_edge: the positions of the live rows of an edge; the partial unique
\* index allows one.
LiveEdge(rows, s, rel, d) ==
  {i \in DOMAIN rows : /\ rows[i].src = s /\ rows[i].rel = rel /\ rows[i].dst = d
                       /\ IsLive(rows[i])}

\* _guard_contradictions: duplicate_of against distinct_from on the canonical
\* pair, and against its own reciprocal.
Contradicted(rel, s, d) ==
  LET pair == Orient("distinct_from", s, d) IN
  \/ /\ rel = "duplicate_of"
     /\ \/ LiveEdge(ledger, pair[1], "distinct_from", pair[2]) # {}
        \/ LiveEdge(ledger, d, "duplicate_of", s) # {}
  \/ /\ rel = "distinct_from"
     /\ \/ LiveEdge(ledger, s, "duplicate_of", d) # {}
        \/ LiveEdge(ledger, d, "duplicate_of", s) # {}

\* relate; a live edge is returned as it is, which is no step.
Relate(s, rel, d, who) ==
  LET edge == Orient(rel, s, d) IN
  /\ s # d /\ s \in cards /\ d \in cards
  /\ LiveEdge(ledger, edge[1], rel, edge[2]) = {}
  /\ ~Contradicted(rel, edge[1], edge[2])
  /\ Len(ledger) < MaxRows
  /\ ledger' = Append(ledger, [src |-> edge[1], rel |-> rel, dst |-> edge[2],
                               source |-> who, retracted_by |-> NoOne])
  /\ UNCHANGED cards

\* unrelate: the tombstone; endpoints are not asked for again.
Unrelate(s, rel, d, who) ==
  LET edge == Orient(rel, s, d) IN
  /\ \E i \in LiveEdge(ledger, edge[1], rel, edge[2]) :
       ledger' = [ledger EXCEPT ![i].retracted_by = who]
  /\ UNCHANGED cards

\* A finding or a requirement is added, by its own module.
AddCard(c) == c \notin cards /\ cards' = cards \cup {c} /\ UNCHANGED ledger

\* query_relations for one entity: its live edges, from either end.
RelationsOf(c) ==
  {ledger[i] : i \in {j \in DOMAIN ledger : IsLive(ledger[j]) /\ c \in {ledger[j].src, ledger[j].dst}}}

\* active_suppressions: the live distinct_from pairs, sorted again.
ActiveSuppressions ==
  {Orient("distinct_from", row.src, row.dst) :
     row \in {ledger[i] : i \in {j \in DOMAIN ledger : IsLive(ledger[j])
                                   /\ ledger[j].rel = "distinct_from"}}}

Init == cards = {} /\ ledger = <<>>

Next ==
  \/ \E s, d \in Ids, rel \in Rels, who \in Actors : Relate(s, rel, d, who) \/ Unrelate(s, rel, d, who)
  \/ \E c \in Ids : AddCard(c)

Spec == Init /\ [][Next]_vars

-----------------------------------------------------------------------------
(* Property. *)

(* Whatever was asserted and retracted in whatever order, from either end:   *)
(* no pair of cards is both a duplicate and suppressed as distinct, no two   *)
(* cards are each other's loser, no relation of a pair is asserted twice;    *)
(* and the two views agree, so that a pair suppressed in grouping shows in   *)
(* the relations of both its cards, and without a duplicate_of between them. *)
NoContradiction ==
  /\ \A i, j \in DOMAIN ledger :
       LET a == ledger[i] b == ledger[j] IN
       (i # j /\ IsLive(a) /\ IsLive(b) /\ {a.src, a.dst} = {b.src, b.dst} /\ a.rel = b.rel) =>
         a.rel = "split_from" /\ a.src = b.dst
  /\ \A pair \in ActiveSuppressions : \A end \in {1, 2} :
       /\ \E row \in RelationsOf(pair[end]) :
            row.rel = "distinct_from" /\ {row.src, row.dst} = {pair[1], pair[2]}
       /\ \A row \in RelationsOf(pair[end]) :
            row.rel = "duplicate_of" => {row.src, row.dst} # {pair[1], pair[2]}
=============================================================================
