------------------------------ MODULE Grouping ------------------------------
(***************************************************************************)
(* Which cards belong together: the two graphs of                          *)
(* src/src/codebugs/grouping.py.  citation_report joins the cards that     *)
(* cite each other, except through a card with too many neighbours (a hub) *)
(* and where a distinct_from says no; filing_report joins the cards that   *)
(* were split off one another and lays them out from their roots.          *)
(*                                                                         *)
(* A report reads its rows first and then takes its edges one by one into  *)
(* a union-find.  The order of the edges is that of the rows' texts, any   *)
(* order here.                                                             *)
(***************************************************************************)
EXTENDS Naturals, FiniteSets, Sequences, FiniteSetsExt

CONSTANTS
  Cards,       \* ids as numbers: the order of the strings
  HubDegrees,  \* hub_degree; no limit is a number no degree exceeds
  Populations, \* what the filters may leave of the cards
  MaxDeclared, \* bound: distinct_from declarations
  MaxLinks     \* bound: edges of a graph

GroupingAssumption ==
  IsFiniteSet(Cards) /\ Cards \subseteq Nat /\ Populations \subseteq SUBSET Cards

VARIABLES
  report,      \* which of the two
  links,       \* citations between cards of the population, each pair once and
               \* in order; or from parent to child
  declared,    \* active_suppressions: pairs in order
  hub,         \* the hub_degree asked for
  population,  \* filing_report: the cards the filters leave; citations are only
               \* looked at between such cards
  todo, parent, suppressed

vars == <<report, links, declared, hub, population, todo, parent, suppressed>>

Pairs == {pair \in Cards \X Cards : pair[1] # pair[2]}
Ordered == {pair \in Pairs : pair[1] < pair[2]}

\* Parents of cards.
Forests == [Cards -> Cards]

TypeOK ==
  /\ report \in {"citations", "filing"}
  /\ links \subseteq (IF report = "citations" THEN Ordered ELSE Pairs)
  /\ declared \subseteq Ordered /\ hub \in HubDegrees \cup {0} /\ population \subseteq Cards
  /\ todo \subseteq links /\ suppressed \subseteq links
  /\ parent \in Forests

-----------------------------------------------------------------------------
(* DSU. *)

\* find: the root, with each node on the way moved up to its grandparent.
Find[at \in Forests \X Cards] ==
  LET up == at[1]
      x == at[2] IN
  IF up[x] = x THEN [root |-> x, up |-> up]
  ELSE Find[<<[up EXCEPT ![x] = up[up[x]]], up[up[x]]>>]

\* Mutant: the card itself is moved, not its root.
Grafts(up, a, b) == [up EXCEPT ![a] = Find[<<up, b>>].root]

Union(up, a, b) ==
  LET first == Find[<<up, a>>]
      second == Find[<<first.up, b>>] IN
  IF first.root = second.root THEN second.up
  ELSE [second.up EXCEPT ![first.root] = second.root]

RootOf(c) == Find[<<parent, c>>].root

-----------------------------------------------------------------------------
(* citation_report. *)

Degree(c) == Cardinality({pair \in links : c \in {pair[1], pair[2]}})

Hubs == IF report = "citations" THEN {c \in Cards : Degree(c) > hub} ELSE {}

\* A declaration is looked at before the hubs are, so that it is reported.
TakeCitation(pair) ==
  /\ report = "citations" /\ pair \in todo
  /\ IF pair \in declared
     THEN suppressed' = suppressed \cup {pair} /\ UNCHANGED parent
     ELSE /\ parent' = IF {pair[1], pair[2]} \cap Hubs # {} THEN parent
                       ELSE Union(parent, pair[1], pair[2])
          /\ UNCHANGED suppressed
  /\ todo' = todo \ {pair}
  /\ UNCHANGED <<report, links, declared, hub, population>>

\* Components of more than one card; filing_report leaves out those that miss
\* the population.
Components ==
  {ids \in {{d \in Cards : RootOf(d) = RootOf(c)} : c \in Cards} :
     /\ Cardinality(ids) > 1
     /\ report = "filing" => ids \cap population # {}}

\* The suppressed edges whose ends are in one component all the same.
StillGrouped == {pair \in suppressed : RootOf(pair[1]) = RootOf(pair[2])}

HubNeighbours(ids) ==
  {c \in Hubs : \E d \in ids : <<c, d>> \in links \/ <<d, c>> \in links}

-----------------------------------------------------------------------------
(* filing_report. *)

TakeLink(pair) ==
  /\ report = "filing" /\ pair \in todo
  /\ parent' = Union(parent, pair[1], pair[2])
  /\ todo' = todo \ {pair}
  /\ UNCHANGED <<report, links, declared, hub, population, suppressed>>

Roots(ids) == {c \in ids : \A d \in Cards : <<d, c>> \notin links}

\* The search from the roots, a level at a time; it visits no card twice.
Searches == [level : SUBSET Cards, n : Nat, visited : SUBSET Cards, depth : [Cards -> Nat]]
Search[at \in Searches] ==
  LET next == {c \in Cards \ at.visited : \E d \in at.level : <<d, c>> \in links} IN
  IF next = {} THEN at
  ELSE Search[[level |-> next, n |-> at.n + 1, visited |-> at.visited \cup next,
               depth |-> [c \in Cards |-> IF c \in next THEN at.n + 1 ELSE at.depth[c]]]]

\* A card that no root leads to is shown at depth 0 and makes the lineage cyclic.
Searched(ids) ==
  Search[[level |-> Roots(ids), n |-> 0, visited |-> Roots(ids), depth |-> [c \in Cards |-> 0]]]
Orphaned(ids) == ids \ Searched(ids).visited
Shown(ids, c) == Searched(ids).depth[c]

-----------------------------------------------------------------------------

Graphs(pairs) == UNION {kSubset(n, pairs) : n \in 0..MaxLinks}

Init ==
  /\ population \in Populations
  /\ \/ /\ report = "citations"
        /\ links \in Graphs({pair \in Ordered : {pair[1], pair[2]} \subseteq population})
        /\ declared \in UNION {kSubset(n, Ordered) : n \in 0..MaxDeclared}
        /\ hub \in HubDegrees
     \/ /\ report = "filing"
        /\ links \in Graphs(Pairs)
        /\ declared = {} /\ hub = 0
  /\ todo = links /\ parent = [c \in Cards |-> c] /\ suppressed = {}

Next == \E pair \in todo : TakeCitation(pair) \/ TakeLink(pair)

Spec == Init /\ [][Next]_vars

-----------------------------------------------------------------------------
(* Property. *)

\* Reference: what connects, and what is connected.
Connects(pair) == pair \notin declared /\ {pair[1], pair[2]} \cap Hubs = {}
Closed(ids) == \A pair \in links : Connects(pair) => (pair[1] \in ids <=> pair[2] \in ids)
Together(c, d) == \A ids \in SUBSET Cards : Closed(ids) /\ c \in ids => d \in ids

\* Reference: the cards on a cycle of links.
OnCycle(c) ==
  \A ids \in SUBSET Cards :
    (\A pair \in links : (pair[1] \in ids \cup {c} => pair[2] \in ids)) => c \in ids

(* In whatever order the edges are taken: the components are the connected   *)
(* parts of what may connect, no hub is in one, a declaration that an edge   *)
(* of the graph contradicts is reported, hub or not, and is reported as      *)
(* defeated exactly when another way round joins its cards.                  *)
(* A lineage is laid out completely: a root at 0, and below it no card       *)
(* deeper than one below any of its parents; and one called cyclic has a     *)
(* cycle of links in it (the converse is not so: a cycle that a root leads   *)
(* to is not noticed).                                                       *)
ReportIsTrue ==
  todo = {} =>
    /\ \A c, d \in Cards : RootOf(c) = RootOf(d) <=> Together(c, d)
    /\ suppressed = links \cap declared
    /\ \A pair \in suppressed : pair \in StillGrouped <=> Together(pair[1], pair[2])
    /\ \A ids \in Components :
         /\ ids \cap Hubs = {} /\ HubNeighbours(ids) \cap ids = {}
         /\ report = "filing" =>
              /\ Orphaned(ids) # {} => \E c \in ids : OnCycle(c)
              /\ \A pair \in links : pair[1] \in ids \ Orphaned(ids) =>
                   /\ pair[2] \notin Orphaned(ids)
                   /\ Shown(ids, pair[2]) <= Shown(ids, pair[1]) + 1
              /\ \A c \in ids : Shown(ids, c) > 0 =>
                   \E d \in ids : <<d, c>> \in links /\ Shown(ids, d) = Shown(ids, c) - 1
=============================================================================
