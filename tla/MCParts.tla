------------------------------ MODULE MCParts ------------------------------
(* The parts for TLC. *)
EXTENDS Parts, TLC

CONSTANTS top, repo, wt, k1, k2, lineA, lineB, brace, reader

-----------------------------------------------------------------------------
(* Discovery: a linked worktree inside its main checkout, which is inside a  *)
(* top that is no repository.                                                *)

ParentOf == (top :> top) @@ (repo :> top) @@ (wt :> repo)
MainOf == (top :> NoDir) @@ (repo :> NoDir) @@ (wt :> repo)

-----------------------------------------------------------------------------
(* Anchors: a line that occurs twice, one too short to search for; places    *)
(* named by one key, by two that disagree, in two files, past the end.       *)

Files == {<<lineA, lineB, lineA>>, <<lineA, brace, lineB>>}

Site(path, line, end) == [path |-> path, line |-> line, end |-> end]
Meta(line, lines, sites) == ("line" :> line) @@ ("lines" :> lines) @@ ("sites" :> sites)
Spellings ==
  {Meta(<<>>, <<>>, <<>>),
   Meta(<<>>, <<Site("none", 2, 3)>>, <<>>),
   Meta(<<Site("none", 3, 3)>>, <<Site("none", 1, 1)>>, <<>>),
   Meta(<<>>, <<>>, <<Site("other", 1, 1), Site("none", 2, 2), Site("recorded", 1, 9)>>),
   Meta(<<>>, <<Site("none", 9, 9)>>, <<>>)}

-----------------------------------------------------------------------------
(* Provenance: observations without a commit, at the first one, at a later   *)
(* one, which the repository may not have yet; a file that changes, moves,   *)
(* is deleted, becomes a directory.                                          *)

Observed == {<<0>>, <<1>>, <<1, 2, 0>>}
Contents ==
  {[here |-> "x", there |-> "absent"], [here |-> "y", there |-> "absent"],
   [here |-> "absent", there |-> "x"], [here |-> "tree", there |-> "absent"]}

-----------------------------------------------------------------------------
(* Bench: two writers and a reader; a payload with a blank that may be       *)
(* imported, and three that may not: a repeated metric, objects that differ, *)
(* a repeated row.  One id that callers ask for is spelled be.               *)

AllClients == Writers \cup {reader}
Load(from, header, rows) == [from |-> from, header |-> header, rows |-> rows]
Row(label, is) == [label |-> label, is |-> ("m" :> is)]
Loads ==
  {Load("csv", <<"m">>, <<Row("p", "number"), Row("q", "blank")>>),
   Load("csv", <<"m", "m">>, <<Row("p", "number")>>),
   Load("json", <<"m">>, <<Row("p", "number"),
                           [label |-> "q", is |-> ("m" :> "number") @@ ("k" :> "number")]>>),
   Load("csv", <<"m">>, <<Row("p", "number"), Row("p", "number")>>)}
Spelled == {[form |-> "be", n |-> 1]}

-----------------------------------------------------------------------------
(* Trailers: commits that resolve, or tighten and resolve, one card.         *)
(* Grouping: four cards, and two of them.                                    *)

Texts == {<<<<"resolves", 1>>>>, <<<<"tightens", 1>>, <<"resolves", 1>>>>}
Four == 1..4
Filters == {Four, {2, 3}}

-----------------------------------------------------------------------------

\* Fewer beginnings: the top is no repository and has nothing odd at the paths of
\* a tracker, and what nobody can ask about differs by nothing else.
Narrowed ==
  /\ part = "discovery" => "other" \notin {tracker[top], base[top]} /\ git[top] = "absent"
  /\ part = "provenance" /\ scope = "outside" => history[1].here = "x"

MCInit == Init /\ Narrowed
MCSpec == MCInit /\ [][Next]_vars
=============================================================================
