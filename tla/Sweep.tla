------------------------------- MODULE Sweep -------------------------------
(***************************************************************************)
(* Sweeps: src/src/codebugs/sweep.py.  A sweep is a list of items worked   *)
(* off in batches, each item in a state of the sweep's lifecycle; an item  *)
(* seen again is counted, not added, and archiving hides it until then.    *)
(*                                                                         *)
(* Sweeps share nothing, so the module has one.  Each call is one db.txn   *)
(* and one step; a call that raises is none.  Tags, times and texts are    *)
(* left out: archive_items by age or state archives some set of items.     *)
(***************************************************************************)
EXTENDS Naturals, Sequences, SequencesExt

CONSTANTS
  Items,        \* what a sweep may hold
  States,       \* the names of states
  NoItem,       \* no row of codesweep_items
  NoDag,        \* transitions is NULL
  NoLife,       \* no row of codesweep_sweeps
  Lifecycles,   \* the lifecycles callers declare
  Batches,      \* the lists of items callers add
  MaxCount      \* bound: recurrences of an item

VARIABLES
  sweep,        \* the sweep's status; absent before it is created
  life,         \* its lifecycle, terminal states and transitions
  rows          \* codesweep_items

sweepVars == <<sweep, life, rows>>

\* next is the transition relation declared, which defaults to everything.
Lifecycle == [states : Seq(States), terminal : Seq(States),
              next : [States -> SUBSET States] \cup {NoDag}]

ASSUME SweepAssumption ==
  /\ Lifecycles \subseteq Lifecycle
  /\ NoDag \notin [States -> SUBSET States]
  /\ Batches \subseteq Seq(Items)
  /\ MaxCount \in Nat

Row == [state : States, processed : BOOLEAN, count : 1 .. MaxCount, archived : BOOLEAN,
        position : Nat]

ASSUME NullAssumption == NoItem \notin Row /\ NoLife \notin Lifecycle

Held == {i \in Items : rows[i] # NoItem}
Finished(s) == s \in ToSet(life.terminal)

SweepTypeOK ==
  /\ sweep \in {"absent", "active", "archived"}
  /\ life \in Lifecycles \cup {NoLife}
  /\ life = NoLife <=> sweep = "absent"
  /\ rows \in [Items -> Row \cup {NoItem}]
  /\ \A i \in Held : rows[i].state \in ToSet(life.states)

SweepInit ==
  /\ sweep = "absent"
  /\ life = NoLife
  /\ rows = [i \in Items |-> NoItem]

-----------------------------------------------------------------------------

\* The checks of create_sweep.
Declared(l) ==
  /\ l.states # <<>> /\ IsInjective(l.states)
  /\ ToSet(l.terminal) \subseteq ToSet(l.states)
  /\ l.next # NoDag => \A s \in States :
       l.next[s] # {} => s \in ToSet(l.states) /\ l.next[s] \subseteq ToSet(l.states)

\* create_sweep.
CreateSweep(l) ==
  /\ sweep = "absent" /\ Declared(l)
  /\ sweep' = "active" /\ life' = l
  /\ UNCHANGED rows

\* Mutant: archived items are not counted.
FirstFree(rs) ==
  LET p == {rs[i].position : i \in {j \in Items : rs[j] # NoItem /\ ~rs[j].archived}}
  IN CHOOSE n \in 0 .. Len(SetToSeq(Items)) : \A m \in p : m < n

\* _next_position, before the batch and after each insertion of it.
NextPosition(rs) ==
  LET p == {rs[i].position : i \in {j \in Items : rs[j] # NoItem}}
  IN IF p = {} THEN 0 ELSE 1 + CHOOSE n \in p : \A m \in p : m <= n

NewRow(at) ==
  [state |-> Head(life.states), processed |-> FALSE, count |-> 1, archived |-> FALSE,
   position |-> at]

\* Mutant: an item seen again starts over.
Restarted(row) == [row EXCEPT !.count = @ + 1, !.archived = FALSE, !.state = Head(life.states)]

\* The ON CONFLICT half of the upsert: counted and un-archived, state kept.
SeenAgain(row) == [row EXCEPT !.count = @ + 1, !.archived = FALSE]

Upsert(rs, i) ==
  [rs EXCEPT ![i] = IF @ = NoItem THEN NewRow(NextPosition(rs)) ELSE SeenAgain(@)]

\* The rows after each upsert of the batch, in its order.
Upserts(batch) ==
  LET after[k \in 0 .. Len(batch)] ==
        IF k = 0 THEN rows ELSE Upsert(after[k - 1], batch[k])
  IN after

\* add_items.
AddItems(batch) ==
  /\ sweep = "active"
  /\ Len(batch) <= MaxCount
  /\ \A i \in Held \cap ToSet(batch) : rows[i].count + Len(batch) <= MaxCount
  /\ rows' = Upserts(batch)[Len(batch)]
  /\ UNCHANGED <<sweep, life>>

\* Mutant: the legacy mode trusts its target.
AnyState(s) == TRUE

\* mark_items takes a state of the lifecycle; the legacy modes name one: the
\* first terminal state, or the first of the others.
Target(s) == s \in ToSet(life.states)

\* _validate_transition; a transition from a state to itself is none.
Successors(s) == IF life.next = NoDag THEN States ELSE life.next[s]
Allowed(s, t) == s = t \/ t \in Successors(s)

\* Mutant: an item is never taken back to the unprocessed ones.
MarkedDone(row, s) == [row EXCEPT !.state = s, !.processed = @ \/ Finished(s)]

Marked(row, s) == [row EXCEPT !.state = s, !.processed = Finished(s)]

\* mark_items: every item of the batch, or the call raises.  The sweep may be
\* archived.
MarkItems(batch, s) ==
  /\ sweep # "absent" /\ Target(s)
  /\ \A i \in batch : rows[i] # NoItem /\ ~rows[i].archived /\ Allowed(rows[i].state, s)
  /\ rows' = [i \in Items |-> IF i \in batch THEN Marked(rows[i], s) ELSE rows[i]]
  /\ UNCHANGED <<sweep, life>>

\* archive_items.
ArchiveItems(batch) ==
  /\ sweep # "absent" /\ batch \subseteq Held
  /\ rows' = [i \in Items |-> IF i \in batch THEN [rows[i] EXCEPT !.archived = TRUE] ELSE rows[i]]
  /\ UNCHANGED <<sweep, life>>

\* archive_sweep.
ArchiveSweep ==
  /\ sweep = "active"
  /\ sweep' = "archived"
  /\ UNCHANGED <<life, rows>>

SweepNext ==
  \/ \E l \in Lifecycles : CreateSweep(l)
  \/ \E batch \in Batches : AddItems(batch)
  \/ \E batch \in SUBSET Items :
       \/ \E s \in States : MarkItems(batch, s)
       \/ ArchiveItems(batch)
  \/ ArchiveSweep

SweepSpec == SweepInit /\ [][SweepNext]_sweepVars

-----------------------------------------------------------------------------
(* Properties. *)

\* What next_batch chooses from.
Offered == {i \in Held : ~rows[i].processed /\ ~rows[i].archived}

\* What next_batch's docstring says: its items are those in a state that is not
\* terminal.  The flag it reads is a copy of the state, kept by add_items and
\* mark_items through re-detections, archivings and moves back.  It does not hold
\* of a lifecycle that starts in a terminal state, which create_sweep accepts:
\* add_items inserts its items as unprocessed.
OfferedIsUnfinished ==
  sweep # "absent" /\ ~Finished(Head(life.states)) =>
    Offered = {i \in Held : ~rows[i].archived /\ ~Finished(rows[i].state)}

\* An item moves along the declared transitions only: re-detecting or archiving
\* it is no way round them.
TransitionsHold ==
  [][\A i \in Held : rows'[i] # NoItem /\ Allowed(rows[i].state, rows'[i].state)]_sweepVars

\* Items come in the order they were first added, for ever: no two share a
\* position, none changes it, and a new one goes behind all the others, the
\* archived ones included, which may come back.
OrderIsStable ==
  [][/\ \A i \in Held : rows'[i].position = rows[i].position
     /\ \A i, j \in Items : rows'[i] # NoItem /\ rows'[j] # NoItem /\ i # j
          => /\ rows'[i].position # rows'[j].position
             /\ i \in Held /\ j \notin Held => rows'[i].position < rows'[j].position]_sweepVars
=============================================================================
