------------------------------ MODULE Blockers ------------------------------
(***************************************************************************)
(* Blockers: src/src/codebugs/blockers.py, with the report that the update *)
(* tools of findings.py and reqs.py make of the items they unblocked.      *)
(*                                                                         *)
(* A blocker defers an item until another entity is finished, a date has   *)
(* passed, or somebody resolves it.  Whether it holds is computed from the *)
(* row, the entities and the clock every time it is read.                  *)
(*                                                                         *)
(* Callers are connections of one process each.  resolve_blocker reads and *)
(* writes in one db.txn, which any other writer waits for.  add_blocker    *)
(* looks for a duplicate and inserts in no transaction.  The report of an  *)
(* update follows its commit, one query at a time, in no transaction.  A   *)
(* call that raises changes nothing and is no step.                        *)
(***************************************************************************)
EXTENDS Entities, Naturals, Sequences, FiniteSets

CONSTANTS
  Callers,
  NoEntity,      \* a NULL blocked_by
  Requests,      \* the blockers callers add
  InputStatus,   \* the statuses callers write
  MaxBlocks,     \* bound: rows of blockers
  MaxNow         \* bound: the last moment of the clock

VARIABLES
  blocks,        \* the rows of blockers, by id
  now,           \* the clock
  call,          \* what each caller is in the middle of
  owed           \* history: the items a call unblocked and no call has reported

vars == <<status, blocks, now, call, owed>>

Trigger == {"entity_resolved", "date", "manual"}

\* at is trigger_at, normalized; 0 is NULL.
Request == [item : Entities, by : Entities \cup {NoEntity}, type : Trigger, at : 0 .. MaxNow]

ASSUME BlockersAssumption ==
  /\ Cards \cap Reqs = {}
  /\ NoEntity \notin Entities
  /\ Requests \subseteq Request
  /\ MaxBlocks \in Nat /\ MaxNow \in Nat

Row == [req : Request, resolved : BOOLEAN, cancelled : BOOLEAN]
Ids == DOMAIN blocks

Idle == [op |-> "idle"]
Adding(r) == [op |-> "add", req |-> r]
Resolving(b, as) == [op |-> "resolve", id |-> b, as |-> as]

\* The status of e is committed and the report on it is still to come.
Updated(e) == [op |-> "updated", of |-> e]

\* The report on e: the items it still has to look at, and the one it is
\* looking at, with the rows it fetched for it and how many of them hold.
Telling(e, items, item, todo, held) ==
  [op |-> "tell", of |-> e, items |-> items, item |-> item, todo |-> todo, held |-> held]

-----------------------------------------------------------------------------
(* Computed state. *)

\* EntityRef.is_resolved.
IsResolved(st, e) == st[e] \in Terminal(e)

\* Mutant: the day itself, instead of every moment from it on.
OnTheDay(row, t) == row.req.at = t

DateDue(row, t) == row.req.at <= t

\* is_blocker_satisfied of a row that is not cancelled.
Satisfied(row, st, t) ==
  CASE row.req.type = "entity_resolved" -> IsResolved(st, row.req.by)
    [] row.req.type = "date"            -> DateDue(row, t)
    [] row.req.type = "manual"          -> row.resolved

\* _evaluate_blocker's is_active.
IsActive(row, st, t) == ~row.cancelled /\ ~Satisfied(row, st, t)

Active(bs, st, t, x) == {b \in DOMAIN bs : bs[b].req.item = x /\ IsActive(bs[b], st, t)}

\* The deferred entities.
Deferred(bs, st, t) == {x \in Entities : Active(bs, st, t, x) # {}}

TypeOK ==
  /\ \A e \in Entities : status[e] \in Statuses(e) \cup {"absent"}
  /\ blocks \in Seq(Row) /\ Len(blocks) <= MaxBlocks
  /\ \A b \in Ids : LET r == blocks[b].req IN
       /\ Exists(r.item) /\ r.item # r.by
       /\ r.by # NoEntity => Exists(r.by)
       /\ r.type = "entity_resolved" => r.by # NoEntity
       /\ r.type = "date" => r.at # 0
       /\ blocks[b].resolved => r.type = "manual"
  /\ now \in 0 .. MaxNow
  /\ \A c \in Callers : call[c].op \in {"idle", "add", "resolve", "updated", "tell"}
  /\ owed \subseteq Entities

Init ==
  /\ status = [e \in Entities |-> "absent"]
  /\ blocks = <<>>
  /\ now = 0
  /\ call = [c \in Callers |-> Idle]
  /\ owed = {}

\* The bookkeeping of owed for a step that reported the items in told: an item
\* the step unblocked is owed a report until it is deferred again.
Unblocks(told) ==
  LET before == Deferred(blocks, status, now)
      after == Deferred(blocks', status', now') IN
  owed' = ((owed \cup before) \ after) \ told

\* The same for a step that owes nobody a report.
KeepsQuiet == owed' = owed \ Deferred(blocks', status', now')

-----------------------------------------------------------------------------
(* Callers. *)

\* Mutant: the transaction is opened at the first write, not at the first read.
NeverLocked == TRUE

\* Nobody is between the read and the write of resolve_blocker.
CanWrite == \A c \in Callers : call[c].op # "resolve"

\* Mutant: an item may wait for itself.
SelfAllowed(r) == Exists(r.item) /\ (r.by # NoEntity => Exists(r.by))

\* The arguments of add_blocker, with the trigger type already defaulted.
Valid(r) ==
  /\ Exists(r.item)
  /\ r.by # NoEntity => Exists(r.by) /\ r.item # r.by
  /\ r.type = "entity_resolved" => r.by # NoEntity
  /\ r.type = "date" => r.at # 0

\* A row add_blocker takes for the same blocker.
Duplicate(row, r) ==
  /\ row.req.item = r.item /\ row.req.type = r.type /\ ~row.cancelled
  /\ \/ r.type = "entity_resolved" /\ row.req.by = r.by
     \/ r.type = "date" /\ row.req.at = r.at

AddCheck(c, r) ==
  /\ call[c] = Idle
  /\ Len(blocks) < MaxBlocks
  /\ Valid(r) /\ \A b \in Ids : ~Duplicate(blocks[b], r)
  /\ call' = [call EXCEPT ![c] = Adding(r)]
  /\ UNCHANGED <<status, blocks, now, owed>>

AddWrite(c) ==
  /\ call[c].op = "add" /\ CanWrite
  /\ Len(blocks) < MaxBlocks
  /\ blocks' = Append(blocks, [req |-> call[c].req, resolved |-> FALSE, cancelled |-> FALSE])
  /\ call' = [call EXCEPT ![c] = Idle]
  /\ UNCHANGED <<status, now>>
  /\ KeepsQuiet

\* resolve_blocker reads the row and decides.
ResolveRead(c, b, as) ==
  /\ call[c] = Idle /\ CanWrite
  /\ ~blocks[b].cancelled
  /\ as = "resolve" => blocks[b].req.type = "manual" /\ ~blocks[b].resolved
  /\ call' = [call EXCEPT ![c] = Resolving(b, as)]
  /\ UNCHANGED <<status, blocks, now, owed>>

\* It writes, counts what still holds the item, and commits.
ResolveWrite(c) ==
  /\ call[c].op = "resolve"
  /\ LET b == call[c].id
         x == blocks[b].req.item IN
     /\ blocks' = IF call[c].as = "cancel" THEN [blocks EXCEPT ![b].cancelled = TRUE]
                                           ELSE [blocks EXCEPT ![b].resolved = TRUE]
     /\ call' = [call EXCEPT ![c] = Idle]
     /\ UNCHANGED <<status, now>>
     /\ Unblocks(IF Active(blocks', status, now, x) \ {b} = {} THEN {x} ELSE {})

\* The update tools: the status is committed, the report is still to come.
UpdateStatus(c, e, new) ==
  /\ call[c] = Idle /\ CanWrite
  /\ Exists(e)
  /\ status' = [status EXCEPT ![e] = new]
  /\ call' = [call EXCEPT ![c] = Updated(e)]
  /\ UNCHANGED <<blocks, now>>
  /\ Unblocks({})

\* Mutant: only the blockers that still hold are asked whom they block.
ActiveDependents(e) ==
  {blocks[b].req.item : b \in {i \in Ids : blocks[i].req.by = e /\ IsActive(blocks[i], status, now)}}

\* The items of the blockers on e that are not cancelled.
Dependents(e) == {blocks[b].req.item : b \in {i \in Ids : blocks[i].req.by = e /\ ~blocks[i].cancelled}}

\* The report starts if e is (still) finished: get_unblocked_by's first query.
TellStart(c) ==
  LET e == call[c].of IN
  /\ call[c].op = "updated"
  /\ call' = [call EXCEPT ![c] =
       IF IsResolved(status, e) THEN Telling(e, Dependents(e), NoEntity, {}, 0) ELSE Idle]
  /\ UNCHANGED <<status, blocks, now, owed>>

\* The next item: all its rows that are not cancelled, as they are now.
TellItem(c, x) ==
  /\ call[c].op = "tell" /\ call[c].item = NoEntity /\ x \in call[c].items
  /\ call' = [call EXCEPT ![c] =
       Telling(call[c].of, call[c].items \ {x}, x,
               {<<b, blocks[b]>> : b \in {i \in Ids : blocks[i].req.item = x /\ ~blocks[i].cancelled}}, 0)]
  /\ UNCHANGED <<status, blocks, now, owed>>

\* The next row, in the order of the ids, against the entities as they are now.
TellRow(c) ==
  /\ call[c].op = "tell" /\ call[c].item # NoEntity /\ call[c].todo # {}
  /\ LET first == CHOOSE p \in call[c].todo : \A q \in call[c].todo : p[1] <= q[1] IN
     call' = [call EXCEPT ![c] =
       Telling(call[c].of, call[c].items, call[c].item, call[c].todo \ {first},
               call[c].held + IF IsActive(first[2], status, now) THEN 1 ELSE 0)]
  /\ UNCHANGED <<status, blocks, now, owed>>

\* The entry of the item in unblocked_items: all_blockers_satisfied or not.
TellDone(c) ==
  /\ call[c].op = "tell" /\ call[c].item # NoEntity /\ call[c].todo = {}
  /\ call' = [call EXCEPT ![c] = Telling(call[c].of, call[c].items, NoEntity, {}, 0)]
  /\ owed' = IF call[c].held = 0 THEN owed \ {call[c].item} ELSE owed
  /\ UNCHANGED <<status, blocks, now>>

TellEnd(c) ==
  /\ call[c].op = "tell" /\ call[c].item = NoEntity /\ call[c].items = {}
  /\ call' = [call EXCEPT ![c] = Idle]
  /\ UNCHANGED <<status, blocks, now, owed>>

\* Writers that report nothing: new entities, the importers, claims.
SilentStatus(e, new) ==
  /\ CanWrite
  /\ new # status[e]
  /\ \/ e \in Reqs
     \/ ~Exists(e)
     \/ new = "in_progress" \/ status[e] = "in_progress"
  /\ status' = [status EXCEPT ![e] = new]
  /\ UNCHANGED <<blocks, now, call>>
  /\ KeepsQuiet

Tick ==
  /\ now < MaxNow
  /\ now' = now + 1
  /\ UNCHANGED <<status, blocks, call>>
  /\ KeepsQuiet

Next ==
  \/ \E c \in Callers :
       \/ \E r \in Requests : AddCheck(c, r)
       \/ AddWrite(c)
       \/ \E b \in Ids, as \in {"cancel", "resolve"} : ResolveRead(c, b, as)
       \/ ResolveWrite(c)
       \/ \E e \in Entities : \E new \in InputStatus \cap Statuses(e) : UpdateStatus(c, e, new)
       \/ TellStart(c)
       \/ \E x \in Entities : TellItem(c, x)
       \/ TellRow(c)
       \/ TellDone(c)
       \/ TellEnd(c)
  \/ \E e \in Entities : \E new \in InputStatus \cap Statuses(e) : SilentStatus(e, new)
  \/ Tick

Spec == Init /\ [][Next]_vars

-----------------------------------------------------------------------------
(* Properties. *)

\* resolve_blocker (CB-24): whatever two callers do at once, no call cancels or
\* resolves a blocker that is cancelled by then, and none resolves it twice.
\* (A resolved one may still be cancelled: see ResolvedOrCancelled.)
CancelIsFinal ==
  [][\A c \in Callers : ResolveWrite(c) =>
       LET row == blocks[call[c].id] IN
       ~row.cancelled /\ (call[c].as = "resolve" => ~row.resolved)]_vars

\* What came true of a blocker stays true, except that its dependency may be
\* reopened: a date does not un-pass, a resolution or a cancellation is final.
OnlyReopeningReverts ==
  [][\A b \in Ids :
       ~IsActive(blocks[b], status, now) /\ IsActive(blocks'[b], status', now') =>
         /\ blocks[b].req.type = "entity_resolved"
         /\ IsResolved(status, blocks[b].req.by) /\ ~IsResolved(status', blocks[b].req.by)]_vars

\* No unblocking is lost: when the last blockers of an item fall to calls made
\* at the same time, each of which may still see the other's, some call tells
\* its caller that the item is free, unless it has been deferred again.
UnblockingIsTold == (\A c \in Callers : call[c] = Idle) => owed = {}

\* The docstring of resolve_blocker: cancelled and resolved at once is "a state
\* no serial ordering permits"; the design document: a blocker that is already
\* cancelled or resolved is rejected.  The code refuses the second call only if
\* the first one cancelled.
ResolvedOrCancelled == \A b \in Ids : ~(blocks[b].resolved /\ blocks[b].cancelled)

\* The design document: duplicate active blockers are rejected.
NoDuplicates == \A b \in Ids : \A d \in Ids \ {b} : ~Duplicate(blocks[b], blocks[d].req)
                                                   \/ blocks[d].cancelled

=============================================================================
