----------------------------- MODULE Milestones -----------------------------
(***************************************************************************)
(* Milestones: src/src/codebugs/milestones/.  Findings, requirements and   *)
(* external references are attached to milestones: standing streams, and   *)
(* releases that ship.  Agents pull attachments to work on and hold one    *)
(* capacity slot for each, on a ledger kept beside the attachments.        *)
(*                                                                         *)
(* An attachment is a projection of its source.  A status written through  *)
(* update_finding or update_requirement runs two hooks in the same         *)
(* transaction, which close and reopen the source's attachments.  Claims,  *)
(* importers and restores write the status without running them.           *)
(*                                                                         *)
(* Every call is one db.txn and one step; one that raises or changes       *)
(* nothing is no step.  An attachment is its place in items, its id: rows  *)
(* are never deleted.  Left out: priorities and dates inside a bucket of   *)
(* the pull queue (any eligible attachment of the first bucket that has    *)
(* one may be pulled), acceptance texts (no large attachment lacks one),   *)
(* the audit table, and new milestones.                                    *)
(***************************************************************************)
EXTENDS Entities, Integers, Sequences, FiniteSets

CONSTANTS
  Free,          \* references to nothing in the tracker
  Agents,
  NoAgent,       \* a NULL assigned_agent
  Streams,       \* the milestones of kind stream
  Releases,      \* the milestones of kind release
  InputStatus,   \* the source statuses callers write
  InputKinds,    \* the attachment kinds callers name
  InputSizes,    \* the sizes callers name
  InputStates,   \* the states callers of milestone_update name
  Blockable,     \* the references blockers are put on
  Branched,      \* the references worktrees are made for
  MaxHeld,       \* the capacity of each size every agent names
  MaxItems       \* bound: attachments

VARIABLES
  items,         \* milestone_items, by id
  held,          \* agent_capacity
  state,         \* the state column of milestones
  blocked        \* the references with an active blocker

vars == <<status, items, held, state, blocked>>

Milestones == Streams \cup Releases
Refs == Entities \cup Free
Kinds == {"bug", "requirement", "external"}
Sizes == {"large", "small", "triage"}
ItemStatus == {"open", "in_progress", "done", "deferred", "dismissed"}
States == {"open", "closing", "shipped", "archived"}

ASSUME MilestonesAssumption ==
  /\ Cards \cap Reqs = {} /\ Free \cap Entities = {}
  /\ Streams \cap Releases = {}
  /\ {"stream/triage", "stream/maintenance"} \subseteq Streams
  /\ NoAgent \notin Agents
  /\ InputKinds \subseteq Kinds /\ InputSizes \subseteq Sizes /\ InputStates \subseteq States
  /\ Blockable \subseteq Refs /\ Branched \subseteq Refs
  /\ MaxHeld \in Nat /\ MaxItems \in Nat

\* linked: the attachment names requirements and all of them exist.
Item == [at : Milestones, kind : Kinds, ref : Refs, size : Sizes, status : ItemStatus,
         agent : Agents \cup {NoAgent}, branch_only : BOOLEAN, linked : BOOLEAN]

Ids == DOMAIN items

\* One attachment for each milestone, kind and reference.
Attached(m, k, r) == \E i \in Ids : items[i].at = m /\ items[i].kind = k /\ items[i].ref = r

TypeOK ==
  /\ items \in Seq(Item) /\ Len(items) <= MaxItems
  /\ held \in [Agents -> [Sizes -> Nat]]
  /\ state \in [Milestones -> States]
  /\ blocked \subseteq Blockable
  /\ \A e \in Entities : status[e] \in Statuses(e) \cup {"absent"}
  /\ \A i, j \in Ids :
       items[i].at = items[j].at /\ items[i].kind = items[j].kind /\ items[i].ref = items[j].ref
       => i = j

Init ==
  /\ status = [e \in Entities |-> "absent"]
  /\ items = <<>>
  /\ held = [a \in Agents |-> [s \in Sizes |-> 0]]
  /\ state = [m \in Milestones |-> "open"]
  /\ blocked = {}

-----------------------------------------------------------------------------
(* Lookups and the ledger. *)

\* _get_item_row_by_ref: the newest attachment of a reference, of any kind and
\* in any milestone.
Newest(r, i) == i \in Ids /\ items[i].ref = r /\ \A j \in Ids : items[j].ref = r => j <= i

\* The kind under which an attachment projects entity e.
KindOf(e) == IF e \in Cards THEN "bug" ELSE "requirement"
Projects(i, e) == items[i].kind = KindOf(e) /\ items[i].ref = e

\* Mutant: the counter has no floor.
TakeAll(n, k) == n - k

\* k times MAX(n - 1, 0).
Less(n, k) == IF n > k THEN n - k ELSE 0

\* The ledger after the slots of the attachments in rows are released.
Freed(rows) ==
  [a \in Agents |-> [s \in Sizes |->
     Less(held[a][s], Cardinality({i \in rows : items[i].agent = a /\ items[i].size = s}))]]

-----------------------------------------------------------------------------
(* The source and its two hooks. *)

\* TERMINAL_ITEM_OUTCOME.
Outcome(new) == IF new \in {"fixed", "implemented", "verified"} THEN "done" ELSE "dismissed"

\* Mutant: the hook takes the attachments of releases along.
AnyMilestone(i) == TRUE

\* The hooks touch streams only: a release has a gate to keep.
InStream(i) == items[i].at \in Streams

\* Mutant: an attachment that is being worked on is left alone.
OpenRows(e, new) == {i \in Ids : InStream(i) /\ Projects(i, e) /\ items[i].status = "open"}

\* _reconcile_on_terminal: the attachments of e its new status disagrees with.
ClosedRows(e, new) ==
  {i \in Ids : InStream(i) /\ Projects(i, e) /\ items[i].status \notin {"deferred", Outcome(new)}}

\* _reconcile_on_reopen: the attachments of e that had been closed.
ReopenedRows(e) ==
  {i \in Ids : InStream(i) /\ Projects(i, e) /\ items[i].status \in {"done", "dismissed"}}

\* The rows the hooks rewrite when the status of e becomes new.
HookRows(e, new) ==
  CASE new \in Terminal(e)                            -> ClosedRows(e, new)
    [] new \notin Terminal(e) /\ status[e] \in Terminal(e) -> ReopenedRows(e)
    [] OTHER                                          -> {}

HookStatus(e, new) == IF new \in Terminal(e) THEN Outcome(new) ELSE "open"

\* Items with the rows closed or reopened, and nobody assigned to them.
Rewritten(rows, s) ==
  [i \in Ids |-> IF i \in rows THEN [items[i] EXCEPT !.status = s, !.agent = NoAgent]
                               ELSE items[i]]

\* update_finding, update_requirement and the reopening branch of add_finding.
UpdateSource(e, new) ==
  /\ Exists(e) /\ new # status[e]
  /\ status' = [status EXCEPT ![e] = new]
  /\ held' = Freed(HookRows(e, new))
  /\ items' = Rewritten(HookRows(e, new), HookStatus(e, new))
  /\ UNCHANGED <<state, blocked>>

\* The writers that run no hook: add_requirement and the importers, a restored
\* card, the claim that makes a card busy and the release that undoes it.
SilentSource(e, new) ==
  /\ new # status[e]
  /\ \/ e \in Reqs
     \/ ~Exists(e)
     \/ new = "in_progress" \/ status[e] = "in_progress"
  /\ status' = [status EXCEPT ![e] = new]
  /\ UNCHANGED <<items, held, state, blocked>>

\* A new attachment.
NewItem(m, k, r, size, linked) ==
  [at |-> m, kind |-> k, ref |-> r, size |-> size, status |-> "open",
   agent |-> NoAgent, branch_only |-> FALSE, linked |-> linked]

\* add_finding: the new card is routed to a stream by _auto_route_finding.
AddFinding(e, urgent) ==
  LET m == IF urgent THEN "stream/security" ELSE "stream/triage" IN
  /\ e \in Cards /\ ~Exists(e) /\ m \in Streams
  /\ Len(items) < MaxItems
  /\ status' = [status EXCEPT ![e] = "open"]
  /\ items' = IF Attached(m, "bug", e) THEN items
                                       ELSE Append(items, NewItem(m, "bug", e, "triage", FALSE))
  /\ UNCHANGED <<held, state, blocked>>

-----------------------------------------------------------------------------
(* Attachments. *)

Change(i, row) ==
  /\ items' = [items EXCEPT ![i] = row]
  /\ UNCHANGED <<status, state, blocked>>

\* _validate_item_ref: an entity of the kind must exist; externals are free.
ValidRef(k, r) == k = "external" \/ (r \in Entities /\ k = KindOf(r) /\ Exists(r))

\* add_milestone_item.
AddItem(m, k, r, size, linked) ==
  /\ Len(items) < MaxItems
  /\ ValidRef(k, r) /\ ~Attached(m, k, r)
  /\ items' = Append(items, NewItem(m, k, r, size, linked))
  /\ UNCHANGED <<status, held, state, blocked>>

\* move_milestone_item, of the newest attachment.
MoveItem(r, m) ==
  \E i \in Ids :
    /\ Newest(r, i) /\ items[i].at # m /\ ~Attached(m, items[i].kind, r)
    /\ Change(i, [items[i] EXCEPT !.at = m])
    /\ UNCHANGED held

\* set_item_status: the assigned agent and the slot stay.
SetItemStatus(r, s) ==
  \E i \in Ids :
    /\ Newest(r, i) /\ items[i].status # s
    /\ Change(i, [items[i] EXCEPT !.status = s])
    /\ UNCHANGED held

\* milestone_defer.
Defer(r, m) ==
  \E i \in Ids :
    /\ Newest(r, i)
    /\ items[i].at = m \/ ~Attached(m, items[i].kind, r)
    /\ Change(i, [items[i] EXCEPT !.at = m, !.status = "deferred"])
    /\ UNCHANGED held

\* triage_promote: an attachment leaves the inbox with the size it deserves,
\* whoever holds it.
Promote(r, m, size, linked) ==
  \E i \in Ids :
    /\ Newest(r, i) /\ items[i].at = "stream/triage" /\ ~Attached(m, items[i].kind, r)
    /\ Change(i, [items[i] EXCEPT !.at = m, !.size = size, !.linked = @ \/ linked])
    /\ UNCHANGED held

Dismissal(k) == IF k = "bug" THEN "not_a_bug" ELSE "obsolete"

\* triage_dismiss: the attachment, then its source, whose hooks close the other
\* attachments of the same entity.  This one keeps its agent and slot.
Dismiss(r) ==
  \E i \in Ids :
    LET k == items[i].kind
        new == Dismissal(k)
        rows == IF k # "external" /\ Exists(r) /\ status[r] # new
                  THEN ClosedRows(r, new) \ {i} ELSE {} IN
    /\ Newest(r, i) /\ items[i].status # "dismissed"
    /\ status' = IF k # "external" THEN [status EXCEPT ![r] = new] ELSE status
    /\ held' = Freed(rows)
    /\ items' = [Rewritten(rows, "dismissed") EXCEPT ![i].status = "dismissed"]
    /\ UNCHANGED <<state, blocked>>

\* mark_branch_only and mark_integrated, from the worktree scripts.
MarkBranchOnly(r) ==
  \E i \in Ids :
    /\ Newest(r, i)
    /\ Change(i, [items[i] EXCEPT !.branch_only = TRUE])
    /\ UNCHANGED held

MarkIntegrated(r) ==
  \E i \in Ids :
    /\ Newest(r, i)
    /\ Change(i, [items[i] EXCEPT !.branch_only = FALSE, !.status = "done"])
    /\ UNCHANGED held

-----------------------------------------------------------------------------
(* The pull queue. *)

\* Mutant: the queue looks at the sources of streams only.
LiveInStreams(i) ==
  items[i].at \in Streams /\ items[i].kind # "external" =>
    status[items[i].ref] \notin Terminal(items[i].ref)

\* live_source_clause: the source is not known to be finished.
LiveSource(i) ==
  items[i].kind # "external" => status[items[i].ref] \notin Terminal(items[i].ref)

\* _candidates: the buckets in order; 0 is no bucket, a stream pull_next never
\* looks at or a release that is not open.
Bucket(m) ==
  CASE m = "stream/security"                  -> 1
    [] m \in Releases /\ state[m] = "open"    -> 2
    [] m = "stream/triage"                    -> 3
    [] m = "stream/maintenance"               -> 4
    [] OTHER                                  -> 0

\* _eligibility_failure, for an agent whose ledger is used.
Eligible(i, used) ==
  /\ Bucket(items[i].at) > 0
  /\ items[i].status = "open"
  /\ LiveSource(i)
  /\ items[i].kind = "external" \/ items[i].ref \notin blocked
  /\ items[i].size = "large" /\ items[i].kind = "bug" /\ items[i].at \in Releases
       => items[i].linked
  /\ used[items[i].size] < MaxHeld

\* pull_next: the attachment is the agent's, and so is one slot of its size.
\* An agent an earlier call left assigned is not asked.
PullNext(a) ==
  \E i \in Ids :
    /\ Eligible(i, held[a])
    /\ \A j \in Ids : Eligible(j, held[a]) => Bucket(items[i].at) <= Bucket(items[j].at)
    /\ Change(i, [items[i] EXCEPT !.status = "in_progress", !.agent = a])
    /\ held' = [held EXCEPT ![a][items[i].size] = @ + 1]

\* Mutant: an abandoned attachment keeps its agent.
StillAssigned(row, as) ==
  [row EXCEPT !.status = as, !.agent = IF as = "open" THEN @ ELSE NoAgent]

\* What release_item leaves of the row.
ReleasedRow(row, as) == [row EXCEPT !.status = as, !.agent = NoAgent]

\* release_item, of the newest attachment; as is open when it was abandoned.
ReleaseItem(r, as) ==
  \E i \in Ids :
    /\ Newest(r, i)
    /\ Change(i, ReleasedRow(items[i], as))
    /\ held' = Freed({i})

-----------------------------------------------------------------------------
(* Milestones and repair. *)

\* The gate of milestone_close.
Unfinished(m) ==
  \E i \in Ids :
    /\ items[i].at = m
    /\ \/ items[i].status \in {"open", "in_progress"}
       \/ items[i].branch_only
       \/ items[i].kind # "external" /\ items[i].ref \in blocked

\* milestone_close.
CloseMilestone(m, force) ==
  /\ m \in Releases
  /\ force \/ ~Unfinished(m)
  /\ state' = [state EXCEPT ![m] = "shipped"]
  /\ UNCHANGED <<status, items, held, blocked>>

\* update_milestone.
UpdateMilestone(m, s) ==
  /\ state' = [state EXCEPT ![m] = s]
  /\ UNCHANGED <<status, items, held, blocked>>

\* The rows reconcile_all finds: a finished source its attachment disagrees with.
StaleRows ==
  {i \in Ids : /\ InStream(i) /\ ~LiveSource(i)
               /\ items[i].status \notin {"deferred", Outcome(status[items[i].ref])}}

\* reconcile_all(apply=True).
ReconcileAll ==
  /\ held' = Freed(StaleRows)
  /\ items' = [i \in Ids |->
       IF i \in StaleRows
         THEN [items[i] EXCEPT !.status = Outcome(status[items[i].ref]), !.agent = NoAgent]
         ELSE items[i]]
  /\ UNCHANGED <<status, state, blocked>>

\* A blocker is put on a reference, or the last one is satisfied or cancelled.
Block(r) ==
  /\ blocked' = (blocked \ {r}) \cup ({r} \ blocked)
  /\ UNCHANGED <<status, items, held, state>>

SourceStep ==
  \E e \in Entities :
    \/ \E new \in InputStatus \cap Statuses(e) : UpdateSource(e, new) \/ SilentSource(e, new)
    \/ \E urgent \in BOOLEAN : AddFinding(e, urgent)

ItemStep ==
  \E r \in Refs :
    \/ \E m \in Milestones :
         \/ \E size \in InputSizes, linked \in IF "large" \in InputSizes THEN BOOLEAN ELSE {FALSE} :
              \/ \E k \in InputKinds : AddItem(m, k, r, size, linked)
              \/ Promote(r, m, size, linked)
         \/ MoveItem(r, m)
         \/ Defer(r, m)
    \/ \E s \in ItemStatus : SetItemStatus(r, s)
    \/ Dismiss(r)
    \/ r \in Branched /\ MarkBranchOnly(r)
    \/ MarkIntegrated(r)
    \/ \E as \in {"open", "done"} : ReleaseItem(r, as)

MilestoneStep ==
  \E m \in Milestones :
    \/ \E force \in BOOLEAN : CloseMilestone(m, force)
    \/ \E s \in InputStates : UpdateMilestone(m, s)

Next ==
  \/ SourceStep
  \/ ItemStep
  \/ \E a \in Agents : PullNext(a)
  \/ MilestoneStep
  \/ ReconcileAll
  \/ \E r \in Blockable : Block(r)

Spec == Init /\ [][Next]_vars

-----------------------------------------------------------------------------
(* Properties. *)

\* All the slots an agent is charged for.
Charged(h, a) == h[a]["large"] + h[a]["small"] + h[a]["triage"]

\* The ledger never forgets work: an agent is charged for at least as many
\* slots as it has attachments, through pulls, releases, reassignments, size
\* changes and hooks.  A second decrement for one attachment would break it.
SlotsCoverAssignments ==
  \A a \in Agents : Cardinality({i \in Ids : items[i].agent = a}) <= Charged(held, a)

\* No order of silent status writes, imports, reopenings, moves and releases
\* makes pull_next hand out work whose source is finished.
PullIsLive ==
  [][\A a \in Agents : PullNext(a) =>
       \A i \in Ids : items'[i].status = "in_progress" /\ items[i] # items'[i]
         => items[i].kind = "external" \/ status[items[i].ref] \notin Terminal(items[i].ref)]_vars

\* A source closed through its update function leaves the queue of every
\* stream, and a source reopened through it comes back to every stream that
\* had closed it, whoever closed it there.
ProjectionFollows ==
  [][\A e \in Entities, new \in InputStatus :
       UpdateSource(e, new) => \A i \in Ids :
         items[i].at \in Streams /\ items[i].kind = KindOf(e) /\ items[i].ref = e =>
           /\ new \in Terminal(e) => items'[i].status \notin {"open", "in_progress"}
           /\ new \notin Terminal(e) /\ status[e] \in Terminal(e)
                => items'[i].status \notin {"done", "dismissed"}]_vars

\* Finishing the source never finishes a release's attachment: only a call that
\* names the reference does, so a release cannot ship over a fix that was
\* never integrated.
HooksLeaveReleases ==
  [][status' # status =>
       \A i \in Ids : items[i].at \in Releases /\ items'[i].status = "done"
                        => items[i].status = "done"]_vars

\* What release_item says of itself: it frees the agent's slot for the item.
ReleaseFreesSlot ==
  [][\A r \in Refs, as \in {"open", "done"} : ReleaseItem(r, as) =>
       \A i \in Ids : Newest(r, i) /\ items[i].agent # NoAgent =>
         Charged(held', items[i].agent) < Charged(held, items[i].agent)]_vars
=============================================================================
