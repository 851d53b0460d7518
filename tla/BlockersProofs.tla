--------------------------- MODULE BlockersProofs ---------------------------
(***************************************************************************)
(* Blockers, for any callers, entities, requests and any number of rows:   *)
(* a cancellation is final, what has fallen stays fallen, and no           *)
(* unblocking is lost.                                                     *)
(*                                                                         *)
(* IInv is about the calls of resolve_blocker: at most one caller is       *)
(* between its read and its write, and its guards are still true of the    *)
(* row it read.  Neither half is inductive without the other.              *)
(*                                                                         *)
(* BlockersInv adds the types and the reports: an item that is owed a      *)
(* report is free, and some call in progress covers it.  A call covers an  *)
(* item from the write that freed it, through the list it makes of the     *)
(* items to look at, to the rows it fetched for it.  These may go stale,   *)
(* but a step that decides one of them tells of the item itself, or finds  *)
(* it deferred; so the rows of an item still owed are the ones fetched,    *)
(* none of them holds, and the call will say so.                           *)
(***************************************************************************)
EXTENDS Blockers, WellFoundedInduction, TLAPS

Resolves(c) == call[c].op = "resolve"

\* One place for each caller.
CallOK == call = [c \in Callers |-> call[c]]

\* One caller at a time is between the read and the write.
OneResolver == \A c, d \in Callers : Resolves(c) /\ Resolves(d) => c = d

\* The row c read is not cancelled, and not resolved if c means to resolve it.
Undecided(c) ==
  LET row == blocks[call[c].id] IN
  ~row.cancelled /\ (call[c].as = "resolve" => ~row.resolved)

IInv ==
  /\ CallOK
  /\ OneResolver
  /\ \A c \in Callers : Resolves(c) => Undecided(c)

-----------------------------------------------------------------------------
\* Only resolve_blocker puts a caller between its read and its write.
LEMMA Places ==
  ASSUME NEW x, NEW e, NEW items, NEW item, NEW todo, NEW held
  PROVE  /\ Idle.op # "resolve" /\ Adding(x).op # "resolve" /\ Updated(e).op # "resolve"
         /\ Telling(e, items, item, todo, held).op # "resolve"
  BY DEF Idle, Adding, Updated, Telling

\* No caller is inside resolve_blocker at first.
LEMMA InitInv == Init => IInv
  <1> SUFFICES ASSUME Init PROVE IInv
    OBVIOUS
  <1>1. call = [c \in Callers |-> Idle]
    BY DEF Init
  <1>2. CallOK
    BY <1>1 DEF CallOK
  <1>3. \A c \in Callers : ~Resolves(c)
    BY <1>1, Places DEF Resolves
  <1> QED BY <1>2, <1>3 DEF IInv, OneResolver

\* A step that leaves the rows alone, or that nobody resolves across, and puts
\* one caller into another place than the middle of resolve_blocker.
LEMMA Elsewhere ==
  ASSUME IInv, NEW c \in Callers, NEW new,
         call' = [call EXCEPT ![c] = new], new.op # "resolve",
         blocks' = blocks \/ CanWrite \/ Resolves(c)
  PROVE  IInv'
  <1>1. call' = [d \in Callers |-> IF d = c THEN new ELSE call[d]]
    BY DEF IInv, CallOK
  <1>2. CallOK'
    BY <1>1 DEF IInv, CallOK
  <1>3. \A d \in Callers : Resolves(d)' => d # c /\ call'[d] = call[d] /\ Resolves(d)
    BY <1>1 DEF Resolves
  <1>4. OneResolver'
    BY <1>3 DEF IInv, OneResolver
  <1>5. ASSUME NEW d \in Callers, Resolves(d)' PROVE Undecided(d)'
    <2>1. blocks' = blocks
      BY <1>3, <1>5 DEF CanWrite, Resolves, IInv, OneResolver
    <2> QED BY <2>1, <1>3, <1>5 DEF IInv, Undecided
  <1> QED BY <1>2, <1>4, <1>5 DEF IInv

\* A step of nobody: the rows and the callers stay.
LEMMA Aside == ASSUME IInv, UNCHANGED <<blocks, call>> PROVE IInv'
  BY DEF IInv, CallOK, OneResolver, Resolves, Undecided

LEMMA ReadStep ==
  ASSUME IInv, NEW c \in Callers, NEW b \in Ids, NEW as \in {"cancel", "resolve"},
         ResolveRead(c, b, as)
  PROVE  IInv'
  <1> DEFINE new == Resolving(b, as)
  <1>1. /\ \A d \in Callers : ~Resolves(d)
        /\ blocks' = blocks /\ ~blocks[b].cancelled
        /\ as = "resolve" => ~blocks[b].resolved
    BY DEF ResolveRead, CanWrite, Resolves
  <1>2. call' = [d \in Callers |-> IF d = c THEN new ELSE call[d]]
    BY DEF ResolveRead, IInv, CallOK
  <1>3. new.id = b /\ new.as = as
    BY DEF Resolving
  <1>4. CallOK'
    BY <1>2, <1>3 DEF IInv, CallOK
  <1> HIDE DEF new
  <1>5. \A d \in Callers : Resolves(d)' => d = c
    BY <1>1, <1>2 DEF Resolves
  <1>6. Undecided(c)'
    BY <1>1, <1>2, <1>3 DEF Undecided
  <1> QED BY <1>4, <1>5, <1>6 DEF IInv, OneResolver

LEMMA TellStep ==
  ASSUME IInv, NEW c \in Callers,
         \/ TellStart(c)
         \/ \E x \in Entities : TellItem(c, x)
         \/ TellRow(c)
         \/ TellDone(c)
         \/ TellEnd(c)
  PROVE  IInv'
  <1>1. blocks' = blocks
    BY DEF TellStart, TellItem, TellRow, TellDone, TellEnd
  <1>2. \E new : call' = [call EXCEPT ![c] = new] /\ new.op # "resolve"
    <2>1. CASE TellStart(c) /\ IsResolved(status, call[c].of)
      <3>1. call' = [call EXCEPT ![c] =
              Telling(call[c].of, Dependents(call[c].of), NoEntity, {}, 0)]
        BY <2>1 DEF TellStart
      <3> QED BY <3>1, Places
    <2>2. CASE TellStart(c) /\ ~IsResolved(status, call[c].of)
      BY <2>2, Places DEF TellStart
    <2>3. ASSUME NEW x \in Entities, TellItem(c, x)
          PROVE  \E new : call' = [call EXCEPT ![c] = new] /\ new.op # "resolve"
      <3> DEFINE todo == {<<b, blocks[b]>> : b \in {i \in Ids : blocks[i].req.item = x
                                                                 /\ ~blocks[i].cancelled}}
      <3>1. call' = [call EXCEPT ![c] = Telling(call[c].of, call[c].items \ {x}, x, todo, 0)]
        BY <2>3 DEF TellItem
      <3> HIDE DEF todo
      <3> QED BY <3>1, Places
    <2>4. CASE TellRow(c)
      <3> DEFINE first == CHOOSE p \in call[c].todo : \A q \in call[c].todo : p[1] <= q[1]
                 held == call[c].held + IF IsActive(first[2], status, now) THEN 1 ELSE 0
      <3>1. call' = [call EXCEPT ![c] =
              Telling(call[c].of, call[c].items, call[c].item, call[c].todo \ {first}, held)]
        BY <2>4 DEF TellRow
      <3> HIDE DEF first, held
      <3> QED BY <3>1, Places
    <2>5. CASE TellDone(c)
      <3>1. call' = [call EXCEPT ![c] = Telling(call[c].of, call[c].items, NoEntity, {}, 0)]
        BY <2>5 DEF TellDone
      <3> QED BY <3>1, Places
    <2>6. CASE TellEnd(c)
      BY <2>6, Places DEF TellEnd
    <2> QED BY <2>1, <2>2, <2>3, <2>4, <2>5, <2>6
  <1> QED BY <1>1, <1>2, Elsewhere

LEMMA InvStep == IInv /\ [Next]_vars => IInv'
  <1> SUFFICES ASSUME IInv, [Next]_vars PROVE IInv'
    OBVIOUS
  <1>1. ASSUME NEW c \in Callers, NEW r \in Requests, AddCheck(c, r) PROVE IInv'
    <2>1. call' = [call EXCEPT ![c] = Adding(r)] /\ blocks' = blocks
      BY <1>1 DEF AddCheck
    <2> QED BY <2>1, Elsewhere, Places
  <1>2. ASSUME NEW c \in Callers, AddWrite(c) PROVE IInv'
    <2>1. call' = [call EXCEPT ![c] = Idle] /\ CanWrite
      BY <1>2 DEF AddWrite
    <2> QED BY <2>1, Elsewhere, Places
  <1>3. ASSUME NEW c \in Callers, ResolveWrite(c) PROVE IInv'
    <2>1. call' = [call EXCEPT ![c] = Idle] /\ Resolves(c)
      BY <1>3 DEF ResolveWrite, Resolves
    <2> QED BY <2>1, Elsewhere, Places
  <1>4. ASSUME NEW c \in Callers, NEW e \in Entities, NEW new, UpdateStatus(c, e, new)
        PROVE  IInv'
    <2>1. call' = [call EXCEPT ![c] = Updated(e)] /\ blocks' = blocks
      BY <1>4 DEF UpdateStatus
    <2> QED BY <2>1, Elsewhere, Places
  <1>5. ASSUME NEW e, NEW new, SilentStatus(e, new) PROVE IInv'
    BY <1>5, Aside DEF SilentStatus
  <1>6. CASE Tick
    BY <1>6, Aside DEF Tick
  <1>7. CASE UNCHANGED vars
    BY <1>7, Aside DEF vars
  <1> QED
    BY <1>1, <1>2, <1>3, <1>4, <1>5, <1>6, <1>7, ReadStep, TellStep DEF Next

LEMMA Invariance == Spec => []IInv
  BY InitInv, InvStep, PTL DEF Spec

\* resolve_blocker (CB-24): no call cancels or resolves a blocker that is
\* cancelled by the time it writes, and none resolves it twice, whatever else
\* is written between the reads and the writes.
THEOREM CancelStands == Spec => CancelIsFinal
  <1> DEFINE A == \A c \in Callers : ResolveWrite(c) =>
                    LET row == blocks[call[c].id] IN
                    ~row.cancelled /\ (call[c].as = "resolve" => ~row.resolved)
  <1>1. IInv => A
    BY DEF IInv, Undecided, Resolves, ResolveWrite
  <1>2. IInv /\ [Next]_vars => [A]_vars
    BY <1>1
  <1>3. Spec => [][A]_vars
    BY <1>2, Invariance, PTL DEF Spec
  <1> QED BY <1>3 DEF CancelIsFinal

-----------------------------------------------------------------------------
(* Types. *)

\* status is one value for each entity.
Column == status = [e \in Entities |-> status[e]]

\* What a caller carries from one step of a call to the next.
Carried(c) ==
  /\ call[c].op = "add" => call[c].req \in Requests /\ Valid(call[c].req)
  /\ call[c].op = "resolve" =>
       /\ call[c].id \in Ids /\ call[c].as \in {"cancel", "resolve"}
       /\ call[c].as = "resolve" => blocks[call[c].id].req.type = "manual"

\* Some call in progress will tell that x is free: it finished an entity that a
\* blocker of x waited for, or it still has x on its list, or it is looking at x
\* and has met no row that holds, nor fetched one that has changed since.
Covers(c, x) ==
  \/ /\ call[c].op = "updated"
     /\ \E b \in Ids : /\ blocks[b].req.item = x /\ blocks[b].req.by = call[c].of
                       /\ blocks[b].req.type = "entity_resolved" /\ ~blocks[b].cancelled
  \/ call[c].op = "tell" /\ x \in call[c].items
  \/ /\ call[c].op = "tell" /\ call[c].item = x /\ call[c].held = 0
     /\ \A p \in call[c].todo :
          p[1] \in Ids /\ p[2] = blocks[p[1]] /\ p[2].req.item = x

\* An item that is owed a report is free, and some call covers it.
Owing == \A x \in owed : x \notin Deferred(blocks, status, now) /\ \E c \in Callers : Covers(c, x)

BlockersInv ==
  /\ IInv
  /\ TypeOK
  /\ Column
  /\ \A c \in Callers : Carried(c)
  /\ Owing

-----------------------------------------------------------------------------
(* What every step leaves of the rows. *)

\* The rows are a sequence, a function on their ids.
LEMMA Rows ==
  ASSUME TypeOK
  PROVE  /\ Len(blocks) \in Nat /\ Ids = 1 .. Len(blocks) /\ blocks \in [Ids -> Row]
         /\ \A b \in Ids : b \in Nat /\ blocks[b] \in Row /\ blocks[b].req \in Request
         /\ \A b \in Ids : /\ blocks[b].req.item \in Entities
                           /\ blocks[b].req.type \in Trigger /\ blocks[b].req.at \in Nat
  <1>1. Len(blocks) \in Nat /\ Ids = 1 .. Len(blocks) /\ blocks \in [Ids -> Row]
    BY DEF TypeOK, Ids
  <1>2. \A b \in Ids : blocks[b] \in Row
    BY <1>1
  <1>3. \A b \in Ids : b \in Nat /\ blocks[b].req \in Request
    BY <1>1, <1>2 DEF Row
  <1>4. \A r \in Request : r.item \in Entities /\ r.type \in Trigger /\ r.at \in Nat
    BY BlockersAssumption DEF Request
  <1> QED BY <1>1, <1>2, <1>3, <1>4

\* One more row, after the others.
LEMMA Appended ==
  ASSUME TypeOK, NEW row \in Row, blocks' = Append(blocks, row)
  PROVE  /\ blocks' \in Seq(Row) /\ Len(blocks') = Len(blocks) + 1
         /\ Ids' = 1 .. (Len(blocks) + 1) /\ Ids \subseteq Ids'
         /\ \A b \in Ids : blocks'[b] = blocks[b]
         /\ blocks'[Len(blocks) + 1] = row
         /\ \A b \in Ids' \ Ids : b = Len(blocks) + 1
  <1>1. Len(blocks) \in Nat /\ Ids = 1 .. Len(blocks) /\ blocks \in Seq(Row)
    BY Rows DEF TypeOK
  <1> QED BY <1>1 DEF Ids

\* A function on the ids is a table of as many rows.
LEMMA SameIds ==
  ASSUME blocks \in Seq(Row), NEW new \in [Ids -> Row]
  PROVE  new \in Seq(Row) /\ Len(new) = Len(blocks)
  <1>1. Len(blocks) \in Nat /\ Ids = 1 .. Len(blocks)
    BY DEF Ids
  <1> QED BY <1>1

LEMMA CancelledRow ==
  ASSUME NEW old \in Row
  PROVE  LET row == [old EXCEPT !.cancelled = TRUE] IN
         /\ row \in Row /\ row.req = old.req
         /\ row.cancelled = TRUE /\ row.resolved = old.resolved
  BY DEF Row

LEMMA ResolvedRow ==
  ASSUME NEW old \in Row
  PROVE  LET row == [old EXCEPT !.resolved = TRUE] IN
         /\ row \in Row /\ row.req = old.req
         /\ row.resolved = TRUE /\ row.cancelled = old.cancelled
  BY DEF Row

\* One row cancelled or resolved.
LEMMA Decided ==
  ASSUME TypeOK, NEW b \in Ids, NEW as,
         blocks' = IF as = "cancel" THEN [blocks EXCEPT ![b].cancelled = TRUE]
                                    ELSE [blocks EXCEPT ![b].resolved = TRUE]
  PROVE  /\ blocks' \in Seq(Row) /\ Len(blocks') = Len(blocks) /\ Ids' = Ids
         /\ \A d \in Ids : d # b => blocks'[d] = blocks[d]
         /\ blocks'[b].req = blocks[b].req
         /\ blocks[b].cancelled => blocks'[b].cancelled
         /\ blocks[b].resolved => blocks'[b].resolved
         /\ blocks'[b].resolved => blocks[b].resolved \/ as # "cancel"
  <1> DEFINE old == blocks[b]
             row == IF as = "cancel" THEN [old EXCEPT !.cancelled = TRUE]
                                     ELSE [old EXCEPT !.resolved = TRUE]
  <1>1. /\ Len(blocks) \in Nat /\ Ids = 1 .. Len(blocks) /\ blocks \in Seq(Row)
        /\ blocks \in [Ids -> Row] /\ old \in Row
    BY Rows DEF TypeOK
  <1>2. blocks' = [blocks EXCEPT ![b] = row]
    OBVIOUS
  <1>3. /\ row \in Row /\ row.req = old.req
        /\ old.cancelled => row.cancelled
        /\ old.resolved => row.resolved
        /\ row.resolved => old.resolved \/ as # "cancel"
    BY <1>1, CancelledRow, ResolvedRow, Zenon
  <1> HIDE DEF row
  <1>4. /\ blocks' \in [Ids -> Row] /\ Ids' = Ids
        /\ blocks'[b] = row /\ \A d \in Ids : d # b => blocks'[d] = blocks[d]
    BY <1>1, <1>2, <1>3 DEF Ids
  <1>5. blocks' \in Seq(Row) /\ Len(blocks') = Len(blocks)
    BY <1>1, <1>4, SameIds
  <1> QED BY <1>3, <1>4, <1>5

\* Rows stay, keep what they ask for and never lose a decision; entities stay;
\* time passes.
Grows ==
  /\ Ids \subseteq Ids'
  /\ \A b \in Ids :
       /\ blocks'[b].req = blocks[b].req
       /\ blocks[b].cancelled => blocks'[b].cancelled
       /\ blocks[b].resolved => blocks'[b].resolved
  /\ \A e \in Entities : Exists(e) => Exists(e)'
  /\ now \in Nat /\ now' \in Nat /\ now <= now'

LEMMA StatusWritten ==
  ASSUME TypeOK, Column, NEW e \in Entities, NEW new \in Statuses(e),
         status' = [status EXCEPT ![e] = new]
  PROVE  /\ Column'
         /\ \A d \in Entities : /\ status'[d] \in Statuses(d) \cup {"absent"}
                                /\ Exists(d) => Exists(d)'
                                /\ d # e => status'[d] = status[d]
  <1>1. \A d \in Entities : status'[d] = IF d = e THEN new ELSE status[d]
    BY DEF Column
  <1>2. new # "absent"
    BY DEF Statuses, LiveStatus, FindingTerminal, RequirementOpen, RequirementTerminal
  <1>3. Column'
    BY DEF Column
  <1> QED BY <1>1, <1>2, <1>3 DEF TypeOK, Exists

\* What the type invariant says of a row, given the entities.
Sound(row, st) ==
  LET r == row.req IN
  /\ st[r.item] # "absent" /\ r.item # r.by
  /\ r.by # NoEntity => st[r.by] # "absent"
  /\ r.type = "entity_resolved" => r.by # NoEntity
  /\ r.type = "date" => r.at # 0
  /\ row.resolved => r.type = "manual"

LEMMA RowsAreSound == TypeOK => \A b \in Ids : Sound(blocks[b], status)
  BY DEF TypeOK, Sound, Exists

\* A row stays sound if what it asks for stays, the entities stay, and only a
\* manual blocker is resolved.
LEMMA SoundStays ==
  ASSUME NEW st, NEW now2, \A e \in Entities : st[e] # "absent" => now2[e] # "absent",
         NEW row \in Row, NEW next, next.req = row.req,
         next.resolved => row.resolved \/ row.req.type = "manual",
         Sound(row, st)
  PROVE  Sound(next, now2)
  <1>1. row.req.item \in Entities /\ row.req.by \in Entities \cup {NoEntity}
    BY DEF Row, Request
  <1>2. next.resolved => row.req.type = "manual"
    BY DEF Sound
  <1> QED BY <1>1, <1>2 DEF Sound

\* A step that takes no decision keeps the rows sound.
LEMMA RowsStaySound ==
  ASSUME TypeOK, Grows, \A b \in Ids : blocks'[b].resolved =>
           blocks[b].resolved \/ blocks[b].req.type = "manual"
  PROVE  \A b \in Ids : Sound(blocks'[b], status')
  <1> SUFFICES ASSUME NEW b \in Ids PROVE Sound(blocks'[b], status')
    OBVIOUS
  <1>1. \A e \in Entities : status[e] # "absent" => status'[e] # "absent"
    BY DEF Grows, Exists
  <1>2. blocks[b] \in Row /\ blocks'[b].req = blocks[b].req /\ Sound(blocks[b], status)
    BY Rows, RowsAreSound DEF Grows
  <1> QED BY <1>1, <1>2, SoundStays

\* The type invariant from its parts.
LEMMA TypedAgain ==
  ASSUME \A e \in Entities : status'[e] \in Statuses(e) \cup {"absent"},
         blocks' \in Seq(Row), Len(blocks') <= MaxBlocks,
         \A b \in Ids' : Sound(blocks'[b], status'),
         now' \in 0 .. MaxNow,
         \A c \in Callers : call'[c].op \in {"idle", "add", "resolve", "updated", "tell"},
         owed' \subseteq Entities
  PROVE  TypeOK'
  BY DEF TypeOK, Sound, Exists

Ops == {"idle", "add", "resolve", "updated", "tell"}

\* One caller moves on.
LEMMA OneMoves ==
  ASSUME IInv, TypeOK, NEW c \in Callers, NEW new, call' = [call EXCEPT ![c] = new], new.op \in Ops
  PROVE  /\ call'[c] = new /\ \A d \in Callers : d # c => call'[d] = call[d]
         /\ \A d \in Callers : call'[d].op \in Ops
  BY DEF IInv, CallOK, TypeOK, Ops

\* What a caller carries stays good while it waits.
LEMMA CarriedStays ==
  ASSUME TypeOK, Grows, NEW d \in Callers, call'[d] = call[d], Carried(d)
  PROVE  Carried(d)'
  <1>1. ASSUME call[d].op = "add" PROVE Valid(call[d].req)'
    <2>1. call[d].req \in Requests /\ Valid(call[d].req)
      BY <1>1 DEF Carried
    <2>2. call[d].req.item \in Entities /\ call[d].req.by \in Entities \cup {NoEntity}
      BY <2>1, BlockersAssumption DEF Request
    <2> QED BY <2>1, <2>2 DEF Valid, Grows
  <1>2. call[d].op = "resolve" => call[d].id \in Ids' /\ blocks'[call[d].id].req = blocks[call[d].id].req
    BY DEF Carried, Grows
  <1> QED BY <1>1, <1>2 DEF Carried

\* A call covers an item as long as it waits and the rows of the item stay.
LEMMA CoverStays ==
  ASSUME NEW x, NEW d \in Callers, call'[d] = call[d], Ids \subseteq Ids',
         \A b \in Ids : blocks[b].req.item = x => blocks'[b] = blocks[b],
         Covers(d, x)
  PROVE  Covers(d, x)'
  <1>1. CASE call[d].op = "updated"
    BY <1>1 DEF Covers
  <1>2. CASE call[d].op = "tell" /\ x \in call[d].items
    BY <1>2 DEF Covers
  <1>3. CASE /\ call[d].op = "tell" /\ call[d].item = x /\ call[d].held = 0
             /\ \A p \in call[d].todo : p[1] \in Ids /\ p[2] = blocks[p[1]] /\ p[2].req.item = x
    BY <1>3 DEF Covers
  <1> QED BY <1>1, <1>2, <1>3 DEF Covers

\* A step that writes no row, status or time, of a caller that goes on covering
\* what it covered or told it.
LEMMA QuietStep ==
  ASSUME BlockersInv, IInv', NEW c \in Callers, NEW new,
         call' = [call EXCEPT ![c] = new], new.op \in Ops,
         UNCHANGED <<status, blocks, now>>, owed' \subseteq owed,
         Carried(c)', \A x \in owed' : Covers(c, x) => Covers(c, x)'
  PROVE  BlockersInv'
  <1>1. /\ \A d \in Callers : call'[d].op \in Ops
        /\ \A d \in Callers : d # c => call'[d] = call[d]
    BY OneMoves DEF BlockersInv
  <1>2. Grows
    <2>1. now \in Nat
      BY BlockersAssumption DEF BlockersInv, TypeOK
    <2> QED BY <2>1 DEF Grows, Exists, Ids
  <1>3. TypeOK'
    BY <1>1 DEF BlockersInv, TypeOK, Exists, Ops, Ids
  <1>4. \A d \in Callers : Carried(d)'
    BY <1>1, <1>2, CarriedStays DEF BlockersInv
  <1>5. ASSUME NEW x \in owed'
        PROVE  x \notin Deferred(blocks', status', now') /\ \E d \in Callers : Covers(d, x)'
    <2>1. x \notin Deferred(blocks, status, now)
      BY <1>5 DEF BlockersInv, Owing
    <2>2. PICK d \in Callers : Covers(d, x)
      BY <1>5 DEF BlockersInv, Owing
    <2>3. Covers(d, x)'
      BY <1>1, <2>2, CoverStays DEF Ids
    <2> QED BY <2>1, <2>3
  <1>6. Column'
    BY DEF BlockersInv, Column
  <1> QED BY <1>3, <1>4, <1>5, <1>6 DEF BlockersInv, Owing

\* An item that was owed a report stays covered through a step of a caller that
\* covers nothing, which leaves the rows of the item alone.
LEMMA StillCovered ==
  ASSUME BlockersInv, Ids \subseteq Ids', NEW x \in owed, NEW c,
         \A d \in Callers : d # c => call'[d] = call[d],
         c \in Callers => call[c].op \notin {"updated", "tell"},
         \A b \in Ids : blocks[b].req.item = x => blocks'[b] = blocks[b]
  PROVE  \E d \in Callers : Covers(d, x)'
  <1>1. PICK d \in Callers : Covers(d, x)
    BY DEF BlockersInv, Owing
  <1>2. d # c
    BY <1>1 DEF Covers
  <1> QED BY <1>1, <1>2, CoverStays

LEMMA AddWriteStep ==
  ASSUME BlockersInv, IInv', NEW c \in Callers, AddWrite(c) PROVE BlockersInv'
  <1> DEFINE row == [req |-> call[c].req, resolved |-> FALSE, cancelled |-> FALSE]
             n == Len(blocks) + 1
  <1>1. /\ call[c].op = "add" /\ Len(blocks) < MaxBlocks
        /\ blocks' = Append(blocks, row)
        /\ call' = [call EXCEPT ![c] = Idle] /\ status' = status /\ now' = now
        /\ owed' = owed \ Deferred(blocks', status', now')
    BY DEF AddWrite, KeepsQuiet
  <1>2. call[c].req \in Requests /\ Valid(call[c].req) /\ call[c].req \in Request
    BY <1>1, BlockersAssumption DEF BlockersInv, Carried
  <1>3. row \in Row
    BY <1>2 DEF Row
  <1>4. row.req = call[c].req /\ row.resolved = FALSE
    OBVIOUS
  <1> HIDE DEF row
  <1>5. /\ blocks' \in Seq(Row) /\ Len(blocks') = n /\ Ids \subseteq Ids'
        /\ \A b \in Ids : blocks'[b] = blocks[b]
        /\ blocks'[n] = row /\ \A b \in Ids' \ Ids : b = n
    BY <1>1, <1>3, Appended DEF BlockersInv
  <1>6. Grows
    <2>1. now \in Nat /\ now' \in Nat /\ now <= now'
      BY <1>1, BlockersAssumption DEF BlockersInv, TypeOK
    <2>2. /\ Ids \subseteq Ids'
          /\ \A b \in Ids : /\ blocks'[b].req = blocks[b].req
                            /\ blocks[b].cancelled => blocks'[b].cancelled
                            /\ blocks[b].resolved => blocks'[b].resolved
      BY <1>5, Zenon
    <2>3. \A e \in Entities : Exists(e) => Exists(e)'
      BY <1>1 DEF Exists
    <2> QED BY <2>1, <2>2, <2>3, Zenon DEF Grows
  <1>7. \A b \in Ids' : Sound(blocks'[b], status')
    <2>1. Sound(row, status)
      <3>1. row.req.item # row.req.by
        BY <1>2, <1>4, BlockersAssumption DEF Valid, Request
      <3> QED BY <1>2, <1>4, <3>1 DEF Valid, Sound, Exists
    <2>2. \A b \in Ids : Sound(blocks[b], status)
      BY RowsAreSound DEF BlockersInv
    <2>3. \A b \in Ids' : b \in Ids \/ b = n
      BY <1>5
    <2> QED BY <1>1, <1>5, <2>1, <2>2, <2>3
  <1>8. Idle.op \in Ops
    BY DEF Idle, Ops
  <1>9. /\ call'[c] = Idle /\ \A d \in Callers : d # c => call'[d] = call[d]
        /\ \A d \in Callers : call'[d].op \in Ops
    BY <1>1, <1>8, OneMoves DEF BlockersInv
  <1>10. n <= MaxBlocks
    BY <1>1, BlockersAssumption, Rows DEF BlockersInv
  <1>11. TypeOK'
    <2>1. /\ \A e \in Entities : status'[e] \in Statuses(e) \cup {"absent"}
          /\ now' \in 0 .. MaxNow /\ owed' \subseteq Entities
      BY <1>1 DEF BlockersInv, TypeOK
    <2> HIDE DEF n
    <2> QED BY <1>5, <1>7, <1>9, <1>10, <2>1, TypedAgain DEF Ops
  <1>12. \A d \in Callers : Carried(d)'
    <2>1. Carried(c)'
      BY <1>9 DEF Carried, Idle
    <2> QED BY <2>1, <1>6, <1>9, CarriedStays DEF BlockersInv
  <1>13. Owing'
    <2> SUFFICES ASSUME NEW x \in owed'
                 PROVE  x \notin Deferred(blocks', status', now') /\ \E d \in Callers : Covers(d, x)'
      BY DEF Owing
    <2>1. x \in owed /\ x \notin Deferred(blocks', status', now')
      BY <1>1
    <2>2. \E d \in Callers : Covers(d, x)'
      BY <2>1, <1>1, <1>5, <1>9, StillCovered
    <2> QED BY <2>1, <2>2
  <1>14. Column'
    BY <1>1 DEF BlockersInv, Column
  <1> QED BY <1>11, <1>12, <1>13, <1>14 DEF BlockersInv

\* An item is held by the same rows as long as its rows are the same.
LEMMA SameActive ==
  ASSUME NEW bs, NEW bs2, NEW st, NEW t, NEW x, DOMAIN bs2 = DOMAIN bs,
         \A d \in DOMAIN bs : bs[d].req.item = x => bs2[d] = bs[d],
         \A d \in DOMAIN bs : bs2[d].req.item = x => bs2[d] = bs[d]
  PROVE  Active(bs, st, t, x) = Active(bs2, st, t, x)
  <1>1. \A d \in DOMAIN bs : bs[d].req.item = x /\ IsActive(bs[d], st, t)
                             <=> bs2[d].req.item = x /\ IsActive(bs2[d], st, t)
    BY Zenon
  <1> QED BY <1>1, Zenon DEF Active

LEMMA ResolveWriteStep ==
  ASSUME BlockersInv, IInv', NEW c \in Callers, ResolveWrite(c) PROVE BlockersInv'
  <1> DEFINE b == call[c].id
             y == blocks[b].req.item
             told == IF Active(blocks', status, now, y) \ {b} = {} THEN {y} ELSE {}
  <1>1. /\ call[c].op = "resolve"
        /\ blocks' = IF call[c].as = "cancel" THEN [blocks EXCEPT ![b].cancelled = TRUE]
                                              ELSE [blocks EXCEPT ![b].resolved = TRUE]
        /\ call' = [call EXCEPT ![c] = Idle] /\ status' = status /\ now' = now
        /\ owed' = ((owed \cup Deferred(blocks, status, now)) \ Deferred(blocks', status', now')) \ told
    BY DEF ResolveWrite, Unblocks
  <1>2. /\ b \in Ids /\ call[c].as \in {"cancel", "resolve"}
        /\ call[c].as = "resolve" => blocks[b].req.type = "manual"
    BY <1>1 DEF BlockersInv, Carried
  <1>3. /\ blocks' \in Seq(Row) /\ Len(blocks') = Len(blocks) /\ Ids' = Ids
        /\ \A d \in Ids : d # b => blocks'[d] = blocks[d]
        /\ blocks'[b].req = blocks[b].req
        /\ blocks[b].cancelled => blocks'[b].cancelled
        /\ blocks[b].resolved => blocks'[b].resolved
        /\ blocks'[b].resolved => blocks[b].resolved \/ call[c].as # "cancel"
    <2> HIDE DEF b
    <2> QED BY <1>1, <1>2, Decided DEF BlockersInv
  <1>4. Grows
    BY <1>1, <1>3, BlockersAssumption DEF BlockersInv, TypeOK, Grows, Exists
  <1>5. \A d \in Ids' : Sound(blocks'[d], status')
    BY <1>2, <1>3, <1>4, RowsStaySound DEF BlockersInv
  <1>6. Idle.op \in Ops
    BY DEF Idle, Ops
  <1>7. /\ call'[c] = Idle /\ \A d \in Callers : d # c => call'[d] = call[d]
        /\ \A d \in Callers : call'[d].op \in Ops
    BY <1>1, <1>6, OneMoves DEF BlockersInv
  <1>8. TypeOK'
    <2>1. /\ \A e \in Entities : status'[e] \in Statuses(e) \cup {"absent"}
          /\ now' \in 0 .. MaxNow /\ owed' \subseteq Entities /\ Len(blocks') <= MaxBlocks
      BY <1>1, <1>3 DEF BlockersInv, TypeOK, Deferred
    <2> QED BY <1>3, <1>5, <1>7, <2>1, TypedAgain DEF Ops
  <1>9. \A d \in Callers : Carried(d)'
    <2>1. Carried(c)'
      BY <1>7 DEF Carried, Idle
    <2> QED BY <2>1, <1>4, <1>7, CarriedStays DEF BlockersInv
  <1>10. Owing'
    <2> SUFFICES ASSUME NEW x \in owed'
                 PROVE  x \notin Deferred(blocks', status', now') /\ \E d \in Callers : Covers(d, x)'
      BY DEF Owing
    <2>1. x \notin Deferred(blocks', status', now') /\ x \in Entities
      BY <1>1 DEF BlockersInv, TypeOK, Deferred
    <2>2. x # y
      <3>1. x = y => Active(blocks', status, now, y) = {}
        BY <1>1, <2>1 DEF Deferred
      <3> HIDE DEF b, y
      <3> QED BY <1>1, <3>1
    <2>3. \A d \in Ids : blocks[d].req.item = x => blocks'[d] = blocks[d]
      BY <1>3, <2>2
    <2>4. \A d \in Ids : blocks'[d].req.item = x => blocks'[d] = blocks[d]
      BY <1>3, <2>2
    <2>5. x \notin Deferred(blocks, status, now)
      <3>1. Active(blocks, status, now, x) = Active(blocks', status', now', x)
        <4>1. DOMAIN blocks' = DOMAIN blocks
          BY <1>3 DEF Ids
        <4>2. /\ \A d \in DOMAIN blocks : blocks[d].req.item = x => blocks'[d] = blocks[d]
              /\ \A d \in DOMAIN blocks : blocks'[d].req.item = x => blocks'[d] = blocks[d]
          BY <2>3, <2>4 DEF Ids
        <4>3. Active(blocks, status, now, x) = Active(blocks', status, now, x)
          BY <4>1, <4>2, SameActive
        <4>4. status' = status /\ now' = now
          BY <1>1
        <4> QED BY <4>3, <4>4, Zenon
      <3> QED BY <2>1, <3>1 DEF Deferred
    <2>6. x \in owed
      BY <1>1, <2>5
    <2>7. \E d \in Callers : Covers(d, x)'
      BY <1>1, <1>3, <1>7, <2>3, <2>6, StillCovered
    <2> QED BY <2>1, <2>7
  <1>11. Column'
    BY <1>1 DEF BlockersInv, Column
  <1> QED BY <1>8, <1>9, <1>10, <1>11 DEF BlockersInv

\* A step that leaves the rows alone and writes a status or lets time pass.
LEMMA OtherStep ==
  ASSUME BlockersInv, IInv', blocks' = blocks,
         \A e \in Entities : status'[e] \in Statuses(e) \cup {"absent"} /\ (Exists(e) => Exists(e)'),
         Column', now' \in 0 .. MaxNow, now <= now',
         \A d \in Callers : call'[d].op \in Ops,
         \A d \in Callers : call'[d] = call[d] \/ Carried(d)',
         owed' \subseteq Entities, Owing'
  PROVE  BlockersInv'
  <1>1. Grows
    <2>1. now \in Nat /\ now' \in Nat
      BY BlockersAssumption DEF BlockersInv, TypeOK
    <2>2. /\ Ids \subseteq Ids'
          /\ \A b \in Ids : /\ blocks'[b].req = blocks[b].req
                            /\ blocks[b].cancelled => blocks'[b].cancelled
                            /\ blocks[b].resolved => blocks'[b].resolved
      BY Zenon DEF Ids
    <2> QED BY <2>1, <2>2, Zenon DEF Grows
  <1>2. \A b \in Ids' : Sound(blocks'[b], status')
    <2>1. \A b \in Ids : blocks'[b].resolved => blocks[b].resolved
      BY Zenon
    <2> QED BY <1>1, <2>1, RowsStaySound DEF BlockersInv, Ids
  <1>3. TypeOK'
    <2>1. blocks' \in Seq(Row) /\ Len(blocks') <= MaxBlocks
      BY DEF BlockersInv, TypeOK
    <2> QED BY <1>2, <2>1, TypedAgain DEF Ops
  <1>4. \A d \in Callers : Carried(d)'
    BY <1>1, CarriedStays DEF BlockersInv
  <1> QED BY <1>3, <1>4 DEF BlockersInv

\* A row falls with a status write only if it waits for the entity written.
LEMMA FreedBy ==
  ASSUME TypeOK, Column, NEW e \in Entities, NEW new, status' = [status EXCEPT ![e] = new],
         NEW b \in Ids, IsActive(blocks[b], status, now), ~IsActive(blocks[b], status', now)
  PROVE  /\ blocks[b].req.type = "entity_resolved" /\ blocks[b].req.by = e
         /\ ~blocks[b].cancelled
  <1>1. \A d \in Entities : d # e => status'[d] = status[d]
    BY DEF Column
  <1>2. blocks[b].req.type \in Trigger /\ blocks[b].req.by \in Entities \cup {NoEntity}
    BY Rows DEF Request
  <1>3. ~blocks[b].cancelled /\ ~Satisfied(blocks[b], status, now) /\ Satisfied(blocks[b], status', now)
    BY DEF IsActive
  <1>4. blocks[b].req.type = "entity_resolved"
    BY <1>2, <1>3 DEF Satisfied, Trigger, DateDue
  <1>5. blocks[b].req.by \in Entities
    BY <1>2, <1>4, RowsAreSound DEF Sound
  <1>6. status'[blocks[b].req.by] # status[blocks[b].req.by]
    BY <1>3, <1>4 DEF Satisfied, IsResolved
  <1> QED BY <1>1, <1>3, <1>4, <1>5, <1>6

LEMMA UpdateStatusStep ==
  ASSUME BlockersInv, IInv', NEW c \in Callers, NEW e \in Entities, NEW new \in Statuses(e),
         UpdateStatus(c, e, new)
  PROVE  BlockersInv'
  <1>1. /\ call[c] = Idle /\ status' = [status EXCEPT ![e] = new]
        /\ call' = [call EXCEPT ![c] = Updated(e)] /\ blocks' = blocks /\ now' = now
        /\ owed' = ((owed \cup Deferred(blocks, status, now)) \ Deferred(blocks', status', now')) \ {}
    BY DEF UpdateStatus, Unblocks
  <1>2. Updated(e).op = "updated" /\ Updated(e).op \in Ops /\ Updated(e).of = e
    BY DEF Updated, Ops
  <1>3. /\ call'[c] = Updated(e) /\ \A d \in Callers : d # c => call'[d] = call[d]
        /\ \A d \in Callers : call'[d].op \in Ops
    BY <1>1, <1>2, OneMoves DEF BlockersInv
  <1>4. /\ Column'
        /\ \A d \in Entities : /\ status'[d] \in Statuses(d) \cup {"absent"}
                               /\ Exists(d) => Exists(d)'
    BY <1>1, StatusWritten DEF BlockersInv
  <1>5. Carried(c)'
    BY <1>2, <1>3 DEF Carried
  <1>6. owed' \subseteq Entities
    BY <1>1 DEF BlockersInv, TypeOK, Deferred
  <1>7. Owing'
    <2> SUFFICES ASSUME NEW x \in owed'
                 PROVE  x \notin Deferred(blocks', status', now') /\ \E d \in Callers : Covers(d, x)'
      BY DEF Owing
    <2>1. x \notin Deferred(blocks', status', now') /\ x \in Entities
      BY <1>1, <1>6
    <2>2. CASE x \in owed
      <3>1. call[c].op \notin {"updated", "tell"}
        BY <1>1 DEF Idle
      <3>2. Ids \subseteq Ids'
        BY <1>1 DEF Ids
      <3>3. \E d \in Callers : Covers(d, x)'
        BY <1>1, <1>3, <2>2, <3>1, <3>2, StillCovered
      <3> QED BY <2>1, <3>3
    <2>3. CASE x \notin owed
      <3>1. x \in Deferred(blocks, status, now)
        BY <1>1, <2>3
      <3>2. PICK b \in Ids : blocks[b].req.item = x /\ IsActive(blocks[b], status, now)
        BY <3>1 DEF Deferred, Active, Ids
      <3>3. ~IsActive(blocks[b], status', now)
        BY <1>1, <2>1, <3>2 DEF Deferred, Active, Ids
      <3>4. /\ blocks[b].req.type = "entity_resolved" /\ blocks[b].req.by = e
            /\ ~blocks[b].cancelled
        BY <1>1, <3>2, <3>3, FreedBy DEF BlockersInv
      <3>5. Covers(c, x)'
        BY <1>1, <1>2, <1>3, <3>2, <3>4 DEF Covers, Ids
      <3> QED BY <2>1, <3>5
    <2> QED BY <2>2, <2>3
  <1>8. now' \in 0 .. MaxNow /\ now <= now'
    BY <1>1, BlockersAssumption DEF BlockersInv, TypeOK
  <1> QED BY <1>1, <1>3, <1>4, <1>5, <1>6, <1>7, <1>8, OtherStep

\* A step of nobody that owes nobody a report keeps what was owed, covered.
LEMMA KeptCovered ==
  ASSUME BlockersInv, UNCHANGED <<blocks, call>>, KeepsQuiet
  PROVE  owed' \subseteq Entities /\ Owing'
  <1>1. owed' = owed \ Deferred(blocks', status', now')
    BY DEF KeepsQuiet
  <1>2. ASSUME NEW x \in owed'
        PROVE  x \notin Deferred(blocks', status', now') /\ \E d \in Callers : Covers(d, x)'
    <2>1. x \in owed
      BY <1>1
    <2>2. PICK d \in Callers : Covers(d, x)
      BY <2>1 DEF BlockersInv, Owing
    <2>3. Covers(d, x)'
      BY <2>2, CoverStays DEF Ids
    <2> QED BY <1>1, <2>3
  <1> QED BY <1>1, <1>2 DEF BlockersInv, TypeOK, Owing

LEMMA SilentStatusStep ==
  ASSUME BlockersInv, IInv', NEW e \in Entities, NEW new \in Statuses(e), SilentStatus(e, new)
  PROVE  BlockersInv'
  <1>1. /\ status' = [status EXCEPT ![e] = new] /\ blocks' = blocks /\ now' = now /\ call' = call
        /\ KeepsQuiet
    BY DEF SilentStatus
  <1>2. /\ Column'
        /\ \A d \in Entities : /\ status'[d] \in Statuses(d) \cup {"absent"}
                               /\ Exists(d) => Exists(d)'
    BY <1>1, StatusWritten DEF BlockersInv
  <1>3. owed' \subseteq Entities /\ Owing'
    BY <1>1, KeptCovered
  <1>4. /\ now' \in 0 .. MaxNow /\ now <= now' /\ \A d \in Callers : call'[d].op \in Ops
    BY <1>1, BlockersAssumption DEF BlockersInv, TypeOK, Ops
  <1> QED BY <1>1, <1>2, <1>3, <1>4, OtherStep

LEMMA TickStep ==
  ASSUME BlockersInv, IInv', Tick
  PROVE  BlockersInv'
  <1>1. status' = status /\ blocks' = blocks /\ call' = call /\ KeepsQuiet
    BY DEF Tick
  <1>2. owed' \subseteq Entities /\ Owing'
    BY <1>1, KeptCovered
  <1>3. now' \in 0 .. MaxNow /\ now <= now'
    BY BlockersAssumption DEF Tick, BlockersInv, TypeOK
  <1>4. /\ Column' /\ \A d \in Callers : call'[d].op \in Ops
        /\ \A d \in Entities : /\ status'[d] \in Statuses(d) \cup {"absent"}
                               /\ Exists(d) => Exists(d)'
    BY <1>1 DEF BlockersInv, TypeOK, Ops, Column, Exists
  <1> QED BY <1>1, <1>2, <1>3, <1>4, OtherStep

LEMMA AddCheckStep ==
  ASSUME BlockersInv, IInv', NEW c \in Callers, NEW r \in Requests, AddCheck(c, r)
  PROVE  BlockersInv'
  <1> DEFINE new == Adding(r)
  <1>1. /\ call[c] = Idle /\ Valid(r) /\ call' = [call EXCEPT ![c] = new]
        /\ UNCHANGED <<status, blocks, now>> /\ owed' = owed
    BY DEF AddCheck
  <1>2. new.op = "add" /\ new.op \in Ops /\ new.req = r
    BY DEF Adding, Ops
  <1> HIDE DEF new
  <1>3. call'[c] = new
    BY <1>1, <1>2, OneMoves DEF BlockersInv
  <1>4. Carried(c)'
    BY <1>1, <1>2, <1>3 DEF Carried, Valid, Exists
  <1>5. \A x : ~Covers(c, x)
    BY <1>1 DEF Covers, Idle
  <1> QED BY <1>1, <1>2, <1>4, <1>5, QuietStep

LEMMA ResolveReadStep ==
  ASSUME BlockersInv, IInv', NEW c \in Callers, NEW b \in Ids, NEW as \in {"cancel", "resolve"},
         ResolveRead(c, b, as)
  PROVE  BlockersInv'
  <1> DEFINE new == Resolving(b, as)
  <1>1. /\ call[c] = Idle /\ call' = [call EXCEPT ![c] = new]
        /\ as = "resolve" => blocks[b].req.type = "manual"
        /\ UNCHANGED <<status, blocks, now>> /\ owed' = owed
    BY DEF ResolveRead
  <1>2. new.op = "resolve" /\ new.op \in Ops /\ new.id = b /\ new.as = as
    BY DEF Resolving, Ops
  <1> HIDE DEF new
  <1>3. call'[c] = new
    BY <1>1, <1>2, OneMoves DEF BlockersInv
  <1>4. Carried(c)'
    BY <1>1, <1>2, <1>3 DEF Carried, Ids
  <1>5. \A x : ~Covers(c, x)
    BY <1>1 DEF Covers, Idle
  <1> QED BY <1>1, <1>2, <1>4, <1>5, QuietStep

\* No row holds an item that is not deferred.
LEMMA NothingHolds ==
  ASSUME BlockersInv, NEW x \in owed, NEW b \in Ids, blocks[b].req.item = x
  PROVE  ~IsActive(blocks[b], status, now)
  <1>1. x \notin Deferred(blocks, status, now) /\ x \in Entities
    BY DEF BlockersInv, Owing, TypeOK
  <1> QED BY <1>1 DEF Deferred, Active, Ids

\* A report never is in the middle of adding or resolving a blocker.
LEMMA TellingFields ==
  ASSUME NEW e, NEW items, NEW item, NEW todo, NEW held
  PROVE  LET t == Telling(e, items, item, todo, held) IN
         /\ t.op = "tell" /\ t.op \in Ops
         /\ t.items = items /\ t.item = item /\ t.todo = todo /\ t.held = held
  BY DEF Telling, Ops

LEMMA TellStartStep ==
  ASSUME BlockersInv, IInv', NEW c \in Callers, TellStart(c)
  PROVE  BlockersInv'
  <1> DEFINE e == call[c].of
             deps == Dependents(e)
             told == Telling(e, deps, NoEntity, {}, 0)
             new == IF IsResolved(status, e) THEN told ELSE Idle
  <1>1. /\ call[c].op = "updated" /\ call' = [call EXCEPT ![c] = new]
        /\ UNCHANGED <<status, blocks, now>> /\ owed' = owed
    BY DEF TellStart
  <1>2. told.op = "tell" /\ told.items = deps
    BY TellingFields
  <1>3. Idle.op = "idle"
    BY DEF Idle
  <1>4. new.op \in {"idle", "tell"} /\ new.op \in Ops
    <2> HIDE DEF told
    <2> QED BY <1>2, <1>3 DEF Ops
  <1>5. ASSUME IsResolved(status, e) PROVE new.op = "tell" /\ new.items = deps
    <2> HIDE DEF told
    <2> QED BY <1>2, <1>5
  <1>6. ASSUME NEW x \in owed, Covers(c, x) PROVE x \in deps /\ IsResolved(status, e)
    <2>1. PICK b \in Ids : /\ blocks[b].req.item = x /\ blocks[b].req.by = e
                           /\ blocks[b].req.type = "entity_resolved" /\ ~blocks[b].cancelled
      BY <1>1, <1>6 DEF Covers
    <2>2. ~IsActive(blocks[b], status, now)
      BY <2>1, NothingHolds
    <2>3. IsResolved(status, e)
      BY <2>1, <2>2 DEF IsActive, Satisfied
    <2> QED BY <2>1, <2>3 DEF Dependents
  <1> HIDE DEF new, deps, told
  <1>7. call'[c] = new
    BY <1>1, <1>4, OneMoves DEF BlockersInv
  <1>8. Carried(c)'
    BY <1>4, <1>7 DEF Carried
  <1>9. \A x \in owed' : Covers(c, x) => Covers(c, x)'
    BY <1>1, <1>5, <1>6, <1>7 DEF Covers
  <1> QED BY <1>1, <1>4, <1>8, <1>9, QuietStep

LEMMA TellItemStep ==
  ASSUME BlockersInv, IInv', NEW c \in Callers, NEW y \in Entities, TellItem(c, y)
  PROVE  BlockersInv'
  <1> DEFINE todo == {<<b, blocks[b]>> : b \in {i \in Ids : blocks[i].req.item = y
                                                             /\ ~blocks[i].cancelled}}
             new == Telling(call[c].of, call[c].items \ {y}, y, todo, 0)
  <1>1. /\ call[c].op = "tell" /\ call[c].item = NoEntity /\ call' = [call EXCEPT ![c] = new]
        /\ UNCHANGED <<status, blocks, now>> /\ owed' = owed
    BY DEF TellItem
  <1>2. \A p \in todo : p[1] \in Ids /\ p[2] = blocks[p[1]] /\ p[2].req.item = y
    OBVIOUS
  <1> HIDE DEF todo
  <1>3. /\ new.op = "tell" /\ new.op \in Ops /\ new.items = call[c].items \ {y}
        /\ new.item = y /\ new.todo = todo /\ new.held = 0
    BY TellingFields
  <1> HIDE DEF new
  <1>4. call'[c] = new
    BY <1>1, <1>3, OneMoves DEF BlockersInv
  <1>5. Carried(c)'
    BY <1>3, <1>4 DEF Carried
  <1>6. ASSUME NEW x \in owed, Covers(c, x) PROVE Covers(c, x)'
    <2>1. x # NoEntity
      BY BlockersAssumption DEF BlockersInv, TypeOK
    <2>2. x \in call[c].items
      BY <1>1, <1>6, <2>1 DEF Covers
    <2>3. CASE x = y
      BY <1>1, <1>2, <1>3, <1>4, <2>3 DEF Covers, Ids
    <2>4. CASE x # y
      BY <1>3, <1>4, <2>2, <2>4 DEF Covers
    <2> QED BY <2>3, <2>4
  <1>7. \A x \in owed' : Covers(c, x) => Covers(c, x)'
    BY <1>1, <1>6
  <1> QED BY <1>1, <1>3, <1>5, <1>7, QuietStep

\* A non-empty set of numbers has a least element.
LEMMA LeastExists ==
  ASSUME NEW S \in SUBSET Nat, S # {}
  PROVE  \E m \in S : \A k \in S : m <= k
  <1>1. PICK m \in S : \A k \in S : ~(<<k, m>> \in OpToRel(<, Nat))
    BY NatLessThanWellFounded, WFMin
  <1>2. \A k \in S : k < m => <<k, m>> \in OpToRel(<, Nat)
    BY DEF OpToRel
  <1>3. \A k \in S : k \in Nat /\ m \in Nat /\ ~(k < m)
    BY <1>1, <1>2
  <1> QED BY <1>3

LEMMA TellRowStep ==
  ASSUME BlockersInv, IInv', NEW c \in Callers, TellRow(c)
  PROVE  BlockersInv'
  <1> DEFINE first == CHOOSE p \in call[c].todo : \A q \in call[c].todo : p[1] <= q[1]
             held == call[c].held + IF IsActive(first[2], status, now) THEN 1 ELSE 0
             todo == call[c].todo \ {first}
             new == Telling(call[c].of, call[c].items, call[c].item, todo, held)
  <1>1. /\ call[c].op = "tell" /\ call[c].todo # {} /\ call' = [call EXCEPT ![c] = new]
        /\ UNCHANGED <<status, blocks, now>> /\ owed' = owed
    BY DEF TellRow
  <1>2. ASSUME NEW x \in owed, call[c].held = 0,
               \A p \in call[c].todo : p[1] \in Ids /\ p[2] = blocks[p[1]] /\ p[2].req.item = x
        PROVE  held = 0
    <2>1. Ids \subseteq Nat
      BY Rows DEF BlockersInv
    <2> DEFINE S == {p[1] : p \in call[c].todo}
    <2>2. S \in SUBSET Nat /\ S # {}
      BY <1>1, <1>2, <2>1
    <2>3. PICK m \in S : \A k \in S : m <= k
      BY <2>2, LeastExists
    <2>4. PICK p \in call[c].todo : p[1] = m
      BY <2>3
    <2>5. \A q \in call[c].todo : p[1] <= q[1]
      BY <2>3, <2>4
    <2>6. first \in call[c].todo
      BY <2>4, <2>5
    <2> HIDE DEF first
    <2>7. ~IsActive(first[2], status, now)
      BY <1>2, <2>6, NothingHolds
    <2> QED BY <1>2, <2>7
  <1> HIDE DEF first, held
  <1>3. /\ new.op = "tell" /\ new.op \in Ops /\ new.items = call[c].items
        /\ new.item = call[c].item /\ new.todo = todo /\ new.held = held
    BY TellingFields
  <1> HIDE DEF new
  <1>4. call'[c] = new
    BY <1>1, <1>3, OneMoves DEF BlockersInv
  <1>5. Carried(c)'
    BY <1>3, <1>4 DEF Carried
  <1>6. ASSUME NEW x \in owed, Covers(c, x) PROVE Covers(c, x)'
    <2>1. CASE x \in call[c].items
      BY <1>3, <1>4, <2>1 DEF Covers
    <2>2. CASE /\ call[c].item = x /\ call[c].held = 0
               /\ \A p \in call[c].todo : p[1] \in Ids /\ p[2] = blocks[p[1]] /\ p[2].req.item = x
      <3>1. held = 0
        BY <1>2, <2>2
      <3> QED BY <1>1, <1>3, <1>4, <2>2, <3>1 DEF Covers, Ids
    <2> QED BY <1>1, <1>6, <2>1, <2>2 DEF Covers
  <1>7. \A x \in owed' : Covers(c, x) => Covers(c, x)'
    BY <1>1, <1>6
  <1> QED BY <1>1, <1>3, <1>5, <1>7, QuietStep

LEMMA TellDoneStep ==
  ASSUME BlockersInv, IInv', NEW c \in Callers, TellDone(c)
  PROVE  BlockersInv'
  <1> DEFINE new == Telling(call[c].of, call[c].items, NoEntity, {}, 0)
  <1>1. /\ call[c].op = "tell" /\ call' = [call EXCEPT ![c] = new]
        /\ UNCHANGED <<status, blocks, now>>
        /\ owed' = IF call[c].held = 0 THEN owed \ {call[c].item} ELSE owed
    BY DEF TellDone
  <1>2. new.op = "tell" /\ new.op \in Ops /\ new.items = call[c].items
    BY TellingFields
  <1> HIDE DEF new
  <1>3. call'[c] = new
    BY <1>1, <1>2, OneMoves DEF BlockersInv
  <1>4. Carried(c)'
    BY <1>2, <1>3 DEF Carried
  <1>5. owed' \subseteq owed
    BY <1>1
  <1>6. \A x \in owed' : Covers(c, x) => x \in call[c].items
    BY <1>1 DEF Covers
  <1>7. \A x \in owed' : Covers(c, x) => Covers(c, x)'
    BY <1>2, <1>3, <1>6 DEF Covers
  <1> QED BY <1>1, <1>2, <1>4, <1>5, <1>7, QuietStep

LEMMA TellEndStep ==
  ASSUME BlockersInv, IInv', NEW c \in Callers, TellEnd(c)
  PROVE  BlockersInv'
  <1>1. /\ call[c].op = "tell" /\ call[c].item = NoEntity /\ call[c].items = {}
        /\ call' = [call EXCEPT ![c] = Idle]
        /\ UNCHANGED <<status, blocks, now>> /\ owed' = owed
    BY DEF TellEnd
  <1>2. Idle.op = "idle" /\ Idle.op \in Ops
    BY DEF Idle, Ops
  <1>3. Carried(c)'
    BY <1>1, <1>2, OneMoves DEF BlockersInv, Carried
  <1>4. \A x \in owed : x # NoEntity
    BY BlockersAssumption DEF BlockersInv, TypeOK
  <1>5. \A x \in owed : ~Covers(c, x)
    BY <1>1, <1>4 DEF Covers
  <1> QED BY <1>1, <1>2, <1>3, <1>5, QuietStep

LEMMA BlockersInitInv == Init => BlockersInv
  <1> SUFFICES ASSUME Init PROVE BlockersInv
    OBVIOUS
  <1>1. \A c \in Callers : call[c].op = "idle"
    BY DEF Init, Idle
  <1>2. Ids = {}
    BY DEF Init, Ids
  <1>3. TypeOK
    BY <1>1, <1>2, BlockersAssumption DEF Init, TypeOK
  <1> QED BY <1>1, <1>3, InitInv DEF Init, BlockersInv, Column, Carried, Owing

LEMMA BlockersInvStep == BlockersInv /\ [Next]_vars => BlockersInv'
  <1> SUFFICES ASSUME BlockersInv, [Next]_vars PROVE BlockersInv'
    OBVIOUS
  <1>1. IInv'
    BY InvStep DEF BlockersInv
  <1>2. CASE UNCHANGED vars
    <2>1. UNCHANGED <<status, blocks, now, call>> /\ owed' = owed
      BY <1>2 DEF vars
    <2>2. TypeOK'
      BY <2>1 DEF BlockersInv, TypeOK, Ids, Exists
    <2>3. \A c \in Callers : Carried(c)'
      BY <2>1 DEF BlockersInv, Carried, Ids, Valid, Exists
    <2>4. Owing'
      BY <2>1 DEF BlockersInv, Owing, Covers, Ids
    <2> QED BY <1>1, <2>1, <2>2, <2>3, <2>4 DEF BlockersInv, Column
  <1>3. CASE Next
    <2>1. ASSUME NEW c \in Callers, TellStart(c) \/ TellRow(c) \/ TellDone(c) \/ TellEnd(c)
          PROVE  BlockersInv'
      BY <1>1, <2>1, TellStartStep, TellRowStep, TellDoneStep, TellEndStep
    <2>2. ASSUME NEW c \in Callers, NEW y \in Entities, TellItem(c, y) PROVE BlockersInv'
      BY <1>1, <2>2, TellItemStep
    <2>3. ASSUME NEW c \in Callers, NEW r \in Requests, AddCheck(c, r) PROVE BlockersInv'
      BY <1>1, <2>3, AddCheckStep
    <2>4. ASSUME NEW c \in Callers, AddWrite(c) \/ ResolveWrite(c) PROVE BlockersInv'
      BY <1>1, <2>4, AddWriteStep, ResolveWriteStep
    <2>5. ASSUME NEW c \in Callers, NEW b \in Ids, NEW as \in {"cancel", "resolve"},
                 ResolveRead(c, b, as)
          PROVE  BlockersInv'
      BY <1>1, <2>5, ResolveReadStep
    <2>6. ASSUME NEW c \in Callers, NEW e \in Entities, NEW new \in InputStatus \cap Statuses(e),
                 UpdateStatus(c, e, new)
          PROVE  BlockersInv'
      <3>1. new \in Statuses(e)
        OBVIOUS
      <3> QED BY <1>1, <2>6, <3>1, UpdateStatusStep
    <2>7. ASSUME NEW e \in Entities, NEW new \in InputStatus \cap Statuses(e), SilentStatus(e, new)
          PROVE  BlockersInv'
      <3>1. new \in Statuses(e)
        OBVIOUS
      <3> QED BY <1>1, <2>7, <3>1, SilentStatusStep
    <2>8. CASE Tick
      BY <1>1, <2>8, TickStep
    <2> QED BY <1>3, <2>1, <2>2, <2>3, <2>4, <2>5, <2>6, <2>7, <2>8 DEF Next
  <1> QED BY <1>2, <1>3

LEMMA BlockersInvariance == Spec => []BlockersInv
  BY BlockersInitInv, BlockersInvStep, PTL DEF Spec

\* Every row names entities that exist and what its trigger needs, and only a
\* manual blocker is ever resolved by hand.
THEOREM BlockersTyping == Spec => []TypeOK
  <1>1. BlockersInv => TypeOK
    BY DEF BlockersInv
  <1> QED BY <1>1, BlockersInvariance, PTL

\* The report of the update tools and of resolve_blocker: whatever callers do at
\* the same time, an item that their calls freed is reported by one of them, or
\* was deferred again, before all of them have returned.
THEOREM NoUnblockingIsLost == Spec => []UnblockingIsTold
  <1>1. BlockersInv => UnblockingIsTold
    <2> SUFFICES ASSUME BlockersInv, \A c \in Callers : call[c] = Idle PROVE owed = {}
      BY DEF UnblockingIsTold
    <2>1. \A c \in Callers : call[c].op = "idle"
      BY DEF Idle
    <2>2. \A x \in owed : \E c \in Callers : Covers(c, x)
      BY DEF BlockersInv, Owing
    <2> QED BY <2>1, <2>2 DEF Covers
  <1> QED BY <1>1, BlockersInvariance, PTL

\* Rows of the steps that write one.
LEMMA GrowsStep ==
  ASSUME BlockersInv, Next
  PROVE  Grows
  <1>1. now \in Nat /\ now' \in Nat /\ now <= now'
    <2>1. now' = now \/ now' = now + 1
      BY DEF Next, AddCheck, AddWrite, ResolveRead, ResolveWrite, UpdateStatus, TellStart,
             TellItem, TellRow, TellDone, TellEnd, SilentStatus, Tick
    <2> QED BY <2>1, BlockersAssumption DEF BlockersInv, TypeOK
  <1>2. \A e \in Entities : Exists(e) => Exists(e)'
    <2>1. ASSUME NEW e \in Entities, NEW new \in InputStatus \cap Statuses(e),
                 status' = [status EXCEPT ![e] = new]
          PROVE  \A d \in Entities : Exists(d) => Exists(d)'
      <3>1. new \in Statuses(e)
        OBVIOUS
      <3> QED BY <2>1, <3>1, StatusWritten DEF BlockersInv
    <2>2. \/ status' = status
          \/ \E e \in Entities : \E new \in InputStatus \cap Statuses(e) :
               status' = [status EXCEPT ![e] = new]
      BY DEF Next, AddCheck, AddWrite, ResolveRead, ResolveWrite, UpdateStatus, TellStart,
             TellItem, TellRow, TellDone, TellEnd, SilentStatus, Tick
    <2> QED BY <2>1, <2>2 DEF Exists
  <1>3. /\ Ids \subseteq Ids'
        /\ \A b \in Ids : /\ blocks'[b].req = blocks[b].req
                          /\ blocks[b].cancelled => blocks'[b].cancelled
                          /\ blocks[b].resolved => blocks'[b].resolved
    <2>1. CASE blocks' = blocks
      BY <2>1, Zenon DEF Ids
    <2>2. ASSUME NEW c \in Callers, AddWrite(c)
          PROVE  Ids \subseteq Ids' /\ \A b \in Ids : blocks'[b] = blocks[b]
      <3> DEFINE row == [req |-> call[c].req, resolved |-> FALSE, cancelled |-> FALSE]
      <3>1. call[c].req \in Request /\ blocks' = Append(blocks, row)
        BY <2>2, BlockersAssumption DEF AddWrite, BlockersInv, Carried
      <3>2. row \in Row
        BY <3>1 DEF Row
      <3> HIDE DEF row
      <3> QED BY <3>1, <3>2, Appended DEF BlockersInv
    <2>3. ASSUME NEW c \in Callers, ResolveWrite(c)
          PROVE  /\ Ids \subseteq Ids'
                 /\ \A b \in Ids : /\ blocks'[b].req = blocks[b].req
                                   /\ blocks[b].cancelled => blocks'[b].cancelled
                                   /\ blocks[b].resolved => blocks'[b].resolved
      <3> DEFINE i == call[c].id
      <3>1. /\ i \in Ids
            /\ blocks' = IF call[c].as = "cancel" THEN [blocks EXCEPT ![i].cancelled = TRUE]
                                                  ELSE [blocks EXCEPT ![i].resolved = TRUE]
        BY <2>3 DEF ResolveWrite, BlockersInv, Carried
      <3> HIDE DEF i
      <3>2. /\ Ids' = Ids /\ \A d \in Ids : d # i => blocks'[d] = blocks[d]
            /\ blocks'[i].req = blocks[i].req
            /\ blocks[i].cancelled => blocks'[i].cancelled
            /\ blocks[i].resolved => blocks'[i].resolved
        BY <3>1, Decided DEF BlockersInv
      <3> QED BY <3>2, Zenon
    <2>4. \/ blocks' = blocks
          \/ \E c \in Callers : AddWrite(c) \/ ResolveWrite(c)
      BY DEF Next, AddCheck, ResolveRead, UpdateStatus, TellStart,
             TellItem, TellRow, TellDone, TellEnd, SilentStatus, Tick
    <2> QED BY <2>1, <2>2, <2>3, <2>4, Zenon
  <1> QED BY <1>1, <1>2, <1>3, Zenon DEF Grows

\* A date that has passed stays passed, and a resolution or a cancellation is
\* final: a blocker that had fallen holds again only if what it waits for is
\* reopened.
THEOREM FallenStayFallen == Spec => OnlyReopeningReverts
  <1> DEFINE A == \A b \in Ids :
       ~IsActive(blocks[b], status, now) /\ IsActive(blocks'[b], status', now') =>
         /\ blocks[b].req.type = "entity_resolved"
         /\ IsResolved(status, blocks[b].req.by) /\ ~IsResolved(status', blocks[b].req.by)
  <1>1. ASSUME BlockersInv, Next PROVE A
    <2> SUFFICES ASSUME NEW b \in Ids, ~IsActive(blocks[b], status, now),
                        IsActive(blocks'[b], status', now')
                 PROVE  /\ blocks[b].req.type = "entity_resolved"
                        /\ IsResolved(status, blocks[b].req.by)
                        /\ ~IsResolved(status', blocks[b].req.by)
      OBVIOUS
    <2>1. /\ blocks'[b].req = blocks[b].req
          /\ blocks[b].cancelled => blocks'[b].cancelled
          /\ blocks[b].resolved => blocks'[b].resolved
          /\ now \in Nat /\ now' \in Nat /\ now <= now'
      BY <1>1, GrowsStep DEF Grows
    <2>2. blocks[b].req.type \in Trigger /\ blocks[b].req.at \in Nat
      BY <1>1, Rows DEF BlockersInv
    <2>3. ~blocks'[b].cancelled /\ ~Satisfied(blocks'[b], status', now')
      BY DEF IsActive
    <2>4. Satisfied(blocks[b], status, now)
      BY <2>1, <2>3 DEF IsActive
    <2>5. blocks[b].req.type # "manual"
      BY <2>1, <2>3, <2>4 DEF Satisfied
    <2>6. blocks[b].req.type # "date"
      <3>1. SUFFICES ASSUME blocks[b].req.type = "date" PROVE FALSE
        OBVIOUS
      <3>2. blocks[b].req.at <= now
        BY <2>4, <3>1 DEF Satisfied, DateDue
      <3>3. ~(blocks[b].req.at <= now')
        BY <2>1, <2>3, <3>1 DEF Satisfied, DateDue
      <3> QED BY <2>1, <2>2, <3>2, <3>3
    <2> QED BY <2>1, <2>2, <2>3, <2>4, <2>5, <2>6 DEF Trigger, Satisfied
  <1> HIDE DEF A
  <1>2. BlockersInv /\ [Next]_vars => [A]_vars
    BY <1>1
  <1>3. Spec => [][A]_vars
    BY <1>2, BlockersInvariance, PTL DEF Spec
  <1> QED BY <1>3 DEF OnlyReopeningReverts, A
=============================================================================
