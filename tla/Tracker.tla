------------------------------ MODULE Tracker ------------------------------
(***************************************************************************)
(* The identity of findings: src/src/codebugs/findings.py, composed with   *)
(* the claims of Claims.tla, which write the same status column.           *)
(*                                                                         *)
(* A card carries a fingerprint.  A partial unique index lets one live     *)
(* card hold it; any number of closed ones may.  An observation is routed  *)
(* by it: it bumps the live card, reopens a fixed one, or files a new card *)
(* linked to a dismissed one.  Imports, updates, restores, claims and the  *)
(* category fold write the indexed columns too.  Every call is one db.txn: *)
(* what the index or the primary key rejects is rolled back, and the       *)
(* caller gets SQLite's IntegrityError (outcome "IntegrityError" for the   *)
(* index, "IdTaken" for the key).  A call that refuses by raising          *)
(* ValueError, or changes nothing modelled here, is no step.               *)
(*                                                                         *)
(* A card is its rowid.  stamp is updated_at, in whole seconds.  An id is  *)
(* what _next_id reads from it: whether LIKE 'CB-%' takes it, the number   *)
(* CAST finds behind the prefix, and the one the regular expression finds. *)
(***************************************************************************)
EXTENDS Claims, Integers

CONSTANTS
  Prints,       \* fingerprints
  NoPrint,      \* a NULL fingerprint: a card filed under an explicit id
  InputStatus,  \* the statuses callers ask for
  FileStatus,   \* the statuses of the rows a restored file holds
  InputIds,     \* the ids callers and restored files spell themselves
  NoId,         \* the id of no row
  LastInt,      \* SQLite's last integer, where CAST stops
  MaxNow        \* bound: the last second of the clock

\* LIKE ignores case, the regular expression does not: 'cb-7' is like, with
\* cast 7 and num 0.  num is 0 where the expression finds nothing.
Id == [like : BOOLEAN, cast : Int, num : Nat]

\* The id "CB-n".
Own(n) == [like |-> TRUE, cast |-> IF n <= LastInt THEN n ELSE LastInt, num |-> n]

ASSUME TrackerAssumption ==
  /\ Cards \subseteq Nat \ {0}
  /\ NoPrint \notin Prints
  /\ InputStatus \cup FileStatus \subseteq LiveStatus \cup FindingTerminal
  /\ MaxNow \in Nat /\ LastInt \in Nat
  /\ InputIds \subseteq Id /\ NoId \notin Id

VARIABLES
  id,         \* primary key
  print,      \* fingerprint
  stamp,      \* updated_at
  twin,       \* meta.recurrence_of; 0 is none
  now         \* the wall clock, in seconds

rowVars == <<status, claims, id, print, stamp, twin>>
vars == <<status, claims, reply, id, print, stamp, twin, now>>

TrackerTypeOK ==
  /\ TypeOK
  /\ id \in [Cards -> Id \cup {NoId}]
  /\ print \in [Cards -> Prints \cup {NoPrint}]
  /\ stamp \in [Cards -> 0 .. MaxNow]
  /\ twin \in [Cards -> Cards \cup {0}]
  /\ now \in 0 .. MaxNow
  /\ \A c \in Cards : /\ Exists(c) <=> id[c] # NoId
                      /\ ~Exists(c) => print[c] = NoPrint /\ twin[c] = 0

TrackerInit ==
  /\ Init
  /\ id = [c \in Cards |-> NoId]
  /\ print = [c \in Cards |-> NoPrint]
  /\ stamp = [c \in Cards |-> 0]
  /\ twin = [c \in Cards |-> 0]
  /\ now = 0

-----------------------------------------------------------------------------
(* The index and the lookups. *)

\* ux_findings_fingerprint_live: one live card per fingerprint.
Fits(st, pr) ==
  \A c, d \in Cards :
    c # d /\ st[c] \in LiveStatus /\ st[d] \in LiveStatus /\ pr[c] = pr[d] => pr[c] = NoPrint

\* SQLite applies the write, or refuses it and the transaction rolls back.
Store(call, outcome, new) ==
  IF Fits(new.status, new.print)
  THEN /\ status' = new.status
       /\ claims' = new.claims
       /\ id' = new.id
       /\ print' = new.print
       /\ stamp' = new.stamp
       /\ twin' = new.twin
       /\ reply' = Reply(call, Nobody, outcome)
  ELSE /\ UNCHANGED rowVars
       /\ reply' = Reply(call, Nobody, "IntegrityError")

Rows == [status |-> status, claims |-> claims, id |-> id,
         print |-> print, stamp |-> stamp, twin |-> twin]

\* Mutant: a card somebody works on is not looked up as live.
HeldByOpen(p) == {c \in Cards : status[c] \in {"open", "stale"} /\ print[c] = p}

\* _live_row_by_fingerprint.
HeldBy(p) == {c \in Cards : status[c] \in LiveStatus /\ print[c] = p}

Closed(p) == {c \in Cards : status[c] \in FindingTerminal /\ print[c] = p}

\* ORDER BY updated_at DESC, rowid DESC.
Newer(c, d) == stamp[c] > stamp[d] \/ (stamp[c] = stamp[d] /\ c > d)
Newest(p) == CHOOSE c \in Closed(p) : \A d \in Closed(p) \ {c} : Newer(c, d)

\* Mutant: a dismissal is read as a fix.
WontFixReopens(p) == Closed(p) # {} /\ status[Newest(p)] \in {"fixed", "wont_fix"}

\* The newest closed card of p was fixed, not dismissed.
Regressed(p) == Closed(p) # {} /\ status[Newest(p)] = "fixed"

NextRow == CHOOSE c \in Cards : ~Exists(c) /\ \A d \in Cards : ~Exists(d) => c <= d
RoomLeft == \E c \in Cards : ~Exists(c)

NewRow(i, p, st, at, tw) ==
  [Rows EXCEPT !.status[NextRow] = st, !.id[NextRow] = i, !.print[NextRow] = p,
               !.stamp[NextRow] = at, !.twin[NextRow] = tw]

Taken(i) == \E c \in Cards : id[c] = i

\* The rows _next_id looks at, and the last of them by CAST; ties are any.
Numbered == {c \in Cards : Exists(c) /\ id[c].like}
LastNumbered == {c \in Numbered : \A d \in Numbered : id[d].cast <= id[c].cast}

\* _next_id: one past the number in that row's id.
NextIds == IF Numbered = {} THEN {Own(1)} ELSE {Own(id[c].num + 1) : c \in LastNumbered}

\* The INSERT, which meets the primary key first.
Insert(call, outcome, i, p, st, at, tw) ==
  IF Taken(i)
  THEN UNCHANGED rowVars /\ reply' = Reply(call, Nobody, "IdTaken")
  ELSE RoomLeft /\ Store(call, outcome, NewRow(i, p, st, at, tw))

-----------------------------------------------------------------------------
(* _add_one: one observation through the identity function. *)

Bump(p, call) ==
  \E c \in HeldBy(p) : Store(call, "bumped", [Rows EXCEPT !.stamp[c] = now])

\* Mutant: the reopening write leaves the status out.
BumpClosed(p, call) ==
  /\ HeldBy(p) = {}
  /\ Regressed(p)
  /\ Store(call, "reopened", [Rows EXCEPT !.stamp[Newest(p)] = now])

Reopen(p, call) ==
  /\ HeldBy(p) = {}
  /\ Regressed(p)
  /\ Store(call, "reopened", [Rows EXCEPT !.status[Newest(p)] = "open",
                                          !.stamp[Newest(p)] = now,
                                          !.claims = AutoRelease(Newest(p), "open")])

\* The category gate may refuse here, and only here; that is no step.
FileNew(p, call) ==
  /\ HeldBy(p) = {}
  /\ Closed(p) = {}
  /\ \E i \in NextIds : Insert(call, "created", i, p, "open", now, 0)

FileRecurrence(p, call) ==
  /\ HeldBy(p) = {}
  /\ Closed(p) # {}
  /\ ~Regressed(p)
  /\ \E i \in NextIds : Insert(call, "recurrence_of_closed", i, p, "open", now, Newest(p))

AddOne(p, call) ==
  Bump(p, call) \/ Reopen(p, call) \/ FileNew(p, call) \/ FileRecurrence(p, call)

Observe(p) == AddOne(p, "add") /\ UNCHANGED now

\* An explicit id asserts identity: no matching, and a live fingerprint is
\* refused before the insert.  The id itself is not looked up.
ObserveWithId(i, p) ==
  /\ p = NoPrint \/ HeldBy(p) = {}
  /\ Insert("add_as", "created", i, p, "open", now, 0)
  /\ UNCHANGED now

\* import_findings, one row: a card that is decided is not reopened.
Import(p) ==
  /\ IF Regressed(p)
     THEN UNCHANGED rowVars /\ reply' = Reply("import", Nobody, "skipped_decided")
     ELSE AddOne(p, "import")
  /\ UNCHANGED now

-----------------------------------------------------------------------------
(* The other writers of the indexed columns. *)

\* update_finding refuses to revive a card whose fingerprint a live card holds.
RefusedByTwin(c, new) ==
  /\ new \in LiveStatus
  /\ status[c] \in FindingTerminal
  /\ print[c] # NoPrint
  /\ HeldBy(print[c]) \ {c} # {}

\* An authored update: the status, or with new = status[c] any other column.
Update(c, new) ==
  /\ Exists(c)
  /\ ~RefusedByTwin(c, new)
  /\ Store("update", "updated",
           [Rows EXCEPT !.status[c] = new, !.stamp[c] = now,
                        !.claims = IF new = status[c] THEN claims ELSE AutoRelease(c, new)])
  /\ UNCHANGED now

\* claim(): the projection of a revived card meets the index unprotected.
ClaimCard(c, h, project, allow) ==
  /\ IF /\ MayClaim(c, allow) /\ Projects(c, project)
        /\ ~Fits([status EXCEPT ![c] = "in_progress"], print)
     THEN UNCHANGED rowVars /\ reply' = Reply("claim", h, "IntegrityError")
     ELSE /\ ClaimIt(c, h, project, allow)
          /\ stamp' = IF Projects(c, project) THEN [stamp EXCEPT ![c] = now] ELSE stamp
          /\ UNCHANGED <<id, print, twin>>
  /\ UNCHANGED now

\* release(): set_status stamps the row when it puts a status back.
ReleaseCard(c, h, restore) ==
  /\ ReleaseIt(c, h, restore)
  /\ stamp' = IF Restores(c, restore) THEN [stamp EXCEPT ![c] = now] ELSE stamp
  /\ UNCHANGED <<id, print, twin, now>>

\* restore_findings, one row: written verbatim, its id refused if it is taken.
Restore(i, p, st, at) ==
  /\ ~Taken(i)
  /\ at <= now
  /\ Insert("restore", "restored", i, p, st, at, 0)
  /\ UNCHANGED now

\* The cards up to c are re-keyed by m, the others not yet.
Folded(m, c) ==
  [d \in Cards |-> IF d <= c /\ print[d] # NoPrint THEN m[print[d]] ELSE print[d]]

\* _plan_category_fold: what every card's key will be; the plan stops when two
\* live cards would share one.
Planned(m) == [d \in Cards |-> IF print[d] = NoPrint THEN NoPrint ELSE m[print[d]]]
Stopped(m) == ~Fits(status, Planned(m))

\* normalize_categories(apply): refused as a whole when the plan stops, rolled
\* back when a row on the way collides.
Fold(m) ==
  /\ ~Stopped(m)
  /\ IF \A c \in Cards : Fits(status, Folded(m, c))
     THEN /\ print' = Planned(m)
          /\ reply' = Reply("fold", Nobody, "applied")
     ELSE /\ UNCHANGED print
          /\ reply' = Reply("fold", Nobody, "IntegrityError")
  /\ UNCHANGED <<status, claims, id, stamp, twin, now>>

Tick == now < MaxNow /\ now' = now + 1 /\ UNCHANGED <<rowVars, reply>>

TrackerNext ==
  \/ \E p \in Prints : Observe(p) \/ Import(p)
  \/ \E i \in InputIds, p \in Prints \cup {NoPrint} : ObserveWithId(i, p)
  \/ \E c \in Cards : \E new \in InputStatus \cup {status[c]} : Update(c, new)
  \/ \E c \in Cards, h \in Holders :
       \/ \E project, allow \in BOOLEAN : ClaimCard(c, h, project, allow)
       \/ \E restore \in BOOLEAN : ReleaseCard(c, h, restore)
  \/ \E i \in InputIds, p \in Prints, st \in FileStatus, at \in 0 .. MaxNow :
       Restore(i, p, st, at)
  \/ \E m \in [Prints -> Prints] : Fold(m)
  \/ Tick

TrackerSpec == TrackerInit /\ [][TrackerNext]_vars

-----------------------------------------------------------------------------
(* Properties. *)

\* The calls that look before they write look well enough: no order of calls
\* makes an add, import or update meet the fingerprint index.  And an add or
\* import that names no id meets the primary key only once some row's id has
\* two readings: a number to CAST, another or none to the regular expression.
LookupsSuffice ==
  /\ reply.call \in {"add", "add_as", "import", "update"} => reply.outcome # "IntegrityError"
  /\ reply.call \in {"add", "import"} /\ reply.outcome = "IdTaken" =>
       \E c \in Numbered : id[c].cast # id[c].num

\* What the module's contract promises of add and import: sqlite3.IntegrityError
\* is outside it, whatever ids the tracker holds.
AddNeverLeaks ==
  reply.call \in {"add", "import"} => reply.outcome \notin {"IntegrityError", "IdTaken"}

\* An observation that was accepted is visible: exactly one live card holds its
\* fingerprint afterwards, whatever was closed, dismissed, claimed, folded or
\* restored before, and no other card of that fingerprint has changed status.
SightingIsVisible ==
  [][\A p \in Prints :
       Observe(p) /\ reply'.outcome # "IdTaken" =>
         \E c \in Cards :
           /\ status'[c] \in LiveStatus /\ print'[c] = p /\ stamp'[c] = now
           /\ \A d \in Cards \ {c} : print[d] = p => status'[d] = status[d]
                                                 /\ status[d] \notin LiveStatus]_vars

\* A dismissal is a decision: no observation, import, restore, fold, release or
\* passing second takes a card out of wont_fix or not_a_bug; an update or a
\* claim with allow_terminal, which name the card, do.
DecisionStands ==
  [][\A c \in Cards :
       status[c] \in {"wont_fix", "not_a_bug"} /\ status'[c] # status[c] =>
         \/ reply'.call = "update"
         \/ reply'.call = "claim" /\ claims'[c].late]_vars

\* What claim() lists as its outcomes.
ClaimOutcomeIsDocumented == reply.call = "claim" => reply.outcome = "claimed"

=============================================================================
