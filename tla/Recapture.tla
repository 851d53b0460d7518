----------------------------- MODULE Recapture -----------------------------
(***************************************************************************)
(* The stored anchor of a finding, its readers and its repair: the batch   *)
(* verbs of src/src/codebugs/loc.py and the read enrichers of db.py.       *)
(*                                                                         *)
(* The repair scans a population and asks git with no lock held; only the  *)
(* comparison with what it scanned and the write share a transaction.  In  *)
(* between people retract anchors, write them by hand and restore rows,    *)
(* and other repairs run.                                                  *)
(***************************************************************************)
EXTENDS Naturals, FiniteSets

CONSTANTS
  Cards,
  Repairers,
  Coordinates, \* objects with coordinates
  MaxEdits     \* bound: edits by people

\* The states of a row that are no coordinates, and of a repair that are no card.
RecaptureAssumption ==
  /\ Coordinates \cap {"absent", "unreadable", "null", "refusal", "broken"} = {}
  /\ Cards \cap {"idle", "scanned"} = {}
  /\ MaxEdits \in Nat

VARIABLES
  loc,        \* by card: the state of its meta.loc
  edits,      \* by card: how often its updated_at was moved
  job         \* by repairer: where its recapture stands

vars == <<loc, edits, job>>

\* _anchor_state and read_anchor together: no key; a meta column that is no
\* object; the tombstone; a persisted refusal; an object that breaks its own
\* invariants or has another version; coordinates.
Loc == {"absent", "unreadable", "null", "refusal", "broken"} \cup Coordinates
Fresh == {"refusal"} \cup Coordinates
Options == [apply : BOOLEAN, force : BOOLEAN, include : BOOLEAN]
Idle == [at |-> "idle", stored |-> [c \in Cards |-> "absent"], todo |-> {}, fresh |-> "refusal",
         opts |-> [apply |-> FALSE, force |-> FALSE, include |-> FALSE]]

\* SUMMARY_STATES.
States == {"absent", "unreadable", "invalid", "retracted", "refused", "anchored", "unavailable"}

-----------------------------------------------------------------------------
(* Readers. *)

\* classify_row.
Classify(value) ==
  CASE value = "broken" -> "invalid"
    [] value = "null" -> "retracted"
    [] value = "refusal" -> "refused"
    [] value \in Coordinates -> "anchored"
    [] OTHER -> value

\* enrich_findings: the summary of a row.
Summary(c) == Classify(loc[c])

\* run_read_enrichers: an enricher that raises, or that leaves the row out, costs
\* the read neither the row nor its key.
Enriched(c, fate) == IF fate = "answered" THEN Summary(c) ELSE "unavailable"

TypeOK ==
  /\ loc \in [Cards -> Loc]
  /\ edits \in [Cards -> 0..MaxEdits]
  /\ \A c \in Cards, fate \in {"answered", "raised", "left_out"} : Enriched(c, fate) \in States
  /\ job \in [Repairers -> [at : {"idle", "scanned"} \cup Cards, stored : [Cards -> Loc],
                            todo : SUBSET Cards, fresh : Fresh, opts : Options]]

-----------------------------------------------------------------------------
(* Repair. *)

\* anchor_candidates: the rows as they are now.
Scan(r, opts) ==
  /\ job[r] = Idle
  /\ job' = [job EXCEPT ![r] = [Idle EXCEPT !.at = "scanned", !.stored = loc, !.opts = opts,
               !.todo = {c \in Cards : loc[c] \in {"absent", "unreadable"} => opts.include}]]
  /\ UNCHANGED <<loc, edits>>

\* The rows that are captured again.
Candidate(stored, opts) ==
  /\ stored # "unreadable"
  /\ stored = "null" => opts.force

\* Whether what was captured is written: never a refusal over coordinates or
\* over a tombstone, and never what is there already.
Writes(stored, fresh, opts) ==
  /\ opts.apply
  /\ stored # "absent" =>
       /\ fresh = "refusal" => stored \notin {"null"} \cup Coordinates
       /\ fresh # stored

\* One row of the population: skipped, captured and left, or captured to be written.
CaptureRow(r, c, fresh) ==
  /\ job[r].at = "scanned" /\ c \in job[r].todo
  /\ LET j == job[r]
         rest == [j EXCEPT !.todo = j.todo \ {c}] IN
     job' = [job EXCEPT ![r] =
       IF Candidate(j.stored[c], j.opts) /\ Writes(j.stored[c], fresh, j.opts)
       THEN [rest EXCEPT !.at = c, !.fresh = fresh]
       ELSE rest]
  /\ UNCHANGED <<loc, edits>>

\* Mutant: the values are compared and not the states; no key and a tombstone
\* are both None.
ValueOnly(now, was) ==
  LET Value(v) == IF v \in {"absent", "unreadable", "null"} THEN "none" ELSE v
  IN Value(now) = Value(was)

\* The comparison of _apply_recapture.
Unmoved(now, was) == now = was

\* _apply_recapture, in one transaction; authored=False leaves updated_at alone.
ApplyRow(r) ==
  /\ job[r].at \in Cards
  /\ LET c == job[r].at IN
     loc' = IF Unmoved(loc[c], job[r].stored[c]) THEN [loc EXCEPT ![c] = job[r].fresh] ELSE loc
  /\ job' = [job EXCEPT ![r].at = "scanned", ![r].fresh = "refusal"]
  /\ UNCHANGED edits

\* The pass is over, or its process dies.
End(r) ==
  /\ job[r] # Idle
  /\ job' = [job EXCEPT ![r] = Idle]
  /\ UNCHANGED <<loc, edits>>

-----------------------------------------------------------------------------
(* Writers of other modules. *)

\* update_finding(meta_update={"loc": ...}), which validates nothing.
HandWrite(c, value) ==
  /\ loc[c] # "unreadable"
  /\ value \in {"null", "broken"} \cup Coordinates
  /\ edits[c] < MaxEdits
  /\ loc' = [loc EXCEPT ![c] = value]
  /\ edits' = [edits EXCEPT ![c] = @ + 1]
  /\ UNCHANGED job

\* restore_findings, which writes meta as it finds it.
Restore(c, value) ==
  /\ edits[c] < MaxEdits
  /\ loc' = [loc EXCEPT ![c] = value]
  /\ edits' = [edits EXCEPT ![c] = @ + 1]
  /\ UNCHANGED job

Init ==
  /\ loc \in [Cards -> Loc]
  /\ edits = [c \in Cards |-> 0]
  /\ job = [r \in Repairers |-> Idle]

Next ==
  \/ \E r \in Repairers, opts \in Options : Scan(r, opts)
  \/ \E r \in Repairers, c \in Cards, fresh \in Fresh : CaptureRow(r, c, fresh)
  \/ \E r \in Repairers : ApplyRow(r) \/ End(r)
  \/ \E c \in Cards, value \in Loc : HandWrite(c, value) \/ Restore(c, value)

Spec == Init /\ [][Next]_vars

-----------------------------------------------------------------------------
(* Properties. *)

(* Whatever happened to a row between the scan and the write of a repair,    *)
(* what a read would say of the row at that moment binds the repair: it      *)
(* writes only when asked to; it lifts a retraction only by force and only   *)
(* for coordinates, never trades coordinates for a refusal, gives a first    *)
(* anchor only to the population that was named, leaves an unreadable column *)
(* alone, and does not pass for an edit of the card.                         *)
RepairIsCareful ==
  \A r \in Repairers, c \in Cards :
    (ApplyRow(r) /\ loc'[c] # loc[c]) =>
      LET said == Enriched(c, "answered")
          now == Enriched(c, "answered")' IN
      /\ job[r].at = c /\ job[r].opts.apply
      /\ said = "retracted" => job[r].opts.force /\ now = "anchored"
      /\ said = "anchored" => now = "anchored"
      /\ said = "absent" => job[r].opts.include
      /\ said # "unreadable"
      /\ edits' = edits

RepairRespectsTheRow == [][RepairIsCareful]_vars
=============================================================================
