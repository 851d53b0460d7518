------------------------------- MODULE Parts -------------------------------
(***************************************************************************)
(* The parts of codebugs that share no state with one another: the part    *)
(* that moves is chosen at the start, and the others stand still.          *)
(***************************************************************************)
EXTENDS Naturals, FiniteSets, Sequences

\* The constants of the parts, under names of their own where two parts would
\* share one.
CONSTANTS
  Dirs, Parent, Main, Callers, NoDir, MaxTrouble,                   \* Discovery
  Related, Actors, NoOne, MaxRows,                                      \* Relations
  Writers, Nobody, MaxFiles,                                        \* Exports
  Names, Fns, Keys, Forbidden, MaxOps,                              \* Resolvers
  Bodies, Slight, Bases, Metas, MaxSpan, Around, MaxMoves,          \* Anchors
  Cards, Repairers, Coordinates, MaxEdits,                          \* Recapture
  Findings, Rings, Trees, MaxCommits, MaxDisk,                      \* Provenance
  Clients, Benchmarks, Payloads, Asked, Width, MaxNumber,           \* Bench
  Noted, Passes, Messages, MaxLog, MaxTouches, MaxPasses,           \* Trailers
  Grouped, HubDegrees, Populations, MaxDeclared, MaxLinks           \* Grouping

VARIABLES
  part,
  tracker, base, git, dark, sealed, call,
  cards, ledger,
  node, dest, files, writable, shell, job,
  registry, frames, saved, run,
  text, moves, head, anchor, resolution,
  loc, edits, pass,
  history, disk, scope, seen, batch,
  store, undo, lock, client,
  notebook, commits, trail, budget, settled,
  report, links, declared, hub, population, todo, parent, suppressed

discoveryVars == <<tracker, base, git, dark, sealed, call>>
relationsVars == <<cards, ledger>>
exportsVars == <<node, dest, files, writable, shell, job>>
resolversVars == <<registry, frames, saved, run>>
anchorsVars == <<text, moves, head, anchor, resolution>>
recaptureVars == <<loc, edits, pass>>
provenanceVars == <<history, disk, scope, seen, batch>>
benchVars == <<store, undo, lock, client>>
trailersVars == <<notebook, commits, trail, budget, settled>>
groupingVars == <<report, links, declared, hub, population, todo, parent, suppressed>>
vars == <<part, discoveryVars, relationsVars, exportsVars, resolversVars, anchorsVars,
          recaptureVars, provenanceVars, benchVars, trailersVars, groupingVars>>

-----------------------------------------------------------------------------

Discovery == INSTANCE Discovery
Relations == INSTANCE Relations WITH Ids <- Related
Exports == INSTANCE Exports
Resolvers == INSTANCE Resolvers
Anchors == INSTANCE Anchors WITH
  MaxEdits <- MaxMoves, base <- text, log <- moves, job <- resolution
Recapture == INSTANCE Recapture WITH job <- pass
Provenance == INSTANCE Provenance
Bench == INSTANCE Bench WITH db <- store, job <- client
Archive == INSTANCE RunArchive WITH Ids <- Bench!Ids, Sheets <- Bench!Sheets, kept <- Bench!Kept
Trailers == INSTANCE Trailers WITH
  Cards <- Noted, Bodies <- Messages, MaxCommits <- MaxLog, MaxEdits <- MaxTouches,
  cards <- notebook, log <- commits, pass <- trail
Grouping == INSTANCE Grouping WITH Cards <- Grouped

\* What the parts assume of their constants.
ASSUME PartsAssumption ==
  /\ Discovery!DiscoveryAssumption
  /\ Relations!RelationsAssumption
  /\ Exports!ExportsAssumption
  /\ Anchors!AnchorsAssumption
  /\ Recapture!RecaptureAssumption
  /\ Provenance!ProvenanceAssumption
  /\ Resolvers!ResolversAssumption
  /\ Bench!BenchAssumption
  /\ Trailers!TrailersAssumption
  /\ Grouping!GroupingAssumption

-----------------------------------------------------------------------------

\* How each part stands still: in one of its initial states.
StillDiscovery ==
  /\ tracker = [d \in Dirs |-> "absent"] /\ base = tracker /\ git = tracker
  /\ dark = {} /\ sealed = {} /\ call = [c \in Callers |-> Discovery!Idle]
StillExports ==
  /\ node = "dir" /\ dest = 0 /\ files = <<Exports!File(Nobody, TRUE)>>
  /\ writable = [k \in {"file", "dir"} |-> FALSE]
  /\ shell = [w \in Writers |-> [fds |-> {}, inode |-> 0]] /\ job = [w \in Writers |-> Exports!Idle]
StillAnchors ==
  /\ text = <<>> /\ moves = <<>> /\ head = [recorded |-> text, other |-> <<>>, past |-> "gone"]
  /\ anchor = [skipped |-> "unfiled", line |-> 0, end |-> 0] /\ resolution = Anchors!Idle
StillRecapture ==
  /\ loc = [c \in Cards |-> "absent"] /\ edits = [c \in Cards |-> 0]
  /\ pass = [r \in Repairers |-> Recapture!Idle]
StillProvenance ==
  /\ history = <<[here |-> "x", there |-> "absent"]>> /\ disk = [is |-> "file", moves |-> 0]
  /\ scope = "outside" /\ seen = [f \in Findings |-> <<0>>] /\ batch = Provenance!Idle
StillTrailers ==
  /\ notebook = [c \in Noted |-> [status |-> "absent", notes |-> [n \in Trailers!Notes |-> 0]]]
  /\ commits = <<>> /\ trail = [p \in Passes |-> Trailers!Idle]
  /\ budget = [edits |-> 0, passes |-> 0] /\ settled = {}
StillGrouping ==
  /\ report = "filing" /\ links = {} /\ declared = {} /\ hub = 0 /\ population = {}
  /\ todo = {} /\ parent = [c \in Grouped |-> c] /\ suppressed = {}

Init ==
  /\ part \in {"discovery", "relations", "exports", "resolvers", "anchors", "recapture", "provenance", "bench",
              "trailers", "grouping"}
  /\ IF part = "discovery" THEN Discovery!Init ELSE StillDiscovery
  /\ Relations!Init
  /\ IF part = "exports" THEN Exports!Init ELSE StillExports
  /\ Resolvers!Init
  /\ IF part = "anchors" THEN Anchors!Init ELSE StillAnchors
  /\ IF part = "recapture" THEN Recapture!Init ELSE StillRecapture
  /\ IF part = "provenance" THEN Provenance!Init ELSE StillProvenance
  /\ Bench!Init
  /\ IF part = "trailers" THEN Trailers!Init ELSE StillTrailers
  /\ IF part = "grouping" THEN Grouping!Init ELSE StillGrouping

Next ==
  \/ /\ part = "discovery" /\ Discovery!Next
     /\ UNCHANGED <<part, relationsVars, exportsVars, resolversVars, anchorsVars,
                    recaptureVars, provenanceVars, benchVars, trailersVars, groupingVars>>
  \/ /\ part = "relations" /\ Relations!Next
     /\ UNCHANGED <<part, discoveryVars, exportsVars, resolversVars, anchorsVars,
                    recaptureVars, provenanceVars, benchVars, trailersVars, groupingVars>>
  \/ /\ part = "exports" /\ Exports!Next
     /\ UNCHANGED <<part, discoveryVars, relationsVars, resolversVars, anchorsVars,
                    recaptureVars, provenanceVars, benchVars, trailersVars, groupingVars>>
  \/ /\ part = "resolvers" /\ Resolvers!Next
     /\ UNCHANGED <<part, discoveryVars, relationsVars, exportsVars, anchorsVars,
                    recaptureVars, provenanceVars, benchVars, trailersVars, groupingVars>>
  \/ /\ part = "anchors" /\ Anchors!Next
     /\ UNCHANGED <<part, discoveryVars, relationsVars, exportsVars, resolversVars,
                    recaptureVars, provenanceVars, benchVars, trailersVars, groupingVars>>
  \/ /\ part = "recapture" /\ Recapture!Next
     /\ UNCHANGED <<part, discoveryVars, relationsVars, exportsVars, resolversVars,
                    anchorsVars, provenanceVars, benchVars, trailersVars, groupingVars>>
  \/ /\ part = "provenance" /\ Provenance!Next
     /\ UNCHANGED <<part, discoveryVars, relationsVars, exportsVars, resolversVars,
                    anchorsVars, recaptureVars, benchVars, trailersVars, groupingVars>>
  \/ /\ part = "bench" /\ Bench!Next
     /\ UNCHANGED <<part, discoveryVars, relationsVars, exportsVars, resolversVars,
                    anchorsVars, recaptureVars, provenanceVars, trailersVars, groupingVars>>
  \/ /\ part = "trailers" /\ Trailers!Next
     /\ UNCHANGED <<part, discoveryVars, relationsVars, exportsVars, resolversVars,
                    anchorsVars, recaptureVars, provenanceVars, benchVars, groupingVars>>
  \/ /\ part = "grouping" /\ Grouping!Next
     /\ UNCHANGED <<part, discoveryVars, relationsVars, exportsVars, resolversVars,
                    anchorsVars, recaptureVars, provenanceVars, benchVars, trailersVars>>

Spec == Init /\ [][Next]_vars

-----------------------------------------------------------------------------
(* The properties of the parts, as their modules state them. *)

(* Every variable of every part is of its type. *)
TypeOK ==
  /\ part = "discovery" => Discovery!TypeOK
  /\ part = "relations" => Relations!TypeOK
  /\ part = "exports" => Exports!TypeOK
  /\ part = "resolvers" => Resolvers!TypeOK
  /\ part = "anchors" => Anchors!TypeOK
  /\ part = "recapture" => Recapture!TypeOK
  /\ part = "provenance" => Provenance!TypeOK
  /\ part = "bench" => Bench!TypeOK
  /\ part = "trailers" => Trailers!TypeOK
  /\ part = "grouping" => Grouping!TypeOK

(* Only a call that walked or initialised creates a database. *)
OnlyTheOptedInCreate == [][part = "discovery" => Discovery!OptedIn]_vars

(* What is computed by a search is true of what was searched.  A call is     *)
(* bound to the true tracker, or says what it could not examine, and what    *)
(* `where` reports and promises is so; the reports that join cards, except   *)
(* where a relation says no, join the right ones.                            *)
SearchesAreHonest ==
  /\ part = "discovery" => Discovery!BindingIsTrueOrFlagged /\ Discovery!WhereTellsTheTruth
  /\ part = "grouping" => Grouping!ReportIsTrue

(* No two live relations of a pair contradict each other, and the two views  *)
(* of the ledger agree.                                                      *)
DeclarationsHold == part = "relations" => Relations!NoContradiction

(* A destination of exports is whole, clean, and leaves no debris. *)
DestinationStaysWhole == part = "exports" => Exports!DestinationStaysWhole

(* After the resolvers the caller is still in its own transaction. *)
CallerKeepsItsTransaction == part = "resolvers" => Resolvers!CallerKeepsItsTransaction

(* A resolved coordinate held the anchored text while it was resolved, and   *)
(* when HEAD stood still only what is gone is lost.                          *)
AnchorsAreHonest == [][part = "anchors" => Anchors!AnswerIsHonest]_vars

(* A repair of anchors obeys what a read would say of the row. *)
RepairRespectsTheRow == [][part = "recapture" => Recapture!RepairIsCareful]_vars

(* A verdict about a file is made of answered questions only, for its own commit. *)
VerdictsAreEarned == [][part = "provenance" => Provenance!VerdictIsEarned]_vars

(* A benchmark run has the rows of its import, all of them and no other's. *)
RunsAreWhole == part = "bench" => Bench!RunsAreWhole

(* What can be seen of the two tables of bench.py is an archive of whole     *)
(* runs: an import adds one with all its measurements under a new id, a      *)
(* deletion takes the runs it names with theirs, each at one moment, and     *)
(* nothing else, a crash in the middle included, changes what is kept.       *)
ArchiveIsAtomic == Archive!Spec

(* A pass over commit trailers overturns no decision and says nothing twice. *)
TrailersAreCareful == [][part = "trailers" => Trailers!PassIsCareful]_vars
=============================================================================
