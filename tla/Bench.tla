------------------------------- MODULE Bench -------------------------------
(***************************************************************************)
(* Benchmark runs: src/src/codebugs/bench.py.  An import stores one run    *)
(* and a row for each of its measurements; a run, or all runs of a         *)
(* benchmark, can be deleted with their rows.                              *)
(*                                                                         *)
(* A writer takes the write lock before it reads (db.txn) and does its     *)
(* statements one at a time; a reader takes none, and sees what was        *)
(* committed when each of its statements ran.  No foreign key is enforced. *)
(***************************************************************************)
EXTENDS Naturals, FiniteSets, Sequences

CONSTANTS
  Clients, Nobody,
  Writers,    \* the clients that import and delete; the others ask
  Benchmarks,
  Payloads,   \* what an import may be given, see Refused
  Asked,      \* the ids a caller may ask for
  Width,      \* the largest number a CAST to INTEGER keeps (2^63 - 1)
  MaxNumber   \* bound: the largest number of a generated id

BenchAssumption ==
  /\ Writers \subseteq Clients /\ Nobody \notin Clients
  /\ Width \in Nat /\ MaxNumber \in Nat

VARIABLES
  db,         \* codebench_runs and codebench_results, uncommitted work included
  undo,       \* the same as last committed
  lock,       \* who is in a transaction
  job         \* by client: the call it is in; torn and a query's runs only say
              \* what happened meanwhile, and what its ids meant

vars == <<db, undo, lock, job>>

\* An id BE-n, or one that a caller spelled be-n.
Id(form, n) == [form |-> form, n |-> n]
Ids == [form : {"BE", "be"}, n : 1..MaxNumber]

\* A measurement: row label and metric.
Cells(load) == {load.rows[i].label : i \in DOMAIN load.rows} \X {load.header[j] : j \in DOMAIN load.header}
AllCells == UNION {Cells(load) : load \in Payloads}

Idle == [at |-> "idle", do |-> "", bench |-> "", load |-> <<>>, own |-> FALSE, ids |-> {},
         runs |-> {}, torn |-> FALSE]

TypeOK ==
  /\ \A tables \in {db, undo} :
       /\ tables.runs \subseteq [id : Ids, bench : Benchmarks, load : Payloads]
       /\ tables.results \subseteq (Ids \X AllCells)
  /\ lock \in Clients \cup {Nobody}
  /\ \A c \in Clients :
       /\ job[c].at \in {"idle", "check", "rows", "run", "commit", "read", "taken"}
       /\ job[c].ids \subseteq Ids

Committed == IF lock = Nobody THEN db ELSE undo

-----------------------------------------------------------------------------
(* The payload: a header of metrics, and rows with a label and a value for  *)
(* each metric, by name; a list of objects is first written out as such a   *)
(* table under the keys of the first object.                                *)

Value(row, metric) == IF metric \in DOMAIN row.is THEN row.is[metric] ELSE "blank"

\* What is read: a metric that the header repeats is read again.
Read(load) ==
  {pos \in (DOMAIN load.rows) \X (DOMAIN load.header) :
     Value(load.rows[pos[1]], load.header[pos[2]]) # "blank"}

\* The triples to insert.
Pending(load) == {<<load.rows[pos[1]].label, load.header[pos[2]]>> : pos \in Read(load)}

\* import_json: another object has a key the first one lacks.
Ragged(load) ==
  /\ load.from = "json"
  /\ \E i \in DOMAIN load.rows : \E metric \in DOMAIN load.rows[i].is :
       \A j \in DOMAIN load.header : load.header[j] # metric

\* import_csv decides every fault before its first write: no metric, no row, no
\* label, a value that is no finite number, a measurement given twice.
Refused(load) ==
  \/ load.header = <<>> \/ load.rows = <<>> \/ Ragged(load)
  \/ \E i \in DOMAIN load.rows : load.rows[i].label = ""
  \/ \E pos \in Read(load) : Value(load.rows[pos[1]], load.header[pos[2]]) # "number"
  \/ Cardinality(Pending(load)) # Cardinality(Read(load))

-----------------------------------------------------------------------------
(* _next_run_id: one more than the id that sorts last as a number.  LIKE     *)
(* takes be-n for a BE-n, the pattern that reads the number does not.        *)

Cast(n) == IF n > Width THEN Width ELSE n

NextIds(runs) ==
  LET last == {run.id : run \in {r \in runs : \A s \in runs : Cast(s.id.n) <= Cast(r.id.n)}}
  IN  IF runs = {} THEN {Id("BE", 1)}
      ELSE {Id("BE", IF id.form = "BE" THEN id.n + 1 ELSE 1) : id \in last}

-----------------------------------------------------------------------------

Holds(runs, id) == \E run \in runs : run.id = id

Goto(c, j) == job' = [job EXCEPT ![c] = j]

\* Mutant: each statement commits by itself.
Autocommits(c) == UNCHANGED <<undo, lock>>

\* db.txn: the write lock is taken before anything is read.
Take(c) == lock = Nobody /\ lock' = c /\ undo' = db

\* Mutant: objects that differ are imported without what the first one lacks.
ImportRagged(c, bench, load, wanted) ==
  /\ job[c].at = "idle" /\ Take(c)
  /\ ~Refused(load) \/ Ragged(load)
  /\ \E id \in Ids \cap (IF wanted = {} THEN NextIds(db.runs) ELSE wanted) :
       Goto(c, [Idle EXCEPT !.at = "check", !.do = "import", !.bench = bench, !.load = load,
                            !.own = wanted = {}, !.ids = {id}])
  /\ UNCHANGED db

\* The id of an import is the one asked for, or the one that is read now.
Import(c, bench, load, wanted) ==
  /\ job[c].at = "idle" /\ Take(c)
  /\ ~Refused(load)
  /\ \E id \in Ids \cap (IF wanted = {} THEN NextIds(db.runs) ELSE wanted) :
       Goto(c, [Idle EXCEPT !.at = "check", !.do = "import", !.bench = bench, !.load = load,
                            !.own = wanted = {}, !.ids = {id}])
  /\ UNCHANGED db

\* delete_run reads whether the run is there, delete_benchmark which runs are.
DeleteRun(c, id) ==
  /\ job[c].at = "idle" /\ Take(c)
  /\ Goto(c, [Idle EXCEPT !.at = "check", !.do = "run",
                          !.ids = {r.id : r \in {s \in db.runs : s.id = id}}])
  /\ UNCHANGED db

DeleteBenchmark(c, bench) ==
  /\ job[c].at = "idle" /\ Take(c)
  /\ Goto(c, [Idle EXCEPT !.at = "check", !.do = "benchmark", !.bench = bench,
                          !.ids = {r.id : r \in {s \in db.runs : s.bench = bench}}])
  /\ UNCHANGED db

\* The id exists already, or what is to be deleted does not: the transaction
\* ends, and so does the call.
Refuse(c) ==
  /\ job[c].at = "check"
  /\ IF job[c].do = "import" THEN \A id \in job[c].ids : Holds(db.runs, id) ELSE job[c].ids = {}
  /\ Goto(c, IF job[c].do = "import" THEN [job[c] EXCEPT !.at = "taken"] ELSE Idle)
  /\ lock' = Nobody
  /\ UNCHANGED <<db, undo>>

\* The run, then its rows.
InsertRun(c) ==
  /\ job[c].at = "check" /\ job[c].do = "import"
  /\ \A id \in job[c].ids : ~Holds(db.runs, id)
  /\ db' = [db EXCEPT !.runs = @ \cup {[id |-> id, bench |-> job[c].bench, load |-> job[c].load] :
                                          id \in job[c].ids}]
  /\ Goto(c, [job[c] EXCEPT !.at = "rows"])
  /\ UNCHANGED <<undo, lock>>

InsertRows(c) ==
  /\ job[c].at = "rows" /\ job[c].do = "import"
  /\ db' = [db EXCEPT !.results = @ \cup (job[c].ids \X Pending(job[c].load))]
  /\ Goto(c, [job[c] EXCEPT !.at = "commit"])
  /\ UNCHANGED <<undo, lock>>

\* The rows by the ids that were read, then the runs: the one, or all of the
\* benchmark.
DeleteRows(c) ==
  /\ job[c].at = "check" /\ job[c].do # "import" /\ job[c].ids # {}
  /\ db' = [db EXCEPT !.results = {r \in @ : r[1] \notin job[c].ids}]
  /\ Goto(c, [job[c] EXCEPT !.at = "run"])
  /\ UNCHANGED <<undo, lock>>

DeleteRuns(c) ==
  /\ job[c].at = "run"
  /\ db' = [db EXCEPT !.runs =
              {r \in @ : IF job[c].do = "run" THEN r.id \notin job[c].ids ELSE r.bench # job[c].bench}]
  /\ Goto(c, [job[c] EXCEPT !.at = "commit"])
  /\ UNCHANGED <<undo, lock>>

\* A reader in the middle of its call now holds ids that may be gone, or name
\* another run: the highest id, once deleted, is given out again.
Commit(c) ==
  /\ job[c].at = "commit"
  /\ job' = [d \in Clients |-> IF d = c THEN Idle
                               ELSE IF job[d].at \in {"read", "taken"} /\ job[c].do # "import"
                               THEN [job[d] EXCEPT !.torn = TRUE, !.runs = {}] ELSE job[d]]
  /\ lock' = Nobody /\ undo' = db
  /\ UNCHANGED db

\* The process dies, or a statement raises: the transaction is rolled back.
Crash(c) ==
  /\ lock = c
  /\ Goto(c, Idle)
  /\ lock' = Nobody /\ db' = undo
  /\ UNCHANGED undo

-----------------------------------------------------------------------------
(* query: the runs that the filters and last_n leave of a benchmark, then    *)
(* their rows, in a second statement; the filters on rows and the pivots are *)
(* left out.                                                                 *)

Query(c, bench) ==
  /\ job[c].at = "idle"
  /\ \E runs \in SUBSET {r \in Committed.runs : r.bench = bench} :
       /\ runs # {}
       /\ Goto(c, [Idle EXCEPT !.at = "read", !.do = "query", !.runs = runs,
                               !.ids = {r.id : r \in runs}])
  /\ UNCHANGED <<db, undo, lock>>

Answer(c) == {row \in Committed.results : row[1] \in job[c].ids}

-----------------------------------------------------------------------------

\* The answer, or the refusal, reaches the caller.
Return(c) == job[c].at \in {"read", "taken"} /\ Goto(c, Idle) /\ UNCHANGED <<db, undo, lock>>

Init ==
  /\ db = [runs |-> {}, results |-> {}] /\ undo = db
  /\ lock = Nobody /\ job = [c \in Clients |-> Idle]

Next ==
  \/ \E c \in Clients : (c \notin Writers /\ \E bench \in Benchmarks : Query(c, bench)) \/ Return(c)
  \/ \E c \in Writers :
    \/ \E bench \in Benchmarks :
         \/ \E load \in Payloads, wanted \in {{}} \cup {{id} : id \in Asked} : Import(c, bench, load, wanted)
         \/ DeleteBenchmark(c, bench)
    \/ \E id \in Ids : DeleteRun(c, id)
    \/ Refuse(c) \/ InsertRun(c) \/ InsertRows(c) \/ DeleteRows(c) \/ DeleteRuns(c)
    \/ Commit(c) \/ Crash(c)

Spec == Init /\ [][Next]_vars

-----------------------------------------------------------------------------
(* Properties. *)

\* What RunArchive calls a run: the measurements are in its rows.
Archived(tables) ==
  {[id |-> run.id, bench |-> run.bench, cells |-> {row[2] : row \in {r \in tables.results : r[1] = run.id}}] :
     run \in tables.runs}
Kept == Archived(Committed)
Sheets == {Pending(load) : load \in {l \in Payloads : ~Refused(l)}}

(* Whatever is imported, deleted and asked at once, with crashes between the *)
(* statements: a run that can be seen has the rows of its own import, all of *)
(* them and no other's, and no row outlives its run.  A query that no        *)
(* deletion crossed answers with the rows of runs of that benchmark, whole.  *)
(* A generated id is found taken only beside a be-n or a number at the width.*)
RunsAreWhole ==
  /\ \A id \in Ids :
       LET own == {run \in Committed.runs : run.id = id} IN
       /\ Cardinality(own) <= 1
       /\ {row[2] : row \in {r \in Committed.results : r[1] = id}} = UNION {Pending(run.load) : run \in own}
  /\ \A c \in Clients :
       /\ job[c].at = "read" /\ ~job[c].torn =>
            Answer(c) = UNION {{run.id} \X Pending(run.load) : run \in job[c].runs}
       /\ job[c].at = "taken" /\ job[c].own /\ ~job[c].torn =>
            \E run \in Committed.runs : run.id.form = "be" \/ run.id.n >= Width
=============================================================================
