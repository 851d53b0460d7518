----------------------------- MODULE RunArchive -----------------------------
(***************************************************************************)
(* What bench.py promises of the benchmark runs, without its two tables,   *)
(* its transactions or its statements (the transaction of import_csv, the  *)
(* docstrings of delete_run and delete_benchmark): a run is kept whole or  *)
(* not at all, under an id of its own, and goes only by a deletion that    *)
(* names it or its benchmark.                                              *)
(***************************************************************************)
CONSTANTS
  Ids, Benchmarks,
  Sheets      \* the sets of measurements that an import may store

VARIABLE kept   \* the runs, each with its measurements

Init == kept = {}

Import(id, bench, cells) ==
  /\ \A run \in kept : run.id # id
  /\ kept' = kept \cup {[id |-> id, bench |-> bench, cells |-> cells]}

DeleteRun(id) == kept' = {run \in kept : run.id # id}

DeleteBenchmark(bench) == kept' = {run \in kept : run.bench # bench}

Next ==
  \/ \E id \in Ids, bench \in Benchmarks, cells \in Sheets : Import(id, bench, cells)
  \/ \E id \in Ids : DeleteRun(id)
  \/ \E bench \in Benchmarks : DeleteBenchmark(bench)

Spec == Init /\ [][Next]_kept
=============================================================================
