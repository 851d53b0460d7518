------------------------------ MODULE Exports ------------------------------
(***************************************************************************)
(* How an export reaches its destination: src/src/codebugs/fsio.py.        *)
(*                                                                         *)
(* A plain file is replaced by a temporary file that was written and       *)
(* closed; a stream, and a file that one of the process's own descriptors  *)
(* holds open, is written in place.  Writers are processes; any of their   *)
(* calls may fail, and any of them may be killed.                          *)
(***************************************************************************)
EXTENDS Naturals, Sequences

CONSTANTS
  Writers,
  Nobody,     \* who wrote what was there before
  MaxFiles    \* bound: inodes ever made

\* There is one file before the first export.
ExportsAssumption == MaxFiles \in Nat \ {0}

VARIABLES
  node,       \* what the destination is: a plain file or nothing, or another kind
  dest,       \* the inode at the destination; 0 when there is none to write to
  files,      \* by inode: whose content came last, all of it, whether noise got in
  writable,   \* may the file, and its directory, be written
  shell,      \* by writer: which of its descriptors 1 and 2 are on which inode
  job         \* by writer: where its export stands

vars == <<node, dest, files, writable, shell, job>>

File(w, all) == [by |-> w, whole |-> all, noise |-> FALSE]
Files == [by : Writers \cup {Nobody}, whole : BOOLEAN, noise : BOOLEAN]

Places == {"idle", "temp", "written", "through", "report", "done", "failed", "killed"}
Idle == [at |-> "idle", inPlace |-> FALSE, matched |-> {}, temp |-> 0]

TypeOK ==
  /\ node \in {"plain", "stream", "dir", "socket"}
  /\ dest \in 0..Len(files)
  /\ files \in Seq(Files)
  /\ writable \in [{"file", "dir"} -> BOOLEAN]
  /\ shell \in [Writers -> [fds : SUBSET {1, 2}, inode : 0..MaxFiles]]
  /\ job \in [Writers -> [at : Places, inPlace : BOOLEAN, matched : SUBSET {1, 2},
                          temp : 0..MaxFiles]]

-----------------------------------------------------------------------------

\* _matched_fds_for: the descriptors that are the destination itself.
MatchedFds(w) == IF dest # 0 /\ shell[w].inode = dest THEN shell[w].fds ELSE {}

\* atomic_write's classification.
InPlace(w) == node = "stream" \/ MatchedFds(w) # {}

\* What is there may be replaced, or nothing is there.
Replaceable == node = "plain" /\ (dest # 0 => writable["file"])

Fail(w) == job' = [job EXCEPT ![w].at = "failed", ![w].temp = 0]

\* What may be neither opened nor replaced: a directory, a socket or a block
\* device never.
Refuse(w) ==
  /\ job[w] = Idle
  /\ IF InPlace(w) THEN ~writable["file"] ELSE ~(Replaceable /\ writable["dir"])
  /\ Fail(w)
  /\ UNCHANGED <<node, dest, files, writable, shell>>

\* open(path, "w"): what was in a file is gone at once.  Of a stream it may be
\* unknown which descriptors it is; then it may be either.
OpenInPlace(w) ==
  /\ job[w] = Idle
  /\ InPlace(w) /\ writable["file"]
  /\ files' = [files EXCEPT ![dest] = File(w, FALSE)]
  /\ \E matched \in {MatchedFds(w)} \cup (IF node = "stream" THEN {{1, 2}} ELSE {}) :
       job' = [job EXCEPT ![w] = [at |-> "through", inPlace |-> TRUE,
                                  matched |-> matched, temp |-> dest]]
  /\ UNCHANGED <<node, dest, writable, shell>>

\* The payload goes through what was opened, or fails half way.
WriteThrough(w) ==
  /\ job[w].at = "through"
  /\ \/ /\ files' = [files EXCEPT ![job[w].temp] = File(w, TRUE)]
        /\ job' = [job EXCEPT ![w].at = "report", ![w].temp = 0]
     \/ Fail(w) /\ UNCHANGED files
  /\ UNCHANGED <<node, dest, writable, shell>>

\* mkstemp beside the destination.
MakeTemp(w) ==
  /\ job[w] = Idle
  /\ ~InPlace(w) /\ Replaceable /\ writable["dir"]
  /\ Len(files) < MaxFiles
  /\ files' = Append(files, File(w, FALSE))
  /\ job' = [job EXCEPT ![w] = [Idle EXCEPT !.at = "temp", !.temp = Len(files) + 1]]
  /\ UNCHANGED <<node, dest, writable, shell>>

\* The payload is written and the file closed; an error discards the temporary.
WriteTemp(w) ==
  /\ job[w].at = "temp"
  /\ \/ /\ files' = [files EXCEPT ![job[w].temp] = File(w, TRUE)]
        /\ job' = [job EXCEPT ![w].at = "written"]
     \/ Fail(w) /\ UNCHANGED files
  /\ UNCHANGED <<node, dest, writable, shell>>

\* Mutant: the move does not wait for the close.
MovesEarly(w) == job[w].at \in {"temp", "written"}

Moves(w) == job[w].at = "written"

\* chmod and os.replace, either of which may fail.
Replace(w) ==
  /\ Moves(w)
  /\ \/ /\ dest' = job[w].temp
        /\ job' = [job EXCEPT ![w].at = "report", ![w].temp = 0]
     \/ Fail(w) /\ UNCHANGED dest
  /\ UNCHANGED <<node, files, writable, shell>>

\* Mutant: the first choice, whatever it is (CB-194).
FirstChoice(w) == IF job[w].inPlace THEN {2} ELSE {1}

\* diagnostic_stream: the first choice, else the other one, else none.
DiagnosticStream(w) ==
  LET first == IF job[w].inPlace THEN 2 ELSE 1 IN
  CASE first \notin job[w].matched -> {first}
    [] first \in job[w].matched /\ 3 - first \notin job[w].matched -> {3 - first}
    [] OTHER -> {}

\* The confirmation is printed.
Report(w) ==
  /\ job[w].at = "report"
  /\ files' = IF DiagnosticStream(w) \cap shell[w].fds # {} /\ shell[w].inode # 0
              THEN [files EXCEPT ![shell[w].inode].noise = TRUE] ELSE files
  /\ job' = [job EXCEPT ![w].at = "done"]
  /\ UNCHANGED <<node, dest, writable, shell>>

\* SIGKILL: nothing can clean up.
Kill(w) ==
  /\ job[w].at \in {"temp", "written", "through", "report"}
  /\ job' = [job EXCEPT ![w].at = "killed"]
  /\ UNCHANGED <<node, dest, files, writable, shell>>

Init ==
  /\ node \in {"plain", "stream", "dir", "socket"}
  /\ dest \in CASE node = "plain" -> {0, 1} [] node = "stream" -> {1} [] OTHER -> {0}
  /\ files = <<File(Nobody, TRUE)>>
  /\ writable \in [{"file", "dir"} -> BOOLEAN]
  /\ shell \in [Writers -> {[fds |-> {}, inode |-> 0]} \cup
                           [fds : (SUBSET {1, 2}) \ {{}}, inode : {1} \cap {dest}]]
  /\ job = [w \in Writers |-> Idle]

Next == \E w \in Writers :
  \/ Refuse(w) \/ OpenInPlace(w) \/ WriteThrough(w)
  \/ MakeTemp(w) \/ WriteTemp(w) \/ Replace(w)
  \/ Report(w) \/ Kill(w)

Spec == Init /\ [][Next]_vars

-----------------------------------------------------------------------------
(* Properties. *)

(* Whoever looks at the destination, after any failure or kill of any of the *)
(* writers: the file is whole unless a writer went through it in place, no   *)
(* confirmation was printed into an export, and the only temporary files     *)
(* left are those of writers at work or killed.                              *)
DestinationStaysWhole ==
  /\ dest # 0 =>
       /\ files[dest].whole \/ job[files[dest].by].inPlace
       /\ ~files[dest].noise
  /\ \A w \in Writers : job[w].temp # 0 /\ ~job[w].inPlace =>
       job[w].at \in {"temp", "written", "killed"} /\ job[w].temp # dest
=============================================================================
