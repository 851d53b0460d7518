----------------------------- MODULE Provenance -----------------------------
(***************************************************************************)
(* What became of a finding's file since the commit it was reported at:    *)
(* file_status and check_findings in src/src/codebugs/provenance.py.       *)
(*                                                                         *)
(* A verdict is put together from questions to git and to the disk.  Each  *)
(* is a call of its own that may go unanswered, while HEAD and the disk    *)
(* move.  A batch shares a verdict among findings of one file and commit.  *)
(*                                                                         *)
(* One file value is modelled, and a history without branches: a commit is *)
(* its place in it.                                                        *)
(***************************************************************************)
EXTENDS Naturals, FiniteSets, Sequences

CONSTANTS
  Findings,
  Rings,      \* what a finding's observations may be
  Trees,      \* what a commit may hold
  MaxCommits, \* bound: commits of the history
  MaxDisk     \* bound: changes of the disk that no commit makes

VARIABLES
  history,    \* by commit: what is at the file's path and at another path
  disk,       \* what is at the path on disk, and how often that changed
  scope,      \* where the file value leads; "outside" are also those nobody can
              \* ask about: empty, with a NUL, under a relative GIT_DIR
  seen,       \* by finding: the commits of its observations, first report first
              \* (findings.py; what is added later is in no batch that began)
  batch       \* where check_findings stands

vars == <<history, disk, scope, seen, batch>>

\* Contents x and y of a blob, a directory, or nothing; the other path holds a
\* blob or nothing.
Places == {"absent", "x", "y", "tree"}
Blobs == {"x", "y"}
Verdicts == {"current", "modified", "renamed", "deleted", "unknown"}

\* 0 is an observation without a commit; a number past the history a commit
\* that this repository does not have.
Commits == 0..(MaxCommits + 1)

\* There is a first commit.
ProvenanceAssumption ==
  /\ Rings \subseteq Seq(Commits) /\ Trees \subseteq [here : Places, there : Places]
  /\ MaxCommits \in Nat \ {0} /\ MaxDisk \in Nat

Idle == [at |-> "idle", todo |-> {}, one |-> {}, root |-> FALSE, head |-> 1, quiet |-> TRUE,
         commit |-> [f \in Findings |-> 0], cache |-> <<>>]

TypeOK ==
  /\ history \in Seq([here : Places, there : Places]) /\ Len(history) \in 1..MaxCommits
  /\ disk \in [is : {"file", "dir", "other", "absent"}, moves : 0..MaxDisk]
  /\ scope \in {"inside", "outside"}
  /\ seen \in [Findings -> Seq(Commits)]
  /\ batch.at \in {"idle", "next", "log", "current", "stat", "dir", "diff"}
  /\ batch.todo \subseteq Findings
  /\ batch.one \subseteq Findings /\ DOMAIN batch.cache \subseteq Commits
  /\ \A k \in DOMAIN batch.cache : batch.cache[k] \in Verdicts

-----------------------------------------------------------------------------
(* External: git and the disk. *)

Tip == Len(history)

\* git log commit..HEAD -- path has output.
Touched(c) == \E k \in c..(Tip - 1) : history[k].here # history[k + 1].here

\* git diff -M pairs the blob that is gone with the one that is new.
Paired(c) ==
  /\ history[c].here \in Blobs /\ history[Tip].here \notin Blobs
  /\ history[c].there = "absent" /\ history[Tip].there = history[c].here

\* What a checkout of a tree leaves at the path.
OnDisk(is) == IF is \in Blobs THEN "file" ELSE IF is = "tree" THEN "dir" ELSE "absent"

Moved == [batch EXCEPT !.quiet = FALSE]

\* Somebody commits, or pulls.
Commit(tree) ==
  /\ Tip < MaxCommits
  /\ history' = Append(history, tree)
  /\ disk' = [disk EXCEPT !.is = OnDisk(tree.here)]
  /\ batch' = Moved
  /\ UNCHANGED <<scope, seen>>

\* Somebody changes the disk and does not commit.
Disturb(is) ==
  /\ disk.moves < MaxDisk /\ disk.is # is
  /\ disk' = [is |-> is, moves |-> disk.moves + 1]
  /\ batch' = Moved
  /\ UNCHANGED <<history, scope, seen>>

-----------------------------------------------------------------------------
(* check_findings. *)

\* _effective_commit: the newest observation that carries a commit.
Effective(f) ==
  LET usable == {i \in DOMAIN seen[f] : seen[f][i] # 0}
  IN IF usable = {} THEN 0 ELSE seen[f][CHOOSE i \in usable : \A j \in usable : j <= i]

\* Mutant: verdicts are shared by the column, which is frozen at the first report
\* (CB-53).
ByColumn(f) == seen[f][1]

\* The key of staleness_by_key; the file is the same for all.
Key(f) == batch.commit[f]

\* The rows are read, and the worktree's root is resolved once.
Begin(answered) ==
  /\ batch.at = "idle"
  /\ batch' = [Idle EXCEPT !.at = "next", !.todo = Findings, !.root = answered,
                           !.commit = [f \in Findings |-> Effective(f)], !.head = Tip]
  /\ UNCHANGED <<history, disk, scope, seen>>

One == CHOOSE f \in batch.one : TRUE
Tell(f, verdict) ==
  batch' = [batch EXCEPT !.at = "next", !.one = {},
    !.cache = [k \in DOMAIN @ \cup {Key(f)} |-> IF k = Key(f) THEN verdict ELSE @[k]]]
Ask(probe) == batch' = [batch EXCEPT !.at = probe]

\* The next finding: a verdict of its key is used again; else what file_status
\* decides before it looks at the file.
NextFinding(f, answered) ==
  /\ batch.at = "next" /\ f \in batch.todo
  /\ LET c == batch.commit[f]
         rest == [batch EXCEPT !.todo = @ \ {f}] IN
     CASE Key(f) \in DOMAIN batch.cache ->
            batch' = rest
       [] Key(f) \notin DOMAIN batch.cache /\
          (c = 0 \/ c > Tip \/ ~batch.root \/ scope # "inside" \/ ~answered) ->
            batch' = [rest EXCEPT !.cache = [k \in DOMAIN @ \cup {Key(f)} |->
                                               IF k = Key(f) THEN "unknown" ELSE @[k]]]
       [] OTHER -> batch' = [rest EXCEPT !.at = "log", !.one = {f}]
  /\ UNCHANGED <<history, disk, scope, seen>>

\* git log over the range.
ProbeLog(answered) ==
  /\ batch.at = "log"
  /\ IF ~answered THEN Tell(One, "unknown")
     ELSE Ask(IF Touched(batch.commit[One]) THEN "stat" ELSE "current")
  /\ UNCHANGED <<history, disk, scope, seen>>

\* The range is empty: was the path in the commit at all (_kind_at_commit)?
ProbeCurrent(answered) ==
  /\ batch.at = "current"
  /\ Tell(One, IF ~answered \/ history[batch.commit[One]].here = "absent"
               THEN "unknown" ELSE "current")
  /\ UNCHANGED <<history, disk, scope, seen>>

\* os.stat: absence is an answer, any other error is not one.
ProbeStat(answered) ==
  /\ batch.at = "stat"
  /\ CASE ~answered \/ disk.is = "other" -> Tell(One, "unknown")
       [] answered /\ disk.is = "file" -> Tell(One, "modified")
       [] answered /\ disk.is = "dir" -> Ask("dir")
       [] OTHER -> Ask("diff")
  /\ UNCHANGED <<history, disk, scope, seen>>

\* A directory is there: it was modified, unless the path was a file.
ProbeDir(answered) ==
  /\ batch.at = "dir"
  /\ CASE ~answered -> Tell(One, "unknown")
       [] answered /\ history[batch.commit[One]].here \notin Blobs -> Tell(One, "modified")
       [] OTHER -> Ask("diff")
  /\ UNCHANGED <<history, disk, scope, seen>>

\* Mutant: a diff that could not be asked found no rename (CB-79).
SilentRename(c, answered) == IF ~answered THEN "deleted" ELSE IF Paired(c) THEN "renamed" ELSE "deleted"

\* git diff -M, and its records.
Rename(c, answered) == IF ~answered THEN "unknown" ELSE IF Paired(c) THEN "renamed" ELSE "deleted"

ProbeDiff(answered) ==
  /\ batch.at = "diff"
  /\ Tell(One, Rename(batch.commit[One], answered))
  /\ UNCHANGED <<history, disk, scope, seen>>

\* The report is read, and another batch may start.
End ==
  /\ batch.at = "next" /\ batch.todo = {}
  /\ batch' = Idle
  /\ UNCHANGED <<history, disk, scope, seen>>

Init ==
  /\ history \in {<<tree>> : tree \in Trees}
  /\ disk = [is |-> OnDisk(history[1].here), moves |-> 0]
  /\ scope \in {"inside", "outside"}
  /\ seen \in [Findings -> Rings]
  /\ batch = Idle

Next ==
  \/ \E tree \in Trees : Commit(tree)
  \/ \E is \in {"file", "dir", "other", "absent"} : Disturb(is)
  \/ \E answered \in BOOLEAN :
       \/ Begin(answered) \/ ProbeLog(answered) \/ ProbeCurrent(answered)
       \/ ProbeStat(answered) \/ ProbeDir(answered) \/ ProbeDiff(answered)
       \/ \E f \in Findings : NextFinding(f, answered)
  \/ End

Spec == Init /\ [][Next]_vars

-----------------------------------------------------------------------------
(* Properties. *)

(* No verdict is made of a question that was not answered: whatever probes   *)
(* failed on the way, and whichever finding the verdict was computed for,    *)
(* one other than "unknown" fits the newest commit that this finding was     *)
(* seen at.  One that says the file did not change is right about all        *)
(* commits up to the batch's beginning, one that says it did names a range   *)
(* that changed it, and while nothing moves, what it says of the file is so. *)
VerdictIsEarned ==
  \A f \in Findings :
    (batch.at # "idle" /\ f \in batch.todo \cup batch.one /\ batch'.at = "next"
       /\ f \notin batch'.todo /\ batch'.cache[Key(f)] # "unknown") =>
      LET c == batch.commit[f] said == batch'.cache[Key(f)] IN
      /\ c \in 1..Tip /\ scope = "inside"
      /\ said = "current" => /\ history[c].here # "absent"
                             /\ \A k \in c..batch.head : history[k].here = history[c].here
      /\ said # "current" => Touched(c)
      /\ batch.quiet =>
           /\ said = "current" => ~Touched(c)
           /\ said = "modified" => disk.is = "file" \/ (disk.is = "dir" /\ history[c].here \notin Blobs)
           /\ said \in {"renamed", "deleted"} =>
                disk.is = "absent" \/ (disk.is = "dir" /\ history[c].here \in Blobs)
           /\ said = "renamed" <=> Paired(c) /\ said \in {"renamed", "deleted"}

VerdictsAreEarned == [][VerdictIsEarned]_vars
=============================================================================
