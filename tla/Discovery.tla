----------------------------- MODULE Discovery -----------------------------
(***************************************************************************)
(* Which tracker a call is bound to, and who may create one: the second    *)
(* half of src/src/codebugs/db.py.                                         *)
(*                                                                         *)
(* A tracker is a directory .codebugs with a file findings.db.  It is      *)
(* named by the caller, declared for the process, or found by walking up   *)
(* from the current directory; only the walk and init may create the file. *)
(* The walk stops at a repository's .git directory, and jumps from a       *)
(* linked worktree to its main checkout.  Any of its questions may go      *)
(* unanswered: a permission, a loop of links, a mount that is gone.        *)
(*                                                                         *)
(* Every call looks first and opens later, and the file system moves in    *)
(* between: other calls, git, and people who delete things.                *)
(***************************************************************************)
EXTENDS Naturals, FiniteSets

CONSTANTS
  Dirs,       \* directories
  Parent,     \* Parent[d]; the top is its own parent
  Main,       \* Main[d]: the checkout that d's .git file leads to, or NoDir
  Callers,    \* processes
  NoDir,
  MaxTrouble  \* bound: unanswered questions and sealed trackers at once

\* What the constants must be: finitely many directories, and no way up that
\* goes round.
DiscoveryAssumption ==
  /\ Parent \in [Dirs -> Dirs]
  /\ Main \in [Dirs -> Dirs \cup {NoDir}]
  /\ NoDir \notin Dirs
  /\ IsFiniteSet(Dirs)
  /\ \A S \in (SUBSET Dirs) \ {{}} : \E d \in S : Parent[d] = d \/ Parent[d] \notin S

VARIABLES
  tracker,    \* what is at d/.codebugs
  base,       \* what is at d/.codebugs/findings.db
  git,        \* what is at d/.git
  dark,       \* the questions about paths that get no answer now
  sealed,     \* the trackers whose directory cannot be written
  call        \* where each caller's call stands

vars == <<tracker, base, git, dark, sealed, call>>

\* A .git that is a file leads to a linked worktree's directory, with a file
\* commondir in it, or to a submodule's, without.
Git == {"absent", "dir", "worktree", "submodule"}
IsFile(g) == g \in {"worktree", "submodule"}

\* The questions: what is at .codebugs, at findings.db, at .git; what the .git
\* file says; whether commondir is there and what it says.
Questions == {"tracker", "base", "git", "gitfile", "commondir", "common"}
Paths == Dirs \X Questions

Idle == [at |-> "idle", root |-> NoDir, create |-> FALSE]
Places == {"idle", "open", "make"}

TypeOK ==
  /\ tracker \in [Dirs -> {"absent", "dir", "other"}]
  /\ base \in [Dirs -> {"absent", "file", "other"}]
  /\ git \in [Dirs -> Git]
  /\ dark \in SUBSET Paths
  /\ sealed \in SUBSET Dirs
  /\ call \in [Callers -> [at : Places, root : Dirs \cup {NoDir}, create : BOOLEAN]]

-----------------------------------------------------------------------------
(* The questions.  dk is the set of those that go unanswered. *)

\* Mutant: os.path.isdir, which answers "not there" when it cannot look (CB-203).
TwoValued(d, q, is, dk) == IF <<d, q>> \in dk THEN "absent" ELSE is[d]

\* _path_state: what is there, or "unknown".
PathState(d, q, is, dk) == IF <<d, q>> \in dk THEN "unknown" ELSE is[d]

\* Mutant: the .git file that cannot be read is no worktree's (CB-227).
UnreadIsNone(d, dk) ==
  CASE <<d, "gitfile">> \in dk -> [yes |-> FALSE, blind |-> {}]
    [] <<d, "commondir">> \in dk /\ <<d, "gitfile">> \notin dk ->
         [yes |-> FALSE, blind |-> {<<d, "commondir">>}]
    [] OTHER -> [yes |-> git[d] = "worktree", blind |-> {}]

\* _linked_worktree_gitdir: is the directory of this .git file a worktree, and
\* the question that kept it from knowing.
Linked(d, dk) ==
  CASE <<d, "gitfile">> \in dk -> [yes |-> FALSE, blind |-> {<<d, "gitfile">>}]
    [] <<d, "commondir">> \in dk /\ <<d, "gitfile">> \notin dk ->
         [yes |-> FALSE, blind |-> {<<d, "commondir">>}]
    [] OTHER -> [yes |-> git[d] = "worktree", blind |-> {}]

\* _worktree_main_root: the main checkout; NoDir for a bare or unusual one.
MainRoot(d, dk) ==
  LET linked == Linked(d, dk) IN
  CASE ~linked.yes -> [root |-> NoDir, blind |-> linked.blind]
    [] linked.yes /\ <<d, "common">> \in dk -> [root |-> NoDir, blind |-> {<<d, "common">>}]
    [] OTHER -> [root |-> Main[d], blind |-> {}]

\* What an undetermined answer adds to the list of the unexamined.
Unanswered(d, q, is, dk) ==
  IF PathState(d, q, is, dk) = "unknown" THEN {<<d, q>>} ELSE {}

\* _walk_db_root.  A tracker outranks the boundary of its own directory; what
\* cannot be examined is recorded and passed.
Walk(dk) ==
  LET walk[w \in [dir : Dirs, seen : SUBSET Dirs, blind : SUBSET Paths]] ==
        LET met == w.blind \cup Unanswered(w.dir, "tracker", tracker, dk)
            look == PathState(w.dir, "git", git, dk)
            main == MainRoot(w.dir, dk)
            past == met \cup Unanswered(w.dir, "git", git, dk)
            On(next, blind) == walk[[dir |-> next, seen |-> w.seen \cup {w.dir}, blind |-> blind]] IN
        CASE w.dir \in w.seen -> [root |-> NoDir, blind |-> w.blind]
          [] w.dir \notin w.seen /\ PathState(w.dir, "tracker", tracker, dk) = "dir" ->
               [root |-> w.dir, blind |-> w.blind]
          [] OTHER ->
               CASE look = "dir" -> [root |-> NoDir, blind |-> met]
                 [] IsFile(look) /\ main.root = NoDir -> [root |-> NoDir, blind |-> met \cup main.blind]
                 [] IsFile(look) /\ main.root # NoDir -> On(main.root, met)
                 [] OTHER -> IF Parent[w.dir] = w.dir THEN [root |-> NoDir, blind |-> past]
                             ELSE On(Parent[w.dir], past)
  IN walk

Found(d, dk) == Walk(dk)[[dir |-> d, seen |-> {}, blind |-> {}]]

\* _enclosing_worktree_root: the linked worktree around d.
Enclosing(from, dk) ==
  LET up[d \in Dirs] ==
        LET look == PathState(d, "git", git, dk)
            linked == Linked(d, dk) IN
        CASE look = "dir" -> [root |-> NoDir, blind |-> {}]
          [] IsFile(look) -> [root |-> IF linked.yes THEN d ELSE NoDir, blind |-> linked.blind]
          [] OTHER -> IF Parent[d] = d THEN [root |-> NoDir, blind |-> {}] ELSE up[Parent[d]]
  IN up[from]

\* The directories on the way up, for the statement of properties.
Above[d \in Dirs] == IF Parent[d] = d THEN {d} ELSE {d} \cup Above[Parent[d]]

\* describe_root from d on the walk: is a database there, and, only when it is
\* proven absent, may its directory be written (_access_probe).
Describe(d, dk) ==
  LET root == Found(d, dk).root
      kind == IF root = NoDir THEN "unknown" ELSE PathState(root, "base", base, dk) IN
  [root |-> root, unexamined |-> Found(d, dk).blind,
   exists |-> CASE kind = "file" -> "yes" [] kind = "absent" -> "no" [] OTHER -> "unknown",
   writable |-> kind = "absent" /\ root \notin sealed]

-----------------------------------------------------------------------------
(* Calls. *)

\* connect(project_dir), or under a declared root: one path, which must hold a
\* database already.  Whoever cannot be sure is refused.
ResolveNamed(c, d) ==
  /\ call[c] = Idle
  /\ PathState(d, "tracker", tracker, dark) = "dir"
  /\ PathState(d, "base", base, dark) = "file"
  /\ call' = [call EXCEPT ![c] = [at |-> "open", root |-> d, create |-> FALSE]]
  /\ UNCHANGED <<tracker, base, git, dark, sealed>>

\* connect() from a working directory.
ResolveWalk(c, d) ==
  /\ call[c] = Idle
  /\ Found(d, dark).root # NoDir
  /\ call' = [call EXCEPT ![c] = [at |-> "open", root |-> Found(d, dark).root, create |-> TRUE]]
  /\ UNCHANGED <<tracker, base, git, dark, sealed>>

\* Mutant: the open creates what the check had seen (CB-23).
OpensAnyway(c) ==
  /\ tracker[call[c].root] = "dir" /\ call[c].root \notin sealed
  /\ base[call[c].root] # "other"

\* sqlite3.connect: mode=rw opens only what is there; otherwise it is created,
\* in a directory that exists.  The WAL pragma needs the directory writable.
Opens(c) ==
  /\ tracker[call[c].root] = "dir" /\ call[c].root \notin sealed
  /\ {<<call[c].root, "tracker">>, <<call[c].root, "base">>} \cap dark = {}
  /\ base[call[c].root] # "other"
  /\ call[c].create \/ base[call[c].root] = "file"

\* _open, and the end of the call: bound, or refused because things changed.
Open(c) ==
  /\ call[c].at = "open"
  /\ base' = IF Opens(c) THEN [base EXCEPT ![call[c].root] = "file"] ELSE base
  /\ call' = [call EXCEPT ![c] = Idle]
  /\ UNCHANGED <<tracker, git, dark, sealed>>

\* What init checks before it creates anything at d.
Free(d) ==
  /\ PathState(d, "tracker", tracker, dark) \in {"absent", "dir"}
  /\ Found(d, dark).root \in {NoDir, d}
  /\ Enclosing(d, dark).root = NoDir
  /\ Enclosing(d, dark).blind = {}

\* init_project, without --force and with it.
InitCheck(c, d) ==
  /\ call[c] = Idle
  /\ Free(d)
  /\ call' = [call EXCEPT ![c] = [at |-> "make", root |-> d, create |-> TRUE]]
  /\ UNCHANGED <<tracker, base, git, dark, sealed>>

InitForce(c, d) ==
  /\ call[c] = Idle
  /\ PathState(d, "tracker", tracker, dark) \in {"absent", "dir"}
  /\ call' = [call EXCEPT ![c] = [at |-> "make", root |-> d, create |-> TRUE]]
  /\ UNCHANGED <<tracker, base, git, dark, sealed>>

\* os.makedirs(exist_ok=True) raises on anything but a directory.
InitMake(c) ==
  /\ call[c].at = "make"
  /\ IF tracker[call[c].root] = "other"
     THEN UNCHANGED tracker /\ call' = [call EXCEPT ![c] = Idle]
     ELSE /\ tracker' = [tracker EXCEPT ![call[c].root] = "dir"]
          /\ call' = [call EXCEPT ![c].at = "open"]
  /\ UNCHANGED <<base, git, dark, sealed>>

-----------------------------------------------------------------------------
(* External: processes that die, people, permissions. *)

Die(c) ==
  /\ call[c] # Idle
  /\ call' = [call EXCEPT ![c] = Idle]
  /\ UNCHANGED <<tracker, base, git, dark, sealed>>

RemoveBase(d) ==
  /\ base[d] = "file"
  /\ base' = [base EXCEPT ![d] = "absent"]
  /\ UNCHANGED <<tracker, git, dark, sealed, call>>

\* A tracker is deleted, and perhaps something else put in its place.
RemoveTracker(d, left) ==
  /\ tracker[d] = "dir"
  /\ tracker' = [tracker EXCEPT ![d] = left]
  /\ base' = [base EXCEPT ![d] = "absent"]
  /\ sealed' = sealed \ {d}
  /\ UNCHANGED <<git, dark, call>>

\* Questions get and lose their answers.
Darken(d, q) ==
  /\ dark' = IF <<d, q>> \in dark THEN dark \ {<<d, q>>} ELSE dark \cup {<<d, q>>}
  /\ Cardinality(dark') + Cardinality(sealed) <= MaxTrouble
  /\ UNCHANGED <<tracker, base, git, sealed, call>>

Seal(d) ==
  /\ tracker[d] = "dir"
  /\ sealed' = IF d \in sealed THEN sealed \ {d} ELSE sealed \cup {d}
  /\ Cardinality(dark) + Cardinality(sealed') <= MaxTrouble
  /\ UNCHANGED <<tracker, base, git, dark, call>>

Init ==
  /\ tracker \in [Dirs -> {"absent", "dir", "other"}]
  /\ base \in [Dirs -> {"absent", "file", "other"}]
  /\ \A d \in Dirs : base[d] # "absent" => tracker[d] = "dir"
  /\ git \in [Dirs -> Git]
  /\ \A d \in Dirs : Main[d] # NoDir => git[d] \in {"absent", "worktree"}
  /\ dark = {} /\ sealed = {}
  /\ call = [c \in Callers |-> Idle]

Next ==
  \/ \E c \in Callers, d \in Dirs :
       ResolveNamed(c, d) \/ ResolveWalk(c, d) \/ InitCheck(c, d) \/ InitForce(c, d)
  \/ \E c \in Callers : Open(c) \/ InitMake(c) \/ Die(c)
  \/ \E d \in Dirs : RemoveBase(d) \/ Seal(d)
  \/ \E d \in Dirs, left \in {"absent", "other"} : RemoveTracker(d, left)
  \/ \E d \in Dirs, q \in Questions : Darken(d, q)

Spec == Init /\ [][Next]_vars

-----------------------------------------------------------------------------
(* Properties. *)

(* A database comes into being only for a call that walked up to its tracker *)
(* or initialised it, also when the file vanishes between the check of a     *)
(* named or declared root and the open: never a second, empty tracker.       *)
OptedIn ==
  \A d \in Dirs : base[d] = "absent" /\ base'[d] = "file" =>
    \E c \in Callers : call[c] = [at |-> "open", root |-> d, create |-> TRUE]

OnlyTheOptedInCreate == [][OptedIn]_vars

(* Wherever a call stands, the tracker it is bound to is the one it would be *)
(* bound to if every question were answered, or the list of the unexamined   *)
(* says that it may not be; and an init that is let through is in no linked  *)
(* worktree and under no other tracker, with the same proviso and the one    *)
(* its code names, a .git path that cannot be examined at all.               *)
BindingIsTrueOrFlagged ==
  \A d \in Dirs :
    /\ Found(d, dark).blind = {} => Found(d, dark).root = Found(d, {}).root
    /\ Free(d) =>
         /\ Found(d, dark).blind = {} => Found(d, {}).root \in {NoDir, d}
         /\ (\A x \in Above[d] : <<x, "git">> \notin dark) => Enclosing(d, {}).root = NoDir

(* What `where` says is so: a database it reports is there; one it reports   *)
(* absent is absent, and when it promises that the next command creates it,  *)
(* the next command does.                                                    *)
WhereTellsTheTruth ==
  \A d \in Dirs :
    LET said == Describe(d, dark) IN
    /\ said.exists = "yes" => base[said.root] = "file"
    /\ said.exists = "no" => base[said.root] = "absent" /\ tracker[said.root] = "dir"
    /\ said.writable =>
         \A c \in Callers : call[c] = [at |-> "open", root |-> said.root, create |-> TRUE] =>
           Opens(c)
=============================================================================
