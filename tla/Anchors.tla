------------------------------ MODULE Anchors ------------------------------
(***************************************************************************)
(* Where a finding's line is now: capture and resolution of anchors, in    *)
(* src/src/codebugs/loc.py.                                                *)
(*                                                                         *)
(* An anchor remembers a span of the recorded file at one commit.  It is   *)
(* resolved against HEAD by two channels: reverse blame, which follows     *)
(* lines into other files, and a search for the normalized text in the     *)
(* recorded file.  HEAD is read once for a page of rows, and then named    *)
(* again in every question to git; each is a process of its own, and HEAD  *)
(* moves between any two of them.                                          *)
(***************************************************************************)
EXTENDS Naturals, FiniteSets, FiniteSetsExt, Sequences, SequencesExt

CONSTANTS
  Bodies,     \* normalized texts of a line
  Slight,     \* those too short to search for (MIN_ANCHOR_CHARS)
  Bases,      \* the recorded file at the anchor's commit, sequences of Bodies
  Metas,      \* what a row's meta says of places
  MaxSpan,    \* MAX_ANCHOR_LINES
  Around,     \* CONTEXT_LINES
  MaxEdits    \* bound: commits that move HEAD

VARIABLES
  base,       \* the recorded file as it was filed
  log,        \* what HEAD was, one entry for each time it moved
  head,       \* what it is: two files, and where the anchor's commit is from there
  anchor,     \* meta.loc, once the finding is filed
  job         \* a resolution in progress, or its answer

vars == <<base, log, head, anchor, job>>

\* The recorded file and another one.  A line is known to git by its number in
\* base, or 0 when it is new; "how" is what normalization drops.
Files == {"recorded", "other"}
Lines == [id : Nat, body : Bodies, how : BOOLEAN]
Heads == [recorded : Seq(Lines), other : Seq(Lines), past : {"branch", "ancestor", "gone", "foreign"}]
Nowhere == "nowhere"
Sites == [path : {"none", "recorded", "other"}, line : Nat \ {0}, end : Nat]
Site(path, line, end) == [path |-> path, line |-> line, end |-> end]

\* A place names a line of a file, counted from one.
AnchorsAssumption ==
  /\ Bases \subseteq Seq(Bodies) /\ MaxSpan \in Nat /\ Around \in Nat /\ MaxEdits \in Nat
  /\ Metas \subseteq [{"line", "lines", "sites"} -> Seq(Sites)]

Refusals == {"no_grammar", "no_matching_site", "out_of_range", "too_short", "no_repo"}
Statuses == {"current", "moved", "moved_file", "lost", "ambiguous", "unknown"}
None == [skipped |-> "no_repo", line |-> 0, end |-> 0]
Idle == [at |-> "idle", version |-> 0, ran |-> FALSE, alive |-> {}, checked |-> {}, looked |-> 0,
         answer |-> [status |-> "unknown", path |-> "recorded", line |-> 0, end |-> 0]]

TypeOK ==
  /\ base \in Seq(Lines) /\ log \in Seq(Heads) /\ Len(log) <= MaxEdits /\ head \in Heads
  /\ anchor.skipped \in Refusals \cup {"none", "unfiled"}
  /\ job.at \in {"idle", "context", "gated", "blamed", "searching", "found", "done"}
  /\ job.version <= Len(log) /\ job.looked <= Len(log) /\ job.checked \subseteq Files
  /\ job.answer.status \in Statuses /\ job.answer.path \in Files

-----------------------------------------------------------------------------
(* Capture. *)

\* _KEY_PRIORITY, over the spellings that matter: a singular and a plural key.
KeyPriority == <<"line", "lines", "sites">>

\* parse_sites_with_key: the first key that names a place wins outright.
ParseSites(meta) ==
  LET speaks == {i \in DOMAIN KeyPriority : meta[KeyPriority[i]] # <<>>}
  IN IF speaks = {} THEN <<>> ELSE meta[KeyPriority[Min(speaks)]]

\* Mutant: the key of the input's own name is looked at (CB-236).
OwnKeyOnly(value, meta) == meta["lines"] # value

\* _named_input_conflict: would the place the caller named be the one that
\* results?
NamedInputConflict(value, meta) == ParseSites(meta) # value

\* select_site: the first site that names this file, or else the first that
\* names none; sites of other files are dropped.
SelectSite(sites) ==
  LET Naming(path) == {i \in DOMAIN sites : sites[i].path = path} IN
  IF Naming("recorded") # {} THEN sites[Min(Naming("recorded"))]
  ELSE IF Naming("none") # {} THEN sites[Min(Naming("none"))] ELSE Site(Nowhere, 0, 0)

Sizeable(lines) == \E i \in DOMAIN lines : lines[i].body \notin Slight

\* capture: coordinates clipped to the file and to the longest span, or why not.
Capture(meta, answered) ==
  LET site == SelectSite(ParseSites(meta))
      end == Min({site.end, Len(base), site.line + MaxSpan - 1})
      Refused(token) == [skipped |-> token, line |-> 0, end |-> 0] IN
  CASE ~answered -> Refused("no_repo")
    [] answered /\ ParseSites(meta) = <<>> -> Refused("no_grammar")
    [] answered /\ ParseSites(meta) # <<>> /\ site.path = Nowhere -> Refused("no_matching_site")
    [] answered /\ site.path # Nowhere /\ site.line > Len(base) -> Refused("out_of_range")
    [] OTHER -> IF Sizeable(SubSeq(base, site.line, end))
                THEN [skipped |-> "none", line |-> site.line, end |-> end]
                ELSE Refused("too_short")

\* The finding is filed.  A surface with an input of that name (-l, lines=)
\* stores it in meta and refuses a conflict; "answered" is whether git answers.
File(meta, named, answered) ==
  /\ anchor.skipped = "unfiled"
  /\ named => meta["lines"] # <<>> /\ ~NamedInputConflict(meta["lines"], meta)
  /\ anchor' = Capture(meta, answered)
  /\ UNCHANGED <<base, log, head, job>>

-----------------------------------------------------------------------------
(* External: git. *)

Span == anchor.line..anchor.end
Text(src) == base[src]
SameText(a, b) == a.body = b.body /\ a.how = b.how

\* What HEAD was at its v-th move.
Tree(v) == IF v = Len(log) THEN head ELSE log[v + 1]

\* Where the lines of the span are in a tree.
Placed(tree) ==
  {e \in [src : Span, path : Files, line : 1..(Len(tree.recorded) + Len(tree.other))] :
     e.line \in DOMAIN tree[e.path] /\ tree[e.path][e.line].id = e.src}

\* git blame --reverse names for each line the last commit on the way to HEAD
\* that has it, and where it is there.  Of these the code keeps what names the
\* HEAD it has read: the lines that are left, or if HEAD has moved since, those
\* that its next commit removed.  From a commit that HEAD does not contain there
\* is no way, and blame says so with rc 0.
Blame ==
  LET read == Tree(job.version) IN
  IF "ancestor" \notin {head.past} \cap {read.past} THEN {}
  ELSE IF job.version = Len(log) THEN Placed(read)
  ELSE {e \in Placed(read) : \A o \in Placed(Tree(job.version + 1)) : o.src # e.src}

\* A commit moves HEAD: a line is added, deleted, reformatted, or moved to the
\* end of the other file; the branch of the anchor's commit is merged; or the
\* history that contains it is rewritten.
MoveHead(tree) ==
  /\ Len(log) < MaxEdits
  /\ head' = tree /\ log' = Append(log, head)
  /\ UNCHANGED <<base, anchor, job>>

Edit(f, i, body) ==
  \E new \in
     {InsertAt(head[f], i, [id |-> 0, body |-> body, how |-> TRUE])} \cup
     (IF i \in DOMAIN head[f]
      THEN {RemoveAt(head[f], i), [head[f] EXCEPT ![i].how = FALSE, ![i].id = 0]} ELSE {}) :
     MoveHead([head EXCEPT ![f] = new])

MoveAway(i) ==
  /\ i \in DOMAIN head.recorded
  /\ MoveHead([recorded |-> RemoveAt(head.recorded, i),
               other |-> Append(head.other, head.recorded[i]), past |-> head.past])

MergeBranch == head.past = "branch" /\ MoveHead([head EXCEPT !.past = "ancestor"])
Rewrite == head.past = "ancestor" /\ MoveHead([head EXCEPT !.past = "gone"])

-----------------------------------------------------------------------------
(* Resolution. *)

Record(status, path, line, end) == [status |-> status, path |-> path, line |-> line, end |-> end]
Lost == Record("lost", "recorded", 0, 0)
Unknown == Record("unknown", "recorded", 0, 0)
Answers(record) == job' = [Idle EXCEPT !.at = "done", !.version = job.version, !.answer = record]

\* _resolution_context, once for a page of rows: HEAD's commit is read.
Context ==
  /\ anchor.skipped = "none" /\ job.at = "idle"
  /\ job' = [Idle EXCEPT !.at = "context", !.version = Len(log)]
  /\ UNCHANGED <<base, log, head, anchor>>

\* Mutant: no gate before the trace.
NoGate == head.past \in {"branch", "ancestor"}

\* The commit resolves here, in this repository, and HEAD contains it.
IsAncestor == head.past = "ancestor"

\* The gates of resolve_anchor.
Gate ==
  /\ job.at = "context"
  /\ IF IsAncestor THEN job' = [job EXCEPT !.at = "gated"] ELSE Answers(Unknown)
  /\ UNCHANGED <<base, log, head, anchor>>

\* _channel_a, its trace: blame fails, or lines are alive, or none is.
Trace ==
  /\ job.at = "gated"
  /\ \E ran \in BOOLEAN : LET alive == IF ran THEN Blame ELSE {} IN
       job' = [job EXCEPT !.at = IF alive = {} THEN "searching" ELSE "blamed",
                          !.ran = ran, !.alive = alive]
  /\ UNCHANGED <<base, log, head, anchor>>

\* The budget is spent, or a call fails outright.
TimeOut ==
  /\ job.at \in {"context", "gated", "blamed", "searching", "found"}
  /\ Answers(Unknown)
  /\ UNCHANGED <<base, log, head, anchor>>

\* The first of some lines, in the order of the span.
First(lines) == CHOOSE e \in lines : \A o \in lines : e.src <= o.src

\* Every surviving line of a file holds its text where it is said to have landed.
Verified(alive, path, tree) ==
  \A e \in alive : e.path = path =>
    e.line \in DOMAIN tree[path] /\ SameText(tree[path][e.line], Text(e.src))

\* _channel_a, the answer once every file is verified.
ChannelA(alive) ==
  LET first == First(alive)
      here == {e.line : e \in {o \in alive : o.path = first.path}} IN
  Record(IF first.path # "recorded" THEN "moved_file"
         ELSE IF Min(here) # anchor.line THEN "moved" ELSE "current",
         first.path, Min(here), Max(here))

\* The verify reads the next file that a surviving line landed in, out of the
\* HEAD of this moment.  After the last one channel A answers; a file that
\* cannot be read or disagrees ends it.
ReadBlob ==
  /\ job.at = "blamed"
  /\ LET path == First({e \in job.alive : e.path \notin job.checked}).path
         checked == job.checked \cup {path} IN
     \E read \in BOOLEAN :
       IF ~read \/ ~Verified(job.alive, path, head)
       THEN job' = [job EXCEPT !.at = "searching", !.ran = read]
       ELSE IF \A e \in job.alive : e.path \in checked THEN Answers(ChannelA(job.alive))
       ELSE job' = [job EXCEPT !.checked = checked]
  /\ UNCHANGED <<base, log, head, anchor>>

\* The lines around a span, without regard to order.
Near(lines, from, to) ==
  LET at == ((from - Min({Around, from}))..(to + Around)) \ (from..to)
  IN [i \in at \cap DOMAIN lines |-> lines[i].body]

\* _channel_b's score: how many lines around a candidate are around the original too.
Score(lines, i) ==
  LET mine == Near(lines, i, i + Cardinality(Span) - 1)
      original == Near(base, anchor.line, anchor.end) IN
  Cardinality({k \in DOMAIN mine :
    \E o \in DOMAIN original : original[o] = mine[k] /\ (k < i <=> o < anchor.line)})

\* Where the normalized text is in some lines, unless it is too short to look for.
Hits(lines) ==
  LET n == Cardinality(Span) IN
  {i \in DOMAIN lines :
     /\ Sizeable(SubSeq(base, anchor.line, anchor.end)) /\ i + n - 1 <= Len(lines)
     /\ \A k \in 0..(n - 1) : lines[i + k].body = Text(anchor.line + k).body}

Hit(i) == Record(IF i = anchor.line THEN "current" ELSE "moved",
                 "recorded", i, i + Cardinality(Span) - 1)

\* What channel A said when channel B does not answer.
Refusal == IF job.ran /\ job.alive = {} THEN Lost ELSE Unknown

\* _channel_b reads the recorded file, out of the HEAD of this moment; if it
\* cannot, or finds nothing, A's refusal is the answer.
Search ==
  /\ job.at = "searching"
  /\ \E read \in BOOLEAN : LET hits == IF read THEN Hits(head.recorded) ELSE {} IN
       IF Cardinality(hits) > 1 THEN job' = [job EXCEPT !.at = "found", !.looked = Len(log)]
       ELSE Answers(IF hits = {} THEN Refusal ELSE Hit(CHOOSE i \in hits : TRUE))
  /\ UNCHANGED <<base, log, head, anchor>>

\* Among several hits the context decides, for which the file is read as it was
\* at the anchor's commit.
Disambiguate ==
  /\ job.at = "found"
  /\ LET lines == Tree(job.looked).recorded
         best == {i \in Hits(lines) : \A o \in Hits(lines) : Score(lines, o) <= Score(lines, i)} IN
     \E read \in BOOLEAN :
       Answers(IF read /\ Cardinality(best) = 1 THEN Hit(CHOOSE i \in best : TRUE)
               ELSE Record("ambiguous", "recorded", 0, 0))
  /\ UNCHANGED <<base, log, head, anchor>>

\* The answer is read, and the next resolution may start.
Reset == job.at = "done" /\ job' = Idle /\ UNCHANGED <<base, log, head, anchor>>

Init ==
  /\ \E b \in Bases : base = [i \in DOMAIN b |-> [id |-> i, body |-> b[i], how |-> TRUE]]
  /\ \E past \in {"branch", "ancestor", "gone", "foreign"} :
       head = [recorded |-> base, other |-> <<>>, past |-> past]
  /\ log = <<>>
  /\ anchor = [skipped |-> "unfiled", line |-> 0, end |-> 0]
  /\ job = Idle

Next ==
  \/ \E meta \in Metas, named, answered \in BOOLEAN : File(meta, named, answered)
  \/ \E f \in Files, body \in Bodies : \E i \in 1..(Len(head[f]) + 1) : Edit(f, i, body)
  \/ \E i \in DOMAIN head.recorded : MoveAway(i)
  \/ MergeBranch \/ Rewrite
  \/ Context \/ Gate \/ Trace \/ ReadBlob \/ Search \/ Disambiguate \/ TimeOut \/ Reset

Spec == Init /\ [][Next]_vars

-----------------------------------------------------------------------------
(* Properties. *)

\* Where the lines of the span are now.
Alive == {id \in Span : \E f \in Files : \E n \in DOMAIN head[f] : head[f][n].id = id}

\* The coordinate of an answer holds the anchored text, up to normalization, in a tree.
HoldsIn(said, tree) ==
  /\ said.end \in DOMAIN tree[said.path]
  /\ \E src \in Span : tree[said.path][said.line].body = Text(src).body

(* The anchor of a finding filed with a place of its own is at that place,   *)
(* or says why it is nowhere.  And an answer is honest, whatever HEAD does   *)
(* between the questions it is made of: a coordinate held the anchored text  *)
(* at some HEAD since the resolution began (not always at the one it began   *)
(* with, nor the one it ends with); and when HEAD has stood still, a span is *)
(* called lost only if none of its lines is left anywhere, and a line that   *)
(* is left unchanged is not passed over for a look-alike.                    *)
AnswerIsHonest ==
  /\ \A meta \in Metas, answered \in BOOLEAN :
       File(meta, TRUE, answered) /\ anchor'.skipped = "none" =>
         \E i \in DOMAIN meta["lines"] :
           meta["lines"][i].path # "other" /\ anchor'.line = meta["lines"][i].line
  /\ job.at # "done" /\ job'.at = "done" =>
       LET said == job'.answer
           located == said.status \in {"current", "moved", "moved_file"} IN
       /\ located =>
            /\ \E v \in job.version..Len(log) : HoldsIn(said, Tree(v))
            /\ said.status = "current" <=> said.path = "recorded" /\ said.line = anchor.line
       /\ job.version = Len(log) =>
            /\ said.status = "lost" => Alive = {}
            /\ job.ran /\ Alive # {} /\ located => head[said.path][said.line].id \in Alive

AnchorsAreHonest == [][AnswerIsHonest]_vars
=============================================================================
