------------------------------ MODULE Trailers ------------------------------
(***************************************************************************)
(* Findings closed by commit trailers: resolve_trailers in                 *)
(* src/src/codebugs/provenance.py.  A pass goes over the trailers of a     *)
(* range of commits, newest commit first.  For each it reads the card, and *)
(* then calls update_finding, a transaction of its own: other passes and   *)
(* people come in between.                                                 *)
(*                                                                         *)
(* A note is its text: the verb and the commit decide all of it.           *)
(***************************************************************************)
EXTENDS Naturals, FiniteSets, Sequences, SequencesExt

CONSTANTS
  Cards,
  Passes,
  Bodies,     \* the trailers a commit may carry: sequences of <<verb, card>>
  MaxCommits, \* bound: commits
  MaxEdits,   \* bound: what people do to cards
  MaxPasses   \* bound: passes

VARIABLES
  cards,      \* status of each card, and how often its notes hold each note
  log,        \* the commits: the trailers of each
  pass,       \* by process: the pass it is in; fresh, quiet and again only say what
              \* others did since its last read and its start, and who was here before
  budget,     \* edits and passes so far
  settled     \* ranges that a pass went through, since when no one edited

vars == <<cards, log, pass, budget, settled>>

Verbs == {"resolves", "tightens"}
Notes == Verbs \X (1..MaxCommits)
Terminal == {"fixed", "wont_fix"}

TrailersAssumption ==
  /\ Bodies \subseteq Seq(Verbs \X Cards) /\ IsFiniteSet(Passes)
  /\ MaxCommits \in Nat /\ MaxEdits \in Nat /\ MaxPasses \in Nat

Buckets == {"resolved", "tightened", "skipped", "already_applied", "missing"}

Idle == [at |-> "idle", range |-> <<>>, todo |-> <<>>, seen |-> {}, dry |-> FALSE,
         fresh |-> FALSE, quiet |-> TRUE, again |-> FALSE, report |-> {}]

TypeOK ==
  /\ cards \in [Cards -> [status : {"absent", "open"} \cup Terminal, notes : [Notes -> 0..MaxPasses]]]
  /\ log \in Seq(Bodies)
  /\ settled \subseteq ((1..MaxCommits) \X (1..MaxCommits))
  /\ budget \in [edits : 0..MaxEdits, passes : 0..MaxPasses]
  /\ \A p \in Passes :
       /\ pass[p].at \in {"idle", "read", "write"}
       /\ pass[p].todo \in Seq(Verbs \X Cards \X (1..MaxCommits))
       /\ pass[p].seen \subseteq (Verbs \X Cards)
       /\ pass[p].report \subseteq (Buckets \X Cards)

-----------------------------------------------------------------------------

\* _parse_trailers: git log lists a range backwards, a commit's trailers stand
\* in their order.
ParseTrailers(first, last) ==
  FlattenSeq([k \in 1..(last - first + 1) |->
    LET c == last + 1 - k IN [i \in DOMAIN log[c] |-> <<log[c][i][1], log[c][i][2], c>>]])

\* resolve_trailers starts; when git does not answer there is no trailer.
BeginPass(p, first, dry) ==
  /\ pass[p].at = "idle" /\ budget.passes < MaxPasses
  /\ \E answered \in BOOLEAN :
       pass' = [pass EXCEPT ![p] =
         [Idle EXCEPT !.at = "read", !.dry = dry,
                      !.range = IF answered THEN <<first, Len(log)>> ELSE <<>>,
                      !.todo = IF answered THEN ParseTrailers(first, Len(log)) ELSE <<>>,
                      !.again = <<first, Len(log)>> \in settled]]
  /\ budget' = [budget EXCEPT !.passes = @ + 1]
  /\ UNCHANGED <<cards, log, settled>>

\* Mutant: the notes are not looked at.
NeverStored(card, note) == FALSE

\* _note_is_already_stored: as a whole line.
AlreadyStored(card, note) == cards[card].notes[note] > 0

\* p goes on; what another pass read of a card before may be stale now.
Step(p, q) ==
  pass' = [r \in Passes |-> IF r = p THEN q
                            ELSE [pass[r] EXCEPT !.fresh = @ /\ cards' = cards]]

Done(p, bucket) ==
  Step(p, [pass[p] EXCEPT !.at = "read", !.todo = Tail(@),
                          !.seen = @ \cup {<<Head(pass[p].todo)[1], Head(pass[p].todo)[2]>>},
                          !.report = @ \cup {<<bucket, Head(pass[p].todo)[2]>>}])

Bucket(verb) == IF verb = "resolves" THEN "resolved" ELSE "tightened"

\* The next trailer, up to its write.  A verb is applied to a card once in a
\* pass, for the newest commit that says so.
ReadCard(p) ==
  LET verb == Head(pass[p].todo)[1]
      card == Head(pass[p].todo)[2]
      commit == Head(pass[p].todo)[3]
  IN
  /\ pass[p].at = "read" /\ pass[p].todo # <<>>
  /\ UNCHANGED <<cards, log, budget, settled>>
  /\ IF <<verb, card>> \in pass[p].seen THEN Step(p, [pass[p] EXCEPT !.todo = Tail(@)])
     ELSE IF cards[card].status = "absent" THEN Done(p, "missing")
     ELSE IF verb = "resolves" /\ cards[card].status \in Terminal THEN Done(p, "skipped")
     ELSE IF AlreadyStored(card, <<verb, commit>>) THEN Done(p, "already_applied")
     ELSE IF pass[p].dry THEN Done(p, Bucket(verb))
     ELSE Step(p, [pass[p] EXCEPT !.at = "write", !.fresh = TRUE])

\* update_finding(status=, append_note=).
WriteCard(p) ==
  LET verb == Head(pass[p].todo)[1]
      card == Head(pass[p].todo)[2]
      commit == Head(pass[p].todo)[3]
  IN
  /\ pass[p].at = "write"
  /\ cards' = [cards EXCEPT ![card].notes[<<verb, commit>>] = @ + 1,
                            ![card].status = IF verb = "resolves" THEN "fixed" ELSE @]
  /\ Done(p, Bucket(verb))
  /\ UNCHANGED <<log, budget, settled>>

\* The report is returned.
EndPass(p) ==
  /\ pass[p].at = "read" /\ pass[p].todo = <<>>
  /\ settled' = settled \cup (IF pass[p].quiet /\ ~pass[p].dry THEN {pass[p].range} \ {<<>>} ELSE {})
  /\ pass' = [pass EXCEPT ![p] = Idle]
  /\ UNCHANGED <<cards, log, budget>>

-----------------------------------------------------------------------------
(* People and git. *)

\* A card is filed, closed, reopened, or its notes are rewritten by hand.
Edits(card) ==
  {[card EXCEPT !.status = new] : new \in {"open", "wont_fix"}}
    \cup {[card EXCEPT !.notes = [n \in Notes |-> 0]]}

Edit(c) ==
  /\ budget.edits < MaxEdits
  /\ \E new \in Edits(cards[c]) :
       /\ new.status # "absent" /\ new # cards[c]
       /\ cards' = [cards EXCEPT ![c] = new]
  /\ budget' = [budget EXCEPT !.edits = @ + 1]
  /\ pass' = [p \in Passes |-> [pass[p] EXCEPT !.quiet = FALSE, !.again = FALSE, !.fresh = FALSE]]
  /\ settled' = {}
  /\ UNCHANGED log

CommitWork(body) ==
  /\ Len(log) < MaxCommits
  /\ log' = Append(log, body)
  /\ UNCHANGED <<cards, pass, budget, settled>>

-----------------------------------------------------------------------------

Init ==
  /\ cards \in [Cards -> {[status |-> st, notes |-> [n \in Notes |-> 0]] :
                             st \in {"absent", "open"} \cup Terminal}]
  /\ log = <<>> /\ pass = [p \in Passes |-> Idle]
  /\ budget = [edits |-> 0, passes |-> 0] /\ settled = {}

Next ==
  \/ \E p \in Passes :
       \/ \E first \in 1..Len(log), dry \in BOOLEAN : BeginPass(p, first, dry)
       \/ ReadCard(p) \/ WriteCard(p) \/ EndPass(p)
  \/ \E c \in Cards : Edit(c)
  \/ \E body \in Bodies : CommitWork(body)

Spec == Init /\ [][Next]_vars

-----------------------------------------------------------------------------
(* Property. *)

\* The newest commit of a range that says the verb of the card.
Newest(range, verb, card) ==
  {c \in range[1]..range[2] :
     /\ \E i \in DOMAIN log[c] : log[c][i] = <<verb, card>>
     /\ \A d \in (c + 1)..range[2] : \A i \in DOMAIN log[d] : log[d][i] # <<verb, card>>}

(* A pass over a range that an earlier pass went through writes nothing,     *)
(* however many cards were reopened before the earlier one.  A write whose   *)
(* card nobody touched since it was read overturns no decision and says      *)
(* nothing twice, so a reopened card is not closed again by the same commit. *)
(* And when a pass that nobody edited under has ended, every card it cites   *)
(* is missing, closed, or carries the note of the newest commit.             *)
PassIsCareful ==
  \A p \in Passes :
    /\ (pass[p].at = "write" /\ cards' # cards /\ pass'[p].at = "read") =>
         LET verb == Head(pass[p].todo)[1] card == Head(pass[p].todo)[2] IN
         /\ ~pass[p].again
         /\ pass[p].fresh =>
              /\ verb = "resolves" => cards[card].status \notin Terminal
              /\ \A n \in Notes : cards'[card].notes[n] # cards[card].notes[n] => cards'[card].notes[n] = 1
    /\ (pass[p].at = "read" /\ pass'[p].at = "idle" /\ pass[p].quiet /\ ~pass[p].dry /\ pass[p].range # <<>>) =>
         \A verb \in Verbs, card \in Cards : \A c \in Newest(pass[p].range, verb, card) :
           \/ <<"missing", card>> \in pass[p].report /\ cards[card].status = "absent"
           \/ verb = "resolves" /\ cards[card].status \in Terminal
           \/ cards[card].notes[<<verb, c>>] > 0

TrailersAreCareful == [][PassIsCareful]_vars
=============================================================================
