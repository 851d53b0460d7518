------------------------------- MODULE Claims -------------------------------
(***************************************************************************)
(* Entity claims: src/src/codebugs/claims.py, with the status write of     *)
(* entities.py and the status writers of findings.py and reqs.py that the  *)
(* claims engine meets.                                                    *)
(*                                                                         *)
(* A finding (a card) or a requirement is held by at most one holder, a    *)
(* name qualified by a kind and a repository.  Claiming a card moves its   *)
(* status to in_progress and remembers the status it had; releasing it     *)
(* moves the status back.  Closing an entity through its update function   *)
(* releases the claim from a status-change hook in the same transaction.   *)
(*                                                                         *)
(* Each public call runs in one db.txn, so each is one step.  A call that  *)
(* only reports (held_by_other, entity_terminal, not_yours, not_claimed,   *)
(* undetermined) or renews (already_mine) changes none of these variables  *)
(* and is no step at all.  reply is the last call that changed something:  *)
(* the two ends of a claim can look alike in the tables.                   *)
(***************************************************************************)
EXTENDS Entities

CONSTANTS
  Names,      \* holder texts
  Quals,      \* a holder's kind and repository
  NoClaim,    \* no row of entity_claims with released_at NULL
  Nobody      \* the caller of a writer that has no holder argument

VARIABLES
  claims,     \* the live claim of each entity
  reply       \* the last call that changed something: call, caller, outcome

claimVars == <<status, claims, reply>>

Holders == Names \X Quals

Claimed(e) == claims[e] # NoClaim

\* A claim that projected nothing has prev = "none"; late is the caller's
\* allow_terminal.
Claim == [by : Holders, prev : LiveStatus \cup FindingTerminal \cup {"none"}, late : BOOLEAN]

ASSUME ClaimsAssumption ==
  /\ Cards \cap Reqs = {}
  /\ NoClaim \notin Claim
  /\ Nobody \notin Holders

Call == {"none", "add", "add_as", "update", "import", "restore", "fold", "claim", "release"}
Outcome == {"none", "created", "bumped", "reopened", "recurrence_of_closed", "skipped_decided",
            "updated", "imported", "restored", "applied", "claimed", "released",
            "IntegrityError", "IdTaken"}

\* reply after call c of caller h.
Reply(c, h, o) == [call |-> c, by |-> h, outcome |-> o]

TypeOK ==
  /\ status \in [Entities -> LiveStatus \cup FindingTerminal \cup RequirementOpen
                               \cup RequirementTerminal \cup {"absent"}]
  /\ \A e \in Entities : Exists(e) => status[e] \in Statuses(e)
  /\ claims \in [Entities -> Claim \cup {NoClaim}]
  /\ \A e \in Entities : Claimed(e) => Exists(e)
  /\ \A e \in Reqs : Claimed(e) => claims[e].prev = "none"
  /\ reply \in [call : Call, by : Holders \cup {Nobody}, outcome : Outcome]

Init ==
  /\ status = [e \in Entities |-> "absent"]
  /\ claims = [e \in Entities |-> NoClaim]
  /\ reply = Reply("none", Nobody, "none")

-----------------------------------------------------------------------------
(* The two calls. *)

\* Mutant: the guard knows only one of the closing decisions.
FixedIsFinished(e, allow) == status[e] # "fixed" \/ allow

\* The terminal guard of claim(), overridden by allow_terminal.
NotFinished(e, allow) == status[e] \notin Terminal(e) \/ allow

\* A card is projected to its busy status unless the caller declines.
Projects(e, project) == project /\ e \in Cards

\* The answer to claim() would not be entity_terminal or held_by_other.
MayClaim(e, allow) == Exists(e) /\ NotFinished(e, allow) /\ ~Claimed(e)

\* claim() on an entity nobody holds: the row, and for a card the projection.
ClaimIt(e, h, project, allow) ==
  /\ MayClaim(e, allow)
  /\ claims' = [claims EXCEPT ![e] =
       [by |-> h, prev |-> IF Projects(e, project) THEN status[e] ELSE "none", late |-> allow]]
  /\ status' = IF Projects(e, project) THEN [status EXCEPT ![e] = "in_progress"] ELSE status
  /\ reply' = Reply("claim", h, "claimed")

\* Mutant: the holder's text alone authorizes a release.
SameName(e, h) == Claimed(e) /\ claims[e].by[1] = h[1]

\* The caller's full triple is the holder's.
Holds(e, h) == Claimed(e) /\ claims[e].by = h

\* Mutant: a claim that projected nothing restores its NULL.
RestoresAlways(e, restore) == restore /\ status[e] = "in_progress"

\* The status is put back only if it is still the one the claim wrote.
Restores(e, restore) ==
  restore /\ claims[e].prev # "none" /\ status[e] = "in_progress"

ReleaseIt(e, h, restore) ==
  /\ Holds(e, h)
  /\ claims' = [claims EXCEPT ![e] = NoClaim]
  /\ status' = IF Restores(e, restore) THEN [status EXCEPT ![e] = claims[e].prev] ELSE status
  /\ reply' = Reply("release", h, "released")

-----------------------------------------------------------------------------
(* The writers of a status. *)

\* Mutant: dismissing a card is not read as finishing it.
AutoReleaseFixed(e, new) ==
  IF new = "fixed" THEN [claims EXCEPT ![e] = NoClaim] ELSE claims

\* The claims hook: a terminal status closes the live claim and keeps the
\* status as it is.
AutoRelease(e, new) ==
  IF new \in Terminal(e) THEN [claims EXCEPT ![e] = NoClaim] ELSE claims

\* add_finding files a card as open, add_requirement in any status.
Create(e, new) ==
  /\ ~Exists(e)
  /\ new = "open" \/ e \in Reqs
  /\ status' = [status EXCEPT ![e] = new]
  /\ reply' = Reply("add", Nobody, "created")
  /\ UNCHANGED claims

\* update_finding and update_requirement: a status that changes runs the hooks
\* in the same transaction.
WriteStatus(e, new) ==
  /\ Exists(e)
  /\ new # status[e]
  /\ status' = [status EXCEPT ![e] = new]
  /\ claims' = AutoRelease(e, new)
  /\ reply' = Reply("update", Nobody, "updated")

\* batch_add_requirements and import_markdown: INSERT OR REPLACE, no hooks.
ImportRequirement(e, new) ==
  /\ e \in Reqs
  /\ status' = [status EXCEPT ![e] = new]
  /\ reply' = Reply("import", Nobody, "imported")
  /\ UNCHANGED claims

Next ==
  \E e \in Entities :
    \/ \E new \in Statuses(e) : \/ Create(e, new)
                                \/ WriteStatus(e, new)
                                \/ ImportRequirement(e, new)
    \/ \E h \in Holders :
         \/ \E project, allow \in BOOLEAN : ClaimIt(e, h, project, allow)
         \/ \E restore \in BOOLEAN : ReleaseIt(e, h, restore)

Spec == Init /\ [][Next]_claimVars

-----------------------------------------------------------------------------
(* Properties. *)

\* A closed card that somebody holds was claimed with an explicit
\* allow_terminal: no order of claims, closings, reopenings and releases
\* leaves an ordinary claim behind on finished work.
ClosedCardIsFree ==
  \A e \in Cards : status[e] \in FindingTerminal /\ Claimed(e) => claims[e].late

\* Releasing an ordinary claim never closes a card: the status it puts back
\* is terminal only when the claim was made with allow_terminal.
ReleaseReopensWork ==
  [][\A e \in Cards :
       reply'.call = "release" /\ status'[e] # status[e] /\ status'[e] \in FindingTerminal
       => Claimed(e) /\ claims[e].late]_claimVars

\* A live claim ends by a release of its own full triple or by a hooked write
\* of a terminal status, and by nothing else: not by a second claim, nor by a
\* holder of the same name with another kind or repository.
OnlyHolderReleases ==
  [][\A e \in Entities :
       Claimed(e) /\ claims'[e] # claims[e] =>
         /\ claims'[e] = NoClaim
         /\ \/ reply'.call = "release" /\ reply'.by = claims[e].by
            \/ reply'.call = "update" /\ status'[e] \in Terminal(e)]_claimVars

=============================================================================
