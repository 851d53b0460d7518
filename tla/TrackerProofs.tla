--------------------------- MODULE TrackerProofs ---------------------------
(***************************************************************************)
(* The tracker, for any cards, fingerprints, actors and categories: its    *)
(* lookups never run into the unique index, an accepted observation is     *)
(* seen, a dismissal stands, and the rules of claims hold with the         *)
(* tracker's own writers of statuses among those of claims.                *)
(*                                                                         *)
(* The invariant joins the claims' one, the types, and Fits, the promise   *)
(* of the unique index.  Two facts make it inductive.  Fits must be known  *)
(* before a lookup is trusted: an add that finds no live card of a         *)
(* fingerprint has the whole table in view only if the index is true of    *)
(* it.  And finitely many cards exist: otherwise neither the next rowid    *)
(* nor the newest closed card, which the code finds by ORDER BY, is        *)
(* defined.                                                                *)
(***************************************************************************)
EXTENDS Tracker, WellFoundedInduction, TLAPS

-----------------------------------------------------------------------------
(* Claims by themselves: their types, and the three safety properties. *)

\* The strengthening is one fact about a projected claim: the status it will put
\* back is terminal only if the claim was made late.
PrevIsLive ==
  \A e \in Cards : Claimed(e) /\ claims[e].prev \in FindingTerminal => claims[e].late

IInv == TypeOK /\ ClosedCardIsFree /\ PrevIsLive

LEMMA InitInv == Init => IInv
  <1> SUFFICES ASSUME Init PROVE IInv
    OBVIOUS
  <1>1. \A e \in Entities : status[e] = "absent" /\ claims[e] = NoClaim
    BY DEF Init
  <1>2. TypeOK
    <2>1. reply \in [call : Call, by : Holders \cup {Nobody}, outcome : Outcome]
      BY DEF Init, Reply, Call, Outcome
    <2>2. status \in [Entities -> LiveStatus \cup FindingTerminal \cup RequirementOpen
                                    \cup RequirementTerminal \cup {"absent"}]
      BY DEF Init
    <2>3. claims \in [Entities -> Claim \cup {NoClaim}]
      BY DEF Init
    <2> QED BY <1>1, <2>1, <2>2, <2>3 DEF TypeOK, Claimed, Exists, Entities
  <1>3. ClosedCardIsFree /\ PrevIsLive
    BY <1>1 DEF ClosedCardIsFree, PrevIsLive, Claimed, Entities
  <1> QED BY <1>2, <1>3 DEF IInv

\* What a claim's row is, and where the projection takes the card.
LEMMA ClaimStep ==
  ASSUME IInv, NEW e \in Entities, NEW h \in Holders, NEW project \in BOOLEAN,
         NEW allow \in BOOLEAN, ClaimIt(e, h, project, allow)
  PROVE  IInv'
  <1> USE DEF IInv, TypeOK, Exists, Claimed
  <1> DEFINE row == [by |-> h, prev |-> IF Projects(e, project) THEN status[e] ELSE "none",
                     late |-> allow]
  <1>1. status[e] \in Statuses(e) /\ ~Claimed(e)
    BY DEF ClaimIt, MayClaim
  <1>2. Projects(e, project) => e \in Cards /\ status[e] \in LiveStatus \cup FindingTerminal
    BY <1>1 DEF Projects, Statuses
  <1>3. row \in Claim
    BY <1>2 DEF Claim
  <1>4. claims' = [claims EXCEPT ![e] = row]
    BY DEF ClaimIt
  <1>5. status' = IF Projects(e, project) THEN [status EXCEPT ![e] = "in_progress"] ELSE status
    BY DEF ClaimIt
  <1>6. e \in Cards /\ ~allow => status[e] \notin FindingTerminal
    BY DEF ClaimIt, MayClaim, NotFinished, Terminal
  <1> HIDE DEF row
  <1>7. TypeOK'
    <2>1. \A x \in Entities : status'[x] # "absent" => status'[x] \in Statuses(x)
      BY <1>2, <1>5 DEF Statuses, LiveStatus
    <2>2. status' \in [Entities -> LiveStatus \cup FindingTerminal \cup RequirementOpen
                                     \cup RequirementTerminal \cup {"absent"}]
      BY <1>5 DEF LiveStatus
    <2>3. claims' \in [Entities -> Claim \cup {NoClaim}]
      BY <1>3, <1>4
    <2>4. \A x \in Entities : claims'[x] # NoClaim => status'[x] # "absent"
      BY <1>1, <1>4, <1>5 DEF ClaimIt, MayClaim
    <2>5. \A x \in Reqs : claims'[x] # NoClaim => claims'[x].prev = "none"
      <3>1. e \in Reqs => row.prev = "none"
        BY <1>2, ClaimsAssumption DEF row
      <3> QED BY <3>1, <1>4 DEF Entities
    <2>6. reply' \in [call : Call, by : Holders \cup {Nobody}, outcome : Outcome]
      BY DEF ClaimIt, Reply, Call, Outcome
    <2> QED BY <2>1, <2>2, <2>3, <2>4, <2>5, <2>6
  <1>8. row.late = allow /\ row.prev \in {status[e], "none"}
    BY DEF row
  <1>9. ClosedCardIsFree'
    BY <1>4, <1>5, <1>6, <1>8 DEF ClosedCardIsFree, Entities, FindingTerminal
  <1>10. PrevIsLive'
    BY <1>4, <1>6, <1>8 DEF PrevIsLive, Entities, FindingTerminal
  <1> QED BY <1>7, <1>9, <1>10

\* A release forgets the row; what it restores is the row's prev.
LEMMA ReleaseStep ==
  ASSUME IInv, NEW e \in Entities, NEW h \in Holders, NEW restore \in BOOLEAN,
         ReleaseIt(e, h, restore)
  PROVE  IInv'
  <1> USE DEF IInv, TypeOK, Exists, Claimed
  <1>1. claims[e] \in Claim /\ claims' = [claims EXCEPT ![e] = NoClaim]
    BY DEF ReleaseIt, Holds
  <1>2. Restores(e, restore) =>
          e \in Cards /\ claims[e].prev \in LiveStatus \cup FindingTerminal
    BY <1>1 DEF Restores, Claim, Entities, ReleaseIt, Holds
  <1>3. status' = IF Restores(e, restore) THEN [status EXCEPT ![e] = claims[e].prev] ELSE status
    BY DEF ReleaseIt
  <1>4. TypeOK'
    <2>1. \A x \in Entities : status'[x] # "absent" => status'[x] \in Statuses(x)
      BY <1>2, <1>3 DEF Statuses
    <2>2. status' \in [Entities -> LiveStatus \cup FindingTerminal \cup RequirementOpen
                                     \cup RequirementTerminal \cup {"absent"}]
      BY <1>2, <1>3
    <2>3. claims' \in [Entities -> Claim \cup {NoClaim}]
      BY <1>1
    <2>4. \A x \in Entities : claims'[x] # NoClaim => status'[x] # "absent"
      BY <1>1, <1>3
    <2>5. \A x \in Reqs : claims'[x] # NoClaim => claims'[x].prev = "none"
      BY <1>1 DEF Entities
    <2>6. reply' \in [call : Call, by : Holders \cup {Nobody}, outcome : Outcome]
      BY DEF ReleaseIt, Reply, Call, Outcome
    <2> QED BY <2>1, <2>2, <2>3, <2>4, <2>5, <2>6
  <1>5. ClosedCardIsFree'
    BY <1>1, <1>3 DEF ClosedCardIsFree, Entities
  <1>6. PrevIsLive'
    BY <1>1 DEF PrevIsLive, Entities
  <1> QED BY <1>4, <1>5, <1>6

\* The writers of a status: they touch the claim of the entity they close.
LEMMA WriteStep ==
  ASSUME IInv, NEW e \in Entities, NEW new \in Statuses(e),
         Create(e, new) \/ WriteStatus(e, new) \/ ImportRequirement(e, new)
  PROVE  IInv'
  <1> USE DEF IInv, TypeOK, Exists, Claimed
  <1>1. status' = [status EXCEPT ![e] = new]
    BY DEF Create, WriteStatus, ImportRequirement
  <1>2. claims' = claims \/ claims' = [claims EXCEPT ![e] = NoClaim]
    BY DEF Create, WriteStatus, ImportRequirement, AutoRelease
  <1>3. e \in Cards /\ new \in FindingTerminal => claims'[e] = NoClaim
    <2>1. CASE Create(e, new)
      BY <2>1, ClaimsAssumption DEF Create
    <2>2. CASE WriteStatus(e, new)
      BY <2>2 DEF WriteStatus, AutoRelease, Terminal
    <2>3. CASE ImportRequirement(e, new)
      BY <2>3, ClaimsAssumption DEF ImportRequirement
    <2> QED BY <2>1, <2>2, <2>3
  <1>4. new # "absent"
    BY DEF Statuses, LiveStatus, FindingTerminal, RequirementOpen, RequirementTerminal
  <1>5. TypeOK'
    <2>1. \A x \in Entities : status'[x] # "absent" => status'[x] \in Statuses(x)
      BY <1>1
    <2>2. new \in LiveStatus \cup FindingTerminal \cup RequirementOpen \cup RequirementTerminal
      BY DEF Statuses
    <2>3. status' \in [Entities -> LiveStatus \cup FindingTerminal \cup RequirementOpen
                                     \cup RequirementTerminal \cup {"absent"}]
      BY <1>1, <2>2
    <2>4. claims' \in [Entities -> Claim \cup {NoClaim}]
      BY <1>2
    <2>5. \A x \in Entities : claims'[x] # NoClaim => status'[x] # "absent"
      BY <1>1, <1>2, <1>4
    <2>6. \A x \in Reqs : claims'[x] # NoClaim => claims'[x].prev = "none"
      BY <1>2 DEF Entities
    <2>7. reply' \in [call : Call, by : Holders \cup {Nobody}, outcome : Outcome]
      BY DEF Create, WriteStatus, ImportRequirement, Reply, Call, Outcome
    <2> QED BY <2>1, <2>3, <2>4, <2>5, <2>6, <2>7
  <1>6. ClosedCardIsFree'
    BY <1>1, <1>2, <1>3 DEF ClosedCardIsFree, Entities
  <1>7. PrevIsLive'
    BY <1>2 DEF PrevIsLive, Entities
  <1> QED BY <1>5, <1>6, <1>7

LEMMA InvStep == IInv /\ [Next]_claimVars => IInv'
  <1> SUFFICES ASSUME IInv, [Next]_claimVars PROVE IInv'
    OBVIOUS
  <1>1. CASE UNCHANGED claimVars
    BY <1>1 DEF claimVars, IInv, TypeOK, ClosedCardIsFree, PrevIsLive, Exists, Claimed
  <1>2. CASE Next
    BY <1>2, ClaimStep, ReleaseStep, WriteStep DEF Next
  <1> QED BY <1>1, <1>2

LEMMA Invariance == Spec => []IInv
  BY InitInv, InvStep, PTL DEF Spec

\* The tables keep their types; only an existing entity is claimed and only a
\* card is projected.
THEOREM Typing == Spec => []TypeOK
  BY Invariance, PTL DEF IInv

\* Closing a card frees it: an ordinary claim is never left on finished work.
THEOREM Freed == Spec => []ClosedCardIsFree
  BY Invariance, PTL DEF IInv

\* Releasing an ordinary claim puts back a live status.
THEOREM ReleaseKeepsOpen == Spec => ReleaseReopensWork
  <1> DEFINE A == \A e \in Cards :
       reply'.call = "release" /\ status'[e] # status[e] /\ status'[e] \in FindingTerminal
       => Claimed(e) /\ claims[e].late
  <1>1. IInv /\ [Next]_claimVars => [A]_claimVars
    <2> SUFFICES ASSUME IInv, Next, NEW c \in Cards, reply'.call = "release",
                        status'[c] # status[c], status'[c] \in FindingTerminal
                 PROVE  Claimed(c) /\ claims[c].late
      OBVIOUS
    <2>1. PICK e \in Entities, h \in Holders, restore \in BOOLEAN : ReleaseIt(e, h, restore)
      BY DEF Next, Create, WriteStatus, ImportRequirement, ClaimIt, Reply
    <2>2. status' = IF Restores(e, restore) THEN [status EXCEPT ![e] = claims[e].prev] ELSE status
      BY <2>1 DEF ReleaseIt
    <2>3. e = c /\ status'[c] = claims[c].prev
      BY <2>2 DEF IInv, TypeOK, Entities
    <2>4. Claimed(c)
      BY <2>1, <2>3 DEF ReleaseIt, Holds
    <2> QED BY <2>3, <2>4 DEF IInv, PrevIsLive
  <1> QED BY <1>1, Invariance, PTL DEF Spec, ReleaseReopensWork

\* Nobody but the holder of the full triple, or the closing of the entity,
\* ends a live claim.
THEOREM HolderKeeps == Spec => OnlyHolderReleases
  <1> DEFINE A == \A e \in Entities :
       Claimed(e) /\ claims'[e] # claims[e] =>
         /\ claims'[e] = NoClaim
         /\ \/ reply'.call = "release" /\ reply'.by = claims[e].by
            \/ reply'.call = "update" /\ status'[e] \in Terminal(e)
  <1>1. IInv /\ [Next]_claimVars => [A]_claimVars
    <2> SUFFICES ASSUME IInv, Next, NEW x \in Entities, Claimed(x), claims'[x] # claims[x]
                 PROVE  /\ claims'[x] = NoClaim
                        /\ \/ reply'.call = "release" /\ reply'.by = claims[x].by
                           \/ reply'.call = "update" /\ status'[x] \in Terminal(x)
      OBVIOUS
    <2> USE DEF IInv, TypeOK
    <2>1. CASE \E e \in Entities, h \in Holders, restore \in BOOLEAN : ReleaseIt(e, h, restore)
      BY <2>1 DEF ReleaseIt, Holds, Reply
    <2>2. CASE \E e \in Entities, h \in Holders, project, allow \in BOOLEAN :
                 ClaimIt(e, h, project, allow)
      BY <2>2 DEF ClaimIt, MayClaim
    <2>3. CASE \E e \in Entities : \E new \in Statuses(e) : WriteStatus(e, new)
      BY <2>3 DEF WriteStatus, AutoRelease, Reply
    <2>4. CASE \E e \in Entities : \E new \in Statuses(e) : Create(e, new) \/ ImportRequirement(e, new)
      BY <2>4 DEF Create, ImportRequirement
    <2> QED BY <2>1, <2>2, <2>3, <2>4 DEF Next
  <1> QED BY <1>1, Invariance, PTL DEF Spec, OnlyHolderReleases

-----------------------------------------------------------------------------
(* The tracker: its invariant. *)

\* Finitely many cards exist.
Bounded == \E n \in Nat : \A c \in Cards : Exists(c) => c <= n

TrackerInv ==
  /\ IInv
  /\ TrackerTypeOK
  /\ Fits(status, print)
  /\ Bounded
  /\ LookupsSuffice

-----------------------------------------------------------------------------
(* The two CHOOSEs name what the code's ORDER BY names. *)

\* A non-empty set of numbers has a least element.
LEMMA LeastExists ==
  ASSUME NEW S \in SUBSET Nat, S # {}
  PROVE  \E m \in S : \A k \in S : m <= k
  <1>1. PICK m \in S : \A k \in S : ~(<<k, m>> \in OpToRel(<, Nat))
    BY NatLessThanWellFounded, WFMin
  <1>2. \A k \in S : k < m => <<k, m>> \in OpToRel(<, Nat)
    BY DEF OpToRel
  <1>3. \A k \in S : k \in Nat /\ m \in Nat /\ ~(k < m)
    BY <1>1, <1>2
  <1>4. \A k \in S : m <= k
    BY <1>3
  <1> QED BY <1>4

\* The next rowid is one no row has.
LEMMA NextRowIsFree ==
  ASSUME RoomLeft
  PROVE  NextRow \in Cards /\ ~Exists(NextRow)
  <1> DEFINE Free == {c \in Cards : ~Exists(c)}
  <1>1. Free \in SUBSET Nat /\ Free # {}
    BY TrackerAssumption DEF RoomLeft
  <1>2. PICK c \in Free : \A d \in Free : c <= d
    BY <1>1, LeastExists
  <1>3. c \in Cards /\ ~Exists(c) /\ \A d \in Cards : ~Exists(d) => c <= d
    BY <1>2
  <1> QED BY <1>3 DEF NextRow

\* Of finitely many closed cards one is the newest, and it is closed.
LEMMA NewestIsClosed ==
  ASSUME TrackerTypeOK, Bounded, NEW p, Closed(p) # {}
  PROVE  Newest(p) \in Closed(p)
  <1>1. PICK n \in Nat : \A c \in Cards : Exists(c) => c <= n
    BY DEF Bounded
  <1>2. \A c \in Closed(p) : c \in Cards /\ c \in Nat /\ c <= n /\ stamp[c] \in 0 .. MaxNow
    BY <1>1, TrackerAssumption DEF Closed, Exists, FindingTerminal, TrackerTypeOK
  <1> DEFINE Ages == {MaxNow - stamp[c] : c \in Closed(p)}
  <1>3. Ages \in SUBSET Nat /\ Ages # {}
    BY <1>2, TrackerAssumption
  <1>4. PICK a \in Ages : \A b \in Ages : a <= b
    BY <1>3, LeastExists
  <1> DEFINE Last == {c \in Closed(p) : MaxNow - stamp[c] = a}
  <1> DEFINE Gaps == {n - c : c \in Last}
  <1>5. Gaps \in SUBSET Nat /\ Gaps # {}
    BY <1>2, <1>4
  <1>6. PICK g \in Gaps : \A b \in Gaps : g <= b
    BY <1>5, LeastExists
  <1>7. PICK c \in Last : g = n - c
    OBVIOUS
  <1>8. \A d \in Closed(p) \ {c} : Newer(c, d)
    <2> SUFFICES ASSUME NEW d \in Closed(p) \ {c} PROVE Newer(c, d)
      OBVIOUS
    <2>1. c \in Closed(p) /\ MaxNow - stamp[c] = a
      OBVIOUS
    <2>2. MaxNow - stamp[c] <= MaxNow - stamp[d]
      BY <1>4, <2>1
    <2>3. stamp[c] >= stamp[d]
      BY <1>2, <2>1, <2>2, TrackerAssumption
    <2>4. CASE stamp[c] # stamp[d]
      BY <1>2, <2>1, <2>3, <2>4 DEF Newer
    <2>5. CASE stamp[c] = stamp[d]
      <3>1. n - c <= n - d
        BY <1>6, <1>7, <2>1, <2>5
      <3> QED BY <1>2, <2>1, <2>5, <3>1 DEF Newer
    <2> QED BY <2>4, <2>5
  <1> QED BY <1>8 DEF Newest

-----------------------------------------------------------------------------
(* What one stored row does to the invariant. *)

\* The calls that look a fingerprint up before they write it.
Lookers == {"add", "add_as", "import", "update"}

\* An id whose number is one thing to CAST and another to the regular expression.
TwoReadings == \E c \in Numbered : id[c].cast # id[c].num

\* new is the tables with row c written: its status becomes s, its fingerprint
\* q, its claim stays or ends, and a closing write ends it.
Written(c, s, new) ==
  /\ s \in LiveStatus \cup FindingTerminal
  /\ Exists(c) \/ (c = NextRow /\ RoomLeft)
  /\ new.status = [status EXCEPT ![c] = s]
  /\ \E i \in Id : new.id = [id EXCEPT ![c] = i]
  /\ \E q \in Prints \cup {NoPrint} : new.print = [print EXCEPT ![c] = q]
  /\ \E at \in 0 .. MaxNow : new.stamp = [stamp EXCEPT ![c] = at]
  /\ \E t \in Cards \cup {0} : new.twin = [twin EXCEPT ![c] = t]
  /\ \/ new.claims = claims
     \/ new.claims = [claims EXCEPT ![c] = NoClaim]
  /\ s \in FindingTerminal /\ s # status[c] => new.claims[c] = NoClaim

\* If the index accepts the row, or the call is one that may be refused, the
\* invariant holds afterwards.
LEMMA StoreStep ==
  ASSUME TrackerInv, NEW c \in Cards, NEW s, NEW new, Written(c, s, new),
         NEW call \in Call, NEW outcome \in Outcome \ {"IntegrityError", "IdTaken"},
         Fits(new.status, new.print) \/ call \notin Lookers,
         Store(call, outcome, new),
         now' = now
  PROVE  TrackerInv'
  <1>1. CASE ~Fits(new.status, new.print)
    <2>1. UNCHANGED rowVars /\ reply' = Reply(call, Nobody, "IntegrityError")
      BY <1>1 DEF Store
    <2>2. reply' \in [call : Call, by : Holders \cup {Nobody}, outcome : Outcome]
      BY <2>1 DEF Reply, Outcome
    <2>3. IInv'
      BY <2>1, <2>2 DEF TrackerInv, IInv, TypeOK, ClosedCardIsFree, PrevIsLive, rowVars, Exists, Claimed
    <2>4. TrackerTypeOK'
      BY <2>1, <2>3 DEF TrackerInv, TrackerTypeOK, rowVars, Exists, IInv
    <2>5. Fits(status, print)' /\ Bounded'
      BY <2>1 DEF TrackerInv, Fits, Bounded, rowVars, Exists
    <2>6. LookupsSuffice'
      BY <1>1, <2>1 DEF LookupsSuffice, Lookers, Reply
    <2> QED BY <2>3, <2>4, <2>5, <2>6 DEF TrackerInv
  <1>2. CASE Fits(new.status, new.print)
    <2> PICK i \in Id : new.id = [id EXCEPT ![c] = i]
      BY DEF Written
    <2> PICK q \in Prints \cup {NoPrint} : new.print = [print EXCEPT ![c] = q]
      BY DEF Written
    <2> PICK at \in 0 .. MaxNow : new.stamp = [stamp EXCEPT ![c] = at]
      BY DEF Written
    <2> PICK t \in Cards \cup {0} : new.twin = [twin EXCEPT ![c] = t]
      BY DEF Written
    <2>1. /\ status' = [status EXCEPT ![c] = s]
          /\ claims' = claims \/ claims' = [claims EXCEPT ![c] = NoClaim]
          /\ id' = [id EXCEPT ![c] = i]
          /\ print' = [print EXCEPT ![c] = q]
          /\ stamp' = [stamp EXCEPT ![c] = at]
          /\ twin' = [twin EXCEPT ![c] = t]
          /\ reply' = Reply(call, Nobody, outcome)
          /\ s \in FindingTerminal /\ s # status[c] => claims'[c] = NoClaim
          /\ s \in LiveStatus \cup FindingTerminal
          /\ Exists(c) \/ (c = NextRow /\ RoomLeft)
          /\ Fits(status', print')
      BY <1>2 DEF Store, Written
    <2>2. TypeOK /\ TrackerTypeOK /\ ClosedCardIsFree /\ PrevIsLive
      BY DEF TrackerInv, IInv
    <2>3. c \in Entities /\ Entities = Cards \cup Reqs /\ Cards \cap Reqs = {}
      BY ClaimsAssumption DEF Entities
    <2>4. s # "absent" /\ s \in Statuses(c)
      BY <2>1 DEF LiveStatus, FindingTerminal, Statuses
    <2>5. ~Exists(c) => ~Claimed(c)
      BY <2>2, <2>3 DEF TypeOK
    <2>6. TypeOK'
      <3>1. status' \in [Entities -> LiveStatus \cup FindingTerminal \cup RequirementOpen
                                     \cup RequirementTerminal \cup {"absent"}]
        BY <2>1, <2>2 DEF TypeOK
      <3>2. \A e \in Entities : Exists(e)' => status'[e] \in Statuses(e)
        BY <2>1, <2>2, <2>3, <2>4 DEF TypeOK, Exists
      <3>3. claims' \in [Entities -> Claim \cup {NoClaim}]
        BY <2>1, <2>2, <2>3 DEF TypeOK
      <3>4. \A e \in Entities : Claimed(e)' => Exists(e)'
        BY <2>1, <2>2, <2>3, <2>4 DEF TypeOK, Exists, Claimed
      <3>5. \A e \in Reqs : Claimed(e)' => claims'[e].prev = "none"
        BY <2>1, <2>2, <2>3 DEF TypeOK, Claimed
      <3>6. reply' \in [call : Call, by : Holders \cup {Nobody}, outcome : Outcome]
        BY <2>1 DEF Reply
      <3> QED BY <3>1, <3>2, <3>3, <3>4, <3>5, <3>6 DEF TypeOK
    <2>7. ClosedCardIsFree'
      <3> SUFFICES ASSUME NEW e \in Cards, status'[e] \in FindingTerminal, claims'[e] # NoClaim
                   PROVE  claims'[e].late
        BY DEF ClosedCardIsFree, Claimed
      <3>1. claims'[e] = claims[e]
        BY <2>1, <2>2, <2>3 DEF TypeOK
      <3>2. status'[e] = status[e]
        BY <2>1, <2>2, <2>3 DEF TypeOK
      <3> QED BY <3>1, <3>2, <2>2 DEF ClosedCardIsFree, Claimed
    <2>8. PrevIsLive'
      BY <2>1, <2>2, <2>3 DEF PrevIsLive, Claimed, TypeOK
    <2>9. TrackerTypeOK'
      <3>1. status'[c] # "absent" /\ \A d \in Cards \ {c} : status'[d] = status[d]
        BY <2>1, <2>2, <2>3, <2>4 DEF TypeOK
      <3>2. id' \in [Cards -> Id \cup {NoId}]
        BY <2>1, <2>2 DEF TrackerTypeOK
      <3>3. id'[c] # NoId /\ \A d \in Cards \ {c} : id'[d] = id[d]
        BY <2>1, <2>2, TrackerAssumption DEF TrackerTypeOK
      <3>4. /\ print' \in [Cards -> Prints \cup {NoPrint}]
            /\ stamp' \in [Cards -> 0 .. MaxNow]
            /\ twin' \in [Cards -> Cards \cup {0}]
            /\ now' \in 0 .. MaxNow
            /\ \A d \in Cards \ {c} : print'[d] = print[d] /\ twin'[d] = twin[d]
        BY <2>1, <2>2 DEF TrackerTypeOK
      <3>5. \A d \in Cards : /\ Exists(d)' <=> id'[d] # NoId
                             /\ ~Exists(d)' => print'[d] = NoPrint /\ twin'[d] = 0
        BY <2>2, <3>1, <3>3, <3>4 DEF TrackerTypeOK, Exists
      <3> QED BY <2>6, <3>2, <3>4, <3>5 DEF TrackerTypeOK
    <2>10. Bounded'
      <3>1. PICK n \in Nat : \A d \in Cards : Exists(d) => d <= n
        BY DEF TrackerInv, Bounded
      <3>2. Cards \subseteq Nat
        BY TrackerAssumption
      <3> DEFINE m == IF c <= n THEN n ELSE c
      <3>3. m \in Nat /\ \A d \in Cards : Exists(d)' => d <= m
        BY <2>1, <2>2, <2>3, <3>1, <3>2 DEF TypeOK, Exists
      <3> QED BY <3>3 DEF Bounded
    <2>11. LookupsSuffice'
      BY <2>1 DEF LookupsSuffice, Lookers, Reply
    <2> QED BY <2>1, <2>6, <2>7, <2>8, <2>9, <2>10, <2>11 DEF TrackerInv, IInv
  <1> QED BY <1>1, <1>2

-----------------------------------------------------------------------------
(* The calls. *)

\* The index stays satisfied when a fingerprint nobody live holds is given to a
\* card, live or not.
LEMMA FreePrintFits ==
  ASSUME TrackerInv, NEW c \in Cards, NEW s, NEW q, HeldBy(q) \subseteq {c}
  PROVE  Fits([status EXCEPT ![c] = s], [print EXCEPT ![c] = q])
  BY DEF TrackerInv, IInv, TypeOK, TrackerTypeOK, Fits, HeldBy, Entities

\* A call that the index or the key refuses changes no row.
LEMMA RefusedStep ==
  ASSUME TrackerInv, UNCHANGED rowVars, now' = now,
         NEW call \in Call, NEW h \in Holders \cup {Nobody}, NEW outcome \in Outcome,
         call \in Lookers => outcome # "IntegrityError",
         call \in {"add", "import"} /\ outcome = "IdTaken" => TwoReadings,
         reply' = Reply(call, h, outcome)
  PROVE  TrackerInv'
  <1>1. reply' \in [call : Call, by : Holders \cup {Nobody}, outcome : Outcome]
    BY DEF Reply
  <1>2. IInv'
    BY <1>1 DEF TrackerInv, IInv, TypeOK, ClosedCardIsFree, PrevIsLive, rowVars, Exists, Claimed
  <1>3. TrackerTypeOK'
    BY <1>2 DEF TrackerInv, TrackerTypeOK, rowVars, Exists, IInv
  <1>4. Fits(status, print)' /\ Bounded'
    BY DEF TrackerInv, Fits, Bounded, rowVars, Exists
  <1>5. LookupsSuffice'
    BY DEF LookupsSuffice, Lookers, TwoReadings, Reply, Numbered, Exists, rowVars
  <1> QED BY <1>2, <1>3, <1>4, <1>5 DEF TrackerInv

\* A row inserted: by an observation, under an explicit id, whose fingerprint is
\* looked up first, or from a restored file, which the index may refuse.
LEMMA InsertStep ==
  ASSUME TrackerInv, NEW i \in Id, NEW p \in Prints \cup {NoPrint},
         NEW st \in LiveStatus \cup FindingTerminal, NEW at \in 0 .. MaxNow,
         NEW tw \in Cards \cup {0},
         NEW call \in Call, NEW outcome \in Outcome \ {"IntegrityError", "IdTaken"},
         p = NoPrint \/ HeldBy(p) = {} \/ call \notin Lookers,
         Taken(i) /\ call \in {"add", "import"} => TwoReadings,
         Insert(call, outcome, i, p, st, at, tw), now' = now
  PROVE  TrackerInv'
  <1>1. CASE Taken(i)
    <2>1. UNCHANGED rowVars /\ reply' = Reply(call, Nobody, "IdTaken") /\ "IdTaken" \in Outcome
      BY <1>1 DEF Insert, Outcome
    <2> QED BY <1>1, <2>1, RefusedStep
  <1>2. CASE ~Taken(i)
    <2> DEFINE c == NextRow
               new == NewRow(i, p, st, at, tw)
    <2>1. RoomLeft /\ Store(call, outcome, new) /\ c = NextRow
      BY <1>2 DEF Insert
    <2>2. c \in Cards /\ ~Exists(c)
      BY <2>1, NextRowIsFree
    <2>3. /\ Cards \subseteq Entities
          /\ status \in [Entities -> LiveStatus \cup FindingTerminal \cup RequirementOpen
                                       \cup RequirementTerminal \cup {"absent"}]
          /\ claims \in [Entities -> Claim \cup {NoClaim}]
          /\ id \in [Cards -> Id \cup {NoId}]
          /\ print \in [Cards -> Prints \cup {NoPrint}]
          /\ stamp \in [Cards -> 0 .. MaxNow]
          /\ twin \in [Cards -> Cards \cup {0}]
      BY DEF TrackerInv, IInv, TypeOK, TrackerTypeOK, Entities
    <2>4. ~Claimed(c)
      BY <2>2, <2>3 DEF TrackerInv, IInv, TypeOK
    <2>5. /\ new.status = [status EXCEPT ![c] = st]
          /\ new.id = [id EXCEPT ![c] = i]
          /\ new.print = [print EXCEPT ![c] = p]
          /\ new.stamp = [stamp EXCEPT ![c] = at]
          /\ new.twin = [twin EXCEPT ![c] = tw]
          /\ new.claims = claims
      BY <2>2, <2>3 DEF NewRow, Rows
    <2> HIDE DEF new, c
    <2>6. Written(c, st, new)
      BY <2>1, <2>2, <2>4, <2>5 DEF Written, Claimed
    <2>7. Fits(new.status, new.print) \/ call \notin Lookers
      <3>1. CASE p = NoPrint
        BY <2>2, <2>3, <2>5, <3>1 DEF TrackerInv, Fits
      <3>2. CASE HeldBy(p) = {}
        BY <2>2, <2>5, <3>2, FreePrintFits
      <3> QED BY <3>1, <3>2
    <2> QED BY <2>1, <2>2, <2>6, <2>7, StoreStep
  <1> QED BY <1>1, <1>2

\* The id the tracker makes is one no row has, unless some row's id has two
\* readings.
LEMMA NextIdIsFree ==
  ASSUME TrackerInv, NEW i \in NextIds
  PROVE  i \in Id /\ (Taken(i) => TwoReadings)
  <1>1. \A c \in Numbered : c \in Cards /\ id[c] \in Id /\ id[c].like
    BY DEF Numbered, TrackerInv, TrackerTypeOK
  <1>2. \A c \in Cards : id[c] \in Id /\ id[c].like => c \in Numbered
    BY TrackerAssumption DEF Numbered, TrackerInv, TrackerTypeOK
  <1>3. \A n \in Nat : Own(n) \in Id /\ Own(n).like /\ Own(n).num = n
    BY TrackerAssumption DEF Own, Id
  <1>4. CASE Numbered = {}
    <2>1. i = Own(1)
      BY <1>4 DEF NextIds
    <2>2. \A c \in Cards : id[c] # i
      BY <1>2, <1>3, <1>4, <2>1
    <2> QED BY <1>3, <2>1, <2>2 DEF Taken
  <1>5. CASE Numbered # {}
    <2>1. PICK c \in LastNumbered : i = Own(id[c].num + 1)
      BY <1>5 DEF NextIds
    <2>2. /\ c \in Numbered /\ id[c].num \in Nat /\ id[c].cast \in Int
          /\ \A d \in Numbered : id[d].cast <= id[c].cast
      BY <1>1, <2>1 DEF LastNumbered, Id
    <2>3. i \in Id /\ i.like /\ i.num = id[c].num + 1
      BY <1>3, <2>1, <2>2
    <2>4. ASSUME NEW d \in Cards, id[d] = i, ~TwoReadings PROVE FALSE
      <3>1. d \in Numbered
        BY <1>2, <2>3, <2>4
      <3>2. id[d].cast = id[d].num /\ id[c].cast = id[c].num
        BY <2>2, <2>4, <3>1 DEF TwoReadings
      <3>3. id[d].cast <= id[c].cast
        BY <2>2, <3>1
      <3> QED BY <2>2, <2>3, <2>4, <3>2, <3>3
    <2> QED BY <2>3, <2>4 DEF Taken
  <1> QED BY <1>4, <1>5

\* One observation through the identity function.
LEMMA AddOneStep ==
  ASSUME TrackerInv, NEW p \in Prints, NEW call \in {"add", "import"}, AddOne(p, call), now' = now
  PROVE  TrackerInv'
  <1> USE DEF Rows
  <1>1. /\ TypeOK /\ TrackerTypeOK /\ Bounded
        /\ Cards \subseteq Entities
        /\ status \in [Entities -> LiveStatus \cup FindingTerminal \cup RequirementOpen
                                     \cup RequirementTerminal \cup {"absent"}]
        /\ claims \in [Entities -> Claim \cup {NoClaim}]
        /\ id \in [Cards -> Id \cup {NoId}]
        /\ \A c \in Cards : Exists(c) => id[c] \in Id
        /\ print \in [Cards -> Prints \cup {NoPrint}]
        /\ stamp \in [Cards -> 0 .. MaxNow]
        /\ twin \in [Cards -> Cards \cup {0}]
        /\ now \in 0 .. MaxNow
    BY DEF TrackerInv, IInv, TypeOK, TrackerTypeOK, Entities
  <1>2. "open" \in LiveStatus \cup FindingTerminal /\ "open" \notin FindingTerminal
    BY DEF LiveStatus, FindingTerminal
  <1>3. /\ {"bumped", "reopened", "created", "recurrence_of_closed"}
             \subseteq Outcome \ {"IntegrityError", "IdTaken"}
        /\ call \in Call
    BY DEF Outcome, Call
  <1>4. CASE Bump(p, call)
    <2>1. PICK c \in HeldBy(p) : Store(call, "bumped", [Rows EXCEPT !.stamp[c] = now])
      BY <1>4 DEF Bump
    <2> DEFINE new == [Rows EXCEPT !.stamp[c] = now]
    <2>2. c \in Cards /\ status[c] \in LiveStatus /\ print[c] = p
      BY DEF HeldBy
    <2>3. /\ new.status = [status EXCEPT ![c] = status[c]]
          /\ new.id = [id EXCEPT ![c] = id[c]]
          /\ new.print = [print EXCEPT ![c] = p]
          /\ new.stamp = [stamp EXCEPT ![c] = now]
          /\ new.twin = [twin EXCEPT ![c] = twin[c]]
          /\ new.claims = claims
      BY <1>1, <2>2
    <2>4. Fits(new.status, new.print)
      BY <1>1, <2>2, <2>3 DEF TrackerInv, Fits
    <2>5. Exists(c) /\ id[c] \in Id /\ twin[c] \in Cards \cup {0}
      BY <1>1, <2>2 DEF Exists, LiveStatus
    <2>6. Store(call, "bumped", new)
      BY <2>1
    <2> HIDE DEF new
    <2>7. Written(c, status[c], new)
      <3>1. \E q \in Prints \cup {NoPrint} : new.print = [print EXCEPT ![c] = q]
        BY <2>3
      <3>2. \E at \in 0 .. MaxNow : new.stamp = [stamp EXCEPT ![c] = at]
        BY <1>1, <2>3
      <3>3. \E t \in Cards \cup {0} : new.twin = [twin EXCEPT ![c] = t]
        BY <2>3, <2>5
      <3>4. \E i \in Id : new.id = [id EXCEPT ![c] = i]
        BY <2>3, <2>5
      <3> QED BY <2>2, <2>3, <2>5, <3>1, <3>2, <3>3, <3>4 DEF Written
    <2> QED BY <1>3, <2>2, <2>4, <2>6, <2>7, StoreStep
  <1>5. CASE Reopen(p, call)
    <2> DEFINE c == Newest(p)
               new == [Rows EXCEPT !.status[Newest(p)] = "open", !.stamp[Newest(p)] = now,
                                   !.claims = AutoRelease(Newest(p), "open")]
    <2>1. HeldBy(p) = {} /\ Closed(p) # {} /\ Store(call, "reopened", new)
      BY <1>5 DEF Reopen, Regressed
    <2>2. c \in Cards /\ status[c] \in FindingTerminal /\ print[c] = p
      BY <1>1, <2>1, NewestIsClosed DEF Closed
    <2>3. AutoRelease(c, "open") = claims
      BY <1>2, <2>2 DEF AutoRelease, Terminal
    <2>4. /\ new.status = [status EXCEPT ![c] = "open"]
          /\ new.id = [id EXCEPT ![c] = id[c]]
          /\ new.print = [print EXCEPT ![c] = p]
          /\ new.stamp = [stamp EXCEPT ![c] = now]
          /\ new.twin = [twin EXCEPT ![c] = twin[c]]
          /\ new.claims = claims
      BY <1>1, <2>2, <2>3
    <2>5. Exists(c) /\ id[c] \in Id /\ twin[c] \in Cards \cup {0}
      BY <1>1, <2>2 DEF Exists, FindingTerminal
    <2> HIDE DEF new, c
    <2>6. Fits(new.status, new.print)
      BY <2>1, <2>2, <2>4, FreePrintFits
    <2>7. Written(c, "open", new)
      BY <1>1, <1>2, <2>2, <2>4, <2>5 DEF Written
    <2> QED BY <1>3, <2>1, <2>2, <2>6, <2>7, StoreStep
  <1>6. ASSUME NEW i \in NextIds, NEW tw \in Cards \cup {0},
               NEW outcome \in {"created", "recurrence_of_closed"},
               HeldBy(p) = {}, Insert(call, outcome, i, p, "open", now, tw)
        PROVE  TrackerInv'
    BY <1>1, <1>2, <1>3, <1>6, NextIdIsFree, InsertStep
  <1>7. CASE FileNew(p, call)
    BY <1>6, <1>7 DEF FileNew
  <1>8. CASE FileRecurrence(p, call)
    <2>1. Newest(p) \in Cards
      BY <1>1, <1>8, NewestIsClosed DEF FileRecurrence, Closed
    <2> QED BY <1>6, <1>8, <2>1 DEF FileRecurrence
  <1> QED BY <1>4, <1>5, <1>7, <1>8 DEF AddOne

LEMMA UpdateStep ==
  ASSUME TrackerInv, NEW c \in Cards, NEW s \in InputStatus \cup {status[c]}, Update(c, s)
  PROVE  TrackerInv'
  <1> DEFINE new == [Rows EXCEPT !.status[c] = s, !.stamp[c] = now,
                                 !.claims = IF s = status[c] THEN claims ELSE AutoRelease(c, s)]
  <1>1. /\ Exists(c) /\ ~RefusedByTwin(c, s) /\ Store("update", "updated", new) /\ now' = now
    BY DEF Update
  <1>2. /\ Cards \subseteq Entities
        /\ status \in [Entities -> LiveStatus \cup FindingTerminal \cup RequirementOpen
                                     \cup RequirementTerminal \cup {"absent"}]
        /\ status[c] \in Statuses(c)
        /\ claims \in [Entities -> Claim \cup {NoClaim}]
        /\ id \in [Cards -> Id \cup {NoId}] /\ id[c] \in Id
        /\ print \in [Cards -> Prints \cup {NoPrint}]
        /\ stamp \in [Cards -> 0 .. MaxNow]
        /\ twin \in [Cards -> Cards \cup {0}]
        /\ now \in 0 .. MaxNow
    BY <1>1 DEF TrackerInv, IInv, TypeOK, TrackerTypeOK, Entities
  <1>3. s \in LiveStatus \cup FindingTerminal /\ status[c] \in LiveStatus \cup FindingTerminal
    BY <1>2, TrackerAssumption DEF Statuses
  <1>4. /\ new.status = [status EXCEPT ![c] = s]
        /\ new.id = [id EXCEPT ![c] = id[c]]
        /\ new.print = [print EXCEPT ![c] = print[c]]
        /\ new.stamp = [stamp EXCEPT ![c] = now]
        /\ new.twin = [twin EXCEPT ![c] = twin[c]]
        /\ new.claims = IF s = status[c] THEN claims ELSE AutoRelease(c, s)
    BY <1>2 DEF Rows
  <1> HIDE DEF new
  <1>5. /\ new.claims = claims \/ new.claims = [claims EXCEPT ![c] = NoClaim]
        /\ s \in FindingTerminal /\ s # status[c] => new.claims[c] = NoClaim
    BY <1>2, <1>4 DEF AutoRelease, Terminal
  <1>6. Written(c, s, new)
    BY <1>1, <1>2, <1>3, <1>4, <1>5 DEF Written
  <1>7. Fits(new.status, new.print)
    <2>1. CASE status[c] \in LiveStatus \/ s \notin LiveStatus
      BY <1>2, <1>4, <2>1 DEF TrackerInv, Fits
    <2>2. CASE status[c] \in FindingTerminal /\ s \in LiveStatus
      <3>1. print[c] = NoPrint \/ HeldBy(print[c]) \subseteq {c}
        BY <1>1, <2>2 DEF RefusedByTwin
      <3>2. CASE print[c] = NoPrint
        BY <1>2, <1>4, <3>2 DEF TrackerInv, Fits
      <3>3. CASE HeldBy(print[c]) \subseteq {c}
        BY <1>4, <3>3, FreePrintFits
      <3> QED BY <3>1, <3>2, <3>3
    <2> QED BY <1>3, <2>1, <2>2
  <1>8. "update" \in Call /\ "updated" \in Outcome \ {"IntegrityError", "IdTaken"}
    BY DEF Call, Outcome
  <1> QED BY <1>1, <1>6, <1>7, <1>8, StoreStep

\* What keeps the tracker's part of the invariant when rows only change status,
\* claim and stamp: the claims part is the claims engine's own lemma.
LEMMA ClaimingStep ==
  ASSUME TrackerInv, IInv', UNCHANGED <<id, print, twin, now>>,
         \A c \in Cards : ~Exists(c) <=> ~Exists(c)',
         stamp' \in [Cards -> 0 .. MaxNow], Fits(status, print)',
         reply'.call \in {"claim", "release"}
  PROVE  TrackerInv'
  <1>1. TrackerTypeOK'
    BY DEF TrackerInv, TrackerTypeOK, IInv
  <1>2. Bounded'
    BY DEF TrackerInv, Bounded
  <1>3. LookupsSuffice'
    BY DEF LookupsSuffice
  <1> QED BY <1>1, <1>2, <1>3 DEF TrackerInv

LEMMA ClaimCardStep ==
  ASSUME TrackerInv, NEW c \in Cards, NEW h \in Holders, NEW project \in BOOLEAN,
         NEW allow \in BOOLEAN, ClaimCard(c, h, project, allow)
  PROVE  TrackerInv'
  <1>1. c \in Entities /\ now' = now
    BY DEF ClaimCard, Entities
  <1>2. CASE ~ClaimIt(c, h, project, allow)
    <2>1. UNCHANGED rowVars /\ reply' = Reply("claim", h, "IntegrityError")
      BY <1>2 DEF ClaimCard
    <2>2. "claim" \in Call /\ "IntegrityError" \in Outcome
      BY DEF Call, Outcome
    <2> QED BY <1>1, <2>1, <2>2, RefusedStep DEF Lookers
  <1>3. CASE ClaimIt(c, h, project, allow) /\ ~UNCHANGED rowVars
    <2>1. /\ stamp' = IF Projects(c, project) THEN [stamp EXCEPT ![c] = now] ELSE stamp
          /\ UNCHANGED <<id, print, twin>>
          /\ Projects(c, project) => Fits([status EXCEPT ![c] = "in_progress"], print)
      BY <1>3 DEF ClaimCard, ClaimIt
    <2>2. status' = IF Projects(c, project) THEN [status EXCEPT ![c] = "in_progress"] ELSE status
      BY <1>3 DEF ClaimIt
    <2>3. IInv'
      BY <1>1, <1>3, ClaimStep DEF TrackerInv
    <2>4. stamp' \in [Cards -> 0 .. MaxNow]
      BY <2>1 DEF TrackerInv, TrackerTypeOK
    <2>5. Fits(status, print)'
      BY <2>1, <2>2 DEF TrackerInv, Fits
    <2>6. \A d \in Cards : ~Exists(d) <=> ~Exists(d)'
      BY <1>3, <2>2 DEF TrackerInv, IInv, TypeOK, ClaimIt, MayClaim, Exists, Entities
    <2>7. reply'.call \in {"claim", "release"}
      BY <1>3 DEF ClaimIt, Reply
    <2> QED BY <1>1, <2>1, <2>3, <2>4, <2>5, <2>6, <2>7, ClaimingStep
  <1>4. CASE ClaimIt(c, h, project, allow) /\ UNCHANGED rowVars
    <2>1. reply' = Reply("claim", h, "claimed") /\ "claim" \in Call /\ "claimed" \in Outcome
      BY <1>4 DEF ClaimIt, Call, Outcome
    <2> QED BY <1>1, <1>4, <2>1, RefusedStep
  <1> QED BY <1>2, <1>3, <1>4

LEMMA ReleaseCardStep ==
  ASSUME TrackerInv, NEW c \in Cards, NEW h \in Holders, NEW restore \in BOOLEAN,
         ReleaseCard(c, h, restore)
  PROVE  TrackerInv'
  <1>1. /\ ReleaseIt(c, h, restore)
        /\ stamp' = IF Restores(c, restore) THEN [stamp EXCEPT ![c] = now] ELSE stamp
        /\ UNCHANGED <<id, print, twin, now>>
    BY DEF ReleaseCard
  <1>2. IInv' /\ c \in Entities
    BY <1>1, ReleaseStep DEF TrackerInv, Entities
  <1>3. status' = IF Restores(c, restore) THEN [status EXCEPT ![c] = claims[c].prev] ELSE status
    BY <1>1 DEF ReleaseIt
  <1>4. Restores(c, restore) =>
          status[c] = "in_progress" /\ claims[c].prev \in LiveStatus \cup FindingTerminal
    BY <1>1, <1>2 DEF TrackerInv, IInv, TypeOK, Restores, ReleaseIt, Holds, Claimed, Claim
  <1>5. stamp' \in [Cards -> 0 .. MaxNow]
    BY <1>1 DEF TrackerInv, TrackerTypeOK
  <1>6. Fits(status, print)'
    BY <1>1, <1>2, <1>3, <1>4 DEF TrackerInv, IInv, TypeOK, Fits, LiveStatus
  <1>7. \A d \in Cards : ~Exists(d) <=> ~Exists(d)'
    BY <1>2, <1>3, <1>4 DEF TrackerInv, IInv, TypeOK, Exists, Entities, LiveStatus, FindingTerminal
  <1>8. reply'.call \in {"claim", "release"}
    BY <1>1 DEF ReleaseIt, Reply
  <1> QED BY <1>1, <1>2, <1>5, <1>6, <1>7, <1>8, ClaimingStep

LEMMA FoldStep ==
  ASSUME TrackerInv, NEW m \in [Prints -> Prints], Fold(m)
  PROVE  TrackerInv'
  <1>1. UNCHANGED <<status, claims, id, stamp, twin, now>> /\ Fits(status, Planned(m))
    BY DEF Fold, Stopped
  <1>2. print' \in [Cards -> Prints \cup {NoPrint}]
    BY DEF Fold, Planned, TrackerInv, TrackerTypeOK
  <1>3. \A c \in Cards : print[c] = NoPrint => print'[c] = NoPrint
    BY DEF Fold, Planned, TrackerInv, TrackerTypeOK
  <1>4. Fits(status, print)'
    BY <1>1 DEF Fold, TrackerInv, Fits
  <1>5. reply' \in [call : Call, by : Holders \cup {Nobody}, outcome : Outcome]
    BY DEF Fold, Reply, Call, Outcome
  <1>6. IInv'
    BY <1>1, <1>5 DEF TrackerInv, IInv, TypeOK, ClosedCardIsFree, PrevIsLive, Exists, Claimed
  <1>7. TrackerTypeOK'
    BY <1>1, <1>2, <1>3, <1>6 DEF TrackerInv, TrackerTypeOK, Exists, IInv
  <1>8. Bounded' /\ LookupsSuffice'
    BY <1>1 DEF TrackerInv, Bounded, Exists, LookupsSuffice, Fold, Reply
  <1> QED BY <1>4, <1>6, <1>7, <1>8 DEF TrackerInv

LEMMA TickStep ==
  ASSUME TrackerInv, Tick
  PROVE  TrackerInv'
  <1>1. UNCHANGED <<rowVars, reply>> /\ now' \in 0 .. MaxNow
    BY TrackerAssumption DEF Tick, TrackerInv, TrackerTypeOK
  <1>2. IInv'
    BY <1>1 DEF TrackerInv, IInv, TypeOK, ClosedCardIsFree, PrevIsLive, rowVars, Exists, Claimed
  <1>3. TrackerTypeOK'
    BY <1>1, <1>2 DEF TrackerInv, TrackerTypeOK, rowVars, Exists, IInv
  <1>4. Fits(status, print)' /\ Bounded' /\ LookupsSuffice'
    BY <1>1 DEF TrackerInv, Fits, Bounded, rowVars, Exists, LookupsSuffice, Numbered
  <1> QED BY <1>2, <1>3, <1>4 DEF TrackerInv

LEMMA ImportStep ==
  ASSUME TrackerInv, NEW p \in Prints, Import(p)
  PROVE  TrackerInv'
  <1>1. now' = now /\ "import" \in Call /\ "skipped_decided" \in Outcome
    BY DEF Import, Call, Outcome
  <1>2. CASE Regressed(p)
    BY <1>1, <1>2, RefusedStep DEF Import
  <1>3. CASE ~Regressed(p)
    BY <1>1, <1>3, AddOneStep DEF Import
  <1> QED BY <1>2, <1>3

-----------------------------------------------------------------------------
(* The invariant, and what it gives. *)

LEMMA TrackerInitInv == TrackerInit => TrackerInv
  <1> SUFFICES ASSUME TrackerInit PROVE TrackerInv
    OBVIOUS
  <1>1. IInv
    BY InitInv DEF TrackerInit
  <1>2. \A c \in Cards : ~Exists(c)
    BY DEF TrackerInit, Init, Exists, Entities
  <1>3. TrackerTypeOK
    BY <1>1, <1>2, TrackerAssumption DEF TrackerTypeOK, TrackerInit, IInv
  <1>4. Fits(status, print)
    BY <1>2 DEF Fits, TrackerInit
  <1>5. Bounded
    BY <1>2 DEF Bounded
  <1>6. LookupsSuffice
    BY DEF LookupsSuffice, TrackerInit, Init, Reply
  <1> QED BY <1>1, <1>3, <1>4, <1>5, <1>6 DEF TrackerInv

LEMMA TrackerInvStep == TrackerInv /\ [TrackerNext]_vars => TrackerInv'
  <1> SUFFICES ASSUME TrackerInv, [TrackerNext]_vars PROVE TrackerInv'
    OBVIOUS
  <1>1. ASSUME NEW p \in Prints, Observe(p) PROVE TrackerInv'
    BY <1>1, AddOneStep DEF Observe, Call
  <1>2. ASSUME NEW p \in Prints, Import(p) PROVE TrackerInv'
    BY <1>2, ImportStep
  <1>3. ASSUME NEW i \in InputIds, NEW p \in Prints \cup {NoPrint}, ObserveWithId(i, p)
        PROVE  TrackerInv'
    <2>1. "open" \in LiveStatus /\ "add_as" \in Call \ {"add", "import"} /\ "created" \in Outcome \ {"IntegrityError", "IdTaken"}
      BY DEF LiveStatus, Call, Outcome
    <2>2. now \in 0 .. MaxNow
      BY DEF TrackerInv, TrackerTypeOK
    <2> QED BY <1>3, <2>1, <2>2, TrackerAssumption, InsertStep DEF ObserveWithId
  <1>4. ASSUME NEW c \in Cards, NEW new \in InputStatus \cup {status[c]}, Update(c, new)
        PROVE  TrackerInv'
    BY <1>4, UpdateStep
  <1>5. ASSUME NEW c \in Cards, NEW h \in Holders, NEW project \in BOOLEAN, NEW allow \in BOOLEAN,
               ClaimCard(c, h, project, allow)
        PROVE  TrackerInv'
    BY <1>5, ClaimCardStep
  <1>6. ASSUME NEW c \in Cards, NEW h \in Holders, NEW restore \in BOOLEAN,
               ReleaseCard(c, h, restore)
        PROVE  TrackerInv'
    BY <1>6, ReleaseCardStep
  <1>7. ASSUME NEW i \in InputIds, NEW p \in Prints, NEW st \in FileStatus, NEW at \in 0 .. MaxNow,
               Restore(i, p, st, at)
        PROVE  TrackerInv'
    <2>1. st \in LiveStatus \cup FindingTerminal /\ i \in Id
      BY TrackerAssumption
    <2>2. "restore" \in Call \ Lookers /\ "restored" \in Outcome \ {"IntegrityError", "IdTaken"}
      BY DEF Call, Outcome, Lookers
    <2> QED BY <1>7, <2>1, <2>2, InsertStep DEF Restore, Lookers
  <1>8. ASSUME NEW m \in [Prints -> Prints], Fold(m) PROVE TrackerInv'
    BY <1>8, FoldStep
  <1>9. CASE Tick
    BY <1>9, TickStep
  <1>10. CASE UNCHANGED vars
    <2>1. IInv'
      BY <1>10 DEF vars, TrackerInv, IInv, TypeOK, ClosedCardIsFree, PrevIsLive, Exists, Claimed
    <2>2. TrackerTypeOK'
      BY <1>10, <2>1 DEF vars, TrackerInv, TrackerTypeOK, Exists, IInv
    <2>3. Fits(status, print)' /\ Bounded' /\ LookupsSuffice'
      BY <1>10 DEF vars, TrackerInv, Fits, Bounded, Exists, LookupsSuffice, Numbered
    <2> QED BY <2>1, <2>2, <2>3 DEF TrackerInv
  <1> QED BY <1>1, <1>2, <1>3, <1>4, <1>5, <1>6, <1>7, <1>8, <1>9, <1>10 DEF TrackerNext

LEMMA TrackerInvariance == TrackerSpec => []TrackerInv
  BY TrackerInitInv, TrackerInvStep, PTL DEF TrackerSpec

\* The columns the index, the lookups and the claims read keep their types.
THEOREM TrackerTyping == TrackerSpec => []TrackerTypeOK
  BY TrackerInvariance, PTL DEF TrackerInv

\* The lookups of add, import and update are enough: none of them meets the
\* fingerprint index, for any number of cards and any map of categories; and an
\* add that names no id meets the primary key only beside an id that CAST and
\* the regular expression read differently.
THEOREM NoLeak == TrackerSpec => []LookupsSuffice
  BY TrackerInvariance, PTL DEF TrackerInv

\* A claim is left on a closed card only if it was made with allow_terminal,
\* with the tracker's reopenings, restores and folds among the writers.
THEOREM TrackerFreesClosed == TrackerSpec => []ClosedCardIsFree
  BY TrackerInvariance, PTL DEF TrackerInv, IInv

\* An accepted observation leaves exactly one live card of its fingerprint.
THEOREM Visible == TrackerSpec => SightingIsVisible
  <1> DEFINE Seen(p) ==
        \E c \in Cards :
          /\ status'[c] \in LiveStatus /\ print'[c] = p /\ stamp'[c] = now
          /\ \A d \in Cards \ {c} : print[d] = p => status'[d] = status[d]
                                                /\ status[d] \notin LiveStatus
  <1>1. ASSUME TrackerInv, TrackerInv', NEW p \in Prints, Observe(p), reply'.outcome # "IdTaken"
        PROVE  Seen(p)
    <2>1. AddOne(p, "add") /\ LookupsSuffice'
      BY <1>1 DEF Observe, TrackerInv
    <2>2. \A outcome, new : Store("add", outcome, new) =>
            /\ status' = new.status /\ print' = new.print /\ stamp' = new.stamp
      BY <2>1 DEF Store, LookupsSuffice, Reply
    <2>3. /\ Cards \subseteq Entities
          /\ status \in [Entities -> LiveStatus \cup FindingTerminal \cup RequirementOpen
                                       \cup RequirementTerminal \cup {"absent"}]
          /\ print \in [Cards -> Prints \cup {NoPrint}]
          /\ stamp \in [Cards -> 0 .. MaxNow]
          /\ p # NoPrint
      BY <1>1, TrackerAssumption DEF TrackerInv, IInv, TypeOK, TrackerTypeOK, Entities
    <2>4. CASE Bump(p, "add")
      <3>1. PICK c \in HeldBy(p) : Store("add", "bumped", [Rows EXCEPT !.stamp[c] = now])
        BY <2>4 DEF Bump
      <3>2. status' = status /\ print' = print /\ stamp' = [stamp EXCEPT ![c] = now]
        BY <2>2, <3>1 DEF Rows
      <3>3. c \in Cards /\ status[c] \in LiveStatus /\ print[c] = p
        BY DEF HeldBy
      <3>4. \A d \in Cards \ {c} : print[d] = p => status[d] \notin LiveStatus
        BY <1>1, <2>3, <3>3 DEF TrackerInv, Fits
      <3> QED BY <2>3, <3>2, <3>3, <3>4
    <2>5. CASE Reopen(p, "add")
      <3> DEFINE c == Newest(p)
      <3>1. HeldBy(p) = {} /\ c \in Closed(p)
        BY <1>1, <2>5, NewestIsClosed DEF Reopen, Regressed, TrackerInv
      <3>2. /\ status' = [status EXCEPT ![c] = "open"] /\ print' = print
            /\ stamp' = [stamp EXCEPT ![c] = now]
        <4> DEFINE new == [Rows EXCEPT !.status[c] = "open", !.stamp[c] = now,
                                       !.claims = AutoRelease(c, "open")]
        <4>1. Store("add", "reopened", new)
          BY <2>5 DEF Reopen
        <4>2. new.status = [status EXCEPT ![c] = "open"] /\ new.print = print
              /\ new.stamp = [stamp EXCEPT ![c] = now]
          BY DEF Rows
        <4> HIDE DEF new
        <4> QED BY <2>2, <4>1, <4>2
      <3> HIDE DEF c
      <3>3. c \in Cards /\ print[c] = p /\ "open" \in LiveStatus
        BY <3>1 DEF Closed, LiveStatus
      <3> QED BY <2>3, <3>1, <3>2, <3>3 DEF HeldBy
    <2>6. ASSUME NEW i, NEW tw, NEW outcome, HeldBy(p) = {},
                 Insert("add", outcome, i, p, "open", now, tw)
          PROVE  Seen(p)
      <3> DEFINE c == NextRow
      <3>0. RoomLeft /\ Store("add", outcome, NewRow(i, p, "open", now, tw))
        BY <1>1, <2>6 DEF Insert, Reply
      <3>1. /\ status' = [status EXCEPT ![c] = "open"] /\ print' = [print EXCEPT ![c] = p]
            /\ stamp' = [stamp EXCEPT ![c] = now]
        <4> DEFINE new == NewRow(i, p, "open", now, tw)
        <4>1. new.status = [status EXCEPT ![c] = "open"] /\ new.print = [print EXCEPT ![c] = p]
              /\ new.stamp = [stamp EXCEPT ![c] = now]
          BY DEF NewRow, Rows
        <4>2. Store("add", outcome, new)
          BY <3>0
        <4> HIDE DEF new
        <4> QED BY <2>2, <4>1, <4>2
      <3>2. c \in Cards /\ "open" \in LiveStatus
        BY <3>0, NextRowIsFree DEF LiveStatus
      <3> HIDE DEF c
      <3> QED BY <2>3, <2>6, <3>1, <3>2 DEF HeldBy
    <2> HIDE DEF Seen
    <2> QED BY <2>1, <2>4, <2>5, <2>6 DEF AddOne, FileNew, FileRecurrence
  <1>2. TrackerInv /\ [TrackerNext]_vars => 
            [\A p \in Prints : Observe(p) /\ reply'.outcome # "IdTaken" => Seen(p)]_vars
    BY <1>1, TrackerInvStep
  <1> QED BY <1>2, TrackerInvariance, PTL DEF TrackerSpec, SightingIsVisible

\* Only an update, or a claim that overrides the terminal guard, takes a card
\* out of a dismissal.
THEOREM Dismissed == TrackerSpec => DecisionStands
  <1> DEFINE A == \A c \in Cards :
        status[c] \in {"wont_fix", "not_a_bug"} /\ status'[c] # status[c] =>
          \/ reply'.call = "update"
          \/ reply'.call = "claim" /\ claims'[c].late
  <1>1. TrackerInv /\ [TrackerNext]_vars => [A]_vars
    <2> SUFFICES ASSUME TrackerInv, TrackerNext, NEW c \in Cards,
                        status[c] \in {"wont_fix", "not_a_bug"}, status'[c] # status[c]
                 PROVE  \/ reply'.call = "update"
                        \/ reply'.call = "claim" /\ claims'[c].late
      OBVIOUS
    <2>1. /\ Cards \subseteq Entities /\ c \in Entities /\ Exists(c)
          /\ status \in [Entities -> LiveStatus \cup FindingTerminal \cup RequirementOpen
                                       \cup RequirementTerminal \cup {"absent"}]
          /\ claims \in [Entities -> Claim \cup {NoClaim}]
      BY DEF TrackerInv, IInv, TypeOK, Entities, Exists
    <2>2. \A call, outcome, new : Store(call, outcome, new) => status' = new.status \/ status' = status
      BY DEF Store, rowVars
    <2>3. ASSUME NEW call, NEW outcome, NEW i, NEW p, NEW st, NEW at, NEW tw,
                 Insert(call, outcome, i, p, st, at, tw)
          PROVE  FALSE
      <3> DEFINE new == NewRow(i, p, st, at, tw)
      <3>1. new.status = [status EXCEPT ![NextRow] = st] /\ RoomLeft /\ Store(call, outcome, new)
        BY <2>3 DEF NewRow, Rows, Insert, rowVars
      <3> HIDE DEF new
      <3> QED BY <2>1, <2>2, <3>1, NextRowIsFree
    <2>4. ASSUME NEW p, NEW call, AddOne(p, call) PROVE FALSE
      <3>1. ~Bump(p, call)
        <4> SUFFICES ASSUME NEW d, Store(call, "bumped", [Rows EXCEPT !.stamp[d] = now])
                     PROVE  FALSE
          BY DEF Bump
        <4> DEFINE new == [Rows EXCEPT !.stamp[d] = now]
        <4>1. new.status = status /\ Store(call, "bumped", new)
          BY DEF Rows
        <4> HIDE DEF new
        <4> QED BY <2>2, <4>1
      <3>2. ~Reopen(p, call)
        <4> SUFFICES ASSUME Reopen(p, call) PROVE FALSE
          OBVIOUS
        <4> DEFINE e == Newest(p)
                   new == [Rows EXCEPT !.status[e] = "open", !.stamp[e] = now,
                                       !.claims = AutoRelease(e, "open")]
        <4>1. Store(call, "reopened", new) /\ status[e] = "fixed"
          BY DEF Reopen, Regressed
        <4>2. new.status = [status EXCEPT ![e] = "open"]
          BY DEF Rows
        <4> HIDE DEF new, e
        <4> QED BY <2>1, <2>2, <4>1, <4>2
      <3> QED BY <2>3, <2>4, <3>1, <3>2 DEF AddOne, FileNew, FileRecurrence
    <2>5. ASSUME NEW p, Observe(p) \/ Import(p) PROVE FALSE
      BY <2>4, <2>5 DEF Observe, Import, rowVars
    <2>6. ASSUME NEW i, NEW p, ObserveWithId(i, p) PROVE FALSE
      BY <2>3, <2>6 DEF ObserveWithId
    <2>7. ASSUME NEW d \in Cards, NEW new, Update(d, new) PROVE reply'.call = "update"
      BY <2>7 DEF Update, Store, Reply
    <2>8. ASSUME NEW d \in Cards, NEW h, NEW project, NEW allow \in BOOLEAN, ClaimCard(d, h, project, allow)
          PROVE  reply'.call = "claim" /\ claims'[c].late
      <3>1. ClaimIt(d, h, project, allow)
        BY <2>8 DEF ClaimCard, rowVars
      <3>2. d = c /\ allow
        BY <2>1, <3>1 DEF ClaimIt, MayClaim, NotFinished, Terminal, FindingTerminal
      <3> QED BY <2>1, <3>1, <3>2 DEF ClaimIt, Reply
    <2>9. ASSUME NEW d \in Cards, NEW h, NEW restore, ReleaseCard(d, h, restore) PROVE FALSE
      BY <2>1, <2>9 DEF ReleaseCard, ReleaseIt, Restores
    <2>10. ASSUME NEW i, NEW p, NEW st, NEW at, Restore(i, p, st, at) PROVE FALSE
      BY <2>3, <2>10 DEF Restore
    <2>11. ASSUME NEW m, Fold(m) PROVE FALSE
      BY <2>11 DEF Fold
    <2>12. CASE Tick
      BY <2>12 DEF Tick, rowVars
    <2> QED BY <2>5, <2>6, <2>7, <2>8, <2>9, <2>10, <2>11, <2>12 DEF TrackerNext
  <1> QED BY <1>1, TrackerInvariance, PTL DEF TrackerSpec, DecisionStands
=============================================================================
