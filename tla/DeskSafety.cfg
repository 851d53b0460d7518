\* A card and a requirement, four holders that share names and qualifiers; four
\* lifecycles callers declare, one of them refused, and batches with repeats.
SPECIFICATION MCSpec
CONSTANTS
  i1 = i1  i2 = i2  i3 = i3
  Items = {i1, i2, i3}
  States = {"pending", "confirmed", "done"}
  NoItem = NoItem
  NoDag = NoDag
  NoLife = NoLife
  Lifecycles <- Offers
  Batches <- Lists
  MaxCount = 3
  Cards = {c1}
  Reqs = {r1}
  Names = {h1, h2}
  Quals = {q1, q2}
  NoClaim = NoClaim
  Nobody = Nobody
SYMMETRY Symmetry
INVARIANTS SweepTypeOK OfferedIsUnfinished ClosedCardIsFree
PROPERTIES TransitionsHold OrderIsStable ReleaseReopensWork OnlyHolderReleases
CHECK_DEADLOCK TRUE
