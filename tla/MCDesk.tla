------------------------------- MODULE MCDesk -------------------------------
(* Sweeps and claims for TLC, which share no state: the part that moves is   *)
(* chosen at the start.  Sweeps: the default lifecycle, one with a           *)
(* transition relation, and two the checks of create_sweep let through or    *)
(* refuse.  Claims: holders that share names and qualifiers.                 *)
EXTENDS Claims, Sweep, TLC

CONSTANTS i1, i2, i3

VARIABLE part

-----------------------------------------------------------------------------

NextOf(f) == [s \in States |-> IF s \in DOMAIN f THEN f[s] ELSE {}]

Default == [states |-> <<"pending", "done">>, terminal |-> <<"done">>, next |-> NoDag]

Retro ==
  [states |-> <<"pending", "confirmed", "done">>, terminal |-> <<"done">>,
   next |-> NextOf([pending |-> {"confirmed"}, confirmed |-> {"done", "pending"}])]

Unknown == [states |-> <<"pending">>, terminal |-> <<"done">>, next |-> NoDag]

DoneFirst == [states |-> <<"done", "pending">>, terminal |-> <<"done">>, next |-> NoDag]

Offers == {Default, Retro, Unknown, DoneFirst}

Lists == {<<i1>>, <<i2>>, <<i3, i3>>, <<i2, i1>>, <<i1, i3>>}

\* Holder names and qualifiers are interchangeable.
Symmetry == Permutations(Names) \cup Permutations(Quals)

-----------------------------------------------------------------------------

MCInit == part \in {"claims", "sweeps"} /\ Init /\ SweepInit

MCNext ==
  \/ part = "claims" /\ Next /\ UNCHANGED <<part, sweepVars>>
  \/ part = "sweeps" /\ SweepNext /\ UNCHANGED <<part, claimVars>>

MCSpec == MCInit /\ [][MCNext]_<<part, claimVars, sweepVars>>
=============================================================================
