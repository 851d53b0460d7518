----------------------------- MODULE Resolvers -----------------------------
(***************************************************************************)
(* The pre-add resolvers of src/src/codebugs/db.py: extensions that        *)
(* annotate a finding before its INSERT, inside the caller's transaction,  *)
(* on the caller's own connection.  Each runs in a savepoint; one that     *)
(* fails is undone and stamped, one that ends the transaction is fatal.    *)
(*                                                                         *)
(* One connection is modelled: a resolver can do anything to it.           *)
(***************************************************************************)
EXTENDS Naturals, FiniteSets, Sequences, SequencesExt

CONSTANTS
  Names,      \* names of resolvers
  Fns,        \* their functions
  Keys,       \* keys of meta that a resolver may declare
  Forbidden,  \* those of them that the caller reserves
  MaxOps      \* bound: statements of one resolver

VARIABLES
  registry,   \* _pre_add_resolvers
  frames,     \* SQLite: the open transaction and its savepoints, outermost first
  saved,      \* SQLite: whose writes are committed
  run         \* where run_pre_add_resolvers stands, and what it has gathered

vars == <<registry, frames, saved, run>>

Caller == "caller"
Errors == "resolver_errors"

ResolversAssumption == Caller \notin Names /\ IsFiniteSet(Names) /\ MaxOps \in Nat

Frames == [name : {"begin", "again", "nonce", "guess"} \X (0..Cardinality(Names)),
           wrote : SUBSET (Names \cup {Caller})]
Ready == [at |-> "idle", turn |-> 0, ops |-> 0, patch |-> {}, errors |-> {}]

TypeOK ==
  /\ registry \in Seq([name : Names, fn : Fns, keys : SUBSET (Keys \cup {Errors}),
                       updatable : SUBSET Keys])
  /\ frames \in Seq(Frames)
  /\ saved \subseteq Names \cup {Caller}
  /\ run \in [at : {"idle", "next", "resolver", "done", "aborted"}, turn : 0..Cardinality(Names),
              ops : 0..MaxOps, patch : SUBSET (Names \X Keys), errors : SUBSET Names]

-----------------------------------------------------------------------------
(* External: the connection. *)

InTransaction(fs) == fs # <<>>
AllWrote(fs) == UNION {fs[i].wrote : i \in DOMAIN fs}

\* The innermost savepoint of that name; 0 when there is none.
Innermost(fs, name) ==
  LET at == {i \in DOMAIN fs : fs[i].name = name}
  IN IF at = {} THEN 0 ELSE CHOOSE i \in at : \A j \in at : j <= i

\* RELEASE: its writes and those above it join what is below; the outermost
\* savepoint of a connection commits.
Released(fs, i) ==
  IF i = 1 THEN <<>>
  ELSE [SubSeq(fs, 1, i - 1) EXCEPT ![i - 1].wrote = @ \cup AllWrote(SubSeq(fs, i, Len(fs)))]

\* ROLLBACK TO and RELEASE.
RolledBack(fs, i) == SubSeq(fs, 1, i - 1)

Wrote(fs, who) == [fs EXCEPT ![Len(fs)].wrote = @ \cup {who}]

-----------------------------------------------------------------------------
(* The registry. *)

\* register_pre_add_resolver, where it changes something: a second registration
\* of a name is a no-op or refused, and so is a key that is already declared.
Register(n, f, keys, updatable) ==
  /\ run.at = "idle"
  /\ updatable \subseteq keys
  /\ \A i \in DOMAIN registry : registry[i].name # n /\ registry[i].keys \cap keys = {}
  /\ Errors \notin keys
  /\ registry' = Append(registry, [name |-> n, fn |-> f, keys |-> keys, updatable |-> updatable])
  /\ UNCHANGED <<frames, saved, run>>

\* resolver_reserved_meta_keys, resolver_updatable_meta_keys.
Reserved == {Errors} \cup UNION {registry[i].keys : i \in DOMAIN registry}
Updatable == UNION {registry[i].updatable : i \in DOMAIN registry}

-----------------------------------------------------------------------------
(* run_pre_add_resolvers. *)

Mine == registry[run.turn]

\* Mutant: the savepoint's name can be guessed.
Guessable(i) == <<"guess", i>>

\* sp_pre_add_<nonce>_<idx>.
SpName(i) == <<"nonce", i>>

\* The caller has an open transaction, with writes of its own in it.
Start ==
  /\ run.at = "idle"
  /\ frames' = <<[name |-> <<"begin", 0>>, wrote |-> {Caller}]>>
  /\ run' = [run EXCEPT !.at = "next"]
  /\ UNCHANGED <<registry, saved>>

\* The next resolver, in its savepoint; or the end.
NextResolver ==
  /\ run.at = "next"
  /\ IF run.turn = Len(registry)
     THEN run' = [run EXCEPT !.at = "done"] /\ UNCHANGED frames
     ELSE /\ run' = [run EXCEPT !.at = "resolver", !.turn = @ + 1, !.ops = MaxOps]
          /\ frames' = Append(frames, [name |-> SpName(run.turn + 1), wrote |-> {}])
  /\ UNCHANGED <<registry, saved>>

\* External: what the resolver does to the connection it was given.
Statement ==
  /\ run.at = "resolver" /\ run.ops > 0
  /\ \/ /\ frames' = IF InTransaction(frames) THEN Wrote(frames, Mine.name) ELSE frames
        /\ saved' = IF InTransaction(frames) THEN saved ELSE saved \cup {Mine.name}
     \/ InTransaction(frames) /\ frames' = <<>> /\ saved' = saved \cup AllWrote(frames)
     \/ InTransaction(frames) /\ frames' = <<>> /\ UNCHANGED saved
     \/ /\ ~InTransaction(frames) /\ UNCHANGED saved
        /\ frames' = <<[name |-> <<"again", 0>>, wrote |-> {}]>>
     \/ /\ frames' = Append(frames, [name |-> <<"guess", run.turn>>, wrote |-> {}])
        /\ UNCHANGED saved
     \/ LET i == Innermost(frames, <<"guess", run.turn>>) IN
        /\ i # 0 /\ frames' = Released(frames, i)
        /\ saved' = IF i = 1 THEN saved \cup AllWrote(frames) ELSE saved
  /\ run' = [run EXCEPT !.ops = @ - 1]
  /\ UNCHANGED registry

\* The check after every call, and again after the RELEASE: fatal, not swallowed.
Abort == run' = [run EXCEPT !.at = "aborted"] /\ UNCHANGED frames

\* Mutant: a failed resolver's writes stay.
Kept(fs, i) == Released(fs, i)

\* How a failure is undone.
Undo(fs, i) == RolledBack(fs, i)

\* The resolver raised, or its outcome was refused; without the savepoint the
\* stack is corrupt.
Failed ==
  LET i == Innermost(frames, SpName(run.turn)) IN
  IF i = 0 THEN Abort
  ELSE /\ frames' = Undo(frames, i)
       /\ run' = [run EXCEPT !.at = "next", !.ops = 0, !.errors = @ \cup {Mine.name}]

\* Mutant: only what the caller forbids is refused.
Undeclared(outcome) == outcome \cap Forbidden = {}

\* _validate_resolver_outcome.
Valid(outcome) == outcome \subseteq Mine.keys \ Forbidden

\* The resolver returns; an empty outcome stands for None too.
Return(outcome) ==
  /\ run.at = "resolver"
  /\ LET i == Innermost(frames, SpName(run.turn)) IN
     CASE ~InTransaction(frames) -> Abort /\ UNCHANGED saved
       [] InTransaction(frames) /\ (~Valid(outcome) \/ i = 0) -> Failed /\ UNCHANGED saved
       [] OTHER ->
            /\ saved' = IF i = 1 THEN saved \cup AllWrote(frames) ELSE saved
            /\ frames' = Released(frames, i)
            /\ run' = [run EXCEPT !.at = IF InTransaction(frames') THEN "next" ELSE "aborted",
                                  !.ops = 0, !.patch = @ \cup ({Mine.name} \X outcome)]
  /\ UNCHANGED registry

\* The resolver raises.
Raise == run.at = "resolver" /\ Failed /\ UNCHANGED <<registry, saved>>

Init ==
  /\ registry = <<>> /\ frames = <<>> /\ saved = {}
  /\ run = Ready

Next ==
  \/ \E n \in Names, f \in Fns, keys \in SUBSET (Keys \cup {Errors}), updatable \in SUBSET Keys :
       Register(n, f, keys, updatable)
  \/ Start \/ NextResolver \/ Statement \/ Raise
  \/ \E outcome \in SUBSET (Keys \cup {Errors}) : Return(outcome)

Spec == Init /\ [][Next]_vars

-----------------------------------------------------------------------------
(* Properties. *)

(* Whatever the resolvers did to the connection, when the caller goes on to  *)
(* its INSERT it is still in the transaction it opened, with nothing on top  *)
(* of it and nothing committed; the writes pending in it are its own and     *)
(* those of resolvers that did not fail; and every key of the patch has one  *)
(* owner, which declared it and did not fail.                                *)
CallerKeepsItsTransaction ==
  run.at = "done" =>
    /\ Len(frames) = 1 /\ frames[1].name = <<"begin", 0>> /\ saved = {}
    /\ Caller \in frames[1].wrote /\ frames[1].wrote \cap run.errors = {}
    /\ \A p, q \in run.patch : p[2] = q[2] => p = q
    /\ \A p \in run.patch : p[1] \notin run.errors /\ p[2] \in Reserved \ Forbidden
    /\ Updatable \subseteq Reserved \ {Errors}
=============================================================================
