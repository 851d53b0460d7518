---------------------------- MODULE SearchProofs ----------------------------
(***************************************************************************)
(* Theorems about the parts that search: a call is bound to the tracker    *)
(* that is really its own, the reports of groups and lineages are true,    *)
(* and a coordinate of an anchor held its text at some HEAD on the way.    *)
(*                                                                         *)
(* Each search is a recursive function over finitely many states, and is   *)
(* reasoned about in two steps.  An equation says what one turn of its     *)
(* loop does; that a function with this equation exists is shown by        *)
(* TailRecursion.  Then a least bad state, by a measure that every turn    *)
(* lowers, shows that there is none.                                       *)
(*                                                                         *)
(* The last section joins the types of all ten parts.                      *)
(***************************************************************************)
EXTENDS WritersProofs

-----------------------------------------------------------------------------
(* Recursion. *)

\* A recursion that only goes on has a solution.
Solves(f, S, End, next, says) == f = [v \in S |-> IF v \in End THEN says[v] ELSE f[next[v]]]

\* It follows the tail until it ends: f is what the last value of the tail says.
LEMMA TailRecursion ==
  ASSUME NEW S, NEW End \in SUBSET S, NEW next \in [S -> S], NEW says
  PROVE  \E f : Solves(f, S, End, next, says)
  <1> DEFINE Closed(X) == \A u \in X \ End : next[u] \in X
             Ends(v) == {t \in End : \A X \in SUBSET S : v \in X /\ Closed(X) => t \in X}
             f == [v \in S |-> says[CHOOSE t : t \in Ends(v)]]
  <1>1. ASSUME NEW v \in End PROVE Ends(v) = {v}
    <2>1. v \in Ends(v)
      OBVIOUS
    <2>2. Closed({v})
      OBVIOUS
    <2>3. ASSUME NEW t \in Ends(v) PROVE t = v
      BY <2>2
    <2> QED BY <2>1, <2>3
  <1>2. ASSUME NEW v \in S \ End PROVE Ends(v) = Ends(next[v])
    <2>1. ASSUME NEW t \in Ends(v) PROVE t \in Ends(next[v])
      <3> SUFFICES ASSUME NEW X \in SUBSET S, next[v] \in X, Closed(X) PROVE t \in X
        BY <2>1
      <3>1. Closed(X \cup {v})
        OBVIOUS
      <3>2. t \in X \cup {v}
        BY <2>1, <3>1
      <3> QED BY <2>1, <3>2
    <2>2. ASSUME NEW t \in Ends(next[v]) PROVE t \in Ends(v)
      BY <1>2
    <2> QED BY <2>1, <2>2
  <1> HIDE DEF Ends
  <1>3. \A v \in S : f[v] = IF v \in End THEN says[v] ELSE f[next[v]]
    <2> SUFFICES ASSUME NEW v \in S PROVE f[v] = IF v \in End THEN says[v] ELSE f[next[v]]
      OBVIOUS
    <2>1. CASE v \in End
      BY <1>1, <2>1
    <2>2. CASE v \notin End
      BY <1>2, <2>2
    <2> QED BY <2>1, <2>2
  <1>4. Solves(f, S, End, next, says)
    BY <1>3 DEF Solves
  <1> QED BY <1>4

-----------------------------------------------------------------------------
(* The walk and the way up to an enclosing worktree go on until they end. *)

\* Where a walk is, what it has been through and what it could not examine.
Walks == [dir : Dirs, seen : SUBSET Dirs, blind : SUBSET Discovery!Paths]
\* What is seen of .git in a directory, and the main worktree it leads to.
Look(d, dk) == Discovery!PathState(d, "git", git, dk)
MainOf(d, dk) == Discovery!MainRoot(d, dk)
\* What a walk could not examine once it has looked for the tracker, and for .git.
Met(w, dk) == w.blind \cup Discovery!Unanswered(w.dir, "tracker", tracker, dk)
Past(w, dk) == Met(w, dk) \cup Discovery!Unanswered(w.dir, "git", git, dk)
IsHere(w, dk) == Discovery!PathState(w.dir, "tracker", tracker, dk) = "dir"

\* Where the walk goes on, where it ends, and with what.
Jumps(w, dk) == Discovery!IsFile(Look(w.dir, dk)) /\ MainOf(w.dir, dk).root # NoDir
Climbs(w, dk) == Look(w.dir, dk) # "dir" /\ ~Discovery!IsFile(Look(w.dir, dk)) /\ Parent[w.dir] # w.dir
GoesOn(w, dk) == w.dir \notin w.seen /\ ~IsHere(w, dk) /\ (Jumps(w, dk) \/ Climbs(w, dk))
Onward(w, dk) ==
  [dir |-> IF Jumps(w, dk) THEN MainOf(w.dir, dk).root ELSE Parent[w.dir],
   seen |-> w.seen \cup {w.dir},
   blind |-> IF Jumps(w, dk) THEN Met(w, dk) ELSE Past(w, dk)]
Ends(w, dk) ==
  IF w.dir \in w.seen THEN [root |-> NoDir, blind |-> w.blind]
  ELSE IF IsHere(w, dk) THEN [root |-> w.dir, blind |-> w.blind]
  ELSE [root |-> NoDir,
        blind |-> IF Look(w.dir, dk) = "dir" THEN Met(w, dk)
                  ELSE IF Discovery!IsFile(Look(w.dir, dk)) THEN Met(w, dk) \cup MainOf(w.dir, dk).blind
                  ELSE Past(w, dk)]

\* Going on leads to a walk.
LEMMA OnwardIsAWalk ==
  ASSUME NEW dk \in SUBSET Discovery!Paths, NEW w \in Walks, GoesOn(w, dk)
  PROVE  Onward(w, dk) \in Walks
  <1>1. w.dir \in Dirs /\ w.seen \in SUBSET Dirs /\ w.blind \in SUBSET Discovery!Paths
    BY DEF Walks
  <1>2. MainOf(w.dir, dk).root \in Dirs \cup {NoDir} /\ Parent[w.dir] \in Dirs
    BY <1>1, PartsAssumption
       DEF PartsAssumption, Discovery!DiscoveryAssumption, MainOf, Discovery!MainRoot
  <1>3. \A is : \A q \in {"tracker", "git"} : Discovery!Unanswered(w.dir, q, is, dk) \in SUBSET Discovery!Paths
    BY <1>1 DEF Discovery!Unanswered, Discovery!Paths, Discovery!Questions
  <1>4. Met(w, dk) \in SUBSET Discovery!Paths /\ Past(w, dk) \in SUBSET Discovery!Paths
    BY <1>1, <1>3 DEF Met, Past
  <1>5. (IF Jumps(w, dk) THEN MainOf(w.dir, dk).root ELSE Parent[w.dir]) \in Dirs
    BY <1>2 DEF Jumps
  <1> QED BY <1>1, <1>4, <1>5 DEF Onward, Walks

\* The loop, one turn of it at a time.
LEMMA WalkEquation ==
  ASSUME NEW dk \in SUBSET Discovery!Paths, NEW w \in Walks
  PROVE  Discovery!Walk(dk)[w] =
           IF GoesOn(w, dk) THEN Discovery!Walk(dk)[Onward(w, dk)] ELSE Ends(w, dk)
  <1> DEFINE End == {v \in Walks : ~GoesOn(v, dk)}
             next == [v \in Walks |-> IF GoesOn(v, dk) THEN Onward(v, dk) ELSE v]
             says == [v \in Walks |-> Ends(v, dk)]
             Step(f, v) == IF GoesOn(v, dk) THEN f[Onward(v, dk)] ELSE Ends(v, dk)
             Body(f, v) ==
               LET met == v.blind \cup Discovery!Unanswered(v.dir, "tracker", tracker, dk)
                   look == Discovery!PathState(v.dir, "git", git, dk)
                   main == Discovery!MainRoot(v.dir, dk)
                   beyond == met \cup Discovery!Unanswered(v.dir, "git", git, dk)
                   On(to, blind) == f[[dir |-> to, seen |-> v.seen \cup {v.dir}, blind |-> blind]] IN
               CASE v.dir \in v.seen -> [root |-> NoDir, blind |-> v.blind]
                 [] v.dir \notin v.seen /\ Discovery!PathState(v.dir, "tracker", tracker, dk) = "dir" ->
                      [root |-> v.dir, blind |-> v.blind]
                 [] OTHER ->
                      CASE look = "dir" -> [root |-> NoDir, blind |-> met]
                        [] Discovery!IsFile(look) /\ main.root = NoDir -> [root |-> NoDir, blind |-> met \cup main.blind]
                        [] Discovery!IsFile(look) /\ main.root # NoDir -> On(main.root, met)
                        [] OTHER -> IF Parent[v.dir] = v.dir THEN [root |-> NoDir, blind |-> beyond]
                                    ELSE On(Parent[v.dir], beyond)
  <1>1. next \in [Walks -> Walks] /\ End \in SUBSET Walks
    BY OnwardIsAWalk
  <1>2. PICK f : Solves(f, Walks, End, next, says)
    <2> HIDE DEF End, next, says
    <2> QED BY <1>1, TailRecursion
  <1>3. ASSUME NEW g, NEW v PROVE Body(g, v) = Step(g, v)
    <2>1. CASE v.dir \in v.seen
      BY <2>1 DEF GoesOn, Ends
    <2>2. CASE v.dir \notin v.seen /\ IsHere(v, dk)
      BY <2>2 DEF GoesOn, Ends, IsHere
    <2>3. CASE v.dir \notin v.seen /\ ~IsHere(v, dk) /\ Look(v.dir, dk) = "dir"
      BY <2>3 DEF GoesOn, Ends, IsHere, Look, Met, Jumps, Climbs, Discovery!IsFile
    <2>4. CASE /\ v.dir \notin v.seen /\ ~IsHere(v, dk) /\ Look(v.dir, dk) # "dir"
               /\ Discovery!IsFile(Look(v.dir, dk))
      BY <2>4 DEF GoesOn, Ends, IsHere, Look, Met, Jumps, Climbs, Onward, MainOf
    <2>5. CASE /\ v.dir \notin v.seen /\ ~IsHere(v, dk) /\ Look(v.dir, dk) # "dir"
               /\ ~Discovery!IsFile(Look(v.dir, dk))
      BY <2>5 DEF GoesOn, Ends, IsHere, Look, Met, Past, Jumps, Climbs, Onward
    <2> QED BY <2>1, <2>2, <2>3, <2>4, <2>5
  <1>4. Discovery!Walk(dk) = CHOOSE g : g = [v \in Walks |-> Body(g, v)]
    BY DEF Discovery!Walk, Walks
  <1> HIDE DEF Body
  <1>5. f = [v \in Walks |-> Body(f, v)]
    <2>1. \A v \in Walks : f[v] = Step(f, v)
      BY <1>2 DEF Solves
    <2>2. f = [v \in Walks |-> f[v]]
      BY <1>2 DEF Solves
    <2> QED BY <1>3, <2>1, <2>2
  <1>6. Discovery!Walk(dk) = [v \in Walks |-> Body(Discovery!Walk(dk), v)]
    BY <1>4, <1>5
  <1>7. Discovery!Walk(dk)[w] = Body(Discovery!Walk(dk), w)
    BY <1>6
  <1> QED BY <1>3, <1>7

\* Of finitely many things, a least set.
LEMMA LeastSet ==
  ASSUME NEW S, IsFiniteSet(S), NEW T \in SUBSET SUBSET S, T # {}
  PROVE  \E X \in T : \A Y \in T : Y \subseteq X => Y = X
  <1>1. IsWellFoundedOn(StrictSubsetOrdering(S), SUBSET S)
    BY FS_StrictSubsetOrderingWellFounded, FS_FiniteSubsetsOfFinite
  <1>2. PICK X \in T : \A Y \in T : ~(<<Y, X>> \in StrictSubsetOrdering(S))
    BY <1>1, WFMin
  <1> QED BY <1>2 DEF StrictSubsetOrdering

\* The walk ends: what fails at each next directory as well fails nowhere.
LEMMA WalkEnds ==
  ASSUME NEW dk \in SUBSET Discovery!Paths, NEW Bad \in SUBSET Walks,
         \A w \in Bad : GoesOn(w, dk) /\ Onward(w, dk) \in Bad
  PROVE  Bad = {}
  <1> SUFFICES ASSUME Bad # {} PROVE FALSE
    OBVIOUS
  <1> DEFINE left == {Dirs \ w.seen : w \in Bad}
  <1>1. left \in SUBSET SUBSET Dirs /\ left # {}
    OBVIOUS
  <1>2. PICK X \in left : \A Y \in left : Y \subseteq X => Y = X
    <2> HIDE DEF left
    <2>1. IsFiniteSet(Dirs)
      BY PartsAssumption
         DEF PartsAssumption, Discovery!DiscoveryAssumption, Discovery!IsFiniteSet, IsFiniteSet
    <2> QED BY <1>1, <2>1, LeastSet
  <1>3. PICK w \in Bad : X = Dirs \ w.seen
    BY <1>2
  <1>4. /\ Onward(w, dk) \in Bad /\ Onward(w, dk).seen = w.seen \cup {w.dir}
        /\ w.dir \in Dirs /\ w.dir \notin w.seen
    BY DEF GoesOn, Onward, Walks
  <1>5. Dirs \ Onward(w, dk).seen \in left
    BY <1>4
  <1> QED BY <1>2, <1>3, <1>4, <1>5

\* What cannot be examined is never forgotten, and the root is a tracker's.
LEMMA WalkTells ==
  ASSUME NEW dk \in SUBSET Discovery!Paths, NEW w \in Walks
  PROVE  LET found == Discovery!Walk(dk)[w] IN
         /\ w.blind \subseteq found.blind
         /\ found.root # NoDir =>
              found.root \in Dirs /\ Discovery!PathState(found.root, "tracker", tracker, dk) = "dir"
  <1> DEFINE Good(v) ==
        LET found == Discovery!Walk(dk)[v] IN
        /\ v.blind \subseteq found.blind
        /\ found.root # NoDir =>
             found.root \in Dirs /\ Discovery!PathState(found.root, "tracker", tracker, dk) = "dir"
             bad == {v \in Walks : ~Good(v)}
  <1>1. ASSUME NEW v \in Walks, ~GoesOn(v, dk) PROVE Good(v)
    <2>1. Discovery!Walk(dk)[v] = Ends(v, dk)
      BY <1>1, WalkEquation
    <2>2. v.blind \subseteq Ends(v, dk).blind
      BY DEF Ends, Met, Past
    <2>3. Ends(v, dk).root # NoDir => IsHere(v, dk) /\ Ends(v, dk).root = v.dir /\ v.dir \in Dirs
      BY DEF Ends, Walks
    <2> QED BY <2>1, <2>2, <2>3 DEF IsHere
  <1>2. ASSUME NEW v \in Walks, GoesOn(v, dk), Good(Onward(v, dk)) PROVE Good(v)
    <2>1. Discovery!Walk(dk)[v] = Discovery!Walk(dk)[Onward(v, dk)]
      BY <1>2, WalkEquation
    <2>2. v.blind \subseteq Onward(v, dk).blind
      BY DEF Onward, Met, Past
    <2> QED BY <1>2, <2>1, <2>2
  <1> HIDE DEF Good
  <1>3. bad = {}
    <2>1. \A v \in bad : GoesOn(v, dk) /\ Onward(v, dk) \in bad
      BY <1>1, <1>2, OnwardIsAWalk
    <2>2. bad \in SUBSET Walks
      OBVIOUS
    <2> HIDE DEF bad
    <2> QED BY <2>1, <2>2, WalkEnds
  <1> QED BY <1>3 DEF Good

\* A walk that had all its answers ends where any walk with all answers does.
LEMMA WalkIsTrue ==
  ASSUME NEW dk \in SUBSET Discovery!Paths, NEW w \in Walks, Discovery!Walk(dk)[w].blind = {},
         tracker \in [Dirs -> {"absent", "dir", "other"}]
  PROVE  Discovery!Walk(dk)[w].root = Discovery!Walk({})[w].root
  <1> DEFINE Good(v) == Discovery!Walk(dk)[v].blind = {} =>
                          Discovery!Walk(dk)[v].root = Discovery!Walk({})[v].root
             bad == {v \in Walks : ~Good(v)}
  <1>1. {} \in SUBSET Discovery!Paths
    OBVIOUS
  <1>2. ASSUME NEW v \in bad
        PROVE  GoesOn(v, dk) /\ Onward(v, dk) \in bad
    <2>1. v \in Walks /\ v.blind = {} /\ Discovery!Walk(dk)[v].blind = {}
      BY WalkTells
    <2>2. <<v.dir, "tracker">> \notin dk \/ v.dir \in v.seen
      <3> SUFFICES ASSUME <<v.dir, "tracker">> \in dk, v.dir \notin v.seen PROVE FALSE
        OBVIOUS
      <3>1. <<v.dir, "tracker">> \in Met(v, dk) /\ ~IsHere(v, dk)
        BY DEF Met, Discovery!Unanswered, Discovery!PathState, IsHere
      <3>2. CASE GoesOn(v, dk)
        <4>1. <<v.dir, "tracker">> \in Onward(v, dk).blind
          BY <3>1 DEF Onward, Past
        <4> QED BY <2>1, <3>2, <4>1, OnwardIsAWalk, WalkTells, WalkEquation
      <3>3. CASE ~GoesOn(v, dk)
        <4>1. <<v.dir, "tracker">> \in Ends(v, dk).blind
          BY <3>1 DEF Ends, Past
        <4> QED BY <2>1, <3>3, <4>1, WalkEquation
      <3> QED BY <3>2, <3>3
    <2>3. IsHere(v, dk) = IsHere(v, {}) \/ v.dir \in v.seen
      BY <2>2 DEF IsHere, Discovery!PathState
    <2>4. CASE v.dir \in v.seen
      <3>1. ~GoesOn(v, dk) /\ ~GoesOn(v, {}) /\ Ends(v, dk).root = Ends(v, {}).root
        BY <2>4 DEF GoesOn, Ends
      <3> QED BY <2>1, <3>1, <1>1, WalkEquation
    <2>5. CASE v.dir \notin v.seen /\ IsHere(v, dk)
      <3>1. ~GoesOn(v, dk) /\ ~GoesOn(v, {}) /\ Ends(v, dk).root = Ends(v, {}).root
        BY <2>3, <2>5 DEF GoesOn, Ends
      <3> QED BY <2>1, <3>1, <1>1, WalkEquation
    <2>6. CASE v.dir \notin v.seen /\ ~IsHere(v, dk)
      <3>1. Met(v, dk) = {} /\ Met(v, {}) = {}
        <4>1. tracker[v.dir] # "unknown"
          BY <2>1 DEF Walks
        <4> QED BY <2>1, <2>2, <2>6, <4>1 DEF Met, Discovery!Unanswered, Discovery!PathState
      <3>2. CASE Look(v.dir, dk) = "unknown"
        <4>1. <<v.dir, "git">> \in Past(v, dk) /\ ~Jumps(v, dk)
          BY <3>2 DEF Past, Discovery!Unanswered, Look, Jumps, Discovery!IsFile
        <4>2. CASE GoesOn(v, dk)
          <5>1. <<v.dir, "git">> \in Onward(v, dk).blind
            BY <4>1 DEF Onward
          <5> QED BY <2>1, <4>2, <5>1, OnwardIsAWalk, WalkTells, WalkEquation
        <4>3. CASE ~GoesOn(v, dk)
          <5>1. <<v.dir, "git">> \in Ends(v, dk).blind
            BY <2>6, <3>2, <4>1 DEF Ends, Discovery!IsFile
          <5> QED BY <2>1, <4>3, <5>1, WalkEquation
        <4> QED BY <4>2, <4>3
      <3>3. CASE Look(v.dir, dk) # "unknown"
        <4>1. Look(v.dir, dk) = Look(v.dir, {}) /\ Past(v, dk) = {} /\ Past(v, {}) = {}
          BY <3>1, <3>3 DEF Look, Discovery!PathState, Past, Discovery!Unanswered
        <4>2. Discovery!IsFile(Look(v.dir, dk)) => MainOf(v.dir, dk).root = MainOf(v.dir, {}).root
          <5> SUFFICES ASSUME Discovery!IsFile(Look(v.dir, dk)),
                              MainOf(v.dir, dk).root # MainOf(v.dir, {}).root
                       PROVE  FALSE
            OBVIOUS
          <5>1. MainOf(v.dir, dk).root = NoDir /\ MainOf(v.dir, dk).blind # {}
            BY DEF MainOf, Discovery!MainRoot, Discovery!Linked
          <5>2. ~GoesOn(v, dk) /\ Ends(v, dk).blind # {}
            BY <2>6, <5>1 DEF GoesOn, Jumps, Climbs, Ends, Discovery!IsFile
          <5> QED BY <2>1, <5>2, WalkEquation
        <4>3. Jumps(v, dk) = Jumps(v, {}) /\ Climbs(v, dk) = Climbs(v, {})
          BY <4>1, <4>2 DEF Jumps, Climbs
        <4>4. GoesOn(v, dk) = GoesOn(v, {})
          BY <2>3, <2>6, <4>3 DEF GoesOn
        <4>5. CASE ~GoesOn(v, dk)
          <5>1. Ends(v, dk).root = Ends(v, {}).root
            BY <2>3, <2>6 DEF Ends
          <5> QED BY <2>1, <4>4, <4>5, <5>1, <1>1, WalkEquation
        <4>6. CASE GoesOn(v, dk)
          <5>1. Onward(v, dk) = Onward(v, {})
            BY <3>1, <4>1, <4>2, <4>3 DEF Onward, Jumps
          <5>2. Discovery!Walk(dk)[v] = Discovery!Walk(dk)[Onward(v, dk)]
            BY <2>1, <4>6, WalkEquation
          <5>3. Discovery!Walk({})[v] = Discovery!Walk({})[Onward(v, dk)]
            BY <2>1, <4>4, <4>6, <5>1, <1>1, WalkEquation
          <5>4. Onward(v, dk) \in Walks
            BY <2>1, <4>6, OnwardIsAWalk
          <5> QED BY <4>6, <5>2, <5>3, <5>4
        <4> QED BY <4>5, <4>6
      <3> QED BY <3>2, <3>3
    <2> QED BY <2>4, <2>5, <2>6
  <1>3. bad = {}
    <2>1. bad \in SUBSET Walks
      OBVIOUS
    <2> HIDE DEF bad
    <2> QED BY <1>2, <2>1, WalkEnds
  <1> QED BY <1>3

-----------------------------------------------------------------------------
(* The way up. *)

\* What fails at each parent as well fails nowhere.
LEMMA WayUpEnds ==
  ASSUME NEW Bad \in SUBSET Dirs, \A d \in Bad : Parent[d] # d /\ Parent[d] \in Bad
  PROVE  Bad = {}
  BY PartsAssumption DEF PartsAssumption, Discovery!DiscoveryAssumption

\* The parents.
LEMMA ParentIsADir == Parent \in [Dirs -> Dirs]
  BY PartsAssumption DEF PartsAssumption, Discovery!DiscoveryAssumption

\* What is above the parent is above the directory.
LEMMA AboveEquation ==
  ASSUME NEW d \in Dirs
  PROVE  d \in Discovery!Above[d] /\ (Parent[d] # d => Discovery!Above[Parent[d]] \subseteq Discovery!Above[d])
  <1> DEFINE Closed(X) == \A u \in X : Parent[u] \in X
             f == [x \in Dirs |-> {y \in Dirs : \A X \in SUBSET Dirs : x \in X /\ Closed(X) => y \in X}]
             Body(g, x) == IF Parent[x] = x THEN {x} ELSE {x} \cup g[Parent[x]]
  <1>0. \A x \in Dirs : \A y \in f[x] : \A X \in SUBSET Dirs : x \in X /\ Closed(X) => y \in X
    OBVIOUS
  <1>1. ASSUME NEW x \in Dirs PROVE f[x] = Body(f, x)
    <2>1. x \in f[x]
      OBVIOUS
    <2>2. Parent[x] \in Dirs
      BY ParentIsADir
    <2>3. CASE Parent[x] = x
      <3>1. Closed({x})
        BY <2>3
      <3>2. f[x] \subseteq {x}
        BY <3>1
      <3> QED BY <2>1, <2>3, <3>2
    <2>4. CASE Parent[x] # x
      <3>1. f[Parent[x]] \subseteq f[x]
        BY <2>2
      <3>2. ASSUME NEW y \in f[x], y # x PROVE y \in f[Parent[x]]
        <4> SUFFICES ASSUME NEW X \in SUBSET Dirs, Parent[x] \in X, Closed(X) PROVE y \in X
          BY <2>2
        <4>1. Closed(X \cup {x}) /\ X \cup {x} \in SUBSET Dirs
          OBVIOUS
        <4> HIDE DEF Closed, f
        <4>2. y \in X \cup {x}
          BY <1>0, <3>2, <4>1
        <4> QED BY <3>2, <4>2
      <3> HIDE DEF Closed, f
      <3>3. f[x] = {x} \cup f[Parent[x]]
        BY <2>1, <3>1, <3>2
      <3> QED BY <2>4, <3>3
    <2> QED BY <2>3, <2>4
  <1>2. Discovery!Above = CHOOSE g : g = [x \in Dirs |-> Body(g, x)]
    BY DEF Discovery!Above
  <1>3. f = [x \in Dirs |-> f[x]]
    OBVIOUS
  <1> HIDE DEF f, Body
  <1>4. f = [x \in Dirs |-> Body(f, x)]
    BY <1>1, <1>3
  <1>5. Discovery!Above = [x \in Dirs |-> Body(Discovery!Above, x)]
    BY <1>2, <1>4
  <1>6. Discovery!Above[d] = Body(Discovery!Above, d)
    BY <1>5
  <1> QED BY <1>6 DEF Body

\* The way up goes on where there is no .git that anyone can see.
Bare(d, dk) == Look(d, dk) # "dir" /\ ~Discovery!IsFile(Look(d, dk))
Ended(d, dk) ==
  IF Discovery!IsFile(Look(d, dk))
  THEN [root |-> IF Discovery!Linked(d, dk).yes THEN d ELSE NoDir, blind |-> Discovery!Linked(d, dk).blind]
  ELSE [root |-> NoDir, blind |-> {}]

\* The way up, one directory at a time.
LEMMA EnclosingEquation ==
  ASSUME NEW dk, NEW d \in Dirs
  PROVE  Discovery!Enclosing(d, dk) =
           IF Bare(d, dk) /\ Parent[d] # d THEN Discovery!Enclosing(Parent[d], dk) ELSE Ended(d, dk)
  <1> DEFINE End == {x \in Dirs : ~(Bare(x, dk) /\ Parent[x] # x)}
             says == [x \in Dirs |-> Ended(x, dk)]
             Body(g, x) ==
               LET look == Discovery!PathState(x, "git", git, dk)
                   linked == Discovery!Linked(x, dk) IN
               CASE look = "dir" -> [root |-> NoDir, blind |-> {}]
                 [] Discovery!IsFile(look) -> [root |-> IF linked.yes THEN x ELSE NoDir, blind |-> linked.blind]
                 [] OTHER -> IF Parent[x] = x THEN [root |-> NoDir, blind |-> {}] ELSE g[Parent[x]]
             up == CHOOSE g : g = [x \in Dirs |-> Body(g, x)]
  <1>1. PICK f : Solves(f, Dirs, End, Parent, says)
    <2>1. End \in SUBSET Dirs
      OBVIOUS
    <2> HIDE DEF End, says
    <2> QED BY <2>1, ParentIsADir, TailRecursion
  <1>2. ASSUME NEW g, NEW x PROVE Body(g, x) = IF Bare(x, dk) /\ Parent[x] # x THEN g[Parent[x]] ELSE Ended(x, dk)
    BY DEF Bare, Ended, Look, Discovery!IsFile
  <1>3. \A x \in Dirs : f[x] = IF Bare(x, dk) /\ Parent[x] # x THEN f[Parent[x]] ELSE Ended(x, dk)
    BY <1>1 DEF Solves
  <1>4. f = [x \in Dirs |-> f[x]]
    BY <1>1 DEF Solves
  <1>5. \A x : Discovery!Enclosing(x, dk) = up[x]
    BY DEF Discovery!Enclosing
  <1> HIDE DEF Body
  <1>6. f = [x \in Dirs |-> Body(f, x)]
    BY <1>2, <1>3, <1>4
  <1>7. up = [x \in Dirs |-> Body(up, x)]
    BY <1>6
  <1> HIDE DEF up
  <1>8. up[d] = Body(up, d)
    BY <1>7
  <1> QED BY <1>2, <1>5, <1>8

\* Who is under no worktree with some .git files unread, and has been able to
\* look at every .git on the way up, is under none.
LEMMA EnclosingIsTrue ==
  ASSUME NEW dk, NEW d \in Dirs,
         Discovery!Enclosing(d, dk).root = NoDir, Discovery!Enclosing(d, dk).blind = {},
         \A x \in Discovery!Above[d] : <<x, "git">> \notin dk
  PROVE  Discovery!Enclosing(d, {}).root = NoDir
  <1> DEFINE Good(x) ==
        /\ Discovery!Enclosing(x, dk).root = NoDir /\ Discovery!Enclosing(x, dk).blind = {}
        /\ \A y \in Discovery!Above[x] : <<y, "git">> \notin dk
        => Discovery!Enclosing(x, {}).root = NoDir
             bad == {x \in Dirs : ~Good(x)}
  <1>1. ASSUME NEW x \in bad PROVE Parent[x] # x /\ Parent[x] \in bad
    <2>1. x \in Dirs /\ Parent[x] \in Dirs
      BY ParentIsADir
    <2>2. <<x, "git">> \notin dk
      BY <2>1, AboveEquation
    <2>3. Look(x, dk) = Look(x, {})
      BY <2>2 DEF Look, Discovery!PathState
    <2>4. Bare(x, dk) = Bare(x, {})
      BY <2>3 DEF Bare
    <2>5. CASE Bare(x, dk) /\ Parent[x] # x
      <3>1. /\ Discovery!Enclosing(x, dk) = Discovery!Enclosing(Parent[x], dk)
            /\ Discovery!Enclosing(x, {}) = Discovery!Enclosing(Parent[x], {})
        BY <2>1, <2>4, <2>5, EnclosingEquation
      <3>2. Discovery!Above[Parent[x]] \subseteq Discovery!Above[x]
        BY <2>1, <2>5, AboveEquation
      <3> QED BY <2>1, <2>5, <3>1, <3>2
    <2>6. CASE ~(Bare(x, dk) /\ Parent[x] # x)
      <3>1. /\ Discovery!Enclosing(x, dk) = Ended(x, dk)
            /\ Discovery!Enclosing(x, {}) = Ended(x, {})
        BY <2>1, <2>4, <2>6, EnclosingEquation
      <3>2. Ended(x, dk).root = NoDir /\ Ended(x, dk).blind = {}
        BY <3>1
      <3>3. Ended(x, {}).root # NoDir
        BY <3>1
      <3>4. x # NoDir
        BY <2>1, PartsAssumption DEF PartsAssumption, Discovery!DiscoveryAssumption
      <3> QED BY <2>3, <3>2, <3>3, <3>4 DEF Ended, Discovery!Linked
    <2> QED BY <2>5, <2>6
  <1>2. bad = {}
    <2>1. bad \in SUBSET Dirs
      OBVIOUS
    <2> HIDE DEF bad
    <2> QED BY <1>1, <2>1, WayUpEnds
  <1> QED BY <1>2

-----------------------------------------------------------------------------
(* Discovery: the types, and what a call is told. *)

\* What a call of a client can be.
Bindings == [at : Discovery!Places, root : Dirs \cup {NoDir}, create : BOOLEAN]

\* A call that moves on is typed.
LEMMA BindingTyped ==
  ASSUME Discovery!TypeOK, NEW c \in Callers
  PROVE  /\ \A j \in Bindings : [call EXCEPT ![c] = j] \in [Callers -> Bindings]
         /\ \A at \in Discovery!Places : [call EXCEPT ![c].at = at] \in [Callers -> Bindings]
  BY DEF Discovery!TypeOK, Bindings

\* A new call is typed.
LEMMA NewBindingTyped ==
  /\ Discovery!Idle \in Bindings
  /\ \A d \in Dirs \cup {NoDir}, create \in BOOLEAN :
       /\ [at |-> "open", root |-> d, create |-> create] \in Bindings
       /\ [at |-> "make", root |-> d, create |-> create] \in Bindings
  /\ "open" \in Discovery!Places
  BY DEF Bindings, Discovery!Idle, Discovery!Places

\* The types are an invariant of discovery.
LEMMA DiscoveryTypes ==
  /\ Discovery!Init => Discovery!TypeOK
  /\ Discovery!TypeOK /\ [Discovery!Next]_discoveryVars => Discovery!TypeOK'
  <1>2. Discovery!Init => Discovery!TypeOK
    BY NewBindingTyped DEF Bindings, Discovery!Init, Discovery!TypeOK
  <1>3. ASSUME Discovery!TypeOK, [Discovery!Next]_discoveryVars PROVE Discovery!TypeOK'
    <2>1. CASE UNCHANGED discoveryVars
      BY <1>3, <2>1 DEF discoveryVars, Discovery!TypeOK
    <2>2. ASSUME NEW c \in Callers, NEW d \in Dirs,
                 \/ Discovery!ResolveNamed(c, d) \/ Discovery!ResolveWalk(c, d)
                 \/ Discovery!InitCheck(c, d) \/ Discovery!InitForce(c, d)
          PROVE  Discovery!TypeOK'
      <3>1. Discovery!Found(d, dark).root \in Dirs \cup {NoDir}
        <4>1. [dir |-> d, seen |-> {}, blind |-> {}] \in Walks /\ dark \in SUBSET Discovery!Paths
          BY <1>3 DEF Walks, Discovery!TypeOK
        <4> QED BY <4>1, WalkTells DEF Discovery!Found
      <3>2. call' \in [Callers -> Bindings]
        <4>1. PICK j \in Bindings : call' = [call EXCEPT ![c] = j]
          BY <2>2, <3>1, NewBindingTyped
             DEF Discovery!ResolveNamed, Discovery!ResolveWalk, Discovery!InitCheck, Discovery!InitForce
        <4> QED BY <1>3, <4>1, BindingTyped
      <3>3. UNCHANGED <<tracker, base, git, dark, sealed>>
        BY <2>2
           DEF Discovery!ResolveNamed, Discovery!ResolveWalk, Discovery!InitCheck, Discovery!InitForce
      <3> QED BY <1>3, <3>2, <3>3 DEF Discovery!TypeOK, Bindings
    <2>3. ASSUME NEW c \in Callers, Discovery!Open(c) \/ Discovery!InitMake(c) \/ Discovery!Die(c)
          PROVE  Discovery!TypeOK'
      <3>1. call' \in [Callers -> Bindings]
        <4>1. \/ call' = [call EXCEPT ![c] = Discovery!Idle]
              \/ call' = [call EXCEPT ![c].at = "open"]
          BY <2>3 DEF Discovery!Open, Discovery!InitMake, Discovery!Die
        <4> QED BY <1>3, <4>1, BindingTyped, NewBindingTyped
      <3>2. base' \in [Dirs -> {"absent", "file", "other"}] /\ tracker' \in [Dirs -> {"absent", "dir", "other"}]
        BY <1>3, <2>3 DEF Discovery!Open, Discovery!InitMake, Discovery!Die, Discovery!TypeOK
      <3>3. UNCHANGED <<git, dark, sealed>>
        BY <2>3 DEF Discovery!Open, Discovery!InitMake, Discovery!Die
      <3> QED BY <1>3, <3>1, <3>2, <3>3 DEF Discovery!TypeOK, Bindings
    <2>4. ASSUME NEW d \in Dirs, Discovery!RemoveBase(d) \/ Discovery!Seal(d)
          PROVE  Discovery!TypeOK'
      BY <1>3, <2>4 DEF Discovery!RemoveBase, Discovery!Seal, Discovery!TypeOK
    <2>5. ASSUME NEW d \in Dirs, NEW left \in {"absent", "other"}, Discovery!RemoveTracker(d, left)
          PROVE  Discovery!TypeOK'
      BY <1>3, <2>5 DEF Discovery!RemoveTracker, Discovery!TypeOK
    <2>6. ASSUME NEW d \in Dirs, NEW q \in Discovery!Questions, Discovery!Darken(d, q)
          PROVE  Discovery!TypeOK'
      <3>1. dark' \in SUBSET Discovery!Paths
        BY <1>3, <2>6 DEF Discovery!Darken, Discovery!TypeOK, Discovery!Paths
      <3>2. UNCHANGED <<tracker, base, git, sealed, call>>
        BY <2>6 DEF Discovery!Darken
      <3> QED BY <1>3, <3>1, <3>2 DEF Discovery!TypeOK
    <2> QED BY <1>3, <2>1, <2>2, <2>3, <2>4, <2>5, <2>6 DEF Discovery!Next
  <1> QED BY <1>2, <1>3

\* A call that read everything it needed is bound as one that can read everything
\* would be, and where says so.
LEMMA BindingHonest ==
  ASSUME Discovery!TypeOK
  PROVE  Discovery!BindingIsTrueOrFlagged /\ Discovery!WhereTellsTheTruth
  <1>1. /\ dark \in SUBSET Discovery!Paths
        /\ tracker \in [Dirs -> {"absent", "dir", "other"}] /\ base \in [Dirs -> {"absent", "file", "other"}]
    BY DEF Discovery!TypeOK
  <1>2. ASSUME NEW d \in Dirs PROVE [dir |-> d, seen |-> {}, blind |-> {}] \in Walks
    BY DEF Walks
  <1>3. ASSUME NEW d \in Dirs, Discovery!Found(d, dark).blind = {}
        PROVE  Discovery!Found(d, dark).root = Discovery!Found(d, {}).root
    BY <1>1, <1>2, <1>3, WalkIsTrue DEF Discovery!Found
  <1>4. ASSUME NEW d \in Dirs, Discovery!Free(d), \A x \in Discovery!Above[d] : <<x, "git">> \notin dark
        PROVE  Discovery!Enclosing(d, {}).root = NoDir
    BY <1>4, EnclosingIsTrue DEF Discovery!Free
  <1>5. ASSUME NEW d \in Dirs, Discovery!Free(d), Discovery!Found(d, dark).blind = {}
        PROVE  Discovery!Found(d, {}).root \in {NoDir, d}
    BY <1>3, <1>5 DEF Discovery!Free
  <1>6. Discovery!BindingIsTrueOrFlagged
    BY <1>3, <1>4, <1>5 DEF Discovery!BindingIsTrueOrFlagged
  <1>7. ASSUME NEW d \in Dirs
        PROVE  LET said == Discovery!Describe(d, dark) IN
               /\ said.exists = "yes" => base[said.root] = "file"
               /\ said.exists = "no" => base[said.root] = "absent" /\ tracker[said.root] = "dir"
               /\ said.writable =>
                    \A c \in Callers : call[c] = [at |-> "open", root |-> said.root, create |-> TRUE] =>
                      Discovery!Opens(c)
    <2> DEFINE root == Discovery!Found(d, dark).root
               kind == IF root = NoDir THEN "unknown" ELSE Discovery!PathState(root, "base", base, dark)
               said == Discovery!Describe(d, dark)
    <2>1. /\ said.root = root /\ said.writable = (kind = "absent" /\ root \notin sealed)
          /\ said.exists = CASE kind = "file" -> "yes" [] kind = "absent" -> "no" [] OTHER -> "unknown"
      BY DEF Discovery!Describe
    <2>2. root # NoDir => root \in Dirs /\ Discovery!PathState(root, "tracker", tracker, dark) = "dir"
      BY <1>1, <1>2, WalkTells DEF Discovery!Found
    <2> HIDE DEF root, said
    <2>3. kind \in {"file", "absent"} =>
            /\ root \in Dirs /\ tracker[root] = "dir" /\ base[root] = kind
            /\ <<root, "tracker">> \notin dark /\ <<root, "base">> \notin dark
      BY <2>2 DEF Discovery!PathState
    <2> HIDE DEF kind
    <2>4. ASSUME NEW c \in Callers, said.writable,
                 call[c] = [at |-> "open", root |-> root, create |-> TRUE]
          PROVE  Discovery!Opens(c)
      <3>1. call[c].root = root /\ call[c].create
        BY <2>4
      <3>2. kind = "absent" /\ root \notin sealed
        BY <2>1, <2>4
      <3> QED BY <2>3, <3>1, <3>2 DEF Discovery!Opens
    <2>5. (said.exists = "yes" => kind = "file") /\ (said.exists = "no" => kind = "absent")
      BY <2>1
    <2>6. said.exists = "yes" => base[said.root] = "file"
      BY <2>1, <2>3, <2>5
    <2>7. said.exists = "no" => base[said.root] = "absent" /\ tracker[said.root] = "dir"
      BY <2>1, <2>3, <2>5
    <2> QED BY <2>1, <2>4, <2>6, <2>7 DEF said
  <1>8. Discovery!WhereTellsTheTruth
    BY <1>7 DEF Discovery!WhereTellsTheTruth
  <1> QED BY <1>6, <1>8

-----------------------------------------------------------------------------
(* Grouping: the cards. *)

\* The cards are finitely many numbers.
LEMMA GroupedFinite == IsFiniteSet(Grouped) /\ Grouped \subseteq Nat
  BY PartsAssumption
     DEF PartsAssumption, Grouping!GroupingAssumption, Grouping!IsFiniteSet, IsFiniteSet

-----------------------------------------------------------------------------
(* Union-find: trees with ranks and roots. *)

\* A forest in which each step to a parent goes down in rank, and what the root of
\* each card is.
Tree(up, rank, rt) ==
  /\ up \in Grouping!Forests /\ rank \in [Grouped -> Nat] /\ rt \in [Grouped -> Grouped]
  /\ \A c \in Grouped :
       /\ up[c] # c => rank[up[c]] < rank[c]
       /\ up[c] = c => rt[c] = c
       /\ up[rt[c]] = rt[c] /\ rt[up[c]] = rt[c]

\* A step of find with path halving, which leaves the roots and the ranks alone.
Halved(up, x) == [up EXCEPT ![x] = up[up[x]]]

LEMMA HalvingIsATree ==
  ASSUME NEW up, NEW rank, NEW rt, Tree(up, rank, rt), NEW x \in Grouped, up[x] # x
  PROVE  /\ Tree(Halved(up, x), rank, rt)
         /\ up[up[x]] \in Grouped /\ rt[up[up[x]]] = rt[x] /\ rank[up[up[x]]] < rank[x]
  <1>1. up \in [Grouped -> Grouped] /\ up[x] \in Grouped /\ up[up[x]] \in Grouped
    BY DEF Tree, Grouping!Forests
  <1>2. rank \in [Grouped -> Nat] /\ rt \in [Grouped -> Grouped]
    BY DEF Tree
  <1>3. rt[up[up[x]]] = rt[x]
    BY <1>1 DEF Tree
  <1>4. rank[up[up[x]]] < rank[x]
    <2>1. rank[up[x]] < rank[x] /\ (up[up[x]] # up[x] => rank[up[up[x]]] < rank[up[x]])
      BY <1>1 DEF Tree
    <2>2. rank[x] \in Nat /\ rank[up[x]] \in Nat /\ rank[up[up[x]]] \in Nat
      BY <1>1, <1>2
    <2> QED BY <2>1, <2>2
  <1>5. Halved(up, x) \in Grouping!Forests
    BY <1>1 DEF Halved, Grouping!Forests
  <1>6. ASSUME NEW c \in Grouped
        PROVE  /\ Halved(up, x)[c] # c => rank[Halved(up, x)[c]] < rank[c]
               /\ Halved(up, x)[c] = c => rt[c] = c
               /\ Halved(up, x)[rt[c]] = rt[c] /\ rt[Halved(up, x)[c]] = rt[c]
    <2>1. Halved(up, x)[c] = IF c = x THEN up[up[x]] ELSE up[c]
      BY <1>1 DEF Halved
    <2>2. rt[c] # x /\ rt[c] \in Grouped /\ up[rt[c]] = rt[c]
      BY <1>2 DEF Tree
    <2>3. Halved(up, x)[rt[c]] = rt[c]
      BY <1>1, <2>2 DEF Halved
    <2>4. up[up[x]] # x
      BY <1>1, <1>2, <1>4
    <2> QED BY <1>3, <1>4, <2>1, <2>3, <2>4 DEF Tree
  <1> QED BY <1>2, <1>3, <1>4, <1>5, <1>6, <1>1 DEF Tree

\* Find, one step at a time.
LEMMA FindEquation ==
  ASSUME NEW up \in Grouping!Forests, NEW x \in Grouped
  PROVE  Grouping!Find[<<up, x>>] =
           IF up[x] = x THEN [root |-> x, up |-> up]
           ELSE Grouping!Find[<<Halved(up, x), up[up[x]]>>]
  <1> DEFINE S == Grouping!Forests \X Grouped
             End == {at \in S : at[1][at[2]] = at[2]}
             next == [at \in S |-> <<Halved(at[1], at[2]), at[1][at[1][at[2]]]>>]
             says == [at \in S |-> [root |-> at[2], up |-> at[1]]]
             Body(g, at) ==
               LET u == at[1]
                   y == at[2] IN
               IF u[y] = y THEN [root |-> y, up |-> u]
               ELSE g[<<[u EXCEPT ![y] = u[u[y]]], u[u[y]]>>]
  <1>1. next \in [S -> S] /\ End \in SUBSET S
    BY DEF Grouping!Forests, Halved
  <1>2. PICK f : Solves(f, S, End, next, says)
    <2> HIDE DEF S, End, next, says
    <2> QED BY <1>1, TailRecursion
  <1>3. \A g, at : Body(g, at) = IF at[1][at[2]] = at[2] THEN [root |-> at[2], up |-> at[1]]
                                 ELSE g[<<Halved(at[1], at[2]), at[1][at[1][at[2]]]>>]
    BY DEF Halved
  <1>4. \A at \in S : f[at] = IF at[1][at[2]] = at[2] THEN [root |-> at[2], up |-> at[1]]
                              ELSE f[<<Halved(at[1], at[2]), at[1][at[1][at[2]]]>>]
    BY <1>2 DEF Solves
  <1>5. f = [at \in S |-> f[at]]
    BY <1>2 DEF Solves
  <1>6. Grouping!Find = CHOOSE g : g = [at \in S |-> Body(g, at)]
    BY DEF Grouping!Find
  <1> HIDE DEF Body
  <1>7. f = [at \in S |-> Body(f, at)]
    BY <1>3, <1>4, <1>5
  <1>8. Grouping!Find = [at \in S |-> Body(Grouping!Find, at)]
    BY <1>6, <1>7
  <1>9. Grouping!Find[<<up, x>>] = Body(Grouping!Find, <<up, x>>)
    BY <1>8
  <1> QED BY <1>3, <1>9

\* It ends at the root, by the rank, and leaves a tree with the same roots.
LEMMA FindFinds ==
  ASSUME NEW up, NEW rank, NEW rt, Tree(up, rank, rt), NEW x \in Grouped
  PROVE  /\ Grouping!Find[<<up, x>>].root = rt[x]
         /\ Tree(Grouping!Find[<<up, x>>].up, rank, rt)
  <1> DEFINE Good(u, y) == /\ Grouping!Find[<<u, y>>].root = rt[y]
                           /\ Tree(Grouping!Find[<<u, y>>].up, rank, rt)
             bad == {n \in Nat : \E u \in Grouping!Forests, y \in Grouped :
                                   n = rank[y] /\ Tree(u, rank, rt) /\ ~Good(u, y)}
  <1>1. bad = {}
    <2> SUFFICES ASSUME bad # {} PROVE FALSE
      OBVIOUS
    <2>1. bad \in SUBSET Nat
      OBVIOUS
    <2>2. PICK n \in bad : \A m \in bad : n <= m
      <3> HIDE DEF bad
      <3> QED BY <2>1, LeastExists
    <2>3. PICK u \in Grouping!Forests, y \in Grouped : n = rank[y] /\ Tree(u, rank, rt) /\ ~Good(u, y)
      BY <2>2
    <2>4. CASE u[y] = y
      <3>1. Grouping!Find[<<u, y>>] = [root |-> y, up |-> u]
        BY <2>4, FindEquation
      <3> QED BY <2>3, <2>4, <3>1 DEF Tree
    <2>5. CASE u[y] # y
      <3>1. Grouping!Find[<<u, y>>] = Grouping!Find[<<Halved(u, y), u[u[y]]>>]
        BY <2>5, FindEquation
      <3>2. /\ Tree(Halved(u, y), rank, rt) /\ u[u[y]] \in Grouped
            /\ rt[u[u[y]]] = rt[y] /\ rank[u[u[y]]] < rank[y]
        BY <2>3, <2>5, HalvingIsATree
      <3>3. ~Good(Halved(u, y), u[u[y]])
        BY <2>3, <3>1, <3>2
      <3>4. rank[u[u[y]]] \in Nat /\ rank[y] \in Nat /\ Halved(u, y) \in Grouping!Forests
        BY <3>2 DEF Tree
      <3> HIDE DEF Good
      <3>5. rank[u[u[y]]] \in bad
        BY <3>2, <3>3, <3>4
      <3> QED BY <2>2, <2>3, <3>2, <3>4, <3>5
    <2> QED BY <2>4, <2>5
  <1>2. up \in Grouping!Forests /\ rank[x] \in Nat
    BY DEF Tree
  <1> QED BY <1>1, <1>2

\* After a union two trees have one root.
Joined(rt, a, b) == [c \in Grouped |-> IF rt[c] = rt[a] THEN rt[b] ELSE rt[c]]

\* A union is a tree, with the roots joined.
LEMMA UnionJoins ==
  ASSUME NEW up, NEW rank, NEW rt, Tree(up, rank, rt), NEW a \in Grouped, NEW b \in Grouped
  PROVE  \E more : Tree(Grouping!Union(up, a, b), more, Joined(rt, a, b))
  <1> DEFINE first == Grouping!Find[<<up, a>>]
             second == Grouping!Find[<<first.up, b>>]
             u == second.up
             v == [u EXCEPT ![rt[a]] = rt[b]]
  <1>1. first.root = rt[a] /\ Tree(first.up, rank, rt)
    BY FindFinds
  <1>2. second.root = rt[b] /\ Tree(u, rank, rt)
    BY <1>1, FindFinds
  <1>3. Grouping!Union(up, a, b) = IF rt[a] = rt[b] THEN u ELSE v
    BY <1>1, <1>2 DEF Grouping!Union
  <1> HIDE DEF first, second, u
  <1>4. /\ u \in [Grouped -> Grouped] /\ rank \in [Grouped -> Nat] /\ rt \in [Grouped -> Grouped]
        /\ rt[a] \in Grouped /\ rt[b] \in Grouped
    BY <1>2 DEF Tree, Grouping!Forests
  <1>5. CASE rt[a] = rt[b]
    <2>1. Joined(rt, a, b) = rt
      BY <1>4, <1>5 DEF Joined
    <2> QED BY <1>2, <1>3, <1>5, <2>1
  <1>6. CASE rt[a] # rt[b]
    <2> DEFINE more == [c \in Grouped |-> IF rt[c] = rt[a] THEN rank[c] + rank[rt[b]] + 1 ELSE rank[c]]
               new == Joined(rt, a, b)
    <2>1. more \in [Grouped -> Nat] /\ new \in [Grouped -> Grouped] /\ v \in Grouping!Forests
      BY <1>4 DEF Joined, Grouping!Forests
    <2>2. ASSUME NEW c \in Grouped
          PROVE  /\ v[c] # c => more[v[c]] < more[c]
                 /\ v[c] = c => new[c] = c
                 /\ v[new[c]] = new[c] /\ new[v[c]] = new[c]
      <3>1. /\ u[c] \in Grouped /\ rt[c] \in Grouped
            /\ u[c] # c => rank[u[c]] < rank[c]
            /\ u[c] = c => rt[c] = c
            /\ u[rt[c]] = rt[c] /\ rt[u[c]] = rt[c]
        BY <1>2, <1>4 DEF Tree
      <3>2. u[rt[b]] = rt[b] /\ rt[rt[b]] = rt[b] /\ u[rt[a]] = rt[a] /\ rt[rt[a]] = rt[a]
        BY <1>2, <1>4 DEF Tree
      <3>3. v[c] = (IF c = rt[a] THEN rt[b] ELSE u[c]) /\ v[rt[b]] = rt[b]
        BY <1>4, <1>6, <3>2
      <3>4. new[c] = IF rt[c] = rt[a] THEN rt[b] ELSE rt[c]
        BY DEF Joined
      <3>5. new[rt[b]] = rt[b] /\ new[u[c]] = new[c]
        BY <1>4, <1>6, <3>1, <3>2, <3>4 DEF Joined
      <3>6. v[c] # c => more[v[c]] < more[c]
        <4>1. CASE c = rt[a]
          <5>1. more[c] = rank[c] + rank[rt[b]] + 1 /\ more[rt[b]] = rank[rt[b]]
            BY <1>4, <1>6, <3>2, <4>1
          <5>2. rank[c] \in Nat /\ rank[rt[b]] \in Nat
            BY <1>4
          <5> QED BY <3>3, <4>1, <5>1, <5>2
        <4>2. CASE c # rt[a]
          <5> SUFFICES ASSUME u[c] # c PROVE more[u[c]] < more[c]
            BY <3>3, <4>2
          <5>1. rank[u[c]] < rank[c] /\ rank[u[c]] \in Nat /\ rank[c] \in Nat /\ rank[rt[b]] \in Nat
            BY <1>4, <3>1
          <5>2. more[u[c]] = IF rt[c] = rt[a] THEN rank[u[c]] + rank[rt[b]] + 1 ELSE rank[u[c]]
            BY <3>1
          <5> QED BY <5>1, <5>2
        <4> QED BY <4>1, <4>2
      <3>7. v[c] = c => new[c] = c
        BY <1>6, <3>1, <3>2, <3>3, <3>4
      <3>8. v[new[c]] = new[c]
        <4>1. rt[c] # rt[a] => v[rt[c]] = rt[c]
          BY <1>4, <3>1
        <4> QED BY <3>3, <3>4, <4>1
      <3>9. new[v[c]] = new[c]
        BY <3>2, <3>3, <3>4, <3>5
      <3> QED BY <3>6, <3>7, <3>8, <3>9
    <2> HIDE DEF more, new, v
    <2>3. Tree(v, more, new)
      BY <2>1, <2>2 DEF Tree
    <2> QED BY <1>3, <1>6, <2>3 DEF new
  <1> QED BY <1>5, <1>6

-----------------------------------------------------------------------------
(* The search by levels. *)

\* The cards a level leads to that were not visited, and the search a level deeper.
NextLevel(at) == {c \in Grouped \ at.visited : \E d \in at.level : <<d, c>> \in links}
Deeper(at) ==
  [level |-> NextLevel(at), n |-> at.n + 1, visited |-> at.visited \cup NextLevel(at),
   depth |-> [c \in Grouped |-> IF c \in NextLevel(at) THEN at.n + 1 ELSE at.depth[c]]]

\* One level deeper is a search.
LEMMA DeeperIsASearch ==
  ASSUME NEW at \in Grouping!Searches
  PROVE  Deeper(at) \in Grouping!Searches
  BY DEF Grouping!Searches, Deeper, NextLevel

\* The search, one level at a time.
LEMMA SearchEquation ==
  ASSUME NEW at \in Grouping!Searches
  PROVE  Grouping!Search[at] = IF NextLevel(at) = {} THEN at ELSE Grouping!Search[Deeper(at)]
  <1> DEFINE S == Grouping!Searches
             End == {s \in S : NextLevel(s) = {}}
             next == [s \in S |-> Deeper(s)]
             says == [s \in S |-> s]
             Body(g, s) ==
               LET nextLevel == {c \in Grouped \ s.visited : \E d \in s.level : <<d, c>> \in links} IN
               IF nextLevel = {} THEN s
               ELSE g[[level |-> nextLevel, n |-> s.n + 1, visited |-> s.visited \cup nextLevel,
                       depth |-> [c \in Grouped |-> IF c \in nextLevel THEN s.n + 1 ELSE s.depth[c]]]]
  <1>1. next \in [S -> S] /\ End \in SUBSET S
    BY DeeperIsASearch
  <1>2. PICK f : Solves(f, S, End, next, says)
    <2> HIDE DEF S, End, next, says
    <2> QED BY <1>1, TailRecursion
  <1>3. \A g, s : Body(g, s) = IF NextLevel(s) = {} THEN s ELSE g[Deeper(s)]
    BY DEF NextLevel, Deeper
  <1>4. \A s \in S : f[s] = IF NextLevel(s) = {} THEN s ELSE f[Deeper(s)]
    BY <1>2 DEF Solves
  <1>5. f = [s \in S |-> f[s]]
    BY <1>2 DEF Solves
  <1>6. Grouping!Search = CHOOSE g : g = [s \in S |-> Body(g, s)]
    BY DEF Grouping!Search
  <1> HIDE DEF Body
  <1>7. f = [s \in S |-> Body(f, s)]
    BY <1>3, <1>4, <1>5
  <1>8. Grouping!Search = [s \in S |-> Body(Grouping!Search, s)]
    BY <1>6, <1>7
  <1>9. Grouping!Search[at] = Body(Grouping!Search, at)
    BY <1>8
  <1> QED BY <1>3, <1>9

\* What a search has laid out so far.
LaidOut(at, roots) ==
  /\ at \in Grouping!Searches /\ roots \subseteq at.visited
  /\ at.level = {c \in at.visited : at.depth[c] = at.n}
  /\ \A c \in at.visited : at.depth[c] <= at.n
  /\ \A c \in Grouped \ at.visited : at.depth[c] = 0
  /\ \A d \in at.visited, c \in Grouped : <<d, c>> \in links /\ at.depth[d] < at.n =>
       c \in at.visited /\ at.depth[c] <= at.depth[d] + 1
  /\ \A c \in Grouped : at.depth[c] > 0 =>
       \E d \in at.visited : <<d, c>> \in links /\ at.depth[d] = at.depth[c] - 1

\* A level more leaves all that laid out.
LEMMA DeeperIsLaidOut ==
  ASSUME NEW at, NEW roots, LaidOut(at, roots)
  PROVE  LaidOut(Deeper(at), roots)
  <1> DEFINE to == Deeper(at)
             next == NextLevel(at)
  <1>1. /\ at.level \subseteq Grouped /\ at.visited \subseteq Grouped /\ at.n \in Nat
        /\ at.depth \in [Grouped -> Nat]
    BY DEF LaidOut, Grouping!Searches
  <1>2. /\ to.level = next /\ to.n = at.n + 1 /\ to.visited = at.visited \cup next
        /\ to.depth = [c \in Grouped |-> IF c \in next THEN at.n + 1 ELSE at.depth[c]]
    BY DEF Deeper
  <1>3. next \subseteq Grouped \ at.visited /\ \A c \in next : \E d \in at.level : <<d, c>> \in links
    BY DEF NextLevel
  <1>4. \A d \in at.level, c \in Grouped : <<d, c>> \in links => c \in to.visited
    BY <1>2 DEF NextLevel
  <1>5. to \in Grouping!Searches
    BY DeeperIsASearch DEF LaidOut
  <1> HIDE DEF to, next
  <1>6. \A c \in Grouped : to.depth[c] = IF c \in next THEN at.n + 1 ELSE at.depth[c]
    BY <1>2
  <1>7. \A c \in at.visited : at.depth[c] <= at.n /\ at.depth[c] \in Nat /\ c \in Grouped
    BY <1>1 DEF LaidOut
  <1>8. to.level = {c \in to.visited : to.depth[c] = to.n}
    BY <1>1, <1>2, <1>3, <1>6, <1>7
  <1>9. \A c \in to.visited : to.depth[c] <= to.n
    BY <1>1, <1>2, <1>3, <1>6, <1>7
  <1>10. \A c \in Grouped \ to.visited : to.depth[c] = 0
    BY <1>2, <1>6 DEF LaidOut
  <1>11. ASSUME NEW d \in to.visited, NEW c \in Grouped, <<d, c>> \in links, to.depth[d] < to.n
         PROVE  c \in to.visited /\ to.depth[c] <= to.depth[d] + 1
    <2>1. d \in at.visited /\ d \notin next /\ to.depth[d] = at.depth[d]
      BY <1>1, <1>2, <1>3, <1>6, <1>11
    <2>2. CASE at.depth[d] = at.n
      <3>1. d \in at.level
        BY <2>1, <2>2 DEF LaidOut
      <3>2. c \in to.visited
        BY <1>4, <1>11, <3>1
      <3> QED BY <1>1, <1>2, <1>6, <1>7, <2>1, <2>2, <3>2
    <2>3. CASE at.depth[d] < at.n
      <3>1. c \in at.visited /\ at.depth[c] <= at.depth[d] + 1
        BY <1>11, <2>1, <2>3 DEF LaidOut
      <3> QED BY <1>2, <1>3, <1>6, <2>1, <3>1
    <2> QED BY <1>1, <1>7, <2>1, <2>2, <2>3
  <1>12. ASSUME NEW c \in Grouped, to.depth[c] > 0
         PROVE  \E d \in to.visited : <<d, c>> \in links /\ to.depth[d] = to.depth[c] - 1
    <2>1. CASE c \in next
      <3>1. PICK d \in at.level : <<d, c>> \in links
        BY <1>3, <2>1
      <3>2. d \in at.visited /\ at.depth[d] = at.n /\ d \notin next
        BY <1>3, <3>1 DEF LaidOut
      <3>3. to.depth[d] = at.n /\ to.depth[c] = at.n + 1
        BY <1>1, <1>6, <2>1, <3>2
      <3>4. to.depth[d] = to.depth[c] - 1
        BY <1>1, <3>3
      <3> QED BY <1>2, <3>1, <3>2, <3>4
    <2>2. CASE c \notin next
      <3>1. PICK d \in at.visited : <<d, c>> \in links /\ at.depth[d] = at.depth[c] - 1
        BY <1>6, <1>12, <2>2 DEF LaidOut
      <3>2. d \notin next /\ to.depth[d] = at.depth[d] /\ to.depth[c] = at.depth[c]
        BY <1>1, <1>3, <1>6, <2>2, <3>1
      <3> QED BY <1>2, <3>1, <3>2
    <2> QED BY <2>1, <2>2
  <1>13. roots \subseteq to.visited
    BY <1>2 DEF LaidOut
  <1> QED BY <1>5, <1>8, <1>9, <1>10, <1>11, <1>12, <1>13 DEF LaidOut, to

\* A search ends, with every card laid out that a visited card leads to.
LEMMA SearchLaysOut ==
  ASSUME NEW at, NEW roots, LaidOut(at, roots)
  PROVE  LaidOut(Grouping!Search[at], roots) /\ NextLevel(Grouping!Search[at]) = {}
  <1> DEFINE Good(s) == LaidOut(Grouping!Search[s], roots) /\ NextLevel(Grouping!Search[s]) = {}
             bad == {s \in Grouping!Searches : LaidOut(s, roots) /\ ~Good(s)}
             left == {Grouped \ s.visited : s \in bad}
  <1>1. ASSUME NEW s \in bad PROVE NextLevel(s) # {} /\ Deeper(s) \in bad
    <2>1. NextLevel(s) # {}
      BY SearchEquation
    <2>2. LaidOut(Deeper(s), roots) /\ Deeper(s) \in Grouping!Searches
      BY DeeperIsLaidOut DEF LaidOut
    <2>3. Grouping!Search[s] = Grouping!Search[Deeper(s)]
      BY <2>1, SearchEquation
    <2> QED BY <2>1, <2>2, <2>3
  <1>2. bad = {}
    <2> SUFFICES ASSUME bad # {} PROVE FALSE
      OBVIOUS
    <2>1. left \in SUBSET SUBSET Grouped /\ left # {}
      OBVIOUS
    <2>2. PICK X \in left : \A Y \in left : Y \subseteq X => Y = X
      <3> HIDE DEF left
      <3> QED BY <2>1, GroupedFinite, LeastSet
    <2>3. PICK s \in bad : X = Grouped \ s.visited
      BY <2>2
    <2>4. Deeper(s).visited = s.visited \cup NextLevel(s) /\ NextLevel(s) \subseteq Grouped \ s.visited
      BY DEF Deeper, NextLevel
    <2>5. Grouped \ Deeper(s).visited \in left
      BY <1>1
    <2> HIDE DEF left, bad
    <2> QED BY <1>1, <2>2, <2>3, <2>4, <2>5
  <1>3. at \in Grouping!Searches
    BY DEF LaidOut
  <1> QED BY <1>2, <1>3

\* The roots are laid out.
LEMMA StartIsLaidOut ==
  ASSUME NEW ids \in SUBSET Grouped
  PROVE  LaidOut([level |-> Grouping!Roots(ids), n |-> 0, visited |-> Grouping!Roots(ids),
                  depth |-> [c \in Grouped |-> 0]], Grouping!Roots(ids))
  BY DEF LaidOut, Grouping!Searches, Grouping!Roots

\* A lineage laid out: visited cards lead to visited cards only, and no deeper
\* than one below.
LEMMA LineageIsLaidOut ==
  ASSUME NEW ids \in SUBSET Grouped, links \subseteq Grouped \X Grouped
  PROVE  LET s == Grouping!Searched(ids) IN
         /\ Grouping!Roots(ids) \subseteq s.visited
         /\ \A d \in s.visited, c \in Grouped : <<d, c>> \in links =>
              c \in s.visited /\ s.depth[c] <= s.depth[d] + 1
         /\ \A c \in Grouped : s.depth[c] > 0 =>
              \E d \in s.visited : <<d, c>> \in links /\ s.depth[d] = s.depth[c] - 1
  <1> DEFINE s == Grouping!Searched(ids)
  <1>1. LaidOut(s, Grouping!Roots(ids)) /\ NextLevel(s) = {}
    BY StartIsLaidOut, SearchLaysOut DEF Grouping!Searched
  <1> HIDE DEF s
  <1>2. ASSUME NEW d \in s.visited, NEW c \in Grouped, <<d, c>> \in links
        PROVE  c \in s.visited /\ s.depth[c] <= s.depth[d] + 1
    <2>1. s.depth[d] <= s.n /\ s.depth \in [Grouped -> Nat] /\ s.visited \subseteq Grouped /\ s.n \in Nat
      BY <1>1 DEF LaidOut, Grouping!Searches
    <2>2. CASE s.depth[d] < s.n
      BY <1>1, <1>2, <2>2 DEF LaidOut
    <2>3. CASE s.depth[d] = s.n
      <3>1. d \in s.level
        BY <1>1, <2>3 DEF LaidOut
      <3>2. c \in s.visited
        BY <1>1, <1>2, <3>1 DEF NextLevel
      <3>3. s.depth[c] <= s.n
        BY <1>1, <3>2 DEF LaidOut
      <3> QED BY <2>1, <2>3, <3>2, <3>3
    <2>4. s.depth[d] \in Nat
      BY <2>1
    <2> QED BY <2>1, <2>2, <2>3, <2>4
  <1>3. /\ Grouping!Roots(ids) \subseteq s.visited
        /\ \A c \in Grouped : s.depth[c] > 0 =>
             \E d \in s.visited : <<d, c>> \in links /\ s.depth[d] = s.depth[c] - 1
    BY <1>1 DEF LaidOut
  <1> QED BY <1>2, <1>3 DEF s

\* A set that holds what c leads to, directly or not, and what all such sets hold.
Leads(c, ids) == \A pair \in links : pair[1] \in ids \cup {c} => pair[2] \in ids
Below(c) == {d \in Grouped : \A ids \in SUBSET Grouped : Leads(c, ids) => d \in ids}

\* Some card among those that each have one of them before it is on a cycle.
LEMMA CycleExists ==
  ASSUME links \subseteq Grouped \X Grouped, NEW Q \in SUBSET Grouped, Q # {},
         \A c \in Q : \E d \in Q : <<d, c>> \in links
  PROVE  \E c \in Q : Grouping!OnCycle(c)
  <1> DEFINE left == {Grouped \ Below(c) : c \in Q}
  <1>1. PICK X \in left : \A Y \in left : Y \subseteq X => Y = X
    <2>1. \A c \in Q : Grouped \ Below(c) \in SUBSET Grouped
      OBVIOUS
    <2>2. left \in SUBSET SUBSET Grouped /\ left # {}
      BY <2>1
    <2>3. IsFiniteSet(Grouped)
      BY GroupedFinite
    <2> HIDE DEF left
    <2> QED BY <2>2, <2>3, LeastSet
  <1>2. PICK c \in Q : X = Grouped \ Below(c)
    BY <1>1
  <1>3. PICK d \in Q : <<d, c>> \in links
    BY <1>2
  <1>4. \A ids \in SUBSET Grouped : Leads(d, ids) => c \in ids /\ Leads(c, ids)
    BY <1>3 DEF Leads
  <1>5. c \in Below(d) /\ Below(c) \subseteq Below(d)
    BY <1>4 DEF Below
  <1>6. Grouped \ Below(d) = Grouped \ Below(c)
    <2>1. Grouped \ Below(d) \in left
      OBVIOUS
    <2>2. Grouped \ Below(d) \subseteq X
      BY <1>2, <1>5
    <2> QED BY <1>1, <1>2, <2>1, <2>2
  <1>7. c \in Below(c)
    BY <1>5, <1>6 DEF Below
  <1>8. Grouping!OnCycle(c)
    BY <1>7 DEF Grouping!OnCycle, Below, Leads
  <1> QED BY <1>8

-----------------------------------------------------------------------------
(* The reports. *)

\* The roots tell apart what the edges taken so far tell apart.
Follows(rt) ==
  /\ \A ids \in SUBSET Grouped : Grouping!Closed(ids) => \A c \in Grouped : c \in ids <=> rt[c] \in ids
  /\ \A pair \in links \ todo : Grouping!Connects(pair) => rt[pair[1]] = rt[pair[2]]

\* The invariant: the forest is one in which exactly the cards that the edges taken
\* so far join have one root.
GroupingInv ==
  /\ Grouping!TypeOK
  /\ report = "filing" => declared = {}
  /\ suppressed = (links \ todo) \cap declared
  /\ \E rank, rt : Tree(parent, rank, rt) /\ Follows(rt)

\* It holds of a forest of single cards.
LEMMA GroupingStarts == Grouping!Init => GroupingInv
  <1> SUFFICES ASSUME Grouping!Init PROVE GroupingInv
    OBVIOUS
  <1>1. \A n, S : Grouping!kSubset(n, S) \subseteq SUBSET S
    BY DEF Grouping!kSubset
  <1>2. /\ \A S : \A x \in Grouping!Graphs(S) : x \subseteq S
        /\ declared \subseteq Grouping!Ordered
    BY <1>1 DEF Grouping!Graphs, Grouping!Init
  <1>3. /\ report \in {"citations", "filing"} /\ hub \in HubDegrees \cup {0}
        /\ links \subseteq (IF report = "citations" THEN Grouping!Ordered ELSE Grouping!Pairs)
        /\ report = "filing" => declared = {}
    <2>1. {pair \in Grouping!Ordered : {pair[1], pair[2]} \subseteq population} \subseteq Grouping!Ordered
      OBVIOUS
    <2> QED BY <1>2, <2>1 DEF Grouping!Init
  <1>4. population \subseteq Grouped
    BY PartsAssumption DEF PartsAssumption, Grouping!GroupingAssumption, Grouping!Init
  <1>5. parent = [c \in Grouped |-> c] /\ todo = links /\ suppressed = {}
    BY DEF Grouping!Init
  <1>6. Grouping!TypeOK
    BY <1>2, <1>3, <1>4, <1>5 DEF Grouping!TypeOK, Grouping!Forests
  <1>7. Tree(parent, [c \in Grouped |-> 0], parent) /\ Follows(parent)
    BY <1>5 DEF Tree, Follows, Grouping!Forests
  <1>8. \E rank, rt : Tree(parent, rank, rt) /\ Follows(rt)
    BY <1>7
  <1> QED BY <1>3, <1>5, <1>6, <1>8 DEF GroupingInv

\* While the edges are taken one by one, none changes.
LEMMA ConnectsStays ==
  ASSUME UNCHANGED <<report, links, declared, hub>>
  PROVE  /\ \A pair : Grouping!Connects(pair)' <=> Grouping!Connects(pair)
         /\ \A ids : Grouping!Closed(ids)' <=> Grouping!Closed(ids)
  BY DEF Grouping!Connects, Grouping!Closed, Grouping!Hubs, Grouping!Degree, Grouping!Cardinality

\* An edge that connects joins what must be joined.
LEMMA JoiningFollows ==
  ASSUME NEW rank, NEW rt, Tree(parent, rank, rt), Follows(rt), Grouping!TypeOK,
         NEW pair \in todo, Grouping!Connects(pair),
         parent' = Grouping!Union(parent, pair[1], pair[2]), todo' = todo \ {pair},
         UNCHANGED <<report, links, declared, hub>>
  PROVE  \E more, new : Tree(parent', more, new) /\ Follows(new)'
  <1>1. pair[1] \in Grouped /\ pair[2] \in Grouped /\ pair \in links /\ links \subseteq Grouped \X Grouped
    BY DEF Grouping!TypeOK, Grouping!Ordered, Grouping!Pairs
  <1> DEFINE new == Joined(rt, pair[1], pair[2])
  <1>2. PICK more : Tree(parent', more, new)
    BY <1>1, UnionJoins
  <1>3. /\ \A p : Grouping!Connects(p)' <=> Grouping!Connects(p)
        /\ \A ids : Grouping!Closed(ids)' <=> Grouping!Closed(ids)
    BY ConnectsStays
  <1>4. rt \in [Grouped -> Grouped]
    BY DEF Tree
  <1>5. \A c \in Grouped : new[c] = IF rt[c] = rt[pair[1]] THEN rt[pair[2]] ELSE rt[c]
    BY DEF Joined
  <1> HIDE DEF new
  <1>6. ASSUME NEW ids \in SUBSET Grouped, Grouping!Closed(ids), NEW c \in Grouped
        PROVE  c \in ids <=> new[c] \in ids
    <2>1. pair[1] \in ids <=> pair[2] \in ids
      BY <1>1, <1>6 DEF Grouping!Closed
    <2>2. \A d \in Grouped : d \in ids <=> rt[d] \in ids
      BY <1>6 DEF Follows
    <2> QED BY <1>1, <1>5, <2>1, <2>2
  <1>7. ASSUME NEW p \in links \ todo', Grouping!Connects(p) PROVE new[p[1]] = new[p[2]]
    <2>1. p[1] \in Grouped /\ p[2] \in Grouped
      BY <1>1, <1>7
    <2>2. CASE p = pair
      BY <1>1, <1>5, <2>2
    <2>3. CASE p # pair
      <3>1. rt[p[1]] = rt[p[2]]
        BY <1>7, <2>3 DEF Follows
      <3> QED BY <1>5, <2>1, <3>1
    <2> QED BY <2>2, <2>3
  <1>8. Follows(new)'
    BY <1>3, <1>6, <1>7 DEF Follows
  <1> QED BY <1>2, <1>8

\* Every step keeps it.
LEMMA GroupingGoesOn == GroupingInv /\ [Grouping!Next]_groupingVars => GroupingInv'
  <1> SUFFICES ASSUME GroupingInv, [Grouping!Next]_groupingVars PROVE GroupingInv'
    OBVIOUS
  <1>1. PICK rank, rt : Tree(parent, rank, rt) /\ Follows(rt)
    BY DEF GroupingInv
  <1>2. CASE UNCHANGED groupingVars
    <2>1. Tree(parent, rank, rt)' /\ Follows(rt)'
      BY <1>1, <1>2, ConnectsStays DEF groupingVars, Tree, Follows
    <2>2. Grouping!TypeOK'
      BY <1>2 DEF GroupingInv, groupingVars, Grouping!TypeOK
    <2>3. /\ (report = "filing" => declared = {})'
          /\ (suppressed = (links \ todo) \cap declared)'
      BY <1>2 DEF GroupingInv, groupingVars
    <2>4. (\E more, new : Tree(parent, more, new) /\ Follows(new))'
      BY <2>1
    <2> QED BY <2>2, <2>3, <2>4 DEF GroupingInv
  <1>3. ASSUME NEW pair \in todo, Grouping!TakeCitation(pair) \/ Grouping!TakeLink(pair)
        PROVE  GroupingInv'
    <2>1. /\ todo' = todo \ {pair} /\ UNCHANGED <<report, links, declared, hub, population>>
          /\ pair \in links
      BY <1>3 DEF Grouping!TakeCitation, Grouping!TakeLink, GroupingInv, Grouping!TypeOK
    <2>2. suppressed' = (links' \ todo') \cap declared'
      <3>1. CASE pair \in declared
        <4>1. suppressed' = suppressed \cup {pair}
          BY <1>3, <3>1 DEF Grouping!TakeCitation, Grouping!TakeLink, GroupingInv
        <4> QED BY <2>1, <3>1, <4>1 DEF GroupingInv
      <3>2. CASE pair \notin declared
        <4>1. suppressed' = suppressed
          BY <1>3, <3>2 DEF Grouping!TakeCitation, Grouping!TakeLink
        <4> QED BY <2>1, <3>2, <4>1 DEF GroupingInv
      <3> QED BY <3>1, <3>2
    <2>3. \/ parent' = parent /\ ~Grouping!Connects(pair)
          \/ parent' = Grouping!Union(parent, pair[1], pair[2]) /\ Grouping!Connects(pair)
      BY <1>3 DEF Grouping!TakeCitation, Grouping!TakeLink, Grouping!Connects, Grouping!Hubs, GroupingInv
    <2>4. \E more, new : Tree(parent', more, new) /\ Follows(new)'
      <3>1. CASE parent' = parent /\ ~Grouping!Connects(pair)
        <4>1. Follows(rt)'
          BY <1>1, <2>1, <3>1, ConnectsStays DEF Follows
        <4> QED BY <1>1, <3>1, <4>1
      <3>2. CASE parent' = Grouping!Union(parent, pair[1], pair[2]) /\ Grouping!Connects(pair)
        <4>1. Grouping!TypeOK
          BY DEF GroupingInv
        <4> QED BY <1>1, <2>1, <3>2, <4>1, JoiningFollows
      <3> QED BY <2>3, <3>1, <3>2
    <2>5. Grouping!TypeOK'
      <3>1. parent' \in Grouping!Forests
        BY <2>4 DEF Tree
      <3>2. todo' \subseteq links' /\ suppressed' \subseteq links'
        BY <2>1, <2>2 DEF GroupingInv, Grouping!TypeOK
      <3> QED BY <2>1, <3>1, <3>2 DEF GroupingInv, Grouping!TypeOK
    <2>6. (report = "filing" => declared = {})'
      BY <2>1 DEF GroupingInv
    <2> QED BY <2>2, <2>4, <2>5, <2>6 DEF GroupingInv
  <1> QED BY <1>2, <1>3 DEF Grouping!Next, Grouping!vars, groupingVars

\* With it, what the reports say is so.
LEMMA ReportsAreTrue == GroupingInv => Grouping!ReportIsTrue
  <1> SUFFICES ASSUME GroupingInv, todo = {} PROVE Grouping!ReportIsTrue
    BY DEF Grouping!ReportIsTrue
  <1>1. PICK rank, rt : Tree(parent, rank, rt) /\ Follows(rt)
    BY DEF GroupingInv
  <1>2. /\ links \subseteq Grouped \X Grouped /\ rt \in [Grouped -> Grouped]
        /\ report \in {"citations", "filing"}
    BY <1>1 DEF GroupingInv, Grouping!TypeOK, Grouping!Ordered, Grouping!Pairs, Tree
  <1>3. \A c \in Grouped : Grouping!RootOf(c) = rt[c]
    BY <1>1, FindFinds DEF Grouping!RootOf
  <1>4. ASSUME NEW c \in Grouped, NEW d \in Grouped
        PROVE  Grouping!RootOf(c) = Grouping!RootOf(d) <=> Grouping!Together(c, d)
    <2>1. ASSUME rt[c] = rt[d], NEW ids \in SUBSET Grouped, Grouping!Closed(ids), c \in ids PROVE d \in ids
      BY <1>1, <2>1 DEF Follows
    <2>2. ASSUME Grouping!Together(c, d) PROVE rt[c] = rt[d]
      <3> DEFINE ids == {x \in Grouped : rt[x] = rt[c]}
      <3>1. Grouping!Closed(ids)
        BY <1>1, <1>2 DEF Follows, Grouping!Closed
      <3>2. d \in ids
        BY <2>2, <3>1 DEF Grouping!Together
      <3> QED BY <3>2
    <2> QED BY <1>3, <2>1, <2>2 DEF Grouping!Together
  <1>5. suppressed = links \cap declared
    BY DEF GroupingInv
  <1>6. \A pair \in suppressed : pair \in Grouping!StillGrouped <=> Grouping!Together(pair[1], pair[2])
    BY <1>2, <1>4, <1>5 DEF Grouping!StillGrouped
  <1>7. ASSUME NEW ids \in Grouping!Components
        PROVE  ids \cap Grouping!Hubs = {} /\ Grouping!HubNeighbours(ids) \cap ids = {}
    <2>1. PICK c \in Grouped : ids = {d \in Grouped : Grouping!RootOf(d) = Grouping!RootOf(c)}
      BY <1>7 DEF Grouping!Components
    <2>2. ASSUME NEW h \in ids, h \in Grouping!Hubs PROVE FALSE
      <3>1. Grouping!Closed({h})
        BY <1>2, <2>2 DEF Grouping!Closed, Grouping!Connects
      <3>2. \A d \in ids : d = h
        BY <1>4, <2>1, <3>1 DEF Grouping!Together
      <3>3. ids = {h}
        BY <3>2
      <3>4. Cardinality({h}) = 1
        BY FS_Singleton
      <3>5. Cardinality(ids) > 1
        BY <1>7 DEF Grouping!Components, Grouping!Cardinality, Cardinality
      <3> QED BY <3>3, <3>4, <3>5
    <2> QED BY <2>2 DEF Grouping!HubNeighbours
  <1>8. ASSUME NEW ids \in Grouping!Components, report = "filing"
        PROVE  /\ Grouping!Orphaned(ids) # {} => \E c \in ids : Grouping!OnCycle(c)
               /\ \A pair \in links : pair[1] \in ids \ Grouping!Orphaned(ids) =>
                    /\ pair[2] \notin Grouping!Orphaned(ids)
                    /\ Grouping!Shown(ids, pair[2]) <= Grouping!Shown(ids, pair[1]) + 1
               /\ \A c \in ids : Grouping!Shown(ids, c) > 0 =>
                    \E d \in ids : <<d, c>> \in links /\ Grouping!Shown(ids, d) = Grouping!Shown(ids, c) - 1
    <2>1. PICK r \in Grouped : ids = {d \in Grouped : rt[d] = rt[r]}
      BY <1>3, <1>8 DEF Grouping!Components
    <2>2. \A pair \in links : pair[1] \in Grouped /\ pair[2] \in Grouped /\ rt[pair[1]] = rt[pair[2]]
      <3>1. \A pair \in links : Grouping!Connects(pair)
        BY <1>8 DEF GroupingInv, Grouping!Connects, Grouping!Hubs
      <3> QED BY <1>1, <1>2, <3>1 DEF Follows
    <2>3. \A c, d \in Grouped : <<d, c>> \in links => (c \in ids <=> d \in ids)
      BY <2>1, <2>2
    <2> DEFINE s == Grouping!Searched(ids)
    <2>4. /\ Grouping!Roots(ids) \subseteq s.visited
          /\ \A d \in s.visited, c \in Grouped : <<d, c>> \in links =>
               c \in s.visited /\ s.depth[c] <= s.depth[d] + 1
          /\ \A c \in Grouped : s.depth[c] > 0 =>
               \E d \in s.visited : <<d, c>> \in links /\ s.depth[d] = s.depth[c] - 1
      BY <1>2, <2>1, LineageIsLaidOut
    <2>5. Grouping!Orphaned(ids) = ids \ s.visited /\ \A c : Grouping!Shown(ids, c) = s.depth[c]
      BY DEF Grouping!Orphaned, Grouping!Shown
    <2> HIDE DEF s
    <2>6. ASSUME Grouping!Orphaned(ids) # {} PROVE \E c \in ids : Grouping!OnCycle(c)
      <3>1. \A c \in Grouping!Orphaned(ids) : \E d \in Grouping!Orphaned(ids) : <<d, c>> \in links
        <4> SUFFICES ASSUME NEW c \in ids \ s.visited PROVE \E d \in ids \ s.visited : <<d, c>> \in links
          BY <2>5
        <4>1. PICK d \in Grouped : <<d, c>> \in links
          BY <2>4 DEF Grouping!Roots
        <4>2. c \in Grouped
          BY <2>1
        <4> QED BY <2>3, <2>4, <4>1, <4>2
      <3>2. Grouping!Orphaned(ids) \in SUBSET Grouped /\ Grouping!Orphaned(ids) \subseteq ids
        BY <2>1, <2>5
      <3> QED BY <1>2, <2>6, <3>1, <3>2, CycleExists
    <2>7. ASSUME NEW pair \in links, pair[1] \in ids \ Grouping!Orphaned(ids)
          PROVE  /\ pair[2] \notin Grouping!Orphaned(ids)
                 /\ Grouping!Shown(ids, pair[2]) <= Grouping!Shown(ids, pair[1]) + 1
      <3>1. pair = <<pair[1], pair[2]>> /\ pair[1] \in s.visited /\ pair[2] \in Grouped
        BY <1>2, <2>5, <2>7
      <3> QED BY <2>4, <2>5, <2>7, <3>1
    <2>8. ASSUME NEW c \in ids, Grouping!Shown(ids, c) > 0
          PROVE  \E d \in ids : <<d, c>> \in links /\ Grouping!Shown(ids, d) = Grouping!Shown(ids, c) - 1
      <3>1. c \in Grouped
        BY <2>1
      <3>2. PICK d \in s.visited : <<d, c>> \in links /\ s.depth[d] = s.depth[c] - 1
        BY <2>4, <2>5, <2>8, <3>1
      <3>3. d \in Grouped
        BY <1>2, <3>2
      <3> QED BY <2>3, <2>5, <3>1, <3>2, <3>3
    <2> QED BY <2>6, <2>7, <2>8
  <1> QED BY <1>4, <1>5, <1>6, <1>7, <1>8 DEF Grouping!ReportIsTrue

-----------------------------------------------------------------------------
(* Anchors: the numbers. *)

LEMMA AnchorsMove ==
  /\ Init => (part = "anchors" => Anchors!Init)
  /\ [Next]_vars => part' = part /\ (part = "anchors" => [Anchors!Next]_anchorsVars)
  BY DEF Init, Next, vars, anchorsVars

\* The files, the spellings of a location and the bounds.
LEMMA AnchorsConstants ==
  /\ Bases \subseteq Seq(Bodies) /\ MaxSpan \in Nat /\ Around \in Nat
  /\ Metas \subseteq [{"line", "lines", "sites"} -> Seq(Anchors!Sites)]
  BY PartsAssumption DEF PartsAssumption, Anchors!AnchorsAssumption

\* Of some numbers, the least; and of some up to a bound, the greatest.
LEMMA MinIsLeast ==
  ASSUME NEW S \in SUBSET Nat, S # {}
  PROVE  Anchors!Min(S) \in S /\ \A k \in S : Anchors!Min(S) <= k
  <1>1. \E n \in S : \A m \in S : n <= m
    BY LeastExists
  <1> QED BY <1>1 DEF Anchors!Min

\* A range is part of a longer one.
LEMMA SumRange ==
  \A a, b \in Nat : /\ 1 .. (a + b) \subseteq Nat
                   /\ 1 .. a \subseteq 1 .. (a + b) /\ 1 .. b \subseteq 1 .. (a + b)
  OBVIOUS

\* And of some up to a bound, the greatest.
LEMMA GreatestNat ==
  ASSUME NEW n \in Nat, NEW S \in SUBSET (0 .. n), S # {}
  PROVE  \E m \in S : \A k \in S : k <= m
  <1> DEFINE T == {n - k : k \in S}
  <1>1. \A k \in S : k \in Nat /\ k <= n /\ n - k \in Nat
    OBVIOUS
  <1>2. T \in SUBSET Nat /\ T # {}
    BY <1>1
  <1>3. PICK t \in T : \A u \in T : t <= u
    <2> HIDE DEF T
    <2> QED BY <1>2, LeastExists
  <1>4. PICK m \in S : t = n - m
    OBVIOUS
  <1>5. ASSUME NEW k \in S PROVE k <= m
    <2>1. n - m <= n - k
      BY <1>3, <1>4
    <2> QED BY <1>1, <2>1
  <1> QED BY <1>5

\* Which is what Max names.
LEMMA MaxIsGreatest ==
  ASSUME NEW n \in Nat, NEW S \in SUBSET (0 .. n), S # {}
  PROVE  Anchors!Max(S) \in S /\ \A k \in S : Anchors!Max(S) >= k
  <1>1. PICK m \in S : \A k \in S : k <= m
    BY GreatestNat
  <1>2. \A k \in S : m >= k
    BY <1>1
  <1> QED BY <1>2 DEF Anchors!Max

-----------------------------------------------------------------------------
(* Capture. *)

\* What is parsed are sites.
LEMMA ParsedSites ==
  ASSUME NEW meta \in Metas
  PROVE  Anchors!ParseSites(meta) \in Seq(Anchors!Sites)
  <1> DEFINE speaks == {i \in DOMAIN Anchors!KeyPriority : meta[Anchors!KeyPriority[i]] # <<>>}
  <1>1. Anchors!KeyPriority = <<"line", "lines", "sites">>
    BY DEF Anchors!KeyPriority
  <1>2. DOMAIN Anchors!KeyPriority = 1 .. 3
    BY <1>1
  <1>3. \A i \in 1 .. 3 : Anchors!KeyPriority[i] \in {"line", "lines", "sites"}
    BY <1>1
  <1>4. CASE speaks = {}
    <2>1. Anchors!ParseSites(meta) = <<>>
      BY <1>4 DEF Anchors!ParseSites
    <2> QED BY <2>1
  <1>5. CASE speaks # {}
    <2>1. Anchors!Min(speaks) \in speaks
      <3>1. speaks \in SUBSET Nat
        BY <1>2
      <3> HIDE DEF speaks
      <3> QED BY <1>5, <3>1, MinIsLeast
    <2>2. Anchors!ParseSites(meta) = meta[Anchors!KeyPriority[Anchors!Min(speaks)]]
      BY <1>5 DEF Anchors!ParseSites
    <2>3. Anchors!KeyPriority[Anchors!Min(speaks)] \in {"line", "lines", "sites"}
      BY <1>2, <1>3, <2>1
    <2> QED BY <2>2, <2>3, AnchorsConstants
  <1> QED BY <1>4, <1>5

\* The site that is selected is one of them, in a file that the tracker knows.
LEMMA SelectedSite ==
  ASSUME NEW sites \in Seq(Anchors!Sites), Anchors!SelectSite(sites).path # Anchors!Nowhere
  PROVE  \E i \in DOMAIN sites : sites[i].path # "other" /\ Anchors!SelectSite(sites) = sites[i]
  <1> DEFINE Naming(path) == {i \in DOMAIN sites : sites[i].path = path}
  <1>1. ASSUME NEW path, Naming(path) # {} PROVE Anchors!Min(Naming(path)) \in Naming(path)
    <2>1. Naming(path) \in SUBSET Nat
      OBVIOUS
    <2> HIDE DEF Naming
    <2> QED BY <1>1, <2>1, MinIsLeast
  <1>2. CASE Naming("recorded") # {}
    <2>1. Anchors!SelectSite(sites) = sites[Anchors!Min(Naming("recorded"))]
      BY <1>2 DEF Anchors!SelectSite
    <2> QED BY <1>1, <1>2, <2>1
  <1>3. CASE Naming("recorded") = {}
    <2>1. Naming("none") # {}
      BY <1>3 DEF Anchors!SelectSite, Anchors!Site
    <2>2. Anchors!SelectSite(sites) = sites[Anchors!Min(Naming("none"))]
      BY <1>3, <2>1 DEF Anchors!SelectSite
    <2> QED BY <1>1, <2>1, <2>2
  <1> QED BY <1>2, <1>3

\* An anchor, if there is one, is a span of the file at the place selected.
Anchored(a) == 1 <= a.line /\ a.line <= a.end /\ a.end <= Len(text)

\* A capture anchors a span of the file at the line selected, or says why not.
LEMMA CaptureAnchors ==
  ASSUME text \in Seq(Anchors!Lines), NEW meta \in Metas, NEW answered \in BOOLEAN
  PROVE  LET a == Anchors!Capture(meta, answered)
             site == Anchors!SelectSite(Anchors!ParseSites(meta)) IN
         /\ a \in [skipped : Anchors!Refusals \cup {"none"}, line : Nat, end : Nat]
         /\ a.skipped = "none" => Anchored(a) /\ a.line = site.line /\ site.path # Anchors!Nowhere
  <1> DEFINE sites == Anchors!ParseSites(meta)
             site == Anchors!SelectSite(sites)
             ends == {site.end, Len(text), site.line + MaxSpan - 1}
             end == Anchors!Min(ends)
             a == Anchors!Capture(meta, answered)
             Refused(token) == [skipped |-> token, line |-> 0, end |-> 0]
             Taken == [skipped |-> "none", line |-> site.line, end |-> end]
             sized == Anchors!Sizeable(SubSeq(text, site.line, end))
  <1>1. \/ \E token \in Anchors!Refusals : a = Refused(token)
        \/ a = Taken /\ site.path # Anchors!Nowhere /\ sized
    <2>1. CASE ~answered
      BY <2>1 DEF Anchors!Capture, Anchors!Refusals
    <2>2. CASE answered /\ sites = <<>>
      BY <2>2 DEF Anchors!Capture, Anchors!Refusals
    <2>3. CASE answered /\ sites # <<>> /\ site.path = Anchors!Nowhere
      BY <2>3 DEF Anchors!Capture, Anchors!Refusals
    <2>4. CASE answered /\ site.path # Anchors!Nowhere /\ site.line > Len(text)
      BY <2>4 DEF Anchors!Capture, Anchors!Refusals
    <2>5. CASE /\ answered /\ ~(sites = <<>>)
               /\ ~(site.path = Anchors!Nowhere) /\ ~(site.line > Len(text))
      <3>1. a = IF sized THEN Taken ELSE Refused("too_short")
        BY <2>5 DEF Anchors!Capture
      <3> QED BY <2>5, <3>1 DEF Anchors!Refusals
    <2>6. sites = <<>> => site.path = Anchors!Nowhere
      <3>1. sites = <<>> => \A path : {i \in DOMAIN sites : sites[i].path = path} = {}
        OBVIOUS
      <3> QED BY <3>1 DEF Anchors!SelectSite, Anchors!Site
    <2> QED BY <2>1, <2>2, <2>3, <2>4, <2>5, <2>6
  <1>2. CASE \E token \in Anchors!Refusals : a = Refused(token)
    BY <1>2 DEF Anchors!Refusals
  <1>3. CASE a = Taken /\ site.path # Anchors!Nowhere /\ sized
    <2>1. site \in Anchors!Sites
      BY <1>3, ParsedSites, SelectedSite
    <2>2. site.line \in Nat /\ site.line >= 1 /\ site.end \in Nat /\ Len(text) \in Nat /\ MaxSpan \in Nat
      BY <2>1, AnchorsConstants DEF Anchors!Sites
    <2>3. end \in ends /\ end <= Len(text) /\ end \in Nat
      <3>1. ends \in SUBSET Nat /\ ends # {} /\ Len(text) \in ends
        BY <2>2
      <3> HIDE DEF ends
      <3> QED BY <3>1, MinIsLeast
    <2>4. site.line <= end
      <3> HIDE DEF end
      <3>1. SubSeq(text, site.line, end) # <<>>
        <4>1. ~Anchors!Sizeable(<<>>)
          BY DEF Anchors!Sizeable
        <4> QED BY <1>3, <4>1
      <3> QED BY <2>2, <2>3, <3>1, SubSeqEmpty
    <2>5. a.skipped = "none" /\ a.line = site.line /\ a.end = end
      BY <1>3
    <2>6. Anchored(a)
      BY <2>2, <2>3, <2>4, <2>5 DEF Anchored
    <2>7. a \in [skipped : Anchors!Refusals \cup {"none"}, line : Nat, end : Nat]
      BY <1>3, <2>2, <2>3
    <2> QED BY <1>3, <2>5, <2>6, <2>7
  <1> QED BY <1>1, <1>2, <1>3

-----------------------------------------------------------------------------
(* The invariant. *)

\* A line of the span and where it is; what is answered; a resolution on its way.
Traced == [src : Nat, path : Anchors!Files, line : Nat]
Records == [status : Anchors!Statuses, path : Anchors!Files, line : Nat, end : Nat]
Resolutions == [at : {"idle", "context", "gated", "blamed", "searching", "found", "done"}, version : Nat,
                ran : BOOLEAN, alive : SUBSET Traced, checked : SUBSET Anchors!Files, looked : Nat,
                answer : Records]

\* The types.
AnchorsTypes ==
  /\ text \in Seq(Anchors!Lines) /\ head \in Anchors!Heads
  /\ moves \in Seq(Anchors!Heads) /\ Len(moves) <= MaxMoves
  /\ anchor \in [skipped : Anchors!Refusals \cup {"none", "unfiled"}, line : Nat, end : Nat]
  /\ resolution \in Resolutions /\ resolution.version <= Len(moves) /\ resolution.looked <= Len(moves)

\* A line that git knows is a line of the file as it was filed.
Known(line) == line.id # 0 => line.id \in DOMAIN text /\ Anchors!SameText(line, text[line.id])
AllKnown(lines) == \A n \in DOMAIN lines : Known(lines[n])

\* While HEAD is the one that was read: it contains the anchor's commit once the gate
\* is passed, the lines blamed are those that are left, and a search begins when
\* none is left or a call failed.
Left == Anchors!Placed(head)
Still ==
  /\ resolution.at = "gated" => head.past = "ancestor"
  /\ resolution.at = "blamed" => resolution.alive = Left
  /\ resolution.at \in {"searching", "found"} /\ resolution.ran => Left = {}

\* Whatever HEAD does: a file that is verified agreed with some HEAD since, and there
\* is another one to verify.
Verifying ==
  LET alive == resolution.alive IN
  /\ \A e \in alive : e.src \in Anchors!Span
  /\ \E e \in alive : e.path \notin resolution.checked
  /\ \A f \in resolution.checked :
       \E v \in resolution.version .. Len(moves) : Anchors!Verified(alive, f, Anchors!Tree(v))

\* The invariant: every line that git follows has the text it was filed with, and a
\* resolution knows what it has verified and where it has looked.
AnchorsInv ==
  /\ AnchorsTypes
  /\ AllKnown(text) /\ AllKnown(head.recorded) /\ AllKnown(head.other)
  /\ anchor.skipped = "none" => Anchored(anchor)
  /\ resolution.at \in {"context", "gated", "blamed", "searching", "found"} => anchor.skipped = "none"
  /\ resolution.version = Len(moves) => Still
  /\ resolution.at \in {"context", "gated"} => resolution.checked = {}
  /\ resolution.at = "blamed" => Verifying
  /\ resolution.at = "found" => resolution.version <= resolution.looked

\* It holds at the start.
LEMMA AnchorsInit == Anchors!Init => AnchorsInv
  <1> SUFFICES ASSUME Anchors!Init PROVE AnchorsInv
    OBVIOUS
  <1>1. PICK b \in Bases : text = [i \in DOMAIN b |-> [id |-> i, body |-> b[i], how |-> TRUE]]
    BY DEF Anchors!Init
  <1>2. b \in Seq(Bodies)
    BY AnchorsConstants
  <1>3. Len(b) \in Nat /\ DOMAIN b = 1 .. Len(b) /\ \A i \in 1 .. Len(b) : b[i] \in Bodies
    BY <1>2
  <1>4. text \in Seq(Anchors!Lines)
    <2>1. \A i \in 1 .. Len(b) : [id |-> i, body |-> b[i], how |-> TRUE] \in Anchors!Lines
      BY <1>3 DEF Anchors!Lines
    <2>2. text \in [1 .. Len(b) -> Anchors!Lines]
      BY <1>1, <1>3, <2>1
    <2> QED BY <1>3, <2>2
  <1>5. AllKnown(text)
    BY <1>1 DEF AllKnown, Known, Anchors!SameText
  <1>6. PICK past \in {"branch", "ancestor", "gone", "foreign"} :
          head = [recorded |-> text, other |-> <<>>, past |-> past]
    BY DEF Anchors!Init
  <1>7. /\ anchor = [skipped |-> "unfiled", line |-> 0, end |-> 0]
        /\ resolution = Anchors!Idle /\ moves = <<>>
    BY DEF Anchors!Init
  <1>8. /\ resolution \in Resolutions /\ resolution.at = "idle"
        /\ resolution.version = 0 /\ resolution.looked = 0
    BY <1>7 DEF Anchors!Idle, Resolutions, Records, Anchors!Statuses, Anchors!Files
  <1>9. /\ moves \in Seq(Anchors!Heads) /\ Len(moves) = 0 /\ MaxMoves \in Nat
    BY <1>7, PartsAssumption DEF PartsAssumption, Anchors!AnchorsAssumption
  <1>10. head \in Anchors!Heads
    BY <1>4, <1>6 DEF Anchors!Heads
  <1>11. AnchorsTypes
    BY <1>4, <1>7, <1>8, <1>9, <1>10 DEF AnchorsTypes
  <1>12. AllKnown(<<>>)
    BY DEF AllKnown
  <1> QED BY <1>5, <1>6, <1>7, <1>8, <1>11, <1>12 DEF AnchorsInv, Still

\* What HEAD was is a tree, and it stays what it was.
LEMMA TreesStay ==
  ASSUME AnchorsInv, NEW v \in 0 .. Len(moves)
  PROVE  /\ Anchors!Tree(v) \in Anchors!Heads /\ Anchors!Tree(Len(moves)) = head
         /\ moves' = Append(moves, head) \/ UNCHANGED <<moves, head>> => Anchors!Tree(v)' = Anchors!Tree(v)
  <1>1. moves \in Seq(Anchors!Heads) /\ head \in Anchors!Heads /\ Len(moves) \in Nat
    BY DEF AnchorsInv, AnchorsTypes
  <1>2. v # Len(moves) => v + 1 \in 1 .. Len(moves)
    BY <1>1
  <1>3. CASE moves' = Append(moves, head)
    <2>1. Len(moves') = Len(moves) + 1 /\ v # Len(moves')
      BY <1>1, <1>3
    <2>2. Anchors!Tree(v)' = moves'[v + 1]
      BY <2>1 DEF Anchors!Tree
    <2>3. CASE v = Len(moves)
      BY <1>1, <1>3, <2>2, <2>3 DEF Anchors!Tree
    <2>4. CASE v # Len(moves)
      BY <1>1, <1>2, <1>3, <2>2, <2>4 DEF Anchors!Tree
    <2> QED BY <1>1, <1>2, <2>3, <2>4 DEF Anchors!Tree
  <1> QED BY <1>1, <1>2, <1>3 DEF Anchors!Tree

\* Parts of files that git knows, and two of them end to end, are so too.
LEMMA KnownParts ==
  ASSUME NEW s \in Seq(Anchors!Lines), AllKnown(s)
  PROVE  /\ \A m \in 1 .. (Len(s) + 1), n \in 0 .. Len(s) :
              SubSeq(s, m, n) \in Seq(Anchors!Lines) /\ AllKnown(SubSeq(s, m, n))
         /\ \A t \in Seq(Anchors!Lines) : AllKnown(t) => s \o t \in Seq(Anchors!Lines) /\ AllKnown(s \o t)
  <1>1. Len(s) \in Nat /\ \A i \in 1 .. Len(s) : s[i] \in Anchors!Lines /\ Known(s[i])
    BY DEF AllKnown
  <1>2. ASSUME NEW m \in 1 .. (Len(s) + 1), NEW n \in 0 .. Len(s)
        PROVE  SubSeq(s, m, n) \in Seq(Anchors!Lines) /\ AllKnown(SubSeq(s, m, n))
    <2>1. m \in Int /\ n \in Int /\ \A i \in m .. n : s[i] \in Anchors!Lines
      BY <1>1
    <2>2. /\ SubSeq(s, m, n) \in Seq(Anchors!Lines)
          /\ Len(SubSeq(s, m, n)) = IF m <= n THEN n - m + 1 ELSE 0
          /\ \A i \in 1 .. n - m + 1 : SubSeq(s, m, n)[i] = s[m + i - 1]
      BY <2>1, SubSeqProperties
    <2>3. ASSUME NEW i \in DOMAIN SubSeq(s, m, n) PROVE Known(SubSeq(s, m, n)[i])
      <3>1. i \in 1 .. n - m + 1 /\ m + i - 1 \in 1 .. Len(s)
        BY <2>1, <2>2, <1>1
      <3> QED BY <1>1, <2>2, <3>1
    <2> QED BY <2>2, <2>3 DEF AllKnown
  <1>3. ASSUME NEW t \in Seq(Anchors!Lines), AllKnown(t)
        PROVE  s \o t \in Seq(Anchors!Lines) /\ AllKnown(s \o t)
    <2>1. /\ s \o t \in Seq(Anchors!Lines) /\ Len(s \o t) = Len(s) + Len(t)
          /\ \A i \in 1 .. Len(s) + Len(t) :
               (s \o t)[i] = IF i <= Len(s) THEN s[i] ELSE t[i - Len(s)]
      BY ConcatProperties
    <2>2. Len(t) \in Nat /\ \A i \in 1 .. Len(t) : Known(t[i])
      BY <1>3 DEF AllKnown
    <2>3. ASSUME NEW i \in DOMAIN (s \o t) PROVE Known((s \o t)[i])
      <3>1. i \in 1 .. Len(s) + Len(t)
        BY <2>1
      <3>2. CASE i <= Len(s)
        BY <1>1, <2>1, <3>1, <3>2
      <3>3. CASE ~(i <= Len(s))
        <4>1. i - Len(s) \in 1 .. Len(t)
          BY <1>1, <2>2, <3>1, <3>3
        <4> QED BY <2>1, <2>2, <3>1, <3>3, <4>1
      <3> QED BY <3>2, <3>3
    <2> QED BY <2>1, <2>3 DEF AllKnown
  <1> QED BY <1>2, <1>3

\* And so is a file after an insertion, a removal or a reformatting.
LEMMA KnownEdits ==
  ASSUME NEW s \in Seq(Anchors!Lines), AllKnown(s)
  PROVE  /\ \A i \in 1 .. (Len(s) + 1), e \in Anchors!Lines : Known(e) =>
              /\ Anchors!InsertAt(s, i, e) \in Seq(Anchors!Lines) /\ AllKnown(Anchors!InsertAt(s, i, e))
              /\ Append(s, e) \in Seq(Anchors!Lines) /\ AllKnown(Append(s, e))
         /\ \A i \in DOMAIN s :
              /\ Anchors!RemoveAt(s, i) \in Seq(Anchors!Lines) /\ AllKnown(Anchors!RemoveAt(s, i))
              /\ [s EXCEPT ![i].how = FALSE, ![i].id = 0] \in Seq(Anchors!Lines)
              /\ AllKnown([s EXCEPT ![i].how = FALSE, ![i].id = 0])
  <1>1. Len(s) \in Nat /\ \A i \in 1 .. Len(s) : s[i] \in Anchors!Lines /\ Known(s[i])
    BY DEF AllKnown
  <1>2. ASSUME NEW i \in 1 .. (Len(s) + 1), NEW e \in Anchors!Lines, Known(e)
        PROVE  /\ Anchors!InsertAt(s, i, e) \in Seq(Anchors!Lines) /\ AllKnown(Anchors!InsertAt(s, i, e))
               /\ Append(s, e) \in Seq(Anchors!Lines) /\ AllKnown(Append(s, e))
    <2>1. <<e>> \in Seq(Anchors!Lines) /\ AllKnown(<<e>>)
      BY <1>2 DEF AllKnown
    <2>2. i \in 1 .. (Len(s) + 1) /\ i - 1 \in 0 .. Len(s) /\ Len(s) \in 0 .. Len(s) /\ 1 \in 1 .. (Len(s) + 1)
      BY <1>1
    <2>3. /\ SubSeq(s, 1, i - 1) \in Seq(Anchors!Lines) /\ AllKnown(SubSeq(s, 1, i - 1))
          /\ SubSeq(s, i, Len(s)) \in Seq(Anchors!Lines) /\ AllKnown(SubSeq(s, i, Len(s)))
      BY <2>2, KnownParts
    <2>4. /\ SubSeq(s, 1, i - 1) \o <<e>> \in Seq(Anchors!Lines)
          /\ AllKnown(SubSeq(s, 1, i - 1) \o <<e>>)
      BY <2>1, <2>3, KnownParts
    <2>5. /\ Anchors!InsertAt(s, i, e) \in Seq(Anchors!Lines)
          /\ AllKnown(Anchors!InsertAt(s, i, e))
      BY <2>3, <2>4, KnownParts DEF Anchors!InsertAt
    <2>6. Append(s, e) \in Seq(Anchors!Lines) /\ AllKnown(Append(s, e))
      BY <1>1, <1>2 DEF AllKnown
    <2> QED BY <2>5, <2>6
  <1>3. ASSUME NEW i \in DOMAIN s
        PROVE  /\ Anchors!RemoveAt(s, i) \in Seq(Anchors!Lines) /\ AllKnown(Anchors!RemoveAt(s, i))
               /\ [s EXCEPT ![i].how = FALSE, ![i].id = 0] \in Seq(Anchors!Lines)
               /\ AllKnown([s EXCEPT ![i].how = FALSE, ![i].id = 0])
    <2>1. /\ i \in 1 .. Len(s) /\ i + 1 \in 1 .. (Len(s) + 1) /\ i - 1 \in 0 .. Len(s)
          /\ Len(s) \in 0 .. Len(s) /\ 1 \in 1 .. (Len(s) + 1)
      BY <1>1
    <2>2. /\ SubSeq(s, 1, i - 1) \in Seq(Anchors!Lines) /\ AllKnown(SubSeq(s, 1, i - 1))
          /\ SubSeq(s, i + 1, Len(s)) \in Seq(Anchors!Lines) /\ AllKnown(SubSeq(s, i + 1, Len(s)))
      BY <2>1, KnownParts
    <2>3. /\ Anchors!RemoveAt(s, i) \in Seq(Anchors!Lines)
          /\ AllKnown(Anchors!RemoveAt(s, i))
      BY <2>2, KnownParts DEF Anchors!RemoveAt
    <2> DEFINE e == [s[i] EXCEPT !.how = FALSE, !.id = 0]
               t == [s EXCEPT ![i] = e]
    <2>4. e \in Anchors!Lines /\ e.id = 0
      BY <1>1, <2>1 DEF Anchors!Lines
    <2>5. [s EXCEPT ![i].how = FALSE, ![i].id = 0] = t
      <3>1. s[i] = [id |-> s[i].id, body |-> s[i].body, how |-> s[i].how]
        BY <1>1, <2>1 DEF Anchors!Lines
      <3>2. s \in [1 .. Len(s) -> Anchors!Lines]
        OBVIOUS
      <3> QED BY <2>1, <3>1, <3>2
    <2> HIDE DEF e
    <2>6. t \in Seq(Anchors!Lines) /\ AllKnown(t)
      BY <1>1, <2>1, <2>4, ExceptSeq DEF AllKnown, Known
    <2> QED BY <2>3, <2>5, <2>6
  <1> QED BY <1>2, <1>3

\* A capture keeps the invariant.
LEMMA FileStep ==
  ASSUME AnchorsInv, NEW meta \in Metas, NEW named \in BOOLEAN, NEW answered \in BOOLEAN,
         Anchors!File(meta, named, answered)
  PROVE  AnchorsInv'
  <1>1. /\ UNCHANGED <<text, moves, head, resolution>> /\ anchor' = Anchors!Capture(meta, answered)
        /\ resolution.at \notin {"context", "gated", "blamed", "searching", "found"}
    BY DEF Anchors!File, AnchorsInv
  <1>2. /\ anchor' \in [skipped : Anchors!Refusals \cup {"none"}, line : Nat, end : Nat]
        /\ anchor'.skipped = "none" => Anchored(anchor')
    BY <1>1, CaptureAnchors DEF AnchorsInv, AnchorsTypes
  <1>3. anchor' \in [skipped : Anchors!Refusals \cup {"none", "unfiled"}, line : Nat, end : Nat]
    BY <1>2
  <1>4. AnchorsTypes'
    BY <1>1, <1>3 DEF AnchorsInv, AnchorsTypes
  <1>5. Still'
    BY <1>1 DEF Still
  <1> QED BY <1>1, <1>2, <1>4, <1>5 DEF AnchorsInv, AllKnown, Known, Anchored

\* So does a move of HEAD; what was verified was so at a HEAD since.
LEMMA HeadStep ==
  ASSUME AnchorsInv, NEW tree \in Anchors!Heads, Anchors!MoveHead(tree),
         AllKnown(tree.recorded), AllKnown(tree.other)
  PROVE  AnchorsInv'
  <1>1. /\ Len(moves) < MaxMoves /\ head' = tree /\ moves' = Append(moves, head)
        /\ UNCHANGED <<text, anchor, resolution>>
    BY DEF Anchors!MoveHead
  <1>2. /\ moves \in Seq(Anchors!Heads) /\ head \in Anchors!Heads /\ MaxMoves \in Nat
        /\ resolution \in Resolutions /\ resolution.version <= Len(moves) /\ resolution.looked <= Len(moves)
    BY PartsAssumption DEF AnchorsInv, AnchorsTypes, PartsAssumption, Anchors!AnchorsAssumption
  <1>3. /\ moves' \in Seq(Anchors!Heads) /\ Len(moves') = Len(moves) + 1 /\ Len(moves) \in Nat
        /\ resolution.version \in Nat /\ resolution.looked \in Nat
    BY <1>1, <1>2 DEF Resolutions
  <1>4. /\ Len(moves') <= MaxMoves /\ resolution.version < Len(moves') /\ resolution.looked < Len(moves')
    BY <1>1, <1>2, <1>3
  <1>5. AnchorsTypes'
    BY <1>1, <1>3, <1>4 DEF AnchorsInv, AnchorsTypes
  <1>6. AllKnown(text)' /\ AllKnown(head.recorded)' /\ AllKnown(head.other)'
    BY <1>1 DEF AnchorsInv, AllKnown, Known
  <1>7. (resolution.at = "blamed" => Verifying)'
    <2> SUFFICES ASSUME resolution.at = "blamed" PROVE Verifying'
      BY <1>1
    <2>1. Verifying
      BY DEF AnchorsInv
    <2>2. ASSUME NEW f \in resolution.checked
          PROVE  \E v \in resolution.version .. Len(moves') :
                   Anchors!Verified(resolution.alive, f, Anchors!Tree(v)')
      <3>1. PICK v \in resolution.version .. Len(moves) :
              Anchors!Verified(resolution.alive, f, Anchors!Tree(v))
        BY <2>1 DEF Verifying
      <3>2. v \in 0 .. Len(moves) /\ v \in resolution.version .. Len(moves')
        BY <1>3
      <3>3. Anchors!Tree(v)' = Anchors!Tree(v)
        BY <1>1, <3>2, TreesStay
      <3> QED BY <3>1, <3>2, <3>3
    <2>3. Verifying' <=>
            /\ \A e \in resolution.alive : e.src \in Anchors!Span
            /\ \E e \in resolution.alive : e.path \notin resolution.checked
            /\ \A f \in resolution.checked :
                 \E v \in resolution.version .. Len(moves') :
                   Anchors!Verified(resolution.alive, f, Anchors!Tree(v)')
      BY <1>1 DEF Verifying, Anchors!Span, Anchors!Verified, Anchors!Text
    <2> QED BY <2>1, <2>2, <2>3 DEF Verifying
  <1>8. resolution.version # Len(moves')
    BY <1>3, <1>4
  <1> QED BY <1>1, <1>5, <1>6, <1>7, <1>8 DEF AnchorsInv, Anchored

\* What a commit makes of a tree.
LEMMA TreeChanges ==
  ASSUME NEW tree \in Anchors!Heads
  PROVE  /\ \A r : [tree EXCEPT !.recorded = r] = [recorded |-> r, other |-> tree.other, past |-> tree.past]
         /\ \A o : [tree EXCEPT !.other = o] = [recorded |-> tree.recorded, other |-> o, past |-> tree.past]
         /\ \A p : [tree EXCEPT !.past = p] = [recorded |-> tree.recorded, other |-> tree.other, past |-> p]
  BY DEF Anchors!Heads

\* An edit of a file keeps it.
LEMMA AnchorsEditStep ==
  ASSUME AnchorsInv, NEW f \in Anchors!Files, NEW body \in Bodies, NEW i \in 1 .. (Len(head[f]) + 1),
         Anchors!Edit(f, i, body)
  PROVE  AnchorsInv'
  <1> DEFINE e == [id |-> 0, body |-> body, how |-> TRUE]
  <1>1. PICK new \in {Anchors!InsertAt(head[f], i, e)} \cup
                    (IF i \in DOMAIN head[f]
                     THEN {Anchors!RemoveAt(head[f], i), [head[f] EXCEPT ![i].how = FALSE, ![i].id = 0]}
                     ELSE {}) :
          Anchors!MoveHead([head EXCEPT ![f] = new])
    BY DEF Anchors!Edit
  <1>2. /\ head \in Anchors!Heads /\ head[f] \in Seq(Anchors!Lines) /\ AllKnown(head[f])
        /\ f \in {"recorded", "other"} /\ AllKnown(head.recorded) /\ AllKnown(head.other)
    BY DEF AnchorsInv, AnchorsTypes, Anchors!Files, Anchors!Heads
  <1>3. e \in Anchors!Lines /\ Known(e)
    BY DEF Anchors!Lines, Known
  <1>4. new \in Seq(Anchors!Lines) /\ AllKnown(new)
    <2> HIDE DEF e
    <2>1. Anchors!InsertAt(head[f], i, e) \in Seq(Anchors!Lines) /\ AllKnown(Anchors!InsertAt(head[f], i, e))
      BY <1>2, <1>3, KnownEdits
    <2>2. i \in DOMAIN head[f] =>
            /\ Anchors!RemoveAt(head[f], i) \in Seq(Anchors!Lines) /\ AllKnown(Anchors!RemoveAt(head[f], i))
            /\ [head[f] EXCEPT ![i].how = FALSE, ![i].id = 0] \in Seq(Anchors!Lines)
            /\ AllKnown([head[f] EXCEPT ![i].how = FALSE, ![i].id = 0])
      BY <1>2, KnownEdits
    <2> QED BY <1>1, <2>1, <2>2
  <1> DEFINE tree == [head EXCEPT ![f] = new]
  <1>5. tree = [recorded |-> IF f = "recorded" THEN new ELSE head.recorded,
                other |-> IF f = "other" THEN new ELSE head.other, past |-> head.past]
    <2>1. CASE f = "recorded"
      BY <1>2, <2>1, TreeChanges
    <2>2. CASE f = "other"
      BY <1>2, <2>2, TreeChanges
    <2> QED BY <1>2, <2>1, <2>2
  <1>6. tree \in Anchors!Heads /\ AllKnown(tree.recorded) /\ AllKnown(tree.other)
    BY <1>2, <1>4, <1>5 DEF Anchors!Heads
  <1> HIDE DEF tree
  <1> QED BY <1>1, <1>6, HeadStep DEF tree

\* A line that moves to the other file keeps it.
LEMMA MoveAwayStep ==
  ASSUME AnchorsInv, NEW i \in DOMAIN head.recorded, Anchors!MoveAway(i)
  PROVE  AnchorsInv'
  <1>1. /\ head \in Anchors!Heads /\ head.recorded \in Seq(Anchors!Lines) /\ head.other \in Seq(Anchors!Lines)
        /\ AllKnown(head.recorded) /\ AllKnown(head.other)
    BY DEF AnchorsInv, AnchorsTypes, Anchors!Heads
  <1> DEFINE tree == [recorded |-> Anchors!RemoveAt(head.recorded, i),
                      other |-> Append(head.other, head.recorded[i]), past |-> head.past]
  <1>3. head.recorded[i] \in Anchors!Lines /\ Known(head.recorded[i])
    BY <1>1 DEF AllKnown
  <1>4. /\ Anchors!RemoveAt(head.recorded, i) \in Seq(Anchors!Lines)
        /\ AllKnown(Anchors!RemoveAt(head.recorded, i))
    BY <1>1, KnownEdits
  <1>5. Append(head.other, head.recorded[i]) \in Seq(Anchors!Lines) /\ AllKnown(Append(head.other, head.recorded[i]))
    <2>1. 1 \in 1 .. (Len(head.other) + 1)
      BY <1>1
    <2> QED BY <1>1, <1>3, <2>1, KnownEdits
  <1>6. tree \in Anchors!Heads /\ AllKnown(tree.recorded) /\ AllKnown(tree.other)
    BY <1>1, <1>4, <1>5 DEF Anchors!Heads
  <1>7. Anchors!MoveHead(tree)
    BY DEF Anchors!MoveAway
  <1> HIDE DEF tree
  <1> QED BY <1>6, <1>7, HeadStep

\* And so do a merge and a rewriting of history, which leave the files alone.
LEMMA GraphStep ==
  ASSUME AnchorsInv, NEW p \in {"ancestor", "gone"}, Anchors!MoveHead([head EXCEPT !.past = p])
  PROVE  AnchorsInv'
  <1> DEFINE tree == [head EXCEPT !.past = p]
  <1>1. head \in Anchors!Heads
    BY DEF AnchorsInv, AnchorsTypes
  <1>2. tree = [recorded |-> head.recorded, other |-> head.other, past |-> p]
    BY <1>1, TreeChanges
  <1>3. tree \in Anchors!Heads /\ tree.recorded = head.recorded /\ tree.other = head.other
    BY <1>1, <1>2 DEF Anchors!Heads
  <1>4. AllKnown(tree.recorded) /\ AllKnown(tree.other)
    BY <1>3 DEF AnchorsInv
  <1>5. Anchors!MoveHead(tree)
    OBVIOUS
  <1> HIDE DEF tree
  <1> QED BY <1>3, <1>4, <1>5, HeadStep

\* A resolution goes on, in a world that stands still.
LEMMA ResolutionStep ==
  ASSUME AnchorsInv, UNCHANGED <<text, moves, head, anchor>>, resolution' \in Resolutions,
         resolution'.version <= Len(moves), resolution'.looked <= Len(moves),
         resolution'.at \in {"context", "gated", "blamed", "searching", "found"} => anchor.skipped = "none",
         resolution'.version = Len(moves) => Still',
         resolution'.at \in {"context", "gated"} => resolution'.checked = {},
         resolution'.at = "blamed" => Verifying',
         resolution'.at = "found" => resolution'.version <= resolution'.looked
  PROVE  AnchorsInv'
  <1>1. AnchorsTypes'
    BY DEF AnchorsInv, AnchorsTypes
  <1> QED BY <1>1 DEF AnchorsInv, AllKnown, Known, Anchored

\* The span of an anchor is part of the text.
LEMMA SpanIsInText ==
  ASSUME AnchorsInv, anchor.skipped = "none"
  PROVE  /\ Anchors!Span \subseteq DOMAIN text /\ Anchors!Span \subseteq Nat /\ anchor.line \in Anchors!Span
         /\ \A src \in Anchors!Span : src # 0
         /\ Cardinality(Anchors!Span) = anchor.end - anchor.line + 1 /\ IsFiniteSet(Anchors!Span)
         /\ anchor.line \in Nat /\ anchor.end \in Nat /\ anchor.line <= anchor.end
  <1>1. /\ anchor.line \in Nat /\ anchor.end \in Nat /\ 1 <= anchor.line /\ anchor.line <= anchor.end
        /\ anchor.end <= Len(text) /\ DOMAIN text = 1 .. Len(text) /\ Len(text) \in Nat
    BY DEF AnchorsInv, AnchorsTypes, Anchored
  <1>2. Anchors!Span = anchor.line .. anchor.end
    BY DEF Anchors!Span
  <1>3. Cardinality(Anchors!Span) = anchor.end - anchor.line + 1 /\ IsFiniteSet(Anchors!Span)
    <2>1. anchor.line \in Int /\ anchor.end \in Int /\ ~(anchor.line > anchor.end)
      BY <1>1
    <2> QED BY <1>2, <2>1, FS_Interval
  <1> QED BY <1>1, <1>2, <1>3

-----------------------------------------------------------------------------
(* The two channels. *)

\* A status that comes with a coordinate.
Located == {"current", "moved", "moved_file"}

\* The first of some lines of the span is one of them.
LEMMA FirstIsOne ==
  ASSUME NEW lines \in SUBSET Traced, lines # {}
  PROVE  Anchors!First(lines) \in lines
  <1> DEFINE srcs == {e.src : e \in lines}
  <1>1. srcs \in SUBSET Nat /\ srcs # {}
    BY DEF Traced
  <1>2. PICK n \in srcs : \A m \in srcs : n <= m
    <2> HIDE DEF srcs
    <2> QED BY <1>1, LeastExists
  <1>3. PICK e \in lines : n = e.src
    BY <1>2
  <1>4. \A o \in lines : e.src <= o.src
    BY <1>2, <1>3
  <1> QED BY <1>4 DEF Anchors!First

\* Channel A: a coordinate is that of a line of the span, where its file was verified.
LEMMA ChannelATells ==
  ASSUME NEW alive \in SUBSET Traced, alive # {}, \A e \in alive : e.src \in Anchors!Span,
         NEW tree \in Anchors!Heads, Anchors!Verified(alive, Anchors!First(alive).path, tree)
  PROVE  LET a == Anchors!ChannelA(alive) IN
         /\ a \in Records /\ a.status \in Located /\ Anchors!HoldsIn(a, tree)
         /\ \E e \in alive : e.path = a.path /\ e.line = a.line
         /\ a.status = "current" <=> a.path = "recorded" /\ a.line = anchor.line
  <1> DEFINE first == Anchors!First(alive)
             here == {e.line : e \in {o \in alive : o.path = first.path}}
             a == Anchors!ChannelA(alive)
             n == Len(tree[first.path])
  <1>1. first \in alive
    BY FirstIsOne
  <1>2. first.path \in {"recorded", "other"}
    BY <1>1 DEF Traced, Anchors!Files
  <1>3. a = Anchors!Record(IF first.path # "recorded" THEN "moved_file"
                           ELSE IF Anchors!Min(here) # anchor.line THEN "moved" ELSE "current",
                           first.path, Anchors!Min(here), Anchors!Max(here))
    BY DEF Anchors!ChannelA
  <1>4. n \in Nat /\ DOMAIN tree[first.path] = 1 .. n
    BY <1>2 DEF Anchors!Heads
  <1>5. here \subseteq 1 .. n /\ here # {}
    <2>1. \A e \in alive : e.path = first.path => e.line \in DOMAIN tree[first.path]
      BY DEF Anchors!Verified
    <2> QED BY <1>1, <1>4, <2>1
  <1> HIDE DEF first
  <1>6. \A k \in here : \E e \in alive : e.path = first.path /\ e.line = k
    OBVIOUS
  <1> HIDE DEF here, n
  <1>7. Anchors!Min(here) \in here
    <2>1. here \in SUBSET Nat
      BY <1>4, <1>5
    <2> QED BY <1>5, <2>1, MinIsLeast
  <1>8. Anchors!Max(here) \in here
    <2>1. here \in SUBSET (0 .. n)
      BY <1>4, <1>5
    <2> QED BY <1>4, <1>5, <2>1, MaxIsGreatest
  <1>9. /\ a.path = first.path /\ a.line = Anchors!Min(here) /\ a.end = Anchors!Max(here)
        /\ a.status = IF first.path # "recorded" THEN "moved_file"
                      ELSE IF Anchors!Min(here) # anchor.line THEN "moved" ELSE "current"
        /\ a = [status |-> a.status, path |-> a.path, line |-> a.line, end |-> a.end]
    BY <1>3 DEF Anchors!Record
  <1> HIDE DEF a
  <1>10. a \in Records /\ a.status \in Located
    <2>1. a.line \in Nat /\ a.end \in Nat
      BY <1>4, <1>5, <1>7, <1>8, <1>9
    <2>2. a.status \in Anchors!Statuses /\ a.status \in Located /\ a.path \in Anchors!Files
      BY <1>2, <1>9 DEF Anchors!Statuses, Anchors!Files, Located
    <2> QED BY <1>9, <2>1, <2>2 DEF Records
  <1>11. a.end \in DOMAIN tree[a.path]
    BY <1>4, <1>5, <1>8, <1>9
  <1>12. PICK e \in alive : e.path = a.path /\ e.line = a.line
    BY <1>6, <1>7, <1>9
  <1>13. Anchors!SameText(tree[a.path][a.line], text[e.src])
    BY <1>9, <1>12 DEF Anchors!Verified, Anchors!Text, first
  <1>14. Anchors!HoldsIn(a, tree)
    BY <1>11, <1>12, <1>13 DEF Anchors!HoldsIn, Anchors!Text, Anchors!SameText
  <1> QED BY <1>9, <1>10, <1>12, <1>14 DEF a

\* Channel B: a hit is a coordinate of the text of the span where it looked.
LEMMA ChannelBTells ==
  ASSUME AnchorsInv, anchor.skipped = "none", NEW tree \in Anchors!Heads,
         NEW i \in Anchors!Hits(tree.recorded)
  PROVE  LET b == Anchors!Hit(i) IN
         /\ b \in Records /\ b.status \in Located /\ Anchors!HoldsIn(b, tree)
         /\ b.status = "current" <=> b.path = "recorded" /\ b.line = anchor.line
  <1> DEFINE n == Anchors!Cardinality(Anchors!Span)
             b == Anchors!Hit(i)
  <1>1. n = anchor.end - anchor.line + 1
    BY SpanIsInText DEF Anchors!Cardinality, Cardinality
  <1>2. n \in Nat /\ n >= 1
    BY <1>1, SpanIsInText
  <1>3. Len(tree.recorded) \in Nat /\ DOMAIN tree.recorded = 1 .. Len(tree.recorded)
    BY DEF Anchors!Heads
  <1>4. /\ i \in 1 .. Len(tree.recorded) /\ i + n - 1 <= Len(tree.recorded)
        /\ \A k \in 0 .. (n - 1) : tree.recorded[i + k].body = Anchors!Text(anchor.line + k).body
    BY <1>3 DEF Anchors!Hits
  <1>5. /\ b.path = "recorded" /\ b.line = i /\ b.end = i + n - 1
        /\ b.status = (IF i = anchor.line THEN "current" ELSE "moved")
        /\ b = [status |-> b.status, path |-> b.path, line |-> b.line, end |-> b.end]
    BY DEF Anchors!Hit, Anchors!Record
  <1> HIDE DEF n, b
  <1>6. tree.recorded[i].body = text[anchor.line].body
    <2>1. 0 \in 0 .. (n - 1) /\ i + 0 = i /\ anchor.line + 0 = anchor.line
      BY <1>2, <1>4, SpanIsInText
    <2> QED BY <1>4, <2>1 DEF Anchors!Text
  <1>7. i + n - 1 \in 1 .. Len(tree.recorded) /\ i \in Nat /\ i + n - 1 \in Nat
    BY <1>2, <1>3, <1>4
  <1>8. b \in Records /\ b.status \in Located
    <2>1. b.status \in Anchors!Statuses /\ b.status \in Located /\ b.path \in Anchors!Files
      BY <1>5 DEF Anchors!Statuses, Anchors!Files, Located
    <2> QED BY <1>5, <1>7, <2>1 DEF Records
  <1>9. Anchors!HoldsIn(b, tree)
    <2>1. anchor.line \in Anchors!Span
      BY SpanIsInText
    <2> QED BY <1>3, <1>5, <1>6, <1>7, <2>1 DEF Anchors!HoldsIn, Anchors!Text
  <1> QED BY <1>5, <1>8, <1>9 DEF b

-----------------------------------------------------------------------------
(* The steps of a resolution. *)

\* What blame finds in a tree are lines of the span.
LEMMA PlacedLines ==
  ASSUME AnchorsInv, anchor.skipped = "none", NEW tree \in Anchors!Heads
  PROVE  Anchors!Placed(tree) \in SUBSET Traced /\ \A e \in Anchors!Placed(tree) : e.src \in Anchors!Span
  <1>1. Len(tree.recorded) \in Nat /\ Len(tree.other) \in Nat
    BY DEF Anchors!Heads
  <1>2. Anchors!Span \subseteq Nat
    BY SpanIsInText
  <1>3. 1 .. (Len(tree.recorded) + Len(tree.other)) \subseteq Nat
    BY <1>1, SumRange
  <1>4. [src : Anchors!Span, path : Anchors!Files, line : 1 .. (Len(tree.recorded) + Len(tree.other))]
          \subseteq Traced
    BY <1>2, <1>3 DEF Traced
  <1> QED BY <1>4 DEF Anchors!Placed

\* Those that are left at HEAD are all of them, and have their text.
LEMMA LeftIsAlive ==
  ASSUME AnchorsInv, anchor.skipped = "none"
  PROVE  /\ Left = {} <=> Anchors!Alive = {}
         /\ \A e \in Left : head[e.path][e.line].id \in Anchors!Alive
         /\ \A f \in Anchors!Files : Anchors!Verified(Left, f, head)
  <1>1. /\ Len(head.recorded) \in Nat /\ DOMAIN head.recorded = 1 .. Len(head.recorded)
        /\ Len(head.other) \in Nat /\ DOMAIN head.other = 1 .. Len(head.other)
        /\ AllKnown(head.recorded) /\ AllKnown(head.other)
    BY DEF AnchorsInv, AnchorsTypes, Anchors!Heads
  <1>2. ASSUME NEW id \in Anchors!Span, NEW f \in Anchors!Files, NEW n \in DOMAIN head[f], head[f][n].id = id
        PROVE  [src |-> id, path |-> f, line |-> n] \in Left
    <2>1. f \in {"recorded", "other"}
      BY DEF Anchors!Files
    <2>2. n \in 1 .. (Len(head.recorded) + Len(head.other))
      <3>1. n \in 1 .. Len(head.recorded) \/ n \in 1 .. Len(head.other)
        BY <1>1, <1>2, <2>1
      <3> QED BY <1>1, <3>1, SumRange
    <2> QED BY <1>2, <2>2 DEF Left, Anchors!Placed
  <1>3. \A e \in Left : /\ e.src \in Anchors!Span /\ e.path \in {"recorded", "other"}
                       /\ e.line \in DOMAIN head[e.path] /\ head[e.path][e.line].id = e.src
    BY DEF Left, Anchors!Placed, Anchors!Files
  <1>4. \A e \in Left : head[e.path][e.line].id \in Anchors!Alive /\ e.src \in Anchors!Alive
    BY <1>3 DEF Anchors!Alive, Anchors!Files
  <1>5. Left = {} <=> Anchors!Alive = {}
    BY <1>2, <1>4 DEF Anchors!Alive
  <1>6. ASSUME NEW e \in Left PROVE Anchors!SameText(head[e.path][e.line], text[e.src])
    <2>1. Known(head[e.path][e.line])
      BY <1>1, <1>3 DEF AllKnown
    <2>2. e.src # 0
      BY <1>3, SpanIsInText
    <2> QED BY <1>3, <2>1, <2>2 DEF Known
  <1>7. \A f \in Anchors!Files : Anchors!Verified(Left, f, head)
    BY <1>3, <1>6 DEF Anchors!Verified, Anchors!Text
  <1> QED BY <1>4, <1>5, <1>7

\* What an honest answer is.
Honest(said) ==
  /\ said \in Records
  /\ said.status \in Located =>
       /\ \E v \in resolution.version .. Len(moves) : Anchors!HoldsIn(said, Anchors!Tree(v))
       /\ said.status = "current" <=> said.path = "recorded" /\ said.line = anchor.line
  /\ resolution.version = Len(moves) =>
       /\ said.status = "lost" => Anchors!Alive = {}
       /\ resolution.ran /\ Anchors!Alive # {} /\ said.status \in Located =>
            head[said.path][said.line].id \in Anchors!Alive

\* To know nothing, or too much, is honest.
LEMMA UnknownIsHonest ==
  Honest(Anchors!Unknown) /\ Honest(Anchors!Record("ambiguous", "recorded", 0, 0))
  BY DEF Honest, Records, Located, Anchors!Unknown, Anchors!Record, Anchors!Statuses, Anchors!Files

\* An answer ends the resolution, and keeps the invariant.
LEMMA AnswersStep ==
  ASSUME AnchorsInv, UNCHANGED <<text, moves, head, anchor>>, NEW r \in Records, Anchors!Answers(r)
  PROVE  AnchorsInv' /\ resolution'.answer = r
  <1>1. resolution' = [Anchors!Idle EXCEPT !.at = "done", !.version = resolution.version, !.answer = r]
    BY DEF Anchors!Answers
  <1>2. resolution \in Resolutions /\ resolution.version <= Len(moves) /\ Len(moves) \in Nat
    BY DEF AnchorsInv, AnchorsTypes
  <1>3. /\ resolution' \in Resolutions /\ resolution'.at = "done" /\ resolution'.looked = 0
        /\ resolution'.version = resolution.version /\ resolution'.answer = r
    BY <1>1, <1>2 DEF Anchors!Idle, Resolutions
  <1>4. Still'
    BY <1>3 DEF Still
  <1> QED BY <1>2, <1>3, <1>4, ResolutionStep

\* Each step of a resolution gives an honest answer, or goes on in the invariant.
Continues == AnchorsInv' /\ resolution'.at # "done"
Advances == (\E r : Honest(r) /\ Anchors!Answers(r)) \/ Continues

\* HEAD is read.
LEMMA ContextStep == AnchorsInv /\ Anchors!Context => Continues
  <1> SUFFICES ASSUME AnchorsInv, Anchors!Context PROVE Continues
    OBVIOUS
  <1>1. /\ UNCHANGED <<text, moves, head, anchor>> /\ anchor.skipped = "none"
        /\ resolution' = [Anchors!Idle EXCEPT !.at = "context", !.version = Len(moves)]
    BY DEF Anchors!Context
  <1>2. Len(moves) \in Nat
    BY DEF AnchorsInv, AnchorsTypes
  <1>3. /\ resolution' \in Resolutions /\ resolution'.at = "context" /\ resolution'.looked = 0
        /\ resolution'.version = Len(moves) /\ resolution'.checked = {}
    BY <1>1, <1>2
       DEF Anchors!Idle, Resolutions, Records, Anchors!Statuses, Anchors!Files
  <1>4. Still'
    BY <1>3 DEF Still
  <1> QED BY <1>1, <1>2, <1>3, <1>4, ResolutionStep DEF Continues

\* The gate is passed or not.
LEMMA GateStep == AnchorsInv /\ Anchors!Gate => Advances
  <1> SUFFICES ASSUME AnchorsInv, Anchors!Gate PROVE Advances
    OBVIOUS
  <1>1. UNCHANGED <<text, moves, head, anchor>> /\ resolution.at = "context"
    BY DEF Anchors!Gate
  <1>2. CASE Anchors!Answers(Anchors!Unknown)
    BY <1>2, UnknownIsHonest DEF Advances
  <1>3. CASE head.past = "ancestor" /\ resolution' = [resolution EXCEPT !.at = "gated"]
    <2>1. /\ resolution \in Resolutions /\ resolution.version <= Len(moves) /\ resolution.looked <= Len(moves)
          /\ anchor.skipped = "none" /\ resolution.checked = {}
      BY <1>1 DEF AnchorsInv, AnchorsTypes
    <2>2. /\ resolution' \in Resolutions /\ resolution'.at = "gated" /\ resolution'.checked = {}
          /\ resolution'.version = resolution.version /\ resolution'.looked = resolution.looked
      BY <1>3, <2>1 DEF Resolutions
    <2>3. Still'
      BY <1>1, <1>3, <2>2 DEF Still
    <2> QED BY <1>1, <2>1, <2>2, <2>3, ResolutionStep DEF Advances, Continues
  <1> QED BY <1>2, <1>3 DEF Anchors!Gate, Anchors!IsAncestor

\* Blame finds what is left at the HEAD that was read, if that is HEAD still.
LEMMA TraceStep == AnchorsInv /\ Anchors!Trace => Continues
  <1> SUFFICES ASSUME AnchorsInv, Anchors!Trace PROVE Continues
    OBVIOUS
  <1>1. PICK ran \in BOOLEAN :
          LET alive == IF ran THEN Anchors!Blame ELSE {} IN
          resolution' = [resolution EXCEPT !.at = IF alive = {} THEN "searching" ELSE "blamed",
                                           !.ran = ran, !.alive = alive]
    BY DEF Anchors!Trace
  <1> DEFINE alive == IF ran THEN Anchors!Blame ELSE {}
             read == Anchors!Tree(resolution.version)
  <1>2. /\ UNCHANGED <<text, moves, head, anchor>> /\ anchor.skipped = "none" /\ resolution.at = "gated"
        /\ resolution \in Resolutions /\ resolution.version \in 0 .. Len(moves)
        /\ resolution.looked <= Len(moves) /\ Len(moves) \in Nat
        /\ resolution.version <= Len(moves)
    BY DEF Anchors!Trace, AnchorsInv, AnchorsTypes, Resolutions
  <1>3. read \in Anchors!Heads /\ (resolution.version = Len(moves) => read = head)
    BY <1>2, TreesStay
  <1>4. Anchors!Blame \subseteq Anchors!Placed(read)
    BY DEF Anchors!Blame
  <1>5. resolution.version = Len(moves) => Anchors!Blame = Left
    <2> SUFFICES ASSUME resolution.version = Len(moves) PROVE Anchors!Blame = Left
      OBVIOUS
    <2>1. head.past = "ancestor" /\ read = head
      BY <1>2, <1>3 DEF AnchorsInv, Still
    <2> QED BY <2>1 DEF Anchors!Blame, Left
  <1>6. alive \in SUBSET Traced /\ \A e \in alive : e.src \in Anchors!Span
    <2> HIDE DEF read
    <2> QED BY <1>2, <1>3, <1>4, PlacedLines
  <1>7. ran => alive = Anchors!Blame
    OBVIOUS
  <1>8. ~ran => alive = {}
    OBVIOUS
  <1>9. resolution' = [resolution EXCEPT !.at = IF alive = {} THEN "searching" ELSE "blamed",
                                         !.ran = ran, !.alive = alive]
    BY <1>1
  <1> HIDE DEF alive, read
  <1>10. /\ resolution' \in Resolutions /\ resolution'.at = (IF alive = {} THEN "searching" ELSE "blamed")
         /\ resolution'.version = resolution.version /\ resolution'.looked = resolution.looked
         /\ resolution'.ran = ran /\ resolution'.alive = alive /\ resolution'.checked = resolution.checked
    BY <1>2, <1>6, <1>9 DEF Resolutions
  <1>11. resolution'.version = Len(moves) => Still'
    <2> SUFFICES ASSUME resolution'.version = Len(moves) PROVE Still'
      OBVIOUS
    <2>1. Left' = Left
      BY <1>2 DEF Left, Anchors!Placed, Anchors!Span
    <2>2. ran => alive = Left
      BY <1>5, <1>7, <1>10
    <2> QED BY <1>8, <1>10, <2>1, <2>2 DEF Still
  <1>12. resolution.checked = {}
    BY <1>2 DEF AnchorsInv
  <1>13. resolution'.at = "blamed" => Verifying'
    <2> SUFFICES ASSUME alive # {} PROVE Verifying'
      BY <1>10
    <2>1. Anchors!Span' = Anchors!Span
      BY <1>2 DEF Anchors!Span
    <2> QED BY <1>6, <1>10, <1>12, <2>1 DEF Verifying
  <1> QED BY <1>2, <1>10, <1>11, <1>13, ResolutionStep DEF Continues

\* A file is verified; after the last one the coordinate held where its file was read.
LEMMA ReadBlobStep == AnchorsInv /\ Anchors!ReadBlob => Advances
  <1> SUFFICES ASSUME AnchorsInv, Anchors!ReadBlob PROVE Advances
    OBVIOUS
  <1> DEFINE alive == resolution.alive
             left == {e \in alive : e.path \notin resolution.checked}
             path == Anchors!First(left).path
             checked == resolution.checked \cup {path}
  <1>1. /\ UNCHANGED <<text, moves, head, anchor>> /\ resolution.at = "blamed" /\ anchor.skipped = "none"
        /\ resolution \in Resolutions /\ Verifying /\ Len(moves) \in Nat /\ head \in Anchors!Heads
        /\ resolution.version <= Len(moves) /\ resolution.looked <= Len(moves) /\ resolution.version \in Nat
    BY DEF Anchors!ReadBlob, AnchorsInv, AnchorsTypes, Resolutions
  <1>2. alive \in SUBSET Traced /\ left \in SUBSET Traced /\ left # {} /\ alive # {}
    BY <1>1 DEF Resolutions, Verifying
  <1>3. path \in Anchors!Files
    <2>1. Anchors!First(left) \in left
      <3> HIDE DEF left
      <3> QED BY <1>2, FirstIsOne
    <2> QED BY <1>2, <2>1 DEF Traced
  <1>4. resolution.version = Len(moves) => alive = Left /\ Anchors!Verified(alive, path, head)
    BY <1>1, <1>3, LeftIsAlive DEF AnchorsInv, Still
  <1>5. PICK read \in BOOLEAN :
          IF ~read \/ ~Anchors!Verified(alive, path, head)
          THEN resolution' = [resolution EXCEPT !.at = "searching", !.ran = read]
          ELSE IF \A e \in alive : e.path \in checked THEN Anchors!Answers(Anchors!ChannelA(alive))
          ELSE resolution' = [resolution EXCEPT !.checked = checked]
    BY DEF Anchors!ReadBlob
  <1> HIDE DEF path
  <1>6. CASE ~read \/ ~Anchors!Verified(alive, path, head)
    <2>1. /\ resolution' \in Resolutions /\ resolution'.at = "searching" /\ resolution'.ran = read
          /\ resolution'.version = resolution.version /\ resolution'.looked = resolution.looked
      BY <1>1, <1>5, <1>6 DEF Resolutions
    <2>2. resolution'.version = Len(moves) => Still'
      BY <1>4, <1>6, <2>1 DEF Still
    <2> QED BY <1>1, <2>1, <2>2, ResolutionStep DEF Advances, Continues
  <1>7. \A f \in checked : Anchors!Verified(alive, path, head) =>
          \E v \in resolution.version .. Len(moves) : Anchors!Verified(alive, f, Anchors!Tree(v))
    <2>1. Len(moves) \in resolution.version .. Len(moves) /\ Anchors!Tree(Len(moves)) = head
      BY <1>1, TreesStay
    <2> QED BY <1>1, <2>1 DEF Verifying
  <1>8. CASE Anchors!Verified(alive, path, head) /\ \A e \in alive : e.path \in checked
    <2> DEFINE a == Anchors!ChannelA(alive)
    <2>1. Anchors!First(alive).path \in checked
      <3> HIDE DEF checked
      <3> QED BY <1>2, <1>8, FirstIsOne
    <2>2. PICK v \in resolution.version .. Len(moves) :
            Anchors!Verified(alive, Anchors!First(alive).path, Anchors!Tree(v))
      BY <1>7, <1>8, <2>1
    <2>3. v \in 0 .. Len(moves)
      BY <1>1
    <2>4. Anchors!Tree(v) \in Anchors!Heads
      BY <2>3, TreesStay
    <2>5. \A e \in alive : e.src \in Anchors!Span
      BY <1>1 DEF Verifying
    <2>6. /\ a \in Records /\ a.status \in Located /\ Anchors!HoldsIn(a, Anchors!Tree(v))
          /\ \E e \in alive : e.path = a.path /\ e.line = a.line
          /\ a.status = "current" <=> a.path = "recorded" /\ a.line = anchor.line
      BY <1>2, <2>2, <2>4, <2>5, ChannelATells
    <2>7. resolution.version = Len(moves) => head[a.path][a.line].id \in Anchors!Alive
      <3> HIDE DEF a
      <3> QED BY <1>1, <1>4, <2>6, LeftIsAlive
    <2>8. a.status # "lost"
      BY <2>6 DEF Located
    <2> HIDE DEF a
    <2>9. Honest(a)
      BY <2>6, <2>7, <2>8 DEF Honest
    <2>10. Anchors!Answers(a) \/ Advances
      BY <1>5, <1>6, <1>8 DEF a
    <2> QED BY <2>9, <2>10 DEF Advances
  <1>9. CASE Anchors!Verified(alive, path, head) /\ ~\A e \in alive : e.path \in checked
    <2>1. read => resolution' = [resolution EXCEPT !.checked = checked]
      BY <1>5, <1>9
    <2>2. CASE read
      <3>1. /\ resolution' \in Resolutions /\ resolution'.at = "blamed"
            /\ resolution'.version = resolution.version /\ resolution'.looked = resolution.looked
            /\ resolution'.alive = alive /\ resolution'.ran = resolution.ran /\ resolution'.checked = checked
        BY <1>1, <1>3, <2>1, <2>2 DEF Resolutions
      <3>2. Left' = Left /\ Anchors!Span' = Anchors!Span
        BY <1>1 DEF Left, Anchors!Placed, Anchors!Span
      <3>3. resolution'.version = Len(moves) => Still'
        BY <1>4, <3>1, <3>2 DEF Still
      <3>4. Verifying'
        <4>1. \A f, v : Anchors!Verified(alive, f, Anchors!Tree(v))' = Anchors!Verified(alive, f, Anchors!Tree(v))
          BY <1>1, <3>1 DEF Anchors!Verified, Anchors!Tree, Anchors!Text
        <4> HIDE DEF checked
        <4> QED BY <1>1, <1>7, <1>9, <3>1, <3>2, <4>1 DEF Verifying
      <3> QED BY <1>1, <3>1, <3>3, <3>4, ResolutionStep DEF Advances, Continues
    <2> QED BY <1>6, <2>2
  <1> QED BY <1>6, <1>8, <1>9

\* A hit in what HEAD was since is honest, if no line was left while a call of
\* channel A had failed or found none.
LEMMA HitIsHonest ==
  ASSUME AnchorsInv, resolution.at \in {"searching", "found"},
         NEW v \in resolution.version .. Len(moves), NEW i \in Anchors!Hits(Anchors!Tree(v).recorded)
  PROVE  Honest(Anchors!Hit(i))
  <1> DEFINE b == Anchors!Hit(i)
  <1>1. /\ anchor.skipped = "none" /\ resolution.version \in Nat /\ Len(moves) \in Nat
        /\ resolution.version <= Len(moves)
    BY DEF AnchorsInv, AnchorsTypes, Resolutions
  <1>2. Anchors!Tree(v) \in Anchors!Heads
    <2>1. v \in 0 .. Len(moves)
      BY <1>1
    <2> QED BY <2>1, TreesStay
  <1>3. /\ b \in Records /\ b.status \in Located /\ Anchors!HoldsIn(b, Anchors!Tree(v))
        /\ b.status = "current" <=> b.path = "recorded" /\ b.line = anchor.line
    BY <1>1, <1>2, ChannelBTells
  <1>4. resolution.version = Len(moves) /\ resolution.ran => Anchors!Alive = {}
    BY <1>1, LeftIsAlive DEF AnchorsInv, Still
  <1>5. b.status # "lost"
    BY <1>3 DEF Located
  <1> HIDE DEF b
  <1>6. Honest(b)
    BY <1>3, <1>4, <1>5 DEF Honest
  <1> QED BY <1>6 DEF b

\* The search at this HEAD.
LEMMA SearchStep == AnchorsInv /\ Anchors!Search => Advances
  <1> SUFFICES ASSUME AnchorsInv, Anchors!Search PROVE Advances
    OBVIOUS
  <1>1. /\ UNCHANGED <<text, moves, head, anchor>> /\ resolution.at = "searching" /\ anchor.skipped = "none"
        /\ resolution \in Resolutions /\ Len(moves) \in Nat
        /\ resolution.version <= Len(moves) /\ resolution.looked <= Len(moves) /\ resolution.version \in Nat
    BY DEF Anchors!Search, AnchorsInv, AnchorsTypes, Resolutions
  <1>2. PICK read \in BOOLEAN : LET hits == IF read THEN Anchors!Hits(head.recorded) ELSE {} IN
          IF Anchors!Cardinality(hits) > 1
          THEN resolution' = [resolution EXCEPT !.at = "found", !.looked = Len(moves)]
          ELSE Anchors!Answers(IF hits = {} THEN Anchors!Refusal ELSE Anchors!Hit(CHOOSE i \in hits : TRUE))
    BY DEF Anchors!Search
  <1> DEFINE hits == IF read THEN Anchors!Hits(head.recorded) ELSE {}
  <1>3. CASE resolution' = [resolution EXCEPT !.at = "found", !.looked = Len(moves)]
    <2>1. /\ resolution' \in Resolutions /\ resolution'.at = "found" /\ resolution'.ran = resolution.ran
          /\ resolution'.version = resolution.version /\ resolution'.looked = Len(moves)
      BY <1>1, <1>3 DEF Resolutions
    <2>2. Left' = Left
      BY <1>1 DEF Left, Anchors!Placed, Anchors!Span
    <2>3. resolution'.version = Len(moves) => Still'
      BY <1>1, <2>1, <2>2 DEF AnchorsInv, Still
    <2> QED BY <1>1, <2>1, <2>3, ResolutionStep DEF Advances, Continues
  <1>4. Honest(Anchors!Refusal)
    <2>1. CASE resolution.ran /\ resolution.alive = {}
      <3>1. resolution.version = Len(moves) => Anchors!Alive = {}
        BY <1>1, <2>1, LeftIsAlive DEF AnchorsInv, Still
      <3>2. Anchors!Refusal = Anchors!Lost
        BY <2>1 DEF Anchors!Refusal
      <3>3. Anchors!Lost \in Records /\ Anchors!Lost.status \notin Located
        BY DEF Anchors!Lost, Anchors!Record, Records, Anchors!Statuses, Anchors!Files, Located
      <3> QED BY <3>1, <3>2, <3>3 DEF Honest
    <2> QED BY <2>1, UnknownIsHonest DEF Anchors!Refusal
  <1>5. \A i \in hits : Honest(Anchors!Hit(i))
    <2>1. Len(moves) \in resolution.version .. Len(moves) /\ Anchors!Tree(Len(moves)) = head
      BY <1>1, TreesStay
    <2> QED BY <1>1, <2>1, HitIsHonest
  <1> HIDE DEF hits
  <1>6. hits # {} => Honest(Anchors!Hit(CHOOSE i \in hits : TRUE))
    BY <1>5
  <1>7. \/ resolution' = [resolution EXCEPT !.at = "found", !.looked = Len(moves)]
        \/ Anchors!Answers(IF hits = {} THEN Anchors!Refusal ELSE Anchors!Hit(CHOOSE i \in hits : TRUE))
    BY <1>2 DEF hits
  <1>8. CASE Anchors!Answers(IF hits = {} THEN Anchors!Refusal ELSE Anchors!Hit(CHOOSE i \in hits : TRUE))
    BY <1>4, <1>6, <1>8 DEF Advances
  <1> QED BY <1>3, <1>7, <1>8

\* The context decides among the hits of the HEAD that was searched.
LEMMA DisambiguateStep == AnchorsInv /\ Anchors!Disambiguate => Advances
  <1> SUFFICES ASSUME AnchorsInv, Anchors!Disambiguate PROVE Advances
    OBVIOUS
  <1> DEFINE lines == Anchors!Tree(resolution.looked).recorded
             hits == Anchors!Hits(lines)
             best == {i \in hits : \A o \in hits : Anchors!Score(lines, o) <= Anchors!Score(lines, i)}
             r(read) == IF read /\ Anchors!Cardinality(best) = 1 THEN Anchors!Hit(CHOOSE i \in best : TRUE)
                        ELSE Anchors!Record("ambiguous", "recorded", 0, 0)
  <1>1. PICK read \in BOOLEAN : Anchors!Answers(r(read))
    BY DEF Anchors!Disambiguate
  <1>2. /\ resolution.at = "found" /\ resolution.looked \in resolution.version .. Len(moves)
    BY DEF Anchors!Disambiguate, AnchorsInv, AnchorsTypes, Resolutions
  <1>3. \A i \in hits : Honest(Anchors!Hit(i))
    BY <1>2, HitIsHonest
  <1>4. \A i \in best : Honest(Anchors!Hit(i))
    BY <1>3
  <1>5. Anchors!Cardinality(best) = 1 => best # {}
    <2>1. Anchors!Cardinality({}) = 0
      BY FS_EmptySet DEF Anchors!Cardinality, Cardinality
    <2> HIDE DEF best
    <2> QED BY <2>1
  <1> HIDE DEF best
  <1>6. Honest(r(read))
    <2>1. CASE read /\ Anchors!Cardinality(best) = 1
      BY <1>4, <1>5, <2>1
    <2> QED BY <2>1, UnknownIsHonest
  <1> QED BY <1>1, <1>6 DEF Advances

\* So a resolution always advances.
LEMMA ResolutionAdvances ==
  ASSUME AnchorsInv,
         \/ Anchors!Gate \/ Anchors!ReadBlob \/ Anchors!Search \/ Anchors!Disambiguate \/ Anchors!TimeOut
  PROVE  Advances /\ UNCHANGED <<text, moves, head, anchor>>
  <1>1. UNCHANGED <<text, moves, head, anchor>>
    BY DEF Anchors!Gate, Anchors!ReadBlob, Anchors!Search, Anchors!Disambiguate, Anchors!TimeOut
  <1>2. Anchors!TimeOut => Advances
    BY UnknownIsHonest DEF Anchors!TimeOut, Advances
  <1> QED BY <1>1, <1>2, GateStep, ReadBlobStep, SearchStep, DisambiguateStep

\* The invariant is one.
LEMMA AnchorsInvariance ==
  /\ Anchors!Init => AnchorsInv
  /\ AnchorsInv /\ [Anchors!Next]_anchorsVars => AnchorsInv'
  <1> SUFFICES ASSUME AnchorsInv, [Anchors!Next]_anchorsVars PROVE AnchorsInv'
    BY AnchorsInit
  <1>1. CASE UNCHANGED anchorsVars
    <2>1. /\ Left' = Left /\ Anchors!Span' = Anchors!Span
          /\ \A f, v, alive : Anchors!Verified(alive, f, Anchors!Tree(v))' = Anchors!Verified(alive, f, Anchors!Tree(v))
      BY <1>1 DEF anchorsVars, Left, Anchors!Placed, Anchors!Span, Anchors!Verified, Anchors!Tree, Anchors!Text
    <2>2. Verifying' = Verifying
      BY <1>1, <2>1 DEF anchorsVars, Verifying
    <2> QED BY <1>1, <2>1, <2>2 DEF anchorsVars, AnchorsInv, AnchorsTypes, AllKnown, Known, Anchored, Still
  <1>2. CASE \/ Anchors!Gate \/ Anchors!ReadBlob \/ Anchors!Search \/ Anchors!Disambiguate \/ Anchors!TimeOut
    <2>1. Advances /\ UNCHANGED <<text, moves, head, anchor>>
      BY <1>2, ResolutionAdvances
    <2>2. CASE \E r : Honest(r) /\ Anchors!Answers(r)
      <3>1. PICK r : r \in Records /\ Anchors!Answers(r)
        BY <2>2 DEF Honest
      <3> QED BY <2>1, <3>1, AnswersStep
    <2> QED BY <2>1, <2>2 DEF Advances, Continues
  <1>3. CASE Anchors!Context \/ Anchors!Trace
    BY <1>3, ContextStep, TraceStep DEF Continues
  <1>5. CASE \E meta \in Metas, named, answered \in BOOLEAN : Anchors!File(meta, named, answered)
    BY <1>5, FileStep
  <1>6. CASE \E f \in Anchors!Files, body \in Bodies : \E i \in 1 .. (Len(head[f]) + 1) : Anchors!Edit(f, i, body)
    BY <1>6, AnchorsEditStep
  <1>7. CASE \E i \in DOMAIN head.recorded : Anchors!MoveAway(i)
    BY <1>7, MoveAwayStep
  <1>4. CASE Anchors!Reset
    <2>1. UNCHANGED <<text, moves, head, anchor>> /\ resolution' = Anchors!Idle
      BY <1>4 DEF Anchors!Reset
    <2>2. /\ resolution' \in Resolutions /\ resolution'.at = "idle"
          /\ resolution'.version = 0 /\ resolution'.looked = 0
      BY <2>1 DEF Anchors!Idle, Resolutions, Records, Anchors!Statuses, Anchors!Files
    <2>3. Still'
      BY <2>2 DEF Still
    <2>4. Len(moves) \in Nat
      BY DEF AnchorsInv, AnchorsTypes
    <2> QED BY <2>1, <2>2, <2>3, <2>4, ResolutionStep
  <1>8. CASE Anchors!MergeBranch
    <2>1. "ancestor" \in {"ancestor", "gone"} /\ Anchors!MoveHead([head EXCEPT !.past = "ancestor"])
      BY <1>8 DEF Anchors!MergeBranch
    <2> QED BY <2>1, GraphStep
  <1>9. CASE Anchors!Rewrite
    <2>1. "gone" \in {"ancestor", "gone"} /\ Anchors!MoveHead([head EXCEPT !.past = "gone"])
      BY <1>9 DEF Anchors!Rewrite
    <2> QED BY <2>1, GraphStep
  <1> QED BY <1>1, <1>2, <1>3, <1>4, <1>5, <1>6, <1>7, <1>8, <1>9 DEF Anchors!Next

\* Every answer is honest.
LEMMA AnswersAreHonest ==
  ASSUME AnchorsInv, Anchors!Next
  PROVE  Anchors!AnswerIsHonest
  <1>1. ASSUME NEW meta \in Metas, NEW answered \in BOOLEAN,
               Anchors!File(meta, TRUE, answered), anchor'.skipped = "none"
        PROVE  \E i \in DOMAIN meta["lines"] :
                 meta["lines"][i].path # "other" /\ anchor'.line = meta["lines"][i].line
    <2>1. Anchors!ParseSites(meta) = meta["lines"] /\ anchor' = Anchors!Capture(meta, answered)
      BY <1>1 DEF Anchors!File, Anchors!NamedInputConflict
    <2>2. text \in Seq(Anchors!Lines)
      BY DEF AnchorsInv, AnchorsTypes
    <2>3. /\ anchor'.line = Anchors!SelectSite(meta["lines"]).line
          /\ Anchors!SelectSite(meta["lines"]).path # Anchors!Nowhere
      BY <1>1, <2>1, <2>2, CaptureAnchors
    <2>4. meta["lines"] \in Seq(Anchors!Sites)
      BY AnchorsConstants
    <2> QED BY <2>3, <2>4, SelectedSite
  <1>2. ASSUME resolution.at # "done", resolution'.at = "done"
        PROVE  Honest(resolution'.answer)
    <2>1. resolution \in Resolutions
      BY DEF AnchorsInv, AnchorsTypes
    <2>2. ~Anchors!Context /\ ~Anchors!Trace
      BY <1>2, ContextStep, TraceStep DEF Continues
    <2>3. \/ Anchors!Gate \/ Anchors!ReadBlob \/ Anchors!Search \/ Anchors!Disambiguate \/ Anchors!TimeOut
      BY <1>2, <2>1, <2>2
         DEF Anchors!Next, Anchors!File, Anchors!Edit, Anchors!MoveAway, Anchors!MergeBranch, Anchors!Rewrite,
             Anchors!MoveHead, Anchors!Reset, Anchors!Idle, Resolutions
    <2>4. Advances /\ UNCHANGED <<text, moves, head, anchor>>
      BY <2>3, ResolutionAdvances
    <2>5. PICK r : Honest(r) /\ Anchors!Answers(r)
      BY <1>2, <2>4 DEF Advances, Continues
    <2>6. r \in Records
      BY <2>5 DEF Honest
    <2> QED BY <2>4, <2>5, <2>6, AnswersStep
  <1> QED BY <1>1, <1>2 DEF Anchors!AnswerIsHonest, Honest, Located

\* And the state is typed.
LEMMA AnchorsAreTyped == AnchorsInv => Anchors!TypeOK
  BY DEF AnchorsInv, AnchorsTypes, Resolutions, Records, Anchors!TypeOK

\* A place of its own is where the anchor goes; whatever HEAD does between the calls
\* of git that an answer is made of (resolve_anchor, loc.py), its coordinate held the
\* anchored text at some HEAD since the resolution began; and while HEAD stands still
\* only what is gone is called lost, and a line that is left is not passed over.
THEOREM AnchorsStayHonest == Spec => AnchorsAreHonest
  <1> DEFINE I == part = "anchors" => AnchorsInv
             A == part = "anchors" => Anchors!AnswerIsHonest
  <1>1. Init => I
    BY AnchorsMove, AnchorsInvariance
  <1>2. I /\ [Next]_vars => I'
    BY AnchorsMove, AnchorsInvariance
  <1>3. I /\ [Next]_vars => [A]_vars
    <2> SUFFICES ASSUME I, Next, part = "anchors" PROVE Anchors!AnswerIsHonest
      BY DEF A
    <2>1. AnchorsInv /\ Anchors!Next
      BY DEF Next
    <2> QED BY <2>1, AnswersAreHonest
  <1> HIDE DEF I, A
  <1>4. Spec => [][A]_vars
    BY <1>1, <1>2, <1>3, PTL DEF Spec
  <1> QED BY <1>4 DEF A, AnchorsAreHonest

-----------------------------------------------------------------------------
(* All parts: their types, and what the searches find. *)

LEMMA GroupingMove ==
  /\ Init => (part = "grouping" => Grouping!Init)
  /\ [Next]_vars => part' = part /\ (part = "grouping" => [Grouping!Next]_groupingVars)
  BY DEF Init, Next, vars, groupingVars

\* What is true of each part while it is the one that moves.
LEMMA DiscoveryIsTyped == Spec => [](part = "discovery" => Discovery!TypeOK)
  <1> DEFINE I == part = "discovery" => Discovery!TypeOK
  <1>1. Init => I
    BY DiscoveryMove, DiscoveryTypes
  <1>2. I /\ [Next]_vars => I'
    BY DiscoveryMove, DiscoveryTypes
  <1> QED BY <1>1, <1>2, PTL DEF Spec

LEMMA RelationsStayTyped == Spec => [](part = "relations" => Relations!TypeOK)
  <1> DEFINE I == part = "relations" => RelationsInv /\ cards \subseteq Related
  <1>1. Init => I
    BY RelationsMove, RelationsInvariance, RelationsAreTyped
  <1>2. I /\ [Next]_vars => I'
    BY RelationsMove, RelationsInvariance, RelationsAreTyped
  <1>3. I => (part = "relations" => Relations!TypeOK)
    BY RelationsTyped
  <1> QED BY <1>1, <1>2, <1>3, PTL DEF Spec

LEMMA ExportsStayTyped == Spec => [](part = "exports" => Exports!TypeOK)
  <1> DEFINE I == part = "exports" => ExportsInv /\ ExportsBounds
  <1>1. Init => I
    BY ExportsMove, ExportsInvariance, ExportsStayBounded
  <1>2. I /\ [Next]_vars => I'
    BY ExportsMove, ExportsInvariance, ExportsStayBounded
  <1>3. I => (part = "exports" => Exports!TypeOK)
    BY ExportsAreTyped
  <1> QED BY <1>1, <1>2, <1>3, PTL DEF Spec

LEMMA ResolversStayTyped == Spec => [](part = "resolvers" => Resolvers!TypeOK)
  <1> DEFINE I == part = "resolvers" => ResolversInv /\ ResolversTypes
  <1>1. Init => I
    BY ResolversMove, ResolversInvariance, ResolversTyped
  <1>2. I /\ [Next]_vars => I'
    BY ResolversMove, ResolversInvariance, ResolversTyped
  <1>3. I => (part = "resolvers" => Resolvers!TypeOK)
    BY ResolversAreTyped
  <1> QED BY <1>1, <1>2, <1>3, PTL DEF Spec

LEMMA AnchorsStayTyped == Spec => [](part = "anchors" => Anchors!TypeOK)
  <1> DEFINE I == part = "anchors" => AnchorsInv
  <1>1. Init => I
    BY AnchorsMove, AnchorsInvariance
  <1>2. I /\ [Next]_vars => I'
    BY AnchorsMove, AnchorsInvariance
  <1>3. I => (part = "anchors" => Anchors!TypeOK)
    BY AnchorsAreTyped
  <1> QED BY <1>1, <1>2, <1>3, PTL DEF Spec

LEMMA RecaptureStaysTyped == Spec => [](part = "recapture" => Recapture!TypeOK)
  <1> DEFINE I == part = "recapture" => RecaptureInv /\ edits \in [Cards -> 0 .. MaxEdits]
  <1>0. Recapture!RecaptureAssumption
    BY PartsAssumption DEF PartsAssumption
  <1>1. Init => I
    BY <1>0, RecaptureMove, RecaptureInit, EditsAreCounted
  <1>2. I /\ [Next]_vars => I'
    BY <1>0, RecaptureMove, RecaptureStep, EditsAreCounted
  <1>3. I => (part = "recapture" => Recapture!TypeOK)
    BY RecaptureIsTyped
  <1> QED BY <1>1, <1>2, <1>3, PTL DEF Spec

LEMMA ProvenanceStaysTyped == Spec => [](part = "provenance" => Provenance!TypeOK)
  <1> DEFINE I == part = "provenance" => ProvenanceInv
  <1>0. Provenance!ProvenanceAssumption
    BY PartsAssumption DEF PartsAssumption
  <1>1. Init => I
    BY <1>0, ProvenanceMove, ProvenanceInvariance
  <1>2. I /\ [Next]_vars => I'
    BY <1>0, ProvenanceMove, ProvenanceInvariance
  <1>3. I => (part = "provenance" => Provenance!TypeOK)
    BY ProvenanceIsTyped
  <1> QED BY <1>1, <1>2, <1>3, PTL DEF Spec

LEMMA BenchStaysTyped == Spec => [](part = "bench" => Bench!TypeOK)
  <1> DEFINE I == part = "bench" => BenchInv
  <1>1. Init => I
    BY BenchMove, BenchInvariance
  <1>2. I /\ [Next]_vars => I'
    BY BenchMove, BenchInvariance
  <1>3. I => (part = "bench" => Bench!TypeOK)
    BY BenchIsTyped
  <1> QED BY <1>1, <1>2, <1>3, PTL DEF Spec

LEMMA TrailersStayTyped == Spec => [](part = "trailers" => Trailers!TypeOK)
  <1>1. (part = "trailers" => TrailersInv) => (part = "trailers" => Trailers!TypeOK)
    BY TrailersAreTyped
  <1> QED BY <1>1, TrailersInvariance, PTL

LEMMA GroupingInvariance == Spec => [](part = "grouping" => GroupingInv)
  <1> DEFINE I == part = "grouping" => GroupingInv
  <1>1. Init => I
    BY GroupingMove, GroupingStarts
  <1>2. I /\ [Next]_vars => I'
    BY GroupingMove, GroupingGoesOn
  <1> QED BY <1>1, <1>2, PTL DEF Spec

LEMMA GroupingIsTyped == Spec => [](part = "grouping" => Grouping!TypeOK)
  <1>1. (part = "grouping" => GroupingInv) => (part = "grouping" => Grouping!TypeOK)
    BY DEF GroupingInv
  <1> QED BY <1>1, GroupingInvariance, PTL

\* The part that moves is of its types: trackers and calls, rows of relations, the
\* savepoints of hooks, destinations and writers, files and anchors, passes and
\* their counts, caches of verdicts, tables of benchmarks, and the forest of groups.
THEOREM PartsTyping == Spec => []TypeOK
  <1>1. TypeOK <=>
          /\ part = "discovery" => Discovery!TypeOK
          /\ part = "relations" => Relations!TypeOK
          /\ part = "exports" => Exports!TypeOK
          /\ part = "resolvers" => Resolvers!TypeOK
          /\ part = "anchors" => Anchors!TypeOK
          /\ part = "recapture" => Recapture!TypeOK
          /\ part = "provenance" => Provenance!TypeOK
          /\ part = "bench" => Bench!TypeOK
          /\ part = "trailers" => Trailers!TypeOK
          /\ part = "grouping" => Grouping!TypeOK
    BY DEF TypeOK
  <1> QED BY <1>1, DiscoveryIsTyped, RelationsStayTyped, ExportsStayTyped, ResolversStayTyped,
             AnchorsStayTyped, RecaptureStaysTyped, ProvenanceStaysTyped, BenchStaysTyped,
             TrailersStayTyped, GroupingIsTyped, PTL

\* Whatever .git files and trackers come, go or cannot be read on the way
\* (find_codebugs_root, db.py), a call is bound to the tracker that a walk with all
\* answers ends at, or says what it could not examine, and `where` tells the truth.
\* And whatever order the edges of a report are taken in, with path halving
\* (_DSU, grouping.py), it groups exactly the cards that are joined, and a lineage
\* flags a cycle wherever there is one.
THEOREM SearchesStayHonest == Spec => []SearchesAreHonest
  <1>1. (part = "discovery" => Discovery!TypeOK) /\ (part = "grouping" => GroupingInv) =>
          SearchesAreHonest
    BY BindingHonest, ReportsAreTrue DEF SearchesAreHonest
  <1> QED BY <1>1, DiscoveryIsTyped, GroupingInvariance, PTL
=============================================================================
