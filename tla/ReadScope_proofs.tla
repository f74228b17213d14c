-------------------------- MODULE ReadScope_proofs --------------------------
(***************************************************************************)
(* Theorems about ReadScope for predicates of any nesting, any number of   *)
(* partition fields, values and producer writes: an excluded producer is   *)
(* one that the READ never sees, and a proven overlap is one.              *)
(*                                                                         *)
(* What is computed by recursion on a predicate is first shown to satisfy  *)
(* its equation (FoldExists); a fact that failed for some predicate would  *)
(* fail for one all of whose branches have it (SmallestPred).              *)
(***************************************************************************)
EXTENDS ReadScope, WellFoundedInduction, TLAPS

-----------------------------------------------------------------------------
(* Predicates *)

\* A set of natural numbers has a least one.
LEMMA LeastNumber ==
    ASSUME NEW T \in SUBSET Nat, T # {}
    PROVE  \E n \in T : \A m \in T : n <= m
<1>1. PICK n \in T : \A m \in T : ~(<<m, n>> \in OpToRel(<, Nat))
  BY NatLessThanWellFounded, WFMin
<1>2. \A m \in T : ~(m < n)
  BY <1>1 DEF OpToRel
<1> QED
  BY <1>2

\* The levels satisfy their equation: up to every n there are some that do.
LEMMA LevelIs ==
    Level = [n \in 0..Depth |-> IF n = 0 THEN Atoms \cup {NoTree}
                                ELSE Level[n - 1] \cup Nodes(Level[n - 1])]
<1> DEFINE Body(L, n) == IF n = 0 THEN Atoms \cup {NoTree} ELSE L[n - 1] \cup Nodes(L[n - 1])
           Solves(L, n) == \A m \in 0..Depth : m <= n => L[m] = Body(L, m)
           Bad == {n \in Nat : ~\E L : Solves(L, n)}
<1>1. \E L : Solves(L, 0)
  <2>1. Solves([m \in 0..Depth |-> Atoms \cup {NoTree}], 0)
    OBVIOUS
  <2> HIDE DEF Solves
  <2> QED
    BY <2>1
<1>2. ASSUME NEW n \in Nat, NEW L, Solves(L, n)
      PROVE  Solves([m \in 0..Depth |-> Body(L, m)], n + 1)
  <2> DEFINE N == [m \in 0..Depth |-> Body(L, m)]
  <2> SUFFICES ASSUME NEW m \in 0..Depth, m <= n + 1 PROVE N[m] = Body(N, m)
    OBVIOUS
  <2>1. CASE m = 0
    BY <2>1
  <2>2. CASE m # 0
    <3>1. m - 1 \in 0..Depth /\ m - 1 <= n
      BY <2>2, ScopeAssumption
    <3>2. N[m - 1] = L[m - 1]
      BY <1>2, <3>1
    <3> QED
      BY <2>2, <3>2
  <2> QED
    BY <2>1, <2>2
<1>3. Bad = {}
  <2> SUFFICES ASSUME Bad # {} PROVE FALSE
    OBVIOUS
  <2>1. PICK n \in Bad : \A m \in Bad : n <= m
    <3>1. Bad \in SUBSET Nat
      OBVIOUS
    <3> HIDE DEF Bad
    <3> QED
      BY <3>1, LeastNumber
  <2> HIDE DEF Solves
  <2>2. n \in Nat /\ ~\E L : Solves(L, n)
    OBVIOUS
  <2>3. n # 0
    BY <1>1, <2>2
  <2>4. n - 1 \in Nat /\ (n - 1) + 1 = n /\ ~(n <= n - 1)
    BY <2>2, <2>3
  <2>5. PICK L : Solves(L, n - 1)
    BY <2>1, <2>4
  <2>6. Solves([m \in 0..Depth |-> Body(L, m)], (n - 1) + 1)
    <3> HIDE DEF Body
    <3> QED
      BY <1>2, <2>4, <2>5
  <2> QED
    BY <2>2, <2>4, <2>6
<1>4. PICK L : Solves(L, Depth)
  <2> HIDE DEF Solves
  <2> QED
    BY <1>3, ScopeAssumption
<1>5. \A m \in 0..Depth : m # 0 => m - 1 \in 0..Depth
  BY ScopeAssumption
<1> DEFINE N == [m \in 0..Depth |-> L[m]]
<1>6. N = [n \in 0..Depth |-> Body(N, n)]
  <2>0. \A m \in 0..Depth : m <= Depth
    BY ScopeAssumption
  <2>1. \A m \in 0..Depth : L[m] = Body(L, m)
    <3> HIDE DEF Body
    <3> QED
      BY <1>4, <2>0
  <2>2. \A m \in 0..Depth : Body(N, m) = Body(L, m)
    <3> SUFFICES ASSUME NEW m \in 0..Depth, m # 0 PROVE Body(N, m) = Body(L, m)
      OBVIOUS
    <3>1. N[m - 1] = L[m - 1]
      BY <1>5
    <3> QED
      BY <3>1
  <2> HIDE DEF Body
  <2> QED
    BY <2>1, <2>2
<1>7. \E M : M = [n \in 0..Depth |-> IF n = 0 THEN Atoms \cup {NoTree}
                                     ELSE M[n - 1] \cup Nodes(M[n - 1])]
  BY <1>6, Zenon
<1> QED
  BY <1>7, Zenon DEF Level

LEMMA LevelZero == Level[0] = Atoms \cup {NoTree}
<1>1. 0 \in 0..Depth
  BY ScopeAssumption
<1> QED
  BY <1>1, LevelIs

LEMMA LevelNext ==
    ASSUME NEW n \in 0..Depth, n # 0
    PROVE  /\ n - 1 \in 0..Depth
           /\ Level[n] = Level[n - 1] \cup Nodes(Level[n - 1])
<1>1. n - 1 \in 0..Depth
  BY ScopeAssumption
<1> QED
  BY <1>1, LevelIs

\* A level contains the ones before it.
LEMMA LevelsGrow ==
    ASSUME NEW m \in 0..Depth, NEW n \in 0..Depth, m <= n
    PROVE  Level[m] \subseteq Level[n]
<1> DEFINE Bad == {i \in 0..Depth : m <= i /\ ~(Level[m] \subseteq Level[i])}
<1> SUFFICES ASSUME Bad # {} PROVE FALSE
  OBVIOUS
<1>1. PICK i \in Bad : \A j \in Bad : i <= j
  <2>1. Bad \in SUBSET Nat
    OBVIOUS
  <2> HIDE DEF Bad
  <2> QED
    BY <2>1, LeastNumber
<1>2. i \in 0..Depth /\ m <= i /\ i # m /\ ~(Level[m] \subseteq Level[i])
  OBVIOUS
<1>3. i # 0 /\ i - 1 \in 0..Depth /\ m <= i - 1 /\ ~(i <= i - 1)
  BY <1>2, ScopeAssumption
<1>4. Level[m] \subseteq Level[i - 1]
  BY <1>1, <1>3
<1> QED
  BY <1>2, <1>3, <1>4, LevelNext

LEMMA PredsAre ==
    /\ \A n \in 0..Depth : Level[n] \subseteq Preds
    /\ NoTree \in Preds /\ NoTree \in Level[0] /\ 0 \in 0..Depth
<1>1. 0 \in 0..Depth /\ Depth \in 0..Depth /\ \A n \in 0..Depth : n <= Depth
  BY ScopeAssumption
<1>2. \A n \in 0..Depth : Level[n] \subseteq Level[Depth]
  BY <1>1, LevelsGrow
<1> QED
  BY <1>1, <1>2, LevelZero DEF Preds

\* What is first found at some level is a leaf, or its branches are a level below.
First(n, t, B) ==
    /\ t \in Level[n]
    /\ \/ n = 0 /\ t \in Atoms \cup {NoTree}
       \/ n # 0 /\ n - 1 \in 0..Depth /\ t \in Nodes(Level[n - 1]) /\ Level[n - 1] \cap B = {}
    /\ \A m \in 0..Depth : Level[m] \cap B # {} => n <= m

LEMMA FirstLevel ==
    ASSUME NEW B \in SUBSET Preds, B # {}
    PROVE  \E n \in 0..Depth : \E t \in B : First(n, t, B)
<1> DEFINE T == {n \in 0..Depth : Level[n] \cap B # {}}
<1>1. Depth \in T
  BY ScopeAssumption DEF Preds
<1>2. PICK n \in T : \A m \in T : n <= m
  <2>1. T \in SUBSET Nat /\ T # {}
    BY <1>1
  <2> HIDE DEF T
  <2> QED
    BY <2>1, LeastNumber
<1>3. n \in 0..Depth
  OBVIOUS
<1>4. PICK t \in B : t \in Level[n]
  OBVIOUS
<1>7. \A m \in 0..Depth : Level[m] \cap B # {} => n <= m
  BY <1>2
<1>5. CASE n = 0
  BY <1>3, <1>4, <1>5, <1>7, LevelZero DEF First
<1>6. CASE n # 0
  <2>1. n - 1 \in 0..Depth /\ Level[n] = Level[n - 1] \cup Nodes(Level[n - 1])
    BY <1>3, <1>6, LevelNext
  <2>2. ~(n <= n - 1)
    BY <1>3
  <2>3. Level[n - 1] \cap B = {}
    BY <1>2, <2>1, <2>2
  <2> QED
    BY <1>3, <1>4, <1>6, <1>7, <2>1, <2>3 DEF First
<1> QED
  BY <1>5, <1>6

LEMMA KidsAre ==
    /\ \A t \in Atoms \cup {NoTree} : Kids(t) = {}
    /\ \A S : \A t \in Nodes(S) : t.k \in {"NOT", "AND", "OR"} /\ Kids(t) = t.kids
                                    /\ Kids(t) \subseteq S /\ Kids(t) # {}
  BY DEF Kids, Nodes, Atoms, NoTree

LEMMA PredIs ==
    ASSUME NEW t \in Preds
    PROVE  \/ t \in Atoms \cup {NoTree} /\ Kids(t) = {}
           \/ /\ t.k \in {"NOT", "AND", "OR"} /\ Kids(t) = t.kids
              /\ Kids(t) \subseteq Preds /\ Kids(t) # {}
<1>1. PICK n \in 0..Depth : First(n, t, {t})
  <2>1. {t} \in SUBSET Preds /\ {t} # {}
    OBVIOUS
  <2> QED
    BY <2>1, FirstLevel
<1> QED
  BY <1>1, KidsAre, PredsAre DEF First

LEMMA SmallestPred ==
    ASSUME NEW B \in SUBSET Preds, B # {}
    PROVE  \E t \in B : \A c \in Kids(t) : c \in Preds /\ c \notin B
<1>1. PICK n \in 0..Depth : \E t \in B : First(n, t, B)
  BY FirstLevel
<1> QED
  BY <1>1, KidsAre, PredsAre DEF First

-----------------------------------------------------------------------------
(* Recursion on a predicate *)

\* The branches of a predicate are a level below it.
LEMMA KidsBelow ==
    ASSUME NEW n \in 0..Depth, NEW t \in Level[n]
    PROVE  Kids(t) # {} => n # 0 /\ n - 1 \in 0..Depth /\ Kids(t) \subseteq Level[n - 1]
<1>1. t \in Preds
  BY PredsAre
<1>2. PICK m \in 0..Depth : First(m, t, {t})
  <2>1. {t} \in SUBSET Preds /\ {t} # {}
    BY <1>1
  <2> QED
    BY <2>1, FirstLevel
<1>3. m <= n
  BY <1>2 DEF First
<1>4. CASE m = 0
  BY <1>2, <1>4, KidsAre DEF First
<1>5. CASE m # 0
  <2>1. n # 0 /\ n - 1 \in 0..Depth /\ m - 1 \in 0..Depth /\ m - 1 <= n - 1
    BY <1>2, <1>3, <1>5, ScopeAssumption DEF First
  <2>2. Kids(t) \subseteq Level[m - 1]
    BY <1>2, <1>5, KidsAre DEF First
  <2> QED
    BY <2>1, <2>2, LevelsGrow
<1> QED
  BY <1>4, <1>5

\* f gives every predicate what G makes of the values of its branches.
Folds(f, G) == f = [t \in Preds |-> G[t][{f[c] : c \in Kids(t)}]]

LEMMA FoldExists ==
    ASSUME NEW V, NEW G \in [Preds -> [SUBSET V -> V]]
    PROVE  \E f \in [Preds -> V] : Folds(f, G)
<1> DEFINE Solves(f, n) == /\ f \in [Preds -> V]
                           /\ \A t \in Level[n] : f[t] = G[t][{f[c] : c \in Kids(t)}]
           Next1(f) == [t \in Preds |-> G[t][{f[c] : c \in Kids(t)}]]
           Bad == {n \in 0..Depth : ~\E f : Solves(f, n)}
<1>1. \A f \in [Preds -> V], t \in Preds : {f[c] : c \in Kids(t)} \in SUBSET V
  BY PredIs
<1>2. \A f \in [Preds -> V] : Next1(f) \in [Preds -> V]
  BY <1>1
<1>3. [Preds -> V] # {}
  <2> DEFINE f == [t \in Preds |-> G[t][{}]]
  <2>1. f \in [Preds -> V]
    OBVIOUS
  <2> QED
    BY <2>1
<1>4. \E f : Solves(f, 0)
  <2>1. PICK f \in [Preds -> V] : TRUE
    BY <1>3
  <2>2. \A t \in Level[0] : Kids(t) = {} /\ t \in Preds
    BY LevelZero, KidsAre, PredsAre
  <2>3. Next1(f) \in [Preds -> V]
    BY <1>2
  <2>4. \A t \in Level[0] : Next1(f)[t] = G[t][{Next1(f)[c] : c \in Kids(t)}]
    BY <2>2
  <2>5. Solves(Next1(f), 0)
    BY <2>3, <2>4
  <2> HIDE DEF Solves
  <2> QED
    BY <2>5
<1>5. ASSUME NEW n \in 0..Depth, n # 0, NEW f, Solves(f, n - 1)
      PROVE  Solves(Next1(f), n)
  <2>1. n - 1 \in 0..Depth /\ Level[n] = Level[n - 1] \cup Nodes(Level[n - 1]) /\ Level[n] \subseteq Preds
    BY <1>5, LevelNext, PredsAre
  <2>2. f \in [Preds -> V] /\ Next1(f) \in [Preds -> V]
    BY <1>2, <1>5
  <2>3. ASSUME NEW t \in Level[n]
        PROVE  {Next1(f)[c] : c \in Kids(t)} = {f[c] : c \in Kids(t)}
    <3>1. Kids(t) \subseteq Level[n - 1]
      BY KidsBelow
    <3>2. \A c \in Kids(t) : c \in Preds /\ f[c] = G[c][{f[d] : d \in Kids(c)}]
      BY <1>5, <2>1, <3>1, PredsAre
    <3>3. \A c \in Kids(t) : Next1(f)[c] = f[c]
      BY <3>2
    <3> HIDE DEF Next1
    <3> QED
      BY <3>3
  <2>4. \A t \in Level[n] : Next1(f)[t] = G[t][{f[c] : c \in Kids(t)}]
    BY <2>1
  <2> HIDE DEF Next1
  <2> QED
    BY <2>2, <2>3, <2>4
<1>6. Bad = {}
  <2> HIDE DEF Solves, Next1
  <2> SUFFICES ASSUME Bad # {} PROVE FALSE
    OBVIOUS
  <2>1. PICK n \in Bad : \A m \in Bad : n <= m
    <3>1. Bad \in SUBSET Nat
      OBVIOUS
    <3> HIDE DEF Bad
    <3> QED
      BY <3>1, LeastNumber
  <2>2. n \in 0..Depth /\ ~\E f : Solves(f, n)
    OBVIOUS
  <2>3. n # 0
    BY <1>4, <2>2
  <2>4. n - 1 \in 0..Depth /\ ~(n <= n - 1)
    BY <2>2, <2>3, ScopeAssumption
  <2>5. PICK f : Solves(f, n - 1)
    BY <2>1, <2>4
  <2> QED
    BY <1>5, <2>2, <2>3, <2>5
<1>7. PICK f : Solves(f, Depth)
  <2> HIDE DEF Solves
  <2> QED
    BY <1>6, ScopeAssumption
<1> QED
  BY <1>7 DEF Preds, Folds

LEMMA ValuesOfKids ==
    ASSUME NEW V, NEW f \in [Preds -> V], NEW t \in Preds
    PROVE  {f[c] : c \in Kids(t)} \in SUBSET V
  BY PredIs

LEMMA SubtreesIs ==
    \A t \in Preds : Subtrees(t) = {t} \cup UNION {Subtrees(c) : c \in Kids(t)}
<1> DEFINE V == SUBSET Preds
           G == [t \in Preds |-> [xs \in SUBSET V |-> {t} \cup UNION xs]]
<1>1. PICK f \in [Preds -> V] : Folds(f, G)
  <2>1. G \in [Preds -> [SUBSET V -> V]]
    OBVIOUS
  <2> HIDE DEF G, V
  <2> QED
    BY <2>1, FoldExists
<1>2. f = [s \in Preds |-> {s} \cup UNION {f[c] : c \in Kids(s)}]
  <2>1. \A t \in Preds : {f[c] : c \in Kids(t)} \in SUBSET V
    BY <1>1, ValuesOfKids
  <2>2. \A t \in Preds : f[t] = {t} \cup UNION {f[c] : c \in Kids(t)}
    BY <1>1, <2>1 DEF Folds
  <2> QED
    BY <1>1, <2>2 DEF Folds
<1> DEFINE Sub == CHOOSE sub : sub = [s \in Preds |-> {s} \cup UNION {sub[c] : c \in Kids(s)}]
<1>3. Sub = [s \in Preds |-> {s} \cup UNION {Sub[c] : c \in Kids(s)}]
  BY <1>2, Zenon
<1>4. \A t : Subtrees(t) = Sub[t]
  BY Zenon DEF Subtrees
<1> HIDE DEF Sub
<1>5. SUFFICES ASSUME NEW t \in Preds
               PROVE  Sub[t] = {t} \cup UNION {Sub[c] : c \in Kids(t)}
  BY <1>4
<1> QED
  BY <1>3

\* What holds of all parts of a predicate holds of all parts of its branches.
LEMMA PartsOfKids ==
    ASSUME NEW t \in Preds
    PROVE  /\ t \in Subtrees(t)
           /\ \A c \in Kids(t) : Subtrees(c) \subseteq Subtrees(t)
  BY SubtreesIs

Statuses == {"IRRELEVANT", "UNKNOWN", "PARTIAL", "SUPPORTED"}

Evaluations == [st : Statuses, p : Preds]

LEMMA JoinedIs ==
    ASSUME NEW kind, NEW kept
    PROVE  \/ \E q : kept = {q} /\ Joined(kind, kept) = q
           \/ Joined(kind, kept) = [k |-> kind, kids |-> kept] /\ ~\E q \in kept : kept = {q}
<1>1. CASE \E q \in kept : kept = {q}
  <2>1. PICK q : kept = {q}
    BY <1>1
  <2>2. (CHOOSE r \in kept : TRUE) = q
    BY <2>1
  <2> QED
    BY <1>1, <2>1, <2>2 DEF Joined
<1>2. CASE ~\E q \in kept : kept = {q}
  BY <1>2 DEF Joined
<1> QED
  BY <1>1, <1>2

EvaluatedTo(e, n) == \E st \in Statuses, p \in Level[n] : e = Result(st, p)

\* A predicate that is kept of t is nested no deeper than t.
LEMMA EvaluationKeepsLevel ==
    ASSUME NEW n \in 0..Depth, n # 0, n - 1 \in 0..Depth,
           NEW t \in Nodes(Level[n - 1]), NEW fields,
           NEW results, \A e \in results : e.st \in Statuses /\ e.p \in Level[n - 1]
    PROVE  EvaluatedTo(Evaluation(t, results, fields), n)
<1>1. Level[n] = Level[n - 1] \cup Nodes(Level[n - 1]) /\ NoTree \in Level[n]
  <2>1. 0 \in 0..Depth /\ 0 <= n
    BY ScopeAssumption
  <2> QED
    BY <2>1, LevelNext, LevelsGrow, PredsAre
<1>2. t.k \in {"NOT", "AND", "OR"}
  BY KidsAre
<1>3. CASE t.k = "NOT"
  BY <1>1, <1>3 DEF Evaluation, Negate, Statuses, EvaluatedTo
<1>4. CASE t.k \in {"AND", "OR"}
  <2> DEFINE kept == {e.p : e \in {e \in results : ~Irrelevant(e)}} \ {NoTree}
  <2>1. kept \subseteq Level[n - 1]
    OBVIOUS
  <2>2. kept # {} => Joined(t.k, kept) \in Level[n]
    <3> HIDE DEF kept
    <3>1. CASE \E q : kept = {q} /\ Joined(t.k, kept) = q
      BY <1>1, <2>1, <3>1
    <3>2. CASE Joined(t.k, kept) = [k |-> t.k, kids |-> kept]
      BY <1>1, <1>4, <2>1, <3>2 DEF Nodes
    <3> QED
      BY <3>1, <3>2, JoinedIs
  <2>3. Evaluation(t, results, fields) = Combine(t.k, results)
    BY <1>4 DEF Evaluation
  <2>4. \/ \E st \in Statuses : Combine(t.k, results) = Result(st, NoTree)
        \/ kept # {} /\ \E st \in Statuses : Combine(t.k, results) = Result(st, Joined(t.k, kept))
    BY DEF Combine, Statuses
  <2> HIDE DEF kept
  <2>5. PICK st \in Statuses, p \in Level[n] : Combine(t.k, results) = Result(st, p)
    BY <1>1, <2>2, <2>4
  <2> QED
    BY <2>3, <2>5 DEF EvaluatedTo
<1> QED
  BY <1>2, <1>3, <1>4

\* A leaf is evaluated to itself or to nothing.
LEMMA LeafEvaluation ==
    ASSUME NEW t \in Atoms \cup {NoTree}, NEW results, NEW fields
    PROVE  EvaluatedTo(Evaluation(t, results, fields), 0)
<1>1. t \in Level[0] /\ NoTree \in Level[0]
  BY LevelZero
<1>2. CASE t.k = "none"
  BY <1>1, <1>2 DEF Evaluation, Statuses, EvaluatedTo
<1>3. CASE t.k = "atom"
  <2>1. Evaluation(t, results, fields) = AtomEvaluation(t, fields)
    BY <1>3 DEF Evaluation
  <2>2. \E st \in Statuses : \/ AtomEvaluation(t, fields) = Result(st, NoTree)
                             \/ AtomEvaluation(t, fields) = Result(st, t)
    BY DEF AtomEvaluation, Statuses
  <2> QED
    BY <1>1, <2>1, <2>2 DEF EvaluatedTo
<1> QED
  BY <1>2, <1>3 DEF Atoms, NoTree

\* The evaluation of a predicate is made of the evaluations of its branches.
LEMMA EvaluateIs ==
    ASSUME NEW fields
    PROVE  \A t \in Preds :
              /\ Evaluate(t, fields) \in Evaluations
              /\ Evaluate(t, fields) =
                    Evaluation(t, {Evaluate(c, fields) : c \in Kids(t)}, fields)
<1> DEFINE V == Evaluations
           Unknown == Result("UNKNOWN", NoTree)
           E(t, xs) == Evaluation(t, xs, fields)
           G == [t \in Preds |-> [xs \in SUBSET V |-> IF E(t, xs) \in V THEN E(t, xs) ELSE Unknown]]
<1>1. PICK f \in [Preds -> V] : Folds(f, G)
  <2>1. Unknown \in V
    BY PredsAre DEF Evaluations, Statuses, Result
  <2>2. G \in [Preds -> [SUBSET V -> V]]
    <3> HIDE DEF V, E, Unknown
    <3> QED
      BY <2>1
  <2> HIDE DEF G, V
  <2> QED
    BY <2>2, FoldExists
<1> DEFINE xs(t) == {f[c] : c \in Kids(t)}
           Bad == {t \in Preds : \E n \in 0..Depth : t \in Level[n] /\ ~(f[t] = E(t, xs(t)) /\ f[t].p \in Level[n])}
<1>2. \A t \in Preds : f[t] = IF E(t, xs(t)) \in V THEN E(t, xs(t)) ELSE Unknown
  <2>1. \A t \in Preds : xs(t) \in SUBSET V
    BY <1>1, ValuesOfKids
  <2> HIDE DEF V, E, Unknown
  <2> QED
    BY <1>1, <2>1 DEF Folds
<1>3. Bad = {}
  <2> SUFFICES ASSUME Bad # {} PROVE FALSE
    OBVIOUS
  <2>1. PICK n \in 0..Depth : \E t \in Bad : First(n, t, Bad)
    <3>1. Bad \in SUBSET Preds
      OBVIOUS
    <3> HIDE DEF Bad
    <3> QED
      BY <3>1, FirstLevel
  <2>2. PICK t \in Bad : First(n, t, Bad)
    BY <2>1
  <2>3. PICK m \in 0..Depth : t \in Level[m] /\ ~(f[t] = E(t, xs(t)) /\ f[t].p \in Level[m])
    OBVIOUS
  <2>4. n <= m
    <3>1. Level[m] \cap Bad # {}
      BY <2>3
    <3> HIDE DEF Bad
    <3> QED
      BY <2>2, <3>1 DEF First
  <2>5. Level[n] \subseteq Level[m]
    BY <2>4, LevelsGrow
  <2>6. EvaluatedTo(E(t, xs(t)), n)
    <3>a. PICK R : R = xs(t)
      OBVIOUS
    <3>b. SUFFICES EvaluatedTo(Evaluation(t, R, fields), n)
      BY <3>a
    <3>1. CASE n = 0
      <4>1. t \in Atoms \cup {NoTree}
        BY <2>2, <3>1 DEF First
      <4> QED
        BY <3>1, <4>1, LeafEvaluation
    <3>2. CASE n # 0
      <4> HIDE DEF Bad
      <4>1. n - 1 \in 0..Depth /\ t \in Nodes(Level[n - 1]) /\ Level[n - 1] \cap Bad = {}
        BY <2>2, <3>2 DEF First
      <4>2. \A c \in Kids(t) : c \in Preds /\ f[c].st \in Statuses /\ f[c].p \in Level[n - 1]
        <5> TAKE c \in Kids(t)
        <5>1. c \in Level[n - 1] /\ c \in Preds /\ c \notin Bad
          BY <4>1, KidsAre, PredsAre
        <5>2. f[c].p \in Level[n - 1]
          BY <4>1, <5>1 DEF Bad
        <5>3. f[c] \in Evaluations
          BY <1>1, <5>1
        <5> QED
          BY <5>1, <5>2, <5>3 DEF Evaluations
      <4>3. \A e \in R : e.st \in Statuses /\ e.p \in Level[n - 1]
        BY <3>a, <4>2
      <4> QED
        BY <3>2, <4>1, <4>3, EvaluationKeepsLevel
    <3> QED
      BY <3>1, <3>2
  <2>7. PICK st \in Statuses, p \in Level[n] : E(t, xs(t)) = Result(st, p)
    BY <2>6 DEF EvaluatedTo
  <2>8. Result(st, p) \in V /\ Result(st, p).p \in Level[m]
    BY <2>5, PredsAre DEF Evaluations, Result
  <2>9. f[t] = Result(st, p)
    <3> HIDE DEF V, E, xs, Unknown
    <3> QED
      BY <1>2, <2>7, <2>8
  <2> HIDE DEF E, xs
  <2> QED
    BY <2>3, <2>7, <2>8, <2>9
<1>4. \A t \in Preds : f[t] = E(t, xs(t))
  <2>1. \A t \in Preds : t \in Level[Depth] /\ Depth \in 0..Depth
    BY ScopeAssumption DEF Preds
  <2> HIDE DEF E, xs
  <2> QED
    BY <1>3, <2>1
<1>5. f = [s \in Preds |-> Evaluation(s, {f[c] : c \in Kids(s)}, fields)]
  BY <1>1, <1>4
<1> DEFINE Eval == CHOOSE eval : eval = [s \in Preds |-> Evaluation(s, {eval[c] : c \in Kids(s)}, fields)]
<1>6. Eval = [s \in Preds |-> Evaluation(s, {Eval[c] : c \in Kids(s)}, fields)]
  BY <1>5, Zenon
<1>7. \A t : Evaluate(t, fields) = Eval[t]
  BY Zenon DEF Evaluate
<1> HIDE DEF Eval
<1>8. \A t \in Preds : Eval[t] = f[t]
  <2> DEFINE Differs == {t \in Preds : Eval[t] # f[t]}
  <2> SUFFICES ASSUME Differs # {} PROVE FALSE
    OBVIOUS
  <2>1. PICK t \in Differs : \A c \in Kids(t) : c \in Preds /\ c \notin Differs
    <3>1. Differs \in SUBSET Preds
      OBVIOUS
    <3> HIDE DEF Differs
    <3> QED
      BY <3>1, SmallestPred
  <2>2. {Eval[c] : c \in Kids(t)} = {f[c] : c \in Kids(t)}
    BY <2>1
  <2>3. Eval[t] = Evaluation(t, {Eval[c] : c \in Kids(t)}, fields)
    BY <1>6
  <2>4. f[t] = Evaluation(t, {f[c] : c \in Kids(t)}, fields)
    BY <1>4
  <2> QED
    BY <2>2, <2>3, <2>4
<1>9. SUFFICES ASSUME NEW t \in Preds
               PROVE  /\ Eval[t] \in Evaluations
                      /\ Eval[t] = Evaluation(t, {Eval[c] : c \in Kids(t)}, fields)
  BY <1>7
<1>10. Eval[t] \in Evaluations
  BY <1>1, <1>8
<1>11. Eval[t] = Evaluation(t, {Eval[c] : c \in Kids(t)}, fields)
  BY <1>6
<1> QED
  BY <1>10, <1>11

LEMMA AtomIs ==
    ASSUME NEW t \in Atoms
    PROVE  /\ t.k = "atom" /\ t.field \in Fields \cup {"OTHER", "OPAQUE"}
           /\ t.op \in Comparable \cup {"NE", "LIKE"} /\ (t.field \in Fields => t.op # "LIKE")
           /\ t.vals \in Seq(Literals \cup Runtimes) /\ t.vals # <<>>
           /\ t.op = "BETWEEN" => Len(t.vals) = 2
           /\ t.op = "EQ" => t.vals = <<t.vals[1]>>
           /\ 1 \in DOMAIN t.vals /\ (t.op = "BETWEEN" => 2 \in DOMAIN t.vals)
           /\ \A i \in DOMAIN t.vals : t.vals[i] \in Literals \cup Runtimes
<1>1. /\ t.k = "atom" /\ t.field \in Fields \cup {"OTHER", "OPAQUE"}
      /\ t.op \in Comparable \cup {"NE", "LIKE"} /\ (t.field \in Fields => t.op # "LIKE")
      /\ t.vals \in Seq(Literals \cup Runtimes) /\ t.vals # <<>>
      /\ t.op = "BETWEEN" => Len(t.vals) = 2
  BY DEF Atoms
<1>2. 1 \in DOMAIN t.vals /\ (t.op = "BETWEEN" => 2 \in DOMAIN t.vals)
  BY <1>1
<1>3. \A i \in DOMAIN t.vals : t.vals[i] \in Literals \cup Runtimes
  BY <1>1
<1>4. ASSUME t.op = "EQ" PROVE t.vals = <<t.vals[1]>>
  <2>1. Len(t.vals) = 1
    BY <1>4 DEF Atoms
  <2> QED
    BY <1>1, <2>1
<1> QED
  BY <1>1, <1>2, <1>3, <1>4

LEMMA LeafKinds ==
    \A t \in Preds :
        /\ t.k \in {"none", "atom", "NOT", "AND", "OR"}
        /\ t.k = "none" <=> t = NoTree
        /\ t.k = "atom" <=> t \in Atoms
        /\ t.k \in {"none", "atom"} => Kids(t) = {}
        /\ t.k \in {"NOT", "AND", "OR"} => Kids(t) = t.kids /\ Kids(t) \subseteq Preds /\ Kids(t) # {}
<1> SUFFICES ASSUME NEW t \in Preds
             PROVE  /\ t.k \in {"none", "atom", "NOT", "AND", "OR"}
                    /\ t.k = "none" <=> t = NoTree
                    /\ t.k = "atom" <=> t \in Atoms
                    /\ t.k \in {"none", "atom"} => Kids(t) = {}
                    /\ t.k \in {"NOT", "AND", "OR"} =>
                          Kids(t) = t.kids /\ Kids(t) \subseteq Preds /\ Kids(t) # {}
  OBVIOUS
<1>1. NoTree.k = "none"
  BY DEF NoTree
<1>2. \A a \in Atoms : a.k = "atom"
  BY AtomIs
<1> QED
  BY <1>1, <1>2, PredIs

\* A literal and a runtime expression have a value among the literals.
LEMMA ValueIs ==
    ASSUME NEW env \in Envs, NEW v \in Literals \cup Runtimes
    PROVE  Value(v, env) \in Literals
  BY DEF Value, Envs

LEMMA AtomHoldsType ==
    ASSUME NEW t \in Atoms, t.field \in Fields, NEW x \in Literals, NEW env \in Envs
    PROVE  AtomHolds(t, x, env) \in BOOLEAN
<1>1. t.op \in {"EQ", "NE", "LT", "LTE", "GT", "GTE", "IN", "BETWEEN"}
  BY AtomIs DEF Comparable
<1>2. CASE t.op = "EQ"
  BY <1>2 DEF AtomHolds
<1>3. CASE t.op = "NE"
  BY <1>3 DEF AtomHolds
<1>4. CASE t.op = "LT"
  BY <1>4 DEF AtomHolds
<1>5. CASE t.op = "LTE"
  BY <1>5 DEF AtomHolds
<1>6. CASE t.op = "GT"
  BY <1>6 DEF AtomHolds
<1>7. CASE t.op = "GTE"
  BY <1>7 DEF AtomHolds
<1>8. CASE t.op = "IN"
  BY <1>8 DEF AtomHolds
<1>9. CASE t.op = "BETWEEN"
  BY <1>9 DEF AtomHolds
<1> QED
  BY <1>1, <1>2, <1>3, <1>4, <1>5, <1>6, <1>7, <1>8, <1>9

LEMMA HoldsIs ==
    ASSUME NEW part \in [Fields -> Literals], NEW env \in Envs,
           NEW other \in BOOLEAN, NEW opaque \in BOOLEAN
    PROVE  \A t \in Preds :
              /\ Holds(t, part, other, opaque, env) \in BOOLEAN
              /\ Holds(t, part, other, opaque, env) =
                    Meaning(t, {Holds(c, part, other, opaque, env) : c \in Kids(t)},
                            part, other, opaque, env)
<1> DEFINE M(t, bs) == Meaning(t, bs, part, other, opaque, env)
           G == [t \in Preds |-> [bs \in SUBSET BOOLEAN |-> M(t, bs)]]
<1>1. \A t \in Preds, bs \in SUBSET BOOLEAN : M(t, bs) \in BOOLEAN
  <2> TAKE t \in Preds, bs \in SUBSET BOOLEAN
  <2>1. CASE t.k = "atom" /\ t.field \in Fields
    <3>1. t \in Atoms
      BY <2>1, LeafKinds
    <3>2. AtomHolds(t, part[t.field], env) \in BOOLEAN
      BY <2>1, <3>1, AtomHoldsType
    <3> QED
      BY <2>1, <3>2, ScopeAssumption DEF Meaning
  <2>2. CASE t.k = "atom" /\ t.field \notin Fields
    <3>1. t.field \in {"OTHER", "OPAQUE"}
      BY <2>2, LeafKinds, AtomIs
    <3> QED
      BY <2>2, <3>1 DEF Meaning
  <2>3. CASE t.k = "none"
    BY <2>3 DEF Meaning
  <2>4. CASE t.k = "OR"
    BY <2>4 DEF Meaning
  <2>5. CASE t.k = "AND"
    BY <2>5 DEF Meaning
  <2>6. CASE t.k = "NOT"
    BY <2>6 DEF Meaning
  <2> QED
    BY <2>1, <2>2, <2>3, <2>4, <2>5, <2>6, LeafKinds
<1>2. PICK f \in [Preds -> BOOLEAN] : Folds(f, G)
  <2>1. G \in [Preds -> [SUBSET BOOLEAN -> BOOLEAN]]
    <3> HIDE DEF M
    <3> QED
      BY <1>1
  <2> HIDE DEF G
  <2> QED
    BY <2>1, FoldExists
<1>3. f = [s \in Preds |-> M(s, {f[c] : c \in Kids(s)})]
  <2>1. \A t \in Preds : {f[c] : c \in Kids(t)} \in SUBSET BOOLEAN
    BY <1>2, ValuesOfKids
  <2> HIDE DEF M
  <2>2. \A t \in Preds : f[t] = M(t, {f[c] : c \in Kids(t)})
    BY <1>2, <2>1 DEF Folds
  <2> QED
    BY <1>2, <2>2
<1> DEFINE H == CHOOSE holds : holds = [s \in Preds |-> Meaning(s, {holds[c] : c \in Kids(s)},
                                                                part, other, opaque, env)]
<1>4. H = [s \in Preds |-> M(s, {H[c] : c \in Kids(s)})]
  BY <1>3, Zenon
<1>5. \A t : Holds(t, part, other, opaque, env) = H[t]
  BY Zenon DEF Holds
<1> HIDE DEF H
<1>6. \A t \in Preds : H[t] \in BOOLEAN
  <2> DEFINE Bad == {t \in Preds : H[t] \notin BOOLEAN}
  <2> SUFFICES ASSUME Bad # {} PROVE FALSE
    OBVIOUS
  <2>1. PICK t \in Bad : \A c \in Kids(t) : c \in Preds /\ c \notin Bad
    <3>1. Bad \in SUBSET Preds
      OBVIOUS
    <3> HIDE DEF Bad
    <3> QED
      BY <3>1, SmallestPred
  <2>2. {H[c] : c \in Kids(t)} \in SUBSET BOOLEAN
    BY <2>1
  <2> HIDE DEF M
  <2>3. H[t] = M(t, {H[c] : c \in Kids(t)})
    BY <1>4
  <2> QED
    BY <1>1, <2>2, <2>3
<1>7. SUFFICES ASSUME NEW t \in Preds
               PROVE  H[t] \in BOOLEAN /\ H[t] = M(t, {H[c] : c \in Kids(t)})
  BY <1>5
<1> HIDE DEF M
<1> QED
  BY <1>4, <1>6

Matches == [st : {"PROVEN_OVERLAP", "PROVEN_DISJOINT", "POSSIBLE_OVERLAP", "UNKNOWN"},
            assumed : BOOLEAN]

LEMMA MatchTypes ==
    /\ \A p, w : MatchAtom(p, w) \in Matches
    /\ \A kind, results : CombineMatches(kind, results) \in Matches
<1>1. \A p, w : MatchAtom(p, w) \in Matches
  BY DEF MatchAtom, MatchLiterals, Matches, Matched, Defaulted, Decide
<1>2. \A kind, results : CombineMatches(kind, results) \in Matches
  <2> TAKE kind, results
  <2>1. Assumes(results) \in BOOLEAN
    BY DEF Assumes
  <2> QED
    BY <2>1 DEF CombineMatches, Matches
<1> QED
  BY <1>1, <1>2

LEMMA MatchIs ==
    ASSUME NEW w
    PROVE  \A t \in Preds :
              /\ MatchConstraint(t, w) \in Matches
              /\ MatchConstraint(t, w) =
                    IF t.k = "atom" THEN MatchAtom(t, w)
                    ELSE CombineMatches(t.k, {MatchConstraint(c, w) : c \in Kids(t)})
<1> DEFINE M(t, ms) == IF t.k = "atom" THEN MatchAtom(t, w) ELSE CombineMatches(t.k, ms)
           G == [t \in Preds |-> [ms \in SUBSET Matches |-> M(t, ms)]]
<1>1. \A t, ms : M(t, ms) \in Matches
  BY MatchTypes
<1>2. PICK f \in [Preds -> Matches] : Folds(f, G)
  <2>1. G \in [Preds -> [SUBSET Matches -> Matches]]
    <3> HIDE DEF M
    <3> QED
      BY <1>1
  <2> HIDE DEF G
  <2> QED
    BY <2>1, FoldExists
<1>3. f = [s \in Preds |-> M(s, {f[c] : c \in Kids(s)})]
  <2>1. \A t \in Preds : {f[c] : c \in Kids(t)} \in SUBSET Matches
    BY <1>2, ValuesOfKids
  <2> HIDE DEF M
  <2>2. \A t \in Preds : f[t] = M(t, {f[c] : c \in Kids(t)})
    BY <1>2, <2>1 DEF Folds
  <2> QED
    BY <1>2, <2>2
<1> DEFINE H == CHOOSE matched :
                    matched = [s \in Preds |-> IF s.k = "atom" THEN MatchAtom(s, w)
                                               ELSE CombineMatches(s.k, {matched[c] : c \in Kids(s)})]
<1>4. H = [s \in Preds |-> M(s, {H[c] : c \in Kids(s)})]
  BY <1>3, Zenon
<1>5. \A t : MatchConstraint(t, w) = H[t]
  BY Zenon DEF MatchConstraint
<1> HIDE DEF H
<1>6. SUFFICES ASSUME NEW t \in Preds
               PROVE  H[t] \in Matches /\ H[t] = M(t, {H[c] : c \in Kids(t)})
  BY <1>5
<1> HIDE DEF M
<1> QED
  BY <1>1, <1>4

-----------------------------------------------------------------------------
(* What is kept of a predicate *)

Kept(t, fields) ==
    {Evaluate(c, fields).p : c \in {d \in Kids(t) : Evaluate(d, fields).st # "IRRELEVANT"}} \ {NoTree}

LEMMA EvaluateLeaf ==
    ASSUME NEW t \in Preds, NEW fields
    PROVE  /\ t.k = "none" => Evaluate(t, fields) = Result("IRRELEVANT", NoTree)
           /\ t.k = "atom" => Evaluate(t, fields) = AtomEvaluation(t, fields)
           /\ t.k = "NOT" => /\ Evaluate(t, fields).p = NoTree
                             /\ Evaluate(t, fields).st \in {"IRRELEVANT", "UNKNOWN"}
<1>1. PICK es : Evaluate(t, fields) = Evaluation(t, es, fields)
  BY EvaluateIs
<1> QED
  BY <1>1 DEF Evaluation, Negate, Result

\* What Combine gives, as far as the proofs use it.
LEMMA EvaluateNode ==
    ASSUME NEW t \in Preds, t.k \in {"AND", "OR"}, NEW fields
    PROVE  LET e == Evaluate(t, fields)
               E(c) == Evaluate(c, fields)
           IN  /\ e.st = "SUPPORTED" \/ e.p # NoTree =>
                     /\ Kept(t, fields) # {} /\ e.p = Joined(t.k, Kept(t, fields))
                     /\ t.k = "OR" => \A c \in Kids(t) : E(c).st # "IRRELEVANT"
               /\ e.st = "SUPPORTED" => \A c \in Kids(t) : E(c).st # "PARTIAL"
               /\ e.st = "IRRELEVANT" => \A c \in Kids(t) : E(c).st = "IRRELEVANT"
               /\ e.st = "UNKNOWN" => \E c \in Kids(t) : E(c).st = "UNKNOWN"
<1> DEFINE es == {Evaluate(c, fields) : c \in Kids(t)}
           relevant == {e \in es : ~Irrelevant(e)}
           kept == {e.p : e \in relevant} \ {NoTree}
<1>1. Evaluate(t, fields) = Combine(t.k, es)
  <2>1. Evaluate(t, fields) = Evaluation(t, es, fields)
    BY EvaluateIs
  <2> HIDE DEF es
  <2> QED
    BY <2>1 DEF Evaluation
<1>2. kept = Kept(t, fields)
  BY DEF Kept, Irrelevant
<1>3. \A c \in Kids(t) : Evaluate(c, fields) \in es
  OBVIOUS
<1>4. \A e \in es : \E c \in Kids(t) : e = Evaluate(c, fields)
  OBVIOUS
<1> HIDE DEF es
<1>5. CASE relevant = {}
  <2>1. Combine(t.k, es) = Result("IRRELEVANT", NoTree)
    BY <1>5 DEF Combine
  <2>2. \A e \in es : e.st = "IRRELEVANT"
    BY <1>5 DEF Irrelevant
  <2> QED
    BY <1>1, <1>3, <2>1, <2>2 DEF Result
<1>6. CASE relevant # {} /\ Unconstrained(t.k, es)
  <2>1. Combine(t.k, es) = Result("PARTIAL", NoTree)
    BY <1>6 DEF Combine
  <2> QED
    BY <1>1, <2>1 DEF Result
<1>7. CASE relevant # {} /\ ~Unconstrained(t.k, es) /\ kept = {}
  <2>1. Combine(t.k, es) = Result(IF \E e \in relevant : e.st = "UNKNOWN" THEN "UNKNOWN" ELSE "PARTIAL", NoTree)
    BY <1>7 DEF Combine
  <2> QED
    BY <1>1, <1>4, <2>1 DEF Result
<1>8. CASE relevant # {} /\ ~Unconstrained(t.k, es) /\ kept # {}
  <2>1. \/ Combine(t.k, es) = Result("PARTIAL", NoTree)
        \/ Combine(t.k, es) = Result("PARTIAL", Joined(t.k, kept))
        \/ /\ Combine(t.k, es) = Result("SUPPORTED", Joined(t.k, kept))
           /\ ~\E e \in relevant : e.st = "PARTIAL"
    BY <1>8 DEF Combine
  <2>2. t.k = "OR" => \A c \in Kids(t) : Evaluate(c, fields).st # "IRRELEVANT"
    BY <1>3, <1>8 DEF Unconstrained, Irrelevant
  <2>3. ~(\E e \in relevant : e.st = "PARTIAL") => \A c \in Kids(t) : Evaluate(c, fields).st # "PARTIAL"
    BY <1>3 DEF Irrelevant
  <2> HIDE DEF relevant
  <2>4. CASE Combine(t.k, es) = Result("PARTIAL", NoTree)
    BY <1>1, <2>4 DEF Result
  <2>5. CASE Combine(t.k, es) = Result("PARTIAL", Joined(t.k, kept))
    <3> HIDE DEF kept
    <3> QED
      BY <1>1, <1>2, <1>8, <2>2, <2>5 DEF Result
  <2>6. CASE /\ Combine(t.k, es) = Result("SUPPORTED", Joined(t.k, kept))
             /\ ~\E e \in relevant : e.st = "PARTIAL"
    <3> HIDE DEF kept
    <3>1. \A c \in Kids(t) : Evaluate(c, fields).st # "PARTIAL"
      BY <2>3, <2>6
    <3> QED
      BY <1>1, <1>2, <1>8, <2>2, <2>6, <3>1 DEF Result
  <2> QED
    BY <2>1, <2>4, <2>5, <2>6
<1> QED
  BY <1>5, <1>6, <1>7, <1>8

LEMMA EvaluateType ==
    ASSUME NEW t \in Preds, NEW fields
    PROVE  Evaluate(t, fields).p \in Preds /\ Evaluate(t, fields).st \in Statuses
  BY EvaluateIs DEF Evaluations

LEMMA KeptType ==
    ASSUME NEW t \in Preds, NEW fields
    PROVE  Kept(t, fields) \in SUBSET (Preds \ {NoTree})
<1>1. \A c \in Kids(t) : c \in Preds
  BY PredIs
<1> QED
  BY <1>1, EvaluateType DEF Kept

\* A part of a joined predicate is the whole or a part of what was joined.
LEMMA JoinedParts ==
    ASSUME NEW kind \in {"AND", "OR"}, NEW kept \in SUBSET Preds, Joined(kind, kept) \in Preds
    PROVE  \A s \in Subtrees(Joined(kind, kept)) : s.k = kind \/ \E q \in kept : s \in Subtrees(q)
<1>1. CASE \E q : kept = {q} /\ Joined(kind, kept) = q
  BY <1>1
<1>2. CASE Joined(kind, kept) = [k |-> kind, kids |-> kept]
  <2>1. Kids(Joined(kind, kept)) = kept /\ Joined(kind, kept).k = kind
    BY <1>2 DEF Kids
  <2> QED
    BY <2>1, SubtreesIs
<1> QED
  BY <1>1, <1>2, JoinedIs

\* An atom is compared: it is kept.
Compared(s) == s.field \in Fields /\ s.op \in Comparable

KeptPart(s, t) == s.k \in {"AND", "OR"} \/ (s.k = "atom" /\ Compared(s) /\ s \in Subtrees(t))

\* Only conjunctions and disjunctions of compared atoms of t are kept of t.
LEMMA KeptParts ==
    \A t \in Preds : Evaluate(t, Fields).p # NoTree =>
        \A s \in Subtrees(Evaluate(t, Fields).p) : KeptPart(s, t)
<1> DEFINE Bad == {t \in Preds : Evaluate(t, Fields).p # NoTree /\
                                 ~\A s \in Subtrees(Evaluate(t, Fields).p) : KeptPart(s, t)}
<1> SUFFICES ASSUME Bad # {} PROVE FALSE
  OBVIOUS
<1>1. PICK t \in Bad : \A c \in Kids(t) : c \in Preds /\ c \notin Bad
  <2>1. Bad \in SUBSET Preds
    OBVIOUS
  <2> HIDE DEF Bad
  <2> QED
    BY <2>1, SmallestPred
<1> DEFINE p == Evaluate(t, Fields).p
<1>2. t \in Preds /\ p # NoTree /\ ~\A s \in Subtrees(p) : KeptPart(s, t)
  OBVIOUS
<1>3. \A c \in Kids(t) : c \in Preds /\ (Evaluate(c, Fields).p # NoTree =>
                            \A s \in Subtrees(Evaluate(c, Fields).p) : KeptPart(s, c))
  BY <1>1
<1> HIDE DEF Bad
<1>4. CASE t.k = "atom"
  <2>1. Evaluate(t, Fields) = AtomEvaluation(t, Fields) /\ Kids(t) = {}
    BY <1>2, <1>4, EvaluateLeaf, LeafKinds
  <2>2. p = t /\ Compared(t)
    BY <1>2, <2>1 DEF AtomEvaluation, Result, Compared
  <2>3. Subtrees(p) = {t}
    BY <1>2, <2>1, <2>2, SubtreesIs
  <2> QED
    BY <1>2, <1>4, <2>2, <2>3 DEF KeptPart
<1>5. CASE t.k \in {"AND", "OR"}
  <2>1. p = Joined(t.k, Kept(t, Fields)) /\ p \in Preds
    BY <1>2, <1>5, EvaluateNode, EvaluateType
  <2>2. ASSUME NEW q \in Kept(t, Fields), NEW s \in Subtrees(q)
        PROVE  KeptPart(s, t)
    <3>1. PICK c \in Kids(t) : q = Evaluate(c, Fields).p /\ q # NoTree
      BY <2>2 DEF Kept
    <3>2. KeptPart(s, c)
      BY <1>3, <2>2, <3>1
    <3> QED
      BY <1>2, <3>2, PartsOfKids DEF KeptPart
  <2>3. \A s \in Subtrees(p) : s.k = t.k \/ \E q \in Kept(t, Fields) : s \in Subtrees(q)
    <3>1. Kept(t, Fields) \in SUBSET Preds
      BY <1>2, KeptType
    <3> QED
      BY <1>5, <2>1, <3>1, JoinedParts
  <2> QED
    BY <1>2, <1>5, <2>2, <2>3 DEF KeptPart
<1>6. CASE t.k \in {"none", "NOT"}
  BY <1>2, <1>6, EvaluateLeaf DEF Result
<1> QED
  BY <1>2, <1>4, <1>5, <1>6, LeafKinds

-----------------------------------------------------------------------------
(* What is kept, compared with what the SQL means *)

LEMMA NodeHolds ==
    ASSUME NEW part \in [Fields -> Literals], NEW env \in Envs,
           NEW other \in BOOLEAN, NEW opaque \in BOOLEAN, NEW t \in Preds
    PROVE  LET H(q) == Holds(q, part, other, opaque, env)
           IN  /\ t.k = "none" => H(t)
               /\ t.k = "atom" /\ t.field \in Fields => H(t) = AtomHolds(t, part[t.field], env)
               /\ t.k = "atom" /\ t.field = "OTHER" => H(t) = other
               /\ t.k = "AND" => (H(t) <=> \A c \in Kids(t) : H(c))
               /\ t.k = "OR" => (H(t) <=> \E c \in Kids(t) : H(c))
<1> DEFINE H(q) == Holds(q, part, other, opaque, env)
           bs == {H(c) : c \in Kids(t)}
<1>1. H(t) = Meaning(t, bs, part, other, opaque, env)
  BY HoldsIs
<1>2. \A c \in Kids(t) : H(c) \in BOOLEAN
  BY HoldsIs, PredIs
<1>3. (TRUE \in bs <=> \E c \in Kids(t) : H(c)) /\ (FALSE \notin bs <=> \A c \in Kids(t) : H(c))
  <2>1. TRUE \in bs <=> \E c \in Kids(t) : H(c) = TRUE
    OBVIOUS
  <2>2. FALSE \in bs <=> \E c \in Kids(t) : H(c) = FALSE
    OBVIOUS
  <2> HIDE DEF bs, H
  <2> QED
    BY <1>2, <2>1, <2>2
<1> HIDE DEF bs
<1> SUFFICES /\ t.k = "none" => H(t)
             /\ t.k = "atom" /\ t.field \in Fields => H(t) = AtomHolds(t, part[t.field], env)
             /\ t.k = "atom" /\ t.field = "OTHER" => H(t) = other
             /\ t.k = "AND" => (H(t) <=> \A c \in Kids(t) : H(c))
             /\ t.k = "OR" => (H(t) <=> \E c \in Kids(t) : H(c))
  BY Zenon
<1> HIDE DEF H
<1>4. t.k = "none" => H(t)
  BY <1>1 DEF Meaning
<1>5. t.k = "atom" /\ t.field \in Fields => H(t) = AtomHolds(t, part[t.field], env)
  BY <1>1, ScopeAssumption DEF Meaning
<1>6. t.k = "atom" /\ t.field = "OTHER" => H(t) = other
  BY <1>1 DEF Meaning
<1>7. t.k = "AND" => (H(t) <=> \A c \in Kids(t) : H(c))
  <2>1. t.k = "AND" => H(t) = (FALSE \notin bs)
    BY <1>1 DEF Meaning
  <2> QED
    BY <1>3, <2>1
<1>8. t.k = "OR" => (H(t) <=> \E c \in Kids(t) : H(c))
  <2>1. t.k = "OR" => H(t) = (TRUE \in bs)
    BY <1>1 DEF Meaning
  <2> QED
    BY <1>3, <2>1
<1> QED
  BY <1>4, <1>5, <1>6, <1>7, <1>8

LEMMA JoinedHolds ==
    ASSUME NEW part \in [Fields -> Literals], NEW env \in Envs,
           NEW other \in BOOLEAN, NEW opaque \in BOOLEAN,
           NEW kind \in {"AND", "OR"}, NEW kept \in SUBSET Preds, Joined(kind, kept) \in Preds
    PROVE  LET H(q) == Holds(q, part, other, opaque, env)
           IN  /\ kind = "AND" => (H(Joined(kind, kept)) <=> \A q \in kept : H(q))
               /\ kind = "OR" => (H(Joined(kind, kept)) <=> \E q \in kept : H(q))
<1>1. CASE \E q : kept = {q} /\ Joined(kind, kept) = q
  BY <1>1
<1>2. CASE Joined(kind, kept) = [k |-> kind, kids |-> kept]
  <2>1. Kids(Joined(kind, kept)) = kept /\ Joined(kind, kept).k = kind
    BY <1>2 DEF Kids
  <2> QED
    BY <2>1, NodeHolds
<1> QED
  BY <1>1, <1>2, JoinedIs

\* No disjunction in t has a branch of which nothing was understood.
Remembers(t) ==
    \A s \in Subtrees(t) : s.k = "OR" =>
        \A c \in Kids(s) : Evaluate(c, Fields).p # NoTree \/ Evaluate(c, Fields).st = "IRRELEVANT"

LEMMA RemembersKids ==
    ASSUME NEW t \in Preds, Remembers(t)
    PROVE  \A c \in Kids(t) : Remembers(c)
  BY PartsOfKids DEF Remembers

\* What is kept of a predicate is no stronger than the predicate (evaluate,
\* combine), as long as no disjunction in it drops a branch.
THEOREM KeptIsWeaker ==
    ASSUME NEW part \in [Fields -> Literals], NEW env \in Envs,
           NEW other \in BOOLEAN, NEW opaque \in BOOLEAN
    PROVE  \A t \in Preds :
              Remembers(t) /\ Evaluate(t, Fields).p # NoTree /\ Holds(t, part, other, opaque, env)
              => Holds(Evaluate(t, Fields).p, part, other, opaque, env)
<1> DEFINE H(q) == Holds(q, part, other, opaque, env)
           P(q) == Evaluate(q, Fields).p
           Good(q) == Remembers(q) /\ P(q) # NoTree /\ H(q) => H(P(q))
           Bad == {t \in Preds : ~Good(t)}
<1> SUFFICES ASSUME Bad # {} PROVE FALSE
  OBVIOUS
<1>1. PICK t \in Bad : \A c \in Kids(t) : c \in Preds /\ c \notin Bad
  <2>1. Bad \in SUBSET Preds
    OBVIOUS
  <2> HIDE DEF Bad
  <2> QED
    BY <2>1, SmallestPred
<1>2. t \in Preds /\ Remembers(t) /\ P(t) # NoTree /\ H(t) /\ ~H(P(t))
  OBVIOUS
<1>3. \A c \in Kids(t) : c \in Preds /\ (P(c) # NoTree /\ H(c) => H(P(c)))
  <2>1. \A c \in Kids(t) : c \in Preds /\ Good(c)
    <3> HIDE DEF Good
    <3> QED
      BY <1>1
  <2> HIDE DEF H, P
  <2> QED
    BY <1>2, <2>1, RemembersKids
<1> HIDE DEF Bad
<1>4. CASE t.k = "atom"
  <2>1. P(t) = t
    BY <1>2, <1>4, EvaluateLeaf DEF AtomEvaluation, Result
  <2> QED
    BY <1>2, <2>1
<1>5. CASE t.k \in {"AND", "OR"}
  <2>1. Kept(t, Fields) \in SUBSET Preds /\ P(t) = Joined(t.k, Kept(t, Fields)) /\ P(t) \in Preds
    BY <1>2, <1>5, EvaluateNode, EvaluateType, KeptType
  <2>2. /\ t.k = "AND" => (H(P(t)) <=> \A q \in Kept(t, Fields) : H(q))
        /\ t.k = "OR" => (H(P(t)) <=> \E q \in Kept(t, Fields) : H(q))
    BY <1>5, <2>1, JoinedHolds
  <2>3. CASE t.k = "AND"
    <3>1. \A c \in Kids(t) : H(c)
      BY <1>2, <2>3, NodeHolds
    <3>2. \A q \in Kept(t, Fields) : \E c \in Kids(t) : q = P(c) /\ P(c) # NoTree
      BY DEF Kept
    <3> HIDE DEF H, P
    <3>3. \A q \in Kept(t, Fields) : H(q)
      BY <1>3, <3>1, <3>2
    <3> QED
      BY <1>2, <2>2, <2>3, <3>3
  <2>4. CASE t.k = "OR"
    <3>1. PICK c \in Kids(t) : H(c)
      BY <1>2, <2>4, NodeHolds
    <3>2. Evaluate(c, Fields).st # "IRRELEVANT"
      BY <1>2, <1>5, <2>4, <3>1, EvaluateNode
    <3>3. P(c) # NoTree
      BY <1>2, <2>4, <3>1, <3>2, PartsOfKids DEF Remembers
    <3>4. P(c) \in Kept(t, Fields)
      BY <3>1, <3>2, <3>3 DEF Kept
    <3> HIDE DEF H, P
    <3> QED
      BY <1>2, <1>3, <2>2, <2>4, <3>1, <3>3, <3>4
  <2> QED
    BY <1>5, <2>3, <2>4
<1>6. CASE t.k \in {"none", "NOT"}
  BY <1>2, <1>6, EvaluateLeaf DEF Result
<1> QED
  BY <1>2, <1>4, <1>5, <1>6, LeafKinds

LEMMA UnderstoodKids ==
    ASSUME NEW t \in Preds, Understood(t)
    PROVE  \A c \in Kids(t) : Understood(c)
  BY PartsOfKids DEF Understood

\* What is kept of a predicate that is understood and SUPPORTED is no weaker
\* than it, for the rows that satisfy the atoms over other columns (evaluate,
\* combine).
THEOREM KeptIsStronger ==
    ASSUME NEW part \in [Fields -> Literals], NEW env \in Envs,
           NEW other \in BOOLEAN, NEW opaque \in BOOLEAN
    PROVE  other => \A t \in Preds : Understood(t) =>
              LET e == Evaluate(t, Fields)
                  H(q) == Holds(q, part, other, opaque, env)
              IN  /\ e.st # "UNKNOWN"
                  /\ e.st = "IRRELEVANT" => H(t)
                  /\ e.st = "SUPPORTED" => e.p # NoTree /\ (H(e.p) => H(t))
<1> DEFINE H(q) == Holds(q, part, other, opaque, env)
           E(q) == Evaluate(q, Fields)
           Good(q) == Understood(q) => /\ E(q).st # "UNKNOWN"
                                       /\ E(q).st = "IRRELEVANT" => H(q)
                                       /\ E(q).st = "SUPPORTED" => E(q).p # NoTree /\ (H(E(q).p) => H(q))
           Bad == {t \in Preds : ~Good(t)}
<1>0. SUFFICES ASSUME other, Bad # {} PROVE FALSE
  OBVIOUS
<1>1. PICK t \in Bad : \A c \in Kids(t) : c \in Preds /\ c \notin Bad
  <2>1. Bad \in SUBSET Preds
    OBVIOUS
  <2> HIDE DEF Bad
  <2> QED
    BY <1>0, <2>1, SmallestPred
<1>2. t \in Preds /\ Understood(t) /\ ~Good(t)
  OBVIOUS
<1>3. \A c \in Kids(t) : c \in Preds /\ Good(c) /\ Understood(c)
  <2> HIDE DEF Good
  <2> QED
    BY <1>1, <1>2, UnderstoodKids
<1> HIDE DEF Bad
<1>4. CASE t.k = "atom"
  <2>1. E(t) = AtomEvaluation(t, Fields) /\ t \in Atoms
    BY <1>2, <1>4, EvaluateLeaf, LeafKinds
  <2>2. t.field # "OPAQUE" /\ (t.field \in Fields => t.op \in Comparable)
    BY <1>2, <1>4, PartsOfKids DEF Understood
  <2>3. CASE t.field \in Fields
    <3>1. E(t) = Result("SUPPORTED", t)
      BY <2>1, <2>2, <2>3 DEF AtomEvaluation
    <3>2. t # NoTree
      BY <1>4 DEF NoTree
    <3> HIDE DEF H, E
    <3> QED
      BY <1>2, <3>1, <3>2 DEF Result
  <2>4. CASE t.field \notin Fields
    <3>1. t.field = "OTHER"
      BY <2>1, <2>2, <2>4, AtomIs
    <3>2. E(t) = Result("IRRELEVANT", NoTree)
      BY <2>1, <2>2, <2>4 DEF AtomEvaluation
    <3>3. H(t)
      <4>1. H(t) = other
        BY <1>2, <1>4, <3>1, NodeHolds
      <4> HIDE DEF H
      <4> QED
        BY <1>0, <4>1
    <3> HIDE DEF H
    <3> QED
      BY <1>2, <3>2, <3>3 DEF Result
  <2> QED
    BY <2>3, <2>4
<1>5. CASE t.k \in {"AND", "OR"}
  <2>1. Kids(t) # {}
    BY <1>2, <1>5, LeafKinds
  <2>2. E(t).st # "UNKNOWN"
    BY <1>2, <1>3, <1>5, EvaluateNode
  <2>3. ASSUME E(t).st = "IRRELEVANT" PROVE H(t)
    <3>1. \A c \in Kids(t) : H(c)
      <4>1. \A c \in Kids(t) : E(c).st = "IRRELEVANT"
        BY <1>2, <1>5, <2>3, EvaluateNode
      <4> HIDE DEF H, E
      <4> QED
        BY <1>3, <4>1
    <3> QED
      BY <1>2, <1>5, <2>1, <3>1, NodeHolds
  <2>4. ASSUME E(t).st = "SUPPORTED" PROVE E(t).p # NoTree /\ (H(E(t).p) => H(t))
    <3> DEFINE kept == Kept(t, Fields)
    <3>1. /\ kept \in SUBSET Preds /\ NoTree \notin kept /\ kept # {}
          /\ E(t).p = Joined(t.k, kept) /\ E(t).p \in Preds
          /\ t.k = "OR" => \A c \in Kids(t) : E(c).st # "IRRELEVANT"
          /\ \A c \in Kids(t) : E(c).st # "PARTIAL"
      BY <1>2, <1>5, <2>4, EvaluateNode, EvaluateType, KeptType
    <3>2. E(t).p # NoTree
      <4> HIDE DEF E, kept
      <4>1. CASE \E q : kept = {q} /\ Joined(t.k, kept) = q
        BY <3>1, <4>1
      <4>2. CASE Joined(t.k, kept) = [k |-> t.k, kids |-> kept]
        BY <1>5, <3>1, <4>2 DEF NoTree
      <4> QED
        BY <4>1, <4>2, JoinedIs
    <3>3. \A c \in Kids(t) : \/ E(c).st = "IRRELEVANT" /\ H(c)
                             \/ E(c).st = "SUPPORTED" /\ E(c).p \in kept /\ (H(E(c).p) => H(c))
      <4> TAKE c \in Kids(t)
      <4>1. E(c).st \in {"IRRELEVANT", "SUPPORTED"}
        BY <1>3, <3>1, EvaluateType DEF Statuses
      <4>2. CASE E(c).st = "IRRELEVANT"
        <5>1. H(c)
          <6> HIDE DEF H, E
          <6> QED
            BY <1>3, <4>2
        <5> HIDE DEF H, E, kept
        <5> QED
          BY <4>2, <5>1
      <4>3. CASE E(c).st = "SUPPORTED"
        <5>1. E(c).p # NoTree /\ (H(E(c).p) => H(c))
          <6> HIDE DEF H, E
          <6> QED
            BY <1>3, <4>3
        <5>2. E(c).p \in kept
          BY <4>3, <5>1 DEF Kept
        <5> QED
          BY <4>3, <5>1, <5>2
      <4> QED
        BY <4>1, <4>2, <4>3
    <3>4. \A q \in kept : \E c \in Kids(t) : q = E(c).p /\ E(c).st # "IRRELEVANT"
      BY DEF Kept
    <3>5. /\ t.k = "AND" => (H(E(t).p) <=> \A q \in kept : H(q))
          /\ t.k = "OR" => (H(E(t).p) <=> \E q \in kept : H(q))
      BY <1>5, <3>1, JoinedHolds
    <3>6. /\ t.k = "AND" => (H(t) <=> \A c \in Kids(t) : H(c))
          /\ t.k = "OR" => (H(t) <=> \E c \in Kids(t) : H(c))
      BY <1>2, NodeHolds
    <3> HIDE DEF H, E, kept
    <3>7. H(E(t).p) => H(t)
      BY <1>5, <3>3, <3>4, <3>5, <3>6
    <3> QED
      BY <3>2, <3>7
  <2> HIDE DEF H, E
  <2> QED
    BY <1>2, <2>2, <2>3, <2>4
<1>6. CASE t.k = "none"
  <2>1. E(t) = Result("IRRELEVANT", NoTree) /\ H(t)
    BY <1>2, <1>6, EvaluateLeaf, NodeHolds
  <2> HIDE DEF H, E
  <2> QED
    BY <1>2, <2>1 DEF Result
<1>7. t.k # "NOT"
  BY <1>2, PartsOfKids DEF Understood
<1> QED
  BY <1>2, <1>4, <1>5, <1>6, <1>7, LeafKinds

-----------------------------------------------------------------------------
(* The match of what is kept with a write *)

\* All of p can be compared with a write.
Plain(p) == \A s \in Subtrees(p) : s.k \in {"AND", "OR"} \/ (s.k = "atom" /\ Compared(s))

\* No strict comparison with a runtime expression.
Loose(p) == \A s \in Subtrees(p) :
                s.k = "atom" /\ Compared(s) /\ s.op \in {"LT", "GT"} => s.vals[1] \in Literals

LEMMA PlainKids ==
    ASSUME NEW p \in Preds
    PROVE  /\ Plain(p) => \A c \in Kids(p) : c \in Preds /\ Plain(c)
           /\ Loose(p) => \A c \in Kids(p) : c \in Preds /\ Loose(c)
  BY PartsOfKids, PredIs DEF Plain, Loose

\* A column orders the numbers that w and the atoms of p name as numbers, and
\* the dates like their texts; and no value that EQ or IN compares has two texts.
InOrder(p, w)  == \A a \in Constraints(p) : PlainOrder(a, w)
OneText(p, w)  == \A a \in Constraints(p) : PlainValues(a, w)

LEMMA PartsOfConstraints ==
    ASSUME NEW p \in Preds
    PROVE  \A c \in Kids(p) : Constraints(c) \subseteq Constraints(p)
  BY PartsOfKids DEF Constraints

\* Literals that can be ordered: the range says what the column says.
LEMMA RangeIs ==
    ASSUME NEW p \in Atoms, Compared(p), p.op \notin {"EQ", "IN"}, NEW w \in Writes, NEW env,
           w.part[p.field] \in Literals, PlainOrder(p, w),
           \A i \in DOMAIN p.vals : /\ p.vals[i] \in Literals
                                    /\ CanOrder(w.part[p.field], p.vals[i])
    PROVE  InRange(p, w.part[p.field]) <=> AtomHolds(p, w.part[p.field], env)
<1> DEFINE x == w.part[p.field]
           y(i) == p.vals[i]
           S(l) == Sense[p.field][l]
<1>1. 1 \in DOMAIN p.vals /\ (p.op = "BETWEEN" => 2 \in DOMAIN p.vals)
  BY AtomIs
<1>2. \A i \in DOMAIN p.vals : /\ Value(y(i), env) = y(i)
                               /\ Less(x, y(i)) <=> S(x) < S(y(i))
                               /\ Less(y(i), x) <=> S(y(i)) < S(x)
                               /\ S(x) \in Int /\ S(y(i)) \in Int
  <2> SUFFICES ASSUME NEW i \in DOMAIN p.vals
               PROVE  /\ Value(y(i), env) = y(i)
                      /\ Less(x, y(i)) <=> S(x) < S(y(i))
                      /\ Less(y(i), x) <=> S(y(i)) < S(x)
                      /\ S(x) \in Int /\ S(y(i)) \in Int
    OBVIOUS
  <2>1. y(i) \in Literals /\ CanOrder(x, y(i))
    OBVIOUS
  <2>2. Value(y(i), env) = y(i)
    BY <2>1, ScopeAssumption DEF Value
  <2>3. SameOrder(p.field, x, y(i)) /\ SameOrder(p.field, y(i), x)
    BY <2>1 DEF PlainOrder
  <2>4. S(x) \in Int /\ S(y(i)) \in Int
    BY <2>1, TextAssumption DEF Compared
  <2> QED
    BY <2>2, <2>3, <2>4 DEF SameOrder, Less, Numbers
<1> HIDE DEF x, y, S
<1>3. p.op \in {"LT", "LTE", "GT", "GTE", "BETWEEN"}
  BY DEF Compared, Comparable
<1>4. /\ Value(y(1), env) = y(1)
      /\ Less(x, y(1)) <=> S(x) < S(y(1))
      /\ Less(y(1), x) <=> S(y(1)) < S(x)
      /\ S(x) \in Int /\ S(y(1)) \in Int
  BY <1>1, <1>2
<1>5. CASE p.op = "LT"
  BY <1>4, <1>5 DEF AtomHolds, InRange, x, y, S
<1>6. CASE p.op = "LTE"
  BY <1>4, <1>6 DEF AtomHolds, InRange, x, y, S
<1>7. CASE p.op = "GT"
  BY <1>4, <1>7 DEF AtomHolds, InRange, x, y, S
<1>8. CASE p.op = "GTE"
  BY <1>4, <1>8 DEF AtomHolds, InRange, x, y, S
<1>9. CASE p.op = "BETWEEN"
  <2>1. /\ Value(y(2), env) = y(2)
        /\ Less(y(2), x) <=> S(y(2)) < S(x)
        /\ S(y(2)) \in Int
    BY <1>1, <1>2, <1>9
  <2> QED
    BY <1>4, <1>9, <2>1 DEF AtomHolds, InRange, x, y, S
<1> QED
  BY <1>3, <1>5, <1>6, <1>7, <1>8, <1>9

\* The value that a write gives a field is the one of every partition it fills.
LEMMA FilledIs ==
    ASSUME NEW w \in Writes, NEW env \in Envs, NEW part \in Filled(w, env), NEW field \in Fields
    PROVE  /\ part \in [Fields -> Literals]
           /\ w.part[field] \in Literals => part[field] = w.part[field]
           /\ w.part[field] \in Runtimes => part[field] = env[w.part[field]]
<1>1. w.part[field] \in {STAR, MISSING} \/ part[field] = Value(w.part[field], env)
  BY DEF Filled
<1>2. part \in [Fields -> Literals]
  BY DEF Filled
<1> QED
  BY <1>1, <1>2, ScopeAssumption DEF Value

\* A write fills some partition, whatever the runtime expressions are.
LEMMA FillsSome ==
    ASSUME NEW w \in Writes, NEW env \in Envs
    PROVE  \E part \in [Fields -> Literals] : part \in Filled(w, env)
<1>1. PICK x \in Literals : TRUE
  BY ScopeAssumption
<1> DEFINE part == [f \in Fields |-> IF w.part[f] \in {STAR, MISSING} THEN x ELSE Value(w.part[f], env)]
<1>2. ASSUME NEW f \in Fields PROVE part[f] \in Literals
  <2>1. w.part[f] \in Literals \cup Runtimes \cup {STAR, MISSING}
    BY DEF Writes
  <2> QED
    BY <2>1, ValueIs
<1>3. part \in [Fields -> Literals]
  BY <1>2
<1>4. \A f \in Fields : w.part[f] \in {STAR, MISSING} \/ part[f] = Value(w.part[f], env)
  OBVIOUS
<1> QED
  BY <1>3, <1>4 DEF Filled

LEMMA AtomDisjoint ==
    ASSUME NEW p \in Atoms, Compared(p), NEW w \in Writes, NEW env \in Envs,
           PlainValues(p, w), PlainOrder(p, w),
           NEW part \in Filled(w, env), MatchAtom(p, w).st = "PROVEN_DISJOINT"
    PROVE  ~AtomHolds(p, part[p.field], env)
<1> DEFINE x == w.part[p.field]
<1>1. /\ x \in Literals
      /\ \A i \in DOMAIN p.vals : p.vals[i] \in Literals
      /\ MatchLiterals(p, x).st = "PROVEN_DISJOINT"
  BY DEF MatchAtom, Matched, Defaulted, Dynamic
<1>2. part[p.field] = x
  BY <1>1, FilledIs DEF Compared
<1>3. CASE p.op \in {"EQ", "IN"}
  <2>1. \A i \in DOMAIN p.vals : p.vals[i] # x
    BY <1>1, <1>3 DEF MatchLiterals, Decide, Matched
  <2>2. \A i \in DOMAIN p.vals : /\ Value(p.vals[i], env) = p.vals[i]
                                 /\ Sense[p.field][x] # Sense[p.field][p.vals[i]]
    BY <1>1, <1>3, <2>1, ScopeAssumption DEF PlainValues, Value
  <2>3. 1 \in DOMAIN p.vals
    BY AtomIs
  <2>4. CASE p.op = "EQ"
    BY <1>2, <2>2, <2>3, <2>4 DEF AtomHolds
  <2>5. CASE p.op = "IN"
    BY <1>2, <2>2, <2>5 DEF AtomHolds
  <2> QED
    BY <1>3, <2>4, <2>5
<1>4. CASE p.op \notin {"EQ", "IN"}
  <2>1. ~InRange(p, x) /\ \A i \in DOMAIN p.vals : CanOrder(x, p.vals[i])
    BY <1>1, <1>4 DEF MatchLiterals, Decide, Matched
  <2> QED
    BY <1>1, <1>2, <1>4, <2>1, RangeIs
<1> QED
  BY <1>3, <1>4

LEMMA AtomOverlap ==
    ASSUME NEW p \in Atoms, Compared(p), p.op \in {"LT", "GT"} => p.vals[1] \in Literals,
           NEW w \in Writes, NEW env \in Envs, NEW part \in Filled(w, env), PlainOrder(p, w),
           MatchAtom(p, w).st = "PROVEN_OVERLAP", ~MatchAtom(p, w).assumed
    PROVE  AtomHolds(p, part[p.field], env)
<1> DEFINE actual == w.part[p.field]
<1>0. 1 \in DOMAIN p.vals
  BY AtomIs
<1>1. \/ p.vals = <<actual>> /\ actual \in Runtimes
      \/ /\ actual \in Literals /\ \A i \in DOMAIN p.vals : p.vals[i] \in Literals
         /\ MatchLiterals(p, actual).st = "PROVEN_OVERLAP"
  BY DEF MatchAtom, Matched, Defaulted, Dynamic
<1>2. CASE p.vals = <<actual>> /\ actual \in Runtimes
  <2>1. part[p.field] = env[actual] /\ Sense[p.field][part[p.field]] \in Int
    <3>1. p.field \in Fields
      BY DEF Compared
    <3>2. part \in [Fields -> Literals] /\ part[p.field] = env[actual]
      BY <1>2, <3>1, FilledIs
    <3>3. part[p.field] \in Literals
      BY <3>1, <3>2
    <3> QED
      BY <3>1, <3>2, <3>3, TextAssumption
  <2>2. p.vals[1] = actual /\ Len(p.vals) = 1 /\ 1 \in DOMAIN p.vals
    BY <1>2
  <2>3. Value(p.vals[1], env) = part[p.field]
    BY <1>2, <2>1, <2>2 DEF Value
  <2>4. p.op \in {"EQ", "LTE", "GTE", "IN"}
    BY <1>2, <2>2, AtomIs, ScopeAssumption DEF Compared, Comparable
  <2>5. CASE p.op = "EQ"
    BY <2>3, <2>5 DEF AtomHolds
  <2>6. CASE p.op = "LTE"
    BY <2>1, <2>3, <2>6 DEF AtomHolds
  <2>7. CASE p.op = "GTE"
    BY <2>1, <2>3, <2>7 DEF AtomHolds
  <2>8. CASE p.op = "IN"
    BY <2>2, <2>3, <2>8 DEF AtomHolds
  <2> QED
    BY <2>4, <2>5, <2>6, <2>7, <2>8
<1>3. CASE /\ actual \in Literals /\ \A i \in DOMAIN p.vals : p.vals[i] \in Literals
           /\ MatchLiterals(p, actual).st = "PROVEN_OVERLAP"
  <2>1. part[p.field] = actual
    BY <1>3, FilledIs DEF Compared
  <2>2. CASE p.op \in {"EQ", "IN"}
    <3>1. \E i \in DOMAIN p.vals : p.vals[i] = actual
      BY <1>3, <2>2 DEF MatchLiterals, Decide, Matched
    <3>2. \A i \in DOMAIN p.vals : Value(p.vals[i], env) = p.vals[i]
      BY <1>3, ScopeAssumption DEF Value
    <3>3. CASE p.op = "EQ"
      <4>1. p.vals[1] = actual
        BY <3>1, <3>3, AtomIs
      <4> QED
        BY <1>0, <2>1, <3>2, <3>3, <4>1 DEF AtomHolds
    <3>4. CASE p.op = "IN"
      BY <2>1, <3>1, <3>2, <3>4 DEF AtomHolds
    <3> QED
      BY <2>2, <3>3, <3>4
  <2>3. CASE p.op \notin {"EQ", "IN"}
    <3>1. InRange(p, actual) /\ \A i \in DOMAIN p.vals : CanOrder(actual, p.vals[i])
      BY <1>3, <2>3 DEF MatchLiterals, Decide, Matched
    <3> QED
      BY <1>3, <2>1, <2>3, <3>1, RangeIs
  <2> QED
    BY <2>2, <2>3
<1> QED
  BY <1>1, <1>2, <1>3

\* A predicate that is disjoint from a write holds of no partition it fills.
LEMMA DisjointFails ==
    ASSUME NEW w \in Writes, NEW env \in Envs, NEW part \in Filled(w, env),
           NEW other \in BOOLEAN, NEW opaque \in BOOLEAN
    PROVE  \A p \in Preds :
              /\ Plain(p) /\ OneText(p, w) /\ InOrder(p, w)
              /\ MatchConstraint(p, w).st = "PROVEN_DISJOINT"
              => ~Holds(p, part, other, opaque, env)
<1> DEFINE H(q) == Holds(q, part, other, opaque, env)
           M(q) == MatchConstraint(q, w)
           Fits(q) == Plain(q) /\ OneText(q, w) /\ InOrder(q, w)
           Good(q) == Fits(q) /\ M(q).st = "PROVEN_DISJOINT" => ~H(q)
           Bad == {p \in Preds : ~Good(p)}
<1> SUFFICES ASSUME Bad # {} PROVE FALSE
  OBVIOUS
<1>1. PICK p \in Bad : \A c \in Kids(p) : c \in Preds /\ c \notin Bad
  <2>1. Bad \in SUBSET Preds
    OBVIOUS
  <2> HIDE DEF Bad
  <2> QED
    BY <2>1, SmallestPred
<1>2. p \in Preds /\ Fits(p) /\ M(p).st = "PROVEN_DISJOINT" /\ H(p)
  OBVIOUS
<1>3. \A c \in Kids(p) : M(c).st = "PROVEN_DISJOINT" => ~H(c)
  <2>1. \A c \in Kids(p) : Good(c)
    <3> HIDE DEF Good
    <3> QED
      BY <1>1
  <2>2. \A c \in Kids(p) : Fits(c)
    BY <1>2, PlainKids, PartsOfConstraints DEF OneText, InOrder
  <2> HIDE DEF H, M, Fits
  <2> QED
    BY <2>1, <2>2
<1> HIDE DEF Bad
<1>0. part \in [Fields -> Literals]
  BY DEF Filled
<1>4. CASE p.k = "atom"
  <2>1. p \in Atoms /\ Compared(p) /\ M(p) = MatchAtom(p, w)
    BY <1>2, <1>4, LeafKinds, PartsOfKids, MatchIs DEF Plain
  <2>2. ~AtomHolds(p, part[p.field], env)
    <3>1. PlainValues(p, w) /\ PlainOrder(p, w)
      BY <1>2, <1>4, <2>1, PartsOfKids DEF Compared, Constraints, OneText, InOrder
    <3> QED
      BY <1>2, <2>1, <3>1, AtomDisjoint
  <2>3. H(p) = AtomHolds(p, part[p.field], env)
    <3>1. p \in Preds /\ p.field \in Fields
      BY <1>2, <2>1 DEF Compared
    <3> QED
      BY <1>0, <1>4, <3>1, NodeHolds
  <2> HIDE DEF H
  <2> QED
    BY <1>2, <2>2, <2>3
<1>5. CASE p.k \in {"AND", "OR"}
  <2> DEFINE ms == {M(c) : c \in Kids(p)}
  <2>1. M(p) = CombineMatches(p.k, ms)
    BY <1>2, <1>5, MatchIs
  <2>2. /\ p.k = "AND" => (H(p) <=> \A c \in Kids(p) : H(c))
        /\ p.k = "OR" => (H(p) <=> \E c \in Kids(p) : H(c))
    BY <1>0, <1>2, NodeHolds
  <2>3. (\E m \in ms : m.st = "PROVEN_DISJOINT") => \E c \in Kids(p) : M(c).st = "PROVEN_DISJOINT"
    OBVIOUS
  <2>4. (\A m \in ms : m.st = "PROVEN_DISJOINT") => \A c \in Kids(p) : M(c).st = "PROVEN_DISJOINT"
    OBVIOUS
  <2>5. /\ p.k = "AND" => \E m \in ms : m.st = "PROVEN_DISJOINT"
        /\ p.k = "OR" => \A m \in ms : m.st = "PROVEN_DISJOINT"
    <3> HIDE DEF ms, M
    <3> QED
      BY <1>2, <1>5, <2>1 DEF CombineMatches
  <2> HIDE DEF H, M, ms
  <2> QED
    BY <1>2, <1>3, <1>5, <2>2, <2>3, <2>4, <2>5
<1>6. p.k \in {"atom", "AND", "OR"}
  BY <1>2, PartsOfKids DEF Plain
<1> QED
  BY <1>4, <1>5, <1>6

\* A predicate that overlaps a write for certain holds of every partition it fills.
LEMMA OverlapHolds ==
    ASSUME NEW w \in Writes, NEW env \in Envs, NEW part \in Filled(w, env),
           NEW other \in BOOLEAN, NEW opaque \in BOOLEAN
    PROVE  \A p \in Preds :
              /\ Plain(p) /\ Loose(p) /\ InOrder(p, w)
              /\ MatchConstraint(p, w).st = "PROVEN_OVERLAP" /\ ~MatchConstraint(p, w).assumed
              => Holds(p, part, other, opaque, env)
<1> DEFINE H(q) == Holds(q, part, other, opaque, env)
           M(q) == MatchConstraint(q, w)
           Sure(m) == m.st = "PROVEN_OVERLAP" /\ ~m.assumed
           Fits(q) == Plain(q) /\ Loose(q) /\ InOrder(q, w)
           Good(q) == Fits(q) /\ Sure(M(q)) => H(q)
           Bad == {p \in Preds : ~Good(p)}
<1> SUFFICES ASSUME Bad # {} PROVE FALSE
  OBVIOUS
<1>1. PICK p \in Bad : \A c \in Kids(p) : c \in Preds /\ c \notin Bad
  <2>1. Bad \in SUBSET Preds
    OBVIOUS
  <2> HIDE DEF Bad
  <2> QED
    BY <2>1, SmallestPred
<1>2. p \in Preds /\ Fits(p) /\ Sure(M(p)) /\ ~H(p)
  OBVIOUS
<1>3. \A c \in Kids(p) : Sure(M(c)) => H(c)
  <2>1. \A c \in Kids(p) : Good(c)
    <3> HIDE DEF Good
    <3> QED
      BY <1>1
  <2>2. \A c \in Kids(p) : Fits(c)
    BY <1>2, PlainKids, PartsOfConstraints DEF InOrder
  <2> HIDE DEF H, M, Sure, Fits
  <2> QED
    BY <2>1, <2>2
<1> HIDE DEF Bad
<1>0. part \in [Fields -> Literals]
  BY DEF Filled
<1>4. CASE p.k = "atom"
  <2>1. p \in Atoms /\ Compared(p) /\ M(p) = MatchAtom(p, w)
    BY <1>2, <1>4, LeafKinds, PartsOfKids, MatchIs DEF Plain
  <2>2. p.op \in {"LT", "GT"} => p.vals[1] \in Literals
    BY <1>2, <1>4, <2>1, PartsOfKids DEF Loose
  <2>3. AtomHolds(p, part[p.field], env)
    <3>1. PlainOrder(p, w)
      BY <1>2, <1>4, <2>1, PartsOfKids DEF Compared, Constraints, InOrder
    <3> QED
      BY <1>2, <2>1, <2>2, <3>1, AtomOverlap
  <2>4. H(p) = AtomHolds(p, part[p.field], env)
    <3>1. p \in Preds /\ p.field \in Fields
      BY <1>2, <2>1 DEF Compared
    <3> QED
      BY <1>0, <1>4, <3>1, NodeHolds
  <2> HIDE DEF H
  <2> QED
    BY <1>2, <2>3, <2>4
<1>5. CASE p.k \in {"AND", "OR"}
  <2> DEFINE ms == {M(c) : c \in Kids(p)}
  <2>1. M(p) = CombineMatches(p.k, ms) /\ \A m \in ms : m \in Matches
    BY <1>2, <1>5, MatchIs, PredIs
  <2>2. /\ p.k = "AND" => (H(p) <=> \A c \in Kids(p) : H(c))
        /\ p.k = "OR" => (H(p) <=> \E c \in Kids(p) : H(c))
    BY <1>0, <1>2, NodeHolds
  <2>3. (\A c \in Kids(p) : M(c) \in ms) /\ (\A m \in ms : \E c \in Kids(p) : m = M(c))
    OBVIOUS
  <2>4. \A m \in ms : ~m.assumed
    <3>1. M(p).assumed = Assumes(ms)
      <4> HIDE DEF ms, M
      <4> QED
        BY <2>1 DEF CombineMatches
    <3>2. ~Assumes(ms)
      <4> HIDE DEF ms, M
      <4> QED
        BY <1>2, <3>1
    <3> HIDE DEF ms
    <3> QED
      BY <3>2 DEF Assumes
  <2>5. /\ p.k = "AND" => \A m \in ms : m.st = "PROVEN_OVERLAP"
        /\ p.k = "OR" => \E m \in ms : m.st = "PROVEN_OVERLAP"
    <3> HIDE DEF ms, M
    <3> QED
      BY <1>2, <1>5, <2>1 DEF CombineMatches, Matches
  <2>6. /\ p.k = "AND" => \A m \in ms : Sure(m)
        /\ p.k = "OR" => \E m \in ms : Sure(m)
    <3> HIDE DEF ms
    <3> QED
      BY <2>4, <2>5
  <2> HIDE DEF H, M, ms, Sure
  <2> QED
    BY <1>2, <1>3, <1>5, <2>2, <2>3, <2>6
<1>6. p.k \in {"atom", "AND", "OR"}
  BY <1>2, PartsOfKids DEF Plain
<1> QED
  BY <1>4, <1>5, <1>6

-----------------------------------------------------------------------------
(* The theorems *)

\* What has been resolved and matched so far.
Resolved ==
    scope.p # NoTree =>
        /\ known = Fields /\ scope.p = Evaluate(tree, Fields).p
        /\ scope.st = "CONSTRAINED" => Evaluate(tree, Fields).st = "SUPPORTED"

Compares ==
    \/ match.st = "PROVEN_DISJOINT"
    \/ match.st = "PROVEN_OVERLAP" /\ ~match.assumed /\ scope.st = "CONSTRAINED"
    => /\ scope.p # NoTree
       /\ match = CombineMatches("OR", {MatchConstraint(scope.p, w) : w \in edge})

Inv ==
    /\ tree \in Trees /\ edge \in Edges /\ known \in {Fields, {}, {"unavailable"}}
    /\ pc \in {"resolve", "match"} => match = Matched("none")
    /\ Resolved /\ Compares

LEMMA InvHolds == Spec => []Inv
<1>1. Init => Inv
  BY DEF Init, Inv, Resolved, Compares, Matched, Result
<1>2. Inv /\ [Next]_vars => Inv'
  <2> SUFFICES ASSUME Inv, [Next]_vars PROVE Inv'
    OBVIOUS
  <2>1. CASE Resolve
    <3>1. match' = match /\ match = Matched("none") /\ tree' = tree /\ edge' = edge /\ known' = known
      BY <2>1 DEF Resolve, Inv
    <3>2. Compares'
      BY <3>1 DEF Compares, Matched
    <3>3. Resolved'
      <4>1. SUFFICES ASSUME scope'.p # NoTree
                     PROVE  /\ known = Fields /\ scope'.p = Evaluate(tree, Fields).p
                            /\ scope'.st = "CONSTRAINED" => Evaluate(tree, Fields).st = "SUPPORTED"
        BY <3>1 DEF Resolved
      <4> DEFINE e == Evaluate(tree, known)
                 full == e.st = "SUPPORTED" /\ known \subseteq FieldsOf(e.p)
                 st == CASE e.st = "IRRELEVANT"        -> "ALL_PARTITIONS"
                         [] e.st = "SUPPORTED" /\ full -> "CONSTRAINED"
                         [] e.st = "SUPPORTED"         -> "PARTIAL"
                         [] OTHER                      -> e.st
      <4>2. scope' = IF known = {} THEN Result("UNPARTITIONED", NoTree)
                     ELSE IF known = {"unavailable"} THEN Result("UNKNOWN", NoTree)
                     ELSE IF e.p = NoTree /\ ~bound THEN Result("UNKNOWN", NoTree)
                     ELSE Result(st, e.p)
        BY <2>1 DEF Resolve
      <4>3. known = Fields /\ scope' = Result(st, e.p)
        <5> HIDE DEF e, st
        <5> QED
          BY <4>1, <4>2 DEF Inv, Result
      <4>4. st = "CONSTRAINED" => e.st = "SUPPORTED"
        <5>1. tree \in Preds
          BY ScopeAssumption DEF Inv
        <5>2. e.st \in Statuses
          BY <5>1, EvaluateType
        <5> HIDE DEF e
        <5> QED
          BY <5>2 DEF Statuses
      <4> HIDE DEF st
      <4> QED
        BY <4>3, <4>4 DEF Result
    <3> QED
      BY <3>1, <3>2, <3>3 DEF Inv
  <2>2. CASE MatchEdge
    <3>1. UNCHANGED <<tree, known, edge, scope>> /\ pc' = "done"
      BY <2>2 DEF MatchEdge
    <3>2. Compares'
      BY <2>2, <3>1 DEF MatchEdge, Compares, Matched, Defaulted
    <3> QED
      BY <3>1, <3>2 DEF Inv, Resolved
  <2>3. CASE UNCHANGED vars
    BY <2>3 DEF vars, Inv, Resolved, Compares
  <2> QED
    BY <2>1, <2>2, <2>3 DEF Next
<1> QED
  BY <1>1, <1>2, PTL DEF Spec

LEMMA KeptIsPlain ==
    ASSUME NEW t \in Preds, Evaluate(t, Fields).p # NoTree
    PROVE  /\ Plain(Evaluate(t, Fields).p)
           /\ Understood(t) => Loose(Evaluate(t, Fields).p)
           /\ Constraints(Evaluate(t, Fields).p) \subseteq Constraints(t)
<1>1. \A s \in Subtrees(Evaluate(t, Fields).p) : KeptPart(s, t)
  BY KeptParts
<1>2. Plain(Evaluate(t, Fields).p)
  BY <1>1 DEF Plain, KeptPart
<1>3. ASSUME Understood(t) PROVE Loose(Evaluate(t, Fields).p)
  <2>1. ASSUME NEW s \in Subtrees(Evaluate(t, Fields).p), s.k = "atom", Compared(s),
               s.op \in {"LT", "GT"}
        PROVE  s.vals[1] \in Literals
    <3>1. s \in Subtrees(t)
      BY <1>1, <2>1 DEF KeptPart
    <3> QED
      BY <1>3, <2>1, <3>1 DEF Understood, Compared
  <2> QED
    BY <2>1 DEF Loose
<1>4. Constraints(Evaluate(t, Fields).p) \subseteq Constraints(t)
  BY <1>1 DEF Constraints, KeptPart
<1> QED
  BY <1>2, <1>3, <1>4

\* A producer is taken out of the candidates of a READ only if the READ sees no
\* partition that it writes, as long as no OR forgets a branch and the columns
\* compare the texts at hand like matchAtom does (MatchEdge).
THEOREM DisjointProducerIsNeverRead == Spec => []DisjointIsNeverRead
<1>1. Inv => DisjointIsNeverRead
  <2> SUFFICES ASSUME Inv, match.st = "PROVEN_DISJOINT",
                      ~(\E t \in Subtrees(tree) : Forgets(t)),
                      \A a \in Constraints(tree), v \in edge :
                          PlainValues(a, v) /\ PlainOrder(a, v),
                      NEW env \in Envs, NEW w \in edge, NEW part \in Filled(w, env),
                      NEW other \in BOOLEAN, NEW opaque \in BOOLEAN,
                      Holds(tree, part, other, opaque, env)
               PROVE  FALSE
    BY DEF DisjointIsNeverRead, NeverRead, CanRead
  <2> DEFINE p == Evaluate(tree, Fields).p
             ms == {MatchConstraint(p, v) : v \in edge}
  <2>1. tree \in Preds /\ w \in Writes
    BY ScopeAssumption DEF Inv
  <2>2. p # NoTree /\ known = Fields /\ match = CombineMatches("OR", ms)
    BY DEF Inv, Compares, Resolved
  <2>3. Remembers(tree)
    <3> SUFFICES ASSUME NEW s \in Subtrees(tree), s.k = "OR", NEW c \in Kids(s)
                 PROVE  Evaluate(c, Fields).p # NoTree \/ Evaluate(c, Fields).st = "IRRELEVANT"
      BY DEF Remembers
    <3>1. Kids(s) = s.kids
      BY DEF Kids
    <3> QED
      BY <2>2, <3>1 DEF Forgets, Irrelevant
  <2>4. MatchConstraint(p, w).st = "PROVEN_DISJOINT"
    <3>1. \A m \in ms : m.st = "PROVEN_DISJOINT"
      <4> HIDE DEF ms, p
      <4> QED
        BY <2>2 DEF CombineMatches
    <3> QED
      BY <3>1
  <2>5. part \in [Fields -> Literals]
    BY DEF Filled
  <2>6. Holds(p, part, other, opaque, env)
    BY <2>1, <2>2, <2>3, <2>5, KeptIsWeaker
  <2>7. p \in Preds /\ Plain(p) /\ Constraints(p) \subseteq Constraints(tree)
    BY <2>1, <2>2, EvaluateType, KeptIsPlain
  <2> HIDE DEF p
  <2>8. OneText(p, w) /\ InOrder(p, w)
    BY <2>7 DEF OneText, InOrder
  <2> QED
    BY <2>1, <2>4, <2>6, <2>7, <2>8, DisjointFails
<1> QED
  BY <1>1, InvHolds, PTL

\* An overlap that is proven and assumes no date is one for all values of the
\* runtime expressions (MatchEdge).
THEOREM ProvenOverlapIsReadAlways == Spec => []ProvenOverlapIsRead
<1>1. Inv => ProvenOverlapIsRead
  <2> SUFFICES ASSUME Inv, match.st = "PROVEN_OVERLAP", ~match.assumed,
                      scope.st = "CONSTRAINED", Understood(tree), NEW env \in Envs,
                      \A a \in Constraints(tree), v \in edge : PlainOrder(a, v)
               PROVE  \E w \in edge : CanRead(tree, w, env)
    BY DEF ProvenOverlapIsRead
  <2> DEFINE p == Evaluate(tree, Fields).p
             ms == {MatchConstraint(p, v) : v \in edge}
  <2>1. tree \in Preds /\ edge \subseteq Writes
    BY ScopeAssumption DEF Inv
  <2>2. /\ p # NoTree /\ Evaluate(tree, Fields).st = "SUPPORTED"
        /\ match = CombineMatches("OR", ms)
    BY DEF Inv, Compares, Resolved
  <2>3. PICK w \in edge : MatchConstraint(p, w).st = "PROVEN_OVERLAP" /\ ~MatchConstraint(p, w).assumed
    <3>1. \E m \in ms : m.st = "PROVEN_OVERLAP"
      <4> HIDE DEF ms, p
      <4> QED
        BY <2>2 DEF CombineMatches
    <3>2. \A m \in ms : ~m.assumed
      <4>1. match.assumed = Assumes(ms)
        <5> HIDE DEF ms, p
        <5> QED
          BY <2>2 DEF CombineMatches
      <4>2. ~Assumes(ms)
        BY <4>1
      <4> HIDE DEF ms
      <4> QED
        BY <4>2 DEF Assumes
    <3> QED
      BY <3>1, <3>2
  <2>4. PICK part \in [Fields -> Literals] : part \in Filled(w, env)
    BY <2>1, FillsSome
  <2>5. PICK other \in BOOLEAN, opaque \in BOOLEAN : other
    OBVIOUS
  <2>6. p \in Preds /\ Plain(p) /\ Loose(p) /\ InOrder(p, w)
    <3>1. p \in Preds /\ Plain(p) /\ Loose(p) /\ Constraints(p) \subseteq Constraints(tree)
      BY <2>1, <2>2, EvaluateType, KeptIsPlain
    <3> HIDE DEF p
    <3> QED
      BY <3>1 DEF InOrder
  <2>7. Holds(p, part, other, opaque, env)
    <3>1. w \in Writes
      BY <2>1
    <3> HIDE DEF p
    <3> QED
      BY <2>3, <2>4, <2>6, <3>1, OverlapHolds
  <2>8. Holds(tree, part, other, opaque, env)
    BY <2>1, <2>2, <2>5, <2>7, KeptIsStronger
  <2> QED
    BY <2>4, <2>8 DEF CanRead
<1> QED
  BY <1>1, InvHolds, PTL
=============================================================================
