------------------------- MODULE SemanticRun_proofs -------------------------
(***************************************************************************)
(* Theorems about SemanticRun for any number of processes, pages, items,   *)
(* runs, failures and reviews: one run at a time, open calls stay counted, *)
(* what was reviewed stays shown, and what is accepted keeps its end.      *)
(***************************************************************************)
EXTENDS SemanticRun, FiniteSetTheorems, WellFoundedInduction, TLAPS

-----------------------------------------------------------------------------
(* The largest element of a finite set *)

LEMMA MaxIsLargest ==
    ASSUME NEW S \in SUBSET Int, IsFiniteSet(S), S # {}
    PROVE  Max(S) \in S /\ \A y \in S : Max(S) >= y
<1> DEFINE Above(x) == {y \in S : y > x}
           T == {Above(x) : x \in S}
<1>1. T \subseteq FiniteSubsetsOf(S)
  <2> SUFFICES ASSUME NEW x \in S PROVE Above(x) \in FiniteSubsetsOf(S)
    OBVIOUS
  <2>1. Above(x) \in SUBSET S
    OBVIOUS
  <2>2. IsFiniteSet(Above(x))
    BY <2>1, FS_Subset
  <2> QED
    BY <2>1, <2>2 DEF FiniteSubsetsOf
<1>2. T # {}
  OBVIOUS
<1>3. IsWellFoundedOn(StrictSubsetOrdering(S), FiniteSubsetsOf(S))
  BY FS_StrictSubsetOrderingWellFounded
<1>4. PICK A \in T : \A B \in T : ~(<<B, A>> \in StrictSubsetOrdering(S))
  <2> HIDE DEF T
  <2> QED
    BY <1>1, <1>2, <1>3, WFMin
<1>5. PICK x \in S : A = Above(x)
  BY <1>4
<1>6. \A y \in S : x >= y
  <2> SUFFICES ASSUME NEW y \in S, y > x PROVE FALSE
    OBVIOUS
  <2>1. Above(y) \subseteq Above(x) /\ Above(y) # Above(x)
    <3>1. y \in Above(x) /\ y \notin Above(y)
      OBVIOUS
    <3>2. Above(y) \subseteq Above(x)
      <4> SUFFICES ASSUME NEW z \in S, z > y PROVE z > x
        OBVIOUS
      <4>1. x \in Int /\ y \in Int /\ z \in Int
        OBVIOUS
      <4> QED
        BY <4>1
    <3> QED
      BY <3>1, <3>2
  <2>2. <<Above(y), Above(x)>> \in StrictSubsetOrdering(S)
    BY <2>1 DEF StrictSubsetOrdering
  <2> QED
    BY <1>4, <1>5, <2>2
<1> QED
  BY <1>6 DEF Max

-----------------------------------------------------------------------------
(* Sums.  The recursion is followed on the sets of each size; a fact that   *)
(* failed for some set would fail for a smallest one.                       *)

\* g is the function that MapThenSumSet defines by recursion, of the sums of f
\* over the subsets of S.
IsSum(g, f, S) ==
    g = [s \in SUBSET S |-> IF s = {} THEN 0
                            ELSE LET x == CHOOSE x \in s : TRUE IN f[x] + g[s \ {x}]]

\* A set of natural numbers has a least one.
LEMMA LeastNumber ==
    ASSUME NEW T \in SUBSET Nat, T # {}
    PROVE  \E n \in T : \A m \in T : n <= m
<1>1. PICK n \in T : \A m \in T : ~(<<m, n>> \in OpToRel(<, Nat))
  BY NatLessThanWellFounded, WFMin
<1>2. \A m \in T : ~(m < n)
  BY <1>1 DEF OpToRel
<1> QED
  BY <1>2

\* Of the subsets of a finite set some one has no smaller one beside it.
LEMMA SmallestSet ==
    ASSUME NEW S, IsFiniteSet(S), NEW T \in SUBSET SUBSET S, T # {}
    PROVE  \E A \in T : \A B \in T : B \subseteq A => B = A
<1>1. T \subseteq FiniteSubsetsOf(S)
  <2> SUFFICES ASSUME NEW A \in T PROVE A \in FiniteSubsetsOf(S)
    OBVIOUS
  <2>1. A \in SUBSET S
    OBVIOUS
  <2> QED
    BY <2>1, FS_Subset DEF FiniteSubsetsOf
<1>2. PICK A \in T : \A B \in T : ~(<<B, A>> \in StrictSubsetOrdering(S))
  BY <1>1, FS_StrictSubsetOrderingWellFounded, WFMin
<1> QED
  BY <1>2 DEF StrictSubsetOrdering

\* The recursion has a solution: there is one for the sets of each size.
LEMMA SumExists ==
    ASSUME NEW S, IsFiniteSet(S), NEW f
    PROVE  \E g : IsSum(g, f, S)
<1> DEFINE Body(h, s) == IF s = {} THEN 0
                         ELSE LET x == CHOOSE x \in s : TRUE IN f[x] + h[s \ {x}]
           Solves(h, n) == \A s \in SUBSET S : Cardinality(s) < n => h[s] = Body(h, s)
           Bad == {n \in Nat : ~\E h : Solves(h, n)}
<1>1. \A s \in SUBSET S : Cardinality(s) \in Nat /\ Cardinality(s) <= Cardinality(S)
  BY FS_Subset, FS_CardinalityType
<1>2. \A s \in SUBSET S : s # {} =>
          LET x == CHOOSE x \in s : TRUE
          IN  s \ {x} \in SUBSET S /\ Cardinality(s \ {x}) = Cardinality(s) - 1
  <2> SUFFICES ASSUME NEW s \in SUBSET S, s # {}
               PROVE  LET x == CHOOSE x \in s : TRUE
                      IN  s \ {x} \in SUBSET S /\ Cardinality(s \ {x}) = Cardinality(s) - 1
    OBVIOUS
  <2>1. (CHOOSE x \in s : TRUE) \in s
    OBVIOUS
  <2>2. IsFiniteSet(s)
    BY FS_Subset
  <2> QED
    BY <2>1, <2>2, FS_RemoveElement
<1>3. Solves([s \in SUBSET S |-> 0], 0)
  BY <1>1
<1>4. ASSUME NEW n \in Nat, NEW h, Solves(h, n)
      PROVE  Solves([s \in SUBSET S |-> Body(h, s)], n + 1)
  <2> DEFINE g == [s \in SUBSET S |-> Body(h, s)]
  <2> SUFFICES ASSUME NEW s \in SUBSET S, Cardinality(s) < n + 1
               PROVE  Body(h, s) = Body(g, s)
    OBVIOUS
  <2>1. CASE s = {}
    BY <2>1
  <2>2. CASE s # {}
    <3> DEFINE x == CHOOSE x \in s : TRUE
    <3>1. s \ {x} \in SUBSET S /\ Cardinality(s \ {x}) = Cardinality(s) - 1
      BY <1>2, <2>2
    <3>2. Cardinality(s) \in Nat
      BY <1>1
    <3>3. Cardinality(s \ {x}) < n
      BY <3>1, <3>2
    <3>4. h[s \ {x}] = Body(h, s \ {x})
      BY <1>4, <3>1, <3>3
    <3>5. g[s \ {x}] = Body(h, s \ {x})
      BY <3>1
    <3> QED
      BY <2>2, <3>4, <3>5
  <2> QED
    BY <2>1, <2>2
<1>5. Bad = {}
  <2> SUFFICES ASSUME Bad # {} PROVE FALSE
    OBVIOUS
  <2>1. PICK n \in Bad : \A m \in Bad : n <= m
    <3>1. Bad \in SUBSET Nat
      OBVIOUS
    <3> HIDE DEF Bad
    <3> QED
      BY <3>1, LeastNumber
  <2>2. n \in Nat /\ ~\E h : Solves(h, n)
    OBVIOUS
  <2>3. n # 0
    <3> HIDE DEF Solves
    <3>1. \E h : Solves(h, 0)
      BY <1>3
    <3> QED
      BY <2>2, <3>1
  <2>4. n - 1 \in Nat /\ (n - 1) + 1 = n /\ ~(n <= n - 1)
    BY <2>2, <2>3
  <2>5. n - 1 \notin Bad
    BY <2>1, <2>4
  <2>6. PICK h : Solves(h, n - 1)
    BY <2>4, <2>5
  <2>7. Solves([s \in SUBSET S |-> Body(h, s)], n)
    <3> HIDE DEF Solves, Body
    <3>1. Solves([s \in SUBSET S |-> Body(h, s)], (n - 1) + 1)
      BY <1>4, <2>4, <2>6
    <3> QED
      BY <2>4, <3>1
  <2> HIDE DEF Solves
  <2> QED
    BY <2>2, <2>7
<1>6. PICK h : Solves(h, Cardinality(S) + 1)
  <2>1. Cardinality(S) + 1 \in Nat
    BY FS_CardinalityType
  <2>2. Cardinality(S) + 1 \notin Bad
    BY <1>5
  <2> HIDE DEF Solves
  <2> QED
    BY <2>1, <2>2
<1> DEFINE g == [s \in SUBSET S |-> h[s]]
<1>7. \A s \in SUBSET S : h[s] = Body(h, s)
  <2>1. \A s \in SUBSET S : Cardinality(s) < Cardinality(S) + 1
    BY <1>1, FS_CardinalityType
  <2> QED
    BY <1>6, <2>1
<1>8. \A s \in SUBSET S : g[s] = Body(g, s)
  BY <1>2, <1>7
<1>9. g = [s \in SUBSET S |-> Body(g, s)]
  BY <1>8
<1>10. IsSum(g, f, S)
  BY ONLY <1>9 DEF IsSum
<1> QED
  BY <1>10

\* A sum depends on the terms over its set only.
LEMMA SumLocal ==
    ASSUME NEW S, IsFiniteSet(S), NEW U, NEW f, NEW e, NEW g, NEW h,
           IsSum(g, f, S), IsSum(h, e, U),
           NEW s \in SUBSET (S \cap U), \A x \in s : f[x] = e[x]
    PROVE  g[s] = h[s]
<1> DEFINE Bad == {u \in SUBSET S : u \subseteq s /\ g[u] # h[u]}
<1> SUFFICES ASSUME Bad # {} PROVE FALSE
  OBVIOUS
<1>1. PICK A \in Bad : \A B \in Bad : B \subseteq A => B = A
  <2>1. Bad \in SUBSET SUBSET S
    OBVIOUS
  <2> HIDE DEF Bad
  <2> QED
    BY <2>1, SmallestSet
<1>2. A \in SUBSET S /\ A \in SUBSET U /\ A \subseteq s /\ g[A] # h[A]
  OBVIOUS
<1>3. CASE A = {}
  BY <1>2, <1>3 DEF IsSum
<1>4. CASE A # {}
  <2> DEFINE x == CHOOSE x \in A : TRUE
             B == A \ {x}
  <2>1. x \in A /\ B \subseteq A /\ B # A /\ B \in SUBSET S
    BY <1>2, <1>4
  <2>2. g[B] = h[B]
    BY <1>1, <1>2, <2>1
  <2>3. g[A] = f[x] + g[B]
    BY <1>2, <1>4 DEF IsSum
  <2>4. h[A] = e[x] + h[B]
    BY <1>2, <1>4 DEF IsSum
  <2> QED
    BY <1>2, <2>1, <2>2, <2>3, <2>4
<1> QED
  BY <1>3, <1>4

\* Sums of numbers are numbers, and any element can be taken out first.
LEMMA SumType ==
    ASSUME NEW S, IsFiniteSet(S), NEW N \in {Nat, Int}, NEW f \in [S -> N],
           NEW g, IsSum(g, f, S), NEW s \in SUBSET S
    PROVE  g[s] \in N
<1> DEFINE Bad == {u \in SUBSET S : g[u] \notin N}
<1> SUFFICES ASSUME Bad # {} PROVE FALSE
  OBVIOUS
<1>1. PICK A \in Bad : \A B \in Bad : B \subseteq A => B = A
  <2>1. Bad \in SUBSET SUBSET S
    OBVIOUS
  <2> HIDE DEF Bad
  <2> QED
    BY <2>1, SmallestSet
<1>2. A \in SUBSET S /\ g[A] \notin N
  OBVIOUS
<1>3. A # {}
  BY <1>2 DEF IsSum
<1> DEFINE x == CHOOSE x \in A : TRUE
           B == A \ {x}
<1>4. x \in A /\ B \subseteq A /\ B # A /\ B \in SUBSET S
  BY <1>2, <1>3
<1>5. g[B] \in N
  BY <1>1, <1>2, <1>4
<1>6. g[A] = f[x] + g[B]
  BY <1>2, <1>3 DEF IsSum
<1>7. f[x] \in N
  BY <1>2, <1>4
<1> QED
  BY <1>2, <1>5, <1>6, <1>7

LEMMA SumPick ==
    ASSUME NEW S, IsFiniteSet(S), NEW f \in [S -> Int], NEW g, IsSum(g, f, S),
           NEW s \in SUBSET S, NEW y \in s
    PROVE  g[s] = f[y] + g[s \ {y}]
<1> DEFINE Bad == {u \in SUBSET S : \E z \in u : g[u] # f[z] + g[u \ {z}]}
<1> SUFFICES ASSUME Bad # {} PROVE FALSE
  OBVIOUS
<1>1. PICK A \in Bad : \A B \in Bad : B \subseteq A => B = A
  <2>1. Bad \in SUBSET SUBSET S
    OBVIOUS
  <2> HIDE DEF Bad
  <2> QED
    BY <2>1, SmallestSet
<1>2. A \in SUBSET S
  OBVIOUS
<1>3. PICK z \in A : g[A] # f[z] + g[A \ {z}]
  OBVIOUS
<1> DEFINE x == CHOOSE x \in A : TRUE
<1>4. x \in A
  BY <1>3
<1>5. g[A] = f[x] + g[A \ {x}]
  BY <1>2, <1>4 DEF IsSum
<1>6. x # z
  BY <1>3, <1>5
<1> HIDE DEF x
<1> DEFINE B == (A \ {x}) \ {z}
<1>7. g[A \ {x}] = f[z] + g[B]
  <2>1. A \ {x} \in SUBSET S /\ A \ {x} \subseteq A /\ A \ {x} # A /\ z \in A \ {x}
    BY <1>2, <1>4, <1>6
  <2>2. A \ {x} \notin Bad
    BY <1>1, <2>1
  <2> QED
    BY <2>1, <2>2
<1>8. g[A \ {z}] = f[x] + g[B]
  <2>1. A \ {z} \in SUBSET S /\ A \ {z} \subseteq A /\ A \ {z} # A /\ x \in A \ {z}
    BY <1>2, <1>4, <1>6
  <2>2. A \ {z} \notin Bad
    BY <1>1, <2>1
  <2>3. (A \ {z}) \ {x} = B
    OBVIOUS
  <2> QED
    BY <2>1, <2>2, <2>3
<1>9. f[x] \in Int /\ f[z] \in Int /\ g[B] \in Int
  <2>1. B \in SUBSET S
    BY <1>2
  <2>2. g[B] \in Int
    BY <2>1, SumType
  <2> QED
    BY <1>2, <1>4, <2>2
<1> QED
  BY <1>3, <1>5, <1>7, <1>8, <1>9

LEMMA TotalIs ==
    ASSUME NEW f, IsFiniteSet(DOMAIN f)
    PROVE  \E g : IsSum(g, f, DOMAIN f) /\ Total(f) = g[DOMAIN f]
<1>1. \E g : IsSum(g, f, DOMAIN f)
  BY SumExists
<1> QED
  BY <1>1, Zenon DEF Total, MapThenSumSet, MapThenFoldSet, IsSum

LEMMA TotalType ==
    ASSUME NEW S, IsFiniteSet(S), NEW N \in {Nat, Int}, NEW f \in [S -> N]
    PROVE  Total(f) \in N
<1>1. DOMAIN f = S
  OBVIOUS
<1>2. PICK g : IsSum(g, f, S) /\ Total(f) = g[S]
  BY <1>1, TotalIs
<1> QED
  BY <1>2, SumType

\* The total over all but one element, and the last term.
LEMMA TotalSplit ==
    ASSUME NEW S, IsFiniteSet(S), NEW f \in [S -> Int], NEW x \in S
    PROVE  Total(f) = f[x] + Total([a \in S \ {x} |-> f[a]])
<1> DEFINE r == [a \in S \ {x} |-> f[a]]
<1>1. DOMAIN f = S /\ DOMAIN r = S \ {x} /\ IsFiniteSet(S \ {x})
  BY FS_RemoveElement
<1>2. PICK g : IsSum(g, f, S) /\ Total(f) = g[S]
  BY <1>1, TotalIs
<1>3. PICK h : IsSum(h, r, S \ {x}) /\ Total(r) = h[S \ {x}]
  <2> HIDE DEF r
  <2> QED
    BY <1>1, TotalIs
<1>4. g[S] = f[x] + g[S \ {x}]
  BY <1>2, SumPick, SMTT(60)
<1>5. g[S \ {x}] = h[S \ {x}]
  <2>1. \A a \in S \ {x} : f[a] = r[a]
    OBVIOUS
  <2>2. S \ {x} \in SUBSET (S \cap (S \ {x}))
    OBVIOUS
  <2> HIDE DEF r
  <2> QED
    BY <1>2, <1>3, <2>1, <2>2, SumLocal
<1> QED
  BY <1>2, <1>3, <1>4, <1>5

\* If no term of f1 - f2 is larger than the one of e1 - e2, neither is the difference
\* of the totals.
LEMMA TotalCompare ==
    ASSUME NEW S, IsFiniteSet(S),
           NEW f1 \in [S -> Int], NEW f2 \in [S -> Int], NEW e1 \in [S -> Int], NEW e2 \in [S -> Int],
           \A a \in S : f1[a] - f2[a] <= e1[a] - e2[a]
    PROVE  Total(f1) - Total(f2) <= Total(e1) - Total(e2)
<1>1. PICK g1 : IsSum(g1, f1, S) /\ Total(f1) = g1[S]
  BY TotalIs
<1>2. PICK g2 : IsSum(g2, f2, S) /\ Total(f2) = g2[S]
  BY TotalIs
<1>3. PICK h1 : IsSum(h1, e1, S) /\ Total(e1) = h1[S]
  BY TotalIs
<1>4. PICK h2 : IsSum(h2, e2, S) /\ Total(e2) = h2[S]
  BY TotalIs
<1> DEFINE Bad == {u \in SUBSET S : ~(g1[u] - g2[u] <= h1[u] - h2[u])}
<1> SUFFICES ASSUME Bad # {} PROVE FALSE
  BY <1>1, <1>2, <1>3, <1>4
<1>5. PICK A \in Bad : \A B \in Bad : B \subseteq A => B = A
  <2>1. Bad \in SUBSET SUBSET S
    OBVIOUS
  <2> HIDE DEF Bad
  <2> QED
    BY <2>1, SmallestSet
<1>6. A \in SUBSET S /\ ~(g1[A] - g2[A] <= h1[A] - h2[A])
  OBVIOUS
<1>7. A # {}
  <2>1. g1[{}] = 0 /\ g2[{}] = 0 /\ h1[{}] = 0 /\ h2[{}] = 0
    BY <1>1, <1>2, <1>3, <1>4 DEF IsSum
  <2>2. ASSUME A = {} PROVE ~(0 - 0 <= 0 - 0)
    BY ONLY <1>6, <2>1, <2>2
  <2> QED
    BY ONLY <2>2
<1>8. PICK x : x \in A
  BY <1>7
<1> DEFINE B == A \ {x}
<1>9. B \in SUBSET S /\ B \subseteq A /\ B # A
  BY <1>6, <1>8
<1>10. /\ g1[A] = f1[x] + g1[B] /\ g2[A] = f2[x] + g2[B]
       /\ h1[A] = e1[x] + h1[B] /\ h2[A] = e2[x] + h2[B]
  <2>1. A \in SUBSET S /\ x \in A /\ IsFiniteSet(S)
    BY <1>6, <1>8
  <2>2. f1 \in [S -> Int] /\ f2 \in [S -> Int]
    OBVIOUS
  <2>3. g1[A] = f1[x] + g1[B]
    BY ONLY <1>1, <2>1, <2>2, SumPick, SMTT(60)
  <2>4. g2[A] = f2[x] + g2[B]
    BY ONLY <1>2, <2>1, <2>2, SumPick, SMTT(60)
  <2>5. h1[A] = e1[x] + h1[B]
    <3>1. e1 \in [S -> Int]
      OBVIOUS
    <3> QED
      BY ONLY <1>3, <2>1, <3>1, SumPick, SMTT(60)
  <2>6. h2[A] = e2[x] + h2[B]
    <3>1. e2 \in [S -> Int]
      OBVIOUS
    <3> QED
      BY ONLY <1>4, <2>1, <3>1, SumPick, SMTT(60)
  <2> QED
    BY <2>3, <2>4, <2>5, <2>6
<1>11. g1[B] \in Int /\ g2[B] \in Int /\ h1[B] \in Int /\ h2[B] \in Int
  <2>1. Int \in {Nat, Int} /\ IsFiniteSet(S) /\ f1 \in [S -> Int] /\ f2 \in [S -> Int]
        /\ e1 \in [S -> Int] /\ e2 \in [S -> Int]
    OBVIOUS
  <2>2. g1[B] \in Int /\ g2[B] \in Int
    BY ONLY <1>1, <1>2, <1>9, <2>1, SumType
  <2>3. h1[B] \in Int /\ h2[B] \in Int
    BY ONLY <1>3, <1>4, <1>9, <2>1, SumType
  <2> QED
    BY <2>2, <2>3
<1>12. f1[x] \in Int /\ f2[x] \in Int /\ e1[x] \in Int /\ e2[x] \in Int /\ f1[x] - f2[x] <= e1[x] - e2[x]
  BY <1>6, <1>8
<1>13. g1[B] - g2[B] <= h1[B] - h2[B]
  BY <1>5, <1>9
<1> QED
  BY <1>6, <1>10, <1>11, <1>12, <1>13

-----------------------------------------------------------------------------
(* Attempt numbers *)

LEMMA IdsType ==
    ASSUME TypeOK
    PROVE  Ids = 1 .. Len(attempts) /\ Len(attempts) \in Nat /\ Ids \subseteq Nat
  BY DEF TypeOK, Ids

LEMMA IdsFinite == ASSUME TypeOK PROVE IsFiniteSet(Ids)
<1>1. Ids = 1 .. Len(attempts) /\ 1 \in Int /\ Len(attempts) \in Int
  BY DEF TypeOK, Ids
<1> QED
  BY ONLY <1>1, FS_Interval

LEMMA MaxOfIds ==
    ASSUME TypeOK, NEW S \in SUBSET Ids
    PROVE  /\ Max(S \cup {0}) \in S \cup {0}
           /\ S # {} => Max(S \cup {0}) \in S
           /\ \A x \in S : x <= Max(S \cup {0})
           /\ \A m \in S : (\A x \in S : x <= m) => Max(S \cup {0}) = m
<1>1. Ids = 1 .. Len(attempts) /\ Len(attempts) \in Nat
  BY DEF TypeOK, Ids
<1>2. IsFiniteSet(S)
  BY IdsFinite, FS_Subset
<1>3. IsFiniteSet(S \cup {0}) /\ S \cup {0} \in SUBSET Int /\ S \cup {0} # {}
  BY <1>1, <1>2, FS_AddElement
<1>4. Max(S \cup {0}) \in S \cup {0} /\ \A y \in S \cup {0} : Max(S \cup {0}) >= y
  BY <1>3, MaxIsLargest
<1>5. \A x \in S : x \in Nat /\ x > 0
  BY <1>1
<1> QED
  BY <1>4, <1>5

-----------------------------------------------------------------------------
(* Types, and one run at a time *)

Calling == {"note", "replace", "sent"}

\* A run that makes a call may make one, has a request, and its attempt is in flight.
AtCall ==
    \A p \in Procs :
        /\ pc[p] \in {"reserve"} \cup Calling => job[p].req \in Requests /\ job[p].base \in Requests
        /\ pc[p] \in {"reserve", "note", "replace"} => opts[p].left > 0
        /\ pc[p] \in Calling => job[p].id \in Ids /\ attempts[job[p].id].st = "inflight"

\* The lock file has the pid of the process that is inside run().
RunsExclude == \A p \in Procs : pc[p] # "idle" => lock = p

\* An open page shows an attempt, at a revision that is over or the present one.
PagesShow ==
    \A w \in Pages : page[w] # NONE =>
        /\ page[w].id \in Ids /\ page[w].rev <= revision /\ page[w].rev < MaxReviews
        /\ page[w].part # NONE => page[w].to # NONE

TypeInv == TypeOK /\ AtCall /\ RunsExclude /\ PagesShow

LEMMA ShownType ==
    ASSUME TypeOK, NEW k
    PROVE  Shown(k) \in Ids \cup {0}
<1>1. {a \in Ids : attempts[a].pack = k} \in SUBSET Ids
  OBVIOUS
<1>2. {a \in {b \in Ids : attempts[b].pack = k} : Reviewed(a)} \in SUBSET Ids
  OBVIOUS
<1> QED
  BY <1>1, <1>2, MaxOfIds DEF Shown

LEMMA RequestType ==
    ASSUME TypeOK, NEW a \in Ids
    PROVE  Request(a) \in Requests
<1>1. attempts[a] \in Attempts
  BY DEF TypeOK, Ids
<1> QED
  BY <1>1 DEF Request, Attempts, Requests

LEMMA BaseRequestType ==
    ASSUME TypeOK, NEW k \in Packs
    PROVE  BaseRequest(k) \in Requests
<1>1. \A i : Shared(i) \in Contexts
  <2> SUFFICES ASSUME NEW i, NEW x \in Shared(i) PROVE x \in Nat \X SUBSET Parts
    BY DEF Contexts
  <2>1. \A j : Shown(Pack(j)) \in Nat
    BY ShownType, IdsType
  <2> QED
    BY <2>1 DEF Shared
<1>2. {} \in Contexts
  BY DEF Contexts
<1> QED
  BY <1>1, <1>2 DEF BaseRequest, Requests

LEMMA PreviousType ==
    ASSUME TypeOK, NEW k \in Packs
    PROVE  Previous(k) \in Ids \cup {0}
<1>1. \A r : Cached(r) \in Ids \cup {0}
  BY MaxOfIds DEF Cached
<1> DEFINE fix == {r \in repairs : r[1] = BaseRequest(k) /\ k.item \in Pilots}
           S == {Cached(r[2]) : r \in fix}
<1>2. S # {} => Max(S) \in S
  <2>1. S \in SUBSET (Ids \cup {0})
    BY <1>1
  <2>2. IsFiniteSet(Ids \cup {0}) /\ Ids \cup {0} \in SUBSET Int
    <3>1. IsFiniteSet(Ids)
      BY IdsFinite
    <3>2. IsFiniteSet(Ids \cup {0})
      BY ONLY <3>1, FS_AddElement
    <3> QED
      BY <3>2, IdsType
  <2>3. IsFiniteSet(S) /\ S \in SUBSET Int
    BY <2>1, <2>2, FS_Subset
  <2> QED
    BY <2>3, MaxIsLargest
<1> QED
  BY <1>1, <1>2 DEF Previous

LEMMA NextRequestType ==
    ASSUME TypeOK, NEW p, NEW k \in Packs
    PROVE  NextRequest(p, k) \in Requests
<1>1. Previous(k) \in Ids \cup {0} /\ BaseRequest(k) \in Requests
  BY PreviousType, BaseRequestType
<1>2. Previous(k) # 0 => Request(Previous(k)) \in Requests
  BY <1>1, RequestType
<1>3. [BaseRequest(k) EXCEPT !.fixes = Previous(k)] \in Requests
  BY <1>1, IdsType DEF Requests
<1> QED
  BY <1>1, <1>2, <1>3 DEF NextRequest

LEMMA InitType == Init => TypeInv
<1> SUFFICES ASSUME Init PROVE TypeInv
  OBVIOUS
<1>1. attempts = <<>> /\ verdicts = <<>> /\ Ids = {} /\ DOMAIN verdicts = {}
  BY DEF Init, Ids
<1>2. current \in [Items -> Versions]
  <2>1. (CHOOSE v \in Versions : TRUE) \in Versions
    BY SemanticAssumption
  <2> QED
    BY <2>1 DEF Init
<1>3. TypeOK
  BY <1>1, <1>2, SemanticAssumption DEF Init, TypeOK, Idle, NoJob
<1>4. AtCall /\ RunsExclude /\ PagesShow
  BY DEF Init, AtCall, RunsExclude, PagesShow, Calling
<1> QED
  BY <1>3, <1>4 DEF TypeInv


LEMMA KeepAttempts ==
    ASSUME TypeInv, UNCHANGED attempts
    PROVE  Ids' = Ids
BY DEF Ids

\* A process that starts, ends or dies.
LEMMA StartType == ASSUME TypeInv, NEW p \in Procs, Start(p) PROVE TypeInv'
<1> USE DEF TypeInv
<1>1. Ids' = Ids
  BY DEF Start, tables, Ids
<1>2. PICK S \in {Items, Pilots} \cup {{i} : i \in Items} :
         \E f, u \in BOOLEAN, n \in Calls :
            /\ list' = [list EXCEPT ![p] = {Pack(i) : i \in S}]
            /\ opts' = [opts EXCEPT ![p] = [failed |-> f, uncertain |-> u, left |-> n]]
  BY DEF Start
<1>3. {Pack(i) : i \in S} \in SUBSET Packs
  BY SemanticAssumption DEF TypeOK, Pack, Packs
<1>4. TypeOK'
  <2>1. list' \in [Procs -> SUBSET Packs]
    BY <1>2, <1>3 DEF TypeOK
  <2>2. opts' \in [Procs -> [failed : BOOLEAN, uncertain : BOOLEAN, left : Nat]]
    BY <1>2, SemanticAssumption DEF TypeOK
  <2>3. runs' \in 0..MaxRuns /\ lock' \in Procs \cup {NONE} /\ UNCHANGED <<tables, job, page, trouble>>
    BY SemanticAssumption DEF Start, TypeOK, Locks
  <2>4. pc' \in [Procs -> {"idle", "next", "reserve", "note", "replace", "sent"}]
    BY DEF Start, TypeOK, Goto
  <2> QED
    BY <1>1, <2>1, <2>2, <2>3, <2>4 DEF TypeOK, tables
<1>5. AtCall'
  BY <1>1 DEF Start, AtCall, Goto, Calling, tables, TypeOK
<1>6. RunsExclude'
  BY SemanticAssumption DEF Start, RunsExclude, Goto, Locks, TypeOK
<1>7. PagesShow'
  BY <1>1 DEF Start, PagesShow, tables
<1> QED
  BY <1>4, <1>5, <1>6, <1>7

LEMMA StopType ==
    ASSUME TypeInv, NEW p \in Procs, Forget(p), lock' = NONE \/ UNCHANGED lock,
           lock' = NONE => pc[p] # "idle" \/ \A q \in Procs : pc[q] = "idle",
           UNCHANGED <<tables, page, runs>>, trouble' \in 0..MaxTrouble
    PROVE  TypeInv'
<1> USE DEF TypeInv
<1>1. Ids' = Ids
  BY DEF tables, Ids
<1>2. TypeOK'
  <2>1. /\ list' \in [Procs -> SUBSET Packs]
        /\ opts' \in [Procs -> [failed : BOOLEAN, uncertain : BOOLEAN, left : Nat]]
        /\ pc' \in [Procs -> {"idle", "next", "reserve", "note", "replace", "sent"}]
    BY DEF Forget, Goto, TypeOK, Idle
  <2>2. job' \in [Procs -> [req : Requests \cup {NONE}, base : Requests \cup {NONE},
                            olds : SUBSET Ids, id : Ids \cup {0}]]
    BY DEF Forget, TypeOK, NoJob
  <2> QED
    BY <1>1, <2>1, <2>2 DEF TypeOK, tables
<1>3. AtCall'
  BY <1>1 DEF Forget, Goto, AtCall, Calling, tables, TypeOK
<1>4. RunsExclude'
  BY DEF Forget, Goto, RunsExclude, TypeOK
<1>5. PagesShow'
  BY <1>1 DEF PagesShow, tables
<1> QED
  BY <1>2, <1>3, <1>4, <1>5

LEMMA Alone ==
    ASSUME TypeInv, NEW p \in Procs, pc[p] # "idle"
    PROVE  lock = p /\ \A q \in Procs \ {p} : pc[q] = "idle"
BY SemanticAssumption DEF TypeInv, RunsExclude

LEMMA EndType == ASSUME TypeInv, NEW p \in Procs, End(p) PROVE TypeInv'
BY StopType DEF End, Stop, TypeInv, TypeOK

LEMMA FirstType ==
    ASSUME TypeInv, NEW p \in Procs, list[p] # {}
    PROVE  First(p) \in list[p] /\ First(p) \in Packs
<1> DEFINE S == {k.item : k \in list[p]}
<1>1. list[p] \subseteq Packs /\ \A k \in Packs : k.item \in Nat
  BY SemanticAssumption DEF TypeInv, TypeOK, Packs
<1>2. S \in SUBSET Nat /\ S # {}
  BY <1>1
<1>3. PICK n \in S : \A m \in S : n <= m
  <2>1. PICK b \in S : TRUE
    BY <1>2
  <2> DEFINE T == {x \in (-b) .. 0 : -x \in S}
  <2>2. b \in Nat /\ -b \in Int /\ 0 \in Int /\ -(-b) = b
    BY <1>2
  <2>3. IsFiniteSet(T)
    <3>1. IsFiniteSet((-b) .. 0)
      BY ONLY <2>2, FS_Interval
    <3> QED
      BY <3>1, FS_Subset
  <2>4. -b \in T
    BY <2>2, <2>1
  <2>5. T \in SUBSET Int
    BY <2>2
  <2>6. Max(T) \in T /\ \A y \in T : Max(T) >= y
    <3> HIDE DEF T
    <3> QED
      BY <2>3, <2>4, <2>5, MaxIsLargest
  <2>7. ASSUME NEW m \in S PROVE -Max(T) <= m
    <3>1. m \in Nat /\ Max(T) \in Int /\ Max(T) >= -b
      BY <1>2, <2>2, <2>4, <2>5, <2>6
    <3>2. CASE m <= b
      <4>1. -m \in (-b) .. 0 /\ -(-m) = m
        BY <2>2, <3>1, <3>2
      <4>2. -m \in T
        BY <4>1, <2>7
      <4> QED
        BY <2>6, <4>2, <3>1
    <3>3. CASE m > b
      BY <3>1, <3>3, <2>2
    <3> QED
      BY <3>1, <3>2, <3>3, <2>2
  <2> QED
    BY <2>6, <2>7
<1>4. PICK k \in list[p] : k.item = n
  OBVIOUS
<1>5. \A l \in list[p] : k.item <= l.item
  BY <1>3, <1>4
<1> QED
  BY <1>1, <1>4, <1>5 DEF First

LEMMA LookType == ASSUME TypeInv, NEW p \in Procs, Look(p) PROVE TypeInv'
<1> DEFINE k == First(p)
<1>1. pc[p] = "next" /\ list[p] # {} /\ k \in Packs
  BY FirstType DEF Look
<1>2. Ids' = Ids
  BY DEF Look, tables, Ids
<1>3. CASE Stop(p)
  BY <1>1, <1>3, StopType DEF Look, Stop, TypeInv, TypeOK
<1>4. CASE list' = [list EXCEPT ![p] = @ \ {k}] /\ UNCHANGED <<pc, opts, job, lock>>
  <2>1. TypeOK'
    BY <1>2, <1>4 DEF Look, TypeInv, TypeOK, tables
  <2>2. AtCall' /\ RunsExclude' /\ PagesShow'
    BY <1>2, <1>4 DEF Look, TypeInv, AtCall, RunsExclude, PagesShow, tables
  <2> QED
    BY <2>1, <2>2 DEF TypeInv
<1>5. CASE /\ list' = [list EXCEPT ![p] = @ \ {k}]
           /\ job' = [job EXCEPT ![p] = [req |-> NextRequest(p, k), base |-> BaseRequest(k),
                                         olds |-> Unresolved(k.item), id |-> 0]]
           /\ Goto(p, "reserve")
           /\ UNCHANGED <<opts, lock>>
  <2>1. NextRequest(p, k) \in Requests /\ BaseRequest(k) \in Requests
    BY <1>1, NextRequestType, BaseRequestType DEF TypeInv
  <2>2. Unresolved(k.item) \in SUBSET Ids
    BY DEF Unresolved
  <2>3. TypeOK'
    <3>1. job' \in [Procs -> [req : Requests \cup {NONE}, base : Requests \cup {NONE},
                              olds : SUBSET Ids, id : Ids \cup {0}]]
      <4> HIDE DEF k
      <4> QED
        BY <1>5, <2>1, <2>2 DEF TypeInv, TypeOK
    <3>2. /\ list' \in [Procs -> SUBSET Packs]
          /\ pc' \in [Procs -> {"idle", "next", "reserve", "note", "replace", "sent"}]
      BY <1>5 DEF TypeInv, TypeOK, Goto
    <3> QED
      BY <1>2, <1>5, <3>1, <3>2 DEF Look, TypeInv, TypeOK, tables
  <2>4. AtCall'
    <3>0. opts[p].left > 0
      BY DEF Look
    <3> SUFFICES ASSUME NEW q \in Procs
                 PROVE  /\ pc'[q] \in {"reserve"} \cup Calling => job'[q].req \in Requests /\ job'[q].base \in Requests
                        /\ pc'[q] \in {"reserve", "note", "replace"} => opts'[q].left > 0
                        /\ pc'[q] \in Calling => job'[q].id \in Ids' /\ attempts'[job'[q].id].st = "inflight"
      BY DEF AtCall
    <3>1. CASE q = p
      <4> HIDE DEF k
      <4> QED
        BY <1>5, <2>1, <3>0, <3>1 DEF TypeInv, TypeOK, Goto, Calling
    <3>2. CASE q # p
      BY <1>1, <1>5, <3>2, Alone DEF TypeInv, TypeOK, Goto, Calling
    <3> QED
      BY <3>1, <3>2
  <2>5. RunsExclude'
    BY <1>1, <1>5 DEF TypeInv, TypeOK, RunsExclude, Goto
  <2>6. PagesShow'
    BY <1>2 DEF Look, TypeInv, PagesShow, tables
  <2> QED
    BY <2>3, <2>4, <2>5, <2>6 DEF TypeInv
<1> QED
  BY <1>3, <1>4, <1>5 DEF Look

LEMMA StartsInflight ==
    ASSUME NEW r \in Requests
    PROVE  /\ [r EXCEPT !.st = "inflight"] \in Attempts
           /\ [r EXCEPT !.st = "inflight"].st = "inflight"
           /\ [r EXCEPT !.st = "inflight"].charged = NONE
           /\ [r EXCEPT !.st = "inflight"].pack = r.pack
BY DEF Requests, Attempts

\* The new row of an attempt.
LEMMA Reserves ==
    ASSUME TypeInv, NEW p \in Procs, Reserve(p), ~(Accounted + Cost > Limit)
    PROVE  /\ attempts' = Append(attempts, [job[p].req EXCEPT !.st = "inflight"])
           /\ attempts' \in Seq(Attempts)
           /\ Ids' = Ids \cup {Len(attempts) + 1} /\ Len(attempts) + 1 \notin Ids
           /\ \A a \in Ids : attempts'[a] = attempts[a] /\ a < Len(attempts) + 1
           /\ attempts'[Len(attempts) + 1] = [job[p].req EXCEPT !.st = "inflight"]
           /\ verdicts' \in Seq(Marks) /\ DOMAIN verdicts' = Ids'
           /\ \A a \in Ids : verdicts'[a] = verdicts[a]
           /\ verdicts'[Len(attempts) + 1] = Unread
<1>1. /\ attempts' = Append(attempts, [job[p].req EXCEPT !.st = "inflight"])
      /\ verdicts' = Append(verdicts, Unread)
  BY DEF Reserve
<1>2. job[p].req \in Requests
  BY DEF Reserve, TypeInv, AtCall
<1>3. [job[p].req EXCEPT !.st = "inflight"] \in Attempts
  BY <1>2, StartsInflight
<1>4. Unread \in Marks
  BY DEF Unread, Marks, Parts, Verdicts
<1>5. Len(attempts) = Len(verdicts) /\ attempts \in Seq(Attempts) /\ verdicts \in Seq(Marks)
  BY DEF TypeInv, TypeOK, Ids
<1> HIDE DEF TypeInv
<1> QED
  BY <1>1, <1>3, <1>4, <1>5 DEF Ids

LEMMA ReserveType == ASSUME TypeInv, NEW p \in Procs, Reserve(p) PROVE TypeInv'
<1>1. CASE Accounted + Cost > Limit
  BY <1>1, StopType DEF Reserve, Stop, TypeInv, TypeOK
<1>2. CASE ~(Accounted + Cost > Limit)
  <2> DEFINE n == Len(attempts) + 1
  <2>1. /\ job' = [job EXCEPT ![p].id = n] /\ Goto(p, "note")
        /\ UNCHANGED <<current, replaced, repairs, revision, list, opts, lock, page, runs, trouble>>
    BY <1>2 DEF Reserve
  <2>2. /\ Ids' = Ids \cup {n} /\ \A a \in Ids : attempts'[a] = attempts[a]
        /\ attempts'[n] = [job[p].req EXCEPT !.st = "inflight"]
        /\ attempts' \in Seq(Attempts) /\ verdicts' \in Seq(Marks) /\ DOMAIN verdicts' = Ids'
    BY <1>2, Reserves
  <2>3. pc[p] = "reserve" /\ job[p].req \in Requests /\ job[p].base \in Requests /\ opts[p].left > 0
    BY DEF Reserve, TypeInv, AtCall
  <2> HIDE DEF n
  <2>4. job' \in [Procs -> [req : Requests \cup {NONE}, base : Requests \cup {NONE},
                            olds : SUBSET Ids', id : Ids' \cup {0}]]
    <3> DEFINE J == [req : Requests \cup {NONE}, base : Requests \cup {NONE},
                     olds : SUBSET Ids, id : Ids \cup {0}]
               K == [req : Requests \cup {NONE}, base : Requests \cup {NONE},
                     olds : SUBSET Ids', id : Ids' \cup {0}]
    <3>1. job \in [Procs -> J]
      BY DEF TypeInv, TypeOK
    <3>2. J \subseteq K
      BY <2>2
    <3>3. \A j \in J : [j EXCEPT !.id = n] \in K
      BY <2>2
    <3>4. job' = [job EXCEPT ![p] = [job[p] EXCEPT !.id = n]]
      BY <2>1
    <3> HIDE DEF J, K
    <3>5. job' \in [Procs -> K]
      BY <3>1, <3>2, <3>3, <3>4
    <3> QED
      BY <3>5 DEF K
  <2>5. pc' \in [Procs -> {"idle", "next", "reserve", "note", "replace", "sent"}]
    BY <2>1 DEF TypeInv, TypeOK, Goto
  <2>6. TypeOK'
    BY <2>1, <2>2, <2>4, <2>5 DEF TypeInv, TypeOK
  <2>7. AtCall'
    <3> SUFFICES ASSUME NEW q \in Procs
                 PROVE  /\ pc'[q] \in {"reserve"} \cup Calling => job'[q].req \in Requests /\ job'[q].base \in Requests
                        /\ pc'[q] \in {"reserve", "note", "replace"} => opts'[q].left > 0
                        /\ pc'[q] \in Calling => job'[q].id \in Ids' /\ attempts'[job'[q].id].st = "inflight"
      BY DEF AtCall
    <3>1. CASE q = p
      <4>1. job'[p].id = n /\ job'[p].req = job[p].req /\ job'[p].base = job[p].base
        BY <2>1 DEF TypeInv, TypeOK
      <4>2. attempts'[n].st = "inflight"
        BY <2>2, <2>3, StartsInflight
      <4> QED
        BY <2>1, <2>2, <2>3, <3>1, <4>1, <4>2
    <3>2. CASE q # p
      BY <2>1, <2>3, <3>2, Alone DEF TypeInv, TypeOK, Goto, Calling
    <3> QED
      BY <3>1, <3>2
  <2>8. RunsExclude' /\ PagesShow'
    BY <2>1, <2>2, <2>3 DEF TypeInv, TypeOK, RunsExclude, PagesShow, Goto
  <2> QED
    BY <2>6, <2>7, <2>8 DEF TypeInv
<1> QED
  BY <1>1, <1>2

LEMMA NoteType == ASSUME TypeInv, NEW p \in Procs, Note(p) PROVE TypeInv'
<1>1. pc[p] = "note" /\ job[p].req \in Requests /\ job[p].base \in Requests
  BY DEF Note, TypeInv, AtCall, Calling
<1>2. repairs' \subseteq Requests \X Requests
  BY <1>1 DEF Note, TypeInv, TypeOK
<1>3. Ids' = Ids
  BY DEF Note, Ids
<1>4. TypeOK'
  BY <1>2, <1>3 DEF Note, TypeInv, TypeOK, Goto
<1>5. AtCall' /\ RunsExclude' /\ PagesShow'
  BY <1>1, <1>3 DEF Note, TypeInv, TypeOK, AtCall, RunsExclude, PagesShow, Goto, Calling
<1> QED
  BY <1>4, <1>5 DEF TypeInv

LEMMA OldsType ==
    ASSUME TypeInv, NEW p \in Procs, job[p].olds # {}
    PROVE  /\ Max(job[p].olds) \in job[p].olds
           /\ \A y \in job[p].olds : y <= Max(job[p].olds)
<1>1. job[p].olds \in SUBSET Ids
  BY DEF TypeInv, TypeOK
<1>2. IsFiniteSet(job[p].olds) /\ job[p].olds \in SUBSET Int
  BY <1>1, IdsFinite, IdsType, FS_Subset DEF TypeInv
<1>3. Max(job[p].olds) \in job[p].olds /\ \A y \in job[p].olds : Max(job[p].olds) >= y
  BY <1>2, MaxIsLargest
<1> QED
  BY <1>2, <1>3

LEMMA ReplaceType == ASSUME TypeInv, NEW p \in Procs, Replace(p) PROVE TypeInv'
<1>1. pc[p] = "replace" /\ job[p].req \in Requests /\ job[p].base \in Requests
  BY DEF Replace, TypeInv, AtCall, Calling
<1>2. Ids' = Ids
  BY DEF Replace, Ids
<1>3. CASE job[p].olds = {}
  <2>1. opts' \in [Procs -> [failed : BOOLEAN, uncertain : BOOLEAN, left : Nat]]
    <3>1. opts[p].left > 0
      BY <1>1 DEF TypeInv, AtCall, Calling
    <3>2. opts[p] \in [failed : BOOLEAN, uncertain : BOOLEAN, left : Nat]
      BY DEF TypeInv, TypeOK
    <3>3. [opts[p] EXCEPT !.left = opts[p].left - 1] \in [failed : BOOLEAN, uncertain : BOOLEAN, left : Nat]
      BY <3>1, <3>2
    <3>4. opts' = [opts EXCEPT ![p] = [opts[p] EXCEPT !.left = opts[p].left - 1]]
      BY <1>3 DEF Replace
    <3> QED
      BY <3>3, <3>4 DEF TypeInv, TypeOK
  <2>2. TypeOK'
    BY <1>2, <1>3, <2>1 DEF Replace, TypeInv, TypeOK, Goto
  <2>3. AtCall' /\ RunsExclude' /\ PagesShow'
    BY <1>1, <1>2, <1>3 DEF Replace, TypeInv, TypeOK, AtCall, RunsExclude, PagesShow, Goto, Calling
  <2> QED
    BY <2>2, <2>3 DEF TypeInv
<1>4. CASE job[p].olds # {}
  <2>1. Max(job[p].olds) \in Ids
    BY <1>4, OldsType DEF TypeInv, TypeOK
  <2>2. /\ replaced' = replaced \cup {Max(job[p].olds)}
        /\ job' = [job EXCEPT ![p].olds = @ \ {Max(@)}]
        /\ UNCHANGED <<pc, opts, attempts, current, repairs, verdicts, revision, list, lock, page,
                       runs, trouble>>
    BY <1>4 DEF Replace
  <2>3. replaced' \subseteq Ids
    BY <2>1, <2>2 DEF TypeInv, TypeOK
  <2>4. job' \in [Procs -> [req : Requests \cup {NONE}, base : Requests \cup {NONE},
                          olds : SUBSET Ids, id : Ids \cup {0}]]
    <3>1. job[p] \in [req : Requests \cup {NONE}, base : Requests \cup {NONE},
                      olds : SUBSET Ids, id : Ids \cup {0}]
      BY DEF TypeInv, TypeOK
    <3>2. [job[p] EXCEPT !.olds = job[p].olds \ {Max(job[p].olds)}]
            \in [req : Requests \cup {NONE}, base : Requests \cup {NONE},
                 olds : SUBSET Ids, id : Ids \cup {0}]
      BY <3>1
    <3>3. job' = [job EXCEPT ![p] = [job[p] EXCEPT !.olds = job[p].olds \ {Max(job[p].olds)}]]
      BY <2>2
    <3> QED
      BY <3>2, <3>3 DEF TypeInv, TypeOK
  <2>5. TypeOK'
    BY <1>2, <2>2, <2>3, <2>4 DEF TypeInv, TypeOK
  <2>6. AtCall' /\ RunsExclude' /\ PagesShow'
    BY <1>1, <1>2, <2>2 DEF TypeInv, TypeOK, AtCall, RunsExclude, PagesShow
  <2> QED
    BY <2>5, <2>6 DEF TypeInv
<1> QED
  BY <1>3, <1>4

\* What State.finish leaves.
Done(r, s, u) == [r EXCEPT !.st = s, !.charged = u]

LEMMA Finishes ==
    ASSUME TypeInv, NEW p \in Procs, pc[p] = "sent",
           NEW s \in {"uncertain", "invalid", "success"}, NEW u \in Usages \cup {NONE},
           FinishWith(p, s, u)
    PROVE  /\ job[p].id \in Ids /\ attempts[job[p].id].st = "inflight"
           /\ Ids' = Ids /\ attempts' \in Seq(Attempts)
           /\ \A a \in Ids \ {job[p].id} : attempts'[a] = attempts[a]
           /\ attempts'[job[p].id] = Done(attempts[job[p].id], s, u)
<1> DEFINE i == job[p].id
<1>1. i \in Ids /\ attempts[i].st = "inflight"
  BY DEF TypeInv, AtCall, Calling
<1>2. attempts' = [attempts EXCEPT ![i] = [attempts[i] EXCEPT !.st = s, !.charged = u]]
  BY DEF FinishWith
<1>3. attempts[i] \in Attempts /\ attempts \in Seq(Attempts)
  BY <1>1 DEF TypeInv, TypeOK, Ids
<1>4. [attempts[i] EXCEPT !.st = s, !.charged = u] \in Attempts
  BY <1>3 DEF Attempts
<1> HIDE DEF i
<1>5. Ids' = Ids /\ attempts' \in Seq(Attempts)
  BY <1>1, <1>2, <1>3, <1>4 DEF Ids
<1>6. \A a \in Ids \ {i} : attempts'[a] = attempts[a]
  BY <1>2 DEF Ids
<1>7. attempts'[i] = Done(attempts[i], s, u)
  BY <1>1, <1>2 DEF Ids, Done
<1> QED
  BY <1>1, <1>5, <1>6, <1>7 DEF i

LEMMA FinishType ==
    ASSUME TypeInv, NEW p \in Procs, pc[p] = "sent",
           NEW s \in {"uncertain", "invalid", "success"}, NEW u \in Usages \cup {NONE},
           FinishWith(p, s, u),
           \/ Stop(p)
           \/ Goto(p, "next") /\ job' = [job EXCEPT ![p] = NoJob] /\ UNCHANGED <<list, opts, lock>>,
           UNCHANGED <<current, replaced, repairs, verdicts, revision, page, runs, trouble>>
    PROVE  TypeInv'
<1>1. Ids' = Ids /\ attempts' \in Seq(Attempts)
  BY Finishes
<1>2. /\ pc' \in [Procs -> {"idle", "next", "reserve", "note", "replace", "sent"}]
      /\ pc'[p] \in {"idle", "next"} /\ \A q \in Procs \ {p} : pc'[q] = pc[q]
  BY DEF Stop, Forget, Goto, TypeInv, TypeOK
<1>3. /\ list' \in [Procs -> SUBSET Packs]
      /\ opts' \in [Procs -> [failed : BOOLEAN, uncertain : BOOLEAN, left : Nat]]
  <2>1. /\ list \in [Procs -> SUBSET Packs]
        /\ opts \in [Procs -> [failed : BOOLEAN, uncertain : BOOLEAN, left : Nat]]
    BY DEF TypeInv, TypeOK
  <2>2. CASE Stop(p)
    BY <2>1, <2>2 DEF Stop, Forget, Idle
  <2>3. CASE UNCHANGED <<list, opts>>
    BY <2>1, <2>3
  <2> QED
    BY <2>2, <2>3
<1>4. job' \in [Procs -> [req : Requests \cup {NONE}, base : Requests \cup {NONE},
                          olds : SUBSET Ids, id : Ids \cup {0}]]
  <2>1. job' = [job EXCEPT ![p] = NoJob]
    BY DEF Stop, Forget
  <2> QED
    BY <2>1 DEF TypeInv, TypeOK, NoJob
<1>5. lock' \in Procs \cup {NONE}
  BY DEF Stop, TypeInv, TypeOK
<1>6. TypeOK'
  BY <1>1, <1>2, <1>3, <1>4, <1>5 DEF TypeInv, TypeOK
<1>7. \A q \in Procs : pc'[q] \notin {"reserve"} \cup Calling
  BY <1>2, Alone DEF Calling
<1>8. AtCall'
  BY <1>7 DEF AtCall, Calling
<1>9. RunsExclude'
  BY <1>2, Alone DEF Stop, Forget, Goto, RunsExclude, TypeInv, TypeOK
<1>10. PagesShow'
  BY <1>1 DEF PagesShow, TypeInv
<1> QED
  BY <1>6, <1>8, <1>9, <1>10 DEF TypeInv

LEMMA UncertainType == ASSUME TypeInv, NEW p \in Procs, Uncertain(p) PROVE TypeInv'
BY FinishType DEF Uncertain

LEMMA AnswerType == ASSUME TypeInv, NEW p \in Procs, Answer(p) PROVE TypeInv'
<1>1. PICK u \in Usages, s \in {"success", "invalid"} :
         /\ FinishWith(p, s, u)
         /\ \/ Stop(p)
            \/ Goto(p, "next") /\ job' = [job EXCEPT ![p] = NoJob] /\ UNCHANGED <<list, opts, lock>>
  BY DEF Answer
<1> QED
  BY <1>1, FinishType DEF Answer

LEMMA ThrowsType == ASSUME TypeInv, NEW p \in Procs, Throws(p) PROVE TypeInv'
<1>1. trouble' \in 0..MaxTrouble
  BY SemanticAssumption DEF Throws, Trouble, TypeInv, TypeOK
<1> QED
  BY <1>1, StopType DEF Throws, Stop

LEMMA CrashType == ASSUME TypeInv, NEW p \in Procs, Crash(p) PROVE TypeInv'
<1>1. trouble' \in 0..MaxTrouble
  BY SemanticAssumption DEF Crash, Trouble, TypeInv, TypeOK
<1> QED
  BY <1>1, StopType DEF Crash

LEMMA UnlockType == ASSUME TypeInv, Unlock PROVE TypeInv'
<1>1. Ids' = Ids
  BY DEF Unlock, tables, Ids
<1>2. TypeOK'
  BY <1>1 DEF Unlock, TypeInv, TypeOK, tables, locals
<1>3. AtCall' /\ RunsExclude' /\ PagesShow'
  BY <1>1 DEF Unlock, TypeInv, TypeOK, AtCall, RunsExclude, PagesShow, tables, locals
<1> QED
  BY <1>2, <1>3 DEF TypeInv

LEMMA PrepareType == ASSUME TypeInv, Prepare PROVE TypeInv'
<1>1. Ids' = Ids
  BY DEF Prepare, Ids
<1>2. trouble' \in 0..MaxTrouble
  BY SemanticAssumption DEF Prepare, Trouble, TypeInv, TypeOK
<1>3. current' \in [Items -> Versions]
  BY DEF Prepare, TypeInv, TypeOK
<1>4. TypeOK'
  BY <1>1, <1>2, <1>3 DEF Prepare, TypeInv, TypeOK, locals
<1>5. AtCall' /\ RunsExclude' /\ PagesShow'
  BY <1>1 DEF Prepare, TypeInv, AtCall, RunsExclude, PagesShow, locals
<1> QED
  BY <1>4, <1>5 DEF TypeInv

\* Only an attempt that was answered becomes a success.
LEMMA Revalidates ==
    ASSUME TypeInv, Revalidate
    PROVE  \E a \in Ids :
              /\ attempts[a].st = "invalid"
              /\ \E i \in Pilots : a = Shown(Pack(i))
              /\ attempts'[a] = [attempts[a] EXCEPT !.st = "success"]
              /\ \A b \in Ids \ {a} : attempts'[b] = attempts[b]
              /\ Ids' = Ids /\ attempts' \in Seq(Attempts)
<1>1. PICK i \in Pilots :
         LET a == Shown(Pack(i))
         IN  /\ a # 0 /\ attempts[a].st = "invalid"
             /\ attempts' = [attempts EXCEPT ![a].st = "success"]
  BY DEF Revalidate
<1> DEFINE a == Shown(Pack(i))
<1>2. a \in Ids
  BY <1>1, ShownType DEF TypeInv
<1> HIDE DEF a
<1>3. attempts' = [attempts EXCEPT ![a] = [attempts[a] EXCEPT !.st = "success"]] /\ attempts[a].st = "invalid"
  BY <1>1 DEF a
<1>4. attempts[a] \in Attempts /\ attempts \in Seq(Attempts)
  BY <1>2 DEF TypeInv, TypeOK, Ids
<1>5. [attempts[a] EXCEPT !.st = "success"] \in Attempts
  BY <1>4 DEF Attempts
<1>6. Ids' = Ids /\ attempts' \in Seq(Attempts)
  BY <1>2, <1>3, <1>4, <1>5 DEF Ids
<1>7. /\ attempts'[a] = [attempts[a] EXCEPT !.st = "success"]
      /\ \A b \in Ids \ {a} : attempts'[b] = attempts[b]
  BY <1>2, <1>3 DEF Ids
<1>8. a = Shown(Pack(i))
  BY DEF a
<1> QED
  BY <1>2, <1>3, <1>6, <1>7, <1>8

LEMMA RevalidateType == ASSUME TypeInv, Revalidate PROVE TypeInv'
<1>1. PICK a \in Ids :
              /\ attempts[a].st = "invalid"
              /\ \A b \in Ids \ {a} : attempts'[b] = attempts[b]
              /\ Ids' = Ids /\ attempts' \in Seq(Attempts)
  BY Revalidates
<1>2. TypeOK'
  BY <1>1 DEF Revalidate, TypeInv, TypeOK, locals
<1>3. AtCall' /\ RunsExclude' /\ PagesShow'
  BY <1>1 DEF Revalidate, TypeInv, AtCall, RunsExclude, PagesShow, locals
<1> QED
  BY <1>2, <1>3 DEF TypeInv

LEMMA OpenPageType == ASSUME TypeInv, NEW w \in Pages, OpenPage(w) PROVE TypeInv'
<1>1. PICK a \in Ids :
         page' = [page EXCEPT ![w] = [id |-> a, rev |-> revision, part |-> NONE, to |-> NONE]]
  BY DEF OpenPage
<1>2. Ids' = Ids /\ revision < MaxReviews
  BY DEF OpenPage, tables, Ids
<1>3. [id |-> a, rev |-> revision, part |-> NONE, to |-> NONE] \in OpenPages
  BY IdsType DEF OpenPages, TypeInv, TypeOK
<1>4. TypeOK'
  BY <1>1, <1>2, <1>3 DEF OpenPage, TypeInv, TypeOK, tables, locals
<1>5. PagesShow'
  <2>1. revision \in Nat /\ a \in Ids /\ revision' = revision /\ page \in [Pages -> OpenPages \cup {NONE}]
    BY DEF OpenPage, tables, TypeInv, TypeOK
  <2> QED
    BY <1>1, <1>2, <2>1 DEF TypeInv, PagesShow
<1>6. AtCall' /\ RunsExclude'
  BY <1>2 DEF OpenPage, TypeInv, AtCall, RunsExclude, tables, locals
<1> QED
  BY <1>4, <1>5, <1>6 DEF TypeInv

LEMMA CheckReviewType == ASSUME TypeInv, NEW w \in Pages, CheckReview(w) PROVE TypeInv'
<1>1. PICK s \in Saves : page' = [page EXCEPT ![w].part = s[1], ![w].to = s[2]]
  BY DEF CheckReview
<1>2. Ids' = Ids /\ page[w] # NONE /\ page[w] \in OpenPages /\ page \in [Pages -> OpenPages \cup {NONE}]
  BY DEF CheckReview, tables, Ids, TypeInv, TypeOK
<1>3. s[1] \in Parts /\ s[2] \in Verdicts
  BY SemanticAssumption
<1> DEFINE P == [page[w] EXCEPT !.part = s[1], !.to = s[2]]
<1>4. page' = [page EXCEPT ![w] = P]
  BY <1>1
<1>5. P \in OpenPages /\ P.id = page[w].id /\ P.rev = page[w].rev /\ P.to # NONE
  BY <1>2, <1>3, SemanticAssumption DEF OpenPages
<1> HIDE DEF P
<1>6. TypeOK'
  BY <1>2, <1>4, <1>5 DEF CheckReview, TypeInv, TypeOK, tables, locals
<1>7. PagesShow'
  BY <1>2, <1>4, <1>5 DEF CheckReview, TypeInv, PagesShow, tables
<1>8. AtCall' /\ RunsExclude'
  BY <1>2 DEF CheckReview, TypeInv, AtCall, RunsExclude, tables, locals
<1> QED
  BY <1>6, <1>7, <1>8 DEF TypeInv

\* What a committed review leaves.
LEMMA Commits ==
    ASSUME TypeInv, NEW w \in Pages, CommitReview(w), Fresh(w), page[w].part \in Parts, page[w].to \in Verdicts
    PROVE  /\ page[w].id \in Ids
           /\ verdicts' \in Seq(Marks) /\ DOMAIN verdicts' = Ids
           /\ \A a \in Ids \ {page[w].id} : verdicts'[a] = verdicts[a]
           /\ verdicts'[page[w].id] = Withdrawn(verdicts[page[w].id], page[w].part, page[w].to)
<1> DEFINE i == page[w].id
           new == Withdrawn(verdicts[i], page[w].part, page[w].to)
<1>1. i \in Ids
  BY DEF CommitReview, TypeInv, PagesShow
<1>2. verdicts \in Seq(Marks) /\ DOMAIN verdicts = Ids /\ verdicts[i] \in Marks
  BY <1>1 DEF TypeInv, TypeOK
<1>3. verdicts' = [verdicts EXCEPT ![i] = new]
  BY DEF CommitReview
<1>4. new \in Marks
  BY <1>2 DEF Withdrawn, Marks, Parts, Verdicts
<1> HIDE DEF i, new
<1>5. verdicts' \in Seq(Marks) /\ DOMAIN verdicts' = DOMAIN verdicts
  BY <1>1, <1>2, <1>3, <1>4
<1>6. \A a \in Ids \ {i} : verdicts'[a] = verdicts[a]
  BY <1>2, <1>3
<1>7. verdicts'[i] = new
  BY <1>1, <1>2, <1>3
<1> QED
  BY <1>1, <1>2, <1>5, <1>6, <1>7 DEF i, new

LEMMA CommitReviewType == ASSUME TypeInv, NEW w \in Pages, CommitReview(w) PROVE TypeInv'
<1>1. Ids' = Ids
  BY DEF CommitReview, Ids
<1>2. page[w] # NONE /\ page[w] \in OpenPages /\ page \in [Pages -> OpenPages \cup {NONE}]
  BY DEF CommitReview, TypeInv, TypeOK
<1>3. page' = [page EXCEPT ![w] = NONE]
  BY DEF CommitReview
<1>4. page' \in [Pages -> OpenPages \cup {NONE}]
  BY <1>2, <1>3
<1>5. revision' \in 0..MaxReviews /\ revision <= revision'
  BY <1>2, SemanticAssumption DEF CommitReview, Fresh, TypeInv, TypeOK, PagesShow
<1>6. verdicts' \in Seq(Marks) /\ DOMAIN verdicts' = Ids
  <2>1. CASE Fresh(w)
    BY <2>1, <1>2, Commits DEF CommitReview, OpenPages, TypeInv, PagesShow
  <2>2. CASE ~Fresh(w)
    BY <2>2 DEF CommitReview, TypeInv, TypeOK
  <2> QED
    BY <2>1, <2>2
<1>7. TypeOK'
  BY <1>1, <1>4, <1>5, <1>6 DEF CommitReview, TypeInv, TypeOK, locals
<1>8. PagesShow'
  BY <1>1, <1>2, <1>3, <1>5, SemanticAssumption DEF TypeInv, TypeOK, PagesShow, OpenPages
<1>9. AtCall' /\ RunsExclude'
  BY <1>1 DEF CommitReview, TypeInv, AtCall, RunsExclude, locals
<1> QED
  BY <1>7, <1>8, <1>9 DEF TypeInv

LEMMA TypeStep == ASSUME TypeInv, [Next]_vars PROVE TypeInv'
<1>1. ASSUME NEW p \in Procs, Step(p) PROVE TypeInv'
  BY <1>1, EndType, LookType, ReserveType, NoteType, ReplaceType, UncertainType, AnswerType DEF Step
<1>2. ASSUME NEW p \in Procs, Start(p) \/ Throws(p) \/ Crash(p) PROVE TypeInv'
  BY <1>2, StartType, ThrowsType, CrashType
<1>3. ASSUME Unlock \/ Prepare \/ Revalidate PROVE TypeInv'
  BY <1>3, UnlockType, PrepareType, RevalidateType
<1>4. ASSUME NEW w \in Pages, OpenPage(w) \/ CheckReview(w) \/ CommitReview(w) PROVE TypeInv'
  BY <1>4, OpenPageType, CheckReviewType, CommitReviewType
<1>5. ASSUME UNCHANGED vars PROVE TypeInv'
  <2>1. Ids' = Ids
    BY <1>5 DEF vars, tables, Ids
  <2>2. TypeOK'
    BY <1>5, <2>1 DEF TypeInv, TypeOK, vars, tables, locals
  <2>3. AtCall' /\ RunsExclude' /\ PagesShow'
    BY <1>5, <2>1 DEF TypeInv, AtCall, RunsExclude, PagesShow, vars, tables, locals
  <2> QED
    BY <2>2, <2>3 DEF TypeInv
<1> QED
  BY <1>1, <1>2, <1>3, <1>4, <1>5 DEF Next

LEMMA TypeAlways == Spec => []TypeInv
<1>1. Init => TypeInv
  BY InitType
<1>2. TypeInv /\ [Next]_vars => TypeInv'
  BY TypeStep
<1> QED
  BY <1>1, <1>2, PTL DEF Spec

(* The tables and the locals of run() keep their types, for any number of  *)
(* processes, review pages, items, runs and faults.                        *)
THEOREM SemanticTypeCorrect == Spec => []TypeOK
<1>1. TypeInv => TypeOK
  BY DEF TypeInv
<1> QED
  BY <1>1, TypeAlways, PTL

\* Two processes are never both inside run().
OneRunAtATime == \A p, q \in Procs : pc[p] # "idle" /\ pc[q] # "idle" => p = q

(* run.lock keeps runs apart, also when it outlives a killed process and a *)
(* person removes it: whoever is inside run() has its pid in the file.     *)
THEOREM RunsNeverOverlap == Spec => []OneRunAtATime
<1>1. TypeInv => OneRunAtATime
  BY Alone DEF OneRunAtATime
<1> QED
  BY <1>1, TypeAlways, PTL

-----------------------------------------------------------------------------
(* Open calls stay counted *)

\* A call without an answer has no charge yet.
OpenUncharged == \A a \in Ids : attempts[a].st \in {"inflight", "uncertain"} => attempts[a].charged = NONE

\* Which rows of attempts a step may change, and how.
RowsKept ==
    /\ Ids \subseteq Ids'
    /\ \A a \in Ids :
          \/ attempts'[a] = attempts[a]
          \/ /\ \E p \in Procs : pc[p] = "sent" /\ job[p].id = a
             /\ attempts[a].st = "inflight"
             /\ \E s \in {"uncertain", "invalid", "success"}, u \in Usages \cup {NONE} :
                   /\ s = "uncertain" <=> u = NONE
                   /\ attempts'[a] = Done(attempts[a], s, u)
          \/ /\ attempts[a].st = "invalid"
             /\ attempts'[a] = [attempts[a] EXCEPT !.st = "success"]
             /\ \E i \in Pilots : a = Shown(Pack(i))
    /\ \A a \in Ids' \ Ids :
          /\ attempts'[a].st = "inflight" /\ attempts'[a].charged = NONE
          /\ verdicts'[a] = Unread

LEMMA RowsStep == ASSUME TypeInv, [Next]_vars PROVE RowsKept
<1>1. ASSUME UNCHANGED attempts PROVE RowsKept
  BY <1>1 DEF RowsKept, Ids
<1>2. ASSUME NEW p \in Procs, Reserve(p) PROVE RowsKept
  <2>1. CASE Accounted + Cost > Limit
    BY <1>1, <1>2, <2>1 DEF Reserve, tables
  <2>2. CASE ~(Accounted + Cost > Limit)
    <3>1. job[p].req \in Requests
      BY <1>2 DEF Reserve, TypeInv, AtCall
    <3> DEFINE n == Len(attempts) + 1
    <3>2. /\ Ids' = Ids \cup {n} /\ n \notin Ids
          /\ \A a \in Ids : attempts'[a] = attempts[a]
          /\ attempts'[n] = [job[p].req EXCEPT !.st = "inflight"] /\ verdicts'[n] = Unread
      BY <1>2, <2>2, Reserves
    <3>3. attempts'[n].st = "inflight" /\ attempts'[n].charged = NONE
      BY <3>1, <3>2, StartsInflight
    <3> HIDE DEF n
    <3> QED
      BY <3>2, <3>3 DEF RowsKept
  <2> QED
    BY <2>1, <2>2
<1>3. ASSUME NEW p \in Procs, pc[p] = "sent",
             NEW s \in {"uncertain", "invalid", "success"}, NEW u \in Usages \cup {NONE},
             s = "uncertain" <=> u = NONE, FinishWith(p, s, u)
      PROVE  RowsKept
  <2>1. /\ job[p].id \in Ids /\ attempts[job[p].id].st = "inflight"
        /\ Ids' = Ids /\ attempts' \in Seq(Attempts)
        /\ \A a \in Ids \ {job[p].id} : attempts'[a] = attempts[a]
        /\ attempts'[job[p].id] = Done(attempts[job[p].id], s, u)
    <3>1. pc[p] = "sent" /\ FinishWith(p, s, u)
      BY <1>3
    <3> QED
      BY <3>1, Finishes
  <2> SUFFICES \E t \in {"uncertain", "invalid", "success"}, v \in Usages \cup {NONE} :
                  /\ t = "uncertain" <=> v = NONE
                  /\ attempts'[job[p].id] = Done(attempts[job[p].id], t, v)
    BY <1>3, <2>1 DEF RowsKept
  <2> WITNESS s \in {"uncertain", "invalid", "success"}, u \in Usages \cup {NONE}
  <2> QED
    BY <1>3, <2>1
<1>4. ASSUME NEW p \in Procs, Step(p) PROVE RowsKept
  <2>1. CASE End(p) \/ Look(p) \/ Note(p) \/ Replace(p)
    BY <1>1, <2>1 DEF End, Look, Note, Replace, tables
  <2>2. CASE Uncertain(p)
    BY <1>3, <2>2 DEF Uncertain
  <2>3. CASE Answer(p)
    BY <1>3, <2>3, SemanticAssumption DEF Answer
  <2> QED
    BY <1>2, <1>4, <2>1, <2>2, <2>3 DEF Step
<1>5. ASSUME NEW p \in Procs, Start(p) \/ Throws(p) \/ Crash(p) PROVE RowsKept
  BY <1>1, <1>5 DEF Start, Throws, Crash, tables
<1>6. ASSUME Revalidate PROVE RowsKept
  BY <1>6, Revalidates DEF RowsKept
<1>7. ASSUME Unlock \/ Prepare \/ UNCHANGED vars PROVE RowsKept
  BY <1>1, <1>7 DEF Unlock, Prepare, vars, tables
<1>8. ASSUME NEW w \in Pages, OpenPage(w) \/ CheckReview(w) \/ CommitReview(w) PROVE RowsKept
  BY <1>1, <1>8 DEF OpenPage, CheckReview, CommitReview, tables
<1> QED
  BY <1>4, <1>5, <1>6, <1>7, <1>8 DEF Next

LEMMA OpenStep == ASSUME TypeInv, OpenUncharged, [Next]_vars PROVE OpenUncharged'
<1>1. RowsKept
  BY RowsStep
<1> SUFFICES ASSUME NEW a \in Ids', attempts'[a].st \in {"inflight", "uncertain"}
             PROVE  attempts'[a].charged = NONE
  BY DEF OpenUncharged
<1>2. CASE a \notin Ids
  BY <1>1, <1>2 DEF RowsKept
<1>3. CASE a \in Ids
  <2>1. attempts[a] \in Attempts
    BY <1>3 DEF TypeInv, TypeOK, Ids
  <2> QED
    BY <1>1, <1>3, <2>1 DEF RowsKept, OpenUncharged, Attempts, Done
<1> QED
  BY <1>2, <1>3

(* Whatever a runner, a crash, a restart or a page does, a call whose      *)
(* outcome is not known stays counted with its whole reservation until the *)
(* process that sent it records the answer (State.finish).                 *)
THEOREM UnknownAlwaysReserved == Spec => UnknownStaysReserved
<1>1. Init => OpenUncharged
  BY DEF Init, OpenUncharged, Ids
<1>2. TypeInv /\ OpenUncharged /\ [Next]_vars => OpenUncharged'
  BY OpenStep
<1> DEFINE Counts == \A a \in Ids : attempts[a].st \in {"inflight", "uncertain"} =>
                        \/ attempts'[a].charged = NONE /\ attempts'[a].reserved = Cost
                        \/ \E p \in Procs : pc[p] = "sent" /\ job[p].id = a
<1>3. TypeInv /\ OpenUncharged /\ [Next]_vars => [Counts]_vars
  <2> SUFFICES ASSUME TypeInv, OpenUncharged, [Next]_vars,
                      NEW a \in Ids, attempts[a].st \in {"inflight", "uncertain"}
               PROVE  \/ attempts'[a].charged = NONE /\ attempts'[a].reserved = Cost
                      \/ \E p \in Procs : pc[p] = "sent" /\ job[p].id = a
    OBVIOUS
  <2>1. RowsKept
    BY RowsStep
  <2>2. attempts[a] \in Attempts
    BY DEF TypeInv, TypeOK, Ids
  <2> QED
    BY <2>1, <2>2 DEF RowsKept, OpenUncharged, Attempts, Done
<1> QED
  BY <1>1, <1>2, <1>3, TypeAlways, PTL DEF Spec, UnknownStaysReserved

-----------------------------------------------------------------------------
(* A relation is accepted only while its end is *)

\* A page that accepts a relation and may still commit has seen the end accepted.
CheckedEnds ==
    \A w \in Pages :
        page[w] # NONE /\ page[w].rev = revision /\ page[w].part = "rel" /\ page[w].to = "accepted"
            => verdicts[page[w].id]["end"] = "accepted"

\* No review is committed.
ReviewsKept ==
    /\ revision' = revision /\ DOMAIN verdicts' = Ids'
    /\ \A a \in Ids : verdicts'[a] = verdicts[a]
    /\ \A a \in Ids' \ Ids : verdicts'[a] = Unread

LEMMA ReviewsStep ==
    ASSUME TypeInv, [Next]_vars
    PROVE  ReviewsKept \/ \E w \in Pages : CommitReview(w) /\ Fresh(w)
<1>1. ASSUME UNCHANGED verdicts, UNCHANGED revision PROVE ReviewsKept
  <2>1. DOMAIN verdicts = Ids /\ TypeInv'
    BY TypeStep DEF TypeInv, TypeOK
  <2> QED
    BY <1>1, <2>1 DEF ReviewsKept, TypeInv, TypeOK
<1>2. ASSUME NEW p \in Procs, Reserve(p) PROVE ReviewsKept
  <2>1. CASE Accounted + Cost > Limit
    BY <1>1, <1>2, <2>1 DEF Reserve, tables
  <2>2. CASE ~(Accounted + Cost > Limit)
    <3> DEFINE n == Len(attempts) + 1
    <3>1. /\ Ids' = Ids \cup {n} /\ n \notin Ids
          /\ DOMAIN verdicts' = Ids' /\ \A a \in Ids : verdicts'[a] = verdicts[a]
          /\ verdicts'[n] = Unread
      BY <1>2, <2>2, Reserves
    <3>2. revision' = revision
      BY <1>2, <2>2 DEF Reserve
    <3> HIDE DEF n
    <3> QED
      BY <3>1, <3>2 DEF ReviewsKept
  <2> QED
    BY <2>1, <2>2
<1>3. ASSUME NEW p \in Procs, Step(p) PROVE ReviewsKept
  BY <1>1, <1>2, <1>3 DEF Step, End, Look, Note, Replace, Uncertain, Answer, tables
<1>4. ASSUME NEW p \in Procs, Start(p) \/ Throws(p) \/ Crash(p) PROVE ReviewsKept
  BY <1>1, <1>4 DEF Start, Throws, Crash, tables
<1>5. ASSUME Unlock \/ Prepare \/ Revalidate \/ UNCHANGED vars PROVE ReviewsKept
  BY <1>1, <1>5 DEF Unlock, Prepare, Revalidate, vars, tables
<1>6. ASSUME NEW w \in Pages, OpenPage(w) \/ CheckReview(w) \/ (CommitReview(w) /\ ~Fresh(w))
      PROVE  ReviewsKept
  BY <1>1, <1>6 DEF OpenPage, CheckReview, CommitReview, tables
<1> QED
  BY <1>3, <1>4, <1>5, <1>6 DEF Next

\* What a step does to a page.
PageMoves(w) ==
    \/ page'[w] = page[w]
    \/ page'[w] = NONE
    \/ /\ page'[w] # NONE /\ page'[w].part = NONE /\ page'[w].rev = revision
       /\ page'[w].id \in Ids /\ Reviewable(page'[w].id)
    \/ /\ page[w] # NONE /\ page'[w] # NONE
       /\ page'[w].id = page[w].id /\ page'[w].rev = page[w].rev
       /\ <<page'[w].part, page'[w].to>> \in Saves
       /\ Reviewable(page[w].id)
       /\ page'[w].part = "rel" /\ page'[w].to = "accepted" => verdicts[page[w].id]["end"] = "accepted"

LEMMA PagesStep == ASSUME TypeInv, [Next]_vars, NEW w \in Pages PROVE PageMoves(w)
<1>1. ASSUME UNCHANGED page PROVE PageMoves(w)
  BY <1>1 DEF PageMoves
<1>2. page \in [Pages -> OpenPages \cup {NONE}]
  BY DEF TypeInv, TypeOK
<1>3. ASSUME NEW v \in Pages, OpenPage(v) PROVE PageMoves(w)
  <2>1. PICK a \in Ids :
           /\ Reviewable(a)
           /\ page' = [page EXCEPT ![v] = [id |-> a, rev |-> revision, part |-> NONE, to |-> NONE]]
    BY <1>3 DEF OpenPage
  <2>2. [id |-> a, rev |-> revision, part |-> NONE, to |-> NONE] # NONE
    <3>1. [id |-> a, rev |-> revision, part |-> NONE, to |-> NONE] \in OpenPages
      BY IdsType DEF OpenPages, TypeInv, TypeOK
    <3> QED
      BY <3>1, SemanticAssumption
  <2> QED
    BY <1>2, <2>1, <2>2 DEF PageMoves
<1>4. ASSUME NEW v \in Pages, CheckReview(v) PROVE PageMoves(w)
  <2>1. PICK s \in Saves :
           /\ s = <<"rel", "accepted">> => verdicts[page[v].id]["end"] = "accepted"
           /\ page' = [page EXCEPT ![v].part = s[1], ![v].to = s[2]]
    BY <1>4 DEF CheckReview
  <2> DEFINE P == [page[v] EXCEPT !.part = s[1], !.to = s[2]]
  <2>2. page[v] # NONE /\ page[v] \in OpenPages /\ Reviewable(page[v].id)
    BY <1>2, <1>4 DEF CheckReview
  <2>3. s \in Parts \X Verdicts /\ s = <<s[1], s[2]>>
    BY SemanticAssumption
  <2>4. /\ P \in OpenPages /\ P.id = page[v].id /\ P.rev = page[v].rev
        /\ P.part = s[1] /\ P.to = s[2]
    BY <2>2, <2>3 DEF OpenPages
  <2>5. page' = [page EXCEPT ![v] = P]
    BY <2>1
  <2> HIDE DEF P
  <2>6. P # NONE
    BY <2>4, SemanticAssumption
  <2>7. CASE w = v
    <3>1. page'[w] = P
      BY <1>2, <2>5, <2>7
    <3>2. <<P.part, P.to>> \in Saves
      BY <2>3, <2>4
    <3>3. P.part = "rel" /\ P.to = "accepted" => verdicts[page[v].id]["end"] = "accepted"
      BY <2>1, <2>3, <2>4
    <3> QED
      BY <2>2, <2>4, <2>6, <2>7, <3>1, <3>2, <3>3 DEF PageMoves
  <2>8. CASE w # v
    BY <1>2, <2>5, <2>8 DEF PageMoves
  <2> QED
    BY <2>7, <2>8
<1>5. ASSUME NEW v \in Pages, CommitReview(v) PROVE PageMoves(w)
  BY <1>2, <1>5 DEF CommitReview, PageMoves
<1>6. ASSUME NEW p \in Procs, Step(p) PROVE PageMoves(w)
  BY <1>1, <1>6 DEF Step, End, Look, Reserve, Note, Replace, Uncertain, Answer
<1>7. ASSUME NEW p \in Procs, Start(p) \/ Throws(p) \/ Crash(p) PROVE PageMoves(w)
  BY <1>1, <1>7 DEF Start, Throws, Crash
<1>8. ASSUME Unlock \/ Prepare \/ Revalidate \/ UNCHANGED vars PROVE PageMoves(w)
  BY <1>1, <1>8 DEF Unlock, Prepare, Revalidate, vars
<1> QED
  BY <1>3, <1>4, <1>5, <1>6, <1>7, <1>8 DEF Next

LEMMA CommitBumps ==
    ASSUME TypeInv, NEW w \in Pages, CommitReview(w), Fresh(w)
    PROVE  /\ revision' = revision + 1 /\ Ids' = Ids /\ UNCHANGED attempts
           /\ page' = [page EXCEPT ![w] = NONE]
           /\ page[w] # NONE /\ page[w].part \in Parts /\ page[w].to \in Verdicts
BY DEF CommitReview, TypeInv, TypeOK, PagesShow, OpenPages, Ids

LEMMA AcceptStep ==
    ASSUME TypeInv, CheckedEnds, AcceptedHasEnds, [Next]_vars
    PROVE  CheckedEnds' /\ AcceptedHasEnds'
<1>1. CASE ReviewsKept
  <2>1. AcceptedHasEnds'
    BY <1>1 DEF ReviewsKept, AcceptedHasEnds, Unread, Parts
  <2>2. CheckedEnds'
    <3> SUFFICES ASSUME NEW w \in Pages, page'[w] # NONE, page'[w].rev = revision',
                        page'[w].part = "rel", page'[w].to = "accepted"
                 PROVE  verdicts'[page'[w].id]["end"] = "accepted"
      BY DEF CheckedEnds
    <3>1. page'[w].part # NONE
      BY SemanticAssumption DEF Parts
    <3>2. PageMoves(w)
      BY PagesStep
    <3>3. page[w] # NONE /\ page[w].id \in Ids /\ page'[w].id = page[w].id
      BY <3>1, <3>2 DEF PageMoves, TypeInv, PagesShow
    <3>4. verdicts[page[w].id]["end"] = "accepted"
      BY <1>1, <3>1, <3>2 DEF PageMoves, CheckedEnds, ReviewsKept
    <3> QED
      BY <1>1, <3>3, <3>4 DEF ReviewsKept
  <2> QED
    BY <2>1, <2>2
<1>2. CASE \E w \in Pages : CommitReview(w) /\ Fresh(w)
  <2>1. PICK w \in Pages : CommitReview(w) /\ Fresh(w)
    BY <1>2
  <2> DEFINE i == page[w].id
  <2>2. /\ revision' = revision + 1 /\ Ids' = Ids
        /\ page' = [page EXCEPT ![w] = NONE]
        /\ page[w] # NONE /\ page[w].part \in Parts /\ page[w].to \in Verdicts
    BY <2>1, CommitBumps
  <2>3. /\ i \in Ids /\ verdicts' \in Seq(Marks) /\ DOMAIN verdicts' = Ids
        /\ \A a \in Ids \ {i} : verdicts'[a] = verdicts[a]
        /\ verdicts'[i] = Withdrawn(verdicts[i], page[w].part, page[w].to)
    BY <2>1, <2>2, Commits
  <2>4. AcceptedHasEnds'
    <3>1. verdicts[i] \in Marks
      BY <2>3 DEF TypeInv, TypeOK
    <3>2. verdicts'[i]["rel"] = "accepted" => verdicts'[i]["end"] = "accepted"
      <4>1. verdicts[i]["rel"] = "accepted" => verdicts[i]["end"] = "accepted"
        BY <2>3 DEF AcceptedHasEnds
      <4>2. CASE page[w].part = "rel"
        <5>1. page[w].to = "accepted" => verdicts[i]["end"] = "accepted"
          BY <2>1, <2>2, <4>2 DEF CheckedEnds, Fresh
        <5> QED
          BY <2>3, <3>1, <4>2, <5>1 DEF Withdrawn, Marks, Parts
      <4>3. CASE page[w].part = "end"
        BY <2>2, <2>3, <3>1, <4>1, <4>3 DEF Withdrawn, Marks, Parts
      <4> QED
        BY <2>2, <4>2, <4>3 DEF Parts
    <3> QED
      BY <2>2, <2>3, <3>2 DEF AcceptedHasEnds
  <2>5. CheckedEnds'
    BY <2>2, SemanticAssumption DEF TypeInv, TypeOK, PagesShow, CheckedEnds, OpenPages
  <2> QED
    BY <2>4, <2>5
<1> QED
  BY <1>1, <1>2, ReviewsStep

(* However many pages and servers save reviews, and however old their      *)
(* pages are: a relation stays accepted only while its end is              *)
(* (saveItemReview, pilot_meta.revision).                                  *)
THEOREM AcceptedAlwaysHasEnds == Spec => []AcceptedHasEnds
<1>1. Init => CheckedEnds /\ AcceptedHasEnds
  BY DEF Init, CheckedEnds, AcceptedHasEnds, Ids
<1>2. TypeInv /\ CheckedEnds /\ AcceptedHasEnds /\ [Next]_vars => CheckedEnds' /\ AcceptedHasEnds'
  BY AcceptStep
<1> QED
  BY <1>1, <1>2, TypeAlways, PTL DEF Spec

-----------------------------------------------------------------------------
(* What was reviewed stays shown *)

\* The reviewed attempts of a pack.
Read(k) == {b \in Ids : attempts[b].pack = k /\ Reviewed(b)}

\* Reviews are of successes; a page that may still save them shows the last one.
ReviewsShown ==
    /\ \A a \in Ids : Reviewed(a) => attempts[a].st = "success"
    /\ \A w \in Pages : page[w] # NONE => attempts[page[w].id].st = "success"
    /\ \A w \in Pages, b \in Ids :
          /\ page[w] # NONE /\ page[w].rev = revision /\ page[w].part # NONE
          /\ attempts[b].pack = attempts[page[w].id].pack /\ verdicts[b] # Unread
          => verdicts[page[w].id] # Unread /\ b <= page[w].id

LEMMA ShownIsLast ==
    ASSUME NEW k
    PROVE  /\ Read(k) # {} => Shown(k) = Max(Read(k) \cup {0})
           /\ (Read(k) # {})' => Shown(k)' = Max(Read(k)' \cup {0})
<1>1. ASSUME Read(k) # {} PROVE Shown(k) = Max(Read(k) \cup {0})
  <2>1. Read(k) = {a \in {b \in Ids : attempts[b].pack = k} : Reviewed(a)}
    BY DEF Read
  <2> QED
    BY <1>1, <2>1 DEF Shown
<1>2. ASSUME (Read(k) # {})' PROVE Shown(k)' = Max(Read(k)' \cup {0})
  <2>1. Read(k)' = {a \in {b \in Ids' : attempts'[b].pack = k} : Reviewed(a)'}
    BY DEF Read
  <2> QED
    BY <1>2, <2>1 DEF Shown
<1> QED
  BY <1>1, <1>2

LEMMA ReviewableLast ==
    ASSUME TypeInv, NEW a \in Ids, Reviewable(a)
    PROVE  /\ attempts[a].st = "success"
           /\ \A b \in Read(attempts[a].pack) : Reviewed(a) /\ b <= a
<1>1. PICK i \in Pilots : a = Shown(Pack(i))
  BY DEF Reviewable
<1> DEFINE k == Pack(i)
           mine == {c \in Ids : attempts[c].pack = k}
<1>2. attempts[a].pack = k
  <2>1. \A S \in SUBSET mine : Max(S \cup {0}) # 0 => Max(S \cup {0}) \in S
    <3> SUFFICES ASSUME NEW S \in SUBSET mine, Max(S \cup {0}) # 0 PROVE Max(S \cup {0}) \in S
      OBVIOUS
    <3>1. S \in SUBSET Ids
      OBVIOUS
    <3> QED
      BY <3>1, MaxOfIds DEF TypeInv
  <2>2. \E S \in SUBSET mine : a = Max(S \cup {0})
    <3>1. {c \in mine : Reviewed(c)} \in SUBSET mine /\ mine \in SUBSET mine
      OBVIOUS
    <3>2. \/ a = Max({c \in mine : Reviewed(c)} \cup {0})
          \/ a = Max(mine \cup {0})
      BY <1>1 DEF Shown
    <3> HIDE DEF mine
    <3> QED
      BY <3>1, <3>2
  <2>3. a # 0
    BY IdsType DEF TypeInv
  <2>4. a \in mine
    <3> HIDE DEF mine
    <3> QED
      BY <2>1, <2>2, <2>3
  <2> QED
    BY <2>4
<1>3. ASSUME NEW b \in Read(k) PROVE Reviewed(a) /\ b <= a
  <2>1. a = Max(Read(k) \cup {0})
    BY <1>1, <1>3, ShownIsLast
  <2>2. Read(k) \in SUBSET Ids /\ Read(k) # {}
    BY <1>3 DEF Read
  <2>3. a \in Read(k) /\ b <= a
    BY <1>3, <2>1, <2>2, MaxOfIds DEF TypeInv
  <2> QED
    BY <2>3 DEF Read
<1> QED
  BY <1>2, <1>3 DEF Reviewable

\* No row loses or changes its pack, and a success stays one.
LEMMA SuccessKept ==
    ASSUME TypeInv, [Next]_vars
    PROVE  /\ Ids \subseteq Ids'
           /\ \A a \in Ids : attempts'[a].pack = attempts[a].pack
           /\ \A a \in Ids : attempts[a].st = "success" => attempts'[a] = attempts[a]
<1>1. RowsKept
  BY RowsStep
<1>2. \A a \in Ids : attempts[a] \in Attempts
  BY DEF TypeInv, TypeOK, Ids
<1> QED
  BY ZenonT(60), <1>1, <1>2 DEF RowsKept, Done, Attempts

\* Without a commit the reviewed attempts of a pack are the same.
LEMMA ReadKept ==
    ASSUME TypeInv, [Next]_vars, ReviewsKept, NEW k
    PROVE  Read(k)' = Read(k)
<1>1. \A b \in Ids : Reviewed(b)' <=> Reviewed(b)
  BY DEF ReviewsKept, Reviewed
<1>2. \A b \in Ids' \ Ids : ~Reviewed(b)'
  BY DEF ReviewsKept, Reviewed
<1>3. /\ Ids \subseteq Ids' /\ \A a \in Ids : attempts'[a].pack = attempts[a].pack
  BY SuccessKept
<1>4. Read(k)' = {b \in Ids' : attempts'[b].pack = k /\ Reviewed(b)'}
  BY DEF Read
<1> QED
  BY <1>1, <1>2, <1>3, <1>4 DEF Read

\* A commit adds at most the attempt that was shown last.
LEMMA ReadCommitted ==
    ASSUME TypeInv, NEW w \in Pages, CommitReview(w), Fresh(w), NEW k
    PROVE  /\ Ids' = Ids /\ attempts' = attempts
           /\ \A b \in Ids : Reviewed(b)' <=> Reviewed(b) \/ b = page[w].id
           /\ Read(k)' = Read(k) \cup {b \in {page[w].id} : attempts[b].pack = k}
<1>1. /\ Ids' = Ids /\ attempts' = attempts
      /\ page[w].part \in Parts /\ page[w].to \in Verdicts
  BY CommitBumps
<1>2. /\ page[w].id \in Ids /\ DOMAIN verdicts' = Ids
      /\ \A a \in Ids \ {page[w].id} : verdicts'[a] = verdicts[a]
      /\ verdicts'[page[w].id] = Withdrawn(verdicts[page[w].id], page[w].part, page[w].to)
  BY <1>1, Commits
<1>3. verdicts'[page[w].id] # Unread
  <2>1. verdicts[page[w].id] \in Marks
    BY <1>2 DEF TypeInv, TypeOK
  <2>2. verdicts'[page[w].id][page[w].part] = page[w].to
    BY <1>1, <1>2, <2>1 DEF Withdrawn, Marks, Parts
  <2>3. Unread[page[w].part] = "none" /\ page[w].to # "none"
    BY <1>1 DEF Unread, Verdicts
  <2> QED
    BY <2>2, <2>3
<1>4. \A b \in Ids : Reviewed(b)' <=> Reviewed(b) \/ b = page[w].id
  BY <1>2, <1>3 DEF Reviewed
<1>5. Read(k)' = {b \in Ids' : attempts'[b].pack = k /\ Reviewed(b)'}
  BY DEF Read
<1> QED
  BY <1>1, <1>2, <1>4, <1>5 DEF Read

LEMMA ShownStep ==
    ASSUME TypeInv, ReviewsShown, [Next]_vars
    PROVE  ReviewsShown'
<1>1. /\ Ids \subseteq Ids'
      /\ \A a \in Ids : attempts'[a].pack = attempts[a].pack
      /\ \A a \in Ids : attempts[a].st = "success" => attempts'[a] = attempts[a]
  BY SuccessKept
<1>2. \A w \in Pages : PageMoves(w)
  BY PagesStep
<1>3. \A w \in Pages : page[w] # NONE => page[w].id \in Ids /\ attempts[page[w].id].st = "success"
  BY DEF TypeInv, PagesShow, ReviewsShown
<1>4. \A w \in Pages : page'[w] # NONE => page'[w].id \in Ids /\ attempts[page'[w].id].st = "success"
  BY <1>2, <1>3 DEF PageMoves, Reviewable
<1>5. \A w \in Pages : (page[w] # NONE)' => (attempts[page[w].id].st = "success")'
  BY <1>1, <1>4
<1>6. CASE ReviewsKept
  <2>1. ASSUME NEW a \in Ids', Reviewed(a)' PROVE (attempts[a].st = "success")'
    <3>1. a \in Ids /\ Reviewed(a)
      BY <1>6, <2>1 DEF ReviewsKept, Reviewed
    <3> QED
      BY <1>1, <3>1 DEF ReviewsShown
  <2>2. ASSUME NEW w \in Pages, NEW b \in Ids',
               page'[w] # NONE, page'[w].rev = revision', page'[w].part # NONE,
               attempts'[b].pack = attempts'[page'[w].id].pack, verdicts'[b] # Unread
        PROVE  verdicts'[page'[w].id] # Unread /\ b <= page'[w].id
    <3>1. page'[w].id \in Ids /\ attempts'[page'[w].id].pack = attempts[page'[w].id].pack
      BY <1>1, <1>4, <2>2
    <3>2. b \in Ids /\ verdicts[b] # Unread /\ attempts[b].pack = attempts[page'[w].id].pack
      BY <1>1, <1>6, <2>2, <3>1 DEF ReviewsKept
    <3>3. verdicts[page'[w].id] # Unread /\ b <= page'[w].id
      <4>1. CASE page'[w] = page[w]
        BY <1>6, <2>2, <3>2, <4>1 DEF ReviewsKept, ReviewsShown
      <4>2. CASE page'[w] # page[w]
        <5>1. page'[w].id = page[w].id /\ page[w] # NONE /\ Reviewable(page[w].id)
          BY <1>2, <2>2, <4>2 DEF PageMoves
        <5>2. b \in Read(attempts[page[w].id].pack)
          BY <3>2, <5>1 DEF Read, Reviewed
        <5> QED
          BY <3>1, <5>1, <5>2, ReviewableLast DEF Reviewed
      <4> QED
        BY <4>1, <4>2
    <3> QED
      BY <1>6, <3>1, <3>3 DEF ReviewsKept
  <2> QED
    BY <1>5, <2>1, <2>2 DEF ReviewsShown
<1>7. CASE \E v \in Pages : CommitReview(v) /\ Fresh(v)
  <2>1. PICK v \in Pages : CommitReview(v) /\ Fresh(v)
    BY <1>7
  <2>2. /\ Ids' = Ids /\ attempts' = attempts
        /\ \A b \in Ids : Reviewed(b)' <=> Reviewed(b) \/ b = page[v].id
    BY <2>1, ReadCommitted
  <2>3. revision' = revision + 1 /\ page' = [page EXCEPT ![v] = NONE] /\ page[v] # NONE
    BY <2>1, CommitBumps
  <2>4. \A a \in Ids' : Reviewed(a)' => attempts'[a].st = "success"
    BY <1>3, <2>2, <2>3 DEF ReviewsShown
  <2>5. \A w \in Pages : page'[w] = NONE \/ page'[w].rev # revision'
    BY <2>3, SemanticAssumption DEF TypeInv, TypeOK, PagesShow, OpenPages
  <2> QED
    BY <1>5, <2>4, <2>5 DEF ReviewsShown
<1> QED
  BY <1>6, <1>7, ReviewsStep

(* A result that somebody reviewed and that is shown stays shown, as it    *)
(* is, whatever later runs, corrections, revalidations, packs and reviews  *)
(* do (State.items, saveItemReview).                                       *)
THEOREM ReviewedAlwaysShown == Spec => ReviewedStaysShown
<1>1. Init => ReviewsShown
  BY DEF Init, ReviewsShown, Ids
<1>2. TypeInv /\ ReviewsShown /\ [Next]_vars => ReviewsShown'
  BY ShownStep
<1> DEFINE Stays == \A a \in Ids : Reviewed(a) /\ Shown(attempts[a].pack) = a =>
                       /\ Shown(attempts[a].pack)' = a
                       /\ attempts'[a] = attempts[a]
<1>3. TypeInv /\ ReviewsShown /\ [Next]_vars => [Stays]_vars
  <2> SUFFICES ASSUME TypeInv, ReviewsShown, [Next]_vars,
                      NEW a \in Ids, Reviewed(a), Shown(attempts[a].pack) = a
               PROVE  Shown(attempts[a].pack)' = a /\ attempts'[a] = attempts[a]
    OBVIOUS
  <2>1. attempts'[a] = attempts[a]
    BY SuccessKept DEF ReviewsShown
  <2> SUFFICES ASSUME NEW k, k = attempts[a].pack PROVE Shown(k)' = a
    BY <2>1 DEF Shown, Ids, Reviewed
  <2>2. a \in Read(k) /\ a = Max(Read(k) \cup {0})
    BY ShownIsLast DEF Read
  <2>3. Read(k)' = Read(k)
    <3>1. CASE ReviewsKept
      BY <3>1, ReadKept
    <3>2. CASE \E w \in Pages : CommitReview(w) /\ Fresh(w)
      <4>1. PICK w \in Pages : CommitReview(w) /\ Fresh(w)
        BY <3>2
      <4>2. Read(k)' = Read(k) \cup {b \in {page[w].id} : attempts[b].pack = k}
        BY <4>1, ReadCommitted
      <4>3. /\ page[w] # NONE /\ page[w].part # NONE /\ page[w].rev = revision /\ page[w].id \in Ids
        BY <4>1 DEF CommitReview, Fresh, TypeInv, PagesShow
      <4>4. attempts[page[w].id].pack = k => page[w].id \in Read(k)
        BY <4>3, <2>2 DEF ReviewsShown, Read, Reviewed
      <4> QED
        BY <4>2, <4>4
    <3> QED
      BY <3>1, <3>2, ReviewsStep
  <2>4. (Read(k) # {})'
    BY <2>2, <2>3
  <2> QED
    BY <2>2, <2>3, <2>4, ShownIsLast
<1> QED
  BY <1>1, <1>2, <1>3, TypeAlways, PTL DEF Spec, ReviewedStaysShown

-----------------------------------------------------------------------------
(* One open call per item *)

\* The calls of pilot items that somebody still has to look into.
Open == {a \in Ids \ replaced : /\ attempts[a].pack.item \in Pilots
                                /\ attempts[a].st \in {"inflight", "uncertain"}}

LastInflight ==
    \A a, b \in Open : a < b /\ attempts[a].pack.item = attempts[b].pack.item
        => attempts[b].st = "inflight"

RepairsSamePack == \A r \in repairs : r[1].pack = r[2].pack

\* The request underway is for the pack of its base, and the attempt is its row.
JobSamePack ==
    \A p \in Procs :
        /\ pc[p] \in {"reserve"} \cup Calling => job[p].req.pack = job[p].base.pack
        /\ pc[p] \in Calling => attempts[job[p].id].pack = job[p].req.pack

\* No call of the item is open that the run does not know, and none but its own
\* when the request is sent.
JobKnowsOpen ==
    \A p \in Procs, a \in Open :
        attempts[a].pack.item = job[p].req.pack.item =>
            /\ pc[p] = "reserve" => a \in job[p].olds
            /\ pc[p] \in {"note", "replace"} => a \in job[p].olds \cup {job[p].id}
            /\ pc[p] = "sent" => a = job[p].id

OpenInv == LastInflight /\ RepairsSamePack /\ JobSamePack /\ JobKnowsOpen

LEMMA UnresolvedIsOpen == \A i : Unresolved(i) = {a \in Open : attempts[a].pack.item = i}
BY DEF Unresolved, Open

LEMMA PreviousPack ==
    ASSUME TypeOK, RepairsSamePack, NEW k \in Packs, Previous(k) # 0
    PROVE  Request(Previous(k)).pack = k
<1>1. ASSUME NEW r, Cached(r) # 0 PROVE Cached(r) \in Ids /\ Request(Cached(r)) = r
  <2>1. {a \in Ids : Request(a) = r} \in SUBSET Ids
    OBVIOUS
  <2> QED
    BY <1>1, <2>1, MaxOfIds DEF Cached
<1> DEFINE fix == {r \in repairs : r[1] = BaseRequest(k) /\ k.item \in Pilots}
           S == {Cached(r[2]) : r \in fix}
<1>2. BaseRequest(k).pack = k
  BY DEF BaseRequest
<1>3. CASE fix = {}
  BY <1>1, <1>2, <1>3 DEF Previous
<1>4. CASE fix # {}
  <2>1. Max(S) \in S
    <3>1. S # {}
      BY <1>4
    <3>2. S \in SUBSET (Ids \cup {0})
      BY <1>1
    <3>3. IsFiniteSet(Ids)
      BY IdsFinite
    <3>4. IsFiniteSet(Ids \cup {0})
      BY ONLY <3>3, FS_AddElement
    <3>5. IsFiniteSet(S) /\ S \in SUBSET Int
      BY <3>2, <3>4, IdsType, FS_Subset
    <3> HIDE DEF S
    <3> QED
      BY <3>1, <3>5, MaxIsLargest
  <2>2. Previous(k) = Max(S)
    BY <1>4 DEF Previous
  <2>3. PICK r \in fix : Previous(k) = Cached(r[2])
    BY <2>1, <2>2
  <2>4. Request(Previous(k)) = r[2] /\ r[2].pack = r[1].pack /\ r[1] = BaseRequest(k)
    BY <1>1, <2>3 DEF RepairsSamePack
  <2> QED
    BY <1>2, <2>4
<1> QED
  BY <1>3, <1>4

LEMMA NextRequestPack ==
    ASSUME TypeOK, RepairsSamePack, NEW p, NEW k \in Packs
    PROVE  NextRequest(p, k).pack = k /\ BaseRequest(k).pack = k
<1>1. BaseRequest(k).pack = k
  BY DEF BaseRequest
<1>2. BaseRequest(k) \in Requests
  BY BaseRequestType
<1>3. [BaseRequest(k) EXCEPT !.fixes = Previous(k)].pack = k
  BY <1>1, <1>2 DEF Requests
<1> QED
  BY <1>1, <1>3, PreviousPack DEF NextRequest

\* A step that leaves the calls alone, and the run too or ends it.
LEMMA OpenCalm ==
    ASSUME TypeInv, OpenInv, UNCHANGED <<attempts, replaced, repairs>>,
           \A p \in Procs : \/ pc'[p] = pc[p] /\ job'[p] = job[p]
                            \/ pc'[p] \in {"idle", "next"}
    PROVE  OpenInv'
<1>1. Open' = Open /\ Ids' = Ids
  BY DEF Open, Ids
<1>2. LastInflight' /\ RepairsSamePack'
  BY <1>1 DEF OpenInv, LastInflight, RepairsSamePack
<1>3. JobSamePack' /\ JobKnowsOpen'
  BY <1>1 DEF OpenInv, JobSamePack, JobKnowsOpen, Calling
<1> QED
  BY <1>2, <1>3 DEF OpenInv

LEMMA StopCalm ==
    ASSUME TypeInv, OpenInv, NEW p \in Procs, Forget(p), UNCHANGED <<attempts, replaced, repairs>>
    PROVE  OpenInv'
<1>1. \A q \in Procs : (pc'[q] = pc[q] /\ job'[q] = job[q]) \/ pc'[q] \in {"idle", "next"}
  BY DEF Forget, Goto, TypeInv, TypeOK
<1> QED
  BY <1>1, OpenCalm

LEMMA OpenLook == ASSUME TypeInv, OpenInv, NEW p \in Procs, Look(p) PROVE OpenInv'
<1> DEFINE k == First(p)
<1>1. pc[p] = "next" /\ list[p] # {} /\ k \in Packs /\ UNCHANGED <<attempts, replaced, repairs>>
  BY FirstType DEF Look, tables
<1>2. CASE Stop(p)
  BY <1>1, <1>2, StopCalm DEF Stop
<1>3. CASE UNCHANGED <<pc, job>>
  BY <1>1, <1>3, OpenCalm
<1>4. CASE /\ job' = [job EXCEPT ![p] = [req |-> NextRequest(p, k), base |-> BaseRequest(k),
                                         olds |-> Unresolved(k.item), id |-> 0]]
           /\ Goto(p, "reserve")
  <2>1. Open' = Open
    BY <1>1 DEF Open, Ids
  <2>2. \A q \in Procs \ {p} : pc'[q] \notin {"reserve"} \cup Calling
    BY <1>1, <1>4, Alone DEF TypeInv, TypeOK, Goto, Calling
  <2>3. /\ pc'[p] = "reserve" /\ job'[p].req = NextRequest(p, k) /\ job'[p].base = BaseRequest(k)
        /\ job'[p].olds = Unresolved(k.item)
    BY <1>4 DEF TypeInv, TypeOK, Goto
  <2>4. NextRequest(p, k).pack = k /\ BaseRequest(k).pack = k
    BY <1>1, NextRequestPack DEF TypeInv, OpenInv
  <2> HIDE DEF k
  <2>5. LastInflight' /\ RepairsSamePack'
    BY <1>1, <2>1 DEF OpenInv, LastInflight, RepairsSamePack
  <2>6. JobSamePack'
    BY <2>2, <2>3, <2>4 DEF JobSamePack, Calling
  <2>7. JobKnowsOpen'
    BY <1>1, <2>1, <2>2, <2>3, <2>4, UnresolvedIsOpen DEF JobKnowsOpen, Calling
  <2> QED
    BY <2>5, <2>6, <2>7 DEF OpenInv
<1> QED
  BY <1>2, <1>3, <1>4 DEF Look

LEMMA OpenReserve == ASSUME TypeInv, OpenInv, NEW p \in Procs, Reserve(p) PROVE OpenInv'
<1>1. CASE Accounted + Cost > Limit
  BY <1>1, StopCalm DEF Reserve, Stop, tables
<1>2. CASE ~(Accounted + Cost > Limit)
  <2> DEFINE n == Len(attempts) + 1
  <2>1. job' = [job EXCEPT ![p].id = n] /\ Goto(p, "note") /\ UNCHANGED <<replaced, repairs>>
    BY <1>2 DEF Reserve
  <2>2. job[p].req \in Requests /\ pc[p] = "reserve"
    BY DEF Reserve, TypeInv, AtCall
  <2>3. /\ Ids' = Ids \cup {n} /\ n \notin Ids
        /\ \A a \in Ids : attempts'[a] = attempts[a] /\ a < n
        /\ attempts'[n] = [job[p].req EXCEPT !.st = "inflight"]
    BY <1>2, Reserves
  <2>4. attempts'[n].st = "inflight" /\ attempts'[n].pack = job[p].req.pack
    BY <2>2, <2>3, StartsInflight
  <2>5. n \in Nat /\ Ids \subseteq Nat
    BY IdsType DEF TypeInv
  <2> HIDE DEF n
  <2>6. Open' \subseteq Open \cup {n} /\ Open \subseteq Ids /\ n \notin Open
    BY <2>1, <2>3 DEF Open
  <2>7. /\ pc'[p] = "note" /\ job'[p].id = n /\ job'[p].req = job[p].req
        /\ job'[p].base = job[p].base /\ job'[p].olds = job[p].olds
    BY <2>1 DEF TypeInv, TypeOK, Goto
  <2>8. \A q \in Procs \ {p} : pc'[q] \notin {"reserve"} \cup Calling
    BY <2>1, <2>2, Alone DEF TypeInv, TypeOK, Goto, Calling
  <2>9. LastInflight'
    <3> SUFFICES ASSUME NEW a \in Open', NEW b \in Open', a < b, attempts'[b].st # "inflight",
                        attempts'[a].pack.item = attempts'[b].pack.item
                 PROVE  FALSE
      BY DEF LastInflight
    <3>1. b \in Open
      BY <2>4, <2>6
    <3>2. a \in Open
      BY <2>3, <2>5, <2>6, <3>1
    <3> QED
      BY <2>3, <2>6, <3>1, <3>2 DEF OpenInv, LastInflight
  <2>10. RepairsSamePack' /\ JobSamePack'
    BY <2>1, <2>2, <2>4, <2>7, <2>8 DEF OpenInv, RepairsSamePack, JobSamePack, Calling
  <2>11. JobKnowsOpen'
    <3> SUFFICES ASSUME NEW a \in Open', attempts'[a].pack.item = job'[p].req.pack.item
                 PROVE  a \in job'[p].olds \cup {job'[p].id}
      BY <2>7, <2>8 DEF JobKnowsOpen, Calling
    <3>1. CASE a = n
      BY <2>7, <3>1
    <3>2. CASE a \in Open
      BY <2>2, <2>3, <2>6, <2>7, <3>2 DEF OpenInv, JobKnowsOpen
    <3> QED
      BY <2>6, <3>1, <3>2
  <2> QED
    BY <2>9, <2>10, <2>11 DEF OpenInv
<1> QED
  BY <1>1, <1>2

LEMMA OpenNote == ASSUME TypeInv, OpenInv, NEW p \in Procs, Note(p) PROVE OpenInv'
<1>1. Open' = Open /\ UNCHANGED <<attempts, job>>
  BY DEF Note, Open, Ids
<1>2. pc[p] = "note" /\ pc' = [pc EXCEPT ![p] = "replace"]
  BY DEF Note, Goto
<1>3. job[p].req.pack = job[p].base.pack
  BY <1>2 DEF OpenInv, JobSamePack, Calling
<1>4. RepairsSamePack'
  BY <1>3 DEF Note, OpenInv, RepairsSamePack
<1>5. LastInflight' /\ JobSamePack' /\ JobKnowsOpen'
  BY <1>1, <1>2 DEF OpenInv, LastInflight, JobSamePack, JobKnowsOpen, Calling, TypeInv, TypeOK
<1> QED
  BY <1>4, <1>5 DEF OpenInv

LEMMA OpenReplace == ASSUME TypeInv, OpenInv, NEW p \in Procs, Replace(p) PROVE OpenInv'
<1>1. pc[p] = "replace" /\ UNCHANGED <<attempts, repairs>> /\ Ids' = Ids
  BY DEF Replace, Ids
<1>2. CASE job[p].olds = {}
  <2>1. Open' = Open /\ UNCHANGED job /\ pc' = [pc EXCEPT ![p] = "sent"]
    BY <1>2 DEF Replace, Open, Ids, Goto
  <2>2. LastInflight' /\ RepairsSamePack' /\ JobSamePack' /\ JobKnowsOpen'
    BY <1>1, <1>2, <2>1
       DEF OpenInv, LastInflight, RepairsSamePack, JobSamePack, JobKnowsOpen, Calling, TypeInv, TypeOK
  <2> QED
    BY <2>2 DEF OpenInv
<1>3. CASE job[p].olds # {}
  <2> DEFINE m == Max(job[p].olds)
  <2>1. replaced' = replaced \cup {m} /\ job' = [job EXCEPT ![p].olds = @ \ {m}] /\ UNCHANGED pc
    BY <1>3 DEF Replace
  <2> HIDE DEF m
  <2>2. Open' = Open \ {m}
    BY <1>1, <2>1 DEF Open
  <2>3. /\ job'[p].olds = job[p].olds \ {m} /\ job'[p].id = job[p].id
        /\ job'[p].req = job[p].req /\ job'[p].base = job[p].base
        /\ \A q \in Procs \ {p} : job'[q] = job[q]
    BY <2>1 DEF TypeInv, TypeOK
  <2>4. LastInflight' /\ RepairsSamePack' /\ JobSamePack'
    BY <1>1, <2>1, <2>2, <2>3 DEF OpenInv, LastInflight, RepairsSamePack, JobSamePack
  <2>5. JobKnowsOpen'
    BY <1>1, <2>1, <2>2, <2>3 DEF OpenInv, JobKnowsOpen
  <2> QED
    BY <2>4, <2>5 DEF OpenInv
<1> QED
  BY <1>2, <1>3

LEMMA OpenFinish ==
    ASSUME TypeInv, OpenInv, NEW p \in Procs, pc[p] = "sent",
           NEW s \in {"uncertain", "invalid", "success"}, NEW u \in Usages \cup {NONE},
           FinishWith(p, s, u), Stop(p) \/ Goto(p, "next"),
           UNCHANGED <<replaced, repairs>>
    PROVE  OpenInv'
<1> DEFINE i == job[p].id
<1>1. /\ i \in Ids /\ Ids' = Ids /\ attempts[i].st = "inflight"
      /\ \A a \in Ids \ {i} : attempts'[a] = attempts[a]
      /\ attempts'[i] = Done(attempts[i], s, u)
  BY Finishes
<1>2. attempts[i] \in Attempts
  BY <1>1 DEF TypeInv, TypeOK, Ids
<1>3. attempts'[i].pack = attempts[i].pack
  BY <1>1, <1>2 DEF Done, Attempts
<1>4. attempts[i].pack = job[p].req.pack
  BY DEF OpenInv, JobSamePack, Calling
<1> HIDE DEF i
<1>5. Open' \subseteq Open /\ \A a \in Open : attempts'[a].pack = attempts[a].pack
  BY <1>1, <1>3 DEF Open
<1>6. \A q \in Procs : pc'[q] \notin {"reserve"} \cup Calling
  <2>1. pc'[p] \in {"idle", "next"} /\ \A q \in Procs \ {p} : pc'[q] = pc[q]
    BY DEF Stop, Forget, Goto, TypeInv, TypeOK
  <2> QED
    BY <2>1, Alone DEF Calling
<1>7. LastInflight'
  <2> SUFFICES ASSUME NEW a \in Open', NEW b \in Open', a < b, attempts'[b].st # "inflight",
                      attempts'[a].pack.item = attempts'[b].pack.item
               PROVE  FALSE
    BY DEF LastInflight
  <2>1. a \in Open /\ b \in Open /\ attempts[a].pack.item = attempts[b].pack.item
    BY <1>5
  <2>2. attempts[b].pack.item = attempts[i].pack.item
    BY <1>1, <2>1 DEF OpenInv, LastInflight, Open
  <2>3. a = i /\ b = i
    BY <1>4, <2>1, <2>2 DEF OpenInv, JobKnowsOpen, i
  <2> QED
    BY <2>1, <2>3, IdsType DEF Open, TypeInv
<1>8. RepairsSamePack' /\ JobSamePack' /\ JobKnowsOpen'
  BY <1>6 DEF OpenInv, RepairsSamePack, JobSamePack, JobKnowsOpen, Calling
<1> QED
  BY <1>7, <1>8 DEF OpenInv

LEMMA OpenRevalidate == ASSUME TypeInv, OpenInv, Revalidate PROVE OpenInv'
<1>1. PICK a \in Ids :
         /\ attempts[a].st = "invalid"
         /\ attempts'[a] = [attempts[a] EXCEPT !.st = "success"]
         /\ \A b \in Ids \ {a} : attempts'[b] = attempts[b]
         /\ Ids' = Ids
  BY Revalidates
<1>2. attempts[a] \in Attempts
  BY DEF TypeInv, TypeOK, Ids
<1>3. attempts'[a].st = "success" /\ attempts'[a].pack = attempts[a].pack
  BY <1>1, <1>2 DEF Attempts
<1>4. UNCHANGED <<replaced, repairs, pc, job>>
  BY DEF Revalidate, locals
<1>5. Open' = Open /\ a \notin Open
  BY <1>1, <1>3, <1>4 DEF Open
<1>6. Open \subseteq Ids
  BY DEF Open
<1>7. LastInflight' /\ RepairsSamePack' /\ JobKnowsOpen'
  BY <1>1, <1>4, <1>5, <1>6 DEF OpenInv, LastInflight, RepairsSamePack, JobKnowsOpen
<1>8. JobSamePack'
  <2>1. \A q \in Procs : pc[q] \in Calling => job[q].id \in Ids
    BY DEF TypeInv, AtCall
  <2>2. \A b \in Ids : attempts'[b].pack = attempts[b].pack
    BY <1>1, <1>3
  <2> QED
    BY <1>4, <2>1, <2>2 DEF OpenInv, JobSamePack
<1> QED
  BY <1>7, <1>8 DEF OpenInv

LEMMA OpenStepInv == ASSUME TypeInv, OpenInv, [Next]_vars PROVE OpenInv'
<1>1. ASSUME NEW p \in Procs, Start(p) PROVE OpenInv'
  <2>1. \A q \in Procs : (pc'[q] = pc[q] /\ job'[q] = job[q]) \/ pc'[q] \in {"idle", "next"}
    BY <1>1 DEF Start, Goto, TypeInv, TypeOK
  <2> QED
    BY <1>1, <2>1, OpenCalm DEF Start, tables
<1>2. ASSUME NEW p \in Procs, End(p) \/ Throws(p) \/ Crash(p) PROVE OpenInv'
  BY <1>2, StopCalm DEF End, Throws, Crash, Stop, tables
<1>3. ASSUME NEW p \in Procs, Uncertain(p) PROVE OpenInv'
  BY <1>3, OpenFinish DEF Uncertain
<1>4. ASSUME NEW p \in Procs, Answer(p) PROVE OpenInv'
  <2>1. PICK u \in Usages, s \in {"success", "invalid"} :
           FinishWith(p, s, u) /\ (Stop(p) \/ Goto(p, "next"))
    BY <1>4 DEF Answer
  <2> QED
    BY <1>4, <2>1, OpenFinish DEF Answer
<1>5. ASSUME NEW p \in Procs, Step(p) PROVE OpenInv'
  BY <1>2, <1>3, <1>4, <1>5, OpenLook, OpenReserve, OpenNote, OpenReplace DEF Step
<1>6. ASSUME Unlock \/ Prepare \/ UNCHANGED vars PROVE OpenInv'
  BY <1>6, OpenCalm DEF Unlock, Prepare, vars, tables, locals
<1>7. ASSUME NEW w \in Pages, OpenPage(w) \/ CheckReview(w) \/ CommitReview(w) PROVE OpenInv'
  BY <1>7, OpenCalm DEF OpenPage, CheckReview, CommitReview, tables, locals
<1> QED
  BY <1>1, <1>2, <1>5, <1>6, <1>7, OpenRevalidate DEF Next

(* A call that a retry replaces is on record before the retry is sent, and *)
(* the killed ones are: of two calls of a pilot item that nobody has       *)
(* looked into, the later one is still in flight (attempt_retries).        *)
THEOREM OneCallStaysOpen == Spec => []OneOpenCall
<1>1. Init => OpenInv
  BY DEF Init, OpenInv, LastInflight, RepairsSamePack, JobSamePack, JobKnowsOpen, Open, Ids, Calling
<1>2. TypeInv /\ OpenInv /\ [Next]_vars => OpenInv'
  BY OpenStepInv
<1>3. OpenInv => OneOpenCall
  BY UnresolvedIsOpen DEF OpenInv, LastInflight, OneOpenCall
<1> QED
  BY <1>1, <1>2, <1>3, TypeAlways, PTL DEF Spec

-----------------------------------------------------------------------------
(* A call that may still run is never replaced *)

\* What a run is going to replace ended uncertain, and is older than its call.
OldsEnded ==
    \A p \in Procs : pc[p] \in {"reserve", "note", "replace"} =>
        \A a \in job[p].olds :
            /\ attempts[a].st = "uncertain"
            /\ attempts[a].pack.item = job[p].req.pack.item
            /\ pc[p] # "reserve" => a < job[p].id

EndedInv == OldsEnded /\ ReplacedHaveEnded

\* Uncertain calls are kept, and so are the processes that make no step.
LEMMA UncertainKept ==
    ASSUME TypeInv, [Next]_vars
    PROVE  /\ Ids \subseteq Ids' /\ \A a \in Ids : attempts'[a].pack = attempts[a].pack
           /\ \A a \in Ids : attempts[a].st = "uncertain" => attempts'[a] = attempts[a]
<1>1. RowsKept
  BY RowsStep
<1>2. \A a \in Ids : attempts[a] \in Attempts
  BY DEF TypeInv, TypeOK, Ids
<1> QED
  BY <1>1, <1>2, SuccessKept DEF RowsKept, Done, Attempts

LEMMA EndedCalm ==
    ASSUME TypeInv, EndedInv, [Next]_vars, UNCHANGED replaced,
           \A p \in Procs : \/ pc'[p] = pc[p] /\ job'[p] = job[p]
                            \/ pc'[p] \notin {"reserve", "note", "replace"}
    PROVE  EndedInv'
<1>1. /\ Ids \subseteq Ids' /\ \A a \in Ids : attempts'[a].pack = attempts[a].pack
      /\ \A a \in Ids : attempts[a].st = "uncertain" => attempts'[a] = attempts[a]
  BY UncertainKept
<1>2. replaced \subseteq Ids /\ \A p \in Procs : job[p].olds \subseteq Ids
  BY DEF TypeInv, TypeOK
<1>3. OldsEnded'
  BY <1>1, <1>2 DEF EndedInv, OldsEnded
<1>4. ReplacedHaveEnded'
  BY <1>1, <1>2 DEF EndedInv, ReplacedHaveEnded
<1> QED
  BY <1>3, <1>4 DEF EndedInv

LEMMA EndedLook ==
    ASSUME TypeInv, OpenInv, EndedInv, [Next]_vars, NEW p \in Procs, Look(p)
    PROVE  EndedInv'
<1> DEFINE k == First(p)
<1>1. pc[p] = "next" /\ list[p] # {} /\ k \in Packs /\ UNCHANGED <<attempts, replaced, repairs>>
  BY FirstType DEF Look, tables
<1>2. CASE Stop(p)
  <2>1. \A q \in Procs : (pc'[q] = pc[q] /\ job'[q] = job[q]) \/ pc'[q] = "idle"
    BY <1>2 DEF Stop, Forget, Goto, TypeInv, TypeOK
  <2> QED
    BY <1>1, <2>1, EndedCalm
<1>3. CASE UNCHANGED <<pc, job>>
  BY <1>1, <1>3, EndedCalm
<1>4. CASE /\ ~Blocked(p, k.item)
           /\ job' = [job EXCEPT ![p] = [req |-> NextRequest(p, k), base |-> BaseRequest(k),
                                         olds |-> Unresolved(k.item), id |-> 0]]
           /\ Goto(p, "reserve")
  <2>1. \A q \in Procs \ {p} : pc'[q] \notin {"reserve", "note", "replace"}
    BY <1>1, <1>4, Alone DEF TypeInv, TypeOK, Goto
  <2>2. /\ pc'[p] = "reserve" /\ job'[p].req = NextRequest(p, k)
        /\ job'[p].olds = Unresolved(k.item)
    BY <1>4 DEF TypeInv, TypeOK, Goto
  <2>3. NextRequest(p, k).pack = k
    BY <1>1, NextRequestPack DEF TypeInv, OpenInv
  <2>4. \A a \in Unresolved(k.item) : attempts[a].st = "uncertain" /\ attempts[a].pack.item = k.item
    BY <1>4 DEF Blocked, Unresolved
  <2> HIDE DEF k
  <2>5. OldsEnded'
    BY <1>1, <2>1, <2>2, <2>3, <2>4 DEF OldsEnded
  <2>6. ReplacedHaveEnded'
    BY <1>1 DEF EndedInv, ReplacedHaveEnded, Ids
  <2> QED
    BY <2>5, <2>6 DEF EndedInv
<1> QED
  BY <1>2, <1>3, <1>4 DEF Look

LEMMA EndedReserve ==
    ASSUME TypeInv, EndedInv, [Next]_vars, NEW p \in Procs, Reserve(p)
    PROVE  EndedInv'
<1>1. CASE Accounted + Cost > Limit
  <2>1. \A q \in Procs : (pc'[q] = pc[q] /\ job'[q] = job[q]) \/ pc'[q] = "idle"
    BY <1>1 DEF Reserve, Stop, Forget, Goto, TypeInv, TypeOK
  <2> QED
    BY <1>1, <2>1, EndedCalm DEF Reserve, tables
<1>2. CASE ~(Accounted + Cost > Limit)
  <2> DEFINE n == Len(attempts) + 1
  <2>1. job' = [job EXCEPT ![p].id = n] /\ Goto(p, "note") /\ UNCHANGED replaced /\ pc[p] = "reserve"
    BY <1>2 DEF Reserve
  <2>2. /\ Ids \subseteq Ids' /\ \A a \in Ids : attempts'[a] = attempts[a] /\ a < n
    BY <1>2, Reserves
  <2> HIDE DEF n
  <2>3. /\ pc'[p] = "note" /\ job'[p].id = n /\ job'[p].req = job[p].req
        /\ job'[p].olds = job[p].olds
    BY <2>1 DEF TypeInv, TypeOK, Goto
  <2>4. \A q \in Procs \ {p} : pc'[q] \notin {"reserve", "note", "replace"}
    BY <2>1, Alone DEF TypeInv, TypeOK, Goto
  <2>5. replaced \subseteq Ids /\ job[p].olds \subseteq Ids
    BY DEF TypeInv, TypeOK
  <2>6. OldsEnded'
    BY <2>1, <2>2, <2>3, <2>4, <2>5 DEF EndedInv, OldsEnded
  <2>7. ReplacedHaveEnded'
    BY <2>1, <2>2, <2>5 DEF EndedInv, ReplacedHaveEnded
  <2> QED
    BY <2>6, <2>7 DEF EndedInv
<1> QED
  BY <1>1, <1>2

LEMMA EndedReplace ==
    ASSUME TypeInv, OpenInv, EndedInv, [Next]_vars, NEW p \in Procs, Replace(p)
    PROVE  EndedInv'
<1>1. pc[p] = "replace" /\ UNCHANGED attempts /\ Ids' = Ids
  BY DEF Replace, Ids
<1>2. CASE job[p].olds = {}
  <2>1. \A q \in Procs : (pc'[q] = pc[q] /\ job'[q] = job[q]) \/ pc'[q] = "sent"
    BY <1>2 DEF Replace, Goto, TypeInv, TypeOK
  <2> QED
    BY <1>2, <2>1, EndedCalm DEF Replace
<1>3. CASE job[p].olds # {}
  <2> DEFINE m == Max(job[p].olds)
  <2>1. replaced' = replaced \cup {m} /\ job' = [job EXCEPT ![p].olds = @ \ {m}] /\ UNCHANGED pc
    BY <1>3 DEF Replace
  <2>2. m \in job[p].olds
    BY <1>3, OldsType
  <2> HIDE DEF m
  <2>3. /\ job'[p].olds = job[p].olds \ {m} /\ job'[p].id = job[p].id /\ job'[p].req = job[p].req
        /\ \A q \in Procs \ {p} : job'[q] = job[q]
    BY <2>1 DEF TypeInv, TypeOK
  <2>4. /\ attempts[m].st = "uncertain" /\ m < job[p].id
        /\ attempts[m].pack.item = attempts[job[p].id].pack.item
    BY <1>1, <2>2 DEF EndedInv, OldsEnded, OpenInv, JobSamePack, Calling
  <2>5. job[p].id \in Ids
    BY <1>1 DEF TypeInv, AtCall, Calling
  <2>6. OldsEnded'
    BY <1>1, <2>1, <2>3 DEF EndedInv, OldsEnded
  <2>7. ReplacedHaveEnded'
    BY <1>1, <2>1, <2>4, <2>5 DEF EndedInv, ReplacedHaveEnded
  <2> QED
    BY <2>6, <2>7 DEF EndedInv
<1> QED
  BY <1>2, <1>3

LEMMA EndedStep == ASSUME TypeInv, OpenInv, EndedInv, [Next]_vars PROVE EndedInv'
<1> DEFINE Calm == \A q \in Procs : \/ pc'[q] = pc[q] /\ job'[q] = job[q]
                                    \/ pc'[q] \notin {"reserve", "note", "replace"}
<1>1. ASSUME NEW p \in Procs, Start(p) \/ End(p) \/ Throws(p) \/ Crash(p) \/ Uncertain(p) \/ Answer(p)
      PROVE  EndedInv'
  <2>1. Calm
    BY <1>1 DEF Start, End, Throws, Crash, Uncertain, Answer, Stop, Forget, Goto, TypeInv, TypeOK
  <2>2. UNCHANGED replaced
    BY <1>1 DEF Start, End, Throws, Crash, Uncertain, Answer, tables
  <2> QED
    BY <2>1, <2>2, EndedCalm
<1>2. ASSUME NEW p \in Procs, Note(p) PROVE EndedInv'
  <2>1. UNCHANGED <<attempts, replaced, job>> /\ pc[p] = "note" /\ pc' = [pc EXCEPT ![p] = "replace"]
    BY <1>2 DEF Note, Goto
  <2>2. OldsEnded'
    BY <2>1 DEF EndedInv, OldsEnded, TypeInv, TypeOK
  <2>3. ReplacedHaveEnded'
    BY <2>1 DEF EndedInv, ReplacedHaveEnded, Ids
  <2> QED
    BY <2>2, <2>3 DEF EndedInv
<1>3. ASSUME NEW p \in Procs, Step(p) PROVE EndedInv'
  BY <1>1, <1>2, <1>3, EndedLook, EndedReserve, EndedReplace DEF Step
<1>4. ASSUME Unlock \/ Prepare \/ Revalidate \/ UNCHANGED vars PROVE EndedInv'
  BY <1>4, EndedCalm DEF Unlock, Prepare, Revalidate, vars, tables, locals
<1>5. ASSUME NEW w \in Pages, OpenPage(w) \/ CheckReview(w) \/ CommitReview(w) PROVE EndedInv'
  BY <1>5, EndedCalm DEF OpenPage, CheckReview, CommitReview, tables, locals
<1> QED
  BY <1>1, <1>3, <1>4, <1>5 DEF Next

(* A call that may still be running is never replaced, whatever the user   *)
(* asks for and whoever was killed: a replaced call ended uncertain, and   *)
(* its replacement was reserved before (unresolvedPilot, attempt_retries). *)
THEOREM OnlyEndedCallsReplaced == Spec => []ReplacedHaveEnded
<1>1. Init => OpenInv /\ EndedInv
  BY DEF Init, OpenInv, LastInflight, RepairsSamePack, JobSamePack, JobKnowsOpen, Open, Ids, Calling,
         EndedInv, OldsEnded, ReplacedHaveEnded
<1>2. TypeInv /\ OpenInv /\ EndedInv /\ [Next]_vars => OpenInv' /\ EndedInv'
  BY OpenStepInv, EndedStep
<1>3. EndedInv => ReplacedHaveEnded
  BY DEF EndedInv
<1> QED
  BY <1>1, <1>2, <1>3, TypeAlways, PTL DEF Spec
-----------------------------------------------------------------------------
(* What is sent again *)

\* A request without the attempt that it corrects.
Uncorrected(r) == [r EXCEPT !.fixes = 0]

\* Of the attempts of one request only the last may have an answer that counts.
Reissued ==
    \A a, b \in Ids : a < b /\ Request(a) = Request(b) =>
        attempts[a].st = IF attempts[a].pack.item \in Pilots THEN "uncertain" ELSE "invalid"

\* A request has one repair, which was sent.
RepairsSent ==
    /\ \A r, s \in repairs : r[1] = s[1] => r = s
    /\ \A r \in repairs : /\ r[1] = Uncorrected(r[2]) /\ r[2].fixes # 0
                          /\ \E a \in Ids : Request(a) = r[2]

\* A correction is on record as the repair, or a later one is, unless its run
\* died between the two statements.
Corrections ==
    \A b \in Ids : attempts[b].fixes # 0 =>
        /\ attempts[b].pack.item \in Pilots /\ attempts[b].fixes < b
        /\ \/ attempts[b].st = "inflight"
           \/ \E r \in repairs : /\ r[1] = Uncorrected(Request(b))
                                 /\ r[2].fixes >= attempts[b].fixes

UncertainIsPilot == \A p \in Procs : opts[p].uncertain => \A k \in list[p] : k.item \in Pilots

\* The request underway corrects the last answer there is.
JobCorrects ==
    \A p \in Procs : pc[p] \in {"reserve"} \cup Calling =>
        /\ job[p].base = Uncorrected(job[p].req)
        /\ job[p].req.fixes # 0 => job[p].req.pack.item \in Pilots
        /\ pc[p] \in {"reserve", "note"} =>
              \A b \in Ids : Uncorrected(Request(b)) = job[p].base => attempts[b].fixes <= job[p].req.fixes
        /\ pc[p] \in Calling => Request(job[p].id) = job[p].req
        /\ pc[p] \in {"replace", "sent"} /\ job[p].req.fixes # 0 => <<job[p].base, job[p].req>> \in repairs

\* What the run found out before it reserves still holds.
JobReleased ==
    \A p \in Procs : pc[p] = "reserve" =>
        /\ job[p].req.fixes \in Ids \cup {0}
        /\ \A b \in Unresolved(job[p].req.pack.item) : attempts[b].st = "uncertain" /\ opts[p].uncertain
        /\ \A b \in Ids : Request(b) = job[p].req =>
              IF job[p].req.pack.item \in Pilots
              THEN attempts[b].st = "uncertain" /\ opts[p].uncertain
              ELSE attempts[b].st = "invalid" /\ opts[p].failed
        /\ job[p].req.fixes # 0 =>
              \/ opts[p].failed
              \/ opts[p].uncertain /\ \E b \in Ids : Request(b) = job[p].req

SendInv == Reissued /\ RepairsSent /\ Corrections /\ UncertainIsPilot /\ JobCorrects /\ JobReleased

LEMMA UncorrectedIs ==
    ASSUME NEW r \in Requests
    PROVE  /\ Uncorrected(r) \in Requests /\ Uncorrected(r).pack = r.pack
           /\ r.fixes = 0 => Uncorrected(r) = r
           /\ \A n : Uncorrected([r EXCEPT !.fixes = n]) = Uncorrected(r)
BY DEF Uncorrected, Requests

LEMMA CachedIs ==
    ASSUME TypeOK, NEW r
    PROVE  /\ Cached(r) # 0 => Cached(r) \in Ids /\ Request(Cached(r)) = r
           /\ \A a \in Ids : Request(a) = r => Cached(r) # 0 /\ a <= Cached(r)
<1>1. {a \in Ids : Request(a) = r} \in SUBSET Ids /\ Ids \subseteq Nat /\ 0 \notin Ids
  BY IdsType
<1> QED
  BY <1>1, MaxOfIds DEF Cached

\* The attempt that answers a request is the last one of its repair, if it has one.
LEMMA PreviousIs ==
    ASSUME TypeOK, RepairsSent, NEW k \in Packs
    PROVE  /\ (k.item \notin Pilots \/ \A r \in repairs : r[1] # BaseRequest(k))
                => Previous(k) = Cached(BaseRequest(k))
           /\ \A r \in repairs : k.item \in Pilots /\ r[1] = BaseRequest(k)
                => Previous(k) = Cached(r[2])
<1> DEFINE fix == {r \in repairs : r[1] = BaseRequest(k) /\ k.item \in Pilots}
<1>1. CASE fix = {}
  BY <1>1 DEF Previous
<1>2. ASSUME NEW r \in fix
      PROVE  Previous(k) = Cached(r[2]) /\ k.item \in Pilots /\ r[1] = BaseRequest(k)
  <2>1. {Cached(s[2]) : s \in fix} = {Cached(r[2])}
    BY <1>2 DEF RepairsSent
  <2>2. Cached(r[2]) \in Int
    BY CachedIs, IdsType
  <2>3. Max({Cached(r[2])}) = Cached(r[2])
    BY <2>2 DEF Max
  <2>4. fix # {}
    BY <1>2
  <2> QED
    BY <1>2, <2>1, <2>3, <2>4 DEF Previous
<1> QED
  BY <1>1, <1>2 DEF RepairsSent

LEMMA BaseIs ==
    ASSUME TypeOK, NEW k \in Packs
    PROVE  /\ BaseRequest(k) \in Requests /\ BaseRequest(k).pack = k /\ BaseRequest(k).fixes = 0
           /\ Uncorrected(BaseRequest(k)) = BaseRequest(k)
           /\ \A n : /\ Uncorrected([BaseRequest(k) EXCEPT !.fixes = n]) = BaseRequest(k)
                     /\ [BaseRequest(k) EXCEPT !.fixes = n].fixes = n
                     /\ [BaseRequest(k) EXCEPT !.fixes = n].pack = k
<1>1. BaseRequest(k) \in Requests
  BY BaseRequestType
<1>2. BaseRequest(k).pack = k /\ BaseRequest(k).fixes = 0
  BY DEF BaseRequest
<1>3. \A n : /\ [BaseRequest(k) EXCEPT !.fixes = n].fixes = n
             /\ [BaseRequest(k) EXCEPT !.fixes = n].pack = k
  BY <1>1, <1>2 DEF Requests
<1> QED
  BY <1>1, <1>2, <1>3, UncorrectedIs

LEMMA RequestIs ==
    ASSUME TypeOK, NEW a \in Ids
    PROVE  /\ Request(a) \in Requests /\ Request(a).pack = attempts[a].pack
           /\ Request(a).fixes = attempts[a].fixes /\ attempts[a].fixes \in Nat
           /\ attempts[a].st \in {"inflight", "uncertain", "invalid", "success"}
<1>1. attempts[a] \in Attempts
  BY DEF TypeOK, Ids
<1> QED
  BY <1>1, RequestType DEF Request, Attempts

LEMMA ShownPack ==
    ASSUME TypeOK, NEW k, Shown(k) \in Ids
    PROVE  attempts[Shown(k)].pack = k
<1> DEFINE mine == {a \in Ids : attempts[a].pack = k}
           read == {a \in mine : Reviewed(a)}
<1>1. mine \in SUBSET Ids /\ read \in SUBSET Ids /\ 0 \notin Ids
  BY IdsType
<1>2. Shown(k) = Max((IF read = {} THEN mine ELSE read) \cup {0})
  BY DEF Shown
<1> QED
  BY <1>1, <1>2, MaxOfIds

LEMMA RequestKept ==
    ASSUME TypeInv, [Next]_vars
    PROVE  \A a \in Ids :
             /\ a \in Ids' /\ Request(a)' = Request(a)
             /\ attempts'[a].fixes = attempts[a].fixes /\ attempts'[a].pack = attempts[a].pack
             /\ attempts[a].st = "uncertain" => attempts'[a].st = "uncertain"
             /\ attempts[a].st = "invalid" /\ attempts[a].pack.item \notin Pilots
                   => attempts'[a].st = "invalid"
             /\ attempts[a].st = "inflight" =>
                   attempts'[a].st = "inflight" \/ \E p \in Procs : pc[p] = "sent" /\ job[p].id = a
<1>1. RowsKept
  BY RowsStep
<1> SUFFICES ASSUME NEW a \in Ids
             PROVE  /\ a \in Ids' /\ Request(a)' = Request(a)
                    /\ attempts'[a].fixes = attempts[a].fixes /\ attempts'[a].pack = attempts[a].pack
                    /\ attempts[a].st = "uncertain" => attempts'[a].st = "uncertain"
                    /\ attempts[a].st = "invalid" /\ attempts[a].pack.item \notin Pilots
                          => attempts'[a].st = "invalid"
                    /\ attempts[a].st = "inflight" =>
                          attempts'[a].st = "inflight" \/ \E p \in Procs : pc[p] = "sent" /\ job[p].id = a
  OBVIOUS
<1>2. attempts[a] \in Attempts /\ a \in Ids'
  BY <1>1 DEF TypeInv, TypeOK, Ids, RowsKept
<1>3. CASE attempts'[a] = attempts[a]
  BY <1>2, <1>3 DEF Request
<1>4. ASSUME NEW s, NEW u, attempts'[a] = Done(attempts[a], s, u)
      PROVE  /\ Request(a)' = Request(a)
             /\ attempts'[a].fixes = attempts[a].fixes /\ attempts'[a].pack = attempts[a].pack
  BY <1>2, <1>4 DEF Request, Done, Attempts
<1>5. CASE attempts'[a] = [attempts[a] EXCEPT !.st = "success"] /\ attempts[a].st = "invalid"
           /\ \E i \in Pilots : a = Shown(Pack(i))
  <2>1. /\ Request(a)' = Request(a)
        /\ attempts'[a].fixes = attempts[a].fixes /\ attempts'[a].pack = attempts[a].pack
    BY <1>2, <1>5 DEF Request, Attempts
  <2>2. PICK i \in Pilots : a = Shown(Pack(i))
    BY <1>5
  <2>3. attempts[a].pack = Pack(i)
    BY <2>2, ShownPack DEF TypeInv
  <2> QED
    BY <1>2, <1>5, <2>1, <2>3 DEF Pack
<1> QED
  BY <1>1, <1>2, <1>3, <1>4, <1>5 DEF RowsKept

\* What Look makes of a pack: the request is the base, the last call of it, or a
\* correction that was not sent yet.
LEMMA LookFinds ==
    ASSUME TypeInv, SendInv, ReplacedHaveEnded, NEW p \in Procs, NEW k \in list[p], k \in Packs,
           ~Blocked(p, k.item), ~Answered(p, k), NEW req, req = NextRequest(p, k)
    PROVE  /\ BaseRequest(k) = Uncorrected(req) /\ req.pack = k
           /\ req.fixes # 0 => k.item \in Pilots
           /\ req.fixes \in Ids \cup {0}
           /\ \A b \in Ids : Uncorrected(Request(b)) = BaseRequest(k) => attempts[b].fixes <= req.fixes
           /\ \A b \in Unresolved(k.item) : attempts[b].st = "uncertain" /\ opts[p].uncertain
           /\ \A b \in Ids : Request(b) = req =>
                 IF k.item \in Pilots
                 THEN attempts[b].st = "uncertain" /\ opts[p].uncertain
                 ELSE attempts[b].st = "invalid" /\ opts[p].failed
           /\ req.fixes # 0 =>
                 \/ opts[p].failed
                 \/ opts[p].uncertain /\ \E b \in Ids : Request(b) = req
<1> DEFINE base == BaseRequest(k)
           prev == Previous(k)
<1>0. TypeOK /\ Ids \subseteq Nat /\ 0 \notin Ids
  BY IdsType DEF TypeInv
<1>1. /\ base \in Requests /\ base.pack = k /\ base.fixes = 0 /\ Uncorrected(base) = base
      /\ \A n : /\ Uncorrected([base EXCEPT !.fixes = n]) = base
                /\ [base EXCEPT !.fixes = n].fixes = n
                /\ [base EXCEPT !.fixes = n].pack = k
  BY <1>0, BaseIs
<1>2. \A b \in Unresolved(k.item) : attempts[b].st = "uncertain" /\ opts[p].uncertain
  BY DEF Blocked, Unresolved
<1>3. \A b \in Ids : attempts[b].pack = k /\ k.item \in Pilots => attempts[b].st # "inflight"
  BY <1>2 DEF Unresolved, ReplacedHaveEnded
<1>4. ASSUME NEW b \in Ids, Uncorrected(Request(b)) = base, attempts[b].fixes # 0
      PROVE  /\ k.item \in Pilots
             /\ \E r \in repairs : r[1] = base /\ r[2].fixes >= attempts[b].fixes
  <2>1. attempts[b].pack = k
    BY <1>0, <1>1, <1>4, RequestIs, UncorrectedIs
  <2> QED
    BY <1>3, <1>4, <2>1 DEF SendInv, Corrections
<1>5. \A a, b \in Ids : a < b /\ Request(a) = Request(b) =>
          attempts[a].st = IF attempts[a].pack.item \in Pilots THEN "uncertain" ELSE "invalid"
  BY DEF SendInv, Reissued
<1>6. \A b \in Ids : /\ Request(b) \in Requests /\ Request(b).pack = attempts[b].pack
                     /\ Request(b).fixes = attempts[b].fixes /\ attempts[b].fixes \in Nat
  BY <1>0, RequestIs
<1>7. CASE prev = 0
  <2>1. \A r \in repairs : ~(k.item \in Pilots /\ r[1] = base)
    BY <1>0, <1>7, PreviousIs, CachedIs DEF SendInv, RepairsSent
  <2>2. Cached(base) = 0
    BY <1>0, <1>7, <2>1, PreviousIs DEF SendInv
  <2>3. \A b \in Ids : Request(b) # base
    BY <1>0, <2>2, CachedIs
  <2>4. req = base
    BY <1>7 DEF NextRequest
  <2>5. \A b \in Ids : Uncorrected(Request(b)) = base => attempts[b].fixes = 0
    BY <1>4, <2>1
  <2> HIDE DEF base, prev
  <2>6. \A b \in Ids : Uncorrected(Request(b)) = base => attempts[b].fixes <= req.fixes
    BY <1>1, <2>4, <2>5
  <2> QED
    BY ONLY <1>1, <1>2, <2>3, <2>4, <2>6 DEF base
<1>8. CASE prev # 0
  <2>1. /\ prev \in Ids /\ Uncorrected(Request(prev)) = base
        /\ k.item \notin Pilots => Request(prev) = base
        /\ \A r \in repairs : k.item \in Pilots /\ r[1] = base => Request(prev) = r[2]
        /\ \A b \in Ids : Request(b) = Request(prev) => b <= prev
    <3>1. CASE k.item \notin Pilots \/ \A r \in repairs : r[1] # base
      <4>1. prev = Cached(base)
        BY <1>0, <3>1, PreviousIs DEF SendInv
      <4>2. prev \in Ids /\ Request(prev) = base
        BY <1>0, <1>8, <4>1, CachedIs
      <4>3. \A b \in Ids : Request(b) = base => b <= prev
        BY <1>0, <4>1, CachedIs
      <4> HIDE DEF base, prev
      <4> QED
        BY <1>1, <3>1, <4>2, <4>3
    <3>2. CASE k.item \in Pilots /\ \E r \in repairs : r[1] = base
      <4>0. PICK r \in repairs : r[1] = base
        BY <3>2
      <4>1. prev = Cached(r[2])
        BY <1>0, <3>2, <4>0, PreviousIs DEF SendInv
      <4>2. prev \in Ids /\ Request(prev) = r[2]
        BY <1>0, <1>8, <4>1, CachedIs
      <4>3. \A b \in Ids : Request(b) = r[2] => b <= prev
        BY <1>0, <4>1, CachedIs
      <4>4. base = Uncorrected(r[2]) /\ \A q \in repairs : q[1] = base => q = r
        BY <4>0 DEF SendInv, RepairsSent
      <4> HIDE DEF base, prev
      <4> QED
        BY <3>2, <4>2, <4>3, <4>4
    <3> QED
      BY <3>1, <3>2
  <2>2. \/ attempts[prev].st = "invalid" /\ opts[p].failed
        \/ attempts[prev].st = "uncertain" /\ opts[p].uncertain
    BY <1>8 DEF Answered
  <2>3. ASSUME NEW b \in Ids, Uncorrected(Request(b)) = base
        PROVE  attempts[b].fixes <= attempts[prev].fixes
    <3>1. CASE attempts[b].fixes = 0
      BY <1>6, <2>1, <3>1
    <3>2. CASE attempts[b].fixes # 0
      <4>1. PICK r \in repairs : r[1] = base /\ r[2].fixes >= attempts[b].fixes
        BY <1>4, <2>3, <3>2
      <4>2. Request(prev) = r[2]
        BY <1>4, <2>1, <2>3, <3>2, <4>1
      <4>3. attempts[prev].fixes = r[2].fixes
        BY <1>6, <2>1, <4>2
      <4> QED
        BY <1>6, <2>1, <4>1, <4>3
    <3> QED
      BY <3>1, <3>2
  <2>4. attempts[prev].fixes \in Nat /\ prev \in Nat /\ attempts[prev].fixes < prev
    <3>1. attempts[prev].fixes # 0 => attempts[prev].fixes < prev
      BY <2>1 DEF SendInv, Corrections
    <3> HIDE DEF base, prev
    <3> QED
      BY <1>0, <1>6, <2>1, <3>1
  <2>5. attempts[prev].pack = k
    BY <1>1, <1>6, <2>1, UncorrectedIs
  <2>6. \A b \in Ids : Request(b) = Request(prev) =>
            b = prev \/ attempts[b].st = IF k.item \in Pilots THEN "uncertain" ELSE "invalid"
    <3> HIDE DEF base, prev
    <3>1. SUFFICES ASSUME NEW b \in Ids, Request(b) = Request(prev), b # prev
                   PROVE  attempts[b].st = IF k.item \in Pilots THEN "uncertain" ELSE "invalid"
      OBVIOUS
    <3>2. b < prev
      BY <1>0, <2>1, <3>1
    <3>3. attempts[b].pack = k
      BY <1>6, <2>1, <2>5, <3>1
    <3> QED
      BY <1>5, <2>1, <3>1, <3>2, <3>3
  <2>7. CASE attempts[prev].st = "uncertain"
    <3>1. k.item \in Pilots /\ opts[p].uncertain
      BY <2>2, <2>7 DEF SendInv, UncertainIsPilot
    <3>2. req = Request(prev)
      BY <1>8, <2>7, <3>1 DEF NextRequest
    <3>3. req.pack = k /\ req.fixes = attempts[prev].fixes
      BY <1>6, <2>1, <2>5, <3>2
    <3>4. req.fixes \in Ids \cup {0}
      BY <1>0, <2>1, <2>4, <3>3, IdsType
    <3> HIDE DEF base, prev
    <3> QED
      BY <1>2, <2>1, <2>3, <2>6, <2>7, <3>1, <3>2, <3>3, <3>4 DEF base
  <2>8. CASE attempts[prev].st = "invalid" /\ k.item \in Pilots
    <3>1. opts[p].failed
      BY <2>2, <2>8
    <3>2. req = [base EXCEPT !.fixes = prev]
      BY <1>8, <2>8 DEF NextRequest
    <3> HIDE DEF base, prev
    <3>3. req.pack = k /\ req.fixes = prev /\ Uncorrected(req) = base
      BY <1>1, <3>2
    <3>4. \A b \in Ids : Uncorrected(Request(b)) = base => attempts[b].fixes < prev
      BY <1>6, <2>3, <2>4
    <3>5. \A b \in Ids : Request(b) # req
      BY <1>6, <2>4, <3>3, <3>4
    <3>6. \A b \in Ids : Uncorrected(Request(b)) = base => attempts[b].fixes <= req.fixes
      BY <1>6, <2>4, <3>3, <3>4
    <3> QED
      BY <1>2, <2>1, <2>8, <3>1, <3>3, <3>5, <3>6 DEF base
  <2>9. CASE attempts[prev].st = "invalid" /\ k.item \notin Pilots
    <3>1. opts[p].failed
      BY <2>2, <2>9
    <3>2. req = base /\ Request(prev) = base
      BY <1>8, <2>1, <2>9 DEF NextRequest
    <3> HIDE DEF base, prev
    <3>3. \A b \in Ids : Uncorrected(Request(b)) = base => attempts[b].fixes <= req.fixes
      BY <1>1, <1>6, <2>1, <2>3, <3>2
    <3> QED
      BY <1>1, <1>2, <2>6, <2>9, <3>1, <3>2, <3>3 DEF base
  <2> QED
    BY <2>2, <2>7, <2>8, <2>9
<1> QED
  BY <1>7, <1>8

\* A new row holds the request of the run that reserves it.
RowOf(p, n) ==
    /\ pc[p] = "reserve" /\ n \in Nat /\ n \notin Ids
    /\ Ids' = Ids \cup {n} /\ \A a \in Ids : a < n
    /\ attempts'[n].st = "inflight" /\ Request(n)' = job[p].req
    /\ attempts'[n].pack = job[p].req.pack /\ attempts'[n].fixes = job[p].req.fixes
    /\ UNCHANGED repairs /\ ~(Accounted + Cost > Limit)

LEMMA RowReserved ==
    ASSUME TypeInv, NEW p \in Procs, Reserve(p), ~(Accounted + Cost > Limit)
    PROVE  \E n : RowOf(p, n)
<1>1. PICK n \in Nat : n = Len(attempts) + 1
  BY IdsType DEF TypeInv
<1>2. /\ Ids' = Ids \cup {n} /\ n \notin Ids
      /\ \A a \in Ids : a < n
      /\ attempts'[n] = [job[p].req EXCEPT !.st = "inflight"]
  BY <1>1, Reserves
<1>3. job[p].req \in Requests /\ pc[p] = "reserve" /\ UNCHANGED repairs
  BY DEF Reserve, TypeInv, AtCall
<1>4. Request(n)' = [[job[p].req EXCEPT !.st = "inflight"] EXCEPT !.st = NONE, !.charged = NONE]
  BY <1>2 DEF Request
<1>5. /\ attempts'[n].st = "inflight" /\ Request(n)' = job[p].req
      /\ attempts'[n].pack = job[p].req.pack /\ attempts'[n].fixes = job[p].req.fixes
  <2>1. /\ [[job[p].req EXCEPT !.st = "inflight"] EXCEPT !.st = NONE, !.charged = NONE] = job[p].req
        /\ [job[p].req EXCEPT !.st = "inflight"].st = "inflight"
        /\ [job[p].req EXCEPT !.st = "inflight"].pack = job[p].req.pack
        /\ [job[p].req EXCEPT !.st = "inflight"].fixes = job[p].req.fixes
    BY <1>3 DEF Requests
  <2>2. Request(n)' = job[p].req
    BY ONLY <1>4, <2>1, ZenonT(30)
  <2>3. /\ attempts'[n].st = "inflight"
        /\ attempts'[n].pack = job[p].req.pack /\ attempts'[n].fixes = job[p].req.fixes
    BY <1>2, <2>1
  <2> QED
    BY <2>2, <2>3
<1> QED
  BY <1>2, <1>3, <1>5 DEF RowOf

LEMMA RowAdded ==
    ASSUME TypeInv, [Next]_vars
    PROVE  Ids' = Ids \/ \E p \in Procs : \E n : RowOf(p, n)
<1>1. ASSUME UNCHANGED attempts PROVE Ids' = Ids
  BY <1>1 DEF Ids
<1>2. ASSUME NEW p \in Procs, Reserve(p)
      PROVE  Ids' = Ids \/ \E n : RowOf(p, n)
  <2>1. CASE Accounted + Cost > Limit
    BY <1>1, <1>2, <2>1 DEF Reserve, tables
  <2>2. CASE ~(Accounted + Cost > Limit)
    BY <1>2, <2>2, RowReserved
  <2> QED
    BY <2>1, <2>2
<1>3. ASSUME NEW p \in Procs, Uncertain(p) \/ Answer(p) PROVE Ids' = Ids
  BY <1>3 DEF Uncertain, Answer, FinishWith, Ids
<1>4. ASSUME Revalidate PROVE Ids' = Ids
  BY <1>4, Revalidates
<1>5. ASSUME NEW p \in Procs, Start(p) \/ End(p) \/ Look(p) \/ Note(p) \/ Replace(p) \/ Throws(p) \/ Crash(p)
      PROVE  Ids' = Ids
  BY <1>1, <1>5 DEF Start, End, Look, Note, Replace, Throws, Crash, tables
<1>6. ASSUME Unlock \/ Prepare \/ UNCHANGED vars \/ \E w \in Pages : OpenPage(w) \/ CheckReview(w) \/ CommitReview(w)
      PROVE  Ids' = Ids
  BY <1>1, <1>6 DEF Unlock, Prepare, OpenPage, CheckReview, CommitReview, vars, tables
<1> QED
  BY <1>2, <1>3, <1>4, <1>5, <1>6 DEF Next, Step

LEMMA ReissuedStep == ASSUME TypeInv, SendInv, [Next]_vars PROVE Reissued'
<1> SUFFICES ASSUME NEW a \in Ids', NEW b \in Ids', a < b, Request(a)' = Request(b)'
             PROVE  attempts'[a].st = IF attempts'[a].pack.item \in Pilots THEN "uncertain" ELSE "invalid"
  BY DEF Reissued
<1>1. \A c \in Ids : /\ Request(c)' = Request(c) /\ attempts'[c].pack = attempts[c].pack
                     /\ attempts[c].st = "uncertain" => attempts'[c].st = "uncertain"
                     /\ attempts[c].st = "invalid" /\ attempts[c].pack.item \notin Pilots
                           => attempts'[c].st = "invalid"
  BY RequestKept
<1>2. CASE a \in Ids /\ b \in Ids
  BY <1>1, <1>2 DEF SendInv, Reissued
<1>3. CASE a \notin Ids \/ b \notin Ids
  <2>0. PICK p \in Procs : \E n : RowOf(p, n)
    BY <1>3, RowAdded
  <2>1. PICK n : RowOf(p, n)
    BY <2>0
  <2>2. Ids \subseteq Nat
    BY IdsType DEF TypeInv
  <2>3. a \in Ids /\ b = n
    BY <1>3, <2>1, <2>2 DEF RowOf
  <2>4. Request(a) = job[p].req /\ attempts[a].pack = job[p].req.pack
    BY <1>1, <2>1, <2>3, RequestIs DEF RowOf, TypeInv
  <2>5. attempts[a].st = IF attempts[a].pack.item \in Pilots THEN "uncertain" ELSE "invalid"
    BY <2>1, <2>3, <2>4 DEF SendInv, JobReleased, RowOf
  <2> QED
    BY <1>1, <2>3, <2>5
<1> QED
  BY <1>2, <1>3

\* Only Note changes the repairs: it replaces the one of its base request.
LEMMA RepairsChange ==
    ASSUME [Next]_vars
    PROVE  \/ UNCHANGED repairs
           \/ \E p \in Procs :
                 /\ Note(p) /\ job[p].req.fixes # 0
                 /\ repairs' = {r \in repairs : r[1] # job[p].base} \cup {<<job[p].base, job[p].req>>}
<1>1. ASSUME NEW p \in Procs, Step(p) \/ Start(p) \/ Throws(p) \/ Crash(p)
      PROVE  UNCHANGED repairs \/ Note(p)
  BY <1>1 DEF Step, End, Look, Reserve, Replace, Uncertain, Answer, Start, Throws, Crash, tables
<1>2. ASSUME Unlock \/ Prepare \/ Revalidate \/ UNCHANGED vars
             \/ \E w \in Pages : OpenPage(w) \/ CheckReview(w) \/ CommitReview(w)
      PROVE  UNCHANGED repairs
  BY <1>2 DEF Unlock, Prepare, Revalidate, OpenPage, CheckReview, CommitReview, vars, tables
<1>3. \/ UNCHANGED repairs
      \/ \E p \in Procs : Note(p)
  BY <1>1, <1>2 DEF Next
<1> QED
  BY <1>3 DEF Note

LEMMA RepairsStep == ASSUME TypeInv, SendInv, [Next]_vars PROVE RepairsSent' /\ Corrections'
<1>1. \A a \in Ids : /\ a \in Ids' /\ Request(a)' = Request(a)
                     /\ attempts'[a].fixes = attempts[a].fixes /\ attempts'[a].pack = attempts[a].pack
                     /\ attempts[a].st = "inflight" =>
                           attempts'[a].st = "inflight" \/ \E p \in Procs : pc[p] = "sent" /\ job[p].id = a
  BY RequestKept
<1>2. RepairsSent /\ Corrections /\ JobCorrects
  BY DEF SendInv
<1>3. CASE UNCHANGED repairs
  <2>1. RepairsSent'
    BY <1>1, <1>2, <1>3 DEF RepairsSent
  <2>2. Corrections'
    <3> SUFFICES ASSUME NEW b \in Ids', attempts'[b].fixes # 0
                 PROVE  /\ attempts'[b].pack.item \in Pilots /\ attempts'[b].fixes < b
                        /\ \/ attempts'[b].st = "inflight"
                           \/ \E r \in repairs : /\ r[1] = Uncorrected(Request(b)')
                                                 /\ r[2].fixes >= attempts'[b].fixes
      BY <1>3 DEF Corrections
    <3>1. CASE b \in Ids
      <4>1. /\ attempts[b].pack.item \in Pilots /\ attempts[b].fixes < b
            /\ \/ attempts[b].st = "inflight"
               \/ \E r \in repairs : /\ r[1] = Uncorrected(Request(b))
                                     /\ r[2].fixes >= attempts[b].fixes
        BY <1>1, <1>2, <3>1 DEF Corrections
      <4>2. ASSUME NEW p \in Procs, pc[p] = "sent", job[p].id = b
            PROVE  \E r \in repairs : /\ r[1] = Uncorrected(Request(b))
                                      /\ r[2].fixes >= attempts[b].fixes
        <5>1. Request(b) = job[p].req /\ job[p].base = Uncorrected(job[p].req)
          BY <1>2, <4>2 DEF JobCorrects, Calling
        <5>2. job[p].req.fixes = attempts[b].fixes /\ attempts[b].fixes \in Nat
          BY <3>1, <5>1, RequestIs DEF TypeInv
        <5>3. <<job[p].base, job[p].req>> \in repairs
          BY <1>1, <1>2, <3>1, <4>2, <5>2 DEF JobCorrects, Calling
        <5> QED
          BY <5>1, <5>2, <5>3
      <4> QED
        BY <1>1, <3>1, <4>1, <4>2
    <3>2. CASE b \notin Ids
      <4>0. PICK p \in Procs : \E n : RowOf(p, n)
        BY <3>2, RowAdded
      <4>1. PICK n : RowOf(p, n)
        BY <4>0
      <4>2. b = n /\ attempts'[b].st = "inflight" /\ pc[p] = "reserve"
            /\ attempts'[b].pack = job[p].req.pack /\ attempts'[b].fixes = job[p].req.fixes
        BY <3>2, <4>1 DEF RowOf
      <4>3. job[p].req.fixes \in Ids \cup {0} /\ job[p].req.pack.item \in Pilots
        BY <1>2, <4>2 DEF SendInv, JobReleased, JobCorrects
      <4>4. attempts'[b].fixes < b
        BY <4>1, <4>2, <4>3 DEF RowOf
      <4> QED
        BY <4>2, <4>3, <4>4
    <3> QED
      BY <3>1, <3>2
  <2> QED
    BY <2>1, <2>2
<1>4. ASSUME NEW p \in Procs, Note(p), job[p].req.fixes # 0,
             repairs' = {r \in repairs : r[1] # job[p].base} \cup {<<job[p].base, job[p].req>>}
      PROVE  RepairsSent' /\ Corrections'
  <2>1. pc[p] = "note" /\ UNCHANGED attempts /\ Ids' = Ids
    BY <1>4 DEF Note, Ids
  <2>2. /\ job[p].base = Uncorrected(job[p].req) /\ Request(job[p].id) = job[p].req
        /\ job[p].id \in Ids
        /\ \A b \in Ids : Uncorrected(Request(b)) = job[p].base => attempts[b].fixes <= job[p].req.fixes
    BY <1>2, <2>1 DEF JobCorrects, Calling, TypeInv, AtCall
  <2>3. job[p].req.fixes \in Nat /\ \A b \in Ids : attempts[b].fixes \in Nat
    BY <2>2, RequestIs DEF TypeInv
  <2>4. RepairsSent'
    <3>1. \A r, s \in repairs' : r[1] = s[1] => r = s
      BY <1>2, <1>4 DEF RepairsSent
    <3>2. \A r \in repairs' : /\ r[1] = Uncorrected(r[2]) /\ r[2].fixes # 0
                              /\ \E a \in Ids' : Request(a)' = r[2]
      BY <1>1, <1>2, <1>4, <2>1, <2>2 DEF RepairsSent
    <3> QED
      BY <3>1, <3>2 DEF RepairsSent
  <2>5. Corrections'
    <3> SUFFICES ASSUME NEW b \in Ids, attempts[b].fixes # 0, attempts[b].st # "inflight"
                 PROVE  \E r \in repairs' : /\ r[1] = Uncorrected(Request(b))
                                            /\ r[2].fixes >= attempts[b].fixes
      BY <1>1, <1>2, <2>1 DEF Corrections
    <3>1. CASE Uncorrected(Request(b)) = job[p].base
      <4>1. attempts[b].fixes <= job[p].req.fixes
        BY <2>2, <3>1
      <4>2. <<job[p].base, job[p].req>> \in repairs'
        BY <1>4
      <4>3. job[p].req.fixes >= attempts[b].fixes
        BY <2>3, <4>1
      <4> QED
        BY <3>1, <4>2, <4>3
    <3>2. CASE Uncorrected(Request(b)) # job[p].base
      BY <1>2, <1>4, <3>2 DEF Corrections
    <3> QED
      BY <3>1, <3>2
  <2> QED
    BY <2>4, <2>5
<1> QED
  BY <1>3, <1>4, RepairsChange

LEMMA PilotsStep == ASSUME TypeInv, UncertainIsPilot, [Next]_vars PROVE UncertainIsPilot'
<1> USE DEF UncertainIsPilot
<1>1. ASSUME NEW p \in Procs, Start(p) PROVE UncertainIsPilot'
  <2>1. PICK S \in {Items, Pilots} \cup {{i} : i \in Items} :
          \E f, u \in BOOLEAN, n \in Calls :
             /\ u => Cardinality(S) = 1 /\ S \subseteq Pilots
             /\ list' = [list EXCEPT ![p] = {Pack(i) : i \in S}]
             /\ opts' = [opts EXCEPT ![p] = [failed |-> f, uncertain |-> u, left |-> n]]
    BY <1>1 DEF Start
  <2>2. \A i \in S : Pack(i).item = i
    BY DEF Pack
  <2>3. /\ list \in [Procs -> SUBSET Packs]
        /\ opts \in [Procs -> [failed : BOOLEAN, uncertain : BOOLEAN, left : Nat]]
    BY DEF TypeInv, TypeOK
  <2> QED
    BY <2>1, <2>2, <2>3
<1>2. ASSUME NEW p \in Procs, Forget(p) PROVE UncertainIsPilot'
  BY <1>2 DEF Forget, Idle, TypeInv, TypeOK
<1>3. ASSUME UNCHANGED <<list, opts>> PROVE UncertainIsPilot'
  BY <1>3
<1>4. ASSUME NEW p \in Procs, Step(p) PROVE UncertainIsPilot'
  <2>1. CASE End(p) \/ Uncertain(p)
    BY <1>2, <2>1 DEF End, Uncertain, Stop
  <2>2. CASE Look(p)
    <3> DEFINE k == First(p)
    <3>1. Forget(p) \/ (list' = [list EXCEPT ![p] = @ \ {k}] /\ UNCHANGED opts)
      BY <2>2 DEF Look, Stop
    <3> HIDE DEF k
    <3>2. CASE list' = [list EXCEPT ![p] = @ \ {k}] /\ UNCHANGED opts
      <4>1. \A q \in Procs : list'[q] \subseteq list[q]
        BY <3>2 DEF TypeInv, TypeOK
      <4> QED
        BY <3>2, <4>1
    <3> QED
      BY <1>2, <3>1, <3>2
  <2>3. CASE Reserve(p) \/ Note(p) \/ Answer(p)
    BY <1>2, <1>3, <2>3 DEF Reserve, Note, Answer, Stop
  <2>4. CASE Replace(p)
    <3>1. list' = list
      BY <2>4 DEF Replace
    <3>2. \/ UNCHANGED opts
          \/ opts' = [opts EXCEPT ![p] = [opts[p] EXCEPT !.left = opts[p].left - 1]]
      BY <2>4 DEF Replace
    <3>3. opts \in [Procs -> [failed : BOOLEAN, uncertain : BOOLEAN, left : Nat]]
      BY DEF TypeInv, TypeOK
    <3>4. \A q \in Procs : opts'[q].uncertain = opts[q].uncertain
      BY <3>2, <3>3
    <3> QED
      BY <3>1, <3>4
  <2> QED
    BY <1>4, <2>1, <2>2, <2>3, <2>4 DEF Step
<1>5. ASSUME NEW p \in Procs, Throws(p) \/ Crash(p) PROVE UncertainIsPilot'
  BY <1>2, <1>5 DEF Throws, Crash, Stop
<1>6. ASSUME Unlock \/ Prepare \/ Revalidate \/ UNCHANGED vars
             \/ \E w \in Pages : OpenPage(w) \/ CheckReview(w) \/ CommitReview(w)
      PROVE  UncertainIsPilot'
  BY <1>3, <1>6 DEF Unlock, Prepare, Revalidate, OpenPage, CheckReview, CommitReview, vars, locals
<1> QED
  BY <1>1, <1>4, <1>5, <1>6 DEF Next

-----------------------------------------------------------------------------
(* What becomes of the request underway *)

SameJob(q) == job'[q].req = job[q].req /\ job'[q].base = job[q].base

Stays(q) ==
    /\ pc'[q] = pc[q] /\ SameJob(q) /\ job'[q].id = job[q].id
    /\ opts'[q].failed = opts[q].failed /\ opts'[q].uncertain = opts[q].uncertain
    /\ Ids' = Ids /\ UNCHANGED repairs
    /\ pc[q] = "reserve" => UNCHANGED replaced

Picks(q) ==
    /\ pc'[q] = "reserve" /\ UNCHANGED <<attempts, replaced, repairs, opts>>
    /\ \E k \in list[q] :
          /\ k \in Packs /\ ~Blocked(q, k.item) /\ ~Answered(q, k)
          /\ job'[q].req = NextRequest(q, k) /\ job'[q].base = BaseRequest(k)

Notes(q) == pc'[q] = "replace" /\ Note(q)

Sends(q) ==
    /\ pc[q] = "replace" /\ pc'[q] = "sent"
    /\ job'[q] = job[q] /\ UNCHANGED <<attempts, repairs>>

Enters(q) ==
    /\ pc[q] = "reserve" /\ pc'[q] = "note"
    /\ SameJob(q) /\ \E n : RowOf(q, n) /\ job'[q].id = n

LEMMA JobMoves ==
    ASSUME TypeInv, [Next]_vars, NEW q \in Procs, pc'[q] \in {"reserve"} \cup Calling
    PROVE  Stays(q) \/ Picks(q) \/ Enters(q) \/ Notes(q) \/ Sends(q)
<1> USE DEF SameJob
<1>0. pc \in [Procs -> {"idle", "next", "reserve", "note", "replace", "sent"}]
  BY DEF TypeInv, TypeOK
<1>1. CASE UNCHANGED <<locals, repairs, replaced>> /\ Ids' = Ids
  BY <1>1 DEF Stays, locals
<1>2. ASSUME Unlock \/ Prepare \/ UNCHANGED vars
             \/ \E w \in Pages : OpenPage(w) \/ CheckReview(w) \/ CommitReview(w)
      PROVE  UNCHANGED <<locals, repairs, replaced>> /\ Ids' = Ids
  BY <1>2 DEF Unlock, Prepare, OpenPage, CheckReview, CommitReview, vars, tables, Ids
<1>3. ASSUME Revalidate PROVE UNCHANGED <<locals, repairs, replaced>> /\ Ids' = Ids
  BY <1>3, Revalidates DEF Revalidate
<1>4. ASSUME NEW p \in Procs, p # q, Start(p) \/ Step(p) \/ Throws(p) \/ Crash(p) PROVE FALSE
  <2>1. pc[q] = pc'[q]
    BY <1>0, <1>4 DEF Start, Step, Throws, Crash, End, Look, Reserve, Note, Replace, Uncertain, Answer,
       Stop, Forget, Goto
  <2>2. pc[q] # "idle" /\ lock = q
    BY <2>1, Alone DEF Calling
  <2> QED
    BY <1>4, <2>2, Alone, SemanticAssumption DEF Start, Step, Throws, Crash, End, Look, Reserve, Note,
       Replace, Uncertain, Answer, Locks
<1>5. ~(Start(q) \/ End(q) \/ Uncertain(q) \/ Answer(q) \/ Throws(q) \/ Crash(q))
  BY <1>0 DEF Start, End, Uncertain, Answer, Throws, Crash, Stop, Forget, Goto, Calling
<1>6. CASE Look(q)
  <2>1. First(q) \in list[q] /\ First(q) \in Packs
    BY <1>6, FirstType DEF Look
  <2>2. \E k : k = First(q)
    OBVIOUS
  <2>3. PICK k : k = First(q)
    BY <2>2
  <2>4. ~Stop(q) /\ pc[q] = "next"
    BY <1>0, <1>6 DEF Look, Stop, Forget, Goto, Calling
  <2>5. /\ ~Blocked(q, k.item) /\ ~Answered(q, k)
        /\ job' = [job EXCEPT ![q] = [req |-> NextRequest(q, k), base |-> BaseRequest(k),
                                      olds |-> Unresolved(k.item), id |-> 0]]
        /\ pc' = [pc EXCEPT ![q] = "reserve"]
        /\ UNCHANGED <<attempts, replaced, repairs, opts>>
    BY <1>6, <2>3, <2>4 DEF Look, Goto, tables, Calling
  <2>6. job'[q].req = NextRequest(q, k) /\ job'[q].base = BaseRequest(k)
    BY <2>5 DEF TypeInv, TypeOK
  <2> QED
    BY <1>0, <2>1, <2>3, <2>5, <2>6 DEF Picks
<1>7. CASE Reserve(q)
  <2>1. ~(Accounted + Cost > Limit)
    BY <1>0, <1>7 DEF Reserve, Stop, Forget, Goto, Calling
  <2>2. PICK n : n = Len(attempts) + 1
    OBVIOUS
  <2>3. job' = [job EXCEPT ![q].id = n] /\ pc' = [pc EXCEPT ![q] = "note"]
    BY <1>7, <2>1, <2>2 DEF Reserve, Goto
  <2>4. PICK m : RowOf(q, m)
    BY <1>7, <2>1, RowReserved
  <2>5. n = m
    BY <1>7, <2>1, <2>2, <2>4, Reserves DEF RowOf
  <2> QED
    BY <1>0, <2>3, <2>4, <2>5 DEF Enters, TypeInv, TypeOK, RowOf
<1>8. CASE Note(q)
  BY <1>0, <1>8 DEF Notes, Note, Goto
<1>9. CASE Replace(q)
  <2>1. pc[q] = "replace" /\ UNCHANGED <<attempts, repairs>> /\ Ids' = Ids
    BY <1>9 DEF Replace, Ids
  <2>2. CASE job[q].olds = {}
    BY <1>0, <1>9, <2>1, <2>2 DEF Replace, Sends, Goto
  <2>3. CASE job[q].olds # {}
    <3>1. PICK m : job' = [job EXCEPT ![q].olds = @ \ {m}] /\ UNCHANGED <<pc, opts>>
      BY <1>9, <2>3 DEF Replace
    <3>2. SameJob(q) /\ job'[q].id = job[q].id
      BY <3>1 DEF TypeInv, TypeOK
    <3> QED
      BY <2>1, <3>1, <3>2 DEF Stays
  <2> QED
    BY <2>2, <2>3
<1> QED
  BY <1>1, <1>2, <1>3, <1>4, <1>5, <1>6, <1>7, <1>8, <1>9 DEF Next, Step

LEMMA CorrectsStep ==
    ASSUME TypeInv, SendInv, ReplacedHaveEnded, [Next]_vars
    PROVE  JobCorrects'
<1>0. \A p \in Procs : \A r : (\A i : i = job'[p].id => Request(i)' = r) => Request(job[p].id)' = r
  BY DEF Request
<1> SUFFICES ASSUME NEW q \in Procs, pc'[q] \in {"reserve"} \cup Calling
             PROVE  /\ job'[q].base = Uncorrected(job'[q].req)
                    /\ job'[q].req.fixes # 0 => job'[q].req.pack.item \in Pilots
                    /\ pc'[q] \in {"reserve", "note"} =>
                          \A b \in Ids' : Uncorrected(Request(b)') = job'[q].base
                                             => attempts'[b].fixes <= job'[q].req.fixes
                    /\ pc'[q] \in Calling => \A i : i = job'[q].id => Request(i)' = job'[q].req
                    /\ pc'[q] \in {"replace", "sent"} /\ job'[q].req.fixes # 0
                          => <<job'[q].base, job'[q].req>> \in repairs'
  BY <1>0 DEF JobCorrects
<1>1. \A a \in Ids : Request(a)' = Request(a) /\ attempts'[a].fixes = attempts[a].fixes
  BY RequestKept
<1>2. pc[q] \in Calling => job[q].id \in Ids
  BY DEF TypeInv, AtCall
<1>3. JobCorrects
  BY DEF SendInv
<1>4. CASE Stays(q)
  BY <1>1, <1>2, <1>3, <1>4 DEF JobCorrects, Stays, SameJob, Calling
<1>5. CASE Picks(q)
  <2>1. PICK k \in list[q] : /\ k \in Packs /\ ~Blocked(q, k.item) /\ ~Answered(q, k)
                             /\ job'[q].req = NextRequest(q, k) /\ job'[q].base = BaseRequest(k)
    BY <1>5 DEF Picks
  <2>2. PICK req : req = NextRequest(q, k)
    OBVIOUS
  <2>3. /\ BaseRequest(k) = Uncorrected(req) /\ req.pack = k
        /\ req.fixes # 0 => k.item \in Pilots
        /\ \A b \in Ids : Uncorrected(Request(b)) = BaseRequest(k) => attempts[b].fixes <= req.fixes
    BY <2>1, <2>2, LookFinds
  <2>4. Ids' = Ids /\ pc'[q] = "reserve"
    BY <1>5 DEF Picks, Ids
  <2> QED
    BY <1>1, <2>1, <2>2, <2>3, <2>4 DEF Calling
<1>6. CASE Enters(q)
  <2>1. PICK n : RowOf(q, n) /\ job'[q].id = n
    BY <1>6 DEF Enters
  <2>2. job[q].req.fixes \in Int
    BY <1>6, IdsType DEF Enters, SendInv, JobReleased, TypeInv
  <2>3. /\ pc[q] = "reserve" /\ pc'[q] = "note" /\ SameJob(q)
        /\ Ids' = Ids \cup {n} /\ Request(n)' = job[q].req /\ attempts'[n].fixes = job[q].req.fixes
    BY <1>6, <2>1 DEF Enters, RowOf
  <2>4. ASSUME NEW b \in Ids', Uncorrected(Request(b)') = job[q].base
        PROVE  attempts'[b].fixes <= job[q].req.fixes
    <3>1. CASE b = n
      BY <2>2, <2>3, <3>1
    <3>2. CASE b \in Ids
      BY <1>1, <1>3, <2>3, <2>4, <3>2 DEF JobCorrects
    <3> QED
      BY <2>3, <3>1, <3>2
  <2>5. /\ job[q].base = Uncorrected(job[q].req)
        /\ job[q].req.fixes # 0 => job[q].req.pack.item \in Pilots
    BY <1>3, <2>3 DEF JobCorrects
  <2>6. \A i : i = job'[q].id => Request(i)' = job[q].req
    BY <2>1, <2>3
  <2> QED
    BY <2>3, <2>4, <2>5, <2>6 DEF SameJob
<1>7. CASE Notes(q)
  <2>1. pc[q] = "note" /\ UNCHANGED <<attempts, job>> /\ pc'[q] = "replace"
    BY <1>7 DEF Notes, Note
  <2>2. job[q].req.fixes # 0 => <<job[q].base, job[q].req>> \in repairs'
    BY <1>3, <1>7, <2>1 DEF JobCorrects, Calling, Notes, Note
  <2> QED
    BY <1>1, <1>2, <1>3, <2>1, <2>2 DEF JobCorrects, Calling
<1>8. CASE Sends(q)
  BY <1>1, <1>2, <1>3, <1>8 DEF JobCorrects, Calling, Sends
<1> QED
  BY <1>4, <1>5, <1>6, <1>7, <1>8, JobMoves

LEMMA ReleasedStep ==
    ASSUME TypeInv, SendInv, ReplacedHaveEnded, [Next]_vars
    PROVE  JobReleased'
<1>0. \A p \in Procs : \A i : i = job'[p].req.pack.item => Unresolved(i)' = Unresolved(job[p].req.pack.item)'
  BY DEF Unresolved
<1> SUFFICES ASSUME NEW q \in Procs, pc'[q] = "reserve"
             PROVE  /\ job'[q].req.fixes \in Ids' \cup {0}
                    /\ \A i : i = job'[q].req.pack.item => \A b \in Unresolved(i)' :
                          attempts'[b].st = "uncertain" /\ opts'[q].uncertain
                    /\ \A b \in Ids' : Request(b)' = job'[q].req =>
                          IF job'[q].req.pack.item \in Pilots
                          THEN attempts'[b].st = "uncertain" /\ opts'[q].uncertain
                          ELSE attempts'[b].st = "invalid" /\ opts'[q].failed
                    /\ job'[q].req.fixes # 0 =>
                          \/ opts'[q].failed
                          \/ opts'[q].uncertain /\ \E b \in Ids' : Request(b)' = job'[q].req
  BY <1>0 DEF JobReleased
<1>1. \A a \in Ids :
         /\ Request(a)' = Request(a) /\ attempts'[a].pack = attempts[a].pack
         /\ attempts[a].st = "uncertain" => attempts'[a].st = "uncertain"
         /\ attempts[a].st = "invalid" /\ attempts[a].pack.item \notin Pilots
               => attempts'[a].st = "invalid"
  BY RequestKept
<1>2. Stays(q) \/ Picks(q)
  BY JobMoves DEF Calling, Enters, Notes, Sends
<1>3. CASE Stays(q)
  <2>1. /\ pc[q] = "reserve" /\ SameJob(q) /\ Ids' = Ids /\ UNCHANGED replaced
        /\ opts'[q].failed = opts[q].failed /\ opts'[q].uncertain = opts[q].uncertain
    BY <1>3 DEF Stays
  <2>2. \A p \in Procs : pc[p] # "sent"
    BY <2>1, Alone
  <2>3. \A a \in Ids : attempts'[a].st \in {"inflight", "uncertain"} => attempts'[a] = attempts[a]
    <3>1. \A a \in Ids : attempts[a] \in Attempts
      BY DEF TypeInv, TypeOK, Ids
    <3>2. \A a \in Ids : [attempts[a] EXCEPT !.st = "success"].st = "success"
      BY <3>1 DEF Attempts
    <3> QED
      BY <2>2, <3>2, RowsStep DEF RowsKept
  <2>4. \A i : Unresolved(i)' \subseteq Unresolved(i)
    BY <2>1, <2>3 DEF Unresolved
  <2>5. \A b \in Ids : Request(b) = job[q].req => attempts[b].pack = job[q].req.pack
    BY RequestIs DEF TypeInv
  <2>6. JobReleased
    BY DEF SendInv
  <2>7. ASSUME NEW i, i = job'[q].req.pack.item, NEW b \in Unresolved(i)'
        PROVE  attempts'[b].st = "uncertain" /\ opts'[q].uncertain
    <3>1. b \in Unresolved(job[q].req.pack.item) /\ b \in Ids
      BY <2>1, <2>4, <2>7 DEF SameJob, Unresolved
    <3> QED
      BY <1>1, <2>1, <2>6, <3>1 DEF JobReleased
  <2> QED
    BY <1>1, <2>1, <2>5, <2>6, <2>7 DEF JobReleased, SameJob
<1>4. CASE Picks(q)
  <2>1. PICK k \in list[q] : /\ k \in Packs /\ ~Blocked(q, k.item) /\ ~Answered(q, k)
                             /\ job'[q].req = NextRequest(q, k)
    BY <1>4 DEF Picks
  <2>2. PICK req : req = NextRequest(q, k)
    OBVIOUS
  <2>3. /\ req.pack = k /\ req.fixes \in Ids \cup {0}
        /\ \A b \in Unresolved(k.item) : attempts[b].st = "uncertain" /\ opts[q].uncertain
        /\ \A b \in Ids : Request(b) = req =>
              IF k.item \in Pilots
              THEN attempts[b].st = "uncertain" /\ opts[q].uncertain
              ELSE attempts[b].st = "invalid" /\ opts[q].failed
        /\ req.fixes # 0 =>
              \/ opts[q].failed
              \/ opts[q].uncertain /\ \E b \in Ids : Request(b) = req
    BY <2>1, <2>2, LookFinds
  <2>4. Ids' = Ids /\ UNCHANGED <<attempts, opts, replaced>>
    BY <1>4 DEF Picks, Ids
  <2>5. job'[q].req = req /\ job'[q].req.pack.item = k.item
    BY <2>1, <2>2, <2>3
  <2>6. \A i : Unresolved(i)' = Unresolved(i)
    BY <2>4 DEF Unresolved
  <2>7. \A i : i = job'[q].req.pack.item => \A b \in Unresolved(i)' :
           attempts'[b].st = "uncertain" /\ opts'[q].uncertain
    BY <2>3, <2>4, <2>5, <2>6
  <2> QED
    BY <1>1, <2>3, <2>4, <2>5, <2>7
<1> QED
  BY <1>2, <1>3, <1>4

LEMMA SendStep ==
    ASSUME TypeInv, SendInv, ReplacedHaveEnded, [Next]_vars
    PROVE  SendInv'
BY ReissuedStep, RepairsStep, PilotsStep, CorrectsStep, ReleasedStep DEF SendInv

(* A call is made only when each open call of its item ended uncertain and *)
(* its retry was asked for, and no request is sent again while it has an   *)
(* answer or is under way, however the runs before it ended: by an error,  *)
(* a kill, or between two statements (runner.mjs, State.cached).           *)
THEOREM NoBlindReplayEver == Spec => NoBlindReplay
<1>1. Init => OpenInv /\ EndedInv /\ SendInv
  BY DEF Init, OpenInv, LastInflight, RepairsSamePack, JobSamePack, JobKnowsOpen, Open, Ids, Calling,
         EndedInv, OldsEnded, ReplacedHaveEnded, SendInv, Reissued, RepairsSent, Corrections,
         UncertainIsPilot, JobCorrects, JobReleased, Idle
<1>2. TypeInv /\ OpenInv /\ EndedInv /\ SendInv /\ [Next]_vars => OpenInv' /\ EndedInv' /\ SendInv'
  BY OpenStepInv, EndedStep, SendStep DEF EndedInv
<1>3. TypeInv /\ SendInv /\ [Next]_vars =>
        [\A a \in DOMAIN attempts' \ Ids :
          \E p \in Procs :
             /\ pc[p] = "reserve"
             /\ \A b \in Unresolved(attempts'[a].pack.item) :
                   attempts[b].st = "uncertain" /\ opts[p].uncertain
             /\ \A b \in Ids : Request(b) = job[p].req =>
                   \/ attempts[b].st = "invalid" /\ opts[p].failed
                   \/ attempts[b].st = "uncertain" /\ (opts[p].uncertain \/ b \in replaced)
             /\ job[p].req.fixes # 0 =>
                   \/ opts[p].failed
                   \/ opts[p].uncertain /\ \E b \in Ids : Request(b) = job[p].req]_vars
  <2> SUFFICES ASSUME TypeInv, SendInv, [Next]_vars, NEW a \in Ids' \ Ids
               PROVE  \E p \in Procs :
                        /\ pc[p] = "reserve"
                        /\ \A b \in Unresolved(attempts'[a].pack.item) :
                              attempts[b].st = "uncertain" /\ opts[p].uncertain
                        /\ \A b \in Ids : Request(b) = job[p].req =>
                              \/ attempts[b].st = "invalid" /\ opts[p].failed
                              \/ attempts[b].st = "uncertain" /\ (opts[p].uncertain \/ b \in replaced)
                        /\ job[p].req.fixes # 0 =>
                              \/ opts[p].failed
                              \/ opts[p].uncertain /\ \E b \in Ids : Request(b) = job[p].req
    BY DEF Ids
  <2>0. PICK p \in Procs : \E n : RowOf(p, n)
    BY RowAdded
  <2>1. PICK n : RowOf(p, n)
    BY <2>0
  <2>2. pc[p] = "reserve" /\ attempts'[a].pack = job[p].req.pack
    BY <2>1 DEF RowOf
  <2>3. JobReleased
    BY DEF SendInv
  <2> QED
    BY <2>2, <2>3 DEF JobReleased
<1> QED
  BY <1>1, <1>2, <1>3, TypeAlways, PTL DEF Spec, NoBlindReplay

-----------------------------------------------------------------------------
(* The budget of all runs *)

\* What the rows of a table may cost, and the excess over their reservations.
DueOf(s)  == [a \in DOMAIN s |-> IF s[a].charged = NONE THEN Cost ELSE s[a].charged]
OverOf(s) == [a \in DOMAIN s |-> IF s[a].charged = NONE THEN 0 ELSE Max({s[a].charged - Cost, 0})]

LEMMA ExcessIs ==
    ASSUME NEW c \in Nat
    PROVE  Max({c - Cost, 0}) \in Nat /\ Max({c - Cost, 0}) >= c - Cost
<1>1. {c - Cost, 0} \in SUBSET Int /\ IsFiniteSet({c - Cost, 0})
  <2>1. IsFiniteSet({0}) /\ {c - Cost, 0} = {0} \cup {c - Cost}
    BY FS_Singleton
  <2>2. IsFiniteSet({c - Cost, 0})
    BY <2>1, FS_AddElement
  <2> QED
    BY <2>2, SemanticAssumption
<1> DEFINE m == Max({c - Cost, 0})
<1>2. m \in {c - Cost, 0} /\ \A y \in {c - Cost, 0} : m >= y
  BY <1>1, MaxIsLargest
<1>3. m \in Int /\ m >= 0 /\ m >= c - Cost
  BY <1>1, <1>2
<1> QED
  BY <1>3

LEMMA DueType ==
    ASSUME NEW s \in Seq(Attempts)
    PROVE  /\ IsFiniteSet(DOMAIN s)
           /\ DueOf(s) \in [DOMAIN s -> Nat] /\ OverOf(s) \in [DOMAIN s -> Nat]
<1>1. \A a \in DOMAIN s : s[a].charged \in Usages \cup {NONE}
  <2>1. \A a \in DOMAIN s : s[a] \in Attempts
    OBVIOUS
  <2> QED
    BY <2>1 DEF Attempts
<1>2. Cost \in Nat /\ Usages \subseteq Nat
  BY SemanticAssumption
<1>3. DueOf(s) \in [DOMAIN s -> Nat]
  BY <1>1, <1>2 DEF DueOf
<1>4. OverOf(s) \in [DOMAIN s -> Nat]
  BY <1>1, <1>2, ExcessIs DEF OverOf
<1>5. DOMAIN s = 1 .. Len(s) /\ 1 \in Int /\ Len(s) \in Int
  OBVIOUS
<1>6. IsFiniteSet(DOMAIN s)
  BY ONLY <1>5, FS_Interval
<1> QED
  BY <1>3, <1>4, <1>6

LEMMA AccountedIs == ASSUME TypeOK PROVE Accounted = Total(Due)
<1>1. \A a \in Ids : attempts[a] \in Attempts
  BY DEF TypeOK, Ids
<1>2. [a \in Ids |-> Counted(a)] = Due
  BY <1>1 DEF Due, Counted, Attempts
<1> QED
  BY <1>2 DEF Accounted

LEMMA DueIs == /\ Due = DueOf(attempts) /\ Over = OverOf(attempts)
               /\ Due' = DueOf(attempts') /\ Over' = OverOf(attempts')
  BY DEF Due, Over, DueOf, OverOf, Ids

\* No step raises what may have to be paid for the rows that are there by more than
\* the excess of the response it records.
LEMMA OldRowsCost ==
    ASSUME TypeInv, TypeOK', OpenUncharged, [Next]_vars
    PROVE  Total([a \in Ids |-> Due'[a]]) - Total([a \in Ids |-> Over'[a]]) <= Total(Due) - Total(Over)
<1>1. RowsKept /\ Ids \subseteq Ids'
  BY RowsStep DEF RowsKept
<1>2. PICK d, o, n, v : d = Due /\ o = Over /\ n = Due' /\ v = Over'
  OBVIOUS
<1>3. d \in [Ids -> Nat] /\ o \in [Ids -> Nat] /\ n \in [Ids' -> Nat] /\ v \in [Ids' -> Nat]
  <2>1. attempts \in Seq(Attempts) /\ attempts' \in Seq(Attempts)
    BY DEF TypeInv, TypeOK
  <2> QED
    BY <1>2, <2>1, DueIs, DueType DEF Ids
<1>4. \A a \in Ids : n[a] - v[a] <= d[a] - o[a]
  <2> SUFFICES ASSUME NEW a \in Ids PROVE n[a] - v[a] <= d[a] - o[a]
    OBVIOUS
  <2>1. attempts[a] \in Attempts
    BY DEF TypeInv, TypeOK, Ids
  <2>2. attempts'[a].charged = attempts[a].charged \/ attempts[a].charged = NONE
    BY <1>1, <2>1 DEF RowsKept, OpenUncharged, Attempts
  <2>3. d[a] \in Nat /\ o[a] \in Nat /\ n[a] \in Nat /\ v[a] \in Nat
    BY <1>1, <1>3
  <2>4. CASE attempts'[a].charged = attempts[a].charged
    <3>1. n[a] = d[a] /\ v[a] = o[a]
      BY <1>1, <1>2, <2>4 DEF Due, Over
    <3> QED
      BY <2>3, <3>1
  <2>5. CASE attempts[a].charged = NONE
    <3>1. d[a] = Cost /\ o[a] = 0 /\ Cost \in Nat
      BY <1>2, <2>5, SemanticAssumption DEF Due, Over
    <3>2. CASE attempts'[a].charged = NONE
      <4>1. n[a] = Cost /\ v[a] = 0
        BY <1>1, <1>2, <3>2 DEF Due, Over
      <4> QED
        BY <3>1, <4>1
    <3>3. CASE attempts'[a].charged # NONE
      <4>1. n[a] = attempts'[a].charged /\ v[a] = Max({attempts'[a].charged - Cost, 0})
        BY <1>1, <1>2, <3>3 DEF Due, Over
      <4>2. v[a] >= n[a] - Cost
        BY <2>3, <4>1, ExcessIs
      <4> QED
        BY <2>3, <3>1, <4>2
    <3> QED
      BY <3>2, <3>3
  <2> QED
    BY <2>2, <2>4, <2>5
<1>5. PICK e, x : e = [a \in Ids |-> n[a]] /\ x = [a \in Ids |-> v[a]]
  OBVIOUS
<1>6. /\ d \in [Ids -> Int] /\ o \in [Ids -> Int] /\ e \in [Ids -> Int] /\ x \in [Ids -> Int]
      /\ \A a \in Ids : e[a] - x[a] <= d[a] - o[a]
  BY <1>1, <1>3, <1>4, <1>5
<1>7. IsFiniteSet(Ids)
  BY IdsFinite DEF TypeInv
<1>8. Total(e) - Total(x) <= Total(d) - Total(o)
  BY ONLY <1>6, <1>7, TotalCompare
<1> QED
  BY <1>2, <1>5, <1>8

\* The totals of the new rows: as before, or with a reservation for which there was room.
LEMMA BudgetStep == ASSUME TypeInv, OpenUncharged, BudgetHeld, [Next]_vars PROVE BudgetHeld'
<1>1. TypeOK'
  BY TypeStep DEF TypeInv
<1>2. PICK d, o, e, x : d = Due /\ o = Over /\ e = Due' /\ x = Over'
  OBVIOUS
<1>3. PICK I, J : I = Ids /\ J = Ids'
  OBVIOUS
<1> DEFINE r == [a \in I |-> e[a]]
           q == [a \in I |-> x[a]]
<1>4. /\ IsFiniteSet(I) /\ IsFiniteSet(J)
      /\ d \in [I -> Nat] /\ o \in [I -> Nat] /\ e \in [J -> Nat] /\ x \in [J -> Nat]
  <2>1. attempts \in Seq(Attempts) /\ attempts' \in Seq(Attempts)
    BY <1>1 DEF TypeInv, TypeOK
  <2> QED
    BY <1>2, <1>3, <2>1, DueIs, DueType DEF Ids
<1>5. I \subseteq J
  BY <1>3, RowsStep DEF RowsKept
<1>6. /\ Total(r) \in Nat /\ Total(q) \in Nat
      /\ Total(d) \in Nat /\ Total(o) \in Nat /\ Total(e) \in Nat /\ Total(x) \in Nat
  <2>1. r \in [I -> Nat] /\ q \in [I -> Nat]
    BY <1>4, <1>5
  <2> HIDE DEF r, q
  <2> QED
    BY ONLY <1>4, <2>1, TotalType
<1>7. Total(r) - Total(q) <= Total(d) - Total(o)
  BY <1>1, <1>2, <1>3, OldRowsCost
<1>8. Total(d) <= Limit + Total(o) /\ Limit \in Nat /\ Cost \in Nat
  BY <1>2, SemanticAssumption DEF BudgetHeld
<1>9. Total(e) <= Limit + Total(x)
  <2>1. CASE J = I
    <3>1. r = e /\ q = x
      BY <1>4, <2>1
    <3> HIDE DEF r, q
    <3> QED
      BY ONLY <1>6, <1>7, <1>8, <3>1
  <2>2. CASE J # I
    <3>1. PICK p \in Procs : \E n : RowOf(p, n)
      BY <1>3, <2>2, RowAdded
    <3>2. PICK n : RowOf(p, n)
      BY <3>1
    <3>3. n \in J /\ J \ {n} = I
      BY <1>3, <3>2 DEF RowOf
    <3>4. Total(d) + Cost <= Limit
      BY <1>2, <1>6, <1>8, <3>2, AccountedIs DEF RowOf, TypeInv
    <3>5. e[n] = Cost /\ x[n] = 0
      <4>1. n \in Ids' \ Ids
        BY <3>2 DEF RowOf
      <4>2. attempts'[n].charged = NONE
        BY <4>1, RowsStep DEF RowsKept
      <4> QED
        BY <1>2, <4>1, <4>2 DEF Due, Over
    <3>6. Total(e) = e[n] + Total(r) /\ Total(x) = x[n] + Total(q)
      <4>1. e \in [J -> Int] /\ x \in [J -> Int]
        BY <1>4
      <4>2. /\ Total(e) = e[n] + Total([a \in J \ {n} |-> e[a]])
            /\ Total(x) = x[n] + Total([a \in J \ {n} |-> x[a]])
        BY ONLY <1>4, <3>3, <4>1, TotalSplit
      <4> QED
        BY <3>3, <4>2
    <3> HIDE DEF r, q
    <3> QED
      BY ONLY <1>6, <1>7, <1>8, <3>4, <3>5, <3>6
  <2> QED
    BY <2>1, <2>2
<1> QED
  BY <1>2, <1>9 DEF BudgetHeld

(* Over any number of runs, crashes and restarts, what the calls cost, those *)
(* of unknown outcome counted with their whole reservation, stays within     *)
(* totalTokens plus what responses took beyond their reservations            *)
(* (State.reserve, State.usage).                                             *)
THEOREM BudgetAlwaysHeld == Spec => []BudgetHeld
<1>1. Init => OpenUncharged /\ BudgetHeld
  <2> SUFFICES ASSUME Init PROVE OpenUncharged /\ BudgetHeld
    OBVIOUS
  <2>1. Ids = {}
    BY DEF Init, Ids
  <2>2. PICK d, o : d = Due /\ o = Over
    OBVIOUS
  <2>3. d \in [{} -> Nat] /\ o \in [{} -> Nat] /\ IsFiniteSet({})
    BY <2>1, <2>2, FS_EmptySet DEF Due, Over
  <2>4. d = o
    BY <2>3
  <2>5. Total(o) \in Nat
    BY ONLY <2>3, TotalType
  <2>6. Total(d) <= Limit + Total(o)
    BY ONLY <2>4, <2>5, SemanticAssumption
  <2> QED
    BY <2>1, <2>2, <2>6 DEF BudgetHeld, OpenUncharged
<1>2. TypeInv /\ OpenUncharged /\ BudgetHeld /\ [Next]_vars => OpenUncharged' /\ BudgetHeld'
  BY OpenStep, BudgetStep
<1> QED
  BY <1>1, <1>2, TypeAlways, PTL DEF Spec
=============================================================================
