----------------------------- MODULE ReadScope -----------------------------
(***************************************************************************)
(* Which partitions a READ may see, and which producers that excludes:     *)
(* resolveReadPartitionScope of sql-read-scope.ts, then the partition      *)
(* match of producer-index-query.ts.  Both work on evidence: a predicate   *)
(* is compared only as far as it is understood, a value may be a runtime   *)
(* expression.  What they conclude is compared with what the SQL means.    *)
(*                                                                         *)
(* Data abstraction: a literal is a text, of which the code knows the      *)
(* number it spells, if any, whether it is an ISO date, and its place in   *)
(* the order of texts; what it means is its Sense in the column.  The      *)
(* other values name a runtime expression or STAR.  The column of an atom  *)
(* is a partition field, OTHER (another column of the table) or OPAQUE     *)
(* (not a bare column of it).  The branches of a predicate and the writes  *)
(* of a producer are sets: neither what they mean nor what is concluded    *)
(* depends on order or repetition.                                         *)
(***************************************************************************)
EXTENDS Integers, Sequences, FiniteSets

CONSTANTS
    Fields,      \* partition fields of the table
    DateFields,  \* the ones isDatePartitionField knows by their name
    Literals,    \* the texts of literals
    Sense,       \* the value a text has in a column
    Number,      \* the number it spells for Number(), or NaN
    NaN,         \* not a number
    Collation,   \* its place among the texts
    IsoTexts,    \* the ones that begin with an ISO date
    IsoDates,    \* and the ones that are nothing else
    Runtimes,    \* runtime expressions
    Templates,   \* the ones isDateRuntimeTemplate accepts
    STAR,        \* a dynamic partition
    MISSING,     \* a write without an assignment of the field
    Depth,       \* bound: nesting of a predicate
    Trees,       \* predicates of READ occurrences
    Edges        \* confirmed producer edges, each a set of writes

Comparable == {"EQ", "LT", "LTE", "GT", "GTE", "IN", "BETWEEN"}

NoTree == [k |-> "none"]

\* What is not understood of an atom is not told apart: an operand that is no
\* bare column, or a value that is no literal and no runtime expression, makes it
\* OPAQUE.  Each operator has the number of values that SQL gives it.
Atoms ==
    {a \in [k : {"atom"}, field : Fields \cup {"OTHER", "OPAQUE"},
            op : Comparable \cup {"NE", "LIKE"}, vals : Seq(Literals \cup Runtimes) \ {<<>>}] :
        /\ a.field \in Fields => a.op # "LIKE"
        /\ a.op = "BETWEEN" => Len(a.vals) = 2
        /\ a.op \notin {"IN", "BETWEEN"} => Len(a.vals) = 1}

Nodes(S) ==
    {t \in [k : {"NOT", "AND", "OR"}, kids : (SUBSET S) \ {{}}] :
        t.k = "NOT" => \E c \in t.kids : t.kids = {c}}

\* The predicates that are nested no more than n times.
Level[n \in 0..Depth] ==
    IF n = 0 THEN Atoms \cup {NoTree} ELSE Level[n - 1] \cup Nodes(Level[n - 1])

Preds == Level[Depth]

Writes == [part : [Fields -> Literals \cup Runtimes \cup {STAR, MISSING}], complete : BOOLEAN]

ASSUME ScopeAssumption ==
    /\ DateFields \subseteq Fields /\ Templates \subseteq Runtimes
    /\ Fields \cap {"OTHER", "OPAQUE"} = {}
    /\ Literals # {}
    /\ Literals \cap Runtimes = {} /\ {STAR, MISSING} \cap (Literals \cup Runtimes) = {}
    /\ Depth \in Nat /\ Trees \subseteq Preds
    /\ Edges \subseteq SUBSET Writes
ASSUME TextAssumption ==
    /\ Sense \in [Fields -> [Literals -> Int]]
    /\ NaN \notin Int /\ Number \in [Literals -> Int \cup {NaN}]
    /\ Collation \in [Literals -> Int]
    /\ IsoDates \subseteq IsoTexts /\ IsoTexts \subseteq Literals
    /\ \A l, m \in Literals : Collation[l] = Collation[m] => l = m

VARIABLES
    tree,    \* predicate of the occurrence
    known,   \* the table's partition fields as its pack gives them
    bound,   \* whether the occurrence's predicate is attributed for certain
    edge,    \* a producer's writes
    scope,   \* ReadPartitionScope, once resolved
    match,   \* ProducerPartitionMatch, once matched
    pc

vars == <<tree, known, bound, edge, scope, match, pc>>

Kids(t) == IF t.k \in {"none", "atom"} THEN {} ELSE t.kids

Subtrees(t) ==
    LET sub[s \in Preds] == {s} \cup UNION {sub[c] : c \in Kids(s)}
    IN  sub[t]

(***************************************************************************)
(* What the SQL means.  A row has its partition, given by texts, and may   *)
(* or may not satisfy the atoms over other columns.  A column compares     *)
(* what its texts mean in it: a number, a date, or the text itself.        *)
(***************************************************************************)
Value(v, env) == IF v \in Runtimes THEN env[v] ELSE v

AtomHolds(t, text, env) ==
    LET x    == Sense[t.field][text]
        y(i) == Sense[t.field][Value(t.vals[i], env)]
    IN  CASE t.op = "EQ"      -> x = y(1)
          [] t.op = "NE"      -> x # y(1)
          [] t.op = "LT"      -> x < y(1)
          [] t.op = "LTE"     -> x <= y(1)
          [] t.op = "GT"      -> x > y(1)
          [] t.op = "GTE"     -> x >= y(1)
          [] t.op = "IN"      -> \E i \in DOMAIN t.vals : x = y(i)
          [] t.op = "BETWEEN" -> y(1) <= x /\ x <= y(2)

\* What a predicate means, given what its branches mean.
Meaning(t, branches, part, other, opaque, env) ==
    IF t.k = "none" THEN TRUE
    ELSE IF t.k = "atom" THEN IF t.field = "OTHER" THEN other
                              ELSE IF t.field = "OPAQUE" THEN opaque
                              ELSE AtomHolds(t, part[t.field], env)
    ELSE IF t.k = "OR" THEN TRUE \in branches
    ELSE IF t.k = "AND" THEN FALSE \notin branches
    ELSE TRUE \notin branches

Holds(t, part, other, opaque, env) ==
    LET holds[s \in Preds] == Meaning(s, {holds[c] : c \in Kids(s)}, part, other, opaque, env)
    IN  holds[t]

\* The partitions a write may fill when the runtime expressions have the values
\* of env.
Filled(w, env) ==
    {part \in [Fields -> Literals] : \A f \in Fields :
        w.part[f] \in {STAR, MISSING} \/ part[f] = Value(w.part[f], env)}

CanRead(t, w, env) ==
    \E part \in Filled(w, env), other, opaque \in BOOLEAN : Holds(t, part, other, opaque, env)

Envs == [Runtimes -> Literals]

(***************************************************************************)
(* sql-read-scope.ts                                                       *)
(***************************************************************************)
Result(st, p) == [st |-> st, p |-> p]

FieldsOf(p) == {a.field : a \in {s \in Subtrees(p) : s.k = "atom"}}

AtomEvaluation(t, fields) ==
    IF t.field = "OPAQUE" THEN Result("UNKNOWN", NoTree)
    ELSE IF t.field \notin fields THEN Result("IRRELEVANT", NoTree)
    ELSE IF t.op \notin Comparable THEN Result("UNKNOWN", NoTree)
    ELSE Result("SUPPORTED", t)

Irrelevant(e) == e.st = "IRRELEVANT"

\* Slip: branches over other columns are ignored.
Ignored(kind, results) == FALSE

\* The branches of an OR that only constrain other columns are counted.
Unconstrained(kind, results) == kind = "OR" /\ \E e \in results : Irrelevant(e)

\* One predicate alone is not wrapped.
Joined(kind, preds) == IF \E q \in preds : preds = {q} THEN CHOOSE q \in preds : TRUE
                       ELSE [k |-> kind, kids |-> preds]

Combine(kind, results) ==
    LET relevant == {e \in results : ~Irrelevant(e)}
        Some(st) == \E e \in relevant : e.st = st
        kept     == {e.p : e \in relevant} \ {NoTree}
        fields   == UNION {FieldsOf(p) : p \in kept}
    IN  IF relevant = {} THEN Result("IRRELEVANT", NoTree)
        ELSE IF Unconstrained(kind, results) THEN Result("PARTIAL", NoTree)
        ELSE IF kept = {} THEN Result(IF Some("UNKNOWN") THEN "UNKNOWN" ELSE "PARTIAL", NoTree)
        ELSE IF kind = "OR" /\ Cardinality(fields) # 1 THEN Result("PARTIAL", NoTree)
        ELSE Result(IF Some("PARTIAL") THEN "PARTIAL" ELSE "SUPPORTED", Joined(kind, kept))

Negate(results) == IF \A e \in results : Irrelevant(e) THEN Result("IRRELEVANT", NoTree)
                   ELSE Result("UNKNOWN", NoTree)

\* The evaluation of a predicate, given the ones of its branches.
Evaluation(t, results, fields) ==
    IF t.k = "none" THEN Result("IRRELEVANT", NoTree)
    ELSE IF t.k = "atom" THEN AtomEvaluation(t, fields)
    ELSE IF t.k = "NOT" THEN Negate(results)
    ELSE Combine(t.k, results)

Evaluate(t, fields) ==
    LET eval[s \in Preds] == Evaluation(s, {eval[c] : c \in Kids(s)}, fields)
    IN  eval[t]

\* known is the set of the table's partition fields, {"unavailable"} without a
\* pack.  The caller turns a scope without a predicate into UNKNOWN when the
\* predicate could not be attributed to the occurrence.
Resolve ==
    LET e    == Evaluate(tree, known)
        full == e.st = "SUPPORTED" /\ known \subseteq FieldsOf(e.p)
        st   == CASE e.st = "IRRELEVANT"        -> "ALL_PARTITIONS"
                  [] e.st = "SUPPORTED" /\ full -> "CONSTRAINED"
                  [] e.st = "SUPPORTED"         -> "PARTIAL"
                  [] OTHER                      -> e.st
    IN  /\ pc = "resolve" /\ pc' = "match"
        /\ scope' = IF known = {} THEN Result("UNPARTITIONED", NoTree)
                    ELSE IF known = {"unavailable"} THEN Result("UNKNOWN", NoTree)
                    ELSE IF e.p = NoTree /\ ~bound THEN Result("UNKNOWN", NoTree)
                    ELSE Result(st, e.p)
        /\ UNCHANGED <<tree, known, bound, edge, match>>

(***************************************************************************)
(* producer-index-query.ts.  assumed: the result rests on DATE_PARTITION_- *)
(* DEFAULTED, that a runtime date is the date the READ asks for.           *)
(***************************************************************************)
Matched(st)  == [st |-> st, assumed |-> FALSE]
Defaulted    == [st |-> "PROVEN_OVERLAP", assumed |-> TRUE]

Dynamic(v) == v \notin Literals

Decide(holds) == Matched(IF holds THEN "PROVEN_OVERLAP" ELSE "PROVEN_DISJOINT")

\* compareLiteralValues: as numbers, or else as the texts of dates, or not at all.
Numbers(l, m)   == Number[l] # NaN /\ Number[m] # NaN
CanOrder(l, m)  == Numbers(l, m) \/ {l, m} \subseteq IsoTexts

\* Slip: texts are ordered as texts, numbers among them.
TextLess(l, m)  == Collation[l] < Collation[m]

Less(l, m) == IF Numbers(l, m) THEN Number[l] < Number[m] ELSE Collation[l] < Collation[m]

InRange(p, text) ==
    CASE p.op = "LT"      -> Less(text, p.vals[1])
      [] p.op = "LTE"     -> ~Less(p.vals[1], text)
      [] p.op = "GT"      -> Less(p.vals[1], text)
      [] p.op = "GTE"     -> ~Less(text, p.vals[1])
      [] p.op = "BETWEEN" -> ~Less(text, p.vals[1]) /\ ~Less(p.vals[2], text)

\* EQ and IN compare texts.
MatchLiterals(p, text) ==
    IF p.op \in {"EQ", "IN"} THEN Decide(\E i \in DOMAIN p.vals : p.vals[i] = text)
    ELSE IF \E i \in DOMAIN p.vals : ~CanOrder(text, p.vals[i]) THEN Matched("UNKNOWN")
    ELSE Decide(InRange(p, text))

MatchAtom(p, w) ==
    LET actual  == w.part[p.field]
        literal == \A i \in DOMAIN p.vals : ~Dynamic(p.vals[i])
        dates   == \A i \in DOMAIN p.vals : p.vals[i] \in IsoDates
    IN  IF ~w.complete \/ actual = MISSING THEN Matched("UNKNOWN")
        ELSE IF Dynamic(actual)
             THEN IF p.field \in DateFields /\ dates THEN Defaulted
                  ELSE Matched(IF p.vals = <<actual>> /\ actual \in Runtimes
                               THEN "PROVEN_OVERLAP" ELSE "POSSIBLE_OVERLAP")
        ELSE IF ~literal THEN Matched("POSSIBLE_OVERLAP")
        ELSE MatchLiterals(p, actual)

Assumes(results) == \E m \in results : m.assumed

CombineMatches(kind, results) ==
    LET Some(st) == \E m \in results : m.st = st
        All(st)  == \A m \in results : m.st = st
    IN  [st |-> IF kind = "AND"
                THEN IF Some("PROVEN_DISJOINT") THEN "PROVEN_DISJOINT"
                     ELSE IF Some("UNKNOWN") THEN "UNKNOWN"
                     ELSE IF Some("POSSIBLE_OVERLAP") THEN "POSSIBLE_OVERLAP"
                     ELSE "PROVEN_OVERLAP"
                ELSE IF All("PROVEN_DISJOINT") THEN "PROVEN_DISJOINT"
                ELSE IF Some("PROVEN_OVERLAP") THEN "PROVEN_OVERLAP"
                ELSE IF Some("POSSIBLE_OVERLAP") THEN "POSSIBLE_OVERLAP"
                ELSE "UNKNOWN",
         assumed |-> Assumes(results)]

MatchConstraint(p, w) ==
    LET matched[s \in Preds] ==
            IF s.k = "atom" THEN MatchAtom(s, w)
            ELSE CombineMatches(s.k, {matched[c] : c \in Kids(s)})
    IN  matched[p]

RuntimeDate(w) == \E f \in DateFields : w.part[f] \in Templates

\* combinePartialReadMatches, for a PARTIAL scope, gives a nonempty edge the
\* same status as the OR of its writes.
MatchEdge ==
    LET Date == \E w \in edge : RuntimeDate(w)
    IN  /\ pc = "match" /\ pc' = "done"
        /\ match' = IF scope.st \in {"UNPARTITIONED", "ALL_PARTITIONS"}
                    THEN IF Date THEN Defaulted ELSE Matched("PROVEN_OVERLAP")
                    ELSE IF scope.p = NoTree THEN Matched("UNKNOWN")
                    ELSE IF scope.st = "CONSTRAINED" /\ Date
                            /\ FieldsOf(scope.p) \cap DateFields = {}
                    THEN Defaulted
                    ELSE CombineMatches("OR", {MatchConstraint(scope.p, w) : w \in edge})
        /\ UNCHANGED <<tree, known, bound, edge, scope>>

Init ==
    /\ tree \in Trees /\ edge \in Edges /\ bound \in BOOLEAN
    /\ known \in {Fields, {}, {"unavailable"}}
    /\ scope = Result("none", NoTree) /\ match = Matched("none") /\ pc = "resolve"

Next == Resolve \/ MatchEdge

Spec == Init /\ [][Next]_vars

(***************************************************************************)
(* Properties                                                              *)
(***************************************************************************)
\* An OR with a branch of which nothing was understood.  Combine drops such a
\* branch, so that the predicate it keeps is stronger than the SQL.
Forgets(t) ==
    /\ t.k = "OR"
    /\ \E c \in t.kids :
          LET e == Evaluate(c, known) IN e.p = NoTree /\ ~Irrelevant(e)

\* What the columns do with the texts that are compared.  One value has one text:
PlainValues(a, w) ==
    LET x == w.part[a.field]
    IN  a.op \in {"EQ", "IN"} =>
            \A y \in {a.vals[i] : i \in DOMAIN a.vals} \cap Literals :
                x \in Literals /\ Sense[a.field][x] = Sense[a.field][y] => x = y

\* Numbers are ordered as numbers, and dates like their texts:
SameOrder(f, l, m) == (Sense[f][l] < Sense[f][m]) <=> IF Numbers(l, m) THEN Number[l] < Number[m]
                                                      ELSE Collation[l] < Collation[m]

PlainOrder(a, w) ==
    LET x == w.part[a.field]
    IN  a.op \notin {"EQ", "IN"} =>
            \A y \in {a.vals[i] : i \in DOMAIN a.vals} \cap Literals :
                x \in Literals /\ CanOrder(x, y) => /\ SameOrder(a.field, x, y)
                                                   /\ SameOrder(a.field, y, x)

Constraints(t) == {a \in Subtrees(t) : a.k = "atom" /\ a.field \in Fields}

NeverRead == \A env \in Envs, w \in edge : ~CanRead(tree, w, env)

\* A producer is taken out of the candidates of a READ only if no value of the
\* runtime expressions lets the READ see a partition that it writes - as long
\* as no OR of the predicate has a branch that was not understood, and the
\* columns compare the texts at hand like matchAtom does: 1 and 01 are one value
\* of a number column and two for EQ and IN, 10 comes before 9 in a text column
\* and after it in a range.
DisjointIsNeverRead ==
    /\ match.st = "PROVEN_DISJOINT"
    /\ ~\E t \in Subtrees(tree) : Forgets(t)
    /\ \A a \in Constraints(tree), w \in edge : PlainValues(a, w) /\ PlainOrder(a, w)
    => NeverRead

\* docs/reconcile-one-hop.md: only producers that are certainly disjoint are
\* left out of the partition-aware candidates.
OnlyDisjointIsExcluded == match.st = "PROVEN_DISJOINT" => NeverRead

\* Every part of t is compared: no NOT, no atom that is not understood, and no
\* strict comparison with a runtime expression, which MatchAtom takes for an
\* equality.
Understood(t) ==
    \A s \in Subtrees(t) :
        /\ s.k # "NOT"
        /\ s.k = "atom" => /\ s.field # "OPAQUE"
                           /\ s.field \in Fields => /\ s.op \in Comparable
                                                    /\ s.op \in {"LT", "GT"} => s.vals[1] \in Literals

\* A PROVEN_OVERLAP that assumes no date is an overlap whatever the runtime
\* values are: one of the writes fills a partition that the READ sees.  Equal
\* texts are always equal values; only ranges have to be ordered alike.
ProvenOverlapIsRead ==
    /\ match.st = "PROVEN_OVERLAP" /\ ~match.assumed /\ scope.st = "CONSTRAINED"
    /\ Understood(tree)
    /\ \A a \in Constraints(tree), w \in edge : PlainOrder(a, w)
    => \A env \in Envs : \E w \in edge : CanRead(tree, w, env)
=============================================================================
