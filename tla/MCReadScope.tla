---------------------------- MODULE MCReadScope ----------------------------
(***************************************************************************)
(* Model values for the TLC runs of ReadScope: "p", a date field stored as *)
(* text, and "q", a column of numbers; two dates, and three texts that are *)
(* numbers, two of them one number; a date template and another runtime    *)
(* expression.                                                             *)
(***************************************************************************)
EXTENDS ReadScope

D1 == "2025-01-01"
D2 == "2025-01-02"
DT == "${yyyy-mm-dd}"
RT == "${hour}"

MCLiterals == {"01", "1", "2", D1, D2}
MCRuntimes == {DT, RT}

\* By the order of characters: "01" < "1" < "2" < "2025-01-01" < "2025-01-02".
MCCollation == [l \in MCLiterals |->
    CASE l = "01" -> 1 [] l = "1" -> 2 [] l = "2" -> 3 [] l = D1 -> 4 [] l = D2 -> 5]
MCNumber == [l \in MCLiterals |-> IF l \in {"01", "1"} THEN 1 ELSE IF l = "2" THEN 2 ELSE NaN]
\* In a column of numbers a date is no number; one more value stands for it.
MCSense == [f \in Fields |-> [l \in MCLiterals |->
    IF f = "p" THEN MCCollation[l] ELSE IF MCNumber[l] # NaN THEN MCNumber[l] ELSE 0]]

Atom(f, op, vals) == [k |-> "atom", field |-> f, op |-> op, vals |-> vals]
Not(t)            == [k |-> "NOT", kids |-> {t}]
Both(a, b)        == [k |-> "AND", kids |-> {a, b}]
Either(a, b)      == [k |-> "OR", kids |-> {a, b}]

Few ==
    {Atom("p", "EQ", <<D1>>), Atom("p", "GTE", <<D2>>), Atom("p", "EQ", <<DT>>),
     Atom("q", "IN", <<"1", "2">>), Atom("p", "NE", <<D1>>), Atom("OTHER", "EQ", <<"1">>)}

MCAtoms ==
    Few \cup
    {Atom("p", "BETWEEN", <<D1, D2>>), Atom("p", "LT", <<DT>>), Atom("p", "LT", <<D2>>),
     Atom("p", "GT", <<"01">>), Atom("q", "GT", <<"01">>), Atom("q", "LTE", <<"01">>),
     Atom("q", "EQ", <<RT>>), Atom("OPAQUE", "LIKE", <<"1">>)}

Pairs(as) == {Both(a, b) : a, b \in as} \cup {Either(a, b) : a, b \in as}

\* Predicates of up to three atoms.
MCTrees ==
    {NoTree} \cup MCAtoms \cup Pairs(MCAtoms) \cup {Not(a) : a \in Few \cup Pairs(Few)}
    \cup {Both(a, b) : a \in Few, b \in Pairs(Few) \cup {Not(c) : c \in Few}}
    \cup {Either(a, b) : a \in Few, b \in Pairs(Few) \cup {Not(c) : c \in Few}}

\* p = D1 OR p <> D1, alone and beside a condition on another column.
DropTrees ==
    LET all == Either(Atom("p", "EQ", <<D1>>), Atom("p", "NE", <<D1>>))
    IN  {all, Both(all, Atom("OTHER", "EQ", <<"1">>))}

Write(p, q, complete) == [part |-> [f \in Fields |-> IF f = "p" THEN p ELSE q],
                          complete |-> complete]

MCWrites == {Write(p, q, TRUE) : p \in {D1, D2, "1", DT, RT, STAR, MISSING},
                                 q \in {"1", "01", "2", RT}}

MCEdges == {{w} : w \in MCWrites \cup {Write(D1, "1", FALSE)}}
           \cup {{Write(D1, "1", TRUE), Write(D2, "2", TRUE)},
                 {Write(DT, "2", TRUE), Write(D2, "1", TRUE)}}

DropEdges == {{Write(p, "1", TRUE)} : p \in {D1, D2}}
=============================================================================
