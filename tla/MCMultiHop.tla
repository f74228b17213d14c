---------------------------- MODULE MCMultiHop ----------------------------
(***************************************************************************)
(* Model values for the TLC runs of MultiHop.  The root 1 has one READ     *)
(* that two producers match in every way and every choice of schedule      *)
(* parents, or one of some larger shapes; the other tasks have a few       *)
(* shapes each, in which diamonds, cycles and longer ways arise.           *)
(***************************************************************************)
EXTENDS MultiHop

Nothing         == [t \in Tasks |-> "none"]
One(t, m)       == [Nothing EXCEPT ![t] = m]
Two(t, m, u, n) == [One(t, m) EXCEPT ![u] = n]

Read(table, occs)      == [table |-> table, kind |-> "eligible", occs |-> occs]
Odd(table, kind, occs) == [table |-> table, kind |-> kind, occs |-> occs]
Pack(rs, ps)           == [available |-> TRUE, issues |-> FALSE, reads |-> rs, parents |-> ps]

Broken == [Pack(<<>>, {}) EXCEPT !.available = FALSE]
Leaf   == Pack(<<>>, {})
Issue  == [Leaf EXCEPT !.issues = TRUE]
From(t) == Pack(<<Read("a", <<One(t, "into")>>)>>, {})

\* One READ, every match of 2 and 3.
Wide ==
    {Pack(<<Read("a", <<Two(2, m, 3, n)>>)>>, ps) :
        m, n \in {"none", "disjoint", "unknown", "into", "over"}, ps \in SUBSET {2, 3}}

\* Two occurrences of a table, two tables, three producers, READs that end.
Deep ==
    {Pack(<<Read("a", <<Two(2, m, 3, n), Two(2, "over", 3, "over2")>>)>>, ps) :
        m, n \in {"disjoint", "unknown", "over1"}, ps \in {{}, {2}, {3}}}
    \cup {Pack(<<Read("a", <<One(2, "into")>>), Read("b", <<Two(3, "over", 4, n)>>)>>, ps) :
             n \in {"into", "over", "unknown"}, ps \in {{}, {2}, {3}, {2, 4}}}
    \cup {Pack(<<Odd("a", k, <<Two(2, "over", 3, "into")>>), Read("b", <<One(2, "into")>>)>>, ps) :
             k \in Kinds \ {"eligible"}, ps \in {{}, {2}, {3}}}
    \cup {Pack(<<Read("a", <<One(1, "over")>>)>>, ps) : ps \in {{}, {1}, {2}}}
    \cup {Broken, Leaf, Issue}

MCPacks ==
    <<Wide \cup Deep,
      {Leaf, Issue, From(1), From(3), From(4), From(5),
       Pack(<<Read("c", <<Two(3, "into", 4, "over")>>)>>, {4}),
       Pack(<<Read("c", <<Two(1, "into", 4, "into")>>), Read("d", <<One(5, "over")>>)>>, {4}),
       Pack(<<Read("a", <<Two(3, "over", 4, "over")>>)>>, {5}),
       Pack(<<Odd("c", "reference", <<>>)>>, {2, 5})},
      {Leaf, Broken, From(2), From(4), From(5), Pack(<<Read("c", <<One(1, "into")>>)>>, {4}),
       Pack(<<Read("a", <<Two(2, "over1", 5, "over2")>>)>>, {2, 5})},
      {Leaf, From(5), From(1), Pack(<<Odd("c", "blocked", <<One(3, "into")>>)>>, {2, 3})},
      {Leaf, From(2), Pack(<<Read("c", <<One(4, "unknown")>>)>>, {3})}>>

Limit(d, t, e) == [depth |-> d, tasks |-> t, edges |-> e]
MCLimits ==
    {Limit(9, 9, 99), Limit(2, 9, 99), Limit(1, 9, 99), Limit(9, 2, 99), Limit(9, 3, 99),
     Limit(9, 4, 99), Limit(9, 9, 2), Limit(9, 9, 3), Limit(9, 9, 4), Limit(1, 1, 2)}
=============================================================================
