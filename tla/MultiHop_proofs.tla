--------------------------- MODULE MultiHop_proofs ---------------------------
(***************************************************************************)
(* Theorems about MultiHop for any task graph, any packs and any limits:   *)
(* every safety property that the run checks, and that every step of the   *)
(* traversal goes down in a well-founded order.                            *)
(***************************************************************************)
EXTENDS MultiHop, FiniteSetTheorems, WellFoundedInduction, TLAPS

-----------------------------------------------------------------------------
(* The decisions of OneHop *)

HopRecords == [primary : SUBSET Tasks, recursive : SUBSET Tasks, overlapping : BOOLEAN]

\* What a task follows is among its primary producers, and both are tasks.
LEMMA ReconcileType ==
    ASSUME NEW occs, NEW parents \in SUBSET Tasks
    PROVE  /\ Reconcile(occs, parents) \in HopRecords
           /\ Reconcile(occs, parents).recursive \subseteq Reconcile(occs, parents).primary
<1> DEFINE S == UNION {DecisionPrimary(o, parents) :
                         o \in {p \in occs : Decision(p, parents) = "SCHEDULE_DATA_INTERSECTION"}}
           F == UNION {DecisionPrimary(o, parents) :
                         o \in {p \in occs : Decision(p, parents) = "DATA_FALLBACK"}}
<1>1. \A o : DecisionPrimary(o, parents) \subseteq Tasks
  BY DEF DecisionPrimary, ScheduledUsable, UsableIn
<1>2. UsableTasks(occs) \subseteq Tasks
  BY DEF UsableTasks, UsableIn
<1> QED
  BY <1>1, <1>2 DEF Reconcile, PrimaryBy, HopRecords

\* The overwrites of an occurrence that overlap and that the schedule does not
\* settle are in its unknown producers.
LEMMA UndecidedIsUnknown ==
    ASSUME NEW o, NEW parents \in SUBSET Tasks, NEW t \in Tasks,
           \/ o[t] = "unknown"
           \/ /\ \E u \in Tasks \ {t} : MayOverlap(o[t], o[u])
              /\ ~\E u \in parents : {v \in parents : o[v] \in Overwrites} = {u}
    PROVE  t \in DecisionUnknown(o, parents)
<1>1. CASE o[t] = "unknown"
  BY <1>1 DEF DecisionUnknown, Unmatched
<1>2. CASE /\ \E u \in Tasks \ {t} : MayOverlap(o[t], o[u])
           /\ ~\E u \in parents : {v \in parents : o[v] \in Overwrites} = {u}
  <2>1. PICK u \in Tasks \ {t} : MayOverlap(o[t], o[u])
    BY <1>2
  <2>2. t \in Overwriting(o)
    BY <2>1 DEF Overwriting, MayOverlap
  <2>3. Overwriting(o) \cap parents = {v \in parents : o[v] \in Overwrites}
    BY DEF Overwriting
  <2>4. IsFiniteSet(Overwriting(o) \cap parents)
    BY FS_Subset, MultiHopAssumption DEF Overwriting
  <2>5. Cardinality(Overwriting(o) \cap parents) # 1
    <3> SUFFICES ASSUME Cardinality(Overwriting(o) \cap parents) = 1 PROVE FALSE
      OBVIOUS
    <3>1. PICK x : Overwriting(o) \cap parents = {x}
      BY <2>4, FS_Singleton
    <3>2. x \in parents
      BY <3>1
    <3> QED
      BY <3>1, <3>2, <2>3, <1>2
  <2>6. Ambiguous(o, parents)
    BY <2>1, <2>5 DEF Ambiguous
  <2> QED
    BY <2>2, <2>6 DEF DecisionUnknown
<1> QED
  BY <1>1, <1>2

\* What a task follows is in the unknown producers of none of its occurrences.
LEMMA FollowedIsDecided ==
    ASSUME NEW occs, NEW parents \in SUBSET Tasks, NEW o \in occs
    PROVE  Reconcile(occs, parents).recursive \cap DecisionUnknown(o, parents) = {}
<1> DEFINE unknown == UNION {DecisionUnknown(p, parents) : p \in occs}
<1>1. DecisionUnknown(o, parents) \subseteq unknown
  OBVIOUS
<1>2. Reconcile(occs, parents).recursive \cap unknown = {}
  BY DEF Reconcile
<1> QED
  BY <1>1, <1>2

-----------------------------------------------------------------------------
(* Types *)

Tables  == STRING \cup {NONE}
Roles   == {"PRIMARY", "UNKNOWN", "CANDIDATE"}
Binding == [task : Tasks, occ : Nat, role : Roles]

Cursors == [task : Tasks \cup {NONE}, depth : Nat, reads : Seq(ReadRecords), table : Tables,
            binds : SUBSET Binding, parents : SUBSET Tasks]
Bridges == [consumer : Tasks, table : STRING, producer : Tasks, occ : Nat, depth : Nat,
            role : Roles]
Schedules == [consumer : Tasks, producer : Tasks, depth : Nat]
Entries   == [task : Tasks, depth : Nat]

TypeOK ==
    /\ packs \in [Tasks -> PackRecords \cup {NONE}]
    /\ nodes \in [Tasks -> NodeRecords \cup {NONE}]
    /\ hops \in [Tasks -> HopRecords \cup {NONE}]
    /\ frontier \subseteq Entries
    /\ reads \subseteq Tasks \X STRING /\ writes \subseteq Tasks \X STRING
    /\ bridges \subseteq Bridges
    /\ schedule \subseteq Schedules
    /\ adjacency \subseteq Tasks \X Tasks
    /\ \A x \in terminals : x.task \in Tasks
    /\ reason \in Reasons \cup {NONE}
    /\ stopped \in BOOLEAN
    /\ beside \subseteq Tasks
    /\ pc \in {"pop", "read", "bind", "schedule", "returned", "thrown"}
    /\ cur \in Cursors

\* While a node is expanded it is a node with a pack and the decision on it.
AtNode ==
    pc \in {"read", "bind", "schedule"} =>
        /\ Here \in Tasks
        /\ Has(Here) /\ nodes[Here].st \in {"EXPANDED", "TRUNCATED"}
        /\ packs[Here] # NONE
        /\ Hop = Reconcile(Occurrences(packs[Here]), packs[Here].parents)
        /\ pc = "bind" => cur.table \in STRING

QueuedHas == \A e \in frontier : Has(e.task)

TypeInv == TypeOK /\ AtNode /\ QueuedHas

LEMMA HopOfNode ==
    ASSUME TypeInv, pc \in {"read", "bind", "schedule"}
    PROVE  /\ Here \in Tasks /\ packs[Here] \in PackRecords
           /\ Hop \in HopRecords /\ Hop.recursive \subseteq Hop.primary
<1>1. /\ Here \in Tasks /\ packs[Here] \in PackRecords
  BY DEF TypeInv, TypeOK, AtNode
<1>2. packs[Here].parents \in SUBSET Tasks
  BY <1>1 DEF PackRecords
<1> QED
  BY <1>1, <1>2, ReconcileType DEF TypeInv, AtNode

LEMMA NextReadType ==
    ASSUME TypeInv, NEW r, NextRead(r)
    PROVE  /\ r \in ReadRecords /\ Tail(cur.reads) \in Seq(ReadRecords)
           /\ Bindings(r) \subseteq Binding
<1>1. cur.reads \in Seq(ReadRecords) /\ cur.reads # <<>>
  BY DEF TypeInv, TypeOK, Cursors, NextRead
<1>2. r \in ReadRecords /\ Tail(cur.reads) \in Seq(ReadRecords)
  BY <1>1 DEF NextRead
<1>3. DOMAIN r.occs \subseteq Nat
  BY <1>2 DEF ReadRecords
<1>4. \A o : Candidates(o) \subseteq Tasks
  BY DEF Candidates
<1>5. \A o, ps, t : Role(o, ps, t) \in Roles
  BY DEF Role, Roles
<1> QED
  BY <1>2, <1>3, <1>4, <1>5 DEF Bindings, Binding

\* What SetStatus and Discover do to the nodes.
LEMMA SetStatusType ==
    ASSUME TypeOK, NEW t \in Tasks, Has(t), NEW st \in Statuses, SetStatus(t, st)
    PROVE  /\ nodes' \in [Tasks -> NodeRecords \cup {NONE}]
           /\ \A u \in Tasks : Has(u)' = Has(u)
           /\ \A u \in Tasks : Has(u) => nodes'[u].depth = nodes[u].depth
           /\ \A u \in Tasks \ {t} : nodes'[u] = nodes[u]
           /\ nodes'[t].st = st
<1>1. nodes[t] \in NodeRecords /\ NONE \notin NodeRecords
  BY MultiHopAssumption DEF TypeOK, Has
<1>2. [nodes[t] EXCEPT !.st = st] \in NodeRecords
  BY <1>1 DEF NodeRecords
<1>3. nodes' = [nodes EXCEPT ![t] = [nodes[t] EXCEPT !.st = st]]
  BY DEF SetStatus
<1>4. nodes'[t] = [nodes[t] EXCEPT !.st = st]
  BY <1>3 DEF TypeOK
<1>5. nodes'[t].depth = nodes[t].depth /\ nodes'[t].st = st
  BY <1>1, <1>4 DEF NodeRecords
<1>6. nodes' \in [Tasks -> NodeRecords \cup {NONE}] /\ \A u \in Tasks \ {t} : nodes'[u] = nodes[u]
  BY <1>2, <1>3 DEF TypeOK
<1> QED
  BY <1>1, <1>2, <1>4, <1>5, <1>6 DEF Has

LEMMA DiscoverType ==
    ASSUME TypeOK, NEW t \in Tasks, NEW depth \in Nat, Discover(t, depth)
    PROVE  /\ nodes' \in [Tasks -> NodeRecords \cup {NONE}]
           /\ Has(t)'
           /\ \A u \in Tasks : Has(u) => nodes'[u] = nodes[u]
           /\ \A u \in Tasks : Has(u)' => Has(u) \/ u = t
           /\ ~Has(t) => nodes'[t] = [depth |-> depth, st |-> "TERMINAL"]
<1>1. [depth |-> depth, st |-> "TERMINAL"] \in NodeRecords /\ NONE \notin NodeRecords
  BY MultiHopAssumption DEF NodeRecords, Statuses
<1> QED
  BY <1>1 DEF TypeOK, Has, Discover

LEMMA InitType == Init => TypeInv
<1> SUFFICES ASSUME Init PROVE TypeInv
  OBVIOUS
<1>1. Idle \in Cursors
  BY DEF Idle, Cursors, Tables
<1>2. [depth |-> 0, st |-> "TERMINAL"] \in NodeRecords /\ NONE \notin NodeRecords
  BY MultiHopAssumption DEF NodeRecords, Statuses
<1>3. Root \in Tasks
  BY MultiHopAssumption
<1>4. frontier \subseteq Entries /\ QueuedHas
  BY <1>2, <1>3 DEF Init, Entries, QueuedHas, Has
<1> QED
  BY <1>1, <1>2, <1>3, <1>4 DEF Init, TypeInv, TypeOK, AtNode

\* The loops of a node are left for its schedule parents.
LEMMA ToScheduleType ==
    ASSUME TypeInv, pc \in {"read", "bind", "schedule"}, ToSchedule
    PROVE  cur' \in Cursors /\ Here' = Here /\ cur'.depth = cur.depth /\ pc' = "schedule"
<1>1. Hop.primary \cap packs[Here].parents \subseteq Tasks
  BY HopOfNode DEF HopRecords
<1>2. cur \in Cursors
  BY DEF TypeInv, TypeOK
<1>3. /\ cur' = [cur EXCEPT !.reads = <<>>, !.binds = {},
                           !.parents = Hop.primary \cap packs[Here].parents]
      /\ pc' = "schedule"
  BY DEF ToSchedule
<1>4. <<>> \in Seq(ReadRecords)
  OBVIOUS
<1> QED
  BY <1>1, <1>2, <1>3, <1>4 DEF Cursors, Here

\* A step inside a node keeps what is known of the node.
LEMMA AtNodeKept ==
    ASSUME TypeInv, pc \in {"read", "bind", "schedule"},
           Here' = Here, packs' = packs, hops' = hops,
           Has(Here)', nodes'[Here].st \in {"EXPANDED", "TRUNCATED"},
           pc' = "bind" => cur'.table \in STRING
    PROVE  AtNode'
  BY DEF TypeInv, AtNode, Hop, Here, Occurrences

LEMMA TypeStep ==
    ASSUME TypeInv, [Next]_vars
    PROVE  TypeInv'
<1> USE DEF graph
<1>1. ASSUME NEW e \in frontier, Pop(e) PROVE
        /\ e \in Entries /\ e.task \in Tasks /\ Has(e.task) /\ pc = "pop"
        /\ frontier' \subseteq frontier
  BY <1>1 DEF TypeInv, TypeOK, Entries, QueuedHas, Pop, Shift
<1>2. ASSUME NEW e \in frontier, NEW p \in Packs[e.task], Look(e, p) PROVE
        /\ p \in PackRecords /\ NONE \notin PackRecords
        /\ packs' \in [Tasks -> PackRecords \cup {NONE}] /\ packs'[e.task] = p
  BY <1>2, <1>1, MultiHopAssumption DEF TypeInv, TypeOK, Look
<1>3. ASSUME NEW e \in frontier, TooDeep(e) PROVE TypeInv'
  <2>1. SetStatus(e.task, "TERMINAL") /\ Pop(e)
    BY <1>3 DEF TooDeep
  <2>2. /\ nodes' \in [Tasks -> NodeRecords \cup {NONE}]
        /\ \A u \in Tasks : Has(u)' = Has(u)
    BY <2>1, <1>1, SetStatusType DEF TypeInv, Statuses
  <2>3. TypeOK'
    BY <1>3, <2>1, <2>2, <1>1 DEF TooDeep, TypeInv, TypeOK, Truncate, AddTerminal, Terminal, Reasons
  <2> QED
    BY <1>3, <2>1, <2>2, <2>3, <1>1 DEF TooDeep, TypeInv, TypeOK, AtNode, QueuedHas, Entries
<1>4. ASSUME NEW e \in frontier, NEW p \in Packs[e.task], Unavailable(e, p) PROVE TypeInv'
  <2>1. SetStatus(e.task, "TERMINAL") /\ Pop(e) /\ Look(e, p)
    BY <1>4 DEF Unavailable, Look
  <2>2. /\ nodes' \in [Tasks -> NodeRecords \cup {NONE}]
        /\ \A u \in Tasks : Has(u)' = Has(u)
    BY <2>1, <1>1, SetStatusType DEF TypeInv, Statuses
  <2>3. TypeOK'
    BY <1>4, <2>1, <2>2, <1>1, <1>2 DEF Unavailable, TypeInv, TypeOK, AddTerminal, Terminal
  <2> QED
    BY <1>4, <2>1, <2>2, <2>3, <1>1 DEF Unavailable, TypeInv, TypeOK, AtNode, QueuedHas, Entries
<1>5. ASSUME NEW e \in frontier, NEW p \in Packs[e.task], NoReads(e, p) PROVE TypeInv'
  <2>1. SetStatus(e.task, "TERMINAL") /\ Pop(e) /\ Look(e, p)
    BY <1>5 DEF NoReads, Look
  <2>2. /\ nodes' \in [Tasks -> NodeRecords \cup {NONE}]
        /\ \A u \in Tasks : Has(u)' = Has(u)
    BY <2>1, <1>1, SetStatusType DEF TypeInv, Statuses
  <2>3. p.parents \in SUBSET Tasks
    BY <2>1, <1>2 DEF PackRecords
  <2>4. hops' \in [Tasks -> HopRecords \cup {NONE}]
    BY <1>5, <2>3, ReconcileType DEF NoReads, TypeInv, TypeOK
  <2>5. TypeOK'
    BY <1>5, <2>1, <2>2, <2>4, <1>1, <1>2 DEF NoReads, TypeInv, TypeOK, AddTerminal, Terminal
  <2> QED
    BY <1>5, <2>1, <2>2, <2>5, <1>1 DEF NoReads, TypeInv, TypeOK, AtNode, QueuedHas, Entries
<1>6. ASSUME NEW e \in frontier, NEW p \in Packs[e.task], Expand(e, p) PROVE TypeInv'
  <2>1. SetStatus(e.task, "EXPANDED") /\ Pop(e) /\ Look(e, p)
    BY <1>6 DEF Expand, Look
  <2>2. /\ nodes' \in [Tasks -> NodeRecords \cup {NONE}]
        /\ \A u \in Tasks : Has(u)' = Has(u)
        /\ nodes'[e.task].st = "EXPANDED"
    BY <2>1, <1>1, SetStatusType DEF TypeInv, Statuses
  <2>3. p.parents \in SUBSET Tasks /\ p.reads \in Seq(ReadRecords) /\ p # NONE
    BY <2>1, <1>2 DEF PackRecords
  <2>4. /\ hops' \in [Tasks -> HopRecords \cup {NONE}]
        /\ hops'[e.task] = Reconcile(Occurrences(p), p.parents)
    BY <1>6, <2>1, <2>3, <1>1, ReconcileType DEF Expand, TypeInv, TypeOK
  <2>5. cur' \in Cursors /\ Here' = e.task
    BY <1>6, <2>1, <2>3, <1>1 DEF Expand, Idle, Cursors, Tables, Here, Entries
  <2>6. TypeOK'
    BY <1>6, <2>1, <2>2, <2>4, <2>5, <1>1, <1>2 DEF Expand, TypeInv, TypeOK, AddTerminal, Terminal
  <2>7. AtNode'
    <3>1. packs'[e.task] = p /\ pc' = "read" /\ e.task \in Tasks
      BY <1>6, <2>1, <1>1, <1>2 DEF Expand
    <3>2. Has(e.task)'
      BY <2>1, <2>2, <1>1
    <3> QED
      BY <2>2, <2>3, <2>4, <2>5, <3>1, <3>2 DEF AtNode, Has, Hop, Here, Occurrences
  <2> QED
    BY <2>1, <2>2, <2>6, <2>7, <1>1 DEF TypeInv, TypeOK, QueuedHas, Entries
<1>7. CASE EndOfReads
  <2>1. pc = "read" /\ ToSchedule
    BY <1>7 DEF EndOfReads
  <2>2. cur' \in Cursors /\ Here' = Here /\ pc' = "schedule"
    BY <2>1, ToScheduleType
  <2>3. TypeOK'
    BY <1>7, <2>2 DEF EndOfReads, TypeInv, TypeOK
  <2>4. AtNode'
    BY <1>7, <2>1, <2>2, AtNodeKept DEF EndOfReads, Has, TypeInv, AtNode
  <2> QED
    BY <1>7, <2>3, <2>4 DEF EndOfReads, TypeInv, QueuedHas, Has
<1>8. ASSUME NEW t \in Tasks, NEW x, NEW why \in Reasons, x.task \in Tasks,
             pc \in {"read", "bind"}, SetStatus(Here, "TRUNCATED"), Truncate(why, x, TRUE),
             ToSchedule, UNCHANGED <<limits, packs, hops, frontier, graph, adjacency, beside>>
      PROVE TypeInv'
  <2>1. Here \in Tasks /\ Has(Here)
    BY <1>8 DEF TypeInv, AtNode
  <2>2. /\ nodes' \in [Tasks -> NodeRecords \cup {NONE}]
        /\ \A u \in Tasks : Has(u)' = Has(u)
        /\ nodes'[Here].st = "TRUNCATED"
    BY <1>8, <2>1, SetStatusType DEF TypeInv, Statuses
  <2>3. cur' \in Cursors /\ Here' = Here /\ pc' = "schedule"
    BY <1>8, ToScheduleType
  <2>4. TypeOK'
    BY <1>8, <2>2, <2>3 DEF TypeInv, TypeOK, Truncate, AddTerminal
  <2>5. AtNode'
    BY <1>8, <2>1, <2>2, <2>3, AtNodeKept
  <2> QED
    BY <1>8, <2>2, <2>4, <2>5 DEF TypeInv, TypeOK, QueuedHas, Entries
<1>9. ASSUME NEW r, ReadRefused(r) PROVE TypeInv'
  <2>1. /\ pc = "read" /\ SetStatus(Here, "TRUNCATED") /\ ToSchedule
        /\ Truncate("MAX_EDGES_REACHED",
                    Terminal(Here, cur.depth, "MAX_EDGES_REACHED", r.table, NONE), TRUE)
        /\ UNCHANGED <<limits, packs, hops, frontier, graph, adjacency, beside>>
    BY <1>9 DEF ReadRefused, NextRead
  <2>2. Terminal(Here, cur.depth, "MAX_EDGES_REACHED", r.table, NONE).task \in Tasks
    BY <2>1 DEF Terminal, TypeInv, AtNode
  <2> QED
    BY <2>1, <2>2, <1>8 DEF Reasons, TypeInv, AtNode
<1>10. ASSUME NEW r, ReadEnds(r) PROVE TypeInv'
  <2>1. /\ pc = "read" /\ pc' = "read" /\ Here \in Tasks /\ r \in ReadRecords
        /\ Tail(cur.reads) \in Seq(ReadRecords)
    BY <1>10, NextReadType DEF ReadEnds, Recorded, NextRead, TypeInv, AtNode
  <2>2. cur' \in Cursors /\ Here' = Here
    BY <1>10, <2>1 DEF ReadEnds, TypeInv, TypeOK, Cursors, Here
  <2>3. reads' \subseteq Tasks \X STRING
    BY <1>10, <2>1 DEF ReadEnds, Recorded, TypeInv, TypeOK, ReadRecords
  <2>4. TypeOK'
    BY <1>10, <2>1, <2>2, <2>3 DEF ReadEnds, Recorded, TypeInv, TypeOK, AddTerminal, Terminal
  <2>5. AtNode'
    BY <1>10, <2>1, <2>2, AtNodeKept DEF ReadEnds, Recorded, Has, TypeInv, AtNode
  <2> QED
    BY <1>10, <2>4, <2>5 DEF ReadEnds, Recorded, TypeInv, QueuedHas, Has
<1>11. ASSUME NEW r, ReadBinds(r) PROVE TypeInv'
  <2>1. /\ pc = "read" /\ pc' = "bind" /\ Here \in Tasks /\ r \in ReadRecords
        /\ Tail(cur.reads) \in Seq(ReadRecords) /\ Bindings(r) \subseteq Binding
    BY <1>11, NextReadType DEF ReadBinds, Recorded, NextRead, TypeInv, AtNode
  <2>2. cur' \in Cursors /\ Here' = Here /\ cur'.table \in STRING
    BY <1>11, <2>1 DEF ReadBinds, TypeInv, TypeOK, Cursors, Tables, Here, ReadRecords
  <2>3. reads' \subseteq Tasks \X STRING
    BY <1>11, <2>1 DEF ReadBinds, Recorded, TypeInv, TypeOK, ReadRecords
  <2>4. TypeOK'
    BY <1>11, <2>1, <2>2, <2>3 DEF ReadBinds, Recorded, TypeInv, TypeOK, AddTerminal, Terminal
  <2>5. AtNode'
    BY <1>11, <2>1, <2>2, AtNodeKept DEF ReadBinds, Recorded, Has, TypeInv, AtNode
  <2> QED
    BY <1>11, <2>4, <2>5 DEF ReadBinds, Recorded, TypeInv, QueuedHas, Has
<1>12. CASE EndOfBinds
  <2>1. pc = "bind" /\ pc' = "read"
    BY <1>12 DEF EndOfBinds
  <2>2. TypeOK'
    BY <1>12 DEF EndOfBinds, TypeInv, TypeOK
  <2>3. AtNode'
    BY <1>12, <2>1, AtNodeKept DEF EndOfBinds, Has, Here, TypeInv, AtNode
  <2> QED
    BY <1>12, <2>2, <2>3 DEF EndOfBinds, TypeInv, QueuedHas, Has
<1>13. ASSUME NEW b \in cur.binds, BindRefused(b) PROVE TypeInv'
  <2>1. PICK why \in Reasons :
           /\ pc = "bind" /\ SetStatus(Here, "TRUNCATED") /\ ToSchedule
           /\ Truncate(why, Terminal(b.task, Below, why, cur.table, Here), TRUE)
           /\ UNCHANGED <<limits, packs, hops, frontier, graph, adjacency, beside>>
    BY <1>13 DEF BindRefused, NextBind, Reasons
  <2>2. b.task \in Tasks
    BY DEF TypeInv, TypeOK, Cursors, Binding
  <2>3. Terminal(b.task, Below, why, cur.table, Here).task \in Tasks
    BY <2>2 DEF Terminal
  <2> QED
    BY <2>1, <2>2, <2>3, <1>8
<1>14. ASSUME NEW b \in cur.binds, Bound(b) PROVE
         /\ pc = "bind" /\ b \in Binding /\ Here \in Tasks /\ Has(Here) /\ Below \in Nat
         /\ b.task \in Tasks /\ cur.table \in STRING
         /\ nodes' \in [Tasks -> NodeRecords \cup {NONE}]
         /\ Has(b.task)' /\ \A u \in Tasks : Has(u) => Has(u)' /\ nodes'[u] = nodes[u]
         /\ cur' \in Cursors /\ Here' = Here
         /\ writes' \subseteq Tasks \X STRING /\ bridges' \subseteq Bridges
         /\ AtNode'
  <2>1. pc = "bind" /\ b \in Binding /\ Here \in Tasks /\ Has(Here) /\ cur \in Cursors
        /\ cur.table \in STRING
    BY <1>14 DEF Bound, NextBind, TypeInv, TypeOK, AtNode, Cursors
  <2>2. Below \in Nat /\ b.task \in Tasks
    BY <2>1 DEF Below, Cursors, Binding
  <2>3. Discover(b.task, Below)
    BY <1>14 DEF Bound
  <2>4. /\ nodes' \in [Tasks -> NodeRecords \cup {NONE}]
        /\ Has(b.task)' /\ \A u \in Tasks : Has(u) => nodes'[u] = nodes[u]
    BY <2>2, <2>3, DiscoverType DEF TypeInv
  <2>5. cur' \in Cursors /\ Here' = Here
    BY <1>14, <2>1 DEF Bound, Cursors, Here
  <2>6. writes' \subseteq Tasks \X STRING
    BY <1>14, <2>1, <2>2 DEF Bound, RecordWrite, TypeInv, TypeOK
  <2>7. Bridge(b) \in Bridges
    BY <2>1, <2>2 DEF Bridge, Bridges, Binding
  <2>8. bridges' \subseteq Bridges
    BY <1>14, <2>7 DEF Bound, TypeInv, TypeOK
  <2>9. \A u \in Tasks : Has(u) => Has(u)' /\ nodes'[u] = nodes[u]
    BY <2>4 DEF Has
  <2>10. cur'.table = cur.table /\ pc' = pc /\ packs' = packs /\ hops' = hops
    BY <1>14, <2>1 DEF Bound, Cursors
  <2>11. AtNode'
    BY <2>1, <2>5, <2>9, <2>10, AtNodeKept DEF TypeInv, AtNode
  <2> QED
    BY <2>1, <2>2, <2>4, <2>5, <2>6, <2>8, <2>9, <2>11
<1>15. ASSUME NEW b \in cur.binds, BindBeside(b) PROVE TypeInv'
  <2>1. Bound(b)
    BY <1>15 DEF BindBeside
  <2>2. TypeOK'
    BY <1>15, <2>1, <1>14 DEF BindBeside, Bound, TypeInv, TypeOK
  <2> QED
    BY <1>15, <2>1, <2>2, <1>14 DEF BindBeside, TypeInv, TypeOK, QueuedHas, Entries
<1>16. ASSUME NEW b \in cur.binds, BindPrimary(b) PROVE TypeInv'
  <2>1. Bound(b)
    BY <1>16 DEF BindPrimary
  <2>2. /\ adjacency' \subseteq Tasks \X Tasks
        /\ frontier' \subseteq frontier \cup {[task |-> b.task, depth |-> Below]}
        /\ \A x \in terminals' : x.task \in Tasks
    BY <1>16, <2>1, <1>14 DEF BindPrimary, Note, Push, AddTerminal, Terminal, TypeInv, TypeOK
  <2>3. frontier' \subseteq Entries
    BY <2>1, <2>2, <1>14 DEF Entries, TypeInv, TypeOK
  <2>4. TypeOK'
    BY <1>16, <2>1, <2>2, <2>3, <1>14 DEF BindPrimary, Bound, TypeInv, TypeOK
  <2>5. QueuedHas'
    BY <2>1, <2>2, <1>14 DEF TypeInv, TypeOK, QueuedHas, Entries
  <2> QED
    BY <2>1, <2>4, <2>5, <1>14 DEF TypeInv
<1>17. CASE EndOfParents
  <2>1. cur' \in Cursors /\ pc' = "pop"
    BY <1>17 DEF EndOfParents, Idle, Cursors, Tables
  <2>2. TypeOK'
    BY <1>17, <2>1 DEF EndOfParents, TypeInv, TypeOK
  <2> QED
    BY <1>17, <2>1, <2>2 DEF EndOfParents, TypeInv, AtNode, QueuedHas, Has
<1>18. ASSUME NEW t \in cur.parents, Parent(t) PROVE
         /\ pc = "schedule" /\ t \in Tasks /\ Here \in Tasks /\ Has(Here) /\ Below \in Nat
         /\ cur \in Cursors
         /\ schedule' \subseteq Schedules /\ adjacency' \subseteq Tasks \X Tasks
  <2>1. pc = "schedule" /\ t \in Tasks /\ Here \in Tasks /\ Has(Here) /\ cur \in Cursors
    BY <1>18 DEF Parent, NextParent, TypeInv, TypeOK, AtNode, Cursors
  <2>2. Below \in Nat
    BY <2>1 DEF Below, Cursors
  <2> QED
    BY <1>18, <2>1, <2>2 DEF Parent, TypeInv, TypeOK, Schedules
<1>19. ASSUME NEW t \in cur.parents, ParentKnown(t) PROVE TypeInv'
  <2>1. Parent(t) /\ pc' = pc
    BY <1>19 DEF ParentKnown
  <2>2. cur' \in Cursors /\ Here' = Here
    BY <1>19, <2>1, <1>18 DEF ParentKnown, Cursors, Here
  <2>3. \A x \in terminals' : x.task \in Tasks
    BY <1>19, <2>1, <1>18 DEF ParentKnown, Note, AddTerminal, Terminal, TypeInv, TypeOK
  <2>4. TypeOK'
    BY <1>19, <2>1, <2>2, <2>3, <1>18 DEF ParentKnown, Parent, Note, TypeInv, TypeOK
  <2>5. AtNode'
    BY <1>19, <2>1, <2>2, <1>18, AtNodeKept DEF ParentKnown, Parent, Has, TypeInv, AtNode
  <2> QED
    BY <1>19, <2>4, <2>5 DEF ParentKnown, Note, TypeInv, QueuedHas, Has
<1>20. ASSUME NEW t \in cur.parents, ParentRefused(t) PROVE TypeInv'
  <2>1. Parent(t) /\ pc' = pc /\ SetStatus(Here, "TRUNCATED") /\ frontier' = frontier
    BY <1>20 DEF ParentRefused
  <2>2. cur' \in Cursors /\ Here' = Here
    BY <1>20, <2>1, <1>18 DEF ParentRefused, Cursors, Here
  <2>3. /\ \A x \in terminals' : x.task \in Tasks
        /\ reason' \in Reasons \cup {NONE} /\ stopped' \in BOOLEAN
    BY <1>20, <2>1, <1>18
       DEF ParentRefused, Truncate, AddTerminal, Terminal, TypeInv, TypeOK, Reasons
  <2>4. /\ nodes' \in [Tasks -> NodeRecords \cup {NONE}]
        /\ \A u \in Tasks : Has(u)' = Has(u)
        /\ nodes'[Here].st = "TRUNCATED"
    BY <2>1, <1>18, SetStatusType DEF TypeInv, Statuses
  <2>5. TypeOK'
    BY <1>20, <2>1, <2>2, <2>3, <2>4, <1>18 DEF ParentRefused, Parent, TypeInv, TypeOK
  <2>6. AtNode'
    BY <1>20, <2>1, <2>2, <2>4, <1>18, AtNodeKept DEF Parent
  <2> QED
    BY <2>1, <2>4, <2>5, <2>6 DEF TypeInv, TypeOK, QueuedHas, Entries
<1>21. ASSUME NEW t \in cur.parents, ParentFollowed(t) PROVE TypeInv'
  <2>1. Parent(t) /\ pc' = pc /\ Discover(t, Below)
    BY <1>21 DEF ParentFollowed
  <2>2. cur' \in Cursors /\ Here' = Here
    BY <1>21, <2>1, <1>18 DEF ParentFollowed, Cursors, Here
  <2>3. /\ nodes' \in [Tasks -> NodeRecords \cup {NONE}]
        /\ Has(t)' /\ \A u \in Tasks : Has(u) => nodes'[u] = nodes[u]
    BY <2>1, <1>18, DiscoverType DEF TypeInv
  <2>4. \A u \in Tasks : Has(u) => Has(u)'
    BY <2>3 DEF Has
  <2>5. /\ frontier' \subseteq frontier \cup {[task |-> t, depth |-> Below]}
        /\ beside' \subseteq Tasks
    BY <1>21, <2>1, <1>18 DEF ParentFollowed, Push, TypeInv, TypeOK
  <2>6. frontier' \subseteq Entries
    BY <2>1, <2>5, <1>18 DEF Entries, TypeInv, TypeOK
  <2>7. TypeOK'
    BY <1>21, <2>1, <2>2, <2>3, <2>5, <2>6, <1>18 DEF ParentFollowed, Parent, TypeInv, TypeOK
  <2>8. AtNode'
    BY <2>1, <2>2, <2>3, <2>4, <1>18, AtNodeKept DEF Parent, TypeInv, AtNode
  <2>9. QueuedHas'
    BY <2>1, <2>3, <2>4, <2>5, <1>18 DEF TypeInv, TypeOK, QueuedHas, Entries
  <2> QED
    BY <2>7, <2>8, <2>9 DEF TypeInv
<1>22. CASE Finish
  <2>1. \A t \in Tasks : nodes'[t] \in NodeRecords \cup {NONE} /\ (Has(t) => Has(t)')
    <3> SUFFICES ASSUME NEW t \in Tasks
                 PROVE  nodes'[t] \in NodeRecords \cup {NONE} /\ (Has(t) => Has(t)')
      OBVIOUS
    <3>1. CASE stopped /\ Queued(t) /\ ~Expanded(t)
      <4>1. nodes[t] \in NodeRecords
        BY <3>1 DEF TypeInv, TypeOK, QueuedHas, Queued, Has
      <4>2. nodes'[t] = [nodes[t] EXCEPT !.st = "TRUNCATED"]
        BY <1>22, <3>1 DEF Finish
      <4> QED
        BY <4>1, <4>2, MultiHopAssumption DEF NodeRecords, Statuses, Has
    <3>2. CASE ~(stopped /\ Queued(t) /\ ~Expanded(t))
      <4>1. nodes'[t] = nodes[t]
        BY <1>22, <3>2 DEF Finish
      <4> QED
        BY <4>1 DEF TypeInv, TypeOK, Has
    <3> QED
      BY <3>1, <3>2
  <2>2. nodes' \in [Tasks -> NodeRecords \cup {NONE}]
    BY <1>22, <2>1 DEF Finish
  <2>3. TypeOK' /\ AtNode'
    BY <1>22, <2>2 DEF Finish, TypeInv, TypeOK, AtNode
  <2> QED
    BY <1>22, <2>1, <2>3 DEF Finish, TypeInv, TypeOK, QueuedHas, Entries
<1>23. CASE UNCHANGED vars
  BY <1>23 DEF vars, TypeInv, TypeOK, AtNode, QueuedHas, Has, Hop, Here, Occurrences
<1> QED
  BY <1>3, <1>4, <1>5, <1>6, <1>7, <1>9, <1>10, <1>11, <1>12, <1>13, <1>15, <1>16, <1>17, <1>19,
     <1>20, <1>21, <1>22, <1>23 DEF Next, Visit, ReadStep, BindStep, ScheduleStep

\* The state of the traversal has its types; while a node is expanded it has a
\* pack and the decision that was made on it; what is queued has a node.
THEOREM MultiHopTypeCorrect == Spec => []TypeInv
  BY InitType, TypeStep, PTL DEF Spec

-----------------------------------------------------------------------------
(* What a step does *)

\* Nothing that is recorded is taken back, a node keeps its depth and a pack
\* that was looked at stays what it was.
LEMMA StepKeeps ==
    ASSUME TypeInv, [Next]_vars
    PROVE  /\ \A u \in Tasks : Has(u) => Has(u)' /\ nodes'[u].depth = nodes[u].depth
           /\ \A u \in Tasks : packs[u] # NONE => packs'[u] = packs[u]
           /\ reads \subseteq reads' /\ writes \subseteq writes' /\ bridges \subseteq bridges'
           /\ schedule \subseteq schedule' /\ adjacency \subseteq adjacency'
           /\ terminals \subseteq terminals'
<1> DEFINE Kept == /\ \A u \in Tasks : Has(u) => Has(u)' /\ nodes'[u].depth = nodes[u].depth
                   /\ \A u \in Tasks : packs[u] # NONE => packs'[u] = packs[u]
                   /\ reads \subseteq reads' /\ writes \subseteq writes' /\ bridges \subseteq bridges'
                   /\ schedule \subseteq schedule' /\ adjacency \subseteq adjacency'
                   /\ terminals \subseteq terminals'
           NodesKept == \A u \in Tasks : Has(u) => Has(u)' /\ nodes'[u].depth = nodes[u].depth
<1> USE DEF graph
<1>1. ASSUME NEW t \in Tasks, Has(t), NEW st \in Statuses, SetStatus(t, st) PROVE NodesKept
  BY <1>1, SetStatusType DEF TypeInv
<1>2. ASSUME NEW t \in Tasks, NEW d \in Nat, Discover(t, d) PROVE NodesKept
  BY <1>2, DiscoverType DEF TypeInv, Has
<1>3. ASSUME nodes' = nodes PROVE NodesKept
  BY <1>3 DEF Has
<1>4. ASSUME NEW e \in frontier PROVE e.task \in Tasks /\ Has(e.task)
  BY DEF TypeInv, TypeOK, Entries, QueuedHas
<1>5. pc \in {"read", "bind", "schedule"} => Here \in Tasks /\ Has(Here) /\ Below \in Nat
  BY DEF TypeInv, TypeOK, AtNode, Below, Cursors
<1>6. ASSUME NEW e \in frontier, NEW p, Look(e, p)
      PROVE  \A u \in Tasks : packs[u] # NONE => packs'[u] = packs[u]
  BY <1>6, <1>4 DEF Look, TypeInv, TypeOK
<1>7. CASE Visit
  <2>1. PICK e \in frontier : \/ TooDeep(e)
                              \/ \E p \in Packs[e.task] : Unavailable(e, p) \/ NoReads(e, p) \/ Expand(e, p)
    BY <1>7 DEF Visit
  <2>2. \E st \in Statuses : SetStatus(e.task, st)
    BY <2>1 DEF TooDeep, Unavailable, NoReads, Expand, Statuses
  <2>3. NodesKept
    BY <2>2, <1>1, <1>4
  <2>4. \A u \in Tasks : packs[u] # NONE => packs'[u] = packs[u]
    BY <2>1, <1>6 DEF TooDeep, Unavailable, NoReads, Expand
  <2> QED
    BY <2>1, <2>3, <2>4 DEF TooDeep, Unavailable, NoReads, Expand, Truncate, AddTerminal
<1>8. CASE ReadStep
  <2>1. CASE EndOfReads
    BY <2>1, <1>3 DEF EndOfReads
  <2>2. ASSUME NEW r, ReadRefused(r) PROVE Kept
    BY <2>2, <1>1, <1>5 DEF ReadRefused, NextRead, Statuses, Truncate, AddTerminal
  <2>3. ASSUME NEW r, ReadEnds(r) \/ ReadBinds(r) PROVE Kept
    BY <2>3, <1>3 DEF ReadEnds, ReadBinds, Recorded, AddTerminal
  <2> QED
    BY <1>8, <2>1, <2>2, <2>3 DEF ReadStep
<1>9. CASE BindStep
  <2>1. CASE EndOfBinds
    BY <2>1, <1>3 DEF EndOfBinds
  <2>2. ASSUME NEW b \in cur.binds, BindRefused(b) PROVE Kept
    BY <2>2, <1>1, <1>5 DEF BindRefused, NextBind, Statuses, Truncate, AddTerminal
  <2>3. ASSUME NEW b \in cur.binds, BindBeside(b) \/ BindPrimary(b) PROVE Kept
    <3>1. b.task \in Tasks /\ pc = "bind" /\ Discover(b.task, Below)
      BY <2>3 DEF BindBeside, BindPrimary, Bound, NextBind, TypeInv, TypeOK, Cursors, Binding
    <3>2. NodesKept
      BY <3>1, <1>2, <1>5
    <3> QED
      BY <2>3, <3>2 DEF BindBeside, BindPrimary, Bound, RecordWrite, Note, AddTerminal
  <2> QED
    BY <1>9, <2>1, <2>2, <2>3 DEF BindStep
<1>10. CASE ScheduleStep
  <2>1. CASE EndOfParents
    BY <2>1, <1>3 DEF EndOfParents
  <2>2. ASSUME NEW t \in cur.parents, ParentKnown(t) PROVE Kept
    BY <2>2, <1>3 DEF ParentKnown, Parent, Note, AddTerminal
  <2>3. ASSUME NEW t \in cur.parents, ParentRefused(t) PROVE Kept
    BY <2>3, <1>1, <1>5 DEF ParentRefused, Parent, NextParent, Statuses, Truncate, AddTerminal
  <2>4. ASSUME NEW t \in cur.parents, ParentFollowed(t) PROVE Kept
    <3>1. t \in Tasks /\ pc = "schedule" /\ Discover(t, Below)
      BY <2>4 DEF ParentFollowed, Parent, NextParent, TypeInv, TypeOK, Cursors
    <3>2. NodesKept
      BY <3>1, <1>2, <1>5
    <3> QED
      BY <2>4, <3>2 DEF ParentFollowed, Parent
  <2> QED
    BY <1>10, <2>1, <2>2, <2>3, <2>4 DEF ScheduleStep
<1>11. CASE Finish
  <2>1. NodesKept
    <3> SUFFICES ASSUME NEW t \in Tasks, Has(t) PROVE Has(t)' /\ nodes'[t].depth = nodes[t].depth
      OBVIOUS
    <3>1. nodes[t] \in NodeRecords /\ NONE \notin NodeRecords
      BY MultiHopAssumption DEF Has, TypeInv, TypeOK
    <3>2. [nodes[t] EXCEPT !.st = "TRUNCATED"] \in NodeRecords
          /\ [nodes[t] EXCEPT !.st = "TRUNCATED"].depth = nodes[t].depth
      BY <3>1 DEF NodeRecords, Statuses
    <3>3. nodes'[t] \in {nodes[t], [nodes[t] EXCEPT !.st = "TRUNCATED"]}
      BY <1>11 DEF Finish
    <3> QED
      BY <3>1, <3>2, <3>3 DEF Has
  <2> QED
    BY <1>11, <2>1 DEF Finish
<1>12. CASE UNCHANGED vars
  BY <1>12, <1>3 DEF vars
<1> QED
  BY <1>7, <1>8, <1>9, <1>10, <1>11, <1>12 DEF Next

Handled(t) == ParentKnown(t) \/ ParentRefused(t) \/ ParentFollowed(t)

Tied(b) == Bound(b) /\ (IsPrimary(b) => BindPrimary(b)) /\ (IsPrimary(b) \/ BindBeside(b))

LEMMA HandledIsParent == ASSUME NEW t, Handled(t) PROVE Parent(t)
  BY DEF Handled, ParentKnown, ParentRefused, ParentFollowed

\* Where the recorded graph and the frontier grow.
LEMMA StepAdds ==
    ASSUME [Next]_vars
    PROVE  /\ bridges' = bridges \/ \E b \in cur.binds : Tied(b)
           /\ schedule' = schedule \/ \E t \in cur.parents : Handled(t)
           /\ \/ adjacency' = adjacency
              \/ \E b \in cur.binds : BindPrimary(b)
              \/ \E t \in cur.parents : Handled(t) /\ Recurses(t)
           /\ \/ frontier' \subseteq frontier
              \/ \E b \in cur.binds : BindPrimary(b)
              \/ \E t \in cur.parents : ParentFollowed(t) /\ Recurses(t)
<1> USE DEF graph
<1>1. CASE Visit
  BY ZenonT(60), <1>1 DEF Visit, TooDeep, Unavailable, NoReads, Expand, Look, Pop, Shift
<1>2. CASE ReadStep
  BY <1>2 DEF ReadStep, EndOfReads, ReadRefused, ReadEnds, ReadBinds, Recorded
<1>3. CASE BindStep
  BY <1>3 DEF BindStep, EndOfBinds, BindRefused, BindBeside, BindPrimary, Bound, Tied
<1>4. CASE ScheduleStep
  BY <1>4 DEF ScheduleStep, Handled, EndOfParents, ParentKnown, ParentRefused, ParentFollowed,
              Parent, Note
<1>5. CASE Finish \/ UNCHANGED vars
  BY <1>5 DEF Finish, vars
<1> QED
  BY <1>1, <1>2, <1>3, <1>4, <1>5 DEF Next

-----------------------------------------------------------------------------
(* What is expanded *)

\* Which steps expand a node: the one that takes it from the frontier.
LEMMA ExpandedBy ==
    ASSUME TypeInv, [Next]_vars, NEW u \in Tasks, Expanded(u)'
    PROVE  \/ Expanded(u)
           \/ \E e \in frontier : /\ e.task = u /\ frontier' = frontier \ {e}
                                  /\ \E p \in Packs[e.task] : Expand(e, p)
<1> USE DEF graph
<1>1. ASSUME NEW t \in Tasks, Has(t), NEW st \in Statuses \ {"EXPANDED"}, SetStatus(t, st)
      PROVE  Expanded(u)
  BY <1>1, SetStatusType DEF TypeInv, Expanded, Has
<1>2. ASSUME NEW t \in Tasks, NEW d \in Nat, Discover(t, d) PROVE Expanded(u)
  <2>1. CASE Has(u)
    BY <2>1, <1>2, DiscoverType DEF TypeInv, Expanded, Has
  <2>2. CASE ~Has(u)
    <3>1. u = t /\ nodes'[t] = [depth |-> d, st |-> "TERMINAL"]
      BY <2>2, <1>2, DiscoverType DEF TypeInv, Expanded
    <3> QED
      BY <3>1 DEF Expanded
  <2> QED
    BY <2>1, <2>2
<1>3. ASSUME nodes' = nodes PROVE Expanded(u)
  BY <1>3 DEF Expanded, Has
<1>4. ASSUME NEW e \in frontier PROVE e.task \in Tasks /\ Has(e.task)
  BY DEF TypeInv, TypeOK, Entries, QueuedHas
<1>5. pc \in {"read", "bind", "schedule"} => Here \in Tasks /\ Has(Here) /\ Below \in Nat
  BY DEF TypeInv, TypeOK, AtNode, Below, Cursors
<1>6. ASSUME NEW e \in frontier, NEW p,
             TooDeep(e) \/ Unavailable(e, p) \/ NoReads(e, p) PROVE Expanded(u)
  <2>1. SetStatus(e.task, "TERMINAL")
    BY <1>6 DEF TooDeep, Unavailable, NoReads
  <2> QED
    BY <2>1, <1>1, <1>4 DEF Statuses
<1>7. ASSUME NEW e \in frontier, NEW p, Expand(e, p)
      PROVE  Expanded(u) \/ (e.task = u /\ frontier' = frontier \ {e})
  <2>1. SetStatus(e.task, "EXPANDED") /\ frontier' = frontier \ {e}
    BY <1>7 DEF Expand, Look, Pop, Shift
  <2>2. e.task # u => nodes'[u] = nodes[u]
    BY <2>1, <1>4, SetStatusType DEF TypeInv, Statuses
  <2> QED
    BY <2>1, <2>2 DEF Expanded, Has
<1>8. CASE Visit
  BY <1>8, <1>6, <1>7 DEF Visit
<1>9. CASE ReadStep
  <2>1. ASSUME NEW r, ReadRefused(r) PROVE Expanded(u)
    BY <2>1, <1>1, <1>5 DEF ReadRefused, NextRead, Statuses
  <2> QED
    BY <1>9, <2>1, <1>3 DEF ReadStep, EndOfReads, ReadEnds, ReadBinds, Recorded
<1>10. CASE BindStep
  <2>1. ASSUME NEW b, BindRefused(b) PROVE Expanded(u)
    BY <2>1, <1>1, <1>5 DEF BindRefused, NextBind, Statuses
  <2>2. ASSUME NEW b \in cur.binds, Bound(b) PROVE Expanded(u)
    <3>1. b.task \in Tasks /\ pc = "bind" /\ Discover(b.task, Below)
      BY <2>2 DEF Bound, NextBind, TypeInv, TypeOK, Cursors, Binding
    <3> QED
      BY <3>1, <1>2, <1>5
  <2> QED
    BY <1>10, <2>1, <2>2, <1>3 DEF BindStep, EndOfBinds, BindBeside, BindPrimary
<1>11. CASE ScheduleStep
  <2>1. ASSUME NEW t, ParentRefused(t) PROVE Expanded(u)
    BY <2>1, <1>1, <1>5 DEF ParentRefused, Parent, NextParent, Statuses
  <2>2. ASSUME NEW t \in cur.parents, ParentFollowed(t) PROVE Expanded(u)
    <3>1. t \in Tasks /\ pc = "schedule" /\ Discover(t, Below)
      BY <2>2 DEF ParentFollowed, Parent, NextParent, TypeInv, TypeOK, Cursors
    <3> QED
      BY <3>1, <1>2, <1>5
  <2> QED
    BY <1>11, <2>1, <2>2, <1>3 DEF ScheduleStep, EndOfParents, ParentKnown
<1>12. CASE Finish
  <2>1. CASE stopped /\ Queued(u) /\ ~Expanded(u)
    <3>1. nodes[u] \in NodeRecords /\ nodes'[u] = [nodes[u] EXCEPT !.st = "TRUNCATED"]
      BY <1>12, <2>1 DEF Finish, TypeInv, TypeOK, QueuedHas, Queued, Has
    <3>2. nodes'[u].st = "TRUNCATED"
      BY <3>1 DEF NodeRecords
    <3> QED
      BY <3>2 DEF Expanded
  <2>2. CASE ~(stopped /\ Queued(u) /\ ~Expanded(u))
    BY <1>12, <2>2 DEF Finish, Expanded, Has
  <2> QED
    BY <2>1, <2>2
<1>13. CASE UNCHANGED vars
  BY <1>13, <1>3 DEF vars
<1> QED
  BY <1>8, <1>9, <1>10, <1>11, <1>12, <1>13 DEF Next

LEMMA PendingStep ==
    ASSUME TypeInv, FrontierIsPending, [Next]_vars
    PROVE  FrontierIsPending'
<1> DEFINE Quiet(u) == Expanded(u)' => Expanded(u)
<1>1. frontier \subseteq Entries
  BY DEF TypeInv, TypeOK
<1>2. CASE frontier' \subseteq frontier
  <2> SUFFICES ASSUME NEW e \in frontier', NEW f \in frontier'
               PROVE  ~Expanded(e.task)' /\ (e.task = f.task => e = f)
    BY DEF FrontierIsPending, Expanded, Has
  <2>1. ~Expanded(e.task) /\ (e.task = f.task => e = f)
    BY <1>2 DEF FrontierIsPending
  <2>2. e.task \in Tasks
    BY <1>1, <1>2 DEF Entries
  <2>3. ~Expanded(e.task)'
    <3> SUFFICES ASSUME Expanded(e.task)' PROVE FALSE
      OBVIOUS
    <3>1. PICK g \in frontier : g.task = e.task /\ frontier' = frontier \ {g}
      BY <2>1, <2>2, ExpandedBy
    <3> QED
      BY <3>1, <1>2 DEF FrontierIsPending
  <2> QED
    BY <2>1, <2>3
<1>3. ASSUME NEW t \in Tasks, ~Queued(t), ~Expanded(t), Push(t)
      PROVE  FrontierIsPending'
  <2>1. frontier' = frontier \cup {[task |-> t, depth |-> Below]}
    BY <1>3 DEF Push
  <2>2. \A u \in Tasks : Expanded(u)' => Expanded(u)
    <3> SUFFICES ASSUME NEW u \in Tasks, Expanded(u)', ~Expanded(u) PROVE FALSE
      OBVIOUS
    <3>1. PICK g \in frontier : frontier' = frontier \ {g}
      BY ExpandedBy
    <3> QED
      BY <3>1, <2>1
  <2>3. \A e \in frontier : e.task \in Tasks /\ e.task # t
    BY <1>1, <1>3 DEF Entries, Queued
  <2>4. \A e \in frontier' : e.task \in Tasks /\ ~Expanded(e.task)
    BY <2>1, <2>3, <1>3 DEF FrontierIsPending
  <2>5. \A e, f \in frontier' : e.task = f.task => e = f
    BY <2>1, <2>3 DEF FrontierIsPending
  <2>6. \A e \in frontier' : ~Expanded(e.task)'
    BY <2>2, <2>4
  <2> QED
    BY <2>5, <2>6 DEF FrontierIsPending, Expanded, Has
<1>4. ASSUME NEW b \in cur.binds, BindPrimary(b) PROVE FrontierIsPending'
  <2>1. b.task \in Tasks
    BY DEF TypeInv, TypeOK, Cursors, Binding
  <2>2. CASE frontier' = frontier
    BY <2>2, <1>2
  <2>3. CASE Push(b.task) /\ ~Has(b.task)
    BY <2>1, <2>3, <1>3 DEF TypeInv, QueuedHas, Queued, Expanded
  <2> QED
    BY <1>4, <2>2, <2>3 DEF BindPrimary, Note
<1>5. ASSUME NEW t \in cur.parents, ParentFollowed(t), Recurses(t) PROVE FrontierIsPending'
  <2>1. t \in Tasks /\ ~Seen(t) /\ Push(t)
    BY <1>5 DEF ParentFollowed, IsKnown, TypeInv, TypeOK, Cursors
  <2> QED
    BY <2>1, <1>3 DEF Seen
<1> QED
  BY <1>2, <1>4, <1>5, StepAdds

\* A task is expanded once: what is queued is queued once and was not expanded.
THEOREM FrontierAlwaysPending == Spec => []FrontierIsPending
<1>1. Init => FrontierIsPending
  <2> SUFFICES ASSUME Init PROVE FrontierIsPending
    OBVIOUS
  <2>1. Root \in Tasks /\ ~Expanded(Root)
    BY MultiHopAssumption DEF Init, Expanded, Has
  <2> QED
    BY <2>1 DEF Init, FrontierIsPending
<1> QED
  BY <1>1, PendingStep, MultiHopTypeCorrect, PTL DEF Spec

-----------------------------------------------------------------------------
(* What is followed *)

\* A followed way starts at a task with a node and a pack, and leads to a task
\* that no READ of the pack leaves undecided.
FollowInv ==
    \A x \in adjacency : Has(x[1]) /\ packs[x[1]] # NONE /\ ~Undecided(x[1], x[2])

\* What the node follows is decided.
LEMMA HopIsDecided ==
    ASSUME TypeInv, pc \in {"read", "bind", "schedule"}, NEW t \in Hop.recursive
    PROVE  ~Undecided(Here, t)
<1> DEFINE occs == Occurrences(packs[Here])  ps == packs[Here].parents
<1>1. ps \in SUBSET Tasks /\ t \in Tasks
  BY HopOfNode DEF PackRecords, HopRecords
<1>2. Hop.recursive = Reconcile(occs, ps).recursive
  BY DEF TypeInv, AtNode
<1>3. \A o \in occs : t \notin DecisionUnknown(o, ps)
  BY <1>1, <1>2, FollowedIsDecided
<1>4. \A o \in occs :
         ~(\/ o[t] = "unknown"
           \/ /\ \E u \in Tasks \ {t} : MayOverlap(o[t], o[u])
              /\ ~\E u \in ps : {v \in ps : o[v] \in Overwrites} = {u})
  BY <1>1, <1>3, UndecidedIsUnknown
<1> QED
  BY <1>4 DEF Undecided

\* Where a step adds a way, it leads from the node to a task it follows.
LEMMA WayAdded ==
    ASSUME TypeInv, [Next]_vars
    PROVE  \/ adjacency' = adjacency
           \/ /\ pc \in {"bind", "schedule"} /\ Here \in Tasks /\ Has(Here) /\ packs[Here] # NONE
              /\ \E t \in Hop.recursive : t \in Tasks /\ adjacency' = adjacency \cup {<<Here, t>>}
<1>1. pc \in {"bind", "schedule"} => Here \in Tasks /\ Has(Here) /\ packs[Here] # NONE
  BY DEF TypeInv, AtNode
<1>2. ASSUME NEW b \in cur.binds, BindPrimary(b)
      PROVE  /\ pc = "bind" /\ b.task \in Hop.recursive /\ b.task \in Tasks
             /\ adjacency' = adjacency \cup {<<Here, b.task>>}
  BY <1>2 DEF BindPrimary, Bound, NextBind, IsPrimary, TypeInv, TypeOK, Cursors, Binding
<1>3. ASSUME NEW t \in cur.parents, Handled(t), Recurses(t)
      PROVE  /\ pc = "schedule" /\ t \in Hop.recursive /\ t \in Tasks
             /\ adjacency' = adjacency \cup {<<Here, t>>}
  BY <1>3, HandledIsParent DEF Parent, NextParent, Recurses, TypeInv, TypeOK, Cursors
<1> QED
  BY <1>1, <1>2, <1>3, StepAdds

LEMMA FollowStep ==
    ASSUME TypeInv, FollowInv, [Next]_vars
    PROVE  FollowInv'
<1>1. adjacency \subseteq Tasks \X Tasks
  BY DEF TypeInv, TypeOK
<1>2. \A x \in adjacency : Has(x[1])' /\ packs'[x[1]] # NONE /\ packs'[x[1]] = packs[x[1]]
  BY <1>1, StepKeeps DEF FollowInv
<1>3. \A x \in adjacency : ~Undecided(x[1], x[2])'
  BY <1>2 DEF FollowInv, Undecided, Occurrences
<1>4. CASE adjacency' = adjacency
  BY <1>2, <1>3, <1>4 DEF FollowInv, Has, Undecided, Occurrences
<1>5. ASSUME pc \in {"bind", "schedule"}, Here \in Tasks, Has(Here), packs[Here] # NONE,
             NEW t \in Hop.recursive, adjacency' = adjacency \cup {<<Here, t>>}
      PROVE  FollowInv'
  <2>1. packs'[Here] = packs[Here]
    BY <1>5, StepKeeps
  <2>2. ~Undecided(Here, t)
    BY <1>5, HopIsDecided
  <2>3. nodes'[Here] # NONE
    BY <2>1, StepKeeps, <1>5 DEF Has
  <2> QED
    BY SMTT(30), <1>2, <1>3, <1>5, <2>1, <2>2, <2>3 DEF FollowInv, Has, Undecided, Occurrences
<1> QED
  BY <1>4, <1>5, WayAdded

\* No task is followed that some READ of the consumer cannot decide on.
THEOREM NeverUndecidedPath == Spec => []NoUndecidedPath
<1>1. Init => FollowInv
  BY DEF Init, FollowInv
<1>2. FollowInv => NoUndecidedPath
  BY DEF FollowInv, NoUndecidedPath
<1> QED
  BY <1>1, <1>2, FollowStep, MultiHopTypeCorrect, PTL DEF Spec

-----------------------------------------------------------------------------
(* What is recorded *)

\* A step that makes a node: it records a relation to it, one below the node.
LEMMA NodeAdded ==
    ASSUME TypeInv, [Next]_vars, NEW u \in Tasks, Has(u)', ~Has(u)
    PROVE  /\ nodes'[u].depth = Below
           /\ \/ \E b \in cur.binds : Tied(b) /\ b.task = u
              \/ \E t \in cur.parents : ParentFollowed(t) /\ t = u
<1> USE DEF graph
<1>1. ASSUME NEW t \in Tasks, Has(t), NEW st \in Statuses, SetStatus(t, st) PROVE FALSE
  BY <1>1, SetStatusType DEF TypeInv
<1>2. ASSUME NEW t \in Tasks, Below \in Nat, Discover(t, Below)
      PROVE  t = u /\ nodes'[u].depth = Below
  <2>1. t = u /\ nodes'[u] = [depth |-> Below, st |-> "TERMINAL"]
    BY <1>2, DiscoverType DEF TypeInv
  <2> QED
    BY <2>1
<1>3. ASSUME nodes' = nodes PROVE FALSE
  BY <1>3 DEF Has
<1>4. ASSUME NEW e \in frontier PROVE e.task \in Tasks /\ Has(e.task)
  BY DEF TypeInv, TypeOK, Entries, QueuedHas
<1>5. pc \in {"read", "bind", "schedule"} => Here \in Tasks /\ Has(Here) /\ Below \in Nat
  BY DEF TypeInv, TypeOK, AtNode, Below, Cursors
<1>6. CASE Visit
  <2>1. PICK e \in frontier : \E st \in Statuses : SetStatus(e.task, st)
    BY <1>6 DEF Visit, TooDeep, Unavailable, NoReads, Expand, Statuses
  <2> QED
    BY <2>1, <1>1, <1>4
<1>7. CASE ReadStep
  <2>1. ASSUME NEW r, ReadRefused(r) PROVE FALSE
    BY <2>1, <1>1, <1>5 DEF ReadRefused, NextRead, Statuses
  <2> QED
    BY <1>7, <2>1, <1>3 DEF ReadStep, EndOfReads, ReadEnds, ReadBinds, Recorded
<1>8. CASE BindStep
  <2>1. ASSUME NEW b, BindRefused(b) PROVE FALSE
    BY <2>1, <1>1, <1>5 DEF BindRefused, NextBind, Statuses
  <2>2. ASSUME NEW b \in cur.binds, Bound(b) PROVE b.task = u /\ nodes'[u].depth = Below
    <3>1. b.task \in Tasks /\ pc = "bind" /\ Discover(b.task, Below)
      BY <2>2 DEF Bound, NextBind, TypeInv, TypeOK, Cursors, Binding
    <3> QED
      BY <3>1, <1>2, <1>5
  <2> QED
    BY <1>8, <2>1, <2>2, <1>3 DEF BindStep, EndOfBinds, BindBeside, BindPrimary, Tied
<1>9. CASE ScheduleStep
  <2>1. ASSUME NEW t, ParentRefused(t) PROVE FALSE
    BY <2>1, <1>1, <1>5 DEF ParentRefused, Parent, NextParent, Statuses
  <2>2. ASSUME NEW t \in cur.parents, ParentFollowed(t) PROVE t = u /\ nodes'[u].depth = Below
    <3>1. t \in Tasks /\ pc = "schedule" /\ Discover(t, Below)
      BY <2>2 DEF ParentFollowed, Parent, NextParent, TypeInv, TypeOK, Cursors
    <3> QED
      BY <3>1, <1>2, <1>5
  <2> QED
    BY <1>9, <2>1, <2>2, <1>3 DEF ScheduleStep, EndOfParents, ParentKnown
<1>10. CASE Finish
  BY <1>10 DEF Finish, Has, Queued, QueuedHas, TypeInv
<1>11. CASE UNCHANGED vars
  BY <1>11, <1>3 DEF vars
<1> QED
  BY <1>6, <1>7, <1>8, <1>9, <1>10, <1>11 DEF Next

\* No more nodes are made.
Halted ==
    /\ stopped
    /\ pc \in {"schedule", "pop", "returned", "thrown"}
    /\ pc = "schedule" => cur.parents = {}

LEMMA HaltedStays == ASSUME Halted, [Next]_vars PROVE Halted'
<1> USE DEF Halted
<1>1. CASE Visit
  BY <1>1 DEF Visit, TooDeep, Unavailable, NoReads, Expand, Look, Pop
<1>2. CASE ReadStep
  BY <1>2 DEF ReadStep, EndOfReads, ReadRefused, ReadEnds, ReadBinds, Recorded, NextRead
<1>3. CASE BindStep
  BY <1>3 DEF BindStep, EndOfBinds, BindRefused, BindBeside, BindPrimary, Bound, NextBind
<1>4. CASE ScheduleStep
  BY <1>4 DEF ScheduleStep, EndOfParents, ParentKnown, ParentRefused, ParentFollowed, Parent,
              NextParent
<1>5. CASE Finish \/ UNCHANGED vars
  BY <1>5 DEF Finish, vars
<1> QED
  BY <1>1, <1>2, <1>3, <1>4, <1>5 DEF Next

LimitReached(t) == \E x \in terminals : x.task = t /\ x.why = "MAX_TASKS_REACHED"

GraphInv ==
    /\ BridgesHold
    /\ pc = "bind" => <<Here, cur.table>> \in reads
    /\ \A x \in schedule : Has(x.consumer) /\ (Has(x.producer) \/ (LimitReached(x.producer) /\ Halted))

\* A schedule parent that closes a cycle, or was seen, has a node.
LEMMA KnownHas ==
    ASSUME TypeInv, FollowInv, pc \in {"bind", "schedule"}, NEW t \in Tasks, HasTaskPath(t, Here)
    PROVE  Has(t) /\ packs[t] # NONE
<1>1. Has(Here) /\ packs[Here] # NONE /\ Here \in Tasks
  BY DEF TypeInv, AtNode
<1>2. CASE \E x \in adjacency : x[1] = t
  BY <1>2 DEF FollowInv
<1>3. CASE \A x \in adjacency : x[1] # t
  <2>1. \A x \in adjacency : x[1] \in {t} => x[2] \in {t}
    BY <1>3
  <2>2. Here \in {t}
    BY <2>1 DEF HasTaskPath
  <2> QED
    BY <1>1, <2>2
<1> QED
  BY <1>2, <1>3

LEMMA GraphStep ==
    ASSUME TypeInv, FollowInv, GraphInv, [Next]_vars
    PROVE  GraphInv'
<1> USE DEF graph
<1>1. bridges \subseteq Bridges /\ schedule \subseteq Schedules
  BY DEF TypeInv, TypeOK
<1>2. pc \in {"bind", "schedule"} => Here \in Tasks /\ Has(Here) /\ nodes'[Here] # NONE
  <2>1. pc \in {"bind", "schedule"} => Here \in Tasks /\ Has(Here)
    BY DEF TypeInv, AtNode
  <2> QED
    BY <2>1, StepKeeps DEF Has
<1>3. ASSUME NEW b \in cur.binds, Bound(b)
      PROVE  /\ pc = "bind" /\ b.task \in Tasks /\ nodes'[b.task] # NONE
             /\ bridges' = bridges \cup {Bridge(b)} /\ <<b.task, cur.table>> \in writes'
  <2>1. pc = "bind" /\ b.task \in Tasks /\ Discover(b.task, Below) /\ Below \in Nat
    BY <1>3 DEF Bound, NextBind, TypeInv, TypeOK, Cursors, Binding, Below
  <2> QED
    BY <1>3, <2>1, DiscoverType DEF Bound, RecordWrite, TypeInv, Has
<1>4. BridgesHold'
  <2> SUFFICES ASSUME NEW x \in bridges'
               PROVE  /\ nodes'[x.consumer] # NONE /\ nodes'[x.producer] # NONE
                      /\ <<x.consumer, x.table>> \in reads' /\ <<x.producer, x.table>> \in writes'
    BY DEF BridgesHold, Has
  <2>1. CASE x \in bridges
    BY <2>1, <1>1, StepKeeps DEF GraphInv, BridgesHold, Bridges, Has
  <2>2. CASE x \notin bridges
    <3>1. PICK b \in cur.binds : Bound(b)
      BY <2>2, StepAdds DEF Tied
    <3>2. x = Bridge(b)
      BY <2>2, <3>1, <1>3
    <3>3. x.consumer = Here /\ x.producer = b.task /\ x.table = cur.table
      BY <3>2 DEF Bridge
    <3> QED
      BY <3>1, <3>3, <1>2, <1>3, StepKeeps DEF GraphInv
  <2> QED
    BY <2>1, <2>2
<1>5. (pc = "bind" => <<Here, cur.table>> \in reads)'
  <2> SUFFICES ASSUME pc' = "bind" PROVE <<cur'.task, cur'.table>> \in reads'
    BY DEF Here
  <2>1. CASE \E r : ReadBinds(r)
    BY <2>1 DEF ReadBinds, Recorded, TypeInv, TypeOK, Cursors, Here
  <2>2. CASE \E b \in cur.binds : Bound(b)
    BY <2>2, StepKeeps DEF Bound, NextBind, GraphInv, TypeInv, TypeOK, Cursors, Here
  <2>3. CASE UNCHANGED vars
    BY <2>3 DEF vars, GraphInv, Here
  <2>4. \/ \E r : ReadBinds(r)
        \/ \E b \in cur.binds : Bound(b)
        \/ UNCHANGED vars
    BY ZenonT(60) DEF Next, Visit, TooDeep, Unavailable, NoReads, Expand, Look, Pop, ReadStep, EndOfReads,
           ToSchedule, ReadRefused, ReadEnds, NextRead, Recorded, BindStep, EndOfBinds, BindRefused,
           BindBeside, BindPrimary, ScheduleStep, EndOfParents, ParentKnown, ParentRefused,
           ParentFollowed, Parent, NextParent, Finish
  <2> QED
    BY <2>1, <2>2, <2>3, <2>4
<1>6. \A x \in schedule : /\ nodes'[x.consumer] # NONE
                          /\ nodes'[x.producer] # NONE \/ (LimitReached(x.producer)' /\ Halted')
  <2> SUFFICES ASSUME NEW x \in schedule
               PROVE  /\ nodes'[x.consumer] # NONE
                      /\ nodes'[x.producer] # NONE \/ (LimitReached(x.producer)' /\ Halted')
    OBVIOUS
  <2>1. x.consumer \in Tasks /\ x.producer \in Tasks
    BY <1>1 DEF Schedules
  <2>2. LimitReached(x.producer) => LimitReached(x.producer)'
    BY StepKeeps DEF LimitReached
  <2> QED
    BY <2>1, <2>2, StepKeeps, HaltedStays DEF GraphInv, Has
<1>7. ASSUME NEW t \in cur.parents, Handled(t)
      PROVE  /\ pc = "schedule" /\ t \in Tasks /\ Below \in Nat
             /\ \A x \in schedule' \ schedule : x.consumer = Here /\ x.producer = t
  BY <1>7, HandledIsParent DEF Parent, NextParent, TypeInv, TypeOK, Cursors, Below
<1>8. ASSUME NEW t \in cur.parents, Handled(t)
      PROVE  nodes'[t] # NONE \/ (LimitReached(t)' /\ Halted')
  <2>1. CASE ParentKnown(t)
    <3>1. Has(t)
      <4>1. Seen(t) => Has(t)
        BY DEF Seen, Expanded, Queued, TypeInv, QueuedHas
      <4>2. CreatesCycle(t) \/ t = Here => Has(t)
        BY <1>7, <1>8, <1>2, KnownHas DEF CreatesCycle
      <4> QED
        BY <2>1, <4>1, <4>2 DEF ParentKnown, IsKnown, Cuts
    <3> QED
      BY <3>1, <1>7, <1>8, StepKeeps DEF Has
  <2>2. CASE ParentRefused(t)
    <3>1. LimitReached(t)'
      <4> DEFINE y == Terminal(t, Below, "MAX_TASKS_REACHED", NONE, Here)
      <4>1. AddTerminal(y)
        BY <2>2 DEF ParentRefused, Truncate
      <4>2. y.task = t /\ y.why = "MAX_TASKS_REACHED"
        BY DEF Terminal
      <4>3. \E x \in terminals' : x.task = y.task /\ x.why = y.why
        BY <4>1 DEF AddTerminal, SameKey
      <4> QED
        BY <4>2, <4>3 DEF LimitReached
    <3>2. Halted'
      BY <2>2, <1>7, <1>8
         DEF ParentRefused, Truncate, Halted, TypeInv, TypeOK, Cursors
    <3> QED
      BY <3>1, <3>2
  <2>3. CASE ParentFollowed(t)
    BY <2>3, <1>7, <1>8, DiscoverType DEF ParentFollowed, TypeInv, Has
  <2> QED
    BY <1>8, <2>1, <2>2, <2>3 DEF Handled
<1>9. \A x \in schedule' : /\ nodes'[x.consumer] # NONE
                           /\ nodes'[x.producer] # NONE \/ (LimitReached(x.producer)' /\ Halted')
  <2>1. CASE schedule' = schedule
    BY <2>1, <1>6
  <2>2. ASSUME NEW t \in cur.parents, Handled(t), NEW x \in schedule' \ schedule
        PROVE  /\ nodes'[x.consumer] # NONE
               /\ nodes'[x.producer] # NONE \/ (LimitReached(x.producer)' /\ Halted')
    BY <2>2, <1>2, <1>7, <1>8
  <2> QED
    BY <2>1, <2>2, <1>6, StepAdds
<1> QED
  BY <1>4, <1>5, <1>9 DEF GraphInv, Has

\* The validator of the result throws only for a schedule parent that was
\* recorded before MAX_TASKS refused it: every bridge has its edges and nodes.
THEOREM OnlyTaskLimitEverThrows == Spec => []OnlyTaskLimitThrows
<1>1. Init => GraphInv /\ FollowInv
  BY DEF Init, GraphInv, FollowInv, BridgesHold
<1>2. GraphInv => OnlyTaskLimitThrows
  BY DEF GraphInv, OnlyTaskLimitThrows, LimitReached
<1> QED
  BY <1>1, <1>2, GraphStep, FollowStep, MultiHopTypeCorrect, PTL DEF Spec

-----------------------------------------------------------------------------
(* Cycles *)

Cut  == {t \in Tasks : \E x \in terminals : x.task = t /\ x.why = "CYCLE"}
Left == {e \in adjacency : e[2] \notin Cut}

LEMMA NoteCuts ==
    ASSUME NEW t \in Tasks, NEW table, Note("CYCLE", t, table)
    PROVE  t \in Cut'
<1> DEFINE y == Terminal(t, Below, "CYCLE", table, Here)
<1>1. AddTerminal(y) /\ y.task = t /\ y.why = "CYCLE"
  BY DEF Note, Terminal
<1>2. \E x \in terminals' : x.task = y.task /\ x.why = y.why
  BY <1>1 DEF AddTerminal, SameKey
<1> QED
  BY <1>1, <1>2 DEF Cut

\* The node t that a new way leads to is cut, or has no way to the consumer.
LEMMA WayIsCut ==
    ASSUME TypeInv, [Next]_vars
    PROVE  \/ adjacency' = adjacency
           \/ \E t \in Tasks : /\ adjacency' = adjacency \cup {<<Here, t>>}
                               /\ t \in Cut' \/ ~HasTaskPath(t, Here)
<1>1. ASSUME NEW b \in cur.binds, BindPrimary(b)
      PROVE  /\ b.task \in Tasks /\ adjacency' = adjacency \cup {<<Here, b.task>>}
             /\ b.task \in Cut' \/ ~HasTaskPath(b.task, Here)
  <2>1. b.task \in Tasks
    BY DEF TypeInv, TypeOK, Cursors, Binding
  <2>2. CreatesCycle(b.task) => b.task \in Cut'
    BY <1>1, <2>1, NoteCuts DEF BindPrimary
  <2> QED
    BY <1>1, <2>1, <2>2 DEF BindPrimary, CreatesCycle
<1>2. ASSUME NEW t \in cur.parents, Handled(t), Recurses(t)
      PROVE  /\ t \in Tasks /\ adjacency' = adjacency \cup {<<Here, t>>}
             /\ t \in Cut' \/ ~HasTaskPath(t, Here)
  <2>1. t \in Tasks
    BY DEF TypeInv, TypeOK, Cursors
  <2>2. Cuts(t) => t \in Cut'
    BY <1>2, <2>1, NoteCuts DEF Handled, ParentKnown, ParentRefused, ParentFollowed, IsKnown
  <2> QED
    BY <1>2, <2>1, <2>2, HandledIsParent DEF Parent, Cuts, CreatesCycle
<1> QED
  BY <1>1, <1>2, StepAdds

\* What is reached from t is closed under the ways.
LEMMA ReachedIsClosed ==
    ASSUME NEW t, NEW u, NEW v, HasTaskPath(t, u), <<u, v>> \in adjacency
    PROVE  HasTaskPath(t, v)
  BY DEF HasTaskPath

LEMMA CyclesStep ==
    ASSUME TypeInv, CyclesAreCut, [Next]_vars
    PROVE  CyclesAreCut'
<1> SUFFICES ASSUME NEW S \in SUBSET Tasks, S # {}
             PROVE  \E s \in S : \A e \in Left' : e[1] = s => e[2] \notin S
  BY DEF CyclesAreCut, Cut, Left
<1>1. \A R \in SUBSET Tasks : R # {} => \E s \in R : \A e \in Left : e[1] = s => e[2] \notin R
  BY DEF CyclesAreCut, Cut, Left
<1>2. Cut \subseteq Cut'
  BY StepKeeps DEF Cut
<1>3. adjacency \subseteq Tasks \X Tasks
  BY DEF TypeInv, TypeOK
<1>4. CASE Left' \subseteq Left
  BY <1>1, <1>4
<1>5. ASSUME NEW t \in Tasks, adjacency' = adjacency \cup {<<Here, t>>}, ~HasTaskPath(t, Here),
             Left' \subseteq Left \cup {<<Here, t>>}
      PROVE  \E s \in S : \A e \in Left' : e[1] = s => e[2] \notin S
  <2> DEFINE R == {u \in S : HasTaskPath(t, u)}
  <2>1. CASE t \notin S
    <3>1. PICK s \in S : \A e \in Left : e[1] = s => e[2] \notin S
      BY <1>1
    <3> QED
      BY <2>1, <3>1, <1>5
  <2>2. CASE t \in S
    <3>1. t \in R
      BY <2>2 DEF HasTaskPath
    <3>2. PICK s \in R : \A e \in Left : e[1] = s => e[2] \notin R
      BY <1>1, <3>1
    <3>3. s # Here
      BY <1>5, <3>2
    <3>4. ASSUME NEW e \in Left', e[1] = s PROVE e[2] \notin S
      <4>1. e \in Left /\ e \in adjacency
        BY <1>5, <3>3, <3>4 DEF Left
      <4>2. e = <<s, e[2]>>
        BY <4>1, <1>3, <3>4
      <4>3. HasTaskPath(t, e[2])
        BY <4>1, <4>2, <3>2, ReachedIsClosed
      <4> QED
        BY <4>1, <4>3, <3>2, <3>4
    <3> QED
      BY <3>2, <3>4
  <2> QED
    BY <2>1, <2>2
<1>6. CASE adjacency' = adjacency
  BY <1>2, <1>4, <1>6 DEF Left
<1>7. ASSUME NEW t \in Tasks, adjacency' = adjacency \cup {<<Here, t>>},
             t \in Cut' \/ ~HasTaskPath(t, Here)
      PROVE  \E s \in S : \A e \in Left' : e[1] = s => e[2] \notin S
  <2>1. Left' \subseteq Left \cup {<<Here, t>>}
    BY <1>2, <1>7 DEF Left
  <2>2. t \in Cut' => Left' \subseteq Left
    BY <1>2, <1>7 DEF Left
  <2> QED
    BY <2>1, <2>2, <1>4, <1>5, <1>7
<1> QED
  BY <1>6, <1>7, WayIsCut

\* Every cycle of the followed graph goes through a task that is marked CYCLE.
THEOREM CyclesAreAlwaysCut == Spec => []CyclesAreCut
<1>1. Init => CyclesAreCut
  <2> SUFFICES ASSUME Init PROVE CyclesAreCut
    OBVIOUS
  <2>1. Left = {}
    BY DEF Init, Left
  <2>2. ASSUME NEW S \in (SUBSET Tasks) \ {{}}
        PROVE  \E t \in S : \A e \in Left : e[1] = t => e[2] \notin S
    <3>1. S # {}
      OBVIOUS
    <3>2. PICK t : t \in S
      BY <3>1
    <3> QED
      BY <2>1, <3>2
  <2> QED
    BY <2>2 DEF CyclesAreCut, Cut, Left
<1> QED
  BY <1>1, CyclesStep, MultiHopTypeCorrect, PTL DEF Spec

-----------------------------------------------------------------------------
(* Depths *)

\* The frontier holds two depths at most, and is a level ahead of the node.
LevelInv ==
    /\ \A e, f \in frontier : f.depth <= e.depth + 1
    /\ \A t \in Known, e \in frontier : nodes[t].depth <= e.depth + 1
    /\ pc \in {"read", "bind", "schedule"} =>
         /\ \A e \in frontier : cur.depth <= e.depth /\ e.depth <= Below
         /\ \A t \in Known : nodes[t].depth <= Below

ShortInv ==
    \A t \in Known \ {Root} :
        /\ \A x \in Relations : x.producer = t => nodes[t].depth <= x.depth
        /\ \E x \in Relations : x.producer = t /\ nodes[t].depth = x.depth

LEMMA KnownStays ==
    ASSUME TypeInv, [Next]_vars, pc \notin {"bind", "schedule"}
    PROVE  Known' = Known
<1>1. \A u \in Tasks : Has(u) => Has(u)'
  BY StepKeeps
<1>2. \A u \in Tasks : Has(u)' => Has(u)
  BY NodeAdded DEF Tied, Bound, NextBind, ParentFollowed, Parent, NextParent
<1> QED
  BY <1>1, <1>2 DEF Known

\* What a step leaves of the frontier and of the node that is being expanded.
LEMMA LevelMoves ==
    ASSUME TypeInv, [Next]_vars
    PROVE  \/ /\ \E e \in frontier : Popped(e) /\ frontier' = frontier \ {e} /\ Known' = Known
                                     /\ (pc' = "pop" \/ cur'.depth = e.depth)
           \/ /\ pc \in {"read", "bind", "schedule"}
              /\ cur'.depth = cur.depth \/ pc' = "pop"
              /\ frontier' \subseteq frontier \cup {[task |-> t, depth |-> Below] : t \in Tasks}
           \/ frontier' = frontier /\ Known' = Known /\ pc' \notin {"read", "bind", "schedule"}
           \/ frontier' = frontier /\ Known' = Known /\ pc' = pc /\ cur' = cur
<1> USE DEF graph
<1>1. cur \in Cursors /\ frontier \subseteq Entries
  BY DEF TypeInv, TypeOK
<1>2. CASE Visit
  <2>1. Known' = Known
    BY ZenonT(60), <1>2, KnownStays DEF Visit, TooDeep, Unavailable, NoReads, Expand, Look, Pop
  <2> QED
    BY ZenonT(60), <1>2, <2>1 DEF Visit, TooDeep, Unavailable, NoReads, Expand, Look, Pop, Shift, Idle
<1>3. CASE ReadStep
  BY <1>3, <1>1 DEF ReadStep, EndOfReads, ReadRefused, ReadEnds, ReadBinds, Recorded, NextRead,
     ToSchedule, Cursors
<1>4. CASE BindStep
  <2>1. CASE EndOfBinds
    BY <2>1 DEF EndOfBinds
  <2>2. ASSUME NEW b, BindRefused(b)
        PROVE  pc = "bind" /\ cur'.depth = cur.depth /\ frontier' = frontier
    BY <2>2, <1>1 DEF BindRefused, NextBind, ToSchedule, Cursors
  <2>3. ASSUME NEW b, Bound(b) PROVE pc = "bind" /\ cur'.depth = cur.depth
    BY <2>3, <1>1 DEF Bound, NextBind, Cursors
  <2>4. \A b \in cur.binds : b.task \in Tasks
    BY <1>1 DEF Cursors, Binding
  <2>5. ASSUME NEW b \in cur.binds, BindBeside(b) \/ BindPrimary(b)
        PROVE  /\ Bound(b)
               /\ frontier' \subseteq frontier \cup {[task |-> t, depth |-> Below] : t \in Tasks}
    BY <2>4, <2>5 DEF BindBeside, BindPrimary, Note, Push
  <2> QED
    BY <1>4, <2>1, <2>2, <2>3, <2>5 DEF BindStep
<1>5. CASE ScheduleStep
  <2>1. CASE EndOfParents
    BY <2>1 DEF EndOfParents
  <2>2. ASSUME NEW t \in cur.parents, Handled(t)
        PROVE  /\ pc = "schedule" /\ cur'.depth = cur.depth
               /\ frontier' \subseteq frontier \cup {[task |-> u, depth |-> Below] : u \in Tasks}
    <3>1. pc = "schedule" /\ t \in Tasks
      BY <2>2, <1>1, HandledIsParent DEF Parent, NextParent, Cursors
    <3>2. cur'.depth = cur.depth
      BY <2>2, <1>1 DEF Handled, ParentKnown, ParentRefused, ParentFollowed, Cursors
    <3> QED
      BY <2>2, <3>1, <3>2 DEF Handled, ParentKnown, ParentRefused, ParentFollowed, Note, Push
  <2> QED
    BY <1>5, <2>1, <2>2 DEF ScheduleStep, Handled
<1>6. CASE Finish
  BY <1>6, KnownStays DEF Finish
<1>7. CASE UNCHANGED vars
  BY <1>7 DEF vars, Known, Has
<1> QED
  BY <1>2, <1>3, <1>4, <1>5, <1>6, <1>7 DEF Next

LEMMA LevelStep ==
    ASSUME TypeInv, LevelInv, [Next]_vars
    PROVE  LevelInv'
<1> DEFINE High(d) == /\ \A e \in frontier' : d <= e.depth /\ e.depth <= d + 1
                      /\ \A t \in Known' : nodes'[t].depth <= d + 1
<1>1. /\ frontier \subseteq Entries /\ Known \subseteq Tasks /\ Known' \subseteq Tasks
      /\ cur.depth \in Nat /\ Below = cur.depth + 1
      /\ \A t \in Known : Has(t) /\ nodes[t].depth \in Nat
  BY DEF TypeInv, TypeOK, Known, Has, Cursors, NodeRecords, Below
<1>2. TypeOK'
  BY TypeStep DEF TypeInv
<1>3. /\ frontier' \subseteq Entries /\ \A t \in Known' : nodes'[t].depth \in Nat
  BY <1>2 DEF TypeOK, Known, Has, NodeRecords
<1>4. \A e \in frontier \cup frontier' : e.depth \in Nat
  BY <1>1, <1>3 DEF Entries
<1>5. \A t \in Known : t \in Tasks /\ nodes'[t].depth = nodes[t].depth
  BY <1>1, StepKeeps
<1>6. ASSUME NEW d \in Nat, High(d), pc' \in {"read", "bind", "schedule"} => cur'.depth = d
      PROVE  LevelInv'
  <2>1. \A e, f \in frontier' : f.depth <= e.depth + 1
    BY <1>4, <1>6
  <2>2. \A t \in Known', e \in frontier' : nodes'[t].depth <= e.depth + 1
    BY <1>3, <1>4, <1>6
  <2>3. pc' \in {"read", "bind", "schedule"} => Below' = d + 1
    BY <1>6 DEF Below
  <2> QED
    BY <1>6, <2>1, <2>2, <2>3 DEF LevelInv
<1>7. ASSUME NEW e \in frontier, Popped(e), frontier' = frontier \ {e}, Known' = Known,
             pc' = "pop" \/ cur'.depth = e.depth
      PROVE  LevelInv'
  <2>1. \A f \in frontier : e.depth <= f.depth /\ f.depth <= e.depth + 1
    BY <1>4, <1>7 DEF Popped, Precedes, LevelInv
  <2>2. \A t \in Known : nodes[t].depth <= e.depth + 1
    BY DEF LevelInv
  <2>3. High(e.depth)
    BY <1>5, <1>7, <2>1, <2>2
  <2> QED
    BY <1>4, <1>6, <1>7, <2>3
<1>8. ASSUME pc \in {"read", "bind", "schedule"}, cur'.depth = cur.depth \/ pc' = "pop",
             frontier' \subseteq frontier \cup {[task |-> t, depth |-> Below] : t \in Tasks}
      PROVE  LevelInv'
  <2>1. \A e \in frontier' : cur.depth <= e.depth /\ e.depth <= cur.depth + 1
    BY <1>1, <1>8 DEF LevelInv
  <2>2. \A t \in Known' : nodes'[t].depth <= cur.depth + 1
    <3> SUFFICES ASSUME NEW t \in Known' PROVE nodes'[t].depth <= cur.depth + 1
      OBVIOUS
    <3>1. CASE t \in Known
      BY <1>1, <1>5, <1>8, <3>1 DEF LevelInv
    <3>2. CASE t \notin Known
      <4>1. t \in Tasks /\ Has(t)' /\ ~Has(t)
        BY <3>2 DEF Known
      <4> QED
        BY <1>1, <4>1, NodeAdded
    <3> QED
      BY <3>1, <3>2
  <2>3. High(cur.depth)
    BY <2>1, <2>2
  <2> QED
    BY <1>1, <1>6, <1>8, <2>3
<1>9. CASE frontier' = frontier /\ Known' = Known /\ pc' \notin {"read", "bind", "schedule"}
  BY <1>5, <1>9 DEF LevelInv
<1>10. CASE frontier' = frontier /\ Known' = Known /\ pc' = pc /\ cur' = cur
  BY <1>5, <1>10 DEF LevelInv, Below
<1> QED
  BY <1>7, <1>8, <1>9, <1>10, LevelMoves

LEMMA ShortStep ==
    ASSUME TypeInv, GraphInv, LevelInv, ShortInv, [Next]_vars
    PROVE  ShortInv'
<1> DEFINE Rel(x) == [producer |-> x.producer, depth |-> x.depth]
<1>1. /\ bridges \subseteq Bridges /\ schedule \subseteq Schedules
      /\ \A t \in Known : t \in Tasks /\ Has(t) /\ nodes[t].depth \in Nat
      /\ pc \in {"bind", "schedule"} => Below \in Nat
  BY DEF TypeInv, TypeOK, Known, Has, NodeRecords, Below, Cursors
<1>2. Relations \subseteq Relations'
  BY StepKeeps DEF Relations
<1>3. \A x \in Relations' \ Relations : pc \in {"bind", "schedule"} /\ x.depth = Below
  <2> SUFFICES ASSUME NEW x \in Relations' \ Relations
               PROVE  pc \in {"bind", "schedule"} /\ x.depth = Below
    OBVIOUS
  <2>1. CASE \E b \in bridges' \ bridges : x = Rel(b)
    <3>1. PICK b \in cur.binds : Bound(b)
      BY <2>1, StepAdds DEF Tied
    <3>2. x = Rel(Bridge(b)) /\ pc = "bind"
      BY <2>1, <3>1 DEF Bound, NextBind
    <3> QED
      BY <3>2 DEF Bridge
  <2>2. CASE \E e \in schedule' \ schedule : x = Rel(e)
    <3>1. PICK t \in cur.parents : Parent(t)
      BY <2>2, StepAdds, HandledIsParent
    <3> QED
      BY <2>2, <3>1 DEF Parent, NextParent
  <2>3. \/ \E b \in bridges' \ bridges : x = Rel(b)
        \/ \E e \in schedule' \ schedule : x = Rel(e)
    BY DEF Relations
  <2> QED
    BY <2>1, <2>2, <2>3
<1>4. \A x \in Relations' : x.depth \in Nat
  <2>1. \A x \in Relations : x.depth \in Nat
    BY <1>1 DEF Relations, Bridges, Schedules
  <2> QED
    BY <1>1, <1>3, <2>1
<1>5. ASSUME NEW t \in Known \ {Root}
      PROVE  /\ \A x \in Relations' : x.producer = t => nodes'[t].depth <= x.depth
             /\ \E x \in Relations' : x.producer = t /\ nodes'[t].depth = x.depth
  <2>1. nodes'[t].depth = nodes[t].depth /\ nodes[t].depth \in Nat
    BY <1>1, StepKeeps
  <2>2. \E x \in Relations' : x.producer = t /\ nodes'[t].depth = x.depth
    BY <1>2, <2>1 DEF ShortInv
  <2>3. ASSUME NEW x \in Relations', x.producer = t PROVE nodes'[t].depth <= x.depth
    <3>1. CASE x \in Relations
      BY <2>1, <2>3, <3>1 DEF ShortInv
    <3>2. CASE x \notin Relations
      BY <1>3, <2>1, <3>2 DEF LevelInv
    <3> QED
      BY <3>1, <3>2
  <2> QED
    BY <2>2, <2>3
<1>6. ASSUME NEW t \in Tasks, Has(t)', ~Has(t)
      PROVE  /\ \A x \in Relations' : x.producer = t => nodes'[t].depth <= x.depth
             /\ \E x \in Relations' : x.producer = t /\ nodes'[t].depth = x.depth
  <2>1. nodes'[t].depth = Below /\ ~Halted
    <3>1. ASSUME NEW b \in cur.binds, Bound(b) PROVE ~Halted
      BY <3>1 DEF Bound, NextBind, Halted
    <3>2. ASSUME NEW u \in cur.parents, ParentFollowed(u) PROVE ~Halted
      BY <3>2 DEF ParentFollowed, Parent, NextParent, Halted
    <3> QED
      BY <1>6, <3>1, <3>2, NodeAdded DEF Tied
  <2>2. \A x \in Relations : x.producer # t
    <3>1. \A b \in bridges : b.producer # t
      BY <1>6 DEF GraphInv, BridgesHold
    <3>2. \A e \in schedule : e.producer # t
      BY <1>6, <2>1 DEF GraphInv
    <3> QED
      BY <3>1, <3>2 DEF Relations
  <2>3. \A x \in Relations' : x.producer = t => x.depth = Below
    BY <1>3, <2>2
  <2>4. \E x \in Relations' : x.producer = t /\ x.depth = Below
    <3>1. ASSUME NEW b \in cur.binds, Bound(b), b.task = t
          PROVE  \E x \in Relations' : x.producer = t /\ x.depth = Below
      <4> DEFINE x == Rel(Bridge(b))
      <4>1. Bridge(b) \in bridges' /\ x.producer = t /\ x.depth = Below
        BY <3>1 DEF Bound, Bridge
      <4>2. x \in Relations'
        BY <4>1 DEF Relations
      <4> QED
        BY <4>1, <4>2
    <3>2. ASSUME ParentFollowed(t)
          PROVE  \E x \in Relations' : x.producer = t /\ x.depth = Below
      <4> DEFINE e == [consumer |-> Here, producer |-> t, depth |-> Below]
                 x == Rel(e)
      <4>1. e \in schedule' /\ x.producer = t /\ x.depth = Below
        BY <3>2 DEF ParentFollowed, Parent
      <4>2. x \in Relations'
        BY <4>1 DEF Relations
      <4> QED
        BY <4>1, <4>2
    <3> QED
      BY <1>6, <3>1, <3>2, NodeAdded DEF Tied
  <2>5. nodes'[t].depth \in Nat
    BY <2>1, <2>4, <1>4
  <2> QED
    BY <2>1, <2>3, <2>4, <2>5
<1>7. ASSUME NEW t \in Known' \ {Root}
      PROVE  t \in Known \/ (t \in Tasks /\ Has(t)' /\ ~Has(t))
  BY DEF Known
<1> QED
  BY <1>5, <1>6, <1>7 DEF ShortInv

\* The depth of a node is the smallest that a recorded relation gives the task.
THEOREM DepthIsAlwaysSmallest == Spec => []DepthIsSmallest
<1>1. Init => LevelInv /\ ShortInv /\ GraphInv /\ FollowInv
  <2> SUFFICES ASSUME Init PROVE LevelInv /\ ShortInv
    BY DEF Init, GraphInv, FollowInv, BridgesHold
  <2>1. Known = {Root} /\ nodes[Root].depth = 0
    <3>1. /\ Root \in Tasks /\ NONE \notin NodeRecords
          /\ [depth |-> 0, st |-> "TERMINAL"] \in NodeRecords
      BY MultiHopAssumption DEF NodeRecords, Statuses
    <3> QED
      BY <3>1 DEF Init, Known, Has
  <2> QED
    BY <2>1 DEF Init, LevelInv, ShortInv
<1>2. ShortInv => DepthIsSmallest
  BY DEF ShortInv, DepthIsSmallest
<1> QED
  BY <1>1, <1>2, LevelStep, ShortStep, GraphStep, FollowStep, MultiHopTypeCorrect, PTL DEF Spec

-----------------------------------------------------------------------------
(* What is left out *)

\* While nothing was truncated, every consumer is expanded and its decision is
\* the one it was expanded with.
WholeInv ==
    /\ stopped => reason # NONE
    /\ pc = "returned" => stopped \/ frontier = {}
    /\ \A t \in Tasks : Expanded(t) => packs[t] # NONE
    /\ reason = NONE =>
         /\ \A b \in bridges : Expanded(b.consumer)
         /\ \A e \in schedule : Expanded(e.consumer)
         /\ pc \in {"read", "bind", "schedule"} => Expanded(Here)

\* The primary relations of the recorded graph.
Way(c, t) ==
    /\ t \in hops[c].recursive
    /\ \/ \E b \in bridges : b.role = "PRIMARY" /\ b.consumer = c /\ b.producer = t
       \/ \E e \in schedule : e.consumer = c /\ e.producer = t

Taken(t)      == packs[t] # NONE \/ Queued(t)
Pending(c, t) == c = Here /\ (pc \in {"read", "bind"} \/ (pc = "schedule" /\ t \in cur.parents))

TakenInv ==
    reason = NONE =>
        /\ \A t \in Known : Taken(t) \/ t \in beside
        /\ \A c, t \in Tasks : Way(c, t) =>
              \/ Taken(t)
              \/ t \in beside /\ (t \in packs[c].parents => Pending(c, t))

\* A decision that was made on an expanded node stays, unless it is truncated.
LEMMA ExpandedStays ==
    ASSUME TypeInv, FrontierIsPending, WholeInv, [Next]_vars, reason' = NONE,
           NEW u \in Tasks, Expanded(u)
    PROVE  reason = NONE /\ Expanded(u)' /\ hops'[u] = hops[u] /\ packs'[u] = packs[u]
<1> USE DEF graph
<1>1. ASSUME NEW t \in Tasks, Has(t), t # u, NEW st \in Statuses, SetStatus(t, st)
      PROVE  Expanded(u)'
  <2>1. nodes'[u] = nodes[u]
    BY <1>1, SetStatusType DEF TypeInv
  <2> QED
    BY <2>1 DEF Expanded, Has
<1>2. ASSUME NEW t \in Tasks, NEW d \in Nat, Discover(t, d) PROVE Expanded(u)'
  <2>1. nodes'[u] = nodes[u]
    BY <1>2, DiscoverType DEF TypeInv, Expanded
  <2> QED
    BY <2>1 DEF Expanded, Has
<1>3. ASSUME nodes' = nodes PROVE Expanded(u)'
  BY <1>3 DEF Expanded, Has
<1>4. ASSUME NEW e \in frontier PROVE e.task \in Tasks /\ Has(e.task) /\ e.task # u
  BY DEF TypeInv, TypeOK, Entries, QueuedHas, FrontierIsPending
<1>5. pc \in {"read", "bind", "schedule"} => Here \in Tasks /\ Has(Here) /\ Below \in Nat
  BY DEF TypeInv, TypeOK, AtNode, Below, Cursors
<1>6. ASSUME NEW why \in Reasons, NEW x, NEW stop, Truncate(why, x, stop) PROVE FALSE
  BY <1>6, MultiHopAssumption DEF Truncate
<1>7. packs'[u] = packs[u]
  BY StepKeeps DEF WholeInv
<1>8. CASE Visit
  <2>1. PICK e \in frontier : \/ TooDeep(e)
                              \/ \E p \in Packs[e.task] : Unavailable(e, p) \/ NoReads(e, p) \/ Expand(e, p)
    BY <1>8 DEF Visit
  <2>2. \E st \in Statuses : SetStatus(e.task, st)
    BY <2>1 DEF TooDeep, Unavailable, NoReads, Expand, Statuses
  <2>3. Expanded(u)'
    BY <2>2, <1>1, <1>4
  <2>4. hops'[u] = hops[u]
    BY <2>1, <1>4 DEF TooDeep, Unavailable, NoReads, Expand, TypeInv, TypeOK
  <2>5. ~TooDeep(e)
    BY <1>6 DEF TooDeep, Reasons
  <2>6. reason' = reason
    BY <2>1, <2>5 DEF Unavailable, NoReads, Expand
  <2> QED
    BY <1>7, <2>3, <2>4, <2>6
<1>9. CASE ReadStep
  <2>1. ASSUME NEW r, ReadRefused(r) PROVE FALSE
    BY <2>1, <1>6 DEF ReadRefused, Reasons
  <2> QED
    BY <1>9, <1>7, <2>1, <1>3 DEF ReadStep, EndOfReads, ReadEnds, ReadBinds, Recorded
<1>10. CASE BindStep
  <2>1. ASSUME NEW b, BindRefused(b) PROVE FALSE
    BY <2>1, <1>6 DEF BindRefused, Reasons
  <2>2. ASSUME NEW b \in cur.binds, Bound(b)
        PROVE  reason = NONE /\ Expanded(u)' /\ hops'[u] = hops[u]
    <3>1. b.task \in Tasks /\ pc = "bind" /\ Discover(b.task, Below)
      BY <2>2 DEF Bound, NextBind, TypeInv, TypeOK, Cursors, Binding
    <3> QED
      BY <2>2, <3>1, <1>2, <1>5 DEF Bound
  <2> QED
    BY <1>10, <1>7, <2>1, <2>2, <1>3 DEF BindStep, EndOfBinds, BindBeside, BindPrimary
<1>11. CASE ScheduleStep
  <2>1. ASSUME NEW t, ParentRefused(t) PROVE FALSE
    BY <2>1, <1>6 DEF ParentRefused, Reasons
  <2>2. ASSUME NEW t \in cur.parents, ParentFollowed(t)
        PROVE  reason = NONE /\ Expanded(u)' /\ hops'[u] = hops[u]
    <3>1. t \in Tasks /\ pc = "schedule" /\ Discover(t, Below)
      BY <2>2 DEF ParentFollowed, Parent, NextParent, TypeInv, TypeOK, Cursors
    <3> QED
      BY <2>2, <3>1, <1>2, <1>5 DEF ParentFollowed, Parent
  <2> QED
    BY <1>11, <1>7, <2>1, <2>2, <1>3 DEF ScheduleStep, EndOfParents, ParentKnown, Parent
<1>12. CASE Finish
  <2>1. reason = NONE /\ hops'[u] = hops[u] /\ ~stopped
    BY <1>12 DEF Finish, WholeInv
  <2>2. nodes'[u] = nodes[u]
    BY <1>12, <2>1 DEF Finish
  <2> QED
    BY <1>7, <2>1, <2>2 DEF Expanded, Has
<1>13. CASE UNCHANGED vars
  BY <1>13, <1>7, <1>3 DEF vars
<1> QED
  BY <1>8, <1>9, <1>10, <1>11, <1>12, <1>13 DEF Next

LEMMA ReasonStays == ASSUME [Next]_vars, reason' = NONE PROVE reason = NONE
<1> USE DEF graph
<1>1. ASSUME NEW why \in Reasons, NEW x, NEW stop, Truncate(why, x, stop) PROVE FALSE
  BY <1>1, MultiHopAssumption DEF Truncate
<1>2. reason' = reason
  BY ZenonT(60), <1>1 DEF Next, Visit, TooDeep, Unavailable, NoReads, Expand, Look, ReadStep, EndOfReads,
     ReadRefused, ReadEnds, ReadBinds, Recorded, BindStep, EndOfBinds, BindRefused, BindBeside,
     BindPrimary, Bound, ScheduleStep, EndOfParents, ParentKnown, ParentRefused,
     ParentFollowed, Parent, Finish, vars, Reasons
<1> QED
  BY <1>2

LEMMA WholeStep ==
    ASSUME TypeInv, FrontierIsPending, FollowInv, WholeInv, [Next]_vars
    PROVE  WholeInv'
<1> USE DEF graph
<1>1. stopped' => reason' # NONE
  <2>1. ASSUME NEW why \in Reasons, NEW x, NEW stop, Truncate(why, x, stop) PROVE reason' # NONE
    BY <2>1, MultiHopAssumption DEF Truncate
  <2>2. (stopped' = stopped /\ reason' = reason) \/ reason' # NONE
    BY ZenonT(60), <2>1 DEF Next, Visit, TooDeep, Unavailable, NoReads, Expand, Look, ReadStep, EndOfReads,
       ReadRefused, ReadEnds, ReadBinds, Recorded, BindStep, EndOfBinds, BindRefused, BindBeside,
       BindPrimary, Bound, ScheduleStep, EndOfParents, ParentKnown, ParentRefused, ParentFollowed,
       Finish, vars, Reasons
  <2> QED
    BY <2>2 DEF WholeInv
<1>2. ASSUME NEW t \in Tasks, Expanded(t)' PROVE packs'[t] # NONE
  <2>1. CASE Expanded(t)
    BY <2>1, StepKeeps DEF WholeInv
  <2>2. ASSUME NEW e \in frontier, e.task = t, NEW p \in Packs[e.task], Expand(e, p)
        PROVE  packs'[t] # NONE
    <3>1. packs' = [packs EXCEPT ![t] = p] /\ p \in PackRecords /\ NONE \notin PackRecords
      BY <2>2, MultiHopAssumption DEF Expand, Look
    <3> QED
      BY <3>1 DEF TypeInv, TypeOK
  <2> QED
    BY <2>1, <2>2, <1>2, ExpandedBy
<1>3. pc' = "returned" => stopped' \/ frontier' = {}
  BY ZenonT(60) DEF WholeInv, Next, Visit, TooDeep, Unavailable, NoReads, Expand, Look, Pop, ReadStep,
     EndOfReads, ToSchedule, ReadRefused, ReadEnds, ReadBinds, NextRead, Recorded, BindStep,
     EndOfBinds, BindRefused, BindBeside, BindPrimary, Bound, NextBind, ScheduleStep, EndOfParents,
     ParentKnown, ParentRefused, ParentFollowed, Parent, NextParent, Finish, vars
<1>4. CASE reason' = NONE
  <2>1. \A t \in Tasks : Expanded(t) => Expanded(t)' /\ reason = NONE
    BY <1>4, ExpandedStays
  <2>2. reason = NONE
    BY <1>4, ReasonStays
  <2>3. /\ bridges \subseteq Bridges /\ schedule \subseteq Schedules
        /\ pc \in {"read", "bind", "schedule"} => Here \in Tasks /\ Expanded(Here)
    BY <2>2 DEF TypeInv, TypeOK, AtNode, WholeInv
  <2>4. pc \in {"bind", "schedule"} => nodes'[Here] # NONE /\ nodes'[Here].st = "EXPANDED"
    <3> SUFFICES ASSUME pc \in {"bind", "schedule"}, NEW t, t = Here
                 PROVE  nodes'[t] # NONE /\ nodes'[t].st = "EXPANDED"
      OBVIOUS
    <3> QED
      BY <2>1, <2>3 DEF Expanded, Has
  <2>5. \A b \in bridges' : Expanded(b.consumer)'
    <3> SUFFICES ASSUME NEW b \in bridges' PROVE Expanded(b.consumer)'
      OBVIOUS
    <3>1. CASE b \in bridges
      BY <2>1, <2>2, <2>3, <3>1 DEF WholeInv, Bridges
    <3>2. CASE b \notin bridges
      <4>1. PICK d \in cur.binds : Bound(d)
        BY <3>2, StepAdds DEF Tied
      <4>2. b.consumer = Here /\ pc = "bind"
        BY <3>2, <4>1 DEF Bound, NextBind, Bridge
      <4> QED
        BY <2>4, <4>2 DEF Expanded, Has
    <3> QED
      BY <3>1, <3>2
  <2>6. \A e \in schedule' : Expanded(e.consumer)'
    <3> SUFFICES ASSUME NEW e \in schedule' PROVE Expanded(e.consumer)'
      OBVIOUS
    <3>1. CASE e \in schedule
      BY <2>1, <2>2, <2>3, <3>1 DEF WholeInv, Schedules
    <3>2. CASE e \notin schedule
      <4>1. PICK t \in cur.parents : Parent(t)
        BY <3>2, StepAdds, HandledIsParent
      <4>2. e.consumer = Here /\ pc = "schedule"
        BY <3>2, <4>1 DEF Parent, NextParent
      <4> QED
        BY <2>4, <4>2 DEF Expanded, Has
    <3> QED
      BY <3>1, <3>2
  <2>7. (pc \in {"read", "bind", "schedule"} => Expanded(Here))'
    <3> SUFFICES ASSUME pc' \in {"read", "bind", "schedule"}
                 PROVE  nodes'[cur'.task] # NONE /\ nodes'[cur'.task].st = "EXPANDED"
      BY DEF Expanded, Has, Here
    <3>1. CASE \E e \in frontier : \E p \in Packs[e.task] : Expand(e, p)
      <4>1. PICK e \in frontier : \E p \in Packs[e.task] : Expand(e, p)
        BY <3>1
      <4>2. SetStatus(e.task, "EXPANDED") /\ cur'.task = e.task
        BY <4>1 DEF Expand, Idle
      <4>3. e.task \in Tasks /\ Has(e.task)
        BY DEF TypeInv, TypeOK, QueuedHas, Entries
      <4>4. nodes'[e.task].st = "EXPANDED" /\ Has(e.task)'
        BY <4>2, <4>3, SetStatusType DEF TypeInv, Statuses
      <4> QED
        BY <4>2, <4>4 DEF Has
    <3>2. CASE pc \in {"read", "bind", "schedule"} /\ cur'.task = cur.task
      <4> SUFFICES ASSUME NEW t, t = cur.task
                   PROVE  nodes'[t] # NONE /\ nodes'[t].st = "EXPANDED"
        BY <3>2
      <4>1. t \in Tasks /\ Expanded(t)
        BY <2>3, <3>2 DEF Here
      <4> QED
        BY <2>1, <4>1 DEF Expanded, Has
    <3>3. \/ \E e \in frontier : \E p \in Packs[e.task] : Expand(e, p)
          \/ pc \in {"read", "bind", "schedule"} /\ cur'.task = cur.task
      <4>1. cur \in Cursors
        BY DEF TypeInv, TypeOK
      <4>2. CASE Visit
        BY <4>2 DEF Visit, TooDeep, Unavailable, NoReads, Look, Pop
      <4>3. CASE ReadStep
        BY <4>1, <4>3 DEF ReadStep, EndOfReads, ToSchedule, ReadRefused, ReadEnds, ReadBinds,
           NextRead, Recorded, Cursors
      <4>4. CASE BindStep
        BY <4>1, <4>4 DEF BindStep, EndOfBinds, BindRefused, BindBeside, BindPrimary, Bound,
           NextBind, ToSchedule, Cursors
      <4>5. CASE ScheduleStep
        BY <4>1, <4>5 DEF ScheduleStep, EndOfParents, ParentKnown, ParentRefused, ParentFollowed,
           Parent, NextParent, Cursors
      <4>6. CASE Finish \/ UNCHANGED vars
        BY <4>6 DEF Finish, vars
      <4> QED
        BY <4>2, <4>3, <4>4, <4>5, <4>6 DEF Next
    <3> QED
      BY <3>1, <3>2, <3>3
  <2>8. \A t \in Tasks : Expanded(t)' => packs'[t] # NONE
    BY <1>2
  <2> QED
    BY <1>1, <1>3, <2>5, <2>6, <2>7, <2>8 DEF WholeInv, Expanded, Has
<1>5. CASE reason' # NONE
  BY <1>1, <1>2, <1>5, <1>3 DEF WholeInv, Expanded, Has
<1> QED
  BY <1>4, <1>5

\* What was taken up stays so.
LEMMA TakenStays ==
    ASSUME TypeInv, [Next]_vars, reason' = NONE, NEW t \in Tasks, Taken(t)
    PROVE  Taken(t)'
<1> USE DEF graph
<1>1. CASE packs[t] # NONE
  BY <1>1, StepKeeps DEF Taken
<1>2. CASE Queued(t)
  <2>1. CASE Visit
    <3>1. PICK e \in frontier : \E p \in Packs[e.task] :
             Look(e, p) /\ frontier' = frontier \ {e} /\ packs' = [packs EXCEPT ![e.task] = p]
      <4>1. ASSUME NEW e, TooDeep(e) PROVE FALSE
        BY <4>1, MultiHopAssumption DEF TooDeep, Truncate, Reasons
      <4> QED
        BY ZenonT(60), <2>1, <4>1 DEF Visit, Unavailable, NoReads, Expand, Look, Pop, Shift
    <3>2. CASE e.task = t
      BY <3>1, <3>2, MultiHopAssumption DEF Taken, TypeInv, TypeOK
    <3>3. CASE e.task # t
      BY <1>2, <3>1, <3>3 DEF Taken, Queued
    <3> QED
      BY <3>2, <3>3
  <2>2. CASE ~Visit
    <3>1. frontier \subseteq frontier'
      BY <2>2 DEF Next, ReadStep, EndOfReads, ReadRefused, ReadEnds, ReadBinds, Recorded, BindStep,
         EndOfBinds, BindRefused, BindBeside, BindPrimary, ScheduleStep, EndOfParents,
         ParentKnown, ParentRefused, ParentFollowed, Note, Push, Finish, vars
    <3> QED
      BY <1>2, <3>1 DEF Taken, Queued
  <2> QED
    BY <2>1, <2>2
<1> QED
  BY <1>1, <1>2 DEF Taken

\* A schedule parent that is followed is taken up, in this step or before.
LEMMA HandledIsTaken ==
    ASSUME TypeInv, FollowInv, WholeInv, [Next]_vars, reason' = NONE,
           NEW t \in cur.parents, Handled(t), Recurses(t)
    PROVE  Taken(t)'
<1>1. /\ pc = "schedule" /\ t \in Tasks
  BY HandledIsParent DEF Parent, NextParent, TypeInv, TypeOK, Cursors
<1>2. CASE ParentKnown(t)
  <2>1. CreatesCycle(t) => Taken(t)
    BY <1>1, KnownHas DEF CreatesCycle, Taken
  <2>2. t = Here => Taken(t)
    BY <1>1 DEF TypeInv, AtNode, Taken
  <2>3. Seen(t) => Taken(t)
    BY <1>1 DEF Seen, WholeInv, Taken
  <2>4. Taken(t)
    BY <1>2, <2>1, <2>2, <2>3 DEF ParentKnown, IsKnown, Cuts
  <2> QED
    BY <1>1, <2>4, TakenStays
<1>3. CASE ParentRefused(t)
  BY <1>3, MultiHopAssumption DEF ParentRefused, Truncate, Reasons
<1>4. CASE ParentFollowed(t)
  <2>1. [task |-> t, depth |-> Below] \in frontier'
    BY <1>4 DEF ParentFollowed, Push
  <2> QED
    BY <2>1 DEF Taken, Queued
<1> QED
  BY <1>2, <1>3, <1>4 DEF Handled

\* A relation that is left for the schedule parents stays so until its turn.
LEMMA PendingStays ==
    ASSUME TypeInv, FollowInv, WholeInv, [Next]_vars, reason' = NONE,
           NEW c \in Tasks, NEW t \in Tasks, Way(c, t), t \in packs[c].parents, Pending(c, t)
    PROVE  Pending(c, t)' \/ Taken(t)'
<1> USE DEF graph
<1>1. /\ c = Here /\ cur \in Cursors /\ t \in Hop.recursive /\ t \in Hop.primary
      /\ t \in packs[Here].parents
      /\ pc \in {"read", "bind"} \/ (pc = "schedule" /\ t \in cur.parents)
  <2>1. c = Here /\ t \in Hop.recursive /\ pc \in {"read", "bind", "schedule"}
    BY DEF Pending, Way, Hop
  <2> QED
    BY <2>1, HopOfNode DEF Pending, TypeInv, TypeOK
<1>2. ASSUME NEW why \in Reasons, NEW x, NEW stop, Truncate(why, x, stop) PROVE FALSE
  BY <1>2, MultiHopAssumption DEF Truncate
<1>3. CASE Visit \/ Finish
  <2>1. Visit => pc = "pop"
    BY ZenonT(60) DEF Visit, TooDeep, Unavailable, NoReads, Expand, Look, Pop
  <2>2. Finish => pc = "pop"
    BY DEF Finish
  <2> QED
    BY <1>1, <1>3, <2>1, <2>2
<1>4. CASE ReadStep
  <2>1. CASE EndOfReads
    BY <1>1, <2>1 DEF EndOfReads, ToSchedule, Cursors, Pending, Here
  <2>2. ASSUME NEW r, ReadRefused(r) PROVE FALSE
    BY <1>2, <2>2 DEF ReadRefused, Reasons
  <2>3. ASSUME NEW r, ReadEnds(r) \/ ReadBinds(r) PROVE Pending(c, t)'
    BY <1>1, <2>3 DEF ReadEnds, ReadBinds, Recorded, NextRead, Cursors, Pending, Here
  <2> QED
    BY <1>4, <2>1, <2>2, <2>3 DEF ReadStep
<1>5. CASE BindStep
  <2>1. ASSUME NEW b, BindRefused(b) PROVE FALSE
    BY <1>2, <2>1 DEF BindRefused, Reasons
  <2>2. ASSUME NEW b, Bound(b) PROVE Pending(c, t)'
    BY <1>1, <2>2 DEF Bound, NextBind, Cursors, Pending, Here
  <2>3. ASSUME EndOfBinds PROVE Pending(c, t)'
    BY <1>1, <2>3 DEF EndOfBinds, Pending, Here
  <2> QED
    BY <1>5, <2>1, <2>2, <2>3 DEF BindStep, BindBeside, BindPrimary
<1>6. CASE ScheduleStep
  <2>1. CASE EndOfParents
    BY <1>1, <2>1 DEF EndOfParents
  <2>2. ASSUME NEW u \in cur.parents, Handled(u) PROVE Pending(c, t)' \/ Taken(t)'
    <3>1. pc = "schedule"
      BY <2>2, HandledIsParent DEF Parent, NextParent
    <3>2. CASE u = t
      BY <1>1, <2>2, <3>2, HandledIsTaken DEF Recurses
    <3>3. CASE u # t
      <4>1. ~ParentRefused(u)
        BY <1>2 DEF ParentRefused, Reasons
      <4>2. pc' = pc /\ cur' = [cur EXCEPT !.parents = @ \ {u}]
        BY <2>2, <4>1 DEF Handled, ParentKnown, ParentFollowed
      <4> QED
        BY <1>1, <3>1, <3>3, <4>2 DEF Cursors, Pending, Here
    <3> QED
      BY <3>2, <3>3
  <2> QED
    BY <1>6, <2>1, <2>2 DEF ScheduleStep, Handled
<1>7. CASE UNCHANGED vars
  BY <1>7 DEF vars, Pending, Here
<1> QED
  BY <1>3, <1>4, <1>5, <1>6, <1>7 DEF Next

LEMMA TakenStep ==
    ASSUME TypeInv, FrontierIsPending, FollowInv, WholeInv, TakenInv, [Next]_vars
    PROVE  TakenInv'
<1> SUFFICES ASSUME reason' = NONE
             PROVE  /\ \A t \in Known' : Taken(t)' \/ t \in beside'
                    /\ \A c, t \in Tasks : Way(c, t)' =>
                          \/ Taken(t)'
                          \/ t \in beside' /\ (t \in packs'[c].parents => Pending(c, t)')
  BY DEF TakenInv
<1> USE DEF graph
<1>1. reason = NONE
  BY ReasonStays
<1>2. /\ \A t \in Tasks : Has(t) => Taken(t) \/ t \in beside
      /\ \A c, t \in Tasks : Way(c, t) =>
            \/ Taken(t)
            \/ t \in beside /\ (t \in packs[c].parents => Pending(c, t))
  BY <1>1 DEF TakenInv, Known
<1>3. beside \subseteq beside'
  BY ZenonT(60) DEF Next, Visit, TooDeep, Unavailable, NoReads, Expand, Look, ReadStep, EndOfReads,
     ReadRefused, ReadEnds, ReadBinds, Recorded, BindStep, EndOfBinds, BindRefused, BindBeside,
     BindPrimary, ScheduleStep, EndOfParents, ParentKnown, ParentRefused, ParentFollowed, Finish,
     vars
<1>4. ASSUME NEW t, Push(t) PROVE Taken(t)'
  <2>1. [task |-> t, depth |-> Below] \in frontier'
    BY <1>4 DEF Push
  <2> QED
    BY <2>1 DEF Taken, Queued
<1>5. ASSUME NEW t \in Known' PROVE Taken(t)' \/ t \in beside'
  <2>1. t \in Tasks
    BY DEF Known
  <2>2. CASE Has(t)
    BY <1>2, <1>3, <2>1, <2>2, TakenStays
  <2>3. CASE ~Has(t)
    <3>1. Has(t)'
      BY DEF Known
    <3>2. ASSUME NEW b \in cur.binds, Tied(b), b.task = t PROVE Taken(t)' \/ t \in beside'
      <4>1. CASE BindBeside(b)
        BY <2>3, <3>2, <4>1 DEF BindBeside
      <4>2. CASE BindPrimary(b)
        <5>1. ~CreatesCycle(t)
          BY <2>1, <2>3, <4>2, KnownHas DEF BindPrimary, Bound, NextBind, CreatesCycle
        <5>2. Push(t)
          BY <2>3, <3>2, <4>2, <5>1 DEF BindPrimary
        <5> QED
          BY <5>2, <1>4
      <4> QED
        BY <3>2, <4>1, <4>2 DEF Tied
    <3>3. ASSUME ParentFollowed(t) PROVE Taken(t)' \/ t \in beside'
      BY <2>3, <3>3, <1>4 DEF ParentFollowed
    <3> QED
      BY <2>1, <2>3, <3>1, <3>2, <3>3, NodeAdded
  <2> QED
    BY <2>2, <2>3
<1>6. pc \in {"read", "bind", "schedule"} => /\ Here \in Tasks /\ Has(Here) /\ hops'[Here] = Hop
                                             /\ packs'[Here] = packs[Here]
  <2>1. pc \in {"read", "bind", "schedule"} => Here \in Tasks /\ Has(Here) /\ Expanded(Here)
    BY <1>1 DEF TypeInv, AtNode, WholeInv
  <2> SUFFICES ASSUME NEW u, u = Here, u \in Tasks, Expanded(u)
               PROVE  hops'[u] = hops[u] /\ packs'[u] = packs[u]
    BY <2>1 DEF Hop
  <2> QED
    BY ExpandedStays
<1>7. ASSUME NEW c \in Tasks, NEW t \in Tasks, Way(c, t)
      PROVE  \/ Taken(t)'
             \/ t \in beside' /\ (t \in packs'[c].parents => Pending(c, t)')
  <2>1. Expanded(c)
    BY <1>1, <1>7 DEF Way, WholeInv
  <2>2. packs'[c] = packs[c]
    BY <2>1, ExpandedStays
  <2>3. CASE Taken(t)
    BY <2>3, TakenStays
  <2>4. CASE t \in beside /\ t \notin packs[c].parents
    BY <2>2, <2>4, <1>3
  <2>5. CASE t \in beside /\ t \in packs[c].parents /\ Pending(c, t)
    BY <1>3, <1>7, <2>5, PendingStays
  <2> QED
    BY <1>2, <1>7, <2>3, <2>4, <2>5
<1>8. ASSUME NEW c \in Tasks, NEW t \in Tasks, Way(c, t)', ~Way(c, t)
      PROVE  \/ Taken(t)'
             \/ t \in beside' /\ (t \in packs'[c].parents => Pending(c, t)')
  <2>1. \/ \E b \in bridges' \ bridges : b.role = "PRIMARY" /\ b.consumer = c /\ b.producer = t
        \/ \E e \in schedule' \ schedule : e.consumer = c /\ e.producer = t
    <3> SUFFICES ASSUME \/ \E b \in bridges : b.role = "PRIMARY" /\ b.consumer = c /\ b.producer = t
                        \/ \E e \in schedule : e.consumer = c /\ e.producer = t
                 PROVE  FALSE
      BY <1>8 DEF Way
    <3>1. Expanded(c)
      BY <1>1 DEF WholeInv
    <3>2. hops'[c] = hops[c]
      BY <3>1, ExpandedStays
    <3> QED
      BY <1>8, <3>2 DEF Way
  <2>2. t \in hops'[c].recursive
    BY <1>8 DEF Way
  <2>3. ASSUME NEW b \in bridges' \ bridges, b.role = "PRIMARY", b.consumer = c, b.producer = t
        PROVE  Taken(t)' \/ (t \in beside' /\ Pending(c, t)')
    <3>1. PICK d \in cur.binds : Tied(d)
      BY <2>3, StepAdds
    <3>2. b = Bridge(d) /\ pc = "bind" /\ pc' = pc
      BY <2>3, <3>1 DEF Tied, Bound, NextBind
    <3>3. d.role = "PRIMARY" /\ d.task = t /\ c = Here
      BY <2>3, <3>2 DEF Bridge
    <3>4. BindPrimary(d)
      BY <1>6, <2>2, <3>1, <3>2, <3>3 DEF Tied, IsPrimary
    <3>5. Pending(c, t)'
      BY <3>2, <3>3, <3>4 DEF BindPrimary, Bound, Pending, Here, TypeInv, TypeOK, Cursors
    <3>6. CASE Has(t)
      BY <1>2, <1>3, <3>5, <3>6, TakenStays
    <3>7. CASE ~Has(t)
      <4>1. ~CreatesCycle(t)
        BY <3>2, <3>7, KnownHas DEF CreatesCycle
      <4> QED
        BY <1>4, <3>3, <3>4, <3>7, <4>1 DEF BindPrimary
    <3> QED
      BY <3>6, <3>7
  <2>4. ASSUME NEW e \in schedule' \ schedule, e.consumer = c, e.producer = t PROVE Taken(t)'
    <3>1. PICK u \in cur.parents : Handled(u)
      BY <2>4, StepAdds
    <3>2. u = t /\ c = Here /\ pc = "schedule"
      BY <2>4, <3>1, HandledIsParent DEF Parent, NextParent
    <3> QED
      BY <1>6, <2>2, <3>1, <3>2, HandledIsTaken DEF Recurses
  <2> QED
    BY <2>1, <2>3, <2>4
<1> QED
  BY <1>5, <1>7, <1>8

\* A result that does not say it is truncated has followed every primary
\* producer, but for those first met in another role that are not schedule
\* parents of the consumer.
THEOREM PrimariesAreAlwaysFollowed == Spec => []PrimariesAreFollowed
<1>1. Init => WholeInv /\ TakenInv /\ FollowInv /\ FrontierIsPending
  <2> SUFFICES ASSUME Init PROVE WholeInv /\ TakenInv /\ FollowInv /\ FrontierIsPending
    OBVIOUS
  <2>1. Root \in Tasks /\ \A t \in Tasks : ~Expanded(t)
    BY MultiHopAssumption DEF Init, Expanded, Has
  <2>2. \A t \in Known : t = Root /\ Queued(t)
    BY DEF Init, Known, Has, Queued
  <2> QED
    BY <2>1, <2>2 DEF Init, WholeInv, TakenInv, FollowInv, FrontierIsPending, Taken, Way
<1>2. TypeInv /\ WholeInv /\ TakenInv => PrimariesAreFollowed
  <2> SUFFICES ASSUME TypeInv, WholeInv, TakenInv, pc = "returned", reason = NONE,
                      NEW e \in Primaries
               PROVE  packs[e[2]] # NONE \/ (e[2] \in beside /\ e[2] \notin packs[e[1]].parents)
    BY DEF PrimariesAreFollowed
  <2>1. e[1] \in Tasks /\ e[2] \in Tasks /\ Way(e[1], e[2])
    BY DEF Primaries, Way, TypeInv, TypeOK, Bridges, Schedules
  <2>2. Taken(e[2]) \/ (e[2] \in beside /\ e[2] \notin packs[e[1]].parents)
    BY <2>1 DEF TakenInv, Pending
  <2>3. ~Queued(e[2])
    BY DEF WholeInv, Queued
  <2> QED
    BY <2>2, <2>3 DEF Taken
<1> QED
  BY <1>1, <1>2, WholeStep, TakenStep, FollowStep, PendingStep, MultiHopTypeCorrect, PTL DEF Spec

-----------------------------------------------------------------------------
(* The traversal shrinks *)

\* What the traversal still has to do: tasks that may be expanded, the part of
\* the loop it is in, what is left of that part, and of the bindings of a READ.
Remaining == {t \in Tasks : ~Expanded(t)}
Ended     == pc \in {"returned", "thrown"}

ToExpand == (IF Ended THEN 0 ELSE 1) + (IF stopped THEN 0 ELSE 1 + Cardinality(Remaining))
Phase    == IF pc \in {"read", "bind"} THEN 2 ELSE IF pc = "schedule" THEN 1 ELSE 0
Work     == IF pc \in {"read", "bind"} THEN Len(cur.reads)
            ELSE IF pc = "schedule" THEN Cardinality(cur.parents) ELSE Cardinality(frontier)
ToBind   == IF pc = "bind" THEN 1 + Cardinality(cur.binds) ELSE 0

Rank == <<ToExpand, <<Phase, <<Work, ToBind>>>>>>

Less   == OpToRel(<, Nat)
Two    == LexPairOrdering(Less, Less, Nat, Nat)
Three  == LexPairOrdering(Less, Two, Nat, Nat \X Nat)
Before == LexPairOrdering(Less, Three, Nat, Nat \X (Nat \X Nat))
Ranks  == Nat \X (Nat \X (Nat \X Nat))

\* The frontier and the bindings of a READ are finite.
FiniteInv == IsFiniteSet(frontier) /\ IsFiniteSet(cur.binds)

\* There is no endless descent in the order of the ranks.
LEMMA RanksAreWellFounded == IsWellFoundedOn(Before, Ranks)
<1>1. IsWellFoundedOn(Less, Nat)
  BY NatLessThanWellFounded DEF Less
<1>2. IsWellFoundedOn(Two, Nat \X Nat)
  BY <1>1, WFLexPairOrdering DEF Two
<1>3. IsWellFoundedOn(Three, Nat \X (Nat \X Nat))
  BY <1>1, <1>2, WFLexPairOrdering DEF Three
<1> QED
  BY <1>1, <1>3, WFLexPairOrdering DEF Before, Ranks

Lower(a, b, c, d, e, f, g, h) ==
    \/ a < e
    \/ a = e /\ b < f
    \/ a = e /\ b = f /\ c < g
    \/ a = e /\ b = f /\ c = g /\ d < h

Descends(a, b, c, d, e, f, g, h) == <<<<a, <<b, <<c, d>>>>>>, <<e, <<f, <<g, h>>>>>>>> \in Before

LEMMA RankDescends ==
    ASSUME NEW a \in Nat, NEW b \in Nat, NEW c \in Nat, NEW d \in Nat,
           NEW e \in Nat, NEW f \in Nat, NEW g \in Nat, NEW h \in Nat,
           Lower(a, b, c, d, e, f, g, h)
    PROVE  Descends(a, b, c, d, e, f, g, h)
<1>1. \A i, j \in Nat : i < j => <<i, j>> \in Less
  BY DEF Less, OpToRel
<1> HIDE DEF Less
<1>2. c < g \/ (c = g /\ d < h) => <<<<c, d>>, <<g, h>>>> \in Two
  BY <1>1 DEF Two, LexPairOrdering
<1>3. b < f \/ (b = f /\ (c < g \/ (c = g /\ d < h)))
      => <<<<b, <<c, d>>>>, <<f, <<g, h>>>>>> \in Three
  BY <1>1, <1>2 DEF Three, LexPairOrdering
<1> QED
  BY <1>1, <1>3 DEF Before, LexPairOrdering, Lower, Descends

LEMMA ImageIsFinite ==
    ASSUME NEW S, IsFiniteSet(S), NEW f, DOMAIN f = S
    PROVE  IsFiniteSet({f[x] : x \in S})
<1>1. [x \in S |-> f[x]] \in Surjection(S, {f[x] : x \in S})
  BY DEF Surjection
<1> QED
  BY <1>1, FS_Surjection

LEMMA BindingsAreFinite ==
    ASSUME TypeInv, NEW r, NextRead(r)
    PROVE  IsFiniteSet(Bindings(r))
<1> DEFINE Of(i) == {[task |-> t, occ |-> i, role |-> Role(r.occs[i], packs[Here].parents, t)] :
                        t \in Candidates(r.occs[i])}
           All == {Of(i) : i \in DOMAIN r.occs}
<1>1. \A i : IsFiniteSet(Of(i))
  <2> TAKE i
  <2> DEFINE S == Candidates(r.occs[i])
             f == [t \in S |-> [task |-> t, occ |-> i, role |-> Role(r.occs[i], packs[Here].parents, t)]]
  <2>1. IsFiniteSet(S)
    BY FS_Subset, MultiHopAssumption DEF Candidates
  <2>2. Of(i) = {f[t] : t \in S}
    OBVIOUS
  <2>3. DOMAIN f = S
    OBVIOUS
  <2> HIDE DEF f, S, Of
  <2> QED
    BY <2>1, <2>2, <2>3, ImageIsFinite
<1>2. IsFiniteSet(All)
  <2>1. r.occs \in Seq([Tasks -> Matches])
    BY NextReadType DEF ReadRecords
  <2>2. DOMAIN r.occs = 1..Len(r.occs) /\ Len(r.occs) \in Nat
    BY <2>1
  <2>3. IsFiniteSet(DOMAIN r.occs)
    BY <2>2, FS_Interval
  <2> DEFINE f == [i \in DOMAIN r.occs |-> Of(i)]
  <2>4. All = {f[i] : i \in DOMAIN r.occs} /\ DOMAIN f = DOMAIN r.occs
    <3> HIDE DEF Of
    <3> QED
      OBVIOUS
  <2> HIDE DEF f, All
  <2> QED
    BY <2>3, <2>4, ImageIsFinite
<1>3. Bindings(r) = UNION All
  BY DEF Bindings
<1>4. \A T \in All : IsFiniteSet(T)
  BY <1>1
<1> HIDE DEF All
<1> QED
  BY <1>2, <1>3, <1>4, FS_UNION

LEMMA FiniteStep ==
    ASSUME TypeInv, FiniteInv, [Next]_vars
    PROVE  FiniteInv'
<1> USE DEF graph
<1>1. IsFiniteSet(frontier')
  <2>1. ASSUME frontier' \subseteq frontier PROVE IsFiniteSet(frontier')
    BY <2>1, FS_Subset DEF FiniteInv
  <2>2. ASSUME NEW t, Push(t) PROVE IsFiniteSet(frontier')
    BY <2>2, FS_AddElement DEF FiniteInv, Push
  <2>3. ASSUME NEW b, BindPrimary(b) PROVE frontier' = frontier \/ Push(b.task)
    BY <2>3 DEF BindPrimary, Note
  <2>4. ASSUME NEW t, ParentFollowed(t), Recurses(t) PROVE Push(t)
    BY <2>4 DEF ParentFollowed
  <2> QED
    BY <2>1, <2>2, <2>3, <2>4, StepAdds
<1>2. IsFiniteSet(cur'.binds)
  <2>1. cur \in Cursors
    BY DEF TypeInv, TypeOK
  <2>2. IsFiniteSet({})
    BY FS_EmptySet
  <2>3. ASSUME cur'.binds \in {{}, cur.binds} PROVE IsFiniteSet(cur'.binds)
    BY <2>2, <2>3 DEF FiniteInv
  <2>4. ASSUME ToSchedule PROVE cur'.binds = {}
    BY <2>1, <2>4 DEF ToSchedule, Cursors
  <2>5. CASE Visit
    <3>1. cur' = cur \/ cur'.binds = {}
      BY <2>5 DEF Visit, TooDeep, Unavailable, NoReads, Expand, Idle
    <3> QED
      BY <3>1, <2>3
  <2>6. ASSUME NEW r, ReadBinds(r) PROVE IsFiniteSet(cur'.binds)
    <3>1. NextRead(r) /\ cur'.binds = Bindings(r)
      BY <2>1, <2>6 DEF ReadBinds, Recorded, Cursors
    <3> QED
      BY <3>1, BindingsAreFinite
  <2>7. CASE ReadStep
    <3>1. EndOfReads \/ (\E r : ReadRefused(r)) \/ (\E r : ReadEnds(r)) => cur'.binds \in {{}, cur.binds}
      BY <2>1, <2>4 DEF EndOfReads, ReadRefused, ReadEnds, Cursors
    <3> QED
      BY <2>7, <3>1, <2>3, <2>6 DEF ReadStep
  <2>8. ASSUME NEW b, Bound(b) PROVE IsFiniteSet(cur'.binds)
    <3>1. cur'.binds = cur.binds \ {b}
      BY <2>1, <2>8 DEF Bound, Cursors
    <3> QED
      BY <3>1, FS_RemoveElement DEF FiniteInv
  <2>9. CASE BindStep
    <3>1. EndOfBinds \/ (\E b : BindRefused(b)) => cur'.binds \in {{}, cur.binds}
      BY <2>4 DEF EndOfBinds, BindRefused
    <3> QED
      BY <2>9, <3>1, <2>3, <2>8 DEF BindStep, BindBeside, BindPrimary
  <2>10. CASE ScheduleStep
    <3>1. ASSUME EndOfParents PROVE cur'.binds = {}
      BY <3>1 DEF EndOfParents, Idle
    <3>2. ASSUME NEW t, Handled(t) PROVE cur'.binds = cur.binds
      BY <2>1, <3>2 DEF Handled, ParentKnown, ParentRefused, ParentFollowed, Cursors
    <3> QED
      BY <2>10, <3>1, <3>2, <2>3 DEF ScheduleStep, Handled
  <2>11. CASE Finish \/ UNCHANGED vars
    BY <2>11, <2>3 DEF Finish, vars
  <2> QED
    BY <2>5, <2>7, <2>9, <2>10, <2>11 DEF Next
<1> QED
  BY <1>1, <1>2 DEF FiniteInv

\* Until the traversal is stopped, what was expanded stays expanded.
LEMMA ExpandedUntilStopped ==
    ASSUME TypeInv, FrontierIsPending, [Next]_vars, ~stopped', NEW u \in Tasks, Expanded(u)
    PROVE  Expanded(u)'
<1> USE DEF graph
<1>1. ASSUME NEW t \in Tasks, Has(t), t # u, NEW st \in Statuses, SetStatus(t, st)
      PROVE  Expanded(u)'
  <2>1. nodes'[u] = nodes[u]
    BY <1>1, SetStatusType DEF TypeInv
  <2> QED
    BY <2>1 DEF Expanded, Has
<1>2. ASSUME NEW t \in Tasks, NEW d \in Nat, Discover(t, d) PROVE Expanded(u)'
  <2>1. nodes'[u] = nodes[u]
    BY <1>2, DiscoverType DEF TypeInv, Expanded
  <2> QED
    BY <2>1 DEF Expanded, Has
<1>3. ASSUME nodes' = nodes PROVE Expanded(u)'
  BY <1>3 DEF Expanded, Has
<1>4. pc \in {"read", "bind", "schedule"} => Below \in Nat
  BY DEF TypeInv, TypeOK, Below, Cursors
<1>5. ASSUME NEW why, NEW x, Truncate(why, x, TRUE) PROVE FALSE
  BY <1>5 DEF Truncate
<1>6. CASE Visit
  <2>1. PICK e \in frontier : \/ TooDeep(e)
                              \/ \E p \in Packs[e.task] : Unavailable(e, p) \/ NoReads(e, p) \/ Expand(e, p)
    BY <1>6 DEF Visit
  <2>2. \E st \in Statuses : SetStatus(e.task, st)
    BY <2>1 DEF TooDeep, Unavailable, NoReads, Expand, Statuses
  <2>3. e.task \in Tasks /\ Has(e.task) /\ e.task # u
    BY DEF TypeInv, TypeOK, Entries, QueuedHas, FrontierIsPending
  <2> QED
    BY <2>2, <2>3, <1>1
<1>7. CASE ReadStep
  BY <1>7, <1>3, <1>5 DEF ReadStep, EndOfReads, ReadRefused, ReadEnds, ReadBinds, Recorded
<1>8. CASE BindStep
  <2>1. ASSUME NEW b, BindRefused(b) PROVE FALSE
    BY <2>1, <1>5 DEF BindRefused
  <2>2. ASSUME NEW b \in cur.binds, Bound(b) PROVE Expanded(u)'
    <3>1. b.task \in Tasks /\ pc = "bind" /\ Discover(b.task, Below)
      BY <2>2 DEF Bound, NextBind, TypeInv, TypeOK, Cursors, Binding
    <3> QED
      BY <3>1, <1>2, <1>4
  <2> QED
    BY <1>8, <2>1, <2>2, <1>3 DEF BindStep, EndOfBinds, BindBeside, BindPrimary
<1>9. CASE ScheduleStep
  <2>1. ASSUME NEW t, ParentRefused(t) PROVE FALSE
    BY <2>1, <1>5 DEF ParentRefused
  <2>2. ASSUME NEW t \in cur.parents, ParentFollowed(t) PROVE Expanded(u)'
    <3>1. t \in Tasks /\ pc = "schedule" /\ Discover(t, Below)
      BY <2>2 DEF ParentFollowed, Parent, NextParent, TypeInv, TypeOK, Cursors
    <3> QED
      BY <3>1, <1>2, <1>4
  <2> QED
    BY <1>9, <2>1, <2>2, <1>3 DEF ScheduleStep, EndOfParents, ParentKnown
<1>10. CASE Finish
  BY <1>10 DEF Finish, Expanded, Has
<1>11. CASE UNCHANGED vars
  BY <1>11, <1>3 DEF vars
<1> QED
  BY <1>6, <1>7, <1>8, <1>9, <1>10, <1>11 DEF Next

RankOK == ToExpand \in Nat /\ Phase \in Nat /\ Work \in Nat /\ ToBind \in Nat

LEMMA RankType == TypeInv /\ FiniteInv => RankOK
<1> SUFFICES ASSUME TypeInv, FiniteInv PROVE RankOK
  OBVIOUS
<1>1. IsFiniteSet(Remaining)
  BY FS_Subset, MultiHopAssumption DEF Remaining
<1>2. Cardinality(Remaining) \in Nat
  BY <1>1, FS_CardinalityType
<1>3. ToExpand \in Nat
  BY <1>2 DEF ToExpand
<1>4. /\ cur.parents \subseteq Tasks
      /\ Len(cur.reads) \in Nat
  BY DEF TypeInv, TypeOK, Cursors
<1>5. Cardinality(cur.parents) \in Nat
  BY <1>4, FS_Subset, FS_CardinalityType, MultiHopAssumption
<1>6. Cardinality(frontier) \in Nat /\ Cardinality(cur.binds) \in Nat
  BY FS_CardinalityType DEF FiniteInv
<1> QED
  BY <1>3, <1>4, <1>5, <1>6 DEF RankOK, Phase, Work, ToBind

\* A traversal that is stopped stays so, and there is no step after its end.
LEMMA StopStays == ASSUME Next PROVE (stopped => stopped') /\ ~Ended
<1>1. CASE Visit
  <2>1. pc = "pop"
    BY <1>1 DEF Visit, TooDeep, Unavailable, NoReads, Expand, Look, Pop
  <2>2. stopped => stopped'
    BY <1>1 DEF Visit, TooDeep, Unavailable, NoReads, Expand, Look, Pop
  <2> QED
    BY <2>1, <2>2 DEF Ended
<1>2. CASE ReadStep
  <2>1. pc = "read"
    BY <1>2 DEF ReadStep, EndOfReads, ReadRefused, ReadEnds, ReadBinds, Recorded, NextRead
  <2>2. stopped' \/ (stopped' = stopped)
    BY <1>2 DEF ReadStep, EndOfReads, ReadRefused, ReadEnds, ReadBinds, Recorded, Truncate
  <2> QED
    BY <2>1, <2>2 DEF Ended
<1>3. CASE BindStep
  <2>1. pc = "bind"
    BY <1>3 DEF BindStep, EndOfBinds, BindRefused, BindBeside, BindPrimary, Bound, NextBind
  <2>2. stopped' \/ (stopped' = stopped)
    BY <1>3 DEF BindStep, EndOfBinds, BindRefused, BindBeside, BindPrimary, Bound, Truncate
  <2> QED
    BY <2>1, <2>2 DEF Ended
<1>4. CASE ScheduleStep
  <2>1. pc = "schedule"
    BY <1>4 DEF ScheduleStep, EndOfParents, ParentKnown, ParentRefused, ParentFollowed, Parent, NextParent
  <2>2. stopped' \/ (stopped' = stopped)
    BY <1>4 DEF ScheduleStep, EndOfParents, ParentKnown, ParentRefused, ParentFollowed, Truncate
  <2> QED
    BY <2>1, <2>2 DEF Ended
<1>5. CASE Finish
  BY <1>5 DEF Finish, Ended
<1> QED
  BY <1>1, <1>2, <1>3, <1>4, <1>5 DEF Next

\* What may be expanded never grows; it shrinks when the traversal is stopped
\* or ends, and when a task is expanded.
LEMMA ToExpandShrinks ==
    ASSUME TypeInv, FrontierIsPending, RankOK, RankOK', Next
    PROVE  /\ ToExpand' <= ToExpand
           /\ stopped' /\ ~stopped => ToExpand' < ToExpand
           /\ Ended' => ToExpand' < ToExpand
           /\ (\E u \in Tasks : Expanded(u)' /\ ~Expanded(u)) => stopped \/ ToExpand' < ToExpand
<1> DEFINE m == Cardinality(Remaining)
           n == Cardinality(Remaining')
<1>1. (stopped => stopped') /\ ~Ended
  BY StopStays
<1>2. IsFiniteSet(Remaining) /\ IsFiniteSet(Remaining')
  BY FS_Subset, MultiHopAssumption DEF Remaining
<1>3. m \in Nat /\ n \in Nat
  BY <1>2, FS_CardinalityType
<1>4. ToExpand = 1 + (IF stopped THEN 0 ELSE 1 + m)
  BY <1>1, <1>3 DEF ToExpand
<1>5. ToExpand' = (IF Ended' THEN 0 ELSE 1) + (IF stopped' THEN 0 ELSE 1 + n)
  BY DEF ToExpand
<1>6. ~stopped' => n <= m /\ ((\E u \in Tasks : Expanded(u)' /\ ~Expanded(u)) => n < m)
  <2> SUFFICES ASSUME ~stopped'
               PROVE  n <= m /\ ((\E u \in Tasks : Expanded(u)' /\ ~Expanded(u)) => n < m)
    OBVIOUS
  <2>1. Remaining' \subseteq Remaining
    BY ExpandedUntilStopped DEF Remaining
  <2>2. n <= m /\ (m = n => Remaining = Remaining')
    BY <1>2, <2>1, FS_Subset
  <2>3. (\E u \in Tasks : Expanded(u)' /\ ~Expanded(u)) => Remaining # Remaining'
    BY DEF Remaining
  <2> HIDE DEF m, n
  <2> QED
    BY <1>3, <2>2, <2>3
<1> DEFINE Grew == \E u \in Tasks : Expanded(u)' /\ ~Expanded(u)
<1> HIDE DEF m, n, Grew
<1>7. ~stopped' => n <= m /\ (Grew => n < m)
  BY <1>6 DEF Grew
<1>8. CASE stopped'
  <2>1. ToExpand' = (IF Ended' THEN 0 ELSE 1)
    BY <1>5, <1>8
  <2>2. CASE stopped
    BY <1>4, <2>1, <2>2 DEF Grew
  <2>3. CASE ~stopped
    BY <1>3, <1>4, <2>1, <2>3 DEF Grew
  <2> QED
    BY <2>2, <2>3
<1>9. CASE ~stopped'
  <2>1. ToExpand = 2 + m
    BY <1>1, <1>3, <1>4, <1>9
  <2>2. ToExpand' = (IF Ended' THEN 1 ELSE 2) + n
    BY <1>3, <1>5, <1>9
  <2>3. n <= m /\ (Grew => n < m)
    BY <1>7, <1>9
  <2>4. ToExpand' <= ToExpand /\ (Ended' => ToExpand' < ToExpand) /\ (Grew => ToExpand' < ToExpand)
    BY <1>3, <2>1, <2>2, <2>3
  <2> QED
    BY <1>9, <2>4 DEF Grew
<1> QED
  BY <1>8, <1>9

\* Every step takes the traversal to a smaller rank.
LEMMA RankStep ==
    ASSUME TypeInv, FrontierIsPending, FiniteInv, RankOK, RankOK', Next
    PROVE  <<Rank', Rank>> \in Before
<1> DEFINE Narrow == ToExpand' < ToExpand
           Later  == \/ Phase' < Phase
                     \/ Phase' = Phase /\ Work' < Work
                     \/ Phase' = Phase /\ Work' = Work /\ ToBind' < ToBind
<1> USE DEF graph
<1>1. SUFFICES Narrow \/ Later
  <2>1. ToExpand' <= ToExpand
    BY ToExpandShrinks
  <2>2. /\ ToExpand \in Nat /\ Phase \in Nat /\ Work \in Nat /\ ToBind \in Nat
        /\ ToExpand' \in Nat /\ Phase' \in Nat /\ Work' \in Nat /\ ToBind' \in Nat
    BY DEF RankOK
  <2>3. Narrow \/ (ToExpand' = ToExpand /\ Later)
    BY <1>1, <2>1, <2>2
  <2>4. Lower(ToExpand', Phase', Work', ToBind', ToExpand, Phase, Work, ToBind)
    BY <2>3 DEF Lower
  <2>5. Descends(ToExpand', Phase', Work', ToBind', ToExpand, Phase, Work, ToBind)
    BY <2>2, <2>4, RankDescends
  <2>6. Rank' = <<ToExpand', <<Phase', <<Work', ToBind'>>>>>>
    BY DEF Rank
  <2> QED
    BY <2>5, <2>6 DEF Rank, Descends
<1>2. cur \in Cursors
  BY DEF TypeInv, TypeOK
<1>3. ASSUME NEW e \in frontier, Shift(e), pc = "pop", pc' = "pop" PROVE Later
  <2>1. Cardinality(frontier') = Cardinality(frontier) - 1
    BY <1>3, FS_RemoveElement DEF FiniteInv, Shift
  <2>2. Cardinality(frontier) \in Nat
    BY FS_CardinalityType DEF FiniteInv
  <2>3. Phase' = Phase /\ Work = Cardinality(frontier) /\ Work' = Cardinality(frontier')
    BY <1>3 DEF Phase, Work
  <2> QED
    BY <2>1, <2>2, <2>3
<1>4. ASSUME NEW e \in frontier, NEW p, Expand(e, p) PROVE Narrow
  <2>1. e.task \in Tasks /\ Has(e.task) /\ ~Expanded(e.task) /\ ~stopped
    BY <1>4 DEF TypeInv, TypeOK, QueuedHas, Entries, FrontierIsPending, Expand, Look, Pop
  <2>2. SetStatus(e.task, "EXPANDED")
    BY <1>4 DEF Expand
  <2>3. Expanded(e.task)'
    BY <2>1, <2>2, SetStatusType DEF TypeInv, Statuses, Expanded
  <2> QED
    BY <2>1, <2>3, ToExpandShrinks
<1>5. CASE Visit
  <2>1. ASSUME NEW e \in frontier, NEW p, TooDeep(e) \/ Unavailable(e, p) \/ NoReads(e, p) PROVE Later
    BY <2>1, <1>3 DEF TooDeep, Unavailable, NoReads, Look, Pop
  <2> QED
    BY <1>5, <2>1, <1>4 DEF Visit
<1>6. ASSUME NEW why, NEW x, Truncate(why, x, TRUE), ~stopped PROVE Narrow
  BY <1>6, ToExpandShrinks DEF Truncate
<1>7. CASE ReadStep
  <2>1. CASE EndOfReads
    BY <2>1 DEF EndOfReads, ToSchedule, Phase
  <2>2. ASSUME NEW r, ReadRefused(r) PROVE Narrow
    BY <2>2, <1>6 DEF ReadRefused, NextRead
  <2>3. ASSUME NEW r, ReadEnds(r) \/ ReadBinds(r) PROVE Later
    <3>1. pc = "read" /\ pc' \in {"read", "bind"} /\ cur.reads # <<>> /\ cur'.reads = Tail(cur.reads)
      BY <2>3, <1>2 DEF ReadEnds, ReadBinds, Recorded, NextRead, Cursors
    <3>2. Len(Tail(cur.reads)) < Len(cur.reads)
      BY <3>1, <1>2 DEF Cursors
    <3> QED
      BY <3>1, <3>2 DEF Phase, Work
  <2> QED
    BY <1>7, <2>1, <2>2, <2>3 DEF ReadStep
<1>8. CASE BindStep
  <2>1. CASE EndOfBinds
    <3>1. pc = "bind" /\ pc' = "read" /\ cur' = cur
      BY <2>1 DEF EndOfBinds
    <3>2. Phase' = Phase /\ Work' = Work
      BY <3>1 DEF Phase, Work
    <3>3. ToBind' = 0 /\ ToBind = 1 + Cardinality(cur.binds) /\ Cardinality(cur.binds) \in Nat
      BY <3>1, FS_CardinalityType DEF ToBind, FiniteInv
    <3> QED
      BY <3>2, <3>3
  <2>2. ASSUME NEW b, BindRefused(b) PROVE Narrow
    BY <2>2, <1>6 DEF BindRefused, NextBind
  <2>3. ASSUME NEW b \in cur.binds, Bound(b) PROVE Later
    <3>1. pc = "bind" /\ pc' = "bind" /\ cur'.binds = cur.binds \ {b} /\ cur'.reads = cur.reads
      BY <2>3, <1>2 DEF Bound, NextBind, Cursors
    <3>2. Phase' = Phase /\ Work' = Work
      BY <3>1 DEF Phase, Work
    <3>3. Cardinality(cur'.binds) = Cardinality(cur.binds) - 1 /\ Cardinality(cur.binds) \in Nat
      BY <3>1, FS_RemoveElement, FS_CardinalityType DEF FiniteInv
    <3>4. ToBind' < ToBind
      BY <3>1, <3>3 DEF ToBind
    <3> QED
      BY <3>2, <3>4
  <2> QED
    BY <1>8, <2>1, <2>2, <2>3 DEF BindStep, BindBeside, BindPrimary
<1>9. CASE ScheduleStep
  <2>1. IsFiniteSet(cur.parents)
    BY <1>2, FS_Subset, MultiHopAssumption DEF Cursors
  <2>2. CASE EndOfParents
    BY <2>2 DEF EndOfParents, Phase
  <2>3. ASSUME NEW t \in cur.parents, pc = "schedule", pc' = "schedule",
               cur'.parents \in {{}, cur.parents \ {t}}
        PROVE  Later
    <3>1. Cardinality({}) = 0 /\ Cardinality(cur.parents \ {t}) = Cardinality(cur.parents) - 1
      BY <2>1, FS_RemoveElement, FS_EmptySet
    <3>2. Cardinality(cur.parents) \in Nat /\ Cardinality(cur.parents) # 0
      BY <2>1, FS_CardinalityType, FS_EmptySet
    <3>3. 0 < Cardinality(cur.parents) /\ Cardinality(cur.parents) - 1 < Cardinality(cur.parents)
      BY <3>2
    <3>4. CASE cur'.parents = {}
      BY <2>3, <3>1, <3>3, <3>4 DEF Phase, Work
    <3>5. CASE cur'.parents = cur.parents \ {t}
      BY <2>3, <3>1, <3>3, <3>5 DEF Phase, Work
    <3> QED
      BY <2>3, <3>4, <3>5
  <2>4. ASSUME NEW t \in cur.parents, Handled(t) PROVE Later
    <3>1. pc = "schedule" /\ pc' = "schedule"
      BY <2>4 DEF Handled, ParentKnown, ParentRefused, ParentFollowed, Parent, NextParent
    <3>2. cur'.parents \in {{}, cur.parents \ {t}}
      BY <2>4, <1>2 DEF Handled, ParentKnown, ParentRefused, ParentFollowed, Cursors
    <3> QED
      BY <2>3, <3>1, <3>2
  <2> QED
    BY <1>9, <2>2, <2>4 DEF ScheduleStep, Handled
<1>10. CASE Finish
  <2>1. Ended'
    BY <1>10 DEF Finish, Ended
  <2> QED
    BY <2>1, ToExpandShrinks
<1> QED
  BY <1>5, <1>7, <1>8, <1>9, <1>10 DEF Next

\* No step of the traversal, whatever is queued, bound or known already, leaves it
\* with as much to do as before.
GoesDown == <<Rank', Rank>> \in Before
TraversalShrinks == [][GoesDown]_vars

\* Every step of the traversal, on any task graph and under any limits, goes
\* down in a well-founded order: the loop cannot go on for ever.
THEOREM TraversalAlwaysShrinks ==
    IsWellFoundedOn(Before, Ranks) /\ (Spec => [](Rank \in Ranks) /\ TraversalShrinks)
<1>1. Init => FiniteInv
  <2> SUFFICES ASSUME Init PROVE FiniteInv
    OBVIOUS
  <2>1. IsFiniteSet({}) /\ IsFiniteSet({[task |-> Root, depth |-> 0]})
    BY FS_EmptySet, FS_Singleton
  <2>2. cur.binds = {} /\ frontier = {[task |-> Root, depth |-> 0]}
    BY DEF Init, Idle
  <2> QED
    BY <2>1, <2>2 DEF FiniteInv
<1>2. Spec => [](TypeInv /\ FrontierIsPending /\ FiniteInv)
  BY <1>1, FiniteStep, MultiHopTypeCorrect, FrontierAlwaysPending, PTL DEF Spec
<1>3. TypeInv /\ FiniteInv => Rank \in Ranks
  BY RankType DEF RankOK, Rank, Ranks
<1>4. TypeInv /\ FrontierIsPending /\ FiniteInv /\ RankOK /\ RankOK' /\ [Next]_vars
      => [GoesDown]_vars
  BY RankStep DEF GoesDown
<1>5. Spec => [](Rank \in Ranks)
  BY <1>2, <1>3, PTL
<1>6. Spec => TraversalShrinks
  BY <1>2, <1>4, RankType, PTL DEF Spec, TraversalShrinks
<1> QED
  BY <1>5, <1>6, RanksAreWellFounded
=============================================================================
