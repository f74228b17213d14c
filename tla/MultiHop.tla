------------------------------ MODULE MultiHop ------------------------------
(***************************************************************************)
(* The upstream traversal of one root task: reconcileMultiHopRootTraversal-*)
(* Kernel of reconcile-multi-hop.ts over the one-hop decisions of OneHop,  *)
(* and the assertions of its validator on the graph it returns.            *)
(*                                                                         *)
(* The traversal is one synchronous loop; its hard part is the data: any   *)
(* task graph, tasks met several times and in several roles, and limits    *)
(* that stop it anywhere.  The packs of the tasks are chosen when they are *)
(* looked at.                                                              *)
(*                                                                         *)
(* Data abstraction: a pack has its schedule parents and its READs; a READ *)
(* has a kind and the occurrences of the table.  Tasks are numbered in the *)
(* order of their ids, and a terminal's detail is its consumer.            *)
(***************************************************************************)
EXTENDS OneHop, FiniteSetsExt, SequencesExt

CONSTANTS
    Root,    \* rootTaskId
    Packs,   \* task -> the packs it may have
    Limits,  \* records of maxDepth, maxTasks, maxEdges
    NONE

Kinds    == {"eligible", "blocked", "local", "reference", "unresolved"}
Statuses == {"TERMINAL", "EXPANDED", "TRUNCATED"}
Reasons  == {"MAX_DEPTH_REACHED", "MAX_TASKS_REACHED", "MAX_EDGES_REACHED"}

ReadRecords == [table : STRING, kind : Kinds, occs : Seq([Tasks -> Matches])]
PackRecords == [available : BOOLEAN, issues : BOOLEAN, reads : Seq(ReadRecords),
                parents : SUBSET Tasks]
NodeRecords == [depth : Nat, st : Statuses]

ASSUME MultiHopAssumption ==
    /\ Tasks \subseteq Nat /\ IsFiniteSet(Tasks) /\ Root \in Tasks
    /\ \A t \in Tasks : Packs[t] \subseteq PackRecords
    /\ NONE \notin Tasks /\ NONE \notin Reasons
    /\ NONE \notin PackRecords /\ NONE \notin NodeRecords
    /\ \A l \in Limits : l.depth \in Nat /\ l.tasks \in Nat \ {0} /\ l.edges \in Nat \ {0}

VARIABLES
    limits,
    packs,      \* packs looked at
    nodes,      \* taskNodes
    hops,       \* upstreamDecision of the nodes
    frontier,   \* records of task and depth
    reads,      \* readEdges
    writes,     \* writeEdges
    bridges,    \* producerBridges
    schedule,   \* scheduleEdges
    adjacency,  \* recursive edges
    terminals,
    reason,     \* truncationReason
    stopped,    \* traversalStopped
    cur,        \* the node being expanded and what is left of its loops
    pc,
    beside      \* history: tasks whose node was made by a relation not followed

graph == <<reads, writes, bridges, schedule>>
vars  == <<limits, packs, nodes, hops, frontier, graph, adjacency, terminals, reason, stopped,
           cur, pc, beside>>

Idle == [task |-> NONE, depth |-> 0, reads |-> <<>>, table |-> NONE, binds |-> {}, parents |-> {}]

Has(t)      == nodes[t] # NONE
Known       == {t \in Tasks : Has(t)}
Queued(t)   == \E e \in frontier : e.task = t
Expanded(t) == Has(t) /\ nodes[t].st = "EXPANDED"

\* hasTaskPath: u is in every set of tasks that contains t and is closed under
\* the recursive edges.
HasTaskPath(t, u) ==
    \A S \in SUBSET Tasks :
        t \in S /\ (\A e \in adjacency : e[1] \in S => e[2] \in S) => u \in S

\* addTerminal: the consumer is not part of the key.
Terminal(t, depth, why, table, consumer) ==
    [task |-> t, depth |-> depth, why |-> why, table |-> table, consumer |-> consumer]
SameKey(x, y) == x.task = y.task /\ x.depth = y.depth /\ x.why = y.why /\ x.table = y.table
AddTerminal(x) ==
    terminals' = IF \E y \in terminals : SameKey(x, y) THEN terminals ELSE terminals \cup {x}

\* markTruncated
Truncate(why, x, stop) ==
    /\ reason' = IF reason = NONE THEN why ELSE reason
    /\ AddTerminal(x)
    /\ stopped' = (stopped \/ stop)

SetStatus(t, st) == nodes' = [nodes EXCEPT ![t].st = st]
Discover(t, depth) ==
    nodes' = IF Has(t) THEN nodes ELSE [nodes EXCEPT ![t] = [depth |-> depth, st |-> "TERMINAL"]]

\* canAddGraphEdge
EdgesFull == Cardinality(reads) + Cardinality(writes) >= limits.edges
TasksFull == Cardinality(Known) >= limits.tasks

Occurrences(p) ==
    UNION {Range(p.reads[i].occs) : i \in {j \in DOMAIN p.reads :
                                           p.reads[j].kind \notin {"reference", "unresolved"}}}

(***************************************************************************)
(* The head of the loop                                                    *)
(***************************************************************************)
\* Slip: the newest entry first.
DeepFirst(e, f) == e.depth > f.depth \/ (e.depth = f.depth /\ e.task <= f.task)

Precedes(e, f) == e.depth < f.depth \/ (e.depth = f.depth /\ e.task <= f.task)
Popped(e) == e \in frontier /\ \A f \in frontier : Precedes(e, f)

\* Slip: the entry is read and left in place.
Peek(e) == UNCHANGED frontier

Shift(e) == frontier' = frontier \ {e}

Pop(e) ==
    /\ pc = "pop" /\ ~stopped
    /\ Popped(e)
    /\ Shift(e)

TooDeep(e) ==
    /\ Pop(e)
    /\ e.depth >= limits.depth
    /\ SetStatus(e.task, "TERMINAL")
    /\ Truncate("MAX_DEPTH_REACHED", Terminal(e.task, e.depth, "MAX_DEPTH_REACHED", NONE, NONE), FALSE)
    /\ UNCHANGED <<limits, packs, hops, graph, adjacency, cur, pc, beside>>

\* The pack of a task is what it was when the task was looked at before.
Look(e, p) ==
    /\ Pop(e)
    /\ e.depth < limits.depth
    /\ packs[e.task] \in {NONE, p}
    /\ packs' = [packs EXCEPT ![e.task] = p]

Unavailable(e, p) ==
    /\ Look(e, p)
    /\ ~p.available
    /\ SetStatus(e.task, "TERMINAL")
    /\ AddTerminal(Terminal(e.task, e.depth, "UNAVAILABLE", NONE, NONE))
    /\ UNCHANGED <<limits, hops, graph, adjacency, reason, stopped, cur, pc, beside>>

\* The schedule parents of a task without READs are not looked at.
NoReads(e, p) ==
    /\ Look(e, p)
    /\ p.available /\ p.reads = <<>>
    /\ hops' = [hops EXCEPT ![e.task] = Reconcile({}, p.parents)]
    /\ SetStatus(e.task, "TERMINAL")
    /\ AddTerminal(Terminal(e.task, e.depth,
                            IF p.issues THEN "STATEMENT_ISSUE" ELSE "NO_DIRECT_READS", NONE, NONE))
    /\ UNCHANGED <<limits, graph, adjacency, reason, stopped, cur, pc, beside>>

Expand(e, p) ==
    /\ Look(e, p)
    /\ p.available /\ p.reads # <<>>
    /\ hops' = [hops EXCEPT ![e.task] = Reconcile(Occurrences(p), p.parents)]
    /\ SetStatus(e.task, "EXPANDED")
    /\ IF p.issues THEN AddTerminal(Terminal(e.task, e.depth, "STATEMENT_ISSUE", NONE, NONE))
                   ELSE UNCHANGED terminals
    /\ cur' = [Idle EXCEPT !.task = e.task, !.depth = e.depth, !.reads = p.reads]
    /\ pc' = "read"
    /\ UNCHANGED <<limits, graph, adjacency, reason, stopped, beside>>

(***************************************************************************)
(* The READs of the node                                                   *)
(***************************************************************************)
Here  == cur.task
Hop   == hops[Here]
Below == cur.depth + 1

ToSchedule ==
    /\ pc' = "schedule"
    /\ cur' = [cur EXCEPT !.reads = <<>>, !.binds = {}, !.parents = Hop.primary \cap packs[Here].parents]

EndOfReads ==
    /\ pc = "read" /\ (stopped \/ cur.reads = <<>>)
    /\ ToSchedule
    /\ UNCHANGED <<limits, packs, nodes, hops, frontier, graph, adjacency, terminals, reason,
                   stopped, beside>>

NextRead(r) == pc = "read" /\ ~stopped /\ cur.reads # <<>> /\ r = Head(cur.reads)

ReadRefused(r) ==
    /\ NextRead(r)
    /\ EdgesFull
    /\ SetStatus(Here, "TRUNCATED")
    /\ Truncate("MAX_EDGES_REACHED", Terminal(Here, cur.depth, "MAX_EDGES_REACHED", r.table, NONE), TRUE)
    /\ ToSchedule
    /\ UNCHANGED <<limits, packs, hops, frontier, graph, adjacency, beside>>

\* The bindings of a READ: every candidate of every occurrence, with its role.
Bindings(r) ==
    UNION {{[task |-> t, occ |-> i, role |-> Role(r.occs[i], packs[Here].parents, t)] :
                t \in Candidates(r.occs[i])} : i \in DOMAIN r.occs}

ReadTerminal(r) ==
    CASE r.kind = "local"      -> "TASK_LOCAL_MATERIALIZATION"
      [] r.kind = "blocked"    -> "BLOCKED"
      [] r.kind = "unresolved" -> "TABLE_IDENTITY_UNRESOLVED"
      [] r.kind = "reference"  -> "REFERENCE_CONFIG"
      [] r.kind = "eligible"   -> "NO_CONFIRMED_PRODUCER_OBSERVED"

Recorded(r) ==
    /\ NextRead(r)
    /\ ~EdgesFull
    /\ reads' = reads \cup {<<Here, r.table>>}
    /\ UNCHANGED <<limits, packs, nodes, hops, frontier, writes, bridges, schedule, adjacency,
                   reason, stopped, beside>>

Ends(r) == r.kind # "eligible" \/ Bindings(r) = {}

ReadEnds(r) ==
    /\ Recorded(r)
    /\ Ends(r)
    /\ AddTerminal(Terminal(Here, cur.depth, ReadTerminal(r), r.table, NONE))
    /\ cur' = [cur EXCEPT !.reads = Tail(@)]
    /\ pc' = pc

ReadBinds(r) ==
    LET Unclear == \E b \in Bindings(r) : b.role = "UNKNOWN"
    IN  /\ Recorded(r)
        /\ ~Ends(r)
        /\ IF Unclear /\ Hop.overlapping
           THEN AddTerminal(Terminal(Here, cur.depth, "MULTIPLE_OVERLAPPING_PRODUCERS", r.table, NONE))
           ELSE UNCHANGED terminals
        /\ cur' = [cur EXCEPT !.reads = Tail(@), !.table = r.table, !.binds = Bindings(r)]
        /\ pc' = "bind"

(***************************************************************************)
(* The bindings of a READ                                                  *)
(***************************************************************************)
\* They are sorted by the producer, then by the occurrence.
BindsBefore(b, d) == b.task < d.task \/ (b.task = d.task /\ b.occ <= d.occ)
NextBind(b) == pc = "bind" /\ ~stopped /\ \A d \in cur.binds : BindsBefore(b, d)

EndOfBinds ==
    /\ pc = "bind" /\ cur.binds = {}
    /\ pc' = "read"
    /\ UNCHANGED <<limits, packs, nodes, hops, frontier, graph, adjacency, terminals, reason,
                   stopped, cur, beside>>

NewWrite(b) == <<b.task, cur.table>> \notin writes
NoRoom(t)   == ~Has(t) /\ TasksFull

Refused(b)  == NoRoom(b.task) \/ (NewWrite(b) /\ EdgesFull)

\* MAX_TASKS or MAX_EDGES is met: the producer is not recorded, and the loops
\* over bindings and READs end.
BindRefused(b) ==
    LET why == IF NoRoom(b.task) THEN "MAX_TASKS_REACHED" ELSE "MAX_EDGES_REACHED"
    IN  /\ NextBind(b)
        /\ Refused(b)
        /\ SetStatus(Here, "TRUNCATED")
        /\ Truncate(why, Terminal(b.task, Below, why, cur.table, Here), TRUE)
        /\ ToSchedule
        /\ UNCHANGED <<limits, packs, hops, frontier, graph, adjacency, beside>>

Bridge(b) == [consumer |-> Here, table |-> cur.table, producer |-> b.task, occ |-> b.occ,
              depth |-> Below, role |-> b.role]

\* Slip: only a task that reads its own output is a cycle.
SelfOnly(t) == t = Here

CreatesCycle(t) == HasTaskPath(t, Here)

\* frontier.push.  The list is kept as a set: it is sorted before every shift,
\* and Push is only reached for a task that is not in it (no node, or not Seen).
Push(t) == frontier' = frontier \cup {[task |-> t, depth |-> Below]}

Note(why, t, table) ==
    /\ AddTerminal(Terminal(t, Below, why, table, Here))
    /\ UNCHANGED frontier

RecordWrite(b) == writes' = writes \cup {<<b.task, cur.table>>}

Bound(b) ==
    /\ NextBind(b)
    /\ ~Refused(b)
    /\ RecordWrite(b)
    /\ bridges' = bridges \cup {Bridge(b)}
    /\ Discover(b.task, Below)
    /\ cur' = [cur EXCEPT !.binds = @ \ {b}]
    /\ UNCHANGED <<limits, packs, hops, reads, schedule, reason, stopped, pc>>

IsPrimary(b) == b.role = "PRIMARY" /\ b.task \in Hop.recursive

\* A producer that is not followed only gets its node.
BindBeside(b) ==
    /\ Bound(b)
    /\ ~IsPrimary(b)
    /\ beside' = IF Has(b.task) THEN beside ELSE beside \cup {b.task}
    /\ UNCHANGED <<frontier, adjacency, terminals>>

BindPrimary(b) ==
    /\ Bound(b)
    /\ IsPrimary(b)
    /\ adjacency' = adjacency \cup {<<Here, b.task>>}
    /\ IF CreatesCycle(b.task) THEN Note("CYCLE", b.task, cur.table)
       ELSE IF Has(b.task) THEN Note("ALREADY_DISCOVERED", b.task, cur.table)
       ELSE Push(b.task) /\ UNCHANGED terminals
    /\ UNCHANGED beside

(***************************************************************************)
(* The schedule parents of the node, also when the traversal is stopped    *)
(***************************************************************************)
NextParent(t) == pc = "schedule" /\ \A u \in cur.parents : t <= u

EndOfParents ==
    /\ pc = "schedule" /\ cur.parents = {}
    /\ cur' = Idle /\ pc' = "pop"
    /\ UNCHANGED <<limits, packs, nodes, hops, frontier, graph, adjacency, terminals, reason,
                   stopped, beside>>

\* Slip: the frontier is not looked at.
ExpandedOnly(t) == Expanded(t)

Seen(t) == Expanded(t) \/ Queued(t)

Recurses(t) == t \in Hop.recursive

\* The schedule edge is recorded before anything is checked.
Parent(t) ==
    /\ NextParent(t)
    /\ schedule' = schedule \cup {[consumer |-> Here, producer |-> t, depth |-> Below]}
    /\ adjacency' = IF Recurses(t) THEN adjacency \cup {<<Here, t>>} ELSE adjacency
    /\ UNCHANGED <<limits, packs, hops, reads, writes, bridges>>

Cuts(t)    == Recurses(t) /\ (CreatesCycle(t) \/ t = Here)
IsKnown(t) == Cuts(t) \/ (Recurses(t) /\ Seen(t))

ParentKnown(t) ==
    /\ Parent(t)
    /\ IsKnown(t)
    /\ Note(IF Cuts(t) THEN "CYCLE" ELSE "ALREADY_DISCOVERED", t, NONE)
    /\ cur' = [cur EXCEPT !.parents = @ \ {t}]
    /\ UNCHANGED <<nodes, reason, stopped, pc, beside>>

ParentRefused(t) ==
    /\ Parent(t)
    /\ ~IsKnown(t) /\ NoRoom(t)
    /\ SetStatus(Here, "TRUNCATED")
    /\ Truncate("MAX_TASKS_REACHED", Terminal(t, Below, "MAX_TASKS_REACHED", NONE, Here), TRUE)
    /\ cur' = [cur EXCEPT !.parents = {}]
    /\ UNCHANGED <<frontier, pc, beside>>

ParentFollowed(t) ==
    /\ Parent(t)
    /\ ~IsKnown(t) /\ ~NoRoom(t)
    /\ Discover(t, Below)
    /\ IF Recurses(t) THEN Push(t) /\ UNCHANGED beside
       ELSE UNCHANGED frontier /\ beside' = IF Has(t) THEN beside ELSE beside \cup {t}
    /\ cur' = [cur EXCEPT !.parents = @ \ {t}]
    /\ UNCHANGED <<terminals, reason, stopped, pc>>

(***************************************************************************)
(* The end: validateMultiHopReconciliation throws or the result is returned*)
(***************************************************************************)
BridgesHold ==
    \A b \in bridges :
        /\ Has(b.consumer) /\ Has(b.producer)
        /\ <<b.consumer, b.table>> \in reads /\ <<b.producer, b.table>> \in writes
ScheduleHolds == \A e \in schedule : Has(e.consumer) /\ Has(e.producer)

Finish ==
    /\ pc = "pop" /\ (stopped \/ frontier = {})
    /\ nodes' = [t \in Tasks |-> IF stopped /\ Queued(t) /\ ~Expanded(t)
                                 THEN [nodes[t] EXCEPT !.st = "TRUNCATED"] ELSE nodes[t]]
    /\ pc' = IF BridgesHold /\ ScheduleHolds THEN "returned" ELSE "thrown"
    /\ UNCHANGED <<limits, packs, hops, frontier, graph, adjacency, terminals, reason, stopped,
                   cur, beside>>

Init ==
    /\ limits \in Limits
    /\ packs = [t \in Tasks |-> NONE]
    /\ nodes = [t \in Tasks |-> IF t = Root THEN [depth |-> 0, st |-> "TERMINAL"] ELSE NONE]
    /\ hops = [t \in Tasks |-> NONE]
    /\ frontier = {[task |-> Root, depth |-> 0]}
    /\ reads = {} /\ writes = {} /\ bridges = {} /\ schedule = {}
    /\ adjacency = {} /\ terminals = {} /\ reason = NONE /\ stopped = FALSE
    /\ cur = Idle /\ pc = "pop" /\ beside = {}

Visit ==
    \E e \in frontier :
        \/ TooDeep(e)
        \/ \E p \in Packs[e.task] : Unavailable(e, p) \/ NoReads(e, p) \/ Expand(e, p)

ReadStep ==
    \/ EndOfReads
    \/ \E r \in Range(cur.reads) : ReadRefused(r) \/ ReadEnds(r) \/ ReadBinds(r)

BindStep ==
    \/ EndOfBinds
    \/ \E b \in cur.binds : BindRefused(b) \/ BindBeside(b) \/ BindPrimary(b)

ScheduleStep ==
    \/ EndOfParents
    \/ \E t \in cur.parents : ParentKnown(t) \/ ParentRefused(t) \/ ParentFollowed(t)

Next == Visit \/ ReadStep \/ BindStep \/ ScheduleStep \/ Finish

Spec     == Init /\ [][Next]_vars
FairSpec == Spec /\ WF_vars(Next)

(***************************************************************************)
(* Properties                                                              *)
(***************************************************************************)

\* A limit truncates the result and is reported with it; it is no error.
\* (docs/reconcile-multi-hop.md:187.  The code departs from it: Parent records
\* the schedule edge of a task that ParentRefused then gives no node, and the
\* validator throws SCHEDULE_EDGE_TASK_MISSING.)
LimitsAreReported == reason # NONE => pc # "thrown"

\* How far that goes: the validator throws for nothing else than schedule edges
\* to tasks that did not fit under MAX_TASKS.
OnlyTaskLimitThrows ==
    pc = "thrown" =>
        /\ BridgesHold
        /\ \A e \in schedule : ~Has(e.producer) =>
              \E x \in terminals : x.task = e.producer /\ x.why = "MAX_TASKS_REACHED"

\* minDepth is the smallest depth that a recorded relation, a bridge or a
\* schedule edge, gives the task, in whatever order the relations were met.
\* (The depth of a relation is one more than the depth its consumer was
\* expanded at.  That can be more than the minDepth of the consumer: a task met
\* beside and queued later, by a consumer one level below, is expanded at the
\* later depth, so minDepth need not be the number of hops from the root.)
Relations == {[producer |-> b.producer, depth |-> b.depth] : b \in bridges}
             \cup {[producer |-> e.producer, depth |-> e.depth] : e \in schedule}

DepthIsSmallest ==
    \A t \in Known \ {Root} :
        /\ \A x \in Relations : x.producer = t => nodes[t].depth <= x.depth
        /\ pc = "pop" => \E x \in Relations : x.producer = t /\ nodes[t].depth = x.depth

\* No task is in the frontier twice, and none that was expanded: a task is
\* expanded once, however many consumers lead to it.
FrontierIsPending ==
    \A e \in frontier : ~Expanded(e.task) /\ \A f \in frontier : e.task = f.task => e = f

\* A task that some READ of the consumer cannot decide on is not followed: its
\* partition match is unknown, or it overwrites what another producer may
\* overwrite too and no single schedule parent settles it.
Undecided(consumer, t) ==
    \E o \in Occurrences(packs[consumer]) :
        \/ o[t] = "unknown"
        \/ /\ \E u \in Tasks \ {t} : MayOverlap(o[t], o[u])
           /\ ~\E u \in packs[consumer].parents :
                 {v \in packs[consumer].parents : o[v] \in Overwrites} = {u}

NoUndecidedPath == \A e \in adjacency : ~Undecided(e[1], e[2])

\* Without the edges into tasks that are marked CYCLE the followed graph has no
\* cycle.
CyclesAreCut ==
    LET Cut    == {t \in Tasks : \E x \in terminals : x.task = t /\ x.why = "CYCLE"}
        Left   == {e \in adjacency : e[2] \notin Cut}
    IN  \A S \in (SUBSET Tasks) \ {{}} : \E t \in S : \A e \in Left : e[1] = t => e[2] \notin S

\* The next level of the traversal is what one-hop reconciliation calls primary:
\* a result that does not say it is truncated has looked at the pack of every
\* primary producer.  (docs/reconcile-multi-hop.md:10-14.  The code departs from
\* it: BindPrimary answers ALREADY_DISCOVERED for a producer that has a node,
\* also where the node was made by a relation that is not followed.)
Primaries ==
    {<<b.consumer, b.producer>> : b \in {x \in bridges : x.role = "PRIMARY"
                                           /\ x.producer \in hops[x.consumer].recursive}}
    \cup {<<e.consumer, e.producer>> : e \in {x \in schedule : x.producer \in hops[x.consumer].recursive}}

PrimariesAreLookedAt ==
    pc = "returned" /\ reason = NONE => \A e \in Primaries : packs[e[2]] # NONE

\* How far that goes: the primary was met first in another role, and is not a
\* schedule parent of the consumer.
PrimariesAreFollowed ==
    pc = "returned" /\ reason = NONE =>
        \A e \in Primaries :
            packs[e[2]] # NONE \/ (e[2] \in beside /\ e[2] \notin packs[e[1]].parents)

\* The traversal ends, whatever the task graph.
TraversalEnds == <>(pc \in {"returned", "thrown"})
=============================================================================
