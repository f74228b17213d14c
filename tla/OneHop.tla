------------------------------- MODULE OneHop -------------------------------
(***************************************************************************)
(* The producers one task's READs come from: decideReadOccurrenceProducers *)
(* and the final decision of reconcile-one-hop.ts.                         *)
(*                                                                         *)
(* Data abstraction: an occurrence gives every task its match: none, the   *)
(* partition match is disjoint or unknown, or it overlaps (proven or       *)
(* possible, which the decision does not tell apart) and the producer      *)
(* appends ("into") or overwrites ("over").  The overwrites of one         *)
(* occurrence may overlap each other unless they go to "over1" and "over2",*)
(* two known partitions.                                                   *)
(***************************************************************************)
EXTENDS Integers, Sequences, FiniteSets

CONSTANTS Tasks

Overwrites == {"over", "over1", "over2"}
Matches    == {"none", "disjoint", "unknown", "into"} \cup Overwrites
Usable(m)  == m = "into" \/ m \in Overwrites

MayOverlap(m, n) == m \in Overwrites /\ n \in Overwrites /\ {m, n} # {"over1", "over2"}

\* occ \in [Tasks -> Matches]: an occurrence; parents: the schedule parents.
Candidates(occ) == {t \in Tasks : occ[t] \notin {"none", "disjoint"}}
UsableIn(occ)   == {t \in Tasks : Usable(occ[t])}
Overwriting(occ) == {t \in Tasks : occ[t] \in Overwrites}
Unmatched(occ)  == {t \in Tasks : occ[t] = "unknown"}

\* Slip: several schedule parents settle it as well as one.
Unscheduled(occ, parents) ==
    /\ \E t, u \in Tasks : t # u /\ MayOverlap(occ[t], occ[u])
    /\ Overwriting(occ) \cap parents = {}

\* Two overwrites that may fill the same partition, and not one schedule parent
\* among the overwrites that says which of them the READ means.
Ambiguous(occ, parents) ==
    /\ \E t, u \in Tasks : t # u /\ MayOverlap(occ[t], occ[u])
    /\ Cardinality(Overwriting(occ) \cap parents) # 1

DecisionUnknown(occ, parents) ==
    Unmatched(occ) \cup IF Ambiguous(occ, parents) THEN Overwriting(occ) ELSE {}

ScheduledUsable(occ, parents) == (UsableIn(occ) \cap parents) \ DecisionUnknown(occ, parents)

DecisionPrimary(occ, parents) ==
    IF ScheduledUsable(occ, parents) # {} THEN ScheduledUsable(occ, parents)
    ELSE UsableIn(occ) \ DecisionUnknown(occ, parents)

Decision(occ, parents) ==
    IF Ambiguous(occ, parents) THEN "MULTIPLE_OVERLAPPING_PRODUCERS"
    ELSE IF ScheduledUsable(occ, parents) # {} THEN "SCHEDULE_DATA_INTERSECTION"
    ELSE IF DecisionPrimary(occ, parents) # {} THEN "DATA_FALLBACK"
    ELSE "NO_MATCH"

\* occs: all occurrences of the task.  A task is unknown by its partitions when
\* some table's best match is unknown and none of them overlaps.
UsableTasks(occs)        == UNION {UsableIn(o) : o \in occs}
PartitionUnknown(occs)   == UNION {Unmatched(o) : o \in occs} \ UsableTasks(occs)

PrimaryBy(occs, parents, decision) ==
    UNION {DecisionPrimary(o, parents) : o \in {p \in occs : Decision(p, parents) = decision}}

Reconcile(occs, parents) ==
    LET unknown   == UNION {DecisionUnknown(o, parents) : o \in occs}
        scheduled == PrimaryBy(occs, parents, "SCHEDULE_DATA_INTERSECTION")
        fallback  == PrimaryBy(occs, parents, "DATA_FALLBACK")
        primary   == (IF scheduled # {} THEN scheduled ELSE fallback) \ unknown
        upstream  == IF primary # {} THEN primary
                     ELSE (IF UsableTasks(occs) # {} THEN UsableTasks(occs) ELSE parents) \ unknown
    IN  [primary     |-> upstream,
         recursive   |-> upstream \ PartitionUnknown(occs),
         overlapping |-> \E o \in occs : Ambiguous(o, parents)]

\* The role of a candidate's bridge.
Role(occ, parents, t) ==
    IF t \in DecisionPrimary(occ, parents) THEN "PRIMARY"
    ELSE IF t \in DecisionUnknown(occ, parents) THEN "UNKNOWN"
    ELSE "CANDIDATE"
=============================================================================
