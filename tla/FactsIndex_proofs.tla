-------------------------- MODULE FactsIndex_proofs --------------------------
(***************************************************************************)
(* Proofs about FactsIndex, for any processes, tasks, batches (disjoint or *)
(* not), versions and troubles: the lock file makes the refresh a critical *)
(* section, an incremental refresh loses no row of another batch, and the  *)
(* index never names a manifest that was not committed.  Where no two      *)
(* batches share a task, catalog and index hold what each batch found.     *)
(*                                                                         *)
(* IndexInv holds the three together: that .tmp has the right type when it *)
(* is renamed needs that nobody else wrote it, and that a row carried      *)
(* forward is still the row on disk needs that nobody else renamed.        *)
(***************************************************************************)
EXTENDS FactsIndex, TLAPS

\* The points of runTask after its request is made.
Analysing == {"analysis", "publish", "success"}

\* The locals of a batch at each program point.
LocalsOK == \A p \in Procs :
    /\ pc[p] \in Analysing \cup {"manifest"} => task[p] \in Tasks
    /\ pc[p] \in {"publish", "success"} => work[p].built \in Versions
    /\ pc[p] \in {"merge", "manifest"} /\ ~full[p] => todo[p] \subseteq BatchOf[p]
    /\ pc[p] = "manifest" => task[p] \in todo[p]

\* Rows carried forward by an incremental refresh are the rows on disk.
CarriedForward == \A p \in Procs :
    pc[p] \in {"merge", "manifest", "rename"} /\ ~full[p] /\ index \in Rows =>
        \A t \in Tasks \ BatchOf[p] : rows[p][t] = index[t]

\* Every manifest on its way into the index has been committed.
Committed ==
    /\ \A t \in Tasks : status[t].state = "SUCCESS" => status[t].cur \in committed[t]
    /\ \A p \in Procs : pc[p] = "manifest" /\ seen[p].state = "SUCCESS"
                            => seen[p].cur \in committed[task[p]]
    /\ \A p \in Procs, t \in Tasks : rows[p][t] # NONE => rows[p][t] \in committed[t]
    /\ RowsWereCommitted

IndexInv == TypeOK /\ LocalsOK /\ SingleWriter /\ CarriedForward /\ Committed

\* No process runs, nothing is stored.
LEMMA IndexInit == Init => IndexInv
<1>. SUFFICES ASSUME Init PROVE IndexInv
  OBVIOUS
<1>. USE NoneAssumption, TroubleAssumption DEF Init, FAILED
<1>1. TypeOK
  BY DEF TypeOK, Entries, NoEntry, TaskStatuses, NoStatus, NoWork, NoRows, Rows
<1>2. LocalsOK /\ SingleWriter /\ CarriedForward
  BY DEF LocalsOK, SingleWriter, Refreshing, CarriedForward, Analysing
<1>3. Committed
  BY DEF Committed, RowsWereCommitted, NoStatus, NoRows
<1>. QED BY <1>1, <1>2, <1>3 DEF IndexInv

\* A step of runTask touches neither the index nor its lock.
LEMMA IndexTask ==
    ASSUME IndexInv, NEW p \in Procs, TaskStep(p)
    PROVE  IndexInv'
<1>. USE DEF IndexInv, shared, locals, Goto, Finish
<1>1. TypeOK'
  <2>. USE TroubleAssumption DEF TypeOK, disk, TaskStatuses, Trouble, WriteStatus
  <2>1. CASE StartBatch(p)
    BY <2>1, BatchAssumption, NoneAssumption DEF StartBatch, NoRows
  <2>2. CASE Interrupted(p)
    BY <2>2 DEF Interrupted, NoWork
  <2>3. CASE Reuse(p)
    BY <2>3 DEF Reuse, NoWork
  <2>9. CASE PreparationFails(p)
    BY <2>9 DEF PreparationFails, Trouble, NoWork
  <2>4. CASE Begin(p)
    BY <2>4 DEF Begin
  <2>5. CASE Build(p)
    BY <2>5 DEF Build, LocalsOK, Analysing
  <2>6. CASE Publish(p)
    BY <2>6 DEF Publish, LocalsOK, Analysing
  <2>7. CASE Commit(p)
    BY <2>7 DEF Commit, LocalsOK, Analysing, NoWork
  <2>8. CASE TaskFails(p)
    BY <2>8 DEF TaskFails, LocalsOK, Analysing, NoWork
  <2>. QED BY <2>1, <2>2, <2>3, <2>4, <2>5, <2>6, <2>7, <2>8, <2>9 DEF TaskStep
<1>2. /\ UNCHANGED <<lock, index, temp, full, seen, rows>>
      /\ pc[p] \in {"idle", "tasks"} \cup Analysing
      /\ pc' = [pc EXCEPT ![p] = pc'[p]]
      /\ pc'[p] \in {"tasks"} \cup Analysing
      /\ todo' = [todo EXCEPT ![p] = todo'[p]]
      /\ task' = [task EXCEPT ![p] = task'[p]]
      /\ work' = [work EXCEPT ![p] = work'[p]]
  <2>. USE DEF TypeOK, disk, Analysing
  <2>1. CASE StartBatch(p) \/ Interrupted(p) \/ Reuse(p) \/ PreparationFails(p) \/ Begin(p)
    BY <2>1 DEF StartBatch, Interrupted, Reuse, PreparationFails, Begin
  <2>2. CASE Build(p) \/ Publish(p) \/ Commit(p) \/ TaskFails(p)
    BY <2>2 DEF Build, Publish, Commit, TaskFails
  <2>. QED BY <2>1, <2>2 DEF TaskStep
<1>3. LocalsOK'
  <2>1. /\ pc'[p] \in Analysing => task'[p] \in Tasks
        /\ pc'[p] \in {"publish", "success"} => work'[p].built \in Versions
    <3>. USE DEF TypeOK, LocalsOK, Analysing, disk
    <3>1. CASE StartBatch(p) \/ Interrupted(p) \/ Reuse(p) \/ PreparationFails(p) \/ Begin(p)
      BY <3>1 DEF StartBatch, Interrupted, Reuse, PreparationFails, Begin
    <3>2. CASE Build(p) \/ Publish(p)
      BY <3>2 DEF Build, Publish
    <3>3. CASE Commit(p) \/ TaskFails(p)
      BY <3>3 DEF Commit, TaskFails
    <3>. QED BY <3>1, <3>2, <3>3 DEF TaskStep
  <2>. QED BY <1>2, <2>1 DEF LocalsOK, TypeOK, Analysing
<1>4. SingleWriter' /\ CarriedForward'
  <2>1. \A q \in Procs : pc'[q] \in {"load", "merge", "manifest", "rename", "release"} =>
                             q # p /\ pc'[q] = pc[q]
    BY <1>2 DEF TypeOK, Analysing
  <2>2. SingleWriter'
    BY <1>2, <2>1 DEF SingleWriter, Refreshing
  <2>3. CarriedForward'
    BY <1>2, <2>1 DEF CarriedForward
  <2>. QED BY <2>2, <2>3
<1>5. Committed'
  <2>1. \A t \in Tasks : committed[t] \subseteq committed'[t]
    <3>1. CASE Commit(p)
      BY <3>1 DEF Commit, TypeOK
    <3>2. CASE UNCHANGED committed
      BY <3>2
    <3>. QED
      BY <3>1, <3>2 DEF TaskStep, StartBatch, Interrupted, Reuse, PreparationFails, Begin, Build, Publish, TaskFails, disk
  <2>2. ASSUME NEW t \in Tasks, status'[t].state = "SUCCESS"
        PROVE  status'[t].cur \in committed'[t]
    <3>1. CASE UNCHANGED <<status, committed>>
      BY <2>2, <3>1 DEF Committed
    <3>2. CASE Interrupted(p) \/ Begin(p) \/ TaskFails(p)
      <4>1. \E u \in Tasks, state \in {"ANALYZING", FAILED}, req \in Versions \cup {NONE} :
                WriteStatus(u, state, req, status[u].cur) /\ committed' = committed
        <5>1. CASE Interrupted(p)
          BY <5>1 DEF Interrupted, TypeOK
        <5>2. CASE Begin(p)
          BY <5>2 DEF Begin, TypeOK
        <5>3. CASE TaskFails(p)
          <6>1. pc[p] \in Analysing /\ task[p] \in Tasks /\ work[p].req \in Versions \cup {NONE}
            BY <5>3 DEF TaskFails, LocalsOK, Analysing, TypeOK
          <6>. QED BY <5>3, <6>1 DEF TaskFails
        <5>. QED BY <3>2, <5>1, <5>2, <5>3
      <4>. QED BY <2>2, <4>1 DEF WriteStatus, Committed, TypeOK, FAILED
    <3>3. CASE Commit(p)
      BY <2>2, <3>3 DEF Commit, WriteStatus, Committed, TypeOK, LocalsOK, Analysing
    <3>. QED BY <3>1, <3>2, <3>3 DEF TaskStep, StartBatch, Reuse, PreparationFails, Build, Publish, disk
  <2>3. \A q \in Procs : pc'[q] = "manifest" => pc[q] = "manifest" /\ task'[q] = task[q] /\ task[q] \in Tasks
    BY <1>2 DEF TypeOK, Analysing, LocalsOK
  <2>. QED BY <1>2, <2>1, <2>2, <2>3 DEF Committed, RowsWereCommitted
<1>. QED BY <1>1, <1>3, <1>4, <1>5

\* Nor does a step of the writer catalog.
LEMMA IndexSync ==
    ASSUME IndexInv, NEW p \in Procs, SyncStep(p)
    PROVE  IndexInv'
<1>. USE DEF IndexInv, disk, shared, locals, Goto, TypeOK
<1>1. CASE TasksDone(p)
  <2>1. TypeOK' /\ LocalsOK' /\ Committed'
    BY <1>1, BatchAssumption DEF TasksDone, LocalsOK, Analysing, Committed, RowsWereCommitted
  <2>2. SingleWriter' /\ CarriedForward'
    BY <1>1 DEF TasksDone, SingleWriter, CarriedForward, Refreshing
  <2>. QED BY <2>1, <2>2
<1>2. CASE Catalogue(p)
  <2>1. PICK t \in todo[p] :
            /\ pc[p] = "sync"
            /\ catalog' = [catalog EXCEPT ![t] =
                             IF results[p][t] = FAILED THEN Removed(t) ELSE Upserted(p, t)]
            /\ todo' = [todo EXCEPT ![p] = @ \ {t}]
            /\ UNCHANGED <<disk, lock, index, temp, pc, locals, outcome, trouble>>
    BY <1>2 DEF Catalogue
  <2>2. Removed(t) \in Entries /\ Upserted(p, t) \in Entries
    <3>1. t \in Tasks /\ catalog[t] \in Entries
      BY <2>1
    <3>2. Removed(t) \in Entries
      BY <3>1 DEF Removed, Entries
    <3>3. results[p][t] \in Versions \cup {NONE, FAILED} /\ man[t] \in Versions \cup {NONE}
      BY <3>1
    <3>. QED BY <3>2, <3>3 DEF Upserted, Entries
  <2>3. TypeOK'
    BY <2>1, <2>2
  <2>4. LocalsOK' /\ Committed'
    BY <2>1 DEF LocalsOK, Analysing, Committed, RowsWereCommitted
  <2>5. SingleWriter' /\ CarriedForward'
    BY <2>1 DEF SingleWriter, CarriedForward, Refreshing
  <2>. QED BY <2>3, <2>4, <2>5
<1>3. CASE CatalogueFails(p)
  <2>1. TypeOK'
    BY <1>3, TroubleAssumption DEF CatalogueFails, Trouble, NoRows
  <2>2. LocalsOK' /\ Committed'
    BY <1>3 DEF CatalogueFails, LocalsOK, Analysing, Committed, RowsWereCommitted
  <2>3. SingleWriter' /\ CarriedForward'
    BY <1>3 DEF CatalogueFails, SingleWriter, CarriedForward, Refreshing
  <2>. QED BY <2>1, <2>2, <2>3
<1>. QED BY <1>1, <1>2, <1>3 DEF SyncStep

\* Each step of a refresh, one conjunct of IndexInv after the other.
LEMMA IndexRefresh ==
    ASSUME IndexInv, NEW p \in Procs, IndexStep(p)
    PROVE  IndexInv'
<1>. USE DEF IndexInv, disk, shared, locals, Goto, TypeOK
<1>a. \A q \in Procs \ {p} : lock \in {NONE, p} => ~Refreshing(q)
  BY NoneAssumption DEF SingleWriter
<1>1. CASE Acquire(p)
  <2>1. TypeOK' /\ LocalsOK' /\ Committed'
    BY <1>1 DEF Acquire, LocalsOK, Analysing, Committed, RowsWereCommitted
  <2>2. SingleWriter' /\ CarriedForward'
    BY <1>1, <1>a DEF Acquire, SingleWriter, Refreshing, CarriedForward
  <2>. QED BY <2>1, <2>2
<1>2. CASE Locked(p)
  BY <1>2 DEF Locked, LocalsOK, Analysing, Committed, RowsWereCommitted, SingleWriter, Refreshing, CarriedForward
<1>3. CASE Load(p)
  <2>0. /\ rows' = [rows EXCEPT ![p] = rows'[p]] /\ rows'[p] \in {NoRows, index} \cap Rows
        /\ todo' = [todo EXCEPT ![p] = todo'[p]] /\ todo'[p] \in SUBSET Tasks
        /\ full' = [full EXCEPT ![p] = full'[p]] /\ full'[p] \in BOOLEAN
        /\ UNCHANGED <<disk, shared, task, work, results, seen, outcome, trouble>>
    <3>1. CASE full[p] \/ index \in {NONE, BAD}
      <4>1. NoRows \in Rows
        BY DEF NoRows, Rows
      <4>2. /\ full' = [full EXCEPT ![p] = TRUE] /\ rows' = [rows EXCEPT ![p] = NoRows]
            /\ todo' = [todo EXCEPT ![p] = Tasks]
            /\ UNCHANGED <<disk, shared, task, work, results, seen, outcome, trouble>>
        BY <1>3, <3>1 DEF Load
      <4>. QED BY <4>1, <4>2
    <3>2. CASE ~(full[p] \/ index \in {NONE, BAD})
      <4>1. index \in Rows /\ BatchOf[p] \in SUBSET Tasks
        BY <3>2, BatchAssumption
      <4>2. /\ full' = full /\ rows' = [rows EXCEPT ![p] = index]
            /\ todo' = [todo EXCEPT ![p] = BatchOf[p]]
            /\ UNCHANGED <<disk, shared, task, work, results, seen, outcome, trouble>>
        BY <1>3, <3>2 DEF Load
      <4>. QED BY <4>1, <4>2
    <3>. QED BY <3>1, <3>2
  <2>1. TypeOK'
    BY <1>3, <2>0 DEF Load
  <2>2. LocalsOK'
    BY <1>3 DEF Load, LocalsOK, Analysing
  <2>3. Committed'
    <3>1. \A t \in Tasks : rows'[p][t] # NONE => rows'[p][t] \in committed[t]
      BY <2>0 DEF NoRows, Committed, RowsWereCommitted
    <3>2. \A q \in Procs : pc'[q] = "manifest" => pc[q] = "manifest"
      BY <1>3 DEF Load
    <3>3. \A q \in Procs, t \in Tasks : rows'[q][t] # NONE => rows'[q][t] \in committed[t]
      BY <2>0, <3>1 DEF Committed
    <3>4. \A t \in Tasks : status'[t].state = "SUCCESS" => status'[t].cur \in committed'[t]
      BY <2>0 DEF Committed
    <3>5. \A q \in Procs : pc'[q] = "manifest" /\ seen'[q].state = "SUCCESS"
                                => seen'[q].cur \in committed'[task'[q]]
      BY <2>0, <3>2 DEF Committed
    <3>6. RowsWereCommitted'
      BY <2>0 DEF Committed, RowsWereCommitted
    <3>7. \A q \in Procs, t \in Tasks : rows'[q][t] # NONE => rows'[q][t] \in committed'[t]
      BY <2>0, <3>3
    <3>. QED BY <3>4, <3>5, <3>6, <3>7 DEF Committed
  <2>4. SingleWriter'
    BY <1>3, <1>a DEF Load, SingleWriter, Refreshing
  <2>5. CarriedForward'
    BY <1>3, <1>a DEF Load, CarriedForward, Refreshing
  <2>. QED BY <2>1, <2>2, <2>3, <2>4, <2>5
<1>4. CASE DropRow(p)
  <2>1. TypeOK'
    BY <1>4 DEF DropRow, Rows
  <2>2. LocalsOK'
    BY <1>4 DEF DropRow, LocalsOK, Analysing
  <2>3. Committed'
    BY <1>4 DEF DropRow, Rows, Committed, RowsWereCommitted
  <2>4. SingleWriter'
    BY <1>4, <1>a DEF DropRow, SingleWriter, Refreshing
  <2>5. CarriedForward'
    <3>1. PICK t \in todo[p] : rows' = [rows EXCEPT ![p][t] = NONE]
      BY <1>4 DEF DropRow
    <3>2. t \in BatchOf[p]
      BY <1>4 DEF DropRow, LocalsOK
    <3>3. \A u \in Tasks \ BatchOf[p] : rows'[p][u] = rows[p][u]
      BY <3>1, <3>2 DEF Rows
    <3>. QED BY <1>4, <1>a, <3>3 DEF DropRow, CarriedForward, Refreshing
  <2>. QED BY <2>1, <2>2, <2>3, <2>4, <2>5
<1>5. CASE ReadStatus(p)
  <2>1. TypeOK'
    BY <1>5 DEF ReadStatus
  <2>2. LocalsOK'
    BY <1>5 DEF ReadStatus, LocalsOK, Analysing
  <2>3. Committed'
    BY <1>5 DEF ReadStatus, Committed, RowsWereCommitted
  <2>4. SingleWriter' /\ CarriedForward'
    BY <1>5, <1>a DEF ReadStatus, SingleWriter, CarriedForward, Refreshing
  <2>. QED BY <2>1, <2>2, <2>3, <2>4
<1>6. CASE ReadManifest(p)
  <2>0. task[p] \in Tasks /\ (~full[p] => task[p] \in BatchOf[p])
    BY <1>6 DEF ReadManifest, LocalsOK, Analysing
  <2>1. TypeOK'
    BY <1>6, <2>0 DEF ReadManifest, Rows, TaskStatuses, NoStatus
  <2>2. LocalsOK'
    BY <1>6 DEF ReadManifest, LocalsOK, Analysing
  <2>3. Committed'
    BY <1>6, <2>0 DEF ReadManifest, RowAccepted, Rows, Committed, RowsWereCommitted
  <2>4. SingleWriter'
    BY <1>6, <1>a DEF ReadManifest, SingleWriter, Refreshing
  <2>5. CarriedForward'
    BY <1>6, <1>a, <2>0 DEF ReadManifest, CarriedForward, Refreshing, Rows
  <2>. QED BY <2>1, <2>2, <2>3, <2>4, <2>5
<1>7. CASE WriteTemp(p)
  <2>1. TypeOK' /\ LocalsOK' /\ Committed'
    BY <1>7 DEF WriteTemp, LocalsOK, Analysing, Committed, RowsWereCommitted
  <2>2. SingleWriter' /\ CarriedForward'
    BY <1>7, <1>a DEF WriteTemp, SingleWriter, CarriedForward, Refreshing
  <2>. QED BY <2>1, <2>2
<1>8. CASE Rename(p)
  <2>0. temp = rows[p]
    BY <1>8 DEF Rename, SingleWriter, Refreshing
  <2>1. TypeOK' /\ LocalsOK'
    BY <1>8, <2>0 DEF Rename, LocalsOK, Analysing
  <2>2. Committed'
    BY <1>8, <2>0 DEF Rename, Committed, RowsWereCommitted
  <2>3. SingleWriter' /\ CarriedForward'
    BY <1>8, <1>a DEF Rename, SingleWriter, CarriedForward, Refreshing
  <2>. QED BY <2>1, <2>2, <2>3
<1>9. CASE RenameFails(p)
  <2>1. TypeOK' /\ LocalsOK' /\ Committed'
    BY <1>9, TroubleAssumption DEF RenameFails, Trouble, LocalsOK, Analysing, Committed, RowsWereCommitted
  <2>2. SingleWriter' /\ CarriedForward'
    BY <1>9, <1>a DEF RenameFails, SingleWriter, CarriedForward, Refreshing
  <2>. QED BY <2>1, <2>2
<1>10. CASE Release(p)
  <2>1. TypeOK'
    BY <1>10 DEF Release, Rows, NoRows
  <2>2. LocalsOK' /\ Committed'
    BY <1>10 DEF Release, NoRows, LocalsOK, Analysing, Committed, RowsWereCommitted
  <2>3. SingleWriter' /\ CarriedForward'
    BY <1>10, <1>a DEF Release, SingleWriter, CarriedForward, Refreshing
  <2>. QED BY <2>1, <2>2, <2>3
<1>. QED
  BY <1>1, <1>2, <1>3, <1>4, <1>5, <1>6, <1>7, <1>8, <1>9, <1>10 DEF IndexStep

\* A crash leaves the lock to nobody that refreshes; a leftover lock may go;
\* a damaged index has no rows.
LEMMA IndexEnvironment ==
    ASSUME IndexInv,
           \/ \E p \in Procs : Crash(p)
           \/ RemoveLock \/ EditInput \/ DamageIndex
           \/ UNCHANGED vars
    PROVE  IndexInv'
<1>. USE TroubleAssumption DEF IndexInv, disk, shared, locals, TypeOK, Trouble
<1>1. ASSUME NEW p \in Procs, Crash(p)
      PROVE  IndexInv'
  <2>1. TypeOK'
    BY <1>1, NoneAssumption DEF Crash, NoWork, NoRows, Rows, NoStatus, TaskStatuses
  <2>2. LocalsOK' /\ Committed'
    BY <1>1 DEF Crash, NoRows, LocalsOK, Analysing, Committed, RowsWereCommitted
  <2>3. SingleWriter' /\ CarriedForward'
    BY <1>1 DEF Crash, SingleWriter, CarriedForward, Refreshing
  <2>. QED BY <2>1, <2>2, <2>3
<1>2. CASE RemoveLock
  BY <1>2, NoneAssumption DEF RemoveLock, Leftover, LocalsOK, Committed, RowsWereCommitted, SingleWriter, CarriedForward, Refreshing
<1>3. CASE EditInput
  BY <1>3 DEF EditInput, LocalsOK, Committed, RowsWereCommitted, SingleWriter, CarriedForward, Refreshing
<1>4. CASE DamageIndex
  BY <1>4, NoneAssumption DEF DamageIndex, LocalsOK, Committed, RowsWereCommitted, SingleWriter, CarriedForward, Refreshing
<1>5. CASE UNCHANGED vars
  BY <1>5 DEF vars, LocalsOK, Committed, RowsWereCommitted, SingleWriter, CarriedForward, Refreshing
<1>. QED BY <1>1, <1>2, <1>3, <1>4, <1>5

\* IndexInv holds in every reachable state.
LEMMA IndexInvariant == Spec => []IndexInv
<1>1. IndexInv /\ [Next]_vars => IndexInv'
  BY IndexTask, IndexSync, IndexRefresh, IndexEnvironment DEF Next
<1>. QED BY IndexInit, <1>1, PTL DEF Spec

\* Type correctness of the index and of the batches.
THEOREM IndexTypeCorrect == Spec => []TypeOK
<1>1. IndexInv => TypeOK
  BY DEF IndexInv
<1>. QED BY IndexInvariant, <1>1, PTL

\* The lock file is a single-writer guard, whoever crashes and whoever
\* removes a leftover lock.
THEOREM IndexSingleWriter == Spec => []SingleWriter
<1>1. IndexInv => SingleWriter
  BY DEF IndexInv
<1>. QED BY IndexInvariant, <1>1, PTL

\* At most one process refreshes the index at a time.
THEOREM IndexMutualExclusion ==
    Spec => [](\A p, q \in Procs : Refreshing(p) /\ Refreshing(q) => p = q)
<1>1. IndexInv => \A p, q \in Procs : Refreshing(p) /\ Refreshing(q) => p = q
  BY DEF IndexInv, SingleWriter
<1>. QED BY IndexInvariant, <1>1, PTL

\* The index never names a manifest that no SUCCESS status has named: not
\* for a moment between the swap of a bundle and its status.
THEOREM IndexRowsCommitted == Spec => []RowsWereCommitted
<1>1. IndexInv => RowsWereCommitted
  BY DEF IndexInv, Committed
<1>. QED BY IndexInvariant, <1>1, PTL

\* No incremental refresh undoes what another batch wrote about other tasks.
THEOREM IndexOtherRowsKept == Spec => OtherRowsKept
<1>1. IndexInv /\ [Next]_vars =>
        [\A p \in Procs : Rename(p) /\ ~full[p] /\ index \in Rows =>
            \A t \in Tasks \ BatchOf[p] : index'[t] = index[t]]_vars
  BY DEF IndexInv, CarriedForward, SingleWriter, Refreshing, Rename, Goto
<1>. QED BY IndexInvariant, <1>1, PTL DEF Spec, OtherRowsKept


(***************************************************************************)
(* The writer catalog, for batches that share no task: the result a batch  *)
(* keeps in memory is the manifest on disk until it has been catalogued.   *)
(***************************************************************************)
DisjointBatches == \A p, q \in Procs : p # q => BatchOf[p] \cap BatchOf[q] = {}

\* The tasks a batch has still to analyse have no result.
PendingHaveNone == \A p \in Procs :
    /\ pc[p] \in {"tasks", "sync"} \cup Analysing => todo[p] \subseteq BatchOf[p]
    /\ pc[p] \in {"tasks"} \cup Analysing => \A t \in todo[p] : results[p][t] = NONE
    /\ pc[p] \in Analysing => task[p] \in todo[p]

\* A successful result is the manifest of the bundle.
ResultsOnDisk == \A p \in Procs :
    /\ pc[p] = "success" => man[task[p]] = work[p].built
    /\ \A t \in BatchOf[p] :
          results[p][t] \notin {NONE, FAILED} => man[t] = results[p][t]

CatalogInv == PendingHaveNone /\ ResultsOnDisk /\ OwnResultsCatalogued

\* No batch has a result.
LEMMA CatalogInit == Init => CatalogInv
BY BatchAssumption, CatalogAssumption
   DEF Init, CatalogInv, PendingHaveNone, ResultsOnDisk, OwnResultsCatalogued, Analysing, NoRows

\* A step of runTask changes the results and the bundles of its own batch.
LEMMA CatalogTask ==
    ASSUME DisjointBatches, IndexInv, CatalogInv, NEW p \in Procs, TaskStep(p)
    PROVE  CatalogInv'
<1>. USE BatchAssumption, CatalogAssumption DEF IndexInv, CatalogInv, TypeOK, disk, shared, locals, Goto
<1>0. /\ UNCHANGED catalog
      /\ pc[p] \in {"idle", "tasks"} \cup Analysing
      /\ pc'[p] \in {"tasks"} \cup Analysing
      /\ \A q \in Procs : q # p =>
            /\ pc'[q] = pc[q] /\ todo'[q] = todo[q] /\ task'[q] = task[q]
            /\ work'[q] = work[q] /\ results'[q] = results[q]
  <2>. USE DEF Analysing, Finish
  <2>1. CASE StartBatch(p) \/ Interrupted(p) \/ Reuse(p) \/ PreparationFails(p) \/ Begin(p)
    BY <2>1 DEF StartBatch, Interrupted, Reuse, PreparationFails, Begin
  <2>2. CASE Build(p) \/ Publish(p) \/ Commit(p) \/ TaskFails(p)
    BY <2>2 DEF Build, Publish, Commit, TaskFails
  <2>. QED BY <2>1, <2>2 DEF TaskStep
<1>1. PendingHaveNone'
  <2>1. /\ todo'[p] \subseteq BatchOf[p]
        /\ \A t \in todo'[p] : results'[p][t] = NONE
        /\ pc'[p] \in Analysing => task'[p] \in todo'[p]
    <3>. USE DEF PendingHaveNone, Analysing
    <3>1. CASE StartBatch(p)
      BY <3>1 DEF StartBatch, NoRows
    <3>2. CASE Interrupted(p) \/ Reuse(p) \/ PreparationFails(p)
      BY <3>2 DEF Interrupted, Reuse, PreparationFails, Finish
    <3>3. CASE Begin(p)
      BY <3>3 DEF Begin
    <3>4. CASE Build(p) \/ Publish(p)
      BY <3>4 DEF Build, Publish
    <3>5. CASE Commit(p) \/ TaskFails(p)
      BY <3>5 DEF Commit, TaskFails, Finish
    <3>. QED BY <3>1, <3>2, <3>3, <3>4, <3>5 DEF TaskStep
  <2>2. PendingHaveNone
    OBVIOUS
  <2>. QED BY ONLY <1>0, <2>1, <2>2 DEF PendingHaveNone, Analysing
<1>2. ResultsOnDisk'
  <2>1. ASSUME NEW q \in Procs, q # p
        PROVE  \A t \in BatchOf[q] : man'[t] = man[t]
    <3>1. CASE Publish(p)
      <4>1. task[p] \in BatchOf[p]
        BY <3>1 DEF Publish, PendingHaveNone, Analysing
      <4>. QED BY <2>1, <3>1, <4>1 DEF Publish, DisjointBatches
    <3>2. CASE UNCHANGED man
      BY <3>2
    <3>. QED
      BY <3>1, <3>2 DEF TaskStep, StartBatch, Interrupted, Reuse, PreparationFails, Begin, Build, Commit, TaskFails
  <2>2. ASSUME NEW q \in Procs, q # p, pc[q] = "success"
        PROVE  task[q] \in BatchOf[q]
    BY <2>2 DEF PendingHaveNone, Analysing
  <2>3. /\ pc'[p] = "success" => man'[task'[p]] = work'[p].built
        /\ \A t \in BatchOf[p] :
              results'[p][t] \notin {NONE, FAILED} => man'[t] = results'[p][t]
    <3>. USE DEF ResultsOnDisk
    <3>1. CASE StartBatch(p)
      BY <3>1 DEF StartBatch, NoRows
    <3>2. CASE Interrupted(p) \/ Reuse(p) \/ PreparationFails(p)
      <4>1. PICK t \in todo[p] : \E res \in {FAILED, man[t]} :
                /\ pc' = [pc EXCEPT ![p] = "tasks"]
                /\ results' = [results EXCEPT ![p][t] = res]
                /\ man' = man
        BY <3>2 DEF Interrupted, Reuse, PreparationFails, Finish
      <4>2. /\ pc'[p] = "tasks"
            /\ \A u \in Tasks : u # t => results'[p][u] = results[p][u]
            /\ results'[p][t] \in {FAILED, man[t]}
        BY <4>1
      <4>. QED BY <4>1, <4>2
    <3>3. CASE Begin(p) \/ Build(p)
      BY <3>3 DEF Begin, Build
    <3>4. CASE Publish(p)
      <4>1. task[p] \in Tasks /\ results[p][task[p]] = NONE
        BY <3>4 DEF Publish, PendingHaveNone, Analysing
      <4>. QED BY <3>4, <4>1 DEF Publish
    <3>5. CASE Commit(p) \/ TaskFails(p)
      <4>1. PICK res \in {FAILED, work[p].built} :
                /\ res = FAILED \/ pc[p] = "success"
                /\ pc' = [pc EXCEPT ![p] = "tasks"]
                /\ results' = [results EXCEPT ![p][task[p]] = res]
                /\ man' = man
        BY <3>5 DEF Commit, TaskFails, Finish
      <4>2. /\ pc'[p] = "tasks"
            /\ \A u \in Tasks : results'[p][u] = IF u = task[p] THEN res ELSE results[p][u]
        BY <4>1
      <4>. QED BY <4>1, <4>2
    <3>. QED BY <3>1, <3>2, <3>3, <3>4, <3>5 DEF TaskStep
  <2>4. ResultsOnDisk
    OBVIOUS
  <2>. QED BY ONLY <1>0, <2>1, <2>2, <2>3, <2>4 DEF ResultsOnDisk, Analysing
<1>3. OwnResultsCatalogued'
  <2>1. OwnResultsCatalogued /\ Cataloguing \subseteq Procs
    OBVIOUS
  <2>. QED BY ONLY <1>0, <2>1 DEF OwnResultsCatalogued, Refreshing, Analysing
<1>. QED BY <1>1, <1>2, <1>3

\* What is written about a task is the result of the one batch it belongs to.
LEMMA CatalogSync ==
    ASSUME DisjointBatches, IndexInv, CatalogInv, NEW p \in Procs, SyncStep(p)
    PROVE  CatalogInv'
<1>. USE BatchAssumption, CatalogAssumption DEF IndexInv, CatalogInv, TypeOK, disk, shared, locals, Goto
<1>1. CASE TasksDone(p)
  <2>1. PendingHaveNone' /\ ResultsOnDisk'
    BY <1>1 DEF TasksDone, PendingHaveNone, ResultsOnDisk, Analysing
  <2>2. OwnResultsCatalogued'
    BY <1>1 DEF TasksDone, OwnResultsCatalogued, Refreshing
  <2>. QED BY <2>1, <2>2
<1>2. CASE Catalogue(p)
  <2>1. PICK t \in todo[p] :
            /\ pc[p] = "sync"
            /\ catalog' = [catalog EXCEPT ![t] =
                             IF results[p][t] = FAILED THEN Removed(t) ELSE Upserted(p, t)]
            /\ todo' = [todo EXCEPT ![p] = @ \ {t}]
            /\ UNCHANGED <<disk, lock, index, temp, pc, locals, outcome, trouble>>
    BY <1>2 DEF Catalogue
  <2>2. t \in BatchOf[p] /\ t \in Tasks
    BY <2>1 DEF PendingHaveNone
  <2>3. PendingHaveNone' /\ ResultsOnDisk'
    BY <2>1 DEF PendingHaveNone, ResultsOnDisk, Analysing
  <2>4. ASSUME NEW q \in Cataloguing, NEW u \in BatchOf[q], u # t \/ q # p
        PROVE  catalog'[u] = catalog[u] /\ (q = p => (u \in todo'[q] <=> u \in todo[q]))
                   /\ (q # p => todo'[q] = todo[q])
    BY <2>1, <2>2, <2>4 DEF DisjointBatches
  <2>5. results[p][t] # NONE =>
            IF results[p][t] = FAILED
            THEN catalog'[t].state = FAILED /\ catalog'[t].writers = NONE
            ELSE catalog'[t] = [state |-> "SUCCESS", man |-> results[p][t], writers |-> results[p][t]]
    <3>1. catalog'[t] = IF results[p][t] = FAILED THEN Removed(t) ELSE Upserted(p, t)
      BY <2>1, <2>2
    <3>2. CASE results[p][t] = FAILED
      BY <2>2, <3>1, <3>2 DEF Removed, Entries
    <3>3. CASE results[p][t] \notin {NONE, FAILED}
      BY <2>2, <3>1, <3>3 DEF Upserted, ResultsOnDisk
    <3>. QED BY <3>2, <3>3
  <2>6. OwnResultsCatalogued'
    BY <2>1, <2>4, <2>5 DEF OwnResultsCatalogued, Refreshing
  <2>. QED BY <2>3, <2>6
<1>3. CASE CatalogueFails(p)
  <2>1. PendingHaveNone' /\ ResultsOnDisk'
    BY <1>3 DEF CatalogueFails, PendingHaveNone, ResultsOnDisk, Analysing, NoRows
  <2>2. OwnResultsCatalogued'
    BY <1>3 DEF CatalogueFails, OwnResultsCatalogued, Refreshing, NoRows
  <2>. QED BY <2>1, <2>2
<1>. QED BY <1>1, <1>2, <1>3 DEF SyncStep

\* A refresh reads the results, a crash forgets them, the rest ignores them.
LEMMA CatalogOthers ==
    ASSUME IndexInv, CatalogInv,
           \/ \E p \in Procs : IndexStep(p) \/ Crash(p)
           \/ RemoveLock \/ EditInput \/ DamageIndex
           \/ UNCHANGED vars
    PROVE  CatalogInv'
<1>. USE BatchAssumption, CatalogAssumption DEF IndexInv, CatalogInv, TypeOK, disk, shared, locals, Goto
<1>1. ASSUME NEW p \in Procs, IndexStep(p)
      PROVE  CatalogInv'
  <2>1. /\ UNCHANGED <<disk, catalog, results, work>>
        /\ pc[p] \notin {"idle", "tasks"} \cup Analysing
        /\ pc' = [pc EXCEPT ![p] = pc'[p]]
        /\ pc'[p] = "idle" \/ Refreshing(p)'
        /\ pc[p] = "sync" => todo[p] = {}
        /\ \A q \in Procs : q # p => todo'[q] = todo[q] /\ task'[q] = task[q]
    <3>. USE DEF Analysing, Refreshing
    <3>1. CASE Acquire(p) \/ Locked(p) \/ Load(p) \/ DropRow(p) \/ ReadStatus(p)
      BY <3>1 DEF Acquire, Locked, Load, DropRow, ReadStatus
    <3>2. CASE ReadManifest(p) \/ WriteTemp(p) \/ Rename(p) \/ RenameFails(p) \/ Release(p)
      BY <3>2 DEF ReadManifest, WriteTemp, Rename, RenameFails, Release
    <3>. QED BY <1>1, <3>1, <3>2 DEF IndexStep
  <2>2. \A q \in Procs : pc'[q] \in {"tasks", "sync"} \cup Analysing =>
            q # p /\ pc[q] = pc'[q] /\ todo'[q] = todo[q] /\ task'[q] = task[q]
    BY <2>1 DEF Refreshing, Analysing
  <2>4. PendingHaveNone'
    BY <2>1, <2>2 DEF PendingHaveNone
  <2>5. ResultsOnDisk'
    BY <2>1, <2>2 DEF ResultsOnDisk, Analysing
  <2>3. OwnResultsCatalogued'
    BY <2>1 DEF OwnResultsCatalogued, Refreshing, Analysing
  <2>. QED BY <2>3, <2>4, <2>5
<1>2. ASSUME NEW p \in Procs, Crash(p)
      PROVE  CatalogInv'
  <2>1. PendingHaveNone' /\ ResultsOnDisk'
    BY <1>2 DEF Crash, PendingHaveNone, ResultsOnDisk, Analysing, NoRows
  <2>2. OwnResultsCatalogued'
    BY <1>2 DEF Crash, OwnResultsCatalogued, Refreshing, NoRows
  <2>. QED BY <2>1, <2>2
<1>3. CASE RemoveLock \/ EditInput \/ DamageIndex \/ UNCHANGED vars
  <2>1. UNCHANGED <<man, catalog, pc, todo, task, work, results>>
    BY <1>3 DEF RemoveLock, EditInput, DamageIndex, vars
  <2>. QED BY <2>1 DEF PendingHaveNone, ResultsOnDisk, OwnResultsCatalogued, Refreshing, Analysing
<1>. QED BY <1>1, <1>2, <1>3

\* However many batches run, as long as no two share a task, the catalog holds
\* what each batch found of its own tasks, the writers of the very manifest.
THEOREM CatalogHoldsOwnResults ==
    ASSUME DisjointBatches
    PROVE  Spec => []OwnResultsCatalogued
<1>1. IndexInv /\ CatalogInv /\ [Next]_vars => CatalogInv'
  BY CatalogTask, CatalogSync, CatalogOthers DEF Next
<1>2. CatalogInv => OwnResultsCatalogued
  BY DEF CatalogInv
<1>. QED BY CatalogInit, IndexInvariant, <1>1, <1>2, PTL DEF Spec

-----------------------------------------------------------------------------
(***************************************************************************)
(* OwnResultsIndexed, for batches that do not share tasks: from the moment *)
(* a batch has renamed its index, the index, and whatever another refresh  *)
(* has read of it or reads again of the directories, has its results.      *)
(***************************************************************************)
Settled(p) == outcome[p] = "INDEXED" /\ pc[p] \in {"release", "idle"}

\* The row of t is what batch p has to find.
Good(p, t, row) ==
    IF results[p][t] = FAILED
    THEN status[t].state # "SUCCESS" => row = NONE
    ELSE status[t].req = status[t].cur => row = results[p][t]

ResultsThere == \A p \in Procs :
    /\ pc[p] \in {"tasks"} \cup Analysing => \A t \in BatchOf[p] \ todo[p] : results[p][t] # NONE
    /\ pc[p] = "sync" \/ Refreshing(p) \/ Settled(p) => \A t \in BatchOf[p] : results[p][t] # NONE

\* A successful result is what the status names.
ResultsNamed == \A p \in Procs : \A t \in BatchOf[p] :
    results[p][t] \notin {NONE, FAILED} => status[t].state = "SUCCESS" /\ status[t].cur = results[p][t]

\* The rows q is collecting, for its own tasks and those of settled batches.
RowsGood == \A q \in Procs : pc[q] \in {"merge", "manifest", "rename"} =>
    /\ pc[q] = "rename" => todo[q] = {}
    /\ pc[q] = "manifest" /\ ~full[q] => results[q][task[q]] # FAILED
    /\ full[q] => \A t \in todo[q] : rows[q][t] = NONE
    /\ \A p \in Procs : p = q \/ Settled(p) => \A t \in BatchOf[p] :
          /\ t \notin todo[q] => Good(p, t, rows[q][t])
          /\ pc[q] = "manifest" /\ task[q] = t => seen[q] = status[t]

IndexGood == \A p \in Procs :
    Settled(p) /\ index \in Rows => \A t \in BatchOf[p] : Good(p, t, index[t])

IndexedInv == ResultsThere /\ ResultsNamed /\ RowsGood /\ IndexGood

\* What a batch reuses is committed.
LEMMA CurrentIs ==
    ASSUME NEW t, Current(t)
    PROVE  status[t].state = "SUCCESS" /\ status[t].cur = man[t] /\ man[t] = input[t]
<1>1. status[t] = [state |-> "SUCCESS", req |-> input[t], cur |-> input[t]] /\ man[t] = input[t]
  BY DEF Current
<1>. QED BY ONLY <1>1

LEMMA IndexedInit == Init => IndexedInv
BY BatchAssumption
   DEF Init, IndexedInv, ResultsThere, ResultsNamed, RowsGood, IndexGood, Settled, Refreshing, Analysing, NoRows

\* What a batch does to its own tasks no other batch is concerned with.
LEMMA IndexedTask ==
    ASSUME DisjointBatches, IndexInv, CatalogInv, IndexedInv, NEW p \in Procs, TaskStep(p)
    PROVE  IndexedInv'
<1>. USE BatchAssumption DEF IndexInv, TypeOK, disk, shared, locals, Goto
<1>0. /\ UNCHANGED <<index, temp, full, seen, rows>>
      /\ pc'[p] \in {"tasks"} \cup Analysing
      /\ \A q \in Procs : q # p =>
            /\ pc'[q] = pc[q] /\ todo'[q] = todo[q] /\ task'[q] = task[q]
            /\ results'[q] = results[q] /\ outcome'[q] = outcome[q]
  <2>. USE DEF Analysing, Finish
  <2>1. CASE StartBatch(p) \/ Interrupted(p) \/ Reuse(p) \/ PreparationFails(p) \/ Begin(p)
    BY <2>1 DEF StartBatch, Interrupted, Reuse, PreparationFails, Begin
  <2>2. CASE Build(p) \/ Publish(p) \/ Commit(p) \/ TaskFails(p)
    BY <2>2 DEF Build, Publish, Commit, TaskFails
  <2>. QED BY <2>1, <2>2 DEF TaskStep
<1>1. \A t \in Tasks : status'[t] # status[t] => t \in BatchOf[p] /\ results[p][t] = NONE
  <2>. USE DEF WriteStatus, CatalogInv, PendingHaveNone, Analysing
  <2>1. CASE StartBatch(p) \/ Reuse(p) \/ PreparationFails(p) \/ Build(p) \/ Publish(p)
    BY <2>1 DEF StartBatch, Reuse, PreparationFails, Build, Publish
  <2>2. CASE Interrupted(p) \/ Begin(p)
    BY <2>2 DEF Interrupted, Begin
  <2>3. CASE Commit(p) \/ TaskFails(p)
    BY <2>3 DEF Commit, TaskFails
  <2>. QED BY <2>1, <2>2, <2>3 DEF TaskStep
<1>2. \A q \in Procs : q # p => \A t \in BatchOf[q] : status'[t] = status[t]
  BY <1>1 DEF DisjointBatches
<1>3. ResultsThere'
  <2>1. \A t \in BatchOf[p] \ todo'[p] : results'[p][t] # NONE
    <3>. USE NoneAssumption DEF ResultsThere, IndexedInv, Analysing, FAILED
    <3>1. CASE StartBatch(p)
      BY <3>1 DEF StartBatch
    <3>2. CASE Interrupted(p) \/ PreparationFails(p) \/ Reuse(p)
      <4>1. PICK t \in todo[p] : \E res \in {FAILED, man[t]} :
                /\ res # NONE
                /\ results' = [results EXCEPT ![p][t] = res]
                /\ todo' = [todo EXCEPT ![p] = @ \ {t}]
        <5>1. ASSUME Reuse(p) PROVE \E t \in todo[p] : /\ man[t] # NONE
                                                       /\ Finish(p, t, man[t])
          BY ONLY CurrentIs, NoneAssumption, TypeOK, <5>1 DEF Reuse, TypeOK
        <5>2. ASSUME Interrupted(p) \/ PreparationFails(p)
              PROVE \E t \in todo[p] : Finish(p, t, FAILED)
          BY <5>2 DEF Interrupted, PreparationFails
        <5>. QED BY <3>2, <5>1, <5>2 DEF Finish
      <4>2. \A u \in Tasks : u # t => results'[p][u] = results[p][u]
        BY <4>1
      <4>3. results'[p][t] # NONE
        BY <4>1
      <4>4. todo'[p] = todo[p] \ {t} /\ pc[p] = "tasks"
        BY <3>2, <4>1 DEF Interrupted, PreparationFails, Reuse
      <4>. QED BY <4>2, <4>3, <4>4
    <3>4. CASE Begin(p) \/ Build(p) \/ Publish(p)
      BY <3>4 DEF Begin, Build, Publish
    <3>5. CASE Commit(p)
      <4>1. work[p].built # NONE
        BY <3>5 DEF Commit, LocalsOK
      <4>. QED BY <3>5, <4>1 DEF Commit, Finish
    <3>6. CASE TaskFails(p)
      BY <3>6 DEF TaskFails, Finish
    <3>. QED BY <3>1, <3>2, <3>4, <3>5, <3>6 DEF TaskStep
  <2>2. ResultsThere
    BY DEF IndexedInv
  <2>. QED BY ONLY <1>0, <2>1, <2>2 DEF ResultsThere, Settled, Refreshing, Analysing
<1>4. ResultsNamed'
  <2>1. \A t \in BatchOf[p] : results'[p][t] \notin {NONE, FAILED} =>
            status'[t].state = "SUCCESS" /\ status'[t].cur = results'[p][t]
    <3>. USE DEF ResultsNamed, IndexedInv
    <3>1. CASE StartBatch(p)
      BY <3>1 DEF StartBatch, NoRows
    <3>2. CASE Interrupted(p) \/ PreparationFails(p) \/ Reuse(p)
      <4>1. PICK t \in todo[p] : \E res \in {FAILED, man[t]} :
                /\ results' = [results EXCEPT ![p][t] = res]
                /\ res # FAILED => status' = status /\ status[t].state = "SUCCESS" /\ status[t].cur = man[t]
        <5>1. ASSUME Reuse(p)
              PROVE \E t \in todo[p] : /\ status' = status /\ status[t].state = "SUCCESS"
                                       /\ status[t].cur = man[t] /\ Finish(p, t, man[t])
          BY ONLY CurrentIs, <5>1 DEF Reuse, disk
        <5>2. ASSUME Interrupted(p) \/ PreparationFails(p)
              PROVE \E t \in todo[p] : Finish(p, t, FAILED)
          BY <5>2 DEF Interrupted, PreparationFails
        <5>. QED BY <3>2, <5>1, <5>2 DEF Finish
      <4>2. /\ \A u \in Tasks : u # t => results'[p][u] = results[p][u]
            /\ results'[p][t] \in {FAILED, man[t]}
            /\ results'[p][t] # FAILED => /\ status' = status /\ status[t].state = "SUCCESS"
                                          /\ status[t].cur = man[t]
        BY <4>1
      <4>3. \A u \in BatchOf[p] : u # t /\ results[p][u] # NONE => status'[u] = status[u]
        BY <1>1
      <4>. QED BY <4>2, <4>3
    <3>3. CASE Begin(p) \/ Build(p) \/ Publish(p)
      BY <1>1, <3>3 DEF Begin, Build, Publish
    <3>4. CASE Commit(p) \/ TaskFails(p)
      <4>1. PICK res \in {FAILED, work[p].built} :
                /\ results' = [results EXCEPT ![p][task[p]] = res]
                /\ res # FAILED => status'[task[p]].state = "SUCCESS" /\ status'[task[p]].cur = res
        BY <3>4 DEF Commit, TaskFails, Finish, WriteStatus, LocalsOK, Analysing
      <4>2. \A u \in Tasks : results'[p][u] = IF u = task[p] THEN res ELSE results[p][u]
        BY <4>1
      <4>. QED BY <1>1, <4>1, <4>2
    <3>. QED BY <3>1, <3>2, <3>3, <3>4 DEF TaskStep
  <2>2. ResultsNamed
    BY DEF IndexedInv
  <2>. QED BY ONLY <1>0, <1>2, <2>1, <2>2 DEF ResultsNamed
<1>5. RowsGood' /\ IndexGood'
  <2>1. \A q \in Procs : pc'[q] \in {"merge", "manifest", "rename"} \/ Settled(q)' =>
            q # p /\ pc'[q] = pc[q] /\ (Settled(q)' <=> Settled(q))
    BY <1>0 DEF Settled, Analysing
  <2>2. RowsGood /\ IndexGood
    BY DEF IndexedInv
  <2>. QED BY ONLY <1>0, <1>2, <2>1, <2>2 DEF RowsGood, IndexGood, Good
<1>. QED BY <1>3, <1>4, <1>5 DEF IndexedInv

\* The catalog has no part in it.
LEMMA IndexedSync ==
    ASSUME IndexInv, CatalogInv, IndexedInv, NEW p \in Procs, SyncStep(p)
    PROVE  IndexedInv'
<1>. USE BatchAssumption DEF IndexInv, TypeOK, disk, shared, locals, Goto
<1>1. /\ UNCHANGED <<status, index, full, seen, rows, task>>
      /\ pc[p] \in {"tasks", "sync"}
      /\ \A q \in Procs : q # p =>
            pc'[q] = pc[q] /\ todo'[q] = todo[q] /\ results'[q] = results[q] /\ outcome'[q] = outcome[q]
      /\ \/ pc'[p] = "sync" /\ results' = results /\ (pc[p] = "tasks" => todo[p] = {})
         \/ pc'[p] = "idle" /\ outcome'[p] = "THROWN" /\ results'[p] = NoRows
  BY DEF SyncStep, TasksDone, Catalogue, CatalogueFails
<1>2. ResultsNamed'
  <2>0. ResultsNamed
    BY DEF IndexedInv
  <2>1. ASSUME NEW q \in Procs, NEW t \in BatchOf[q], results'[q][t] \notin {NONE, FAILED}
        PROVE  results'[q] = results[q]
    <3>1. CASE q = p /\ results'[p] = NoRows
      BY <2>1, <3>1 DEF NoRows
    <3>2. CASE q # p \/ results' = results
      BY ONLY <1>1, <2>1, <3>2
    <3>. QED BY ONLY <1>1, <3>1, <3>2
  <2>. QED BY ONLY <1>1, <2>0, <2>1 DEF ResultsNamed
<1>6. ResultsThere'
  <2>1. ASSUME NEW q \in Procs
        PROVE  /\ pc'[q] \in {"tasks"} \cup Analysing => \A t \in BatchOf[q] \ todo'[q] : results'[q][t] # NONE
               /\ pc'[q] = "sync" \/ Refreshing(q)' \/ Settled(q)' => \A t \in BatchOf[q] : results'[q][t] # NONE
    <3>0. ResultsThere
      BY DEF IndexedInv
    <3>1. CASE q # p
      BY ONLY <1>1, <2>1, <3>0, <3>1 DEF ResultsThere, Settled, Refreshing
    <3>2. CASE q = p
      BY ONLY <1>1, <2>1, <3>0, <3>2 DEF ResultsThere, Settled, Refreshing, Analysing
    <3>. QED BY <3>1, <3>2
  <2>. QED BY <2>1 DEF ResultsThere
<1>3. \A q \in Procs : pc'[q] \in {"merge", "manifest", "rename"} \/ Settled(q)' =>
          q # p /\ pc'[q] = pc[q] /\ (Settled(q)' <=> Settled(q))
  BY <1>1 DEF Settled
<1>4. RowsGood /\ IndexGood
  BY DEF IndexedInv
<1>5. RowsGood' /\ IndexGood'
  BY ONLY <1>1, <1>3, <1>4 DEF RowsGood, IndexGood, Good
<1>. QED BY <1>2, <1>5, <1>6 DEF IndexedInv

\* A refresh collects what a settled batch, or its own one, has to find, and
\* nobody else refreshes when it renames its index.
LEMMA IndexedIndex ==
    ASSUME DisjointBatches, IndexInv, CatalogInv, IndexedInv, NEW p \in Procs, IndexStep(p)
    PROVE  IndexedInv'
<1>. USE BatchAssumption DEF IndexInv, TypeOK, disk, shared, locals, Goto
<1>0. /\ UNCHANGED <<status, man, results>>
      /\ pc[p] = "sync" \/ Refreshing(p)
      /\ pc'[p] = "idle" \/ Refreshing(p)'
      /\ pc'[p] \in {"idle", "release"} => Rename(p) \/ pc[p] = "release" \/ outcome'[p] # "INDEXED"
      /\ pc[p] = "release" => outcome' = outcome
      /\ ~Rename(p) => index' = index
      /\ \A q \in Procs : q # p =>
            /\ pc'[q] = pc[q] /\ todo'[q] = todo[q] /\ task'[q] = task[q] /\ full'[q] = full[q]
            /\ seen'[q] = seen[q] /\ rows'[q] = rows[q] /\ outcome'[q] = outcome[q]
  <2>. USE DEF Refreshing
  <2>1. CASE Acquire(p) \/ Locked(p) \/ Load(p) \/ DropRow(p) \/ ReadStatus(p)
    BY <2>1 DEF Acquire, Locked, Load, DropRow, ReadStatus
  <2>2. CASE ReadManifest(p) \/ WriteTemp(p) \/ Rename(p) \/ RenameFails(p) \/ Release(p)
    BY <2>2 DEF ReadManifest, WriteTemp, Rename, RenameFails, Release
  <2>. QED BY <2>1, <2>2 DEF IndexStep
<1>1. ResultsThere /\ ResultsNamed /\ RowsGood /\ IndexGood
  BY DEF IndexedInv
<1>2. ResultsNamed'
  BY ONLY <1>0, <1>1 DEF ResultsNamed
<1>3. ResultsThere'
  <2>1. ASSUME NEW q \in Procs
        PROVE  /\ pc'[q] \in {"tasks"} \cup Analysing => \A t \in BatchOf[q] \ todo'[q] : results'[q][t] # NONE
               /\ pc'[q] = "sync" \/ Refreshing(q)' \/ Settled(q)' => \A t \in BatchOf[q] : results'[q][t] # NONE
    <3>1. CASE q # p
      BY ONLY <1>0, <1>1, <2>1, <3>1 DEF ResultsThere, Settled, Refreshing
    <3>2. CASE q = p
      BY ONLY <1>0, <1>1, <2>1, <3>2 DEF ResultsThere, Settled, Refreshing, Analysing
    <3>. QED BY <3>1, <3>2
  <2>. QED BY <2>1 DEF ResultsThere
<1>4. CASE Rename(p)
  <2>1. /\ pc[p] = "rename" /\ pc'[p] = "release" /\ outcome'[p] = "INDEXED"
        /\ index' = rows[p] /\ todo[p] = {}
    BY <1>1, <1>4 DEF Rename, SingleWriter, Refreshing, RowsGood
  <2>2. \A q \in Procs : Refreshing(q) => q = p
    BY <2>1 DEF SingleWriter, Refreshing
  <2>3. \A q \in Procs : pc'[q] \notin {"merge", "manifest", "rename"}
    BY ONLY <1>0, <2>1, <2>2 DEF Refreshing
  <2>4. ASSUME NEW q \in Procs, Settled(q)', NEW t \in BatchOf[q]
        PROVE  Good(q, t, rows[p][t])
    <3>1. q = p \/ Settled(q)
      BY ONLY <1>0, <2>4 DEF Settled
    <3>. QED BY ONLY <1>1, <2>1, <2>4, <3>1 DEF RowsGood
  <2>5. RowsGood'
    BY ONLY <2>3 DEF RowsGood
  <2>6. IndexGood'
    BY ONLY <1>0, <2>1, <2>4 DEF IndexGood, Good
  <2>. QED BY <1>2, <1>3, <2>5, <2>6 DEF IndexedInv
<1>5. CASE ~Rename(p)
  <2>1. \A q \in Procs : Settled(q)' => Settled(q)
    BY ONLY <1>0, <1>5 DEF Settled
  <2>2. IndexGood'
    BY ONLY <1>0, <1>1, <1>5, <2>1 DEF IndexGood, Good
  <2>4. pc'[p] \in {"merge", "manifest", "rename"} =>
          /\ pc'[p] = "rename" => todo'[p] = {}
          /\ pc'[p] = "manifest" /\ ~full'[p] => results'[p][task'[p]] # FAILED
          /\ full'[p] => \A t \in todo'[p] : rows'[p][t] = NONE
          /\ \A q \in Procs : q = p \/ Settled(q) => \A t \in BatchOf[q] :
                /\ t \notin todo'[p] => Good(q, t, rows'[p][t])
                /\ pc'[p] = "manifest" /\ task'[p] = t => seen'[p] = status[t]
    <3>1. CASE Acquire(p) \/ Locked(p) \/ RenameFails(p) \/ Release(p)
      BY <3>1 DEF Acquire, Locked, RenameFails, Release
    <3>2. CASE Load(p)
      <4>1. CASE full[p] \/ index \in {NONE, BAD}
        BY <3>2, <4>1 DEF Load, NoRows
      <4>2. CASE ~(full[p] \/ index \in {NONE, BAD})
        <5>1. /\ pc'[p] = "merge" /\ full'[p] = FALSE /\ index \in Rows
              /\ rows'[p] = index /\ todo'[p] = BatchOf[p]
          BY <3>2, <4>2 DEF Load
        <5>2. ASSUME NEW q \in Procs, q # p, Settled(q), NEW t \in BatchOf[q]
              PROVE  Good(q, t, index[t])
          BY ONLY <1>1, <5>1, <5>2 DEF IndexGood
        <5>. QED BY ONLY <5>1, <5>2
      <4>. QED BY <4>1, <4>2
    <3>3. CASE DropRow(p)
      <4>1. PICK t \in todo[p] :
                /\ pc[p] = "merge" /\ pc'[p] = "merge" /\ ~full[p] /\ ~full'[p]
                /\ results[p][t] = FAILED
                /\ rows' = [rows EXCEPT ![p][t] = NONE]
                /\ todo'[p] = todo[p] \ {t}
        BY ZenonT(60), <3>3 DEF DropRow
      <4>2. rows'[p][t] = NONE /\ \A u \in Tasks : u # t => rows'[p][u] = rows[p][u]
        BY <4>1 DEF Rows
      <4>3. todo[p] \subseteq BatchOf[p]
        BY <4>1 DEF LocalsOK
      <4>4. ASSUME NEW q \in Procs, q = p \/ Settled(q), NEW u \in BatchOf[q], u \notin todo'[p]
            PROVE  Good(q, u, rows'[p][u])
        <5>1. CASE u # t
          BY <1>1, <4>1, <4>2, <4>4, <5>1 DEF RowsGood
        <5>2. CASE u = t /\ q = p
          BY ONLY <4>1, <4>2, <5>2 DEF Good
        <5>3. CASE u = t /\ q # p
          BY <4>3, <4>4, <5>3 DEF DisjointBatches
        <5>. QED BY <5>1, <5>2, <5>3
      <4>. QED BY ONLY <4>1, <4>4
    <3>4. CASE ReadStatus(p)
      <4>1. PICK t \in todo[p] :
                /\ pc[p] = "merge" /\ pc'[p] = "manifest" /\ full' = full /\ rows' = rows /\ todo' = todo
                /\ full[p] \/ results[p][t] # FAILED
                /\ task'[p] = t /\ seen'[p] = status[t]
        BY <3>4 DEF ReadStatus
      <4>. QED BY ONLY <1>0, <1>1, <4>1 DEF RowsGood
    <3>5. CASE ReadManifest(p)
      <4> DEFINE t == task[p]
      <4>1. /\ pc[p] = "manifest" /\ pc'[p] = "merge" /\ full' = full /\ t \in todo[p] /\ t \in Tasks
            /\ todo'[p] = todo[p] \ {t}
            /\ rows'[p][t] = IF RowAccepted(p) THEN man[t] ELSE rows[p][t]
            /\ \A u \in Tasks : u # t => rows'[p][u] = rows[p][u]
        BY <3>5 DEF ReadManifest, LocalsOK, Rows
      <4>2. ASSUME NEW q \in Procs, q = p \/ Settled(q), t \in BatchOf[q]
            PROVE  Good(q, t, rows'[p][t])
        <5>1. seen[p] = status[t] /\ results[q][t] # NONE
          BY ONLY <1>1, <4>1, <4>2 DEF RowsGood, ResultsThere, Refreshing
        <5>2. results[q][t] # FAILED =>
                  /\ status[t].state = "SUCCESS" /\ status[t].cur = results[q][t]
                  /\ man[t] = results[q][t]
          BY <1>1, <4>2, <5>1 DEF ResultsNamed, CatalogInv, ResultsOnDisk
        <5>3. CASE full[p]
          <6>1. rows[p][t] = NONE
            BY ONLY <1>1, <4>1, <5>3 DEF RowsGood
          <6>. QED BY ONLY <4>1, <5>1, <5>2, <5>3, <6>1 DEF Good, RowAccepted
        <5>4. CASE ~full[p]
          <6>1. t \in BatchOf[p]
            BY <4>1, <5>4 DEF LocalsOK
          <6>2. q = p
            BY <4>2, <6>1 DEF DisjointBatches
          <6>3. results[p][t] # FAILED
            BY ONLY <1>1, <4>1, <5>4 DEF RowsGood
          <6>. QED BY ONLY <4>1, <5>1, <5>2, <5>4, <6>2, <6>3 DEF Good, RowAccepted
        <5>. QED BY ONLY <5>3, <5>4
      <4>3. ASSUME NEW q \in Procs, q = p \/ Settled(q), NEW u \in BatchOf[q], u \notin todo[p], u # t
            PROVE  Good(q, u, rows'[p][u])
        <5>1. u \in Tasks
          OBVIOUS
        <5>. QED BY ONLY <1>1, <4>1, <4>3, <5>1 DEF RowsGood
      <4>4. full[p] => \A u \in todo[p] \ {t} : rows'[p][u] = NONE
        <5>1. todo[p] \subseteq Tasks
          OBVIOUS
        <5>. QED BY ONLY <1>1, <4>1, <5>1 DEF RowsGood
      <4>. QED BY ONLY <4>1, <4>2, <4>3, <4>4
    <3>6. CASE WriteTemp(p)
      <4>1. pc[p] = "merge" /\ pc'[p] = "rename" /\ todo[p] = {} /\ todo' = todo /\ full' = full /\ rows' = rows
        BY <3>6 DEF WriteTemp
      <4>. QED BY ONLY <1>0, <1>1, <4>1 DEF RowsGood
    <3>. QED BY <1>5, <3>1, <3>2, <3>3, <3>4, <3>5, <3>6 DEF IndexStep
  <2>5. ASSUME NEW q \in Procs, q # p, pc'[q] \in {"merge", "manifest", "rename"}
        PROVE  /\ pc'[q] = "rename" => todo'[q] = {}
               /\ pc'[q] = "manifest" /\ ~full'[q] => results'[q][task'[q]] # FAILED
               /\ full'[q] => \A t \in todo'[q] : rows'[q][t] = NONE
               /\ \A r \in Procs : r = q \/ Settled(r) => \A t \in BatchOf[r] :
                     /\ t \notin todo'[q] => Good(r, t, rows'[q][t])
                     /\ pc'[q] = "manifest" /\ task'[q] = t => seen'[q] = status[t]
    BY ONLY <1>0, <1>1, <2>5 DEF RowsGood
  <2>6. status' = status /\ results' = results
    BY ONLY <1>0
  <2>7. RowsGood'
    BY ONLY <2>1, <2>4, <2>5, <2>6 DEF RowsGood, Good
  <2>. QED BY <1>2, <1>3, <2>2, <2>7 DEF IndexedInv
<1>. QED BY <1>4, <1>5

\* A crash forgets the results, and a damaged index has no rows.
LEMMA IndexedOthers ==
    ASSUME IndexInv, CatalogInv, IndexedInv,
           \/ \E p \in Procs : Crash(p)
           \/ RemoveLock \/ EditInput \/ DamageIndex
           \/ UNCHANGED vars
    PROVE  IndexedInv'
<1>. USE BatchAssumption DEF IndexInv, TypeOK, disk, shared, locals, Goto
<1>1. ResultsThere /\ ResultsNamed /\ RowsGood /\ IndexGood
  BY DEF IndexedInv
<1>2. ASSUME NEW p \in Procs, Crash(p)
      PROVE  IndexedInv'
  <2>1. /\ UNCHANGED <<status, index>>
        /\ pc'[p] = "idle" /\ outcome'[p] = "CRASHED" /\ \A t \in Tasks : results'[p][t] = NONE
        /\ \A q \in Procs : q # p =>
              /\ pc'[q] = pc[q] /\ todo'[q] = todo[q] /\ task'[q] = task[q] /\ full'[q] = full[q]
              /\ seen'[q] = seen[q] /\ rows'[q] = rows[q] /\ outcome'[q] = outcome[q]
              /\ results'[q] = results[q]
    BY <1>2 DEF Crash, NoRows
  <2>2. \A q \in Procs : BatchOf[q] \subseteq Tasks
    OBVIOUS
  <2>3. ResultsNamed'
    BY ONLY <1>1, <2>1, <2>2 DEF ResultsNamed
  <2>4. ResultsThere'
    BY ONLY <1>1, <2>1 DEF ResultsThere, Settled, Refreshing, Analysing
  <2>5. IndexGood'
    BY ONLY <1>1, <2>1 DEF IndexGood, Settled, Good
  <2>6. RowsGood'
    BY ONLY <1>1, <2>1 DEF RowsGood, Settled, Good
  <2>. QED BY <2>3, <2>4, <2>5, <2>6 DEF IndexedInv
<1>3. CASE RemoveLock \/ EditInput \/ DamageIndex \/ UNCHANGED vars
  <2>1. /\ UNCHANGED <<status, pc, todo, task, full, seen, rows, results, outcome>>
        /\ index' = index \/ index' \notin Rows
    BY <1>3, NoneAssumption DEF RemoveLock, EditInput, DamageIndex, vars
  <2>. QED BY ONLY <1>1, <2>1
       DEF IndexedInv, ResultsThere, ResultsNamed, RowsGood, IndexGood, Settled, Refreshing, Good, Analysing
<1>. QED BY <1>2, <1>3

\* However many batches run, with crashes, failures and edits in any of them, as
\* long as no two share a task: a batch that ends with a refreshed index is found
\* in it, until it starts again.
THEOREM IndexHoldsOwnResults ==
    ASSUME DisjointBatches
    PROVE  Spec => []OwnResultsIndexed
<1>1. IndexInv /\ CatalogInv /\ IndexedInv /\ [Next]_vars => CatalogInv' /\ IndexedInv'
  BY CatalogTask, CatalogSync, CatalogOthers, IndexedTask, IndexedSync, IndexedIndex, IndexedOthers DEF Next
<1>2. IndexedInv => OwnResultsIndexed
  BY DEF IndexedInv, IndexGood, Settled, Good, OwnResultsIndexed
<1>. QED BY CatalogInit, IndexedInit, IndexInvariant, <1>1, <1>2, PTL DEF Spec
=============================================================================
