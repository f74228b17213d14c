----------------------------- MODULE FactsIndex -----------------------------
(***************************************************************************)
(* The shared index of the Machine Facts store, task-fact-index.jsonl, and *)
(* the batches (processProfile, runInputPackMachineFacts) that analyse     *)
(* tasks one after the other and then refresh it.  In between, the batches *)
(* of runInputPackMachineFacts write the results to the writer catalog, an *)
(* SQLite table of who writes what, one transaction per task.              *)
(*                                                                         *)
(* A batch keeps the result of each of its tasks in memory, and refreshes  *)
(* at its end: under the lock file, from the rows on disk, either only the *)
(* rows of its own results (incremental) or every row from the task        *)
(* directories (full).  A lock that is taken makes the refresh throw, and  *)
(* a lock whose holder died stays until somebody inspects it.              *)
(*                                                                         *)
(* Each task directory is what TaskFacts shows of it: the status and the   *)
(* manifest of the bundle.  Two steps of runTask that touch neither are    *)
(* one step here, and the directory is never torn.  A manifest is the      *)
(* version of the input (SQL, schema, configuration) it was computed from. *)
(***************************************************************************)
EXTENDS Naturals, FiniteSets

CONSTANTS
    Procs,      \* processes that run batches
    Tasks,      \* tasks of the store
    BatchOf,    \* BatchOf[p]: the tasks of p's batches
    Cataloguing,\* processes whose batches keep the writer catalog
    Versions,   \* versions of a task's input
    Modes,      \* index modes in use: "incremental" (and auto), "full"
    Troubles,   \* "crash", "edit", "fails", "catalog", "rename", "damage"
    MaxTrouble, \* bound on how often
    NONE,       \* no status, no manifest, no row, no lock
    BAD         \* an index file that the reader rejects

FAILED == "FAILED"
Rows   == [Tasks -> Versions \cup {NONE}]

ASSUME BatchAssumption == BatchOf \in [Procs -> SUBSET Tasks]
ASSUME CatalogAssumption == Cataloguing \subseteq Procs
ASSUME TroubleAssumption == MaxTrouble \in Nat
ASSUME NoneAssumption ==
    /\ NONE \notin Versions \cup Procs \cup Tasks \cup Rows \cup {BAD}
    /\ {NONE, BAD} \cap {"ANALYZING", "SUCCESS", FAILED} = {}
    /\ FAILED \notin Versions
    /\ BAD \notin Rows

VARIABLES
    input,     \* input[t]: version of the input of t
    status,    \* status[t]: analysis-status.json of t
    man,       \* man[t]: manifest of the bundle of t
    committed, \* history: the manifests that a SUCCESS status of t has named
    lock,      \* task-fact-index.lock: the process whose pid it holds
    index,     \* task-fact-index.jsonl: a row (manifest) per task, NONE or BAD
    temp,      \* task-fact-index.jsonl.tmp
    catalog,   \* catalog[t]: coverage of t and the manifest its writers are from
    pc,        \* where p is
    task,      \* the task p is at
    todo,      \* the tasks p has still to process in its current loop
    work,      \* p's locals of runTask: version requested, version analysed
    results,   \* results[p][t]: NONE, FAILED, or the manifest of the result
    full,      \* p refreshes in full mode
    seen,      \* the status p read last
    rows,      \* p's local `records`
    outcome,   \* how p's last refresh ended
    trouble    \* troubles so far

disk   == <<input, status, man, committed>>
shared == <<lock, index, temp, catalog>>
locals == <<task, work, results, full, seen, rows>>
vars   == <<disk, shared, pc, todo, locals, outcome, trouble>>

NoRows   == [t \in Tasks |-> NONE]
NoStatus == [state |-> NONE, req |-> NONE, cur |-> NONE]
NoWork   == [req |-> NONE, built |-> NONE]
NoEntry  == [state |-> NONE, man |-> NONE, writers |-> NONE]

Init ==
    /\ input \in [Tasks -> Versions]
    /\ status    = [t \in Tasks |-> NoStatus]
    /\ man       = [t \in Tasks |-> NONE]
    /\ committed = [t \in Tasks |-> {}]
    /\ lock = NONE /\ index = NONE /\ temp = NONE
    /\ catalog = [t \in Tasks |-> NoEntry]
    /\ pc      = [p \in Procs |-> "idle"]
    /\ task    = [p \in Procs |-> NONE]
    /\ todo    = [p \in Procs |-> {}]
    /\ work    = [p \in Procs |-> NoWork]
    /\ results = [p \in Procs |-> NoRows]
    /\ full    = [p \in Procs |-> FALSE]
    /\ seen    = [p \in Procs |-> NoStatus]
    /\ rows    = [p \in Procs |-> NoRows]
    /\ outcome = [p \in Procs |-> "none"]
    /\ trouble = 0

Goto(p, from, to) == pc[p] = from /\ pc' = [pc EXCEPT ![p] = to]

Trouble(kind) ==
    /\ kind \in Troubles
    /\ trouble < MaxTrouble
    /\ trouble' = trouble + 1

(***************************************************************************)
(* The tasks of a batch: runTask.                                          *)
(***************************************************************************)
StartBatch(p) ==
    /\ Goto(p, "idle", "tasks")
    /\ todo'    = [todo EXCEPT ![p] = BatchOf[p]]
    /\ results' = [results EXCEPT ![p] = NoRows]
    /\ outcome' = [outcome EXCEPT ![p] = "none"]
    /\ UNCHANGED <<disk, shared, task, work, full, seen, rows, trouble>>

\* writeStatus
WriteStatus(t, state, req, cur) ==
    status' = [status EXCEPT ![t] = [state |-> state, req |-> req, cur |-> cur]]

\* runTask returned: on to the next task.
Finish(p, t, res) ==
    /\ pc'      = [pc EXCEPT ![p] = "tasks"]
    /\ todo'    = [todo EXCEPT ![p] = @ \ {t}]
    /\ results' = [results EXCEPT ![p][t] = res]
    /\ task'    = [task EXCEPT ![p] = NONE]
    /\ work'    = [work EXCEPT ![p] = NoWork]

\* Slip: the interruption is reported but not recorded in the status.
ReportsOnly(p) == \E t \in todo[p] :
    /\ pc[p] = "tasks"
    /\ status[t].state = "ANALYZING"
    /\ Finish(p, t, FAILED)
    /\ UNCHANGED <<disk, shared, full, seen, rows, outcome, trouble>>

\* An ANALYZING status, whoever wrote it, is an interrupted analysis.
Interrupted(p) == \E t \in todo[p] :
    /\ pc[p] = "tasks"
    /\ status[t].state = "ANALYZING"
    /\ WriteStatus(t, FAILED, input[t], status[t].cur)
    /\ Finish(p, t, FAILED)
    /\ UNCHANGED <<input, man, committed, shared, full, seen, rows, outcome, trouble>>

Current(t) == status[t] = [state |-> "SUCCESS", req |-> input[t], cur |-> input[t]]
              /\ man[t] = input[t]

Reuse(p) == \E t \in todo[p] :
    /\ pc[p] = "tasks"
    /\ Current(t)
    /\ Finish(p, t, man[t])
    /\ UNCHANGED <<disk, shared, full, seen, rows, outcome, trouble>>

\* The input pack of the task is missing, ambiguous or unstable: the batch
\* notes FAILED without looking at the task directory.
PreparationFails(p) == \E t \in todo[p] :
    /\ pc[p] = "tasks"
    /\ Trouble("fails")
    /\ Finish(p, t, FAILED)
    /\ UNCHANGED <<disk, shared, full, seen, rows, outcome>>

Begin(p) == \E t \in todo[p] :
    /\ Goto(p, "tasks", "analysis")
    /\ status[t].state # "ANALYZING"
    /\ ~Current(t)
    /\ WriteStatus(t, "ANALYZING", input[t], status[t].cur)
    /\ task' = [task EXCEPT ![p] = t]
    /\ work' = [work EXCEPT ![p] = [req |-> input[t], built |-> NONE]]
    /\ UNCHANGED <<input, man, committed, shared, todo, results, full, seen, rows, outcome, trouble>>

\* buildTaskBundle reads the input again.
Build(p) ==
    /\ Goto(p, "analysis", "publish")
    /\ work' = [work EXCEPT ![p] = [req |-> work[p].req, built |-> input[task[p]]]]
    /\ UNCHANGED <<disk, shared, todo, task, results, full, seen, rows, outcome, trouble>>

Publish(p) ==
    /\ Goto(p, "publish", "success")
    /\ man' = [man EXCEPT ![task[p]] = work[p].built]
    /\ UNCHANGED <<input, status, committed, shared, todo, locals, outcome, trouble>>

Commit(p) == LET t == task[p] IN
    /\ pc[p] = "success"
    /\ WriteStatus(t, "SUCCESS", work[p].req, work[p].built)
    /\ committed' = [committed EXCEPT ![t] = @ \cup {work[p].built}]
    /\ Finish(p, t, work[p].built)
    /\ UNCHANGED <<input, man, shared, full, seen, rows, outcome, trouble>>

\* The analysis, the publication or the SUCCESS write throws.
TaskFails(p) ==
    /\ pc[p] \in {"analysis", "publish", "success"}
    /\ Trouble("fails")
    /\ WriteStatus(task[p], FAILED, work[p].req, status[task[p]].cur)
    /\ Finish(p, task[p], FAILED)
    /\ UNCHANGED <<input, man, committed, shared, full, seen, rows, outcome>>

(***************************************************************************)
(* syncWriterCatalogAfterMachineFacts, for one task after the other.       *)
(***************************************************************************)
TasksDone(p) ==
    /\ Goto(p, "tasks", "sync")
    /\ todo[p] = {}
    /\ todo' = [todo EXCEPT ![p] = IF p \in Cataloguing THEN BatchOf[p] ELSE {}]
    /\ UNCHANGED <<disk, shared, locals, outcome, trouble>>

\* Slip: the coverage says FAILED, the writers stay.
KeepsWriters(t) == [catalog[t] EXCEPT !.state = FAILED]

\* removeTaskWriters: the manifest of an earlier success stays on record.
Removed(t) == [catalog[t] EXCEPT !.state = FAILED, !.writers = NONE]

\* upsertTaskWriters: the manifest of the result, the writes of the bundle.
Upserted(p, t) == [state |-> "SUCCESS", man |-> results[p][t], writers |-> man[t]]

Catalogue(p) == \E t \in todo[p] :
    /\ pc[p] = "sync"
    /\ catalog' = [catalog EXCEPT ![t] =
                     IF results[p][t] = FAILED THEN Removed(t) ELSE Upserted(p, t)]
    /\ todo' = [todo EXCEPT ![p] = @ \ {t}]
    /\ UNCHANGED <<disk, lock, index, temp, pc, locals, outcome, trouble>>

\* A transaction fails or stays blocked: it is rolled back, and the error is
\* thrown out of the batch, before the index is refreshed.
CatalogueFails(p) ==
    /\ pc[p] = "sync" /\ todo[p] # {}
    /\ Trouble("catalog")
    /\ pc' = [pc EXCEPT ![p] = "idle"]
    /\ outcome' = [outcome EXCEPT ![p] = "THROWN"]
    /\ todo' = [todo EXCEPT ![p] = {}]
    /\ results' = [results EXCEPT ![p] = NoRows]
    /\ UNCHANGED <<disk, shared, task, work, full, seen, rows>>

(***************************************************************************)
(* refreshMachineFactsIndex.                                               *)
(***************************************************************************)

\* openSync(lock, "wx") succeeds for one process only.
Acquire(p) ==
    /\ Goto(p, "sync", "load")
    /\ todo[p] = {}
    /\ lock = NONE
    /\ lock' = p
    /\ \E m \in Modes : full' = [full EXCEPT ![p] = (m = "full")]
    /\ UNCHANGED <<disk, index, temp, catalog, todo, task, work, results, seen, rows, outcome, trouble>>

\* MACHINE_FACTS_INDEX_LOCKED is thrown out of the batch.
Locked(p) ==
    /\ Goto(p, "sync", "idle")
    /\ todo[p] = {}
    /\ lock # NONE
    /\ outcome' = [outcome EXCEPT ![p] = "LOCKED"]
    /\ UNCHANGED <<disk, shared, todo, locals, trouble>>

\* Slip: the rows of the other batches are not carried forward.
LoadsNothing(p) ==
    /\ Goto(p, "load", "merge")
    /\ rows' = [rows EXCEPT ![p] = NoRows]
    /\ todo' = [todo EXCEPT ![p] = IF full[p] THEN Tasks ELSE BatchOf[p]]
    /\ UNCHANGED <<disk, shared, task, work, results, full, seen, outcome, trouble>>

\* The rows to start from.  A missing or unreadable index is rebuilt.
Load(p) ==
    /\ Goto(p, "load", "merge")
    /\ IF full[p] \/ index \in {NONE, BAD}
       THEN /\ full' = [full EXCEPT ![p] = TRUE]
            /\ rows' = [rows EXCEPT ![p] = NoRows]
            /\ todo' = [todo EXCEPT ![p] = Tasks]
       ELSE /\ full' = full
            /\ rows' = [rows EXCEPT ![p] = index]
            /\ todo' = [todo EXCEPT ![p] = BatchOf[p]]
    /\ UNCHANGED <<disk, shared, task, work, results, seen, outcome, trouble>>

\* Slip: a failed task keeps its row.
KeepsRow(p) == \E t \in todo[p] :
    /\ pc[p] = "merge" /\ ~full[p]
    /\ results[p][t] = FAILED
    /\ todo' = [todo EXCEPT ![p] = @ \ {t}]
    /\ UNCHANGED <<disk, shared, pc, task, work, results, full, seen, rows, outcome, trouble>>

\* An incremental refresh drops the row of a task whose result is FAILED ...
DropRow(p) == \E t \in todo[p] :
    /\ pc[p] = "merge" /\ ~full[p]
    /\ results[p][t] = FAILED
    /\ rows' = [rows EXCEPT ![p][t] = NONE]
    /\ todo' = [todo EXCEPT ![p] = @ \ {t}]
    /\ UNCHANGED <<disk, shared, pc, task, work, results, full, seen, outcome, trouble>>

\* ... and reads the directory of one whose result is SUCCESS: first the
\* status, as a full refresh does for every task ...
ReadStatus(p) == \E t \in todo[p] :
    /\ Goto(p, "merge", "manifest")
    /\ full[p] \/ results[p][t] # FAILED
    /\ task' = [task EXCEPT ![p] = t]
    /\ seen' = [seen EXCEPT ![p] = status[t]]
    /\ UNCHANGED <<disk, shared, todo, work, results, full, rows, outcome, trouble>>

\* ... then the manifest.  Only the full refresh compares the request.
RowAccepted(p) == LET t == task[p] IN
    /\ seen[p].state = "SUCCESS"
    /\ man[t] # NONE
    /\ man[t] = seen[p].cur
    /\ IF full[p] THEN seen[p].req = man[t] ELSE results[p][t] = man[t]

ReadManifest(p) ==
    /\ Goto(p, "manifest", "merge")
    /\ rows' = [rows EXCEPT ![p][task[p]] = IF RowAccepted(p) THEN man[task[p]] ELSE @]
    /\ todo' = [todo EXCEPT ![p] = @ \ {task[p]}]
    /\ task' = [task EXCEPT ![p] = NONE]
    /\ seen' = [seen EXCEPT ![p] = NoStatus]
    /\ UNCHANGED <<disk, shared, work, results, full, outcome, trouble>>

WriteTemp(p) ==
    /\ Goto(p, "merge", "rename")
    /\ todo[p] = {}
    /\ temp' = rows[p]
    /\ UNCHANGED <<disk, lock, index, catalog, todo, locals, outcome, trouble>>

Rename(p) ==
    /\ Goto(p, "rename", "release")
    /\ index' = temp
    /\ temp' = NONE
    /\ outcome' = [outcome EXCEPT ![p] = "INDEXED"]
    /\ UNCHANGED <<disk, lock, catalog, todo, locals, trouble>>

RenameFails(p) ==
    /\ Goto(p, "rename", "release")
    /\ Trouble("rename")
    /\ temp' = NONE
    /\ outcome' = [outcome EXCEPT ![p] = "THROWN"]
    /\ UNCHANGED <<disk, lock, index, catalog, todo, locals>>

\* The lock file goes, whatever is in it.
Release(p) ==
    /\ Goto(p, "release", "idle")
    /\ lock' = NONE
    /\ rows' = [rows EXCEPT ![p] = NoRows]
    /\ full' = [full EXCEPT ![p] = FALSE]
    /\ UNCHANGED <<disk, index, temp, catalog, todo, task, work, results, seen, outcome, trouble>>

(***************************************************************************)
(* The environment.                                                        *)
(***************************************************************************)

\* The process dies; its files, the lock among them, stay.
Crash(p) ==
    /\ pc[p] # "idle"
    /\ Trouble("crash")
    /\ pc' = [pc EXCEPT ![p] = "idle"]
    /\ outcome' = [outcome EXCEPT ![p] = "CRASHED"]
    /\ todo' = [todo EXCEPT ![p] = {}]
    /\ task' = [task EXCEPT ![p] = NONE]
    /\ work' = [work EXCEPT ![p] = NoWork]
    /\ results' = [results EXCEPT ![p] = NoRows]
    /\ full' = [full EXCEPT ![p] = FALSE]
    /\ seen' = [seen EXCEPT ![p] = NoStatus]
    /\ rows' = [rows EXCEPT ![p] = NoRows]
    /\ UNCHANGED <<disk, shared>>

Refreshing(p) == pc[p] \in {"load", "merge", "manifest", "rename", "release"}

\* Nobody who could still write holds the lock.
Leftover == lock # NONE /\ ~Refreshing(lock)

\* Somebody inspects a leftover lock and removes it.
RemoveLock ==
    /\ Leftover
    /\ lock' = NONE
    /\ UNCHANGED <<disk, index, temp, catalog, pc, todo, locals, outcome, trouble>>

EditInput ==
    /\ Trouble("edit")
    /\ \E t \in Tasks, v \in Versions :
          v # input[t] /\ input' = [input EXCEPT ![t] = v]
    /\ UNCHANGED <<status, man, committed, shared, pc, todo, locals, outcome>>

\* The index file is damaged or deleted by hand.
DamageIndex ==
    /\ Trouble("damage")
    /\ index' \in {NONE, BAD}
    /\ UNCHANGED <<disk, lock, temp, catalog, pc, todo, locals, outcome>>

TaskStep(p)  == StartBatch(p) \/ Interrupted(p) \/ Reuse(p) \/ PreparationFails(p) \/ Begin(p)
                \/ Build(p) \/ Publish(p) \/ Commit(p) \/ TaskFails(p)
SyncStep(p)  == TasksDone(p) \/ Catalogue(p) \/ CatalogueFails(p)
IndexStep(p) == Acquire(p) \/ Locked(p) \/ Load(p) \/ DropRow(p) \/ ReadStatus(p)
                \/ ReadManifest(p) \/ WriteTemp(p) \/ Rename(p) \/ RenameFails(p) \/ Release(p)

Next == \/ \E p \in Procs : TaskStep(p) \/ SyncStep(p) \/ IndexStep(p) \/ Crash(p)
        \/ RemoveLock \/ EditInput \/ DamageIndex

Spec == Init /\ [][Next]_vars

\* Batches run on and are started again; a leftover lock is looked at.
FairSpec == /\ Spec
            /\ \A p \in Procs : WF_vars(TaskStep(p) \/ SyncStep(p) \/ IndexStep(p))
            /\ WF_vars(RemoveLock)

-----------------------------------------------------------------------------
(***************************************************************************)
(* Correctness.                                                            *)
(***************************************************************************)
TaskStatuses == [state : {NONE, "ANALYZING", "SUCCESS", FAILED},
                 req   : Versions \cup {NONE}, cur : Versions \cup {NONE}]
Entries == [state : {NONE, "SUCCESS", FAILED}, man : Versions \cup {NONE, FAILED},
            writers : Versions \cup {NONE}]

\* The files and the locals of a batch hold what their names say.
TypeOK ==
    /\ input \in [Tasks -> Versions]
    /\ status \in [Tasks -> TaskStatuses]
    /\ man \in [Tasks -> Versions \cup {NONE}]
    /\ committed \in [Tasks -> SUBSET Versions]
    /\ lock \in Procs \cup {NONE}
    /\ index \in Rows \cup {NONE, BAD}
    /\ temp \in Rows \cup {NONE}
    /\ catalog \in [Tasks -> Entries]
    /\ pc \in [Procs -> {"idle", "tasks", "analysis", "publish", "success", "sync", "load",
                         "merge", "manifest", "rename", "release"}]
    /\ task \in [Procs -> Tasks \cup {NONE}]
    /\ todo \in [Procs -> SUBSET Tasks]
    /\ work \in [Procs -> [req : Versions \cup {NONE}, built : Versions \cup {NONE}]]
    /\ results \in [Procs -> [Tasks -> Versions \cup {NONE, FAILED}]]
    /\ full \in [Procs -> BOOLEAN]
    /\ seen \in [Procs -> TaskStatuses]
    /\ rows \in [Procs -> Rows]
    /\ outcome \in [Procs -> {"none", "INDEXED", "LOCKED", "THROWN", "CRASHED"}]
    /\ trouble \in 0 .. MaxTrouble

\* The lock is a single-writer guard: a process that refreshes holds it, so
\* no two of them do, and no .tmp is renamed that another process wrote.
SingleWriter == \A p \in Procs :
    Refreshing(p) => lock = p /\ (pc[p] = "rename" => temp = rows[p])

\* An incremental refresh changes no row but those of its own batch, however
\* many rows other batches wrote since this one started: no lost update.
OtherRowsKept ==
    [][\A p \in Procs : Rename(p) /\ ~full[p] /\ index \in Rows =>
          \A t \in Tasks \ BatchOf[p] : index'[t] = index[t]]_vars

\* A row names a manifest that a SUCCESS status of its task has named, never
\* one that was swapped in and not committed yet.
RowsWereCommitted ==
    index \in Rows =>
        \A t \in Tasks : index[t] # NONE => index[t] \in committed[t]

\* A batch that owns its tasks and ends with a refreshed index is found in
\* it: each analysed task with its manifest, each one whose analysis failed
\* not at all.  (Two cases depend on the mode: a result whose input changed
\* under the analysis, and a task that could not be prepared although its
\* directory still holds a success.)
OwnResultsIndexed ==
    \A p \in Procs :
        pc[p] = "idle" /\ outcome[p] = "INDEXED" /\ index \in Rows =>
            \A t \in BatchOf[p] :
                IF results[p][t] = FAILED
                THEN status[t].state # "SUCCESS" => index[t] = NONE
                ELSE status[t].req = status[t].cur => index[t] = results[p][t]

\* Once a batch that owns its tasks has catalogued one, the catalog holds its
\* result until the next batch: a success with the writers of that very manifest,
\* a failure with none, whatever becomes of the index.
OwnResultsCatalogued ==
    \A p \in Cataloguing : \A t \in BatchOf[p] :
        results[p][t] # NONE /\ (pc[p] = "idle" \/ Refreshing(p) \/ (pc[p] = "sync" /\ t \notin todo[p]))
            => IF results[p][t] = FAILED
               THEN catalog[t].state = FAILED /\ catalog[t].writers = NONE
               ELSE catalog[t] = [state |-> "SUCCESS", man |-> results[p][t], writers |-> results[p][t]]

Indexed    == index \in Rows /\ \A t \in Tasks : Current(t) /\ index[t] = input[t]
Catalogued == \A t \in Tasks : catalog[t] = [state |-> "SUCCESS", man |-> input[t], writers |-> input[t]]

\* Two refreshes meet: the second one finds the lock of a live process.
Collision == \E p \in Procs : Locked(p) /\ Refreshing(lock)

\* If the batches keep being run, and a leftover lock is removed, then once
\* troubles stop the index and the catalog are again and again, together, those
\* of the current inputs, wherever between the two the troubles struck - unless
\* refreshes of two batches meet for ever: the one that finds the lock taken
\* throws, and nothing in the code makes it wait.
CatchesUp == []<>(Indexed /\ Catalogued) \/ []<><<Collision>>_vars
=============================================================================
