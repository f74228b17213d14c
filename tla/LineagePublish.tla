--------------------------- MODULE LineagePublish ---------------------------
(***************************************************************************)
(* lineage-all.ts: batches that compute the lineage of tasks and publish   *)
(* each as a fixed directory artifacts/tasks/<id>/.                        *)
(*                                                                         *)
(* A process runs runLineageAll: runTask for each requested task, in order *)
(* (lock file, staging directory, stages, publishStagedTask, unlock), then *)
(* a cleanup that removes .staging and .locks if it finds them empty.      *)
(* Every file-system call that another process or a crash can come between *)
(* is a step of its own.                                                   *)
(*                                                                         *)
(* Data abstraction: the published files are "json" (one-hop, multi-hop    *)
(* and closure, rewritten at the end of runTask), "html" (the table view,  *)
(* rendered once) and "field" (optional).  A directory is NONE or maps     *)
(* each file to the generation (the run) that wrote it, NONE if missing.   *)
(* .previous-<uuid> directories and staging directories of dead processes  *)
(* are never read again: only their presence in .staging is kept (litter). *)
(***************************************************************************)
EXTENDS Integers

CONSTANTS
    Procs,        \* processes that run runLineageAll
    Tasks,        \* task identities; sorted() is the order of numbers
    Generations,  \* names for the runs of one task that can be told apart
    NONE,         \* no file, no directory
    Blocked,      \* TRUE: Windows, where an open file may block a rename
    FaultPoints,  \* program points whose operation may fail; "crash": dying is possible
    MaxTrouble    \* bound: crashes, failing operations and operators' unlocks, together

ASSUME TasksAssumption == Tasks \subseteq Int
ASSUME PublishTroubleAssumption == MaxTrouble \in Nat
ASSUME BlockedAssumption == Blocked \in BOOLEAN

Files == {"json", "html", "field"}
Dirs  == [Files -> Generations \cup {NONE}]

ASSUME NoneAssumption == NONE \notin Dirs \cup Generations

VARIABLES
    final,      \* final[t]: artifacts/tasks/<t>/
    locks,      \* tasks whose .locks/<t>.lock exists
    lockDir,    \* .locks exists
    stagingDir, \* .staging exists
    litter,     \* a dead process left its directory in .staging
    staged,     \* staged[p]: p's directory in .staging
    backup,     \* backup[p]: p's <final>.previous-<uuid>
    pc,         \* where p is
    todo,       \* tasks p's batch has not begun
    task,       \* the task p is at
    gen,        \* the generation p is writing
    fields,     \* option --with-fields of p's batch
    had,        \* publishStagedTask's local hadFinal
    outcome,    \* outcome[p][t]: what p's batch reports for t
    trouble,    \* crashes, failures and unlocks so far
    before,     \* history: final[task[p]] when p took the lock
    spoilt,     \* history: how p's run damaged what it should keep (see Spoils)
    harm        \* history: what may leave a file or a directory behind (see Harms)

store  == <<final, locks, lockDir, stagingDir, litter, staged, backup>>
batch  == <<todo, task, fields, outcome>>
past   == <<before, spoilt, harm>>
vars   == <<store, pc, batch, gen, had, trouble, past>>

NotRun == [t \in Tasks |-> "none"]
Empty  == [f \in Files |-> NONE]

\* writeJson and the renderers create missing directories: what was written
\* earlier and removed since is not written again.
Put(d, fs, g) ==
    [f \in Files |-> IF f \in fs THEN g ELSE IF d = NONE THEN NONE ELSE d[f]]

\* What an interrupted recursive removal can leave of d.
TornOf(d) == {[f \in Files |-> IF f \in lost THEN NONE ELSE d[f]] : lost \in SUBSET Files}

\* A directory can be renamed to a name that is not taken, or to an empty one.
Free(d) == d \in {NONE, Empty}

Outputs(p) == {"json", "html"} \cup (IF fields[p] THEN {"field"} ELSE {})

Init ==
    /\ final      = [t \in Tasks |-> NONE]
    /\ locks = {} /\ lockDir = FALSE /\ stagingDir = FALSE /\ litter = FALSE
    /\ staged     = [p \in Procs |-> NONE]
    /\ backup     = [p \in Procs |-> NONE]
    /\ pc         = [p \in Procs |-> "idle"]
    /\ todo       = [p \in Procs |-> {}]
    /\ task       = [p \in Procs |-> NONE]
    /\ gen        = [p \in Procs |-> NONE]
    /\ fields     = [p \in Procs |-> FALSE]
    /\ had        = [p \in Procs |-> FALSE]
    /\ outcome    = [p \in Procs |-> NotRun]
    /\ before     = [p \in Procs |-> NONE]
    /\ spoilt     = [p \in Procs |-> "none"]
    /\ trouble    = 0
    /\ harm = {}

Goto(p, from, to) == pc[p] = from /\ pc' = [pc EXCEPT ![p] = to]

\* The operation at p's program point fails by itself.
Fault(p) ==
    /\ pc[p] \in FaultPoints
    /\ trouble < MaxTrouble
    /\ trouble' = trouble + 1

\* p's locals at the end of runTask.
EndRun(p) ==
    /\ task'   = [task EXCEPT ![p] = NONE]
    /\ gen'    = [gen EXCEPT ![p] = NONE]
    /\ had'    = [had EXCEPT ![p] = FALSE]
    /\ before' = [before EXCEPT ![p] = NONE]
    /\ spoilt' = [spoilt EXCEPT ![p] = "none"]

\* An exception leaves runTask, and with it runLineageAll: neither the other
\* tasks nor the cleanup are run.
BatchThrows(p) ==
    /\ pc'   = [pc EXCEPT ![p] = "idle"]
    /\ todo' = [todo EXCEPT ![p] = {}]
    /\ EndRun(p)
    /\ UNCHANGED <<fields, outcome>>

\* "drop": the removal of the backup stopped half-way; "undo": the catch block
\* of the publication failed itself; "copy": an in-place publication failed.
Spoils == {"drop", "undo", "copy"}

Spoilt(p, s) == spoilt' = [spoilt EXCEPT ![p] = s]

\* A process died, or one of these failed: opening the lock file; what comes
\* after it and before runTask's try; the removal of the staging directory, or
\* of the lock file; the cleanup.
Harms == {"crash", "open", "begin", "discard", "unlock", "clean"}

Harmed(h) == harm' = harm \cup {h}

(***************************************************************************)
(* runLineageAll: the loop over the tasks.                                 *)
(***************************************************************************)
StartBatch(p) == \E request \in (SUBSET Tasks) \ {{}}, withFields \in BOOLEAN :
    /\ Goto(p, "idle", "nextTask")
    /\ todo'    = [todo EXCEPT ![p] = request]
    /\ fields'  = [fields EXCEPT ![p] = withFields]
    /\ outcome' = [outcome EXCEPT ![p] = NotRun]
    /\ UNCHANGED <<store, task, gen, had, trouble, past>>

\* The next task, and acquireLock's mkdir of .locks.
NextTask(p) == \E t \in todo[p] :
    /\ Goto(p, "nextTask", "lock")
    /\ \A u \in todo[p] : t <= u
    /\ task' = [task EXCEPT ![p] = t]
    /\ todo' = [todo EXCEPT ![p] = @ \ {t}]
    /\ lockDir' = TRUE
    /\ UNCHANGED <<final, locks, stagingDir, litter, staged, backup,
                   fields, outcome, gen, had, trouble, past>>

NoTaskLeft(p) ==
    /\ Goto(p, "nextTask", "seeStaging")
    /\ todo[p] = {}
    /\ UNCHANGED <<store, batch, gen, had, trouble, past>>

(***************************************************************************)
(* acquireLock and the staging directory, before runTask's try.            *)
(***************************************************************************)
\* Generations that occur in the directories of task t.
InUse(t) ==
    LET Of(d) == IF d = NONE THEN {} ELSE {d[f] : f \in Files}
        here  == {q \in Procs : task[q] = t}
    IN  Of(final[t]) \cup UNION {Of(staged[q]) \cup Of(backup[q]) \cup {gen[q]} : q \in here}

\* openSync(path, "wx")
Lock(p) ==
    /\ Goto(p, "lock", "begin")
    /\ lockDir /\ task[p] \notin locks
    /\ locks' = locks \cup {task[p]}
    /\ \E g \in Generations \ InUse(task[p]) : gen' = [gen EXCEPT ![p] = g]
    /\ before' = [before EXCEPT ![p] = final[task[p]]]
    /\ UNCHANGED <<final, lockDir, stagingDir, litter, staged, backup, batch, had, trouble, spoilt, harm>>

\* TASK_LOCK_UNAVAILABLE: the lock file exists, .locks was removed since, or
\* the open fails.
LockFails(p) ==
    /\ pc[p] = "lock"
    /\ \/ /\ task[p] \in locks \/ ~lockDir
          /\ UNCHANGED <<trouble, harm>>
       \/ Fault(p) /\ Harmed("open")
    /\ BatchThrows(p)
    /\ UNCHANGED store

\* The pid goes into the lock file, which nothing reads; mkdir of .staging.
Begin(p) ==
    /\ Goto(p, "begin", "stage")
    /\ stagingDir' = TRUE
    /\ UNCHANGED <<final, locks, lockDir, litter, staged, backup, batch, gen, had, trouble, past>>

\* Either fails: the lock file stays.
BeginFails(p) ==
    /\ pc[p] = "begin"
    /\ Fault(p)
    /\ Harmed("begin")
    /\ BatchThrows(p)
    /\ UNCHANGED store

\* mkdtemp
Stage(p) ==
    /\ Goto(p, "stage", "render")
    /\ stagingDir
    /\ staged' = [staged EXCEPT ![p] = Empty]
    /\ UNCHANGED <<final, locks, lockDir, stagingDir, litter, backup, batch, gen, had, trouble, past>>

\* .staging was removed since, or mkdtemp fails.  The lock file stays.
StageFails(p) ==
    /\ pc[p] = "stage"
    /\ \/ ~stagingDir /\ UNCHANGED <<trouble, harm>>
       \/ Fault(p) /\ Harmed("begin")
    /\ BatchThrows(p)
    /\ UNCHANGED store

(***************************************************************************)
(* The stages, into the staging directory.                                 *)
(***************************************************************************)
Writes(p, from, to, fs) ==
    /\ Goto(p, from, to)
    /\ staged' = [staged EXCEPT ![p] = Put(staged[p], fs, gen[p])]
    /\ stagingDir' = TRUE
    /\ UNCHANGED <<final, locks, lockDir, litter, backup, batch, gen, had, trouble, past>>

\* Closure, facts, one-hop, multi-hop and the table view.
Render(p) == Writes(p, "render", "write", {"json", "html"})

\* The final snapshots, and the field view if it was asked for.
WriteFinal(p) == Writes(p, "write", "look", Outputs(p) \ {"html"})

\* A stage throws, or publishStagedTask cannot make artifacts/tasks.
StageThrows(p) ==
    /\ pc[p] \in {"render", "write", "look"}
    /\ Fault(p)
    /\ pc' = [pc EXCEPT ![p] = "discard"]
    /\ UNCHANGED <<store, batch, gen, had, past>>

(***************************************************************************)
(* publishStagedTask.                                                      *)
(***************************************************************************)
Look(p) ==
    /\ Goto(p, "look", "backup")
    /\ had' = [had EXCEPT ![p] = final[task[p]] # NONE]
    /\ UNCHANGED <<store, batch, gen, trouble, past>>

\* The formal directory moves aside.
Backup(p) ==
    /\ Goto(p, "backup", "install")
    /\ IF had[p]
       THEN /\ final[task[p]] # NONE
            /\ backup' = [backup EXCEPT ![p] = final[task[p]]]
            /\ final' = [final EXCEPT ![task[p]] = NONE]
       ELSE UNCHANGED <<final, backup>>
    /\ UNCHANGED <<locks, lockDir, stagingDir, litter, staged, batch, gen, had, trouble, past>>

BackupFails(p) ==
    /\ Goto(p, "backup", "discard")
    /\ had[p]
    /\ \/ final[task[p]] = NONE /\ UNCHANGED trouble
       \/ Fault(p)
    /\ UNCHANGED <<store, batch, gen, had, past>>

\* Slip: the staged files are moved into whatever directory is there.
InstallsOver(p) ==
    /\ Goto(p, "install", "drop")
    /\ staged[p] # NONE
    /\ final' = [final EXCEPT ![task[p]] =
                   [f \in Files |-> IF staged[p][f] # NONE \/ @ = NONE THEN staged[p][f] ELSE @[f]]]
    /\ staged' = [staged EXCEPT ![p] = NONE]
    /\ UNCHANGED <<locks, lockDir, stagingDir, litter, backup, batch, gen, had, trouble, past>>

\* The staging directory becomes the formal one.
Install(p) ==
    /\ Goto(p, "install", "drop")
    /\ staged[p] # NONE /\ Free(final[task[p]])
    /\ final' = [final EXCEPT ![task[p]] = staged[p]]
    /\ staged' = [staged EXCEPT ![p] = NONE]
    /\ UNCHANGED <<locks, lockDir, stagingDir, litter, backup, batch, gen, had, trouble, past>>

InstallFails(p) ==
    /\ Goto(p, "install", "removeFinal")
    /\ \/ (staged[p] = NONE \/ final[task[p]] # NONE) /\ UNCHANGED trouble
       \/ Fault(p)
    /\ UNCHANGED <<store, batch, gen, had, past>>

Succeed(p) == outcome' = [outcome EXCEPT ![p][task[p]] = "SUCCESS"]

DropBackup(p) ==
    /\ Goto(p, "drop", "unlock")
    /\ backup' = [backup EXCEPT ![p] = NONE]
    /\ Succeed(p)
    /\ UNCHANGED <<final, locks, lockDir, stagingDir, litter, staged, todo, task, fields,
                   gen, had, trouble, past>>

\* Removing the backup fails half-way: the catch block below runs although
\* the new directory is in place.
DropFails(p) ==
    /\ Goto(p, "drop", "removeFinal")
    /\ backup[p] # NONE
    /\ Fault(p)
    /\ \E d \in TornOf(backup[p]) : backup' = [backup EXCEPT ![p] = d]
    /\ Spoilt(p, "drop")
    /\ UNCHANGED <<final, locks, lockDir, stagingDir, litter, staged, batch, gen, had, before, harm>>

\* The catch block removes the formal directory, whoever put it there ...
RemoveFinal(p) ==
    /\ Goto(p, "removeFinal", "restore")
    /\ final' = [final EXCEPT ![task[p]] = NONE]
    /\ UNCHANGED <<locks, lockDir, stagingDir, litter, staged, backup, batch, gen, had, trouble, past>>

\* Slip: the backup is not put back.
SkipsRestore(p) ==
    /\ Goto(p, "restore", "discard")
    /\ backup' = [backup EXCEPT ![p] = NONE]
    /\ UNCHANGED <<final, locks, lockDir, stagingDir, litter, staged, batch, gen, had, trouble, past>>

\* ... and puts the backup back, if that name is free.
Restore(p) ==
    /\ Goto(p, "restore", "discard")
    /\ IF backup[p] # NONE /\ Free(final[task[p]])
       THEN final' = [final EXCEPT ![task[p]] = backup[p]]
       ELSE UNCHANGED final
    /\ backup' = [backup EXCEPT ![p] = NONE]
    /\ UNCHANGED <<locks, lockDir, stagingDir, litter, staged, batch, gen, had, trouble, past>>

\* The catch block itself fails: nothing more is undone.
RollbackFails(p) ==
    /\ \/ /\ Goto(p, "removeFinal", "discard")
          /\ final[task[p]] # NONE
          /\ \E d \in TornOf(final[task[p]]) : final' = [final EXCEPT ![task[p]] = d]
       \/ /\ Goto(p, "restore", "discard")
          /\ backup[p] # NONE
          /\ UNCHANGED final
    /\ Fault(p)
    /\ Spoilt(p, "undo")
    /\ backup' = [backup EXCEPT ![p] = NONE]
    /\ UNCHANGED <<locks, lockDir, stagingDir, litter, staged, batch, gen, had, before, harm>>

(***************************************************************************)
(* publishStagedTaskInPlace: Windows blocks the rename of an open file.    *)
(***************************************************************************)
BackupBlocked(p) ==
    /\ Goto(p, "backup", "copy")
    /\ Blocked /\ had[p]
    /\ UNCHANGED <<store, batch, gen, had, trouble, past>>

\* Files of the staging directory not copied yet.
Uncopied(p) ==
    {f \in Files : /\ staged[p][f] # NONE
                   /\ final[task[p]] = NONE \/ final[task[p]][f] # staged[p][f]}

CopyFile(p) ==
    /\ pc[p] = "copy"
    /\ staged[p] # NONE
    /\ \E f \in Uncopied(p) :
          final' = [final EXCEPT ![task[p]] = Put(final[task[p]], {f}, staged[p][f])]
    /\ UNCHANGED <<locks, lockDir, stagingDir, litter, staged, backup, pc, batch, gen, had, trouble, past>>

\* Slip: files that the new generation does not have are left in place.
KeepsStale(p) ==
    /\ Goto(p, "copy", "clear")
    /\ staged[p] # NONE /\ Uncopied(p) = {}
    /\ UNCHANGED <<store, batch, gen, had, trouble, past>>

\* Files that the staging directory does not have are removed ...
RemoveStale(p) ==
    /\ Goto(p, "copy", "clear")
    /\ staged[p] # NONE /\ Uncopied(p) = {}
    /\ final' = [final EXCEPT ![task[p]] = staged[p]]
    /\ UNCHANGED <<locks, lockDir, stagingDir, litter, staged, backup, batch, gen, had, trouble, past>>

\* ... then the staging directory itself.
ClearStaged(p) ==
    /\ Goto(p, "clear", "unlock")
    /\ staged' = [staged EXCEPT ![p] = NONE]
    /\ Succeed(p)
    /\ UNCHANGED <<final, locks, lockDir, stagingDir, litter, backup, todo, task, fields,
                   gen, had, trouble, past>>

\* The open file also blocks the copy, the staging directory is gone, or its
\* removal fails.
CopyFails(p) ==
    /\ pc[p] \in {"copy", "clear"}
    /\ pc' = [pc EXCEPT ![p] = "discard"]
    /\ \/ pc[p] = "copy" /\ staged[p] = NONE /\ UNCHANGED trouble
       \/ Fault(p)
    /\ Spoilt(p, "copy")
    /\ UNCHANGED <<store, batch, gen, had, before, harm>>

(***************************************************************************)
(* runTask's catch and finally; runLineageAll's cleanup.                   *)
(***************************************************************************)
Discard(p) ==
    /\ Goto(p, "discard", "unlock")
    /\ staged' = [staged EXCEPT ![p] = NONE]
    /\ outcome' = [outcome EXCEPT ![p][task[p]] = "FAILED"]
    /\ UNCHANGED <<final, locks, lockDir, stagingDir, litter, backup, todo, task, fields,
                   gen, had, trouble, past>>

\* The removal stops half-way and throws out of the catch block.
DiscardFails(p) ==
    /\ Goto(p, "discard", "throw")
    /\ staged[p] # NONE
    /\ Fault(p)
    /\ Harmed("discard")
    /\ litter' = TRUE
    /\ staged' = [staged EXCEPT ![p] = NONE]
    /\ UNCHANGED <<final, locks, lockDir, stagingDir, backup, batch, gen, had, before, spoilt>>

\* Slip: a failed run keeps its lock.
UnlocksSuccess(p) ==
    /\ Goto(p, "unlock", "nextTask")
    /\ locks' = IF outcome[p][task[p]] = "SUCCESS" THEN locks \ {task[p]} ELSE locks
    /\ EndRun(p)
    /\ UNCHANGED <<final, lockDir, stagingDir, litter, staged, backup, todo, fields, outcome, trouble, harm>>

Unlock(p) ==
    /\ Goto(p, "unlock", "nextTask")
    /\ locks' = locks \ {task[p]}
    /\ EndRun(p)
    /\ UNCHANGED <<final, lockDir, stagingDir, litter, staged, backup, todo, fields, outcome, trouble, harm>>

\* The finally block, and the exception leaves runTask.
UnlockThrown(p) ==
    /\ pc[p] = "throw"
    /\ locks' = locks \ {task[p]}
    /\ BatchThrows(p)
    /\ UNCHANGED <<final, lockDir, stagingDir, litter, staged, backup, trouble, harm>>

\* The lock file cannot be removed.
UnlockFails(p) ==
    /\ pc[p] \in {"unlock", "throw"}
    /\ task[p] \in locks
    /\ Fault(p)
    /\ Harmed("unlock")
    /\ BatchThrows(p)
    /\ UNCHANGED store

StagingIsEmpty == ~litter /\ \A q \in Procs : staged[q] = NONE

\* readdirSync finds .staging empty ...
SeeStaging(p) ==
    /\ pc[p] = "seeStaging"
    /\ pc' = [pc EXCEPT ![p] = IF stagingDir /\ StagingIsEmpty THEN "cleanStaging" ELSE "seeLocks"]
    /\ UNCHANGED <<store, batch, gen, had, trouble, past>>

\* ... and rmSync removes it with whatever is in it by now.
CleanStaging(p) ==
    /\ Goto(p, "cleanStaging", "seeLocks")
    /\ stagingDir' = FALSE /\ litter' = FALSE
    /\ staged' = [q \in Procs |-> NONE]
    /\ UNCHANGED <<final, locks, lockDir, backup, batch, gen, had, trouble, past>>

SeeLocks(p) ==
    /\ pc[p] = "seeLocks"
    /\ pc' = [pc EXCEPT ![p] = IF lockDir /\ locks = {} THEN "cleanLocks" ELSE "idle"]
    /\ UNCHANGED <<store, batch, gen, had, trouble, past>>

CleanLocks(p) ==
    /\ Goto(p, "cleanLocks", "idle")
    /\ lockDir' = FALSE /\ locks' = {}
    /\ UNCHANGED <<final, stagingDir, litter, staged, backup, batch, gen, had, trouble, past>>

\* A removal of the cleanup throws; the tasks have been published.
CleanFails(p) ==
    /\ pc[p] \in {"cleanStaging", "cleanLocks"}
    /\ Fault(p)
    /\ Harmed("clean")
    /\ BatchThrows(p)
    /\ UNCHANGED store

(***************************************************************************)
(* The environment.                                                        *)
(***************************************************************************)
\* The process dies.  Its lock, its staging directory and its backup stay.
Crash(p) ==
    /\ "crash" \in FaultPoints
    /\ pc[p] # "idle"
    /\ trouble < MaxTrouble
    /\ trouble' = trouble + 1
    /\ BatchThrows(p)
    /\ litter' = (litter \/ staged[p] # NONE)
    /\ staged' = [staged EXCEPT ![p] = NONE]
    /\ backup' = [backup EXCEPT ![p] = NONE]
    /\ \/ UNCHANGED final
       \/ /\ pc[p] = "removeFinal" /\ final[task[p]] # NONE
          /\ \E d \in TornOf(final[task[p]]) : final' = [final EXCEPT ![task[p]] = d]
    /\ Harmed("crash")
    /\ UNCHANGED <<locks, lockDir, stagingDir>>

Holds(p, t) ==
    /\ task[p] = t
    /\ pc[p] \in {"begin", "stage", "render", "write", "look", "backup", "install", "drop",
                  "removeFinal", "restore", "copy", "clear", "discard", "unlock", "throw"}

\* Somebody removes the lock file that a dead process left.
OperatorUnlocks == \E t \in locks :
    /\ \A p \in Procs : ~Holds(p, t)
    /\ trouble < MaxTrouble
    /\ trouble' = trouble + 1
    /\ locks' = locks \ {t}
    /\ UNCHANGED <<final, lockDir, stagingDir, litter, staged, backup, pc, batch, gen, had, past>>

BatchStep(p)   == StartBatch(p) \/ NextTask(p) \/ NoTaskLeft(p)
                  \/ SeeStaging(p) \/ CleanStaging(p) \/ SeeLocks(p) \/ CleanLocks(p) \/ CleanFails(p)
RunStep(p)     == Lock(p) \/ LockFails(p) \/ Begin(p) \/ BeginFails(p) \/ Stage(p) \/ StageFails(p)
                  \/ Render(p) \/ WriteFinal(p) \/ StageThrows(p) \/ Discard(p) \/ DiscardFails(p)
                  \/ Unlock(p) \/ UnlockThrown(p) \/ UnlockFails(p)
PublishStep(p) == Look(p) \/ Backup(p) \/ BackupFails(p) \/ Install(p) \/ InstallFails(p)
                  \/ DropBackup(p) \/ DropFails(p) \/ RemoveFinal(p) \/ Restore(p) \/ RollbackFails(p)
InPlaceStep(p) == BackupBlocked(p) \/ CopyFile(p) \/ RemoveStale(p) \/ ClearStaged(p) \/ CopyFails(p)

Next ==
    \/ OperatorUnlocks
    \/ \E p \in Procs : BatchStep(p) \/ RunStep(p) \/ PublishStep(p) \/ InPlaceStep(p) \/ Crash(p)

Spec == Init /\ [][Next]_vars

-----------------------------------------------------------------------------
(***************************************************************************)
(* Correctness.                                                            *)
(***************************************************************************)
Whole(d) == d # NONE /\ \E g \in Generations :
    d["json"] = g /\ d["html"] = g /\ d["field"] \in {g, NONE}

\* One generation per directory: no file of one run beside one of another.
Uniform(d) == d # NONE => \E g \in Generations : \A f \in Files : d[f] \in {g, NONE}

ProgramPoints ==
    {"idle", "nextTask", "lock", "begin", "stage", "render", "write", "look", "backup", "install",
     "drop", "removeFinal", "restore", "copy", "clear", "discard", "unlock", "throw",
     "seeStaging", "cleanStaging", "seeLocks", "cleanLocks"}

\* Directories, lock files and the locals of a batch hold what their names
\* say; a staging directory is only where .staging exists.
TypeOK ==
    /\ final \in [Tasks -> Dirs \cup {NONE}]
    /\ locks \subseteq Tasks
    /\ lockDir \in BOOLEAN /\ stagingDir \in BOOLEAN /\ litter \in BOOLEAN
    /\ locks # {} => lockDir
    /\ staged \in [Procs -> Dirs \cup {NONE}]
    /\ backup \in [Procs -> Dirs \cup {NONE}]
    /\ ~StagingIsEmpty => stagingDir
    /\ pc \in [Procs -> ProgramPoints]
    /\ todo \in [Procs -> SUBSET Tasks]
    /\ task \in [Procs -> Tasks \cup {NONE}]
    /\ gen \in [Procs -> Generations \cup {NONE}]
    /\ fields \in [Procs -> BOOLEAN]
    /\ had \in [Procs -> BOOLEAN]
    /\ outcome \in [Procs -> [Tasks -> {"none", "SUCCESS", "FAILED"}]]
    /\ before \in [Procs -> Dirs \cup {NONE}]
    /\ spoilt \in [Procs -> Spoils \cup {"none"}]
    /\ harm \subseteq Harms
    /\ trouble \in 0 .. MaxTrouble

\* publishStagedTask by renames never mixes the files of two runs, neither in
\* the formal directory nor in a backup that could be put back: not when
\* removals stop half-way, not when processes die, and not even when the
\* cleanup of another batch took the lock or the staging directory away.
NoMixedGenerations ==
    \A d \in {final[t] : t \in Tasks} \cup {backup[p] : p \in Procs} : Uniform(d)

\* The formal directory that p's run leaves, once it has not succeeded.
Kept(p) == LET d == final[task[p]] IN
    /\ spoilt[p] = "none" => d = before[p]
    /\ spoilt[p] = "drop" => d \in TornOf(before[p])
    /\ (spoilt[p] = "undo" /\ d # NONE) => \A f \in Files : d[f] \in {gen[p], NONE}
    /\ spoilt[p] = "copy" => d # NONE /\ \A f \in Files : d[f] \in {before[p][f], gen[p], NONE}

\* A task that ends FAILED, or whose run throws, leaves the formal directory as
\* the run found it, whichever stage or rename failed.  docs/lineage-all.md:46
\* promises that for every failure; the code gives less in three cases, and
\* then this much: if the removal of the backup stopped half-way, what that
\* removal left of the previous directory; if the catch block failed as well,
\* nothing or a part of the new one; if a publication in place failed, files of
\* both, each one old or new.
FailureKeepsFormal ==
    \A p \in Procs :
        pc[p] \in {"unlock", "throw"} /\ outcome[p][task[p]] # "SUCCESS" => Kept(p)

\* A task reported as SUCCESS is published whole and in one generation, with
\* no optional file of an earlier run beside it, whether it was installed by
\* renames or in place; later failures and crashes of the batch at other tasks
\* leave it so.
SuccessIsPublished ==
    \A p \in Procs, t \in Tasks :
        outcome[p][t] = "SUCCESS" /\ t \notin {task[q] : q \in Procs \ {p}} => Whole(final[t])

\* When no process is at work, no lock file is left, so that the next batch can
\* run every task, unless a process died, or the write of the pid, a mkdir or
\* mkdtemp between the lock and runTask's try failed, or the removal of the lock;
\* no staged directory, unless a process died or the removal of one failed; and
\* neither .locks nor .staging, unless one of these, opening a lock file or the
\* cleanup failed.  (For one batch: the cleanup of another one can make mkdtemp
\* fail as well.)
NothingLeftBehind ==
    (\A p \in Procs : pc[p] = "idle") =>
        /\ harm \cap {"crash", "begin", "unlock"} = {} => locks = {}
        /\ harm \cap {"crash", "discard"} = {} => StagingIsEmpty
        /\ harm = {} => ~lockDir /\ ~stagingDir
=============================================================================
