----------------------- MODULE LineagePublish_proofs -----------------------
(***************************************************************************)
(* Theorems about LineagePublish for any number of processes, tasks and    *)
(* failures.  TypeInv is TypeOK with where a process has a task and a      *)
(* generation; UniformInv adds to NoMixedGenerations that a process only   *)
(* has files of its own generation in its staging directory.  The last     *)
(* part is about one batch at a time: BatchInv follows a generation from   *)
(* its staging directory to its publication, and the directory it          *)
(* replaces from its place to its removal or back.                         *)
(***************************************************************************)
EXTENDS LineagePublish, TLAPS

\* Where a process has a task, and where it has a generation.
AtTask == ProgramPoints \ {"idle", "nextTask", "seeStaging", "cleanStaging", "seeLocks", "cleanLocks"}
AtRun  == AtTask \ {"lock"}

TypeInv ==
    /\ TypeOK
    /\ \A p \in Procs :
          /\ pc[p] \in AtTask => task[p] \in Tasks
          /\ pc[p] \in AtRun => gen[p] \in Generations

LEMMA PublishInitType == Init => TypeInv
<1> SUFFICES ASSUME Init PROVE TypeInv
  OBVIOUS
<1>1. outcome \in [Procs -> [Tasks -> {"none", "SUCCESS", "FAILED"}]]
  BY DEF Init, NotRun
<1>2. trouble \in 0 .. MaxTrouble
  BY PublishTroubleAssumption DEF Init
<1> QED
  BY <1>1, <1>2 DEF Init, TypeInv, TypeOK, StagingIsEmpty, ProgramPoints, AtTask, AtRun

\* What a removal leaves, and what is written, is a directory.
LEMMA TornIsDir ==
    ASSUME NEW d \in Dirs, NEW e \in TornOf(d)
    PROVE  e \in Dirs
  BY DEF TornOf, Dirs

LEMMA PutIsDir ==
    ASSUME NEW d \in Dirs \cup {NONE}, NEW fs, NEW g \in Generations
    PROVE  Put(d, fs, g) \in Dirs
  BY DEF Put, Dirs

LEMMA PublishTypeStep ==
    ASSUME TypeInv, [Next]_vars
    PROVE  TypeInv'
<1> USE PublishTroubleAssumption DEF TypeInv, TypeOK, StagingIsEmpty, ProgramPoints, AtTask, AtRun, Dirs,
        store, batch, past, Goto
<1>1. ASSUME NEW p \in Procs, StartBatch(p) PROVE TypeInv'
  BY <1>1 DEF StartBatch, NotRun
<1>2. ASSUME NEW p \in Procs, NextTask(p) PROVE TypeInv'
  BY <1>2 DEF NextTask
<1>3. ASSUME NEW p \in Procs, NoTaskLeft(p) PROVE TypeInv'
  BY <1>3 DEF NoTaskLeft
<1>4. ASSUME NEW p \in Procs, SeeStaging(p) PROVE TypeInv'
  BY <1>4 DEF SeeStaging
<1>5. ASSUME NEW p \in Procs, CleanStaging(p) PROVE TypeInv'
  BY <1>5 DEF CleanStaging
<1>6. ASSUME NEW p \in Procs, SeeLocks(p) PROVE TypeInv'
  BY <1>6 DEF SeeLocks
<1>7. ASSUME NEW p \in Procs, CleanLocks(p) PROVE TypeInv'
  BY <1>7 DEF CleanLocks
<1>8. ASSUME NEW p \in Procs, Lock(p) PROVE TypeInv'
  BY SMTT(30), <1>8 DEF Lock
<1>9. ASSUME NEW p \in Procs, LockFails(p) PROVE TypeInv'
  <2>1. \/ trouble' = trouble /\ harm' = harm
        \/ Fault(p) /\ harm' = harm \cup {"open"}
    BY <1>9 DEF LockFails, Harmed
  <2>2. trouble' \in 0 .. MaxTrouble
    BY <2>1 DEF Fault
  <2>3. harm' \subseteq Harms
    BY <2>1 DEF Harms
  <2> QED
    BY <1>9, <2>2, <2>3 DEF LockFails, BatchThrows, EndRun
<1>10. ASSUME NEW p \in Procs, Stage(p) PROVE TypeInv'
  BY <1>10 DEF Stage, Empty
<1>11. ASSUME NEW p \in Procs, StageFails(p) PROVE TypeInv'
  <2>1. \/ trouble' = trouble /\ harm' = harm
        \/ Fault(p) /\ harm' = harm \cup {"begin"}
    BY <1>11 DEF StageFails, Harmed
  <2>2. trouble' \in 0 .. MaxTrouble
    BY <2>1 DEF Fault
  <2>3. harm' \subseteq Harms
    BY <2>1 DEF Harms
  <2> QED
    BY <1>11, <2>2, <2>3 DEF StageFails, BatchThrows, EndRun
<1>12. ASSUME NEW p \in Procs, Render(p) PROVE TypeInv'
  BY <1>12 DEF Render, Writes, Put
<1>13. ASSUME NEW p \in Procs, WriteFinal(p) PROVE TypeInv'
  BY <1>13 DEF WriteFinal, Writes, Put, Outputs
<1>14. ASSUME NEW p \in Procs, StageThrows(p) PROVE TypeInv'
  BY <1>14 DEF StageThrows, Fault
<1>15. ASSUME NEW p \in Procs, Discard(p) PROVE TypeInv'
  BY <1>15 DEF Discard
<1>16. ASSUME NEW p \in Procs, Unlock(p) PROVE TypeInv'
  BY <1>16 DEF Unlock, EndRun
<1>17. ASSUME NEW p \in Procs, Look(p) PROVE TypeInv'
  BY <1>17 DEF Look
<1>18. ASSUME NEW p \in Procs, Backup(p) PROVE TypeInv'
  BY <1>18 DEF Backup
<1>19. ASSUME NEW p \in Procs, BackupFails(p) PROVE TypeInv'
  BY <1>19 DEF BackupFails, Fault
<1>20. ASSUME NEW p \in Procs, Install(p) PROVE TypeInv'
  BY <1>20 DEF Install
<1>21. ASSUME NEW p \in Procs, InstallFails(p) PROVE TypeInv'
  BY <1>21 DEF InstallFails, Fault
<1>22. ASSUME NEW p \in Procs, DropBackup(p) PROVE TypeInv'
  BY <1>22 DEF DropBackup, Succeed
<1>23. ASSUME NEW p \in Procs, DropFails(p) PROVE TypeInv'
  <2>1. PICK d \in TornOf(backup[p]) : backup' = [backup EXCEPT ![p] = d]
    BY <1>23 DEF DropFails
  <2>2. d \in [Files -> Generations \cup {NONE}]
    BY <1>23, <2>1, TornIsDir DEF DropFails
  <2> QED
    BY <1>23, <2>1, <2>2 DEF DropFails, Fault, Spoils, Spoilt
<1>24. ASSUME NEW p \in Procs, RemoveFinal(p) PROVE TypeInv'
  BY <1>24 DEF RemoveFinal
<1>25. ASSUME NEW p \in Procs, Restore(p) PROVE TypeInv'
  BY <1>25 DEF Restore
<1>26. ASSUME NEW p \in Procs, RollbackFails(p) PROVE TypeInv'
  <2>1. final' \in [Tasks -> [Files -> Generations \cup {NONE}] \cup {NONE}]
    <3>1. CASE final' = final
      BY <3>1
    <3>2. CASE final' # final
      <4>1. PICK d \in TornOf(final[task[p]]) : final' = [final EXCEPT ![task[p]] = d]
        BY <1>26, <3>2 DEF RollbackFails
      <4>2. final[task[p]] \in [Files -> Generations \cup {NONE}]
        BY <1>26, <3>2 DEF RollbackFails
      <4>3. d \in [Files -> Generations \cup {NONE}]
        BY <4>2, TornIsDir
      <4> QED
        BY <4>1, <4>3
    <3> QED
      BY <3>1, <3>2
  <2>2. backup' \in [Procs -> [Files -> Generations \cup {NONE}] \cup {NONE}]
    BY <1>26 DEF RollbackFails
  <2>3. pc' = [pc EXCEPT ![p] = "discard"] /\ pc[p] \in AtRun
    BY <1>26 DEF RollbackFails
  <2>4. trouble' \in 0 .. MaxTrouble
    BY <1>26 DEF RollbackFails, Fault
  <2> QED
    BY <1>26, <2>1, <2>2, <2>3, <2>4 DEF RollbackFails, Spoils, Spoilt
<1>27. ASSUME NEW p \in Procs, BackupBlocked(p) PROVE TypeInv'
  BY <1>27 DEF BackupBlocked
<1>28. ASSUME NEW p \in Procs, CopyFile(p) PROVE TypeInv'
  <2>1. PICK f \in Uncopied(p) : final' = [final EXCEPT ![task[p]] = Put(final[task[p]], {f}, staged[p][f])]
    BY <1>28 DEF CopyFile
  <2>2. staged[p][f] \in Generations
    BY <1>28, <2>1 DEF CopyFile, Uncopied
  <2>3. Put(final[task[p]], {f}, staged[p][f]) \in [Files -> Generations \cup {NONE}]
    BY <1>28, <2>2, PutIsDir DEF CopyFile
  <2> QED
    BY <1>28, <2>1, <2>3 DEF CopyFile
<1>29. ASSUME NEW p \in Procs, RemoveStale(p) PROVE TypeInv'
  BY <1>29 DEF RemoveStale
<1>30. ASSUME NEW p \in Procs, CopyFails(p) PROVE TypeInv'
  BY <1>30 DEF CopyFails, Fault, Spoils, Spoilt
<1>31. ASSUME NEW p \in Procs, Crash(p) PROVE TypeInv'
  <2>1. final' \in [Tasks -> [Files -> Generations \cup {NONE}] \cup {NONE}]
    <3>1. CASE final' = final
      BY <3>1
    <3>2. CASE final' # final
      <4>1. PICK d \in TornOf(final[task[p]]) : final' = [final EXCEPT ![task[p]] = d]
        BY <1>31, <3>2 DEF Crash
      <4>2. final[task[p]] \in [Files -> Generations \cup {NONE}]
        BY <1>31, <3>2 DEF Crash
      <4>3. d \in [Files -> Generations \cup {NONE}]
        BY <4>2, TornIsDir
      <4> QED
        BY <4>1, <4>3
    <3> QED
      BY <3>1, <3>2
  <2> QED
    BY <1>31, <2>1 DEF Crash, BatchThrows, EndRun, Harms, Harmed
<1>32. CASE OperatorUnlocks
  BY <1>32 DEF OperatorUnlocks
<1>33. CASE UNCHANGED vars
  BY <1>33 DEF vars
<1>34. ASSUME NEW p \in Procs, Begin(p) PROVE TypeInv'
  BY <1>34 DEF Begin
<1>35. ASSUME NEW p \in Procs, BeginFails(p) PROVE TypeInv'
  BY <1>35 DEF BeginFails, BatchThrows, EndRun, Fault, Harms, Harmed
<1>36. ASSUME NEW p \in Procs, DiscardFails(p) PROVE TypeInv'
  BY <1>36 DEF DiscardFails, Fault, Harms, Harmed
<1>37. ASSUME NEW p \in Procs, UnlockThrown(p) PROVE TypeInv'
  BY <1>37 DEF UnlockThrown, BatchThrows, EndRun
<1>38. ASSUME NEW p \in Procs, UnlockFails(p) PROVE TypeInv'
  BY <1>38 DEF UnlockFails, BatchThrows, EndRun, Fault, Harms, Harmed
<1>39. ASSUME NEW p \in Procs, CleanFails(p) PROVE TypeInv'
  BY <1>39 DEF CleanFails, BatchThrows, EndRun, Fault, Harms, Harmed
<1>40. ASSUME NEW p \in Procs, ClearStaged(p) PROVE TypeInv'
  BY <1>40 DEF ClearStaged, Succeed
<1> QED
  BY <1>34, <1>35, <1>36, <1>37, <1>38, <1>39, <1>40,
     <1>1, <1>2, <1>3, <1>4, <1>5, <1>6, <1>7, <1>8, <1>9, <1>10, <1>11, <1>12, <1>13, <1>14, <1>15, <1>16, <1>17, <1>18, <1>19, <1>20, <1>21, <1>22, <1>23, <1>24, <1>25, <1>26, <1>27, <1>28, <1>29, <1>30, <1>31, <1>32, <1>33 DEF Next, BatchStep, RunStep, PublishStep, InPlaceStep

\* Type correctness (runTask, publishStagedTask, runLineageAll): lock files
\* exist only in .locks and staging directories only in .staging, although
\* the cleanup of another batch may remove either at any time.
THEOREM PublishTypeCorrect == Spec => []TypeOK
<1>1. TypeInv => TypeOK
  BY DEF TypeInv
<1> QED
  BY <1>1, PublishInitType, PublishTypeStep, PTL DEF Spec

(***************************************************************************)
(* One generation per directory.                                           *)
(***************************************************************************)
\* Where a process may have a staging directory when renames are not blocked.
HasStaged == {"render", "write", "look", "backup", "install", "removeFinal", "restore", "discard"}

UniformInv ==
    /\ \A t \in Tasks : Uniform(final[t])
    /\ \A p \in Procs :
          /\ Uniform(backup[p])
          /\ staged[p] # NONE => /\ pc[p] \in HasStaged
                                 /\ \A f \in Files : staged[p][f] \in {gen[p], NONE}
          /\ pc[p] \notin {"copy", "clear"}

\* A removal that stops half-way leaves files of the same generation.
LEMMA TornIsUniform ==
    ASSUME NEW d \in Dirs, Uniform(d), d # NONE, NEW e \in TornOf(d)
    PROVE  Uniform(e)
  BY DEF TornOf, Uniform, Dirs

LEMMA NoneIsUniform == Uniform(NONE)
  BY DEF Uniform

LEMMA UniformStep ==
    ASSUME ~Blocked, TypeInv, UniformInv, [Next]_vars
    PROVE  UniformInv'
<1> USE NoneIsUniform DEF UniformInv, HasStaged, TypeInv, TypeOK, AtTask, AtRun, store, batch, past, Goto, Harmed, Spoilt
<1>1. ASSUME NEW p \in Procs, StartBatch(p) PROVE UniformInv'
  BY <1>1 DEF StartBatch
<1>2. ASSUME NEW p \in Procs, NextTask(p) PROVE UniformInv'
  BY <1>2 DEF NextTask
<1>3. ASSUME NEW p \in Procs, NoTaskLeft(p) PROVE UniformInv'
  BY <1>3 DEF NoTaskLeft
<1>4. ASSUME NEW p \in Procs, SeeStaging(p) PROVE UniformInv'
  BY <1>4 DEF SeeStaging
<1>5. ASSUME NEW p \in Procs, CleanStaging(p) PROVE UniformInv'
  BY <1>5 DEF CleanStaging
<1>6. ASSUME NEW p \in Procs, SeeLocks(p) PROVE UniformInv'
  BY <1>6 DEF SeeLocks
<1>7. ASSUME NEW p \in Procs, CleanLocks(p) PROVE UniformInv'
  BY <1>7 DEF CleanLocks
<1>8. ASSUME NEW p \in Procs, Lock(p) PROVE UniformInv'
  BY <1>8 DEF Lock
<1>9. ASSUME NEW p \in Procs, LockFails(p) PROVE UniformInv'
  BY <1>9 DEF LockFails, BatchThrows, EndRun
<1>10. ASSUME NEW p \in Procs, Stage(p) PROVE UniformInv'
  BY <1>10 DEF Stage, Empty
<1>11. ASSUME NEW p \in Procs, StageFails(p) PROVE UniformInv'
  BY <1>11 DEF StageFails, BatchThrows, EndRun
<1>12. ASSUME NEW p \in Procs, Render(p) PROVE UniformInv'
  BY <1>12 DEF Render, Writes, Put
<1>13. ASSUME NEW p \in Procs, WriteFinal(p) PROVE UniformInv'
  BY <1>13 DEF WriteFinal, Writes, Put
<1>14. ASSUME NEW p \in Procs, StageThrows(p) PROVE UniformInv'
  BY <1>14 DEF StageThrows
<1>15. ASSUME NEW p \in Procs, Discard(p) PROVE UniformInv'
  BY <1>15 DEF Discard
<1>16. ASSUME NEW p \in Procs, Unlock(p) PROVE UniformInv'
  BY <1>16 DEF Unlock, EndRun
<1>17. ASSUME NEW p \in Procs, Look(p) PROVE UniformInv'
  BY <1>17 DEF Look
<1>18. ASSUME NEW p \in Procs, Backup(p) PROVE UniformInv'
  <2>1. \A t \in Tasks : Uniform(final'[t])
    BY <1>18 DEF Backup
  <2>2. \A q \in Procs : Uniform(backup'[q])
    BY <1>18 DEF Backup, ProgramPoints
  <2>3. /\ pc' = [pc EXCEPT ![p] = "install"] /\ pc[p] = "backup" /\ UNCHANGED <<staged, gen>>
    BY <1>18 DEF Backup
  <2> QED
    BY <2>1, <2>2, <2>3
<1>19. ASSUME NEW p \in Procs, BackupFails(p) PROVE UniformInv'
  BY <1>19 DEF BackupFails
<1>20. ASSUME NEW p \in Procs, Install(p) PROVE UniformInv'
  <2>1. Uniform(staged[p])
    <3>1. gen[p] \in Generations /\ \A f \in Files : staged[p][f] \in {gen[p], NONE}
      BY <1>20 DEF Install, ProgramPoints
    <3> QED
      BY <3>1 DEF Uniform
  <2> QED
    BY <1>20, <2>1 DEF Install
<1>21. ASSUME NEW p \in Procs, InstallFails(p) PROVE UniformInv'
  BY <1>21 DEF InstallFails
<1>22. ASSUME NEW p \in Procs, DropBackup(p) PROVE UniformInv'
  BY <1>22 DEF DropBackup
<1>23. ASSUME NEW p \in Procs, DropFails(p) PROVE UniformInv'
  <2>1. PICK d \in TornOf(backup[p]) : backup' = [backup EXCEPT ![p] = d]
    BY <1>23 DEF DropFails
  <2>2. Uniform(d)
    BY <1>23, <2>1, TornIsUniform DEF DropFails
  <2> QED
    BY <1>23, <2>1, <2>2 DEF DropFails
<1>24. ASSUME NEW p \in Procs, RemoveFinal(p) PROVE UniformInv'
  BY <1>24 DEF RemoveFinal
<1>25. ASSUME NEW p \in Procs, Restore(p) PROVE UniformInv'
  BY <1>25 DEF Restore
<1>26. ASSUME NEW p \in Procs, RollbackFails(p) PROVE UniformInv'
  <2>1. \A t \in Tasks : Uniform(final'[t])
    BY SMTT(30), <1>26, TornIsUniform DEF RollbackFails
  <2> QED
    BY <1>26, <2>1 DEF RollbackFails
<1>27. ASSUME NEW p \in Procs, BackupBlocked(p) PROVE UniformInv'
  BY <1>27 DEF BackupBlocked
<1>28. ASSUME NEW p \in Procs, CopyFile(p) PROVE UniformInv'
  BY <1>28 DEF CopyFile
<1>29. ASSUME NEW p \in Procs, RemoveStale(p) PROVE UniformInv'
  BY <1>29 DEF RemoveStale
<1>30. ASSUME NEW p \in Procs, CopyFails(p) PROVE UniformInv'
  BY <1>30 DEF CopyFails
<1>31. ASSUME NEW p \in Procs, Crash(p) PROVE UniformInv'
  <2>1. \A t \in Tasks : Uniform(final'[t])
    <3>1. CASE final' = final
      BY <3>1
    <3>2. CASE final' # final
      <4>1. PICK d \in TornOf(final[task[p]]) : final' = [final EXCEPT ![task[p]] = d]
        BY <1>31, <3>2 DEF Crash
      <4>2. final[task[p]] \in Dirs /\ final[task[p]] # NONE /\ task[p] \in Tasks
        BY <1>31, <3>2 DEF Crash, ProgramPoints
      <4>3. Uniform(d)
        BY <4>2, TornIsUniform
      <4> QED
        BY <4>1, <4>3
    <3> QED
      BY <3>1, <3>2
  <2> QED
    BY <1>31, <2>1 DEF Crash, BatchThrows, EndRun
<1>32. CASE OperatorUnlocks
  BY <1>32 DEF OperatorUnlocks
<1>33. CASE UNCHANGED vars
  BY <1>33 DEF vars
<1>34. ASSUME NEW p \in Procs, Begin(p) PROVE UniformInv'
  BY <1>34 DEF Begin
<1>35. ASSUME NEW p \in Procs, BeginFails(p) PROVE UniformInv'
  BY <1>35 DEF BeginFails, BatchThrows, EndRun
<1>36. ASSUME NEW p \in Procs, DiscardFails(p) PROVE UniformInv'
  BY <1>36 DEF DiscardFails
<1>37. ASSUME NEW p \in Procs, UnlockThrown(p) PROVE UniformInv'
  BY <1>37 DEF UnlockThrown, BatchThrows, EndRun
<1>38. ASSUME NEW p \in Procs, UnlockFails(p) PROVE UniformInv'
  BY <1>38 DEF UnlockFails, BatchThrows, EndRun
<1>39. ASSUME NEW p \in Procs, CleanFails(p) PROVE UniformInv'
  BY <1>39 DEF CleanFails, BatchThrows, EndRun
<1>40. ASSUME NEW p \in Procs, ClearStaged(p) PROVE UniformInv'
  BY <1>40 DEF ClearStaged, Succeed
<1> QED
  BY <1>34, <1>35, <1>36, <1>37, <1>38, <1>39, <1>40,
     <1>1, <1>2, <1>3, <1>4, <1>5, <1>6, <1>7, <1>8, <1>9, <1>10, <1>11, <1>12, <1>13, <1>14, <1>15, <1>16, <1>17, <1>18, <1>19, <1>20, <1>21, <1>22, <1>23, <1>24, <1>25, <1>26, <1>27, <1>28, <1>29, <1>30, <1>31, <1>32, <1>33 DEF Next, BatchStep, RunStep, PublishStep, InPlaceStep

\* Where renames are not blocked by open files, neither a formal directory
\* nor a backup ever holds files of two runs (publishStagedTask), however many
\* batches publish the same task and whatever fails: losing the lock to
\* runLineageAll's cleanup can lose a publication, not mix two.
THEOREM GenerationsNeverMixed ==
    ASSUME ~Blocked
    PROVE  Spec => []NoMixedGenerations
<1>1. Init => UniformInv
  BY DEF Init, UniformInv, Uniform
<1>2. UniformInv => NoMixedGenerations
  BY DEF UniformInv, NoMixedGenerations
<1>3. TypeInv /\ UniformInv /\ [Next]_vars => UniformInv'
  BY UniformStep
<1> QED
  BY <1>1, <1>2, <1>3, PublishInitType, PublishTypeStep, PTL DEF Spec
(***************************************************************************)
(* One batch at a time.                                                    *)
(***************************************************************************)
OneBatchAtATime == \A p, q \in Procs : p = q

\* What a run of generation g hands over.
Full(d, g) == /\ d \in Dirs
              /\ d["json"] = g /\ d["html"] = g /\ d["field"] \in {g, NONE}

\* The staging directory grows to a full one, and is there until it is published.
StagedPart(p) ==
    /\ pc[p] = "render" => staged[p] = Empty
    /\ pc[p] = "write" => staged[p] = Put(Empty, {"json", "html"}, gen[p])
    /\ pc[p] \in {"look", "backup", "install", "copy", "clear"} => Full(staged[p], gen[p])
    /\ pc[p] \notin HasStaged \cup {"copy", "clear"} => staged[p] = NONE

\* Only files of generation g.
Only(d, g) == \A f \in Files : d[f] \in {g, NONE}

\* Where the directory is that the run found, as long as it can be put back,
\* and how the run has spoilt it.
FormalPart(p) ==
    /\ pc[p] \notin {"install", "drop", "removeFinal", "restore"} => backup[p] = NONE
    /\ pc[p] \notin {"removeFinal", "restore", "discard", "unlock", "throw"} => spoilt[p] = "none"
    /\ pc[p] \in {"removeFinal", "restore"} => spoilt[p] \in {"none", "drop"}
    /\ pc[p] \in {"begin", "stage", "render", "write", "look", "backup"} => final[task[p]] = before[p]
    /\ pc[p] = "backup" => (had[p] <=> final[task[p]] # NONE)
    /\ pc[p] = "install" => final[task[p]] = NONE /\ backup[p] = before[p]
    /\ pc[p] = "drop" => /\ Full(final[task[p]], gen[p])
                         /\ backup[p] = before[p]
    /\ pc[p] = "removeFinal" =>
          /\ spoilt[p] = "none" => final[task[p]] = NONE /\ backup[p] = before[p]
          /\ spoilt[p] = "drop" => /\ backup[p] # NONE /\ backup[p] \in TornOf(before[p])
                                   /\ Only(final[task[p]], gen[p])
    /\ pc[p] = "restore" =>
          /\ final[task[p]] = NONE
          /\ spoilt[p] = "none" => backup[p] = before[p]
          /\ spoilt[p] = "drop" => backup[p] # NONE /\ backup[p] \in TornOf(before[p])
    /\ pc[p] \in {"copy", "clear"} =>
          /\ final[task[p]] # NONE
          /\ \A f \in Files : final[task[p]][f] \in {before[p][f], gen[p], NONE}
    /\ pc[p] \in {"discard", "throw"} => Kept(p)
    /\ pc[p] = "unlock" => outcome[p][task[p]] = "SUCCESS" \/ Kept(p)

\* A task has an outcome when its run is over, and then it is not begun again.
OutcomePart(p) ==
    /\ \A t \in todo[p] : outcome[p][t] = "none"
    /\ pc[p] \in AtTask => task[p] \notin todo[p]
    /\ pc[p] \in AtTask \ {"unlock"} => outcome[p][task[p]] = "none"
    /\ pc[p] \in {"drop", "clear"} => Whole(final[task[p]])
    /\ \A t \in Tasks : outcome[p][t] = "SUCCESS" => Whole(final[t])

\* Which lock files and directories are there because of p.
Tidy ==
    /\ \A p \in Procs : /\ pc[p] = "lock" => lockDir
                        /\ pc[p] = "stage" => stagingDir
                        /\ pc[p] = "throw" => "discard" \in harm
    /\ harm \cap {"crash", "begin", "unlock"} = {} =>
          \A t \in locks : \E p \in Procs : pc[p] \in AtRun /\ task[p] = t
    /\ harm \cap {"crash", "discard"} = {} => ~litter
    /\ harm = {} =>
          /\ lockDir => \E p \in Procs : pc[p] # "idle"
          /\ stagingDir => \E p \in Procs : pc[p] \notin {"idle", "seeLocks", "cleanLocks"}

BatchInv ==
    /\ \A p \in Procs : StagedPart(p) /\ FormalPart(p) /\ OutcomePart(p)
    /\ Tidy

\* What a run hands over is whole.
LEMMA FullIsWhole ==
    ASSUME NEW g \in Generations, NEW d, Full(d, g)
    PROVE  Whole(d) /\ d # NONE
  BY NoneAssumption DEF Full, Whole

LEMMA RenderedIsFull ==
    ASSUME NEW g \in Generations, NEW fs \in SUBSET Files, {"json"} \subseteq fs, fs \subseteq {"json", "field"}
    PROVE  Full(Put(Put(Empty, {"json", "html"}, g), fs, g), g)
<1>1. Empty \in Dirs /\ Put(Empty, {"json", "html"}, g) \in Dirs
      /\ Put(Put(Empty, {"json", "html"}, g), fs, g) \in Dirs
  BY PutIsDir DEF Empty, Dirs
<1>2. /\ Put(Empty, {"json", "html"}, g)["html"] = g
      /\ Put(Empty, {"json", "html"}, g)["field"] = NONE
      /\ Put(Empty, {"json", "html"}, g) # NONE
  BY <1>1, NoneAssumption DEF Put, Empty, Files
<1> QED
  BY <1>1, <1>2 DEF Full, Put, Files

LEMMA StagedStep ==
    ASSUME TypeInv, NEW p \in Procs, \A q \in Procs : q = p, StagedPart(p),
           BatchStep(p) \/ RunStep(p) \/ PublishStep(p) \/ InPlaceStep(p) \/ Crash(p)
    PROVE  StagedPart(p)'
<1> USE DEF Goto, store, batch, past, HasStaged
<1>0. /\ pc \in [Procs -> ProgramPoints] /\ staged \in [Procs -> Dirs \cup {NONE}]
      /\ gen \in [Procs -> Generations \cup {NONE}]
  BY DEF TypeInv, TypeOK
<1>1. CASE BatchStep(p)
  BY <1>0, <1>1 DEF BatchStep, StartBatch, NextTask, NoTaskLeft, SeeStaging, CleanStaging, SeeLocks, CleanLocks,
     CleanFails, BatchThrows, EndRun, StagedPart
<1>2. CASE Render(p)
  BY <1>0, <1>2 DEF Render, Writes, StagedPart
<1>3. CASE WriteFinal(p)
  <2>1. /\ pc[p] = "write" /\ pc'[p] = "look" /\ gen' = gen
        /\ staged'[p] = Put(staged[p], Outputs(p) \ {"html"}, gen[p])
    BY <1>0, <1>3 DEF WriteFinal, Writes
  <2>2. gen[p] \in Generations
    BY <2>1 DEF TypeInv, AtTask, AtRun, ProgramPoints
  <2>3. /\ Outputs(p) \ {"html"} \in SUBSET Files /\ {"json"} \subseteq Outputs(p) \ {"html"}
        /\ Outputs(p) \ {"html"} \subseteq {"json", "field"}
    BY DEF Outputs, Files
  <2>4. Full(staged'[p], gen[p])
    BY <2>1, <2>2, <2>3, RenderedIsFull DEF StagedPart
  <2> QED
    BY <2>1, <2>4 DEF StagedPart
<1>4. CASE Lock(p) \/ LockFails(p) \/ Begin(p) \/ BeginFails(p) \/ Stage(p) \/ StageFails(p) \/ StageThrows(p)
  BY <1>0, <1>4 DEF Lock, LockFails, Begin, BeginFails, Stage, StageFails, StageThrows, BatchThrows, EndRun, StagedPart
<1>8. CASE Discard(p) \/ DiscardFails(p) \/ Unlock(p) \/ UnlockThrown(p) \/ UnlockFails(p)
  BY <1>0, <1>8 DEF Discard, DiscardFails, Unlock, UnlockThrown, UnlockFails, BatchThrows, EndRun, StagedPart
<1>5. CASE PublishStep(p)
  BY <1>0, <1>5 DEF PublishStep, Look, Backup, BackupFails, Install, InstallFails, DropBackup, DropFails,
     RemoveFinal, Restore, RollbackFails, StagedPart
<1>6. CASE InPlaceStep(p)
  BY <1>0, <1>6 DEF InPlaceStep, BackupBlocked, CopyFile, RemoveStale, ClearStaged, CopyFails, StagedPart
<1>7. CASE Crash(p)
  BY <1>0, <1>7 DEF Crash, BatchThrows, EndRun, StagedPart
<1> QED
  BY <1>1, <1>2, <1>3, <1>4, <1>5, <1>6, <1>7, <1>8 DEF RunStep

LEMMA FormalStep ==
    ASSUME TypeInv, NEW p \in Procs, \A q \in Procs : q = p, StagedPart(p), FormalPart(p),
           BatchStep(p) \/ RunStep(p) \/ PublishStep(p) \/ InPlaceStep(p) \/ Crash(p)
    PROVE  FormalPart(p)'
<1> USE DEF Goto, store, batch, past
<1>0. /\ pc \in [Procs -> ProgramPoints] /\ backup \in [Procs -> Dirs \cup {NONE}]
      /\ final \in [Tasks -> Dirs \cup {NONE}] /\ before \in [Procs -> Dirs \cup {NONE}]
      /\ had \in [Procs -> BOOLEAN] /\ staged \in [Procs -> Dirs \cup {NONE}]
      /\ outcome \in [Procs -> [Tasks -> {"none", "SUCCESS", "FAILED"}]]
      /\ spoilt \in [Procs -> Spoils \cup {"none"}]
      /\ pc[p] \in AtTask => task[p] \in Tasks
  BY DEF TypeInv, TypeOK
<1>1. CASE BatchStep(p)
  BY <1>0, <1>1 DEF BatchStep, StartBatch, NextTask, NoTaskLeft, SeeStaging, CleanStaging, SeeLocks, CleanLocks,
     CleanFails, BatchThrows, EndRun, FormalPart
<1>2. CASE Render(p) \/ WriteFinal(p) \/ Stage(p) \/ Begin(p)
  BY <1>0, <1>2 DEF Render, WriteFinal, Writes, Stage, Begin, FormalPart
<1>3. CASE Lock(p)
  BY <1>0, <1>3 DEF Lock, FormalPart, AtTask, ProgramPoints
<1>4. CASE LockFails(p) \/ BeginFails(p) \/ StageFails(p) \/ Unlock(p) \/ UnlockThrown(p) \/ UnlockFails(p) \/ Crash(p)
  <2>1. spoilt'[p] = "none" /\ backup'[p] = NONE /\ pc'[p] \in {"idle", "nextTask"}
    BY <1>0, <1>4 DEF LockFails, BeginFails, StageFails, Unlock, UnlockThrown, UnlockFails, Crash, BatchThrows, EndRun,
       FormalPart
  <2> QED
    BY <2>1 DEF FormalPart
<1>5. CASE StageThrows(p)
  <2>1. /\ pc[p] \in {"render", "write", "look"} /\ pc'[p] = "discard"
        /\ UNCHANGED <<final, task, before, spoilt, gen, backup>>
    BY <1>0, <1>5 DEF StageThrows
  <2>2. Kept(p)'
    BY <2>1 DEF FormalPart, Kept
  <2> QED
    BY <2>1, <2>2 DEF FormalPart
<1>6. CASE Discard(p) \/ DiscardFails(p)
  <2>1. /\ pc[p] = "discard" /\ pc'[p] \in {"unlock", "throw"}
        /\ UNCHANGED <<final, task, before, spoilt, gen, backup>>
    BY <1>0, <1>6 DEF Discard, DiscardFails
  <2>2. Kept(p)'
    BY <2>1 DEF FormalPart, Kept
  <2> QED
    BY <2>1, <2>2 DEF FormalPart
<1>7. CASE Look(p)
  BY <1>0, <1>7 DEF Look, FormalPart, AtTask, ProgramPoints
<1>8. CASE Backup(p)
  BY <1>0, <1>8 DEF Backup, FormalPart, AtTask, ProgramPoints
<1>9. CASE BackupFails(p)
  <2>1. /\ pc[p] = "backup" /\ pc'[p] = "discard"
        /\ UNCHANGED <<final, task, before, spoilt, gen, backup>>
    BY <1>0, <1>9 DEF BackupFails
  <2>2. Kept(p)'
    BY <2>1 DEF FormalPart, Kept
  <2> QED
    BY <2>1, <2>2 DEF FormalPart
<1>10. CASE BackupBlocked(p)
  <2>1. /\ pc[p] = "backup" /\ pc'[p] = "copy" /\ had[p]
        /\ UNCHANGED <<final, task, before, spoilt, gen, backup>>
    BY <1>0, <1>10 DEF BackupBlocked
  <2> QED
    BY <2>1 DEF FormalPart
<1>11. CASE Install(p)
  <2>1. /\ pc[p] = "install" /\ pc'[p] = "drop" /\ final' = [final EXCEPT ![task[p]] = staged[p]]
        /\ UNCHANGED <<task, before, spoilt, gen, backup, had, outcome>>
    BY <1>0, <1>11 DEF Install
  <2>2. final'[task[p]] = staged[p] /\ Full(staged[p], gen[p])
    BY <1>0, <2>1 DEF StagedPart, AtTask, ProgramPoints
  <2> QED
    BY <2>1, <2>2 DEF FormalPart, Full
<1>12. CASE InstallFails(p)
  <2>1. staged[p] # NONE
    BY <1>12, NoneAssumption DEF InstallFails, StagedPart, Full
  <2>2. /\ pc[p] = "install" /\ pc'[p] = "removeFinal"
        /\ UNCHANGED <<final, task, before, spoilt, gen, backup>>
    BY <1>0, <1>12, <2>1 DEF InstallFails
  <2>3. spoilt[p] = "none"
    BY <2>2 DEF FormalPart
  <2> QED
    BY <2>2, <2>3 DEF FormalPart
<1>13. CASE DropBackup(p)
  BY <1>0, <1>13 DEF DropBackup, Succeed, FormalPart, AtTask, ProgramPoints
<1>14. CASE DropFails(p)
  <2>1. PICK d \in TornOf(backup[p]) : backup' = [backup EXCEPT ![p] = d]
    BY <1>14 DEF DropFails
  <2>2. /\ pc[p] = "drop" /\ pc'[p] = "removeFinal" /\ backup[p] # NONE
        /\ spoilt'[p] = "drop" /\ UNCHANGED <<final, task, before, gen>>
    BY <1>0, <1>14 DEF DropFails, Spoilt
  <2>3. d \in Dirs /\ d # NONE
    BY <1>0, <2>2, TornIsDir, NoneAssumption
  <2>4. backup'[p] = d /\ d \in TornOf(before[p])
    BY <1>0, <2>1, <2>2 DEF FormalPart
  <2>5. Only(final[task[p]], gen[p])
    BY <2>2 DEF FormalPart, Full, Only, Files
  <2> QED
    BY <2>2, <2>3, <2>4, <2>5 DEF FormalPart, Only
<1>15. CASE RemoveFinal(p)
  <2>1. /\ pc[p] = "removeFinal" /\ pc'[p] = "restore" /\ final' = [final EXCEPT ![task[p]] = NONE]
        /\ UNCHANGED <<task, before, spoilt, gen, backup>>
    BY <1>0, <1>15 DEF RemoveFinal
  <2>2. final'[task[p]] = NONE
    BY <1>0, <2>1 DEF AtTask, ProgramPoints
  <2> QED
    BY <2>1, <2>2 DEF FormalPart
<1>16. CASE Restore(p)
  <2>1. /\ pc[p] = "restore" /\ pc'[p] = "discard" /\ backup'[p] = NONE
        /\ UNCHANGED <<task, before, spoilt, gen>>
    BY <1>0, <1>16 DEF Restore
  <2>2. final'[task[p]] = backup[p]
    BY <1>0, <1>16, <2>1 DEF Restore, FormalPart, Free, AtTask, ProgramPoints
  <2>3. Kept(p)'
    BY <2>1, <2>2 DEF FormalPart, Kept
  <2> QED
    BY <2>1, <2>3 DEF FormalPart
<1>17. CASE RollbackFails(p)
  <2>1. /\ pc[p] \in {"removeFinal", "restore"} /\ pc'[p] = "discard" /\ backup'[p] = NONE
        /\ spoilt'[p] = "undo" /\ UNCHANGED <<task, before, gen>>
    BY <1>0, <1>17 DEF RollbackFails, Spoilt
  <2>2. final'[task[p]] # NONE => \A f \in Files : final'[task[p]][f] \in {gen[p], NONE}
    <3>1. CASE pc[p] = "restore"
      <4>1. final' = final /\ final[task[p]] = NONE
        BY <1>17, <3>1 DEF RollbackFails, FormalPart
      <4> QED
        BY <4>1
    <3>2. CASE pc[p] = "removeFinal"
      <4>1. PICK d \in TornOf(final[task[p]]) : final' = [final EXCEPT ![task[p]] = d]
        BY <1>17, <3>2 DEF RollbackFails
      <4>2. final[task[p]] # NONE /\ final'[task[p]] = d
        BY <1>0, <1>17, <3>2, <4>1 DEF RollbackFails, AtTask, ProgramPoints
      <4>3. spoilt[p] = "drop" /\ Only(final[task[p]], gen[p])
        BY <3>2, <4>2 DEF FormalPart
      <4> QED
        BY <4>2, <4>3 DEF TornOf, Only
    <3> QED
      BY <2>1, <3>1, <3>2
  <2>3. Kept(p)'
    BY <2>1, <2>2 DEF Kept
  <2> QED
    BY <2>1, <2>3 DEF FormalPart
<1>18. CASE CopyFile(p)
  <2>1. PICK f \in Uncopied(p) : final' = [final EXCEPT ![task[p]] = Put(final[task[p]], {f}, staged[p][f])]
    BY <1>18 DEF CopyFile
  <2>2. /\ pc[p] = "copy" /\ UNCHANGED <<pc, task, before, spoilt, gen, backup, outcome, had>>
    BY <1>18 DEF CopyFile
  <2>3. staged[p][f] = gen[p] /\ f \in Files
    BY <2>1, <2>2 DEF Uncopied, StagedPart, Full, Files
  <2>4. /\ final[task[p]] # NONE /\ final[task[p]] \in Dirs
        /\ \A e \in Files : final[task[p]][e] \in {before[p][e], gen[p], NONE}
    BY <1>0, <2>2 DEF FormalPart, AtTask, ProgramPoints
  <2>5. final'[task[p]] = Put(final[task[p]], {f}, gen[p])
    BY <1>0, <2>1, <2>2, <2>3 DEF AtTask, ProgramPoints
  <2>6. gen[p] \in Generations
    BY <2>2 DEF TypeInv, AtTask, AtRun, ProgramPoints
  <2>7. final'[task[p]] # NONE
    BY <2>4, <2>5, <2>6, PutIsDir, NoneAssumption
  <2>8. \A e \in Files : final'[task[p]][e] \in {before[p][e], gen[p], NONE}
    BY <2>4, <2>5 DEF Put
  <2> QED
    BY <2>2, <2>7, <2>8 DEF FormalPart
<1>19. CASE RemoveStale(p)
  <2>1. /\ pc[p] = "copy" /\ pc'[p] = "clear" /\ final' = [final EXCEPT ![task[p]] = staged[p]]
        /\ staged[p] # NONE /\ UNCHANGED <<task, before, spoilt, gen, backup>>
    BY <1>0, <1>19 DEF RemoveStale
  <2>2. final'[task[p]] = staged[p] /\ Full(staged[p], gen[p])
    BY <1>0, <2>1 DEF StagedPart, AtTask, ProgramPoints
  <2>3. \A f \in Files : final'[task[p]][f] \in {gen[p], NONE}
    BY <2>2 DEF Full, Files
  <2> QED
    BY <2>1, <2>2, <2>3 DEF FormalPart
<1>20. CASE ClearStaged(p)
  BY <1>0, <1>20 DEF ClearStaged, Succeed, FormalPart, AtTask, ProgramPoints
<1>21. CASE CopyFails(p)
  <2>1. /\ pc[p] \in {"copy", "clear"} /\ pc'[p] = "discard" /\ spoilt'[p] = "copy"
        /\ UNCHANGED <<final, task, before, gen, backup>>
    BY <1>0, <1>21 DEF CopyFails, Spoilt
  <2>2. Kept(p)'
    BY <2>1 DEF FormalPart, Kept
  <2> QED
    BY <2>1, <2>2 DEF FormalPart
<1> QED
  BY <1>1, <1>2, <1>3, <1>4, <1>5, <1>6, <1>7, <1>8, <1>9, <1>10, <1>11, <1>12, <1>13, <1>14, <1>15, <1>16, <1>17,
     <1>18, <1>19, <1>20, <1>21 DEF RunStep, PublishStep, InPlaceStep

LEMMA OutcomeStep ==
    ASSUME TypeInv, NEW p \in Procs, \A q \in Procs : q = p, StagedPart(p), FormalPart(p), OutcomePart(p),
           BatchStep(p) \/ RunStep(p) \/ PublishStep(p) \/ InPlaceStep(p) \/ Crash(p)
    PROVE  OutcomePart(p)'
<1> USE DEF Goto, store, batch, past
<1>0. /\ pc \in [Procs -> ProgramPoints] /\ final \in [Tasks -> Dirs \cup {NONE}]
      /\ todo \in [Procs -> SUBSET Tasks] /\ task \in [Procs -> Tasks \cup {NONE}]
      /\ outcome \in [Procs -> [Tasks -> {"none", "SUCCESS", "FAILED"}]]
      /\ pc[p] \in AtTask => task[p] \in Tasks
      /\ pc[p] \in AtRun => gen[p] \in Generations
  BY DEF TypeInv, TypeOK
<1>1. CASE StartBatch(p)
  BY <1>0, <1>1 DEF StartBatch, NotRun, OutcomePart, AtTask, ProgramPoints
<1>2. CASE NextTask(p)
  BY <1>0, <1>2 DEF NextTask, OutcomePart, AtTask, ProgramPoints
<1>3. CASE NoTaskLeft(p) \/ SeeStaging(p) \/ CleanStaging(p) \/ SeeLocks(p) \/ CleanLocks(p) \/ CleanFails(p)
  BY <1>0, <1>3 DEF NoTaskLeft, SeeStaging, CleanStaging, SeeLocks, CleanLocks, CleanFails, BatchThrows, EndRun,
     OutcomePart, AtTask, ProgramPoints
<1>4. CASE Lock(p) \/ Begin(p) \/ Stage(p) \/ Render(p) \/ WriteFinal(p) \/ StageThrows(p)
  BY <1>0, <1>4 DEF Lock, Begin, Stage, Render, WriteFinal, Writes, StageThrows, OutcomePart, AtTask, ProgramPoints
<1>5. CASE LockFails(p) \/ BeginFails(p) \/ StageFails(p) \/ UnlockThrown(p) \/ UnlockFails(p)
  BY <1>0, <1>5 DEF LockFails, BeginFails, StageFails, UnlockThrown, UnlockFails, BatchThrows, EndRun, OutcomePart, AtTask, ProgramPoints
<1>6. CASE Unlock(p)
  BY <1>0, <1>6 DEF Unlock, EndRun, OutcomePart, AtTask, ProgramPoints
<1>7. CASE Discard(p) \/ DiscardFails(p)
  BY <1>0, <1>7 DEF Discard, DiscardFails, OutcomePart, AtTask, ProgramPoints
<1>8. CASE Look(p) \/ Backup(p) \/ BackupFails(p) \/ BackupBlocked(p)
  BY <1>0, <1>8 DEF Look, Backup, BackupFails, BackupBlocked, OutcomePart, AtTask, ProgramPoints
<1>9. CASE Install(p)
  <2>1. pc[p] = "install" /\ pc'[p] = "drop" /\ final' = [final EXCEPT ![task[p]] = staged[p]]
        /\ UNCHANGED <<todo, task, outcome>>
    BY <1>0, <1>9 DEF Install
  <2>2. Whole(staged[p])
    BY <1>0, <2>1, FullIsWhole DEF StagedPart, AtTask, AtRun, ProgramPoints
  <2> QED
    BY <1>0, <2>1, <2>2 DEF OutcomePart, AtTask, ProgramPoints
<1>10. CASE InstallFails(p) \/ DropFails(p) \/ RemoveFinal(p) \/ Restore(p) \/ RollbackFails(p)
  BY <1>0, <1>10 DEF InstallFails, DropFails, RemoveFinal, Restore, RollbackFails, OutcomePart, AtTask, ProgramPoints
<1>11. CASE DropBackup(p)
  BY <1>0, <1>11 DEF DropBackup, Succeed, OutcomePart, AtTask, ProgramPoints
<1>12. CASE CopyFile(p) \/ CopyFails(p)
  BY <1>0, <1>12 DEF CopyFile, CopyFails, OutcomePart, AtTask, ProgramPoints
<1>15. CASE ClearStaged(p)
  BY <1>0, <1>15 DEF ClearStaged, Succeed, OutcomePart, AtTask, ProgramPoints
<1>13. CASE RemoveStale(p)
  <2>1. /\ pc[p] = "copy" /\ pc'[p] = "clear" /\ final' = [final EXCEPT ![task[p]] = staged[p]]
        /\ UNCHANGED <<todo, task, outcome>>
    BY <1>0, <1>13 DEF RemoveStale
  <2>2. Whole(staged[p])
    BY <1>0, <2>1, FullIsWhole DEF StagedPart, AtTask, AtRun, ProgramPoints
  <2> QED
    BY <1>0, <2>1, <2>2 DEF OutcomePart, AtTask, ProgramPoints
<1>14. CASE Crash(p)
  BY <1>0, <1>14 DEF Crash, BatchThrows, EndRun, OutcomePart, AtTask, ProgramPoints
<1> QED
  BY <1>1, <1>2, <1>3, <1>4, <1>5, <1>6, <1>7, <1>8, <1>9, <1>10, <1>11, <1>12, <1>13, <1>14, <1>15
     DEF BatchStep, RunStep, PublishStep, InPlaceStep

LEMMA TidyStep ==
    ASSUME TypeInv, NEW p \in Procs, \A q \in Procs : q = p, StagedPart(p), Tidy,
           BatchStep(p) \/ RunStep(p) \/ PublishStep(p) \/ InPlaceStep(p) \/ Crash(p)
    PROVE  Tidy'
<1> USE DEF Goto, store, batch, past, AtTask, AtRun, ProgramPoints
<1>0. /\ pc \in [Procs -> ProgramPoints] /\ task \in [Procs -> Tasks \cup {NONE}]
      /\ staged \in [Procs -> Dirs \cup {NONE}]
  BY DEF TypeInv, TypeOK
<1>1. harm \subseteq harm'
  BY DEF BatchStep, StartBatch, NextTask, NoTaskLeft, SeeStaging, CleanStaging, SeeLocks, CleanLocks, CleanFails,
     RunStep, Lock, LockFails, Begin, BeginFails, Stage, StageFails, Render, WriteFinal, Writes, StageThrows,
     Discard, DiscardFails, Unlock, UnlockThrown, UnlockFails,
     PublishStep, Look, Backup, BackupFails, Install, InstallFails, DropBackup, DropFails, RemoveFinal,
     Restore, RollbackFails, InPlaceStep, BackupBlocked, CopyFile, RemoveStale, ClearStaged, CopyFails, Crash, Harmed
<1>2. /\ pc'[p] = "lock" => lockDir'
      /\ pc'[p] = "stage" => stagingDir'
      /\ pc'[p] = "throw" => "discard" \in harm'
  <2>1. /\ pc[p] = "lock" => lockDir
        /\ pc[p] = "stage" => stagingDir
        /\ pc[p] = "throw" => "discard" \in harm
    BY DEF Tidy
  <2>2. CASE BatchStep(p)
    BY <1>0, <2>2 DEF BatchStep, StartBatch, NextTask, NoTaskLeft, SeeStaging, CleanStaging, SeeLocks, CleanLocks,
       CleanFails, BatchThrows
  <2>3. CASE RunStep(p)
    BY <1>0, <2>3 DEF RunStep, Lock, LockFails, Begin, BeginFails, Stage, StageFails, Render, WriteFinal, Writes,
       StageThrows, Discard, DiscardFails, Unlock, UnlockThrown, UnlockFails, BatchThrows, Harmed
  <2>4. CASE PublishStep(p)
    BY <1>0, <2>4 DEF PublishStep, Look, Backup, BackupFails, Install, InstallFails, DropBackup, DropFails,
       RemoveFinal, Restore, RollbackFails
  <2>5. CASE InPlaceStep(p)
    BY <1>0, <2>1, <2>5 DEF InPlaceStep, BackupBlocked, CopyFile, RemoveStale, ClearStaged, CopyFails
  <2>6. CASE Crash(p)
    BY <1>0, <2>6 DEF Crash, BatchThrows
  <2> QED
    BY <2>2, <2>3, <2>4, <2>5, <2>6
<1>3. ASSUME harm' \cap {"crash", "begin", "unlock"} = {}, NEW t \in locks'
      PROVE  pc'[p] \in AtRun /\ task'[p] = t
  <2>1. harm \cap {"crash", "begin", "unlock"} = {}
    BY <1>1, <1>3
  <2>2. \A u \in locks : pc[p] \in AtRun /\ task[p] = u
    BY <2>1 DEF Tidy
  <2>3. ~Crash(p) /\ ~BeginFails(p) /\ ~UnlockFails(p) /\ (StageFails(p) => ~stagingDir)
    BY <1>3 DEF Crash, BeginFails, UnlockFails, StageFails, Harmed
  <2>4. ~StageFails(p)
    BY <2>3 DEF StageFails, Tidy
  <2>5. CASE BatchStep(p)
    BY <1>0, <1>3, <2>2, <2>5 DEF BatchStep, StartBatch, NextTask, NoTaskLeft, SeeStaging, CleanStaging, SeeLocks,
       CleanLocks, CleanFails, BatchThrows
  <2>6. CASE Lock(p) \/ LockFails(p) \/ Begin(p) \/ Stage(p) \/ Render(p) \/ WriteFinal(p) \/ StageThrows(p)
    BY <1>0, <1>3, <2>2, <2>6 DEF Lock, LockFails, Begin, Stage, Render, WriteFinal, Writes, StageThrows
  <2>7. CASE Discard(p) \/ DiscardFails(p) \/ Unlock(p) \/ UnlockThrown(p)
    BY <1>0, <1>3, <2>2, <2>7 DEF Discard, DiscardFails, Unlock, UnlockThrown
  <2>8. CASE PublishStep(p)
    BY <1>0, <1>3, <2>2, <2>8 DEF PublishStep, Look, Backup, BackupFails, Install, InstallFails, DropBackup, DropFails,
       RemoveFinal, Restore, RollbackFails
  <2>9. CASE InPlaceStep(p)
    BY <1>0, <1>3, <2>2, <2>9 DEF InPlaceStep, BackupBlocked, CopyFile, RemoveStale, ClearStaged, CopyFails
  <2> QED
    BY <2>3, <2>4, <2>5, <2>6, <2>7, <2>8, <2>9 DEF RunStep
<1>4. ASSUME harm' \cap {"crash", "discard"} = {} PROVE ~litter'
  <2>1. ~litter /\ ~Crash(p) /\ ~DiscardFails(p)
    BY <1>1, <1>4 DEF Tidy, Crash, DiscardFails, Harmed
  <2> QED
    BY <2>1 DEF BatchStep, StartBatch, NextTask, NoTaskLeft, SeeStaging, CleanStaging, SeeLocks, CleanLocks, CleanFails,
       RunStep, Lock, LockFails, Begin, BeginFails, Stage, StageFails, Render, WriteFinal, Writes, StageThrows,
       Discard, Unlock, UnlockThrown, UnlockFails,
       PublishStep, Look, Backup, BackupFails, Install, InstallFails, DropBackup, DropFails, RemoveFinal,
       Restore, RollbackFails, InPlaceStep, BackupBlocked, CopyFile, RemoveStale, ClearStaged, CopyFails
<1>5. ASSUME harm' = {}
      PROVE  /\ lockDir' => pc'[p] # "idle"
             /\ stagingDir' => pc'[p] \notin {"idle", "seeLocks", "cleanLocks"}
  <2>1. /\ \A u \in locks : pc[p] \in AtRun /\ task[p] = u
        /\ ~litter
        /\ lockDir => pc[p] # "idle"
        /\ stagingDir => pc[p] \notin {"idle", "seeLocks", "cleanLocks"}
        /\ pc[p] = "lock" => lockDir
        /\ pc[p] = "stage" => stagingDir
    BY <1>1, <1>5 DEF Tidy
  <2>2. /\ ~Crash(p) /\ ~BeginFails(p) /\ ~UnlockFails(p) /\ ~DiscardFails(p) /\ ~CleanFails(p)
        /\ (StageFails(p) => ~stagingDir)
        /\ (LockFails(p) => task[p] \in locks \/ ~lockDir)
    BY <1>5 DEF Crash, BeginFails, UnlockFails, DiscardFails, CleanFails, StageFails, LockFails, Harmed
  <2>3. ~StageFails(p) /\ ~LockFails(p)
    BY <2>1, <2>2 DEF StageFails, LockFails
  <2>4. CASE StartBatch(p) \/ NextTask(p) \/ NoTaskLeft(p) \/ CleanStaging(p) \/ SeeLocks(p) \/ CleanLocks(p)
    BY <1>0, <2>1, <2>4 DEF StartBatch, NextTask, NoTaskLeft, CleanStaging, SeeLocks, CleanLocks
  <2>5. CASE SeeStaging(p)
    <3>1. StagingIsEmpty
      BY <2>1, <2>5 DEF StagingIsEmpty, SeeStaging, StagedPart, HasStaged
    <3> QED
      BY <1>0, <2>1, <2>5, <3>1 DEF SeeStaging
  <2>6. CASE Lock(p) \/ Begin(p) \/ Stage(p) \/ Render(p) \/ WriteFinal(p) \/ StageThrows(p)
    BY <1>0, <2>1, <2>6 DEF Lock, Begin, Stage, Render, WriteFinal, Writes, StageThrows
  <2>7. CASE Discard(p) \/ Unlock(p)
    BY <1>0, <2>1, <2>7 DEF Discard, Unlock
  <2>8. CASE PublishStep(p)
    BY <1>0, <2>1, <2>8 DEF PublishStep, Look, Backup, BackupFails, Install, InstallFails, DropBackup, DropFails,
       RemoveFinal, Restore, RollbackFails
  <2>9. CASE InPlaceStep(p)
    BY <1>0, <2>1, <2>9 DEF InPlaceStep, BackupBlocked, CopyFile, RemoveStale, ClearStaged, CopyFails
  <2>10. ~UnlockThrown(p)
    BY <1>1, <1>5 DEF UnlockThrown, Tidy
  <2> QED
    BY <2>2, <2>3, <2>4, <2>5, <2>6, <2>7, <2>8, <2>9, <2>10 DEF BatchStep, RunStep
<1> QED
  BY <1>2, <1>3, <1>4, <1>5 DEF Tidy

LEMMA BatchInvStep ==
    ASSUME OneBatchAtATime, TypeInv, BatchInv, [Next]_vars
    PROVE  BatchInv'
<1>1. ASSUME NEW p \in Procs, BatchStep(p) \/ RunStep(p) \/ PublishStep(p) \/ InPlaceStep(p) \/ Crash(p)
      PROVE  BatchInv'
  <2>1. \A q \in Procs : q = p
    BY DEF OneBatchAtATime
  <2>2. StagedPart(p) /\ FormalPart(p) /\ OutcomePart(p) /\ Tidy
    BY DEF BatchInv
  <2>3. StagedPart(p)' /\ FormalPart(p)' /\ OutcomePart(p)' /\ Tidy'
    BY <1>1, <2>1, <2>2, StagedStep, FormalStep, OutcomeStep, TidyStep
  <2> QED
    BY <2>1, <2>3 DEF BatchInv
<1>2. CASE OperatorUnlocks
  <2>1. UNCHANGED <<final, lockDir, stagingDir, litter, staged, backup, pc, batch, gen, had, past>>
        /\ locks' \subseteq locks
    BY <1>2 DEF OperatorUnlocks
  <2> QED
    BY <2>1 DEF BatchInv, StagedPart, FormalPart, Kept, OutcomePart, Tidy, batch, past
<1>3. CASE UNCHANGED vars
  BY <1>3 DEF BatchInv, StagedPart, FormalPart, Kept, OutcomePart, Tidy, vars, store, batch, past
<1> QED
  BY <1>1, <1>2, <1>3 DEF Next

LEMMA BatchInvAlways ==
    ASSUME OneBatchAtATime
    PROVE  Spec => [](TypeInv /\ BatchInv)
<1>1. Init => BatchInv
  BY DEF Init, BatchInv, StagedPart, FormalPart, OutcomePart, Tidy, NotRun, HasStaged, AtTask, ProgramPoints
<1>2. TypeInv /\ BatchInv /\ [Next]_vars => BatchInv'
  BY BatchInvStep
<1> QED
  BY <1>1, <1>2, PublishInitType, PublishTypeStep, PTL DEF Spec

\* One batch at a time, with renames or in place, and whatever fails or is
\* killed: a task that is reported SUCCESS is published whole, in one generation.
THEOREM SuccessAlwaysPublished ==
    ASSUME OneBatchAtATime
    PROVE  Spec => []SuccessIsPublished
<1>1. BatchInv => SuccessIsPublished
  BY DEF BatchInv, OutcomePart, SuccessIsPublished
<1> QED
  BY <1>1, BatchInvAlways, PTL

\* One batch at a time: a task that ends FAILED, or whose run throws, leaves the
\* formal directory that its run found; what else it can leave, in each of the
\* three cases in which the code undoes less, is what Kept says.
THEOREM FailureAlwaysKeepsFormal ==
    ASSUME OneBatchAtATime
    PROVE  Spec => []FailureKeepsFormal
<1>1. BatchInv => FailureKeepsFormal
  BY DEF BatchInv, FormalPart, FailureKeepsFormal
<1> QED
  BY <1>1, BatchInvAlways, PTL

\* One batch at a time: when no process is at work, a lock file, a staged
\* directory or an empty .locks or .staging is only left by the failures that
\* NothingLeftBehind names for it.
THEOREM NothingEverLeftBehind ==
    ASSUME OneBatchAtATime
    PROVE  Spec => []NothingLeftBehind
<1>1. BatchInv => NothingLeftBehind
  BY DEF BatchInv, Tidy, StagedPart, HasStaged, StagingIsEmpty, NothingLeftBehind, AtRun, AtTask
<1> QED
  BY <1>1, BatchInvAlways, PTL
=============================================================================
