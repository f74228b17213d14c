-------------------------- MODULE TaskFacts_proofs --------------------------
(***************************************************************************)
(* Proofs about TaskFacts, for every set of inputs and outcomes, every set *)
(* of failing operations and every bound on the trouble.  Type correctness *)
(* is for any number of processes; the rest is for one process             *)
(* (OneRunner), because two of them break it.                              *)
(*                                                                         *)
(* The argument has three layers.  TypeInv adds to the types what the      *)
(* locals of runTask hold at each program point.  ServeInv follows the     *)
(* manifest through the publication: what was validated is what is         *)
(* installed, what was installed is what SUCCESS names, and the status is  *)
(* not SUCCESS while the bundle is touched.  CommitInv says what a status  *)
(* being written names, and VictimInv what recovery removes.               *)
(***************************************************************************)
EXTENDS TaskFacts, TLAPS

\* The points of runTask at which its local `built` is set.
Analysed == {"stageFiles", "validate", "publish", "publishBackup", "publishInstall",
             "publishVerify", "publishClean", "dropStaging"}

\* A request is there while the task runs, an analysis result while it is
\* published, a SUCCESS status being written names a manifest, and recovery
\* knows what it removes.
LocalsOK == \A r \in Runners :
    /\ pc[r] # "idle" => req[r] \in Sqls
    /\ pc[r] \in Analysed => built[r] \in Manifests
    /\ job[r].then = "done" => job[r].st.cur \in Manifests
    /\ pc[r] = "removeStaging" => victim[r] \in Runners

TypeInv == TypeOK /\ LocalsOK

\* A removed directory leaves a directory.
LEMMA TypeTorn ==
    ASSUME NEW d \in Dirs
    PROVE  TornOf(d) \subseteq Dirs
<1>. SUFFICES ASSUME NEW m \in {d.man, NONE}
              PROVE  [ok |-> FALSE, man |-> m] \in Dirs
  BY DEF TornOf
<1>. QED BY DEF Dirs

\* Calling writeStatus with well-typed arguments keeps the types.
LEMMA TypeCall ==
    ASSUME TypeInv, NEW r \in Runners, pc[r] # "idle",
           NEW state \in {"ANALYZING", "SUCCESS", "FAILED"},
           NEW cur \in Manifests \cup {NONE},
           NEW then \in {"build", "done", "failed"},
           CallWriteStatus(r, state, cur, then),
           then = "done" => cur \in Manifests,
           req' = req, built' = built, \A q \in Runners : q # r => victim'[q] = victim[q]
    PROVE  /\ pc' \in [Runners -> ProgramPoints]
           /\ job' \in [Runners -> Jobs]
           /\ LocalsOK'
<1>1. [state |-> state, req |-> req[r], cur |-> cur] \in Statuses
  BY DEF TypeInv, LocalsOK, Statuses
<1>2. [st |-> [state |-> state, req |-> req[r], cur |-> cur], then |-> then] \in Jobs
  BY <1>1 DEF Jobs
<1>3. pc' \in [Runners -> ProgramPoints] /\ job' \in [Runners -> Jobs]
  BY <1>2 DEF CallWriteStatus, TypeInv, TypeOK, ProgramPoints
<1>4. LocalsOK'
  BY DEF CallWriteStatus, TypeInv, TypeOK, LocalsOK, Analysed
<1>. QED BY <1>3, <1>4

\* readCurrentManifestHash returns a manifest hash or null.
LEMMA TypeHash == TypeOK => CurrentHash \in Manifests \cup {NONE}
  BY DEF TypeOK, CurrentHash, Statuses

\* So does recording FAILED.
LEMMA TypeFailed ==
    ASSUME TypeInv, NEW r \in Runners, pc[r] # "idle", WriteFailed(r),
           req' = req, built' = built, \A q \in Runners : q # r => victim'[q] = victim[q]
    PROVE  /\ pc' \in [Runners -> ProgramPoints]
           /\ job' \in [Runners -> Jobs]
           /\ LocalsOK'
  BY TypeHash, TypeCall DEF WriteFailed, TypeInv

\* Returning from runTask with a result keeps the types.
LEMMA TypeReturn ==
    ASSUME TypeInv, NEW r \in Runners, NEW kind, NEW m, [kind |-> kind, man |-> m] \in Results,
           Return(r, kind, m)
    PROVE  /\ pc' \in [Runners -> ProgramPoints]
           /\ req' \in [Runners -> Sqls \cup {NONE}]
           /\ built' \in [Runners -> Manifests \cup {NONE}]
           /\ had' \in [Runners -> BOOLEAN]
           /\ scan' \in [Runners -> SUBSET Runners]
           /\ victim' \in [Runners -> Runners \cup {NONE}]
           /\ job' \in [Runners -> Jobs]
           /\ result' \in [Runners -> Results]
           /\ LocalsOK'
<1>. USE DEF TypeInv, TypeOK, Return
<1>1. pc' \in [Runners -> ProgramPoints] /\ req' \in [Runners -> Sqls \cup {NONE}]
  BY DEF ProgramPoints
<1>2. /\ built' \in [Runners -> Manifests \cup {NONE}] /\ had' \in [Runners -> BOOLEAN]
      /\ scan' \in [Runners -> SUBSET Runners] /\ victim' \in [Runners -> Runners \cup {NONE}]
  OBVIOUS
<1>3. job' \in [Runners -> Jobs]
  BY DEF Jobs
<1>4. result' \in [Runners -> Results]
  OBVIOUS
<1>5. LocalsOK'
  BY DEF LocalsOK, Analysed, NoJob
<1>. QED BY <1>1, <1>2, <1>3, <1>4, <1>5

\* The results without a manifest.
LEMMA TypeThrown == \A kind \in {"none", "FAILED", "THROWN", "CRASHED"} :
                       [kind |-> kind, man |-> NONE] \in Results
  BY DEF Results

\* A throwing writeStatus keeps the types.
LEMMA TypeThrows ==
    ASSUME TypeInv, NEW r \in Runners, pc[r] # "idle", StatusThrows(r),
           status' \in Statuses \cup {NONE}
    PROVE  /\ pc' \in [Runners -> ProgramPoints]
           /\ req' \in [Runners -> Sqls \cup {NONE}]
           /\ built' \in [Runners -> Manifests \cup {NONE}]
           /\ had' \in [Runners -> BOOLEAN]
           /\ scan' \in [Runners -> SUBSET Runners]
           /\ victim' \in [Runners -> Runners \cup {NONE}]
           /\ job' \in [Runners -> Jobs]
           /\ result' \in [Runners -> Results]
           /\ LocalsOK'
<1>1. CASE job[r].then = "done"
  <2>1. (IF status' = NONE THEN NONE ELSE status'.cur) \in Manifests \cup {NONE}
    BY DEF Statuses
  <2>2. /\ req' = req /\ built' = built /\ had' = had /\ result' = result
        /\ scan' = scan /\ victim' = victim
    BY <1>1 DEF StatusThrows, locals, scanning
  <2>. QED
    BY <1>1, <2>1, <2>2, TypeCall DEF StatusThrows, TypeInv, TypeOK
<1>2. CASE job[r].then # "done"
  BY <1>2, TypeReturn, TypeThrown DEF StatusThrows
<1>. QED BY <1>1, <1>2

\* The empty directory satisfies TypeInv.
LEMMA TypeInit == Init => TypeInv
  BY TroubleAssumption, NoneAssumption DEF Init, TypeInv, TypeOK, LocalsOK, ProgramPoints, Jobs, Results, NoJob, NoResult, Analysed

\* Every step of a runner, a removal under way, a crash and an edit preserve
\* TypeInv.
LEMMA TypeStep ==
    ASSUME TypeInv, NEW r \in Runners, RunnerStep(r) \/ Tear(r) \/ Crash(r) \/ EditSql
    PROVE  TypeInv'
<1>. USE TroubleAssumption DEF TypeInv, TypeOK, files, locals, scanning, Goto, Fault
<1>1. CASE StartTask(r)
  BY <1>1 DEF StartTask, LocalsOK, ProgramPoints, Analysed, Results, NoResult
<1>2. CASE RestoreStatus(r)
  BY <1>2, TypeFailed DEF RestoreStatus, LocalsOK, ProgramPoints, Analysed
<1>3. CASE SweepStaging(r)
  BY <1>3, TypeFailed DEF SweepStaging, LocalsOK, ProgramPoints, Analysed
<1>4. CASE RestoreBundle(r)
  BY <1>4, TypeFailed DEF RestoreBundle, LocalsOK, ProgramPoints, Analysed
<1>5. CASE CheckInterrupted(r)
  BY <1>5, TypeFailed DEF CheckInterrupted, LocalsOK, ProgramPoints, Analysed
<1>6. CASE Reuse(r)
  <2>1. bundle.man \in Manifests /\ [kind |-> "REUSED", man |-> bundle.man] \in Results
    BY <1>6, NoneAssumption DEF Reuse, Reusable, Valid, Dirs, Statuses, Results
  <2>2. Return(r, "REUSED", bundle.man) /\ UNCHANGED <<sql, files, trouble>>
    BY <1>6 DEF Reuse
  <2>. QED BY <2>1, <2>2, TypeReturn
<1>7. CASE BeginAnalysis(r)
  BY <1>7, TypeCall, TypeHash DEF BeginAnalysis, LocalsOK, ProgramPoints, Analysed
<1>8. CASE StatusWrite(r)
  <2>1. CASE bak = NONE
    <3>1. job[r].st \in Statuses \cup {NONE}
      BY DEF Jobs, NoJob
    <3>. QED BY <1>8, <2>1, <3>1 DEF StatusWrite, LocalsOK, ProgramPoints, Analysed
  <2>2. CASE bak # NONE
    <3>1. StatusThrows(r) /\ status' = status /\ tmp' = tmp /\ pc[r] # "idle"
      BY <1>8, <2>2 DEF StatusWrite
    <3>. QED BY <1>8, <3>1, TypeThrows DEF StatusWrite
  <2>. QED BY <2>1, <2>2
<1>9. CASE StatusBackup(r)
  BY <1>9 DEF StatusBackup, LocalsOK, ProgramPoints, Analysed
<1>10. CASE StatusRename(r)
  BY <1>10 DEF StatusRename, LocalsOK, ProgramPoints, Analysed
<1>11. CASE StatusFails(r)
  BY <1>11, TypeThrows DEF StatusFails, Jobs
<1>12. CASE StatusClean(r)
  <2>1. CASE job[r].then = "build"
    BY <1>12, <2>1 DEF StatusClean, LocalsOK, ProgramPoints, Analysed, Jobs, NoJob
  <2>2. CASE job[r].then = "done"
    <3>1. [kind |-> "PUBLISHED", man |-> job[r].st.cur] \in Results
      BY <2>2 DEF LocalsOK, Results
    <3>2. Return(r, "PUBLISHED", job[r].st.cur)
      BY <1>12, <2>2 DEF StatusClean
    <3>. QED BY <1>12, <3>1, <3>2, TypeReturn DEF StatusClean
  <2>3. CASE job[r].then \notin {"build", "done"}
    <3>1. Return(r, "FAILED", NONE)
      BY <1>12, <2>3 DEF StatusClean
    <3>. QED BY <1>12, <3>1, TypeReturn, TypeThrown DEF StatusClean
  <2>. QED BY <2>1, <2>2, <2>3
<1>13. CASE Build(r)
  BY <1>13 DEF Build, Manifests, Dirs, LocalsOK, ProgramPoints, Analysed
<1>14. CASE StageFiles(r)
  BY <1>14 DEF StageFiles, Dirs, LocalsOK, ProgramPoints, Analysed
<1>15. CASE BuildFails(r)
  BY <1>15, TypeFailed DEF BuildFails, LocalsOK, ProgramPoints, Analysed
<1>16. CASE Validate(r)
  BY <1>16 DEF Validate, LocalsOK, ProgramPoints, Analysed
<1>17. CASE Discard(r)
  BY <1>17, TypeFailed DEF Discard, LocalsOK, ProgramPoints, Analysed
<1>18. CASE PublishReused(r)
  BY <1>18 DEF PublishReused, LocalsOK, ProgramPoints, Analysed
<1>19. CASE PublishRefused(r)
  BY <1>19 DEF PublishRefused, Valid, SameContext, LocalsOK, ProgramPoints, Analysed
<1>20. CASE PublishStart(r)
  BY <1>20 DEF PublishStart, LocalsOK, ProgramPoints, Analysed
<1>21. CASE PublishBackup(r)
  BY <1>21 DEF PublishBackup, LocalsOK, ProgramPoints, Analysed
<1>22. CASE PublishInstall(r)
  BY <1>22 DEF PublishInstall, LocalsOK, ProgramPoints, Analysed
<1>23. CASE PublishVerify(r)
  BY <1>23 DEF PublishVerify, LocalsOK, ProgramPoints, Analysed
<1>24. CASE PublishClean(r)
  BY <1>24, TypeCall, TypeHash DEF PublishClean, LocalsOK, ProgramPoints, Analysed
<1>25. CASE PublishFails(r)
  BY <1>25 DEF PublishFails, LocalsOK, ProgramPoints, Analysed
<1>26. CASE RollbackBundle(r)
  BY <1>26 DEF RollbackBundle, LocalsOK, ProgramPoints, Analysed
<1>27. CASE RollbackRestore(r)
  BY <1>27 DEF RollbackRestore, LocalsOK, ProgramPoints, Analysed
<1>28. CASE Crash(r)
  BY <1>28, TypeReturn, TypeThrown DEF Crash
<1>29. CASE EditSql
  BY <1>29 DEF EditSql, LocalsOK
<1>30. CASE ListStaging(r)
  BY <1>30 DEF ListStaging, LocalsOK, ProgramPoints, Analysed
<1>31. CASE RemoveStaging(r)
  BY <1>31 DEF RemoveStaging, LocalsOK, ProgramPoints, Analysed
<1>32. CASE RemoveStagingFails(r)
  BY <1>32, TypeFailed DEF RemoveStagingFails, LocalsOK, ProgramPoints, Analysed
<1>33. CASE SweepDone(r)
  BY <1>33 DEF SweepDone, LocalsOK, ProgramPoints, Analysed
<1>39. CASE RestoreFails(r)
  BY <1>39, TypeFailed DEF RestoreFails, LocalsOK, ProgramPoints, Analysed
<1>34. CASE DiscardFails(r)
  BY <1>34, TypeReturn, TypeThrown DEF DiscardFails
<1>35. CASE DropStaging(r)
  BY <1>35, TypeCall DEF DropStaging, LocalsOK, ProgramPoints, Analysed
<1>36. CASE DropStagingFails(r)
  BY <1>36 DEF DropStagingFails, LocalsOK, ProgramPoints, Analysed
<1>37. CASE RollbackFails(r)
  BY <1>37 DEF RollbackFails, LocalsOK, ProgramPoints, Analysed
<1>38. CASE Tear(r)
  BY <1>38, TypeTorn DEF Tear, LocalsOK, ProgramPoints, Analysed
<1>. QED
  BY <1>1, <1>2, <1>3, <1>4, <1>5, <1>6, <1>7, <1>8, <1>9, <1>10, <1>11, <1>12, <1>13, <1>14, <1>15, <1>16, <1>17, <1>18, <1>19, <1>20, <1>21, <1>22, <1>23, <1>24, <1>25, <1>26, <1>27, <1>28, <1>29, <1>30, <1>31, <1>32, <1>33, <1>34, <1>35, <1>36, <1>37, <1>38, <1>39
     DEF RunnerStep, RecoverStep, StatusStep, BuildStep, PublishStep

\* TypeInv is inductive.
LEMMA TypeNext == TypeInv /\ [Next]_vars => TypeInv'
<1>. SUFFICES ASSUME TypeInv, [Next]_vars PROVE TypeInv'
  OBVIOUS
<1>1. CASE UNCHANGED vars
  BY <1>1 DEF vars, files, locals, scanning, TypeInv, TypeOK, LocalsOK, Analysed
<1>2. CASE EditSql
  BY <1>2, TroubleAssumption DEF EditSql, files, locals, scanning, TypeInv, TypeOK, LocalsOK, Analysed
<1>3. ASSUME NEW r \in Runners, RunnerStep(r) \/ Tear(r) \/ Crash(r)
      PROVE  TypeInv'
  BY <1>3, TypeStep
<1>. QED BY <1>1, <1>2, <1>3 DEF Next

\* TypeInv holds in every reachable state.
LEMMA TypeInvariant == Spec => []TypeInv
<1>1. TypeInv /\ [Next]_vars => TypeInv'
  BY TypeNext
<1>. QED BY TypeInit, <1>1, PTL DEF Spec

\* Type correctness of the task directory and of runTask, for any number of
\* processes.
THEOREM TypeCorrect == Spec => []TypeOK
<1>1. TypeInv => TypeOK
  BY DEF TypeInv
<1>. QED BY TypeInvariant, <1>1, PTL

-----------------------------------------------------------------------------
\* At most one process works on the task directory.
OneRunner == \A p, q \in Runners : p = q

\* The points of runTask between the ANALYZING and the final status.
Working == {"build", "stageFiles", "validate", "discard", "publish", "publishBackup",
            "publishInstall", "publishVerify", "publishClean", "rollbackBundle",
            "rollbackRestore", "dropStaging"}
\* Inside writeStatus.
Writing == {"statusWrite", "statusBackup", "statusRename", "statusClean"}

\* What is published is what was validated, and SUCCESS names it: the chain
\* staging -> bundle -> status of runTask.  While runTask works, the status is
\* there, is not SUCCESS, and has no backup.
ServeInv ==
    /\ SuccessIsServed
    /\ \A r \in Runners :
        /\ pc[r] \in Working => status # NONE /\ status.state # "SUCCESS" /\ bak = NONE
        /\ pc[r] \in Writing =>
              /\ job[r] # NoJob
              /\ job[r].st.state = "SUCCESS" <=> job[r].then = "done"
              /\ job[r].then = "done" => bundle = Intact(job[r].st.cur)
        /\ pc[r] \in {"statusBackup", "statusRename"} => tmp = job[r].st
        /\ pc[r] = "statusClean" => status = job[r].st
        /\ pc[r] = "validate" => staging[r] # NONE /\ staging[r].man = built[r]
        /\ pc[r] \in {"publish", "publishBackup", "publishInstall"} => staging[r] = Intact(built[r])
        /\ pc[r] \in {"publishVerify", "publishClean", "dropStaging"} => bundle = Intact(built[r])
        /\ result[r].kind \in {"PUBLISHED", "REUSED"} =>
              /\ pc[r] = "idle"
              /\ status # NONE /\ status.state = "SUCCESS" /\ status.cur = result[r].man
              /\ bundle = Intact(result[r].man)

\* The empty directory satisfies ServeInv.
LEMMA ServeInit == Init => ServeInv
  BY DEF Init, ServeInv, SuccessIsServed, Working, Writing, NoResult

\* What a call of writeStatus leaves in the runner's locals.
LEMMA Called ==
    ASSUME TypeInv, NEW r \in Runners, NEW state, NEW cur, NEW then \in {"build", "done", "failed"},
           CallWriteStatus(r, state, cur, then)
    PROVE  /\ pc'[r] = "statusWrite"
           /\ job'[r] # NoJob
           /\ job'[r].then = then
           /\ job'[r].st.state = state
           /\ job'[r].st.cur = cur
  BY DEF CallWriteStatus, TypeInv, TypeOK, NoJob

\* The same for the FAILED status.
LEMMA CalledFailed ==
    ASSUME TypeInv, NEW r \in Runners, WriteFailed(r)
    PROVE  /\ pc'[r] = "statusWrite"
           /\ job'[r] # NoJob
           /\ job'[r].then = "failed"
           /\ job'[r].st.state = "FAILED"
           /\ job'[r].st.cur = CurrentHash
<1>1. CallWriteStatus(r, "FAILED", CurrentHash, "failed")
  BY DEF WriteFailed
<1>. QED BY <1>1, Called

\* A directory is not an absent one.
LEMMA DirIs == \A m \in Manifests \cup {NONE}, b \in BOOLEAN :
                   [ok |-> b, man |-> m] # NONE /\ Intact(m) # NONE
<1>. SUFFICES ASSUME NEW m \in Manifests \cup {NONE}, NEW b \in BOOLEAN
              PROVE  [ok |-> b, man |-> m] # NONE /\ Intact(m) # NONE
  OBVIOUS
<1>1. [ok |-> b, man |-> m] \in Dirs
  BY DEF Dirs
<1>2. Intact(m) \in Dirs
  BY DEF Dirs, Intact
<1>. QED BY <1>1, <1>2, NoneAssumption

\* A complete directory is determined by its manifest.
LEMMA IntactIs == \A d \in Dirs : d.ok => d = Intact(d.man)
  BY DEF Dirs, Intact

\* A pending status is a status.
LEMMA JobIs == \A j \in Jobs : j # NoJob => /\ j.st \in Statuses /\ j.st # NONE
                                            /\ j.then \in {"build", "done", "failed"}
  BY NoneAssumption DEF Jobs

\* Every step of the only runner preserves ServeInv.
LEMMA ServeStep ==
    ASSUME OneRunner, TypeInv, TypeInv', ServeInv, NEW r \in Runners,
           RunnerStep(r) \/ Tear(r) \/ Crash(r)
    PROVE  ServeInv'
<1>. USE DEF ServeInv, SuccessIsServed, Working, Writing, files, locals, scanning, Goto
<1>a. \A q \in Runners : q = r
  BY DEF OneRunner
<1>b. /\ pc \in [Runners -> ProgramPoints] /\ job \in [Runners -> Jobs]
      /\ result \in [Runners -> Results] /\ staging \in [Runners -> Dirs \cup {NONE}]
      /\ built \in [Runners -> Manifests \cup {NONE}]
  BY DEF TypeInv, TypeOK
<1>1. CASE StartTask(r)
  BY <1>a, <1>b, <1>1 DEF StartTask, NoResult
<1>2. CASE RestoreStatus(r)
  BY <1>a, <1>b, <1>2, CalledFailed DEF RestoreStatus
<1>3. CASE SweepStaging(r)
  BY <1>a, <1>b, <1>3, CalledFailed DEF SweepStaging
<1>4. CASE RestoreBundle(r)
  BY <1>a, <1>b, <1>4, CalledFailed, DirIs DEF RestoreBundle, TypeInv, TypeOK, Statuses
<1>5. CASE CheckInterrupted(r)
  BY <1>a, <1>b, <1>5, CalledFailed DEF CheckInterrupted
<1>6. CASE Reuse(r)
  BY <1>a, <1>b, <1>6 DEF Reuse, Reusable, Valid, Return, Intact, NoJob
<1>7. CASE BeginAnalysis(r)
  BY <1>a, <1>b, <1>7, Called, IntactIs DEF BeginAnalysis
<1>8. CASE StatusWrite(r)
  BY <1>a, <1>b, <1>8 DEF StatusWrite, StatusThrows, Return, NoJob, CallWriteStatus
<1>9. CASE StatusBackup(r)
  BY <1>a, <1>b, <1>9 DEF StatusBackup
<1>10. CASE StatusRename(r)
  BY <1>a, <1>b, <1>10, JobIs, NoneAssumption DEF StatusRename, TypeInv, LocalsOK
<1>11. CASE StatusFails(r)
  BY <1>a, <1>b, <1>11 DEF StatusFails, StatusThrows, Return, NoJob, CallWriteStatus
<1>12. CASE StatusClean(r)
  BY <1>a, <1>b, <1>12, JobIs DEF StatusClean, Return, NoJob
<1>13. CASE Build(r)
  BY <1>a, <1>b, <1>13 DEF Build
<1>14. CASE StageFiles(r)
  <2>1. staging'[r] = [ok |-> staging[r] # NONE, man |-> built[r]]
    BY <1>b, <1>14 DEF StageFiles
  <2>2. (staging[r] # NONE) \in BOOLEAN /\ built[r] \in Manifests \cup {NONE}
    BY <1>b
  <2>3. [ok |-> staging[r] # NONE, man |-> built[r]] # NONE
    BY <2>2, DirIs
  <2>4. staging'[r] # NONE /\ staging'[r].man = built[r]
    BY <2>1, <2>3
  <2>. QED BY <1>a, <1>b, <1>14, <2>4 DEF StageFiles
<1>15. CASE BuildFails(r)
  BY <1>a, <1>b, <1>15, CalledFailed DEF BuildFails
<1>16. CASE Validate(r)
  BY <1>a, <1>b, <1>16, IntactIs DEF Validate, Valid
<1>17. CASE Discard(r)
  BY <1>a, <1>b, <1>17, CalledFailed DEF Discard
<1>18. CASE PublishReused(r)
  BY <1>a, <1>b, <1>18, IntactIs DEF PublishReused, Valid, TypeInv, TypeOK
<1>19. CASE PublishRefused(r)
  BY <1>a, <1>b, <1>19 DEF PublishRefused
<1>20. CASE PublishStart(r)
  BY <1>a, <1>b, <1>20 DEF PublishStart
<1>21. CASE PublishBackup(r)
  BY <1>a, <1>b, <1>21 DEF PublishBackup
<1>22. CASE PublishInstall(r)
  BY <1>a, <1>b, <1>22 DEF PublishInstall
<1>23. CASE PublishVerify(r)
  BY <1>a, <1>b, <1>23 DEF PublishVerify
<1>24. CASE PublishClean(r)
  BY <1>a, <1>b, <1>24, Called, IntactIs DEF PublishClean
<1>25. CASE PublishFails(r)
  BY <1>a, <1>b, <1>25 DEF PublishFails
<1>26. CASE RollbackBundle(r)
  BY <1>a, <1>b, <1>26 DEF RollbackBundle
<1>27. CASE RollbackRestore(r)
  BY <1>a, <1>b, <1>27 DEF RollbackRestore
<1>28. CASE Crash(r)
  BY <1>a, <1>b, <1>28 DEF Crash, Return, NoJob
<1>29. CASE ListStaging(r) \/ RemoveStaging(r) \/ SweepDone(r)
  BY <1>a, <1>b, <1>29 DEF ListStaging, RemoveStaging, SweepDone
<1>30. CASE RemoveStagingFails(r) \/ RestoreFails(r)
  BY <1>a, <1>b, <1>30, CalledFailed DEF RemoveStagingFails, RestoreFails
<1>31. CASE DiscardFails(r)
  BY <1>a, <1>b, <1>31 DEF DiscardFails, Return, NoJob
<1>32. CASE DropStaging(r)
  <2>1. CallWriteStatus(r, "SUCCESS", built[r], "done")
    BY <1>32 DEF DropStaging
  <2>2. /\ pc'[r] = "statusWrite" /\ job'[r] # NoJob /\ job'[r].then = "done"
        /\ job'[r].st.state = "SUCCESS" /\ job'[r].st.cur = built[r]
    BY <2>1, Called
  <2>3. /\ UNCHANGED <<status, bak, bundle, result>>
        /\ bundle = Intact(built[r])
        /\ result[r].kind \notin {"PUBLISHED", "REUSED"}
    BY <1>32 DEF DropStaging
  <2>. QED BY <1>a, <2>2, <2>3
<1>33. CASE DropStagingFails(r) \/ RollbackFails(r)
  BY <1>a, <1>b, <1>33 DEF DropStagingFails, RollbackFails
<1>34. CASE Tear(r)
  BY <1>a, <1>b, <1>34 DEF Tear
<1>. QED
  BY <1>1, <1>2, <1>3, <1>4, <1>5, <1>6, <1>7, <1>8, <1>9, <1>10, <1>11, <1>12, <1>13, <1>14, <1>15, <1>16, <1>17, <1>18, <1>19, <1>20, <1>21, <1>22, <1>23, <1>24, <1>25, <1>26, <1>27, <1>28, <1>29, <1>30, <1>31, <1>32, <1>33, <1>34
     DEF RunnerStep, RecoverStep, StatusStep, BuildStep, PublishStep

\* Steps of the environment leave everything ServeInv reads alone.
LEMMA ServeStutter ==
    ASSUME ServeInv, UNCHANGED vars \/ EditSql
    PROVE  ServeInv'
  BY DEF vars, EditSql, files, locals, scanning, ServeInv, SuccessIsServed, Working, Writing

\* ServeInv is inductive relative to TypeInv.
LEMMA ServeNext ==
    ASSUME OneRunner
    PROVE  TypeInv /\ TypeInv' /\ ServeInv /\ [Next]_vars => ServeInv'
  BY ServeStep, ServeStutter DEF Next

\* TypeInv and ServeInv hold in every reachable state.
LEMMA ServeInvariant ==
    ASSUME OneRunner
    PROVE  Spec => [](TypeInv /\ ServeInv)
<1>1. Spec => []TypeInv
  BY TypeInvariant
<1>2. TypeInv /\ TypeInv' /\ ServeInv /\ [Next]_vars => ServeInv'
  BY ServeNext
<1>3. Init => ServeInv
  BY ServeInit
<1>. QED BY <1>1, <1>2, <1>3, PTL DEF Spec

\* A SUCCESS status always names the manifest of a complete published bundle:
\* runTask's order of publication and status, through every crash and recovery.
THEOREM SuccessAlwaysServed ==
    ASSUME OneRunner
    PROVE  Spec => []SuccessIsServed
<1>1. ServeInv => SuccessIsServed
  BY DEF ServeInv
<1>. QED BY <1>1, ServeInvariant, PTL

\* What runTask reported as published or reused is what a reader accepts, until
\* the task is run again.
THEOREM ReportsAreServed ==
    ASSUME OneRunner
    PROVE  Spec => []ReportedIsServed
<1>1. TypeInv /\ ServeInv => ReportedIsServed
  <2>. SUFFICES ASSUME TypeInv, ServeInv, NEW r \in Runners,
                       result[r].kind \in {"PUBLISHED", "REUSED"}
                PROVE  Served = result[r].man /\ Valid(bundle)
    BY DEF ReportedIsServed
  <2>1. status # NONE /\ status.state = "SUCCESS" /\ status.cur = result[r].man
    BY DEF ServeInv
  <2>2. bundle = Intact(result[r].man) /\ bundle # NONE
    <3>1. result[r].man \in Manifests \cup {NONE}
      BY DEF TypeInv, TypeOK, Results
    <3>2. Intact(result[r].man) # NONE
      BY <3>1, DirIs
    <3>3. bundle = Intact(result[r].man)
      BY DEF ServeInv
    <3>. QED BY <3>2, <3>3
  <2>. QED BY <2>1, <2>2 DEF Served, Valid, Intact
<1>. QED BY <1>1, ServeInvariant, PTL

-----------------------------------------------------------------------------
\* An intact directory is valid.
LEMMA ValidIntact == \A m \in Manifests \cup {NONE} : Valid(Intact(m))
  BY DirIs DEF Valid, Intact

\* What a step does to the two names a complete bundle can have.
LEMMA GoodStep ==
    ASSUME OneRunner, TypeInv, ServeInv, NEW r \in Runners, RunnerStep(r) \/ Tear(r) \/ Crash(r),
           HasGood, ~HasGood'
    PROVE  pc[r] = "rollbackBundle" /\ ~Valid(recovery)
<1>. USE DEF HasGood, Valid, files, Goto
<1>1. CASE RestoreBundle(r)
  BY <1>1 DEF RestoreBundle
<1>2. CASE PublishBackup(r) \/ PublishInstall(r)
  BY <1>2 DEF PublishBackup, PublishInstall
<1>3. CASE PublishClean(r)
  <2>1. bundle = Intact(built[r]) /\ bundle' = bundle
    BY <1>3 DEF PublishClean, ServeInv
  <2>. QED BY <2>1, ValidIntact DEF TypeInv, TypeOK
<1>4. CASE RollbackBundle(r) \/ RollbackRestore(r)
  BY <1>4 DEF RollbackBundle, RollbackRestore
<1>5. CASE Tear(r)
  <2>1. CASE pc[r] = "publishClean"
    <3>1. bundle = Intact(built[r]) /\ bundle' = bundle
      BY <1>5, <2>1 DEF Tear, ServeInv
    <3>. QED BY <3>1, ValidIntact DEF TypeInv, TypeOK
  <2>. QED BY <1>5, <2>1 DEF Tear
<1>6. CASE Crash(r)
  BY <1>6 DEF Crash
<1>7. CASE /\ RunnerStep(r)
           /\ ~(\/ RestoreBundle(r) \/ PublishBackup(r) \/ PublishInstall(r) \/ PublishClean(r)
                \/ RollbackBundle(r) \/ RollbackRestore(r))
  <2>1. bundle' = bundle /\ recovery' = recovery
    BY <1>7 DEF RunnerStep, RecoverStep, StatusStep, BuildStep, PublishStep,
       StartTask, Reuse, BeginAnalysis, RestoreStatus, ListStaging, SweepStaging, RemoveStaging,
       RemoveStagingFails, SweepDone, RestoreFails, CheckInterrupted, StatusWrite, StatusBackup, StatusRename,
       StatusFails, StatusClean, Build, StageFiles, BuildFails, Validate, Discard, DiscardFails,
       PublishReused, DropStaging, DropStagingFails, PublishRefused, PublishStart, PublishVerify,
       PublishFails, RollbackFails
  <2>. QED BY <2>1
<1>. QED BY <1>1, <1>2, <1>3, <1>4, <1>5, <1>6, <1>7

\* With one process on the task, and whatever fails or is killed: only the
\* removal of bundle/ in publishArtifactBundle's catch block destroys the last
\* complete bundle, and only where .recovery/ holds none.
THEOREM LastGoodAlwaysKept ==
    ASSUME OneRunner
    PROVE  Spec => LastGoodKept
<1>1. TypeInv /\ ServeInv /\ [Next]_vars
        => [HasGood /\ ~HasGood' => \E r \in Runners : pc[r] = "rollbackBundle" /\ ~Valid(recovery)]_vars
  <2>. SUFFICES ASSUME TypeInv, ServeInv, [Next]_vars, HasGood, ~HasGood'
                PROVE  \E r \in Runners : pc[r] = "rollbackBundle" /\ ~Valid(recovery)
    OBVIOUS
  <2>1. CASE EditSql \/ UNCHANGED vars
    BY <2>1 DEF EditSql, vars, files, HasGood, Valid
  <2>2. ASSUME NEW r \in Runners, RunnerStep(r) \/ Tear(r) \/ Crash(r)
        PROVE  pc[r] = "rollbackBundle" /\ ~Valid(recovery)
    BY <2>2, GoodStep
  <2>. QED BY <2>1, <2>2 DEF Next
<1>. QED BY <1>1, ServeInvariant, PTL DEF Spec, LastGoodKept

-----------------------------------------------------------------------------
\* writeStatusFile never loses the status: the old one, the new one or the
\* backup is on disk after every step, every crash and every failing rename.
THEOREM StatusAlwaysKept ==
    ASSUME OneRunner
    PROVE  Spec => StatusNeverLost
<1>1. TypeInv /\ ServeInv /\ [Next]_vars
        => [status # NONE \/ bak # NONE => status' # NONE \/ bak' # NONE]_vars
  <2>. SUFFICES ASSUME TypeInv, ServeInv, [Next]_vars, status # NONE \/ bak # NONE
                PROVE  status' # NONE \/ bak' # NONE
    OBVIOUS
  <2>1. CASE UNCHANGED <<status, bak>>
    BY <2>1
  <2>2. ASSUME NEW r \in Runners, RestoreStatus(r) \/ StatusBackup(r) \/ StatusRename(r) \/ StatusFails(r)
        PROVE  status' # NONE \/ bak' # NONE
    BY <2>2 DEF RestoreStatus, StatusBackup, StatusRename, StatusFails
  <2>3. ASSUME NEW r \in Runners, StatusClean(r)
        PROVE  status' # NONE \/ bak' # NONE
    BY <2>3, JobIs DEF StatusClean, ServeInv, Writing, TypeInv, TypeOK
  <2>4. ASSUME NEW r \in Runners, StatusWrite(r)
        PROVE  status' # NONE \/ bak' # NONE
    BY <2>4 DEF StatusWrite
  <2>5. ASSUME NEW r \in Runners, RunnerStep(r),
               ~(RestoreStatus(r) \/ StatusStep(r))
        PROVE  UNCHANGED <<status, bak>>
    BY <2>5 DEF RunnerStep, RecoverStep, StatusStep, BuildStep, PublishStep, files,
         StartTask, ListStaging, SweepStaging, RemoveStaging, RemoveStagingFails, SweepDone,
         RestoreBundle, RestoreFails, CheckInterrupted, Reuse, BeginAnalysis,
         Build, StageFiles, BuildFails, Validate, Discard, DiscardFails, PublishReused,
         DropStaging, DropStagingFails, PublishRefused,
         PublishStart, PublishBackup, PublishInstall, PublishVerify, PublishClean,
         PublishFails, RollbackBundle, RollbackRestore, RollbackFails
  <2>6. ASSUME NEW r \in Runners, Crash(r) \/ Tear(r) \/ EditSql
        PROVE  UNCHANGED <<status, bak>>
    BY <2>6 DEF Crash, Tear, EditSql, files
  <2>7. CASE UNCHANGED vars
    BY <2>7 DEF vars, files
  <2>8. CASE EditSql
    BY <2>8 DEF EditSql, files
  <2>9. ASSUME NEW r \in Runners, RunnerStep(r)
        PROVE  status' # NONE \/ bak' # NONE
    BY <2>9, <2>1, <2>2, <2>3, <2>4, <2>5 DEF StatusStep
  <2>. QED BY <2>1, <2>6, <2>7, <2>8, <2>9 DEF Next
<1>. QED BY <1>1, ServeInvariant, PTL DEF Spec, StatusNeverLost

-----------------------------------------------------------------------------
\* A status other than SUCCESS repeats the last committed manifest, unless its
\* write is refused because of the backup; the status is moved away, never
\* absent, where runTask reads it.
CommitInv == \A r \in Runners :
    /\ pc[r] \in Writing /\ job[r].then # "done" /\ ~(pc[r] = "statusWrite" /\ bak # NONE)
          => job[r].st.cur = LastCommitted
    /\ pc[r] \in {"listStaging", "sweepStaging", "removeStaging", "restoreBundle", "checkInterrupted", "reuse"}
          => bak = NONE \/ status # NONE
    /\ pc[r] = "statusRename" => status = NONE

\* A step of the abstract store, or a stutter, under the refinement mapping.
StoreStep == [Store!Next]_<<Served, LastCommitted>>

\* Steps of the environment change neither what is served nor what is kept.
LEMMA CommitStutter ==
    ASSUME CommitInv, UNCHANGED vars \/ EditSql
    PROVE  CommitInv' /\ StoreStep
  BY DEF vars, EditSql, files, locals, scanning, CommitInv, Writing, LastCommitted, StoreStep, Served

\* Nothing is served without a SUCCESS status.
LEMMA Withdrawn ==
    ASSUME status = NONE \/ status.state # "SUCCESS"
    PROVE  Served = NONE
  BY DEF Served

\* The store is a function of the status, its backup and the bundle.
LEMMA SameStore ==
    ASSUME UNCHANGED <<status, bak, bundle>>
    PROVE  Served' = Served /\ LastCommitted' = LastCommitted
  BY DEF Served, LastCommitted

\* Every step of the only runner is a step of the store or a stutter.
LEMMA CommitStep ==
    ASSUME OneRunner, TypeInv, TypeInv', ServeInv, ServeInv', CommitInv,
           NEW r \in Runners, RunnerStep(r) \/ Tear(r) \/ Crash(r)
    PROVE  CommitInv' /\ StoreStep
<1>. USE DEF CommitInv, StoreStep, Working, Writing, files, locals, scanning, Goto
<1>a. \A q \in Runners : q = r
  BY DEF OneRunner
<1>b. pc \in [Runners -> ProgramPoints] /\ job \in [Runners -> Jobs]
  BY DEF TypeInv, TypeOK
<1>1. CASE StartTask(r)
  BY <1>a, <1>b, <1>1, SameStore DEF StartTask
<1>2. CASE RestoreStatus(r)
  <2>1. LastCommitted' = LastCommitted
    BY <1>2 DEF RestoreStatus, LastCommitted
  <2>2. CASE UNCHANGED status
    BY <1>a, <1>b, <1>2, <2>1, <2>2, CalledFailed DEF RestoreStatus, CurrentHash, LastCommitted, Served
  <2>3. CASE bak # NONE /\ status = NONE
    <3>1. Served = NONE
      BY <2>3, Withdrawn
    <3>2. Served' \in {NONE, LastCommitted}
      BY <1>2, <2>3 DEF RestoreStatus, Served, LastCommitted
    <3>3. pc'[r] = "listStaging" /\ bak' = NONE
      BY <1>b, <1>2, <2>3 DEF RestoreStatus
    <3>. QED BY <1>a, <2>1, <3>1, <3>2, <3>3 DEF Store!Next, Store!Reopen
  <2>. QED BY <1>2, <2>2, <2>3 DEF RestoreStatus
<1>3. CASE SweepStaging(r)
  BY <1>a, <1>b, <1>3, CalledFailed, SameStore DEF SweepStaging, CurrentHash, LastCommitted
<1>4. CASE RestoreBundle(r)
  <2>1. Served' = Served
    BY <1>4, DirIs DEF RestoreBundle, Served, ServeInv, SuccessIsServed, TypeInv, TypeOK, Statuses
  <2>2. LastCommitted' = LastCommitted
    BY <1>4 DEF RestoreBundle, LastCommitted
  <2>. QED BY <1>a, <1>b, <1>4, <2>1, <2>2, CalledFailed DEF RestoreBundle, CurrentHash, LastCommitted
<1>5. CASE CheckInterrupted(r)
  BY <1>a, <1>b, <1>5, CalledFailed, SameStore DEF CheckInterrupted, CurrentHash, LastCommitted
<1>6. CASE Reuse(r)
  BY <1>a, <1>b, <1>6, SameStore DEF Reuse, Return, NoJob
<1>7. CASE BeginAnalysis(r)
  BY <1>a, <1>b, <1>7, Called, SameStore DEF BeginAnalysis, CurrentHash, LastCommitted
<1>8. CASE StatusWrite(r)
  BY <1>a, <1>b, <1>8, SameStore DEF StatusWrite, StatusThrows, Return, NoJob, CallWriteStatus, LastCommitted
<1>9. CASE StatusBackup(r)
  <2>1. LastCommitted' = LastCommitted
    BY <1>9 DEF StatusBackup, LastCommitted, ServeInv
  <2>2. Served' \in {NONE, Served}
    BY <1>9 DEF StatusBackup, Served
  <2>. QED BY <1>a, <1>b, <1>9, <2>1, <2>2 DEF StatusBackup, Store!Next, Store!Withdraw
<1>10. CASE StatusRename(r)
  <2>1. /\ status' = job[r].st /\ bak' = bak /\ bundle' = bundle /\ job' = job
        /\ pc[r] = "statusRename" /\ pc'[r] = "statusClean"
    BY <1>b, <1>10 DEF StatusRename, ServeInv
  <2>2. job[r].st # NONE /\ LastCommitted' = job[r].st.cur
    BY <1>b, <2>1, JobIs DEF LastCommitted, ServeInv
  <2>3. CASE job[r].then = "done"
    <3>1. job[r].st.cur \in Manifests
      BY <2>3 DEF TypeInv, LocalsOK
    <3>2. bundle.man = job[r].st.cur /\ bundle # NONE
      <4>1. bundle = Intact(job[r].st.cur)
        BY <2>1, <2>3 DEF ServeInv
      <4>2. Intact(job[r].st.cur) # NONE
        BY <3>1, DirIs
      <4>. QED BY <4>1, <4>2 DEF Intact
    <3>3. job[r].st.state = "SUCCESS"
      BY <2>1, <2>3 DEF ServeInv
    <3>4. Served = NONE /\ Served' = job[r].st.cur
      BY <2>1, <2>2, <3>2, <3>3 DEF Served
    <3>. QED BY <1>a, <2>1, <2>2, <2>3, <3>1, <3>4 DEF Store!Next, Store!Commit
  <2>4. CASE job[r].then # "done"
    <3>1. LastCommitted' = LastCommitted
      BY <2>1, <2>2, <2>4
    <3>2. Served = NONE /\ Served' = NONE
      BY <2>1, <2>2, <2>4 DEF Served, ServeInv
    <3>. QED BY <1>a, <2>1, <2>4, <3>1, <3>2
  <2>. QED BY <2>3, <2>4
<1>11. CASE StatusFails(r)
  <2>1. bak' = NONE \/ status' # NONE
    BY <1>11 DEF StatusFails
  <2>2. LastCommitted' = LastCommitted
    BY <1>11 DEF StatusFails, LastCommitted
  <2>3. [Store!Next]_<<Served, LastCommitted>>
    <3>1. Served' = Served \/ (Served = NONE /\ Served' \in {NONE, LastCommitted})
      BY <1>11 DEF StatusFails, Served, LastCommitted
    <3>. QED BY <2>2, <3>1 DEF Store!Next, Store!Reopen
  <2>. QED
    BY <1>a, <1>b, <1>11, <2>1, <2>2, <2>3 DEF StatusFails, StatusThrows, Return, NoJob,
       CallWriteStatus, LastCommitted
<1>12. CASE StatusClean(r)
  <2>1. status # NONE
    BY <1>b, <1>12, JobIs DEF StatusClean, ServeInv
  <2>2. Served' = Served /\ LastCommitted' = LastCommitted
    BY <1>12, <2>1 DEF StatusClean, Served, LastCommitted
  <2>. QED BY <1>a, <1>b, <1>12, <2>2 DEF StatusClean, Return, NoJob
<1>13. CASE Build(r)
  BY <1>a, <1>b, <1>13, SameStore DEF Build
<1>14. CASE StageFiles(r)
  BY <1>a, <1>b, <1>14, SameStore DEF StageFiles
<1>15. CASE BuildFails(r)
  BY <1>a, <1>b, <1>15, CalledFailed, SameStore DEF BuildFails, CurrentHash, LastCommitted, ServeInv
<1>16. CASE Validate(r)
  BY <1>a, <1>b, <1>16, SameStore DEF Validate
<1>17. CASE Discard(r)
  BY <1>a, <1>b, <1>17, CalledFailed, SameStore DEF Discard, CurrentHash, LastCommitted, ServeInv
<1>18. CASE PublishReused(r)
  BY <1>a, <1>b, <1>18, SameStore DEF PublishReused
<1>19. CASE PublishRefused(r)
  BY <1>a, <1>b, <1>19, SameStore DEF PublishRefused
<1>20. CASE PublishStart(r)
  BY <1>a, <1>b, <1>20, SameStore DEF PublishStart
<1>21. CASE \/ PublishBackup(r) \/ PublishInstall(r) \/ PublishVerify(r) \/ PublishFails(r)
            \/ RollbackBundle(r) \/ RollbackRestore(r) \/ RollbackFails(r)
  <2>1. /\ UNCHANGED <<status, bak, job>>
        /\ pc[r] \in Working
        /\ pc'[r] \in Working
    BY <1>b, <1>21 DEF PublishBackup, PublishInstall, PublishVerify, PublishFails,
         RollbackBundle, RollbackRestore, RollbackFails
  <2>2. LastCommitted' = LastCommitted
    BY <2>1 DEF LastCommitted
  <2>3. Served = NONE /\ Served' = NONE
    BY <2>1 DEF ServeInv, Served
  <2>. QED BY <1>a, <2>1, <2>2, <2>3
<1>22. CASE PublishClean(r)
  BY <1>a, <1>b, <1>22, Called, SameStore DEF PublishClean, ServeInv
<1>23. CASE Crash(r)
  <2>1. LastCommitted' = LastCommitted
    BY <1>23 DEF Crash, LastCommitted
  <2>2. Served' = Served
    BY <1>23 DEF Crash, Served, ServeInv
  <2>3. pc'[r] = "idle"
    BY <1>b, <1>23 DEF Crash, Return
  <2>. QED BY <1>a, <2>1, <2>2, <2>3
<1>24. CASE ListStaging(r) \/ RemoveStaging(r) \/ SweepDone(r)
  BY <1>a, <1>b, <1>24, SameStore DEF ListStaging, RemoveStaging, SweepDone
<1>25. CASE RemoveStagingFails(r) \/ RestoreFails(r)
  BY <1>a, <1>b, <1>25, CalledFailed, SameStore DEF RemoveStagingFails, RestoreFails, CurrentHash, LastCommitted
<1>26. CASE DiscardFails(r)
  BY <1>a, <1>b, <1>26, SameStore DEF DiscardFails, Return, NoJob
<1>27. CASE DropStaging(r)
  BY <1>a, <1>b, <1>27, Called, SameStore DEF DropStaging, ServeInv
<1>28. CASE DropStagingFails(r)
  BY <1>a, <1>b, <1>28, SameStore DEF DropStagingFails
<1>29. CASE Tear(r)
  <2>1. UNCHANGED <<status, bak, job, pc>>
    BY <1>29 DEF Tear
  <2>2. LastCommitted' = LastCommitted
    BY <2>1 DEF LastCommitted
  <2>3. Served' = Served
    <3>1. CASE pc[r] = "rollbackBundle"
      BY <2>1, <3>1 DEF ServeInv, Served
    <3>2. CASE pc[r] # "rollbackBundle"
      BY <1>29, <2>1, <3>2 DEF Tear, Served
    <3>. QED BY <3>1, <3>2
  <2>. QED BY <1>a, <2>1, <2>2, <2>3
<1>. QED
  BY <1>1, <1>2, <1>3, <1>4, <1>5, <1>6, <1>7, <1>8, <1>9, <1>10, <1>11, <1>12, <1>13, <1>14, <1>15, <1>16, <1>17, <1>18, <1>19, <1>20, <1>21, <1>22, <1>23, <1>24, <1>25, <1>26, <1>27, <1>28, <1>29
     DEF RunnerStep, RecoverStep, StatusStep, BuildStep, PublishStep

\* The directory protocol implements FactsStore: runTask withdraws before it
\* commits, and recovery reopens nothing but the bundle committed last.
THEOREM StoreRefined ==
    ASSUME OneRunner
    PROVE  Spec => ImplementsStore
<1>1. Init => Store!Init /\ CommitInv
  BY DEF Init, Store!Init, Served, LastCommitted, CommitInv, Writing
<1>2. TypeInv /\ TypeInv' /\ ServeInv /\ ServeInv' /\ CommitInv /\ [Next]_vars
        => CommitInv' /\ StoreStep
  BY CommitStep, CommitStutter DEF Next
<1>. QED BY <1>1, <1>2, ServeInvariant, PTL DEF Spec, ImplementsStore, Store!Spec, StoreStep

-----------------------------------------------------------------------------
\* What recovery is removing has been found incomplete.
VictimInv == \A r \in Runners : pc[r] = "removeStaging" => ~Valid(staging[victim[r]])

\* What is being removed does not become complete again.
LEMMA TornIsTorn == \A d : \A e \in TornOf(d) : ~Valid(e)
  BY DEF TornOf, Valid

\* Every step of the only runner preserves VictimInv.
LEMMA VictimStep ==
    ASSUME OneRunner, TypeInv, VictimInv, NEW r \in Runners, RunnerStep(r) \/ Tear(r) \/ Crash(r)
    PROVE  VictimInv'
<1>. USE DEF VictimInv, files, locals, scanning, Goto
<1>a. \A q \in Runners : q = r
  BY DEF OneRunner
<1>b. /\ pc \in [Runners -> ProgramPoints] /\ victim \in [Runners -> Runners \cup {NONE}]
      /\ scan \in [Runners -> SUBSET Runners] /\ staging \in [Runners -> Dirs \cup {NONE}]
      /\ pc[r] = "removeStaging" => victim[r] \in Runners
  BY DEF TypeInv, TypeOK, LocalsOK
<1>1. CASE SweepStaging(r)
  <2>. PICK q \in scan[r] : /\ staging' = staging
                            /\ \/ Valid(staging[q]) /\ WriteFailed(r)
                               \/ ~Valid(staging[q]) /\ victim' = [victim EXCEPT ![r] = q]
    BY <1>1 DEF SweepStaging
  <2>1. CASE Valid(staging[q]) /\ WriteFailed(r)
    BY <1>a, <1>b, <2>1 DEF WriteFailed, CallWriteStatus
  <2>2. CASE ~Valid(staging[q]) /\ victim' = [victim EXCEPT ![r] = q]
    <3>1. victim'[r] = q /\ ~Valid(staging'[victim'[r]])
      BY <1>b, <2>2 DEF Valid
    <3>. QED BY <1>a, <3>1 DEF Valid
  <2>. QED BY <2>1, <2>2
<1>2. CASE Tear(r)
  <2>1. pc' = pc /\ victim' = victim
    BY <1>2 DEF Tear
  <2>2. CASE pc[r] = "removeStaging"
    <3>1. PICK e \in TornOf(staging[victim[r]]) : staging' = [staging EXCEPT ![victim[r]] = e]
      BY <1>2, <2>2 DEF Tear
    <3>2. staging'[victim'[r]] = e /\ ~Valid(e)
      BY <1>b, <2>1, <2>2, <3>1, TornIsTorn
    <3>. QED BY <1>a, <3>2 DEF Valid
  <2>3. CASE pc[r] # "removeStaging"
    BY <1>a, <2>1, <2>3
  <2>. QED BY <2>2, <2>3
<1>3. CASE (RunnerStep(r) /\ ~SweepStaging(r)) \/ Crash(r)
  <2>1. pc'[r] # "removeStaging"
    BY <1>b, <1>3 DEF RunnerStep, RecoverStep, StatusStep, BuildStep, PublishStep, Crash, Return,
       CallWriteStatus, WriteFailed, StatusThrows, StartTask, Reuse, BeginAnalysis, RestoreStatus,
       ListStaging, RemoveStaging, RemoveStagingFails, SweepDone, RestoreBundle, RestoreFails, CheckInterrupted,
       StatusWrite, StatusBackup, StatusRename, StatusFails, StatusClean, Build, StageFiles,
       BuildFails, Validate, Discard, DiscardFails, PublishReused, DropStaging, DropStagingFails,
       PublishRefused, PublishStart, PublishBackup, PublishInstall, PublishVerify, PublishClean,
       PublishFails, RollbackBundle, RollbackRestore, RollbackFails
  <2>. QED BY <1>a, <2>1
<1>. QED BY <1>1, <1>2, <1>3

\* A step of a recovering process leaves every complete directory where it is,
\* or moves it.
LEMMA EvidenceStep ==
    ASSUME OneRunner, TypeInv, VictimInv, NEW r \in Runners, Recovering(r),
           RunnerStep(r) \/ Tear(r) \/ Crash(r)
    PROVE  IntactCopies \subseteq IntactCopies'
<1>. USE DEF Recovering, files, Goto
<1>b. staging \in [Runners -> Dirs \cup {NONE}]
  BY DEF TypeInv, TypeOK
<1>. SUFFICES ASSUME NEW d \in {bundle, recovery} \cup {staging[q] : q \in Runners}, Valid(d)
              PROVE  d \in {bundle', recovery'} \cup {staging'[q] : q \in Runners}
  BY DEF IntactCopies, Valid
<1>1. CASE RestoreBundle(r)
  BY <1>1 DEF RestoreBundle, Valid
<1>2. CASE RemoveStaging(r) \/ Tear(r)
  <2>1. bundle' = bundle /\ recovery' = recovery /\ pc[r] = "removeStaging"
    BY <1>2 DEF RemoveStaging, Tear
  <2>2. \A q \in Runners : q # victim[r] => staging'[q] = staging[q]
    BY <1>2, <1>b, <2>1 DEF RemoveStaging, Tear
  <2>3. ~Valid(staging[victim[r]])
    BY <2>1 DEF VictimInv
  <2>4. ASSUME NEW q \in Runners, d = staging[q]
        PROVE  d = staging'[q]
    BY <2>2, <2>3, <2>4
  <2>. QED BY <2>1, <2>4
<1>3. CASE (RunnerStep(r) /\ ~RestoreBundle(r) /\ ~RemoveStaging(r)) \/ Crash(r)
  <2>1. UNCHANGED <<bundle, recovery, staging>>
    BY <1>3 DEF RunnerStep, RecoverStep, StatusStep, BuildStep, PublishStep, Crash,
       StartTask, Reuse, BeginAnalysis, RestoreStatus,
       ListStaging, SweepStaging, RemoveStagingFails, SweepDone, RestoreFails, CheckInterrupted,
       StatusWrite, StatusBackup, StatusRename, StatusFails, StatusClean, Build, StageFiles,
       BuildFails, Validate, Discard, DiscardFails, PublishReused, DropStaging, DropStagingFails,
       PublishRefused, PublishStart, PublishBackup, PublishInstall, PublishVerify, PublishClean,
       PublishFails, RollbackBundle, RollbackRestore, RollbackFails
  <2>. QED BY <2>1
<1>. QED BY <1>1, <1>2, <1>3

\* With one process on the task: what recoverArtifactState removes is what its
\* validation found incomplete, whichever of its operations fail, and wherever
\* it is killed.
THEOREM RecoveryAlwaysKeepsEvidence ==
    ASSUME OneRunner
    PROVE  Spec => RecoveryKeepsEvidence
<1>1. Init => VictimInv
  BY DEF Init, VictimInv
<1>2. TypeInv /\ VictimInv /\ [Next]_vars => VictimInv'
  <2>. SUFFICES ASSUME TypeInv, VictimInv, [Next]_vars PROVE VictimInv'
    OBVIOUS
  <2>1. CASE EditSql \/ UNCHANGED vars
    BY <2>1 DEF EditSql, vars, files, locals, scanning, VictimInv, Valid
  <2>. QED BY <2>1, VictimStep DEF Next
<1>3. TypeInv /\ VictimInv /\ [Next]_vars
        => [(\E r \in Runners : Recovering(r)) => IntactCopies \subseteq IntactCopies']_vars
  <2>. SUFFICES ASSUME TypeInv, VictimInv, [Next]_vars, NEW r \in Runners, Recovering(r)
                PROVE  IntactCopies \subseteq IntactCopies'
    OBVIOUS
  <2>1. CASE EditSql \/ UNCHANGED vars
    BY <2>1 DEF EditSql, vars, files, IntactCopies, Valid
  <2>2. ASSUME NEW q \in Runners, RunnerStep(q) \/ Tear(q) \/ Crash(q)
        PROVE  IntactCopies \subseteq IntactCopies'
    <3>1. q = r
      BY DEF OneRunner
    <3>. QED BY <2>2, <3>1, EvidenceStep
  <2>. QED BY <2>1, <2>2 DEF Next
<1>. QED BY <1>1, <1>2, <1>3, TypeInvariant, PTL DEF Spec, RecoveryKeepsEvidence
=============================================================================
