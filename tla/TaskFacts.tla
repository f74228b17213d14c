----------------------------- MODULE TaskFacts -----------------------------
(***************************************************************************)
(* One task directory of the Machine Facts store, registry/tasks/<id>/,    *)
(* and the processes that analyse the task into it.                        *)
(*                                                                         *)
(* The directory holds analysis-status.json (with its .bak and .tmp, the   *)
(* three files of writeStatus), the published bundle/, the .recovery/      *)
(* directory that a publication parks the previous bundle in, and one      *)
(* .staging-<pid>-<time>/ per process.  runTask recovers the directory,    *)
(* reuses a current bundle or builds, validates and publishes a new one,   *)
(* and brackets the work by an ANALYZING and a final SUCCESS/FAILED status.*)
(* Every file-system call that another process or a crash can come between *)
(* is a step of its own; a recursive removal is any number of steps that   *)
(* take files and one that ends it.  No lock protects the directory.       *)
(*                                                                         *)
(* Data abstraction: the analysed input (SQL, schema, configuration) is    *)
(* one member of Sqls, the records computed from it a member of Outs, and  *)
(* the pair is the manifest; a manifest stands for its own sha256.  A      *)
(* directory is NONE, or [ok, man]: ok says that validateBundle finds no   *)
(* error, man is the manifest.json in it (NONE when the file is missing).  *)
(***************************************************************************)
EXTENDS Naturals

CONSTANTS
    Runners,      \* processes that run runTask on this task
    Sqls,         \* contents of the task's SQL snapshot
    Outs,         \* outcomes of analysing one SQL (two: analysis can drift)
    NONE,         \* absent file, directory or manifest hash (null)
    FaultPoints,  \* program points whose operation may fail; "crash": dying is possible
    MaxTrouble    \* bound: crashes, failing operations and edits, together

Manifests == [sql : Sqls, out : Outs]
Dirs      == [ok : BOOLEAN, man : Manifests \cup {NONE}]
Statuses  == [state : {"ANALYZING", "SUCCESS", "FAILED"},
              req   : Sqls,
              cur   : Manifests \cup {NONE}]

ASSUME NoneAssumption == NONE \notin Sqls \cup Manifests \cup Dirs \cup Statuses
ASSUME TroubleAssumption == MaxTrouble \in Nat

VARIABLES
    sql,       \* content of the file task.sql_snapshot
    status,    \* analysis-status.json
    bak,       \* analysis-status.json.bak
    tmp,       \* analysis-status.json.tmp
    bundle,    \* bundle/
    recovery,  \* .recovery/
    staging,   \* staging[r]: .staging-<pid of r>-<time>/
    pc,        \* where r is in runTask
    req,       \* r's local `requested`
    built,     \* r's local `built.manifest`
    had,       \* r's local `hadExisting`
    scan,      \* staging directories r's recovery has listed and not looked at
    victim,    \* the one it is removing
    job,       \* the status r is writing, and where writeStatus returns to
    result,    \* what r's last runTask returned
    trouble    \* crashes, failures and edits so far

files  == <<status, bak, tmp, bundle, recovery, staging>>
scanning == <<scan, victim>>
locals == <<req, built, had, scanning>>
vars   == <<sql, files, pc, locals, job, result, trouble>>

Intact(m) == [ok |-> TRUE, man |-> m]
\* What a recursive removal of directory d leaves while it is under way.
TornOf(d) == {[ok |-> FALSE, man |-> m] : m \in {d.man, NONE}}

Valid(d) == d # NONE /\ d.ok

NoJob    == [st |-> NONE, then |-> "none"]
NoResult == [kind |-> "none", man |-> NONE]

\* The manifest that a reader following status -> manifest hash accepts.
Served == IF /\ status # NONE
             /\ status.state = "SUCCESS"
             /\ bundle # NONE
             /\ bundle.man = status.cur
          THEN status.cur ELSE NONE

\* readCurrentManifestHash
CurrentHash == IF status = NONE THEN NONE ELSE status.cur

Init ==
    /\ sql \in Sqls
    /\ status = NONE /\ bak = NONE /\ tmp = NONE
    /\ bundle = NONE /\ recovery = NONE
    /\ staging = [r \in Runners |-> NONE]
    /\ pc      = [r \in Runners |-> "idle"]
    /\ req     = [r \in Runners |-> NONE]
    /\ built   = [r \in Runners |-> NONE]
    /\ had     = [r \in Runners |-> FALSE]
    /\ scan    = [r \in Runners |-> {}]
    /\ victim  = [r \in Runners |-> NONE]
    /\ job     = [r \in Runners |-> NoJob]
    /\ result  = [r \in Runners |-> NoResult]
    /\ trouble = 0

Goto(r, from, to) == pc[r] = from /\ pc' = [pc EXCEPT ![r] = to]

\* The operation at r's program point fails (EPERM, EBUSY, a parser error).
Fault(r) ==
    /\ pc[r] \in FaultPoints
    /\ trouble < MaxTrouble
    /\ trouble' = trouble + 1

\* runTask returns, or throws out of the task (kind "THROWN").
Return(r, kind, m) ==
    /\ pc'     = [pc EXCEPT ![r] = "idle"]
    /\ result' = [result EXCEPT ![r] = [kind |-> kind, man |-> m]]
    /\ req'    = [req EXCEPT ![r] = NONE]
    /\ built'  = [built EXCEPT ![r] = NONE]
    /\ had'    = [had EXCEPT ![r] = FALSE]
    /\ scan'   = [scan EXCEPT ![r] = {}]
    /\ victim' = [victim EXCEPT ![r] = NONE]
    /\ job'    = [job EXCEPT ![r] = NoJob]

\* Call writeStatus(state, cur) and continue at `then`.
CallWriteStatus(r, state, cur, then) ==
    /\ pc'  = [pc EXCEPT ![r] = "statusWrite"]
    /\ job' = [job EXCEPT ![r] =
                  [st   |-> [state |-> state, req |-> req[r], cur |-> cur],
                   then |-> then]]

\* Slip: FAILED forgets the manifest hash of the status it replaces.
ForgetsHash(r) == CallWriteStatus(r, "FAILED", NONE, "failed")

WriteFailed(r) == CallWriteStatus(r, "FAILED", CurrentHash, "failed")

(***************************************************************************)
(* runTask: the request, and recoverArtifactState.                         *)
(***************************************************************************)
StartTask(r) ==
    /\ Goto(r, "idle", "restoreStatus")
    /\ req'    = [req EXCEPT ![r] = sql]
    /\ result' = [result EXCEPT ![r] = NoResult]
    /\ UNCHANGED <<sql, files, built, had, scanning, job, trouble>>

\* A status backup without a status is an interrupted writeStatus: put it
\* back.  Both present: recovery gives up, and runTask records FAILED.
RestoreStatus(r) ==
    /\ pc[r] = "restoreStatus"
    /\ \/ /\ bak = NONE
          /\ Goto(r, "restoreStatus", "listStaging")
          /\ UNCHANGED <<status, bak, job>>
       \/ /\ bak # NONE /\ status = NONE
          /\ status' = bak
          /\ bak' = NONE
          /\ Goto(r, "restoreStatus", "listStaging")
          /\ UNCHANGED job
       \/ /\ bak # NONE /\ status # NONE
          /\ WriteFailed(r)
          /\ UNCHANGED <<status, bak>>
    /\ UNCHANGED <<sql, tmp, bundle, recovery, staging, locals, result, trouble>>

ListStaging(r) ==
    /\ Goto(r, "listStaging", "sweepStaging")
    /\ scan' = [scan EXCEPT ![r] = {q \in Runners : staging[q] # NONE}]
    /\ UNCHANGED <<sql, files, req, built, had, victim, job, result, trouble>>

\* Slip: complete staging directories are removed as well.
SweepsAll(r) == \E q \in scan[r] :
    /\ Goto(r, "sweepStaging", "removeStaging")
    /\ scan' = [scan EXCEPT ![r] = @ \ {q}]
    /\ victim' = [victim EXCEPT ![r] = q]
    /\ UNCHANGED <<sql, files, req, built, had, job, result, trouble>>

\* Each listed directory is validated.  A complete one is evidence of an
\* interrupted publication and ends the recovery ...
SweepStaging(r) == \E q \in scan[r] :
    /\ pc[r] = "sweepStaging"
    /\ IF Valid(staging[q])
       THEN /\ WriteFailed(r)
            /\ scan' = [scan EXCEPT ![r] = {}]
            /\ UNCHANGED victim
       ELSE /\ Goto(r, "sweepStaging", "removeStaging")
            /\ scan' = [scan EXCEPT ![r] = @ \ {q}]
            /\ victim' = [victim EXCEPT ![r] = q]
            /\ UNCHANGED job
    /\ UNCHANGED <<sql, files, req, built, had, result, trouble>>

\* ... an incomplete one is removed, whatever its owner has made of it since.
RemoveStaging(r) ==
    /\ Goto(r, "removeStaging", "sweepStaging")
    /\ staging' = [staging EXCEPT ![victim[r]] = NONE]
    /\ victim' = [victim EXCEPT ![r] = NONE]
    /\ UNCHANGED <<sql, status, bak, tmp, bundle, recovery, req, built, had, scan, job, result, trouble>>

RemoveStagingFails(r) ==
    /\ pc[r] = "removeStaging"
    /\ staging[victim[r]] # NONE
    /\ Fault(r)
    /\ WriteFailed(r)
    /\ scan' = [scan EXCEPT ![r] = {}]
    /\ victim' = [victim EXCEPT ![r] = NONE]
    /\ UNCHANGED <<sql, files, req, built, had, result>>

SweepDone(r) ==
    /\ Goto(r, "sweepStaging", "restoreBundle")
    /\ scan[r] = {}
    /\ UNCHANGED <<sql, files, locals, job, result, trouble>>

\* A parked previous bundle goes back, if nothing took its place.
RestoreBundle(r) ==
    /\ pc[r] = "restoreBundle"
    /\ \/ /\ recovery = NONE
          /\ Goto(r, "restoreBundle", "checkInterrupted")
          /\ UNCHANGED <<bundle, recovery, job>>
       \/ /\ Valid(recovery) /\ bundle = NONE
          /\ bundle' = recovery
          /\ recovery' = NONE
          /\ Goto(r, "restoreBundle", "checkInterrupted")
          /\ UNCHANGED job
       \/ /\ recovery # NONE
          /\ bundle # NONE \/ ~Valid(recovery)
          /\ WriteFailed(r)
          /\ UNCHANGED <<bundle, recovery>>
    /\ UNCHANGED <<sql, status, bak, tmp, staging, locals, result, trouble>>

\* One of the two renames fails; its source stays where it is.
RestoreFails(r) ==
    /\ \/ pc[r] = "restoreStatus" /\ bak # NONE /\ status = NONE
       \/ pc[r] = "restoreBundle" /\ Valid(recovery) /\ bundle = NONE
    /\ Fault(r)
    /\ WriteFailed(r)
    /\ UNCHANGED <<sql, files, locals, result>>

\* Slip: the interruption is thrown but not recorded.
ThrowsInterrupted(r) ==
    /\ pc[r] = "checkInterrupted"
    /\ IF status # NONE /\ status.state = "ANALYZING"
       THEN Return(r, "THROWN", NONE)
       ELSE /\ Goto(r, "checkInterrupted", "reuse")
            /\ UNCHANGED <<locals, job, result>>
    /\ UNCHANGED <<sql, files, trouble>>

CheckInterrupted(r) ==
    /\ pc[r] = "checkInterrupted"
    /\ IF status # NONE /\ status.state = "ANALYZING"
       THEN WriteFailed(r)
       ELSE Goto(r, "checkInterrupted", "reuse") /\ UNCHANGED job
    /\ UNCHANGED <<sql, files, locals, result, trouble>>

(***************************************************************************)
(* reusableTaskResult, else the ANALYZING status.                          *)
(***************************************************************************)
\* Slip: a bundle is reused whatever the state of its status.
ReusesAny(r) ==
    /\ status # NONE /\ status.req = req[r]
    /\ Valid(bundle) /\ bundle.man = status.cur /\ bundle.man.sql = req[r]

Reusable(r) ==
    /\ status # NONE
    /\ status.state = "SUCCESS"
    /\ status.cur # NONE
    /\ status.req = req[r]
    /\ Valid(bundle)
    /\ bundle.man = status.cur
    /\ bundle.man.sql = req[r]

Reuse(r) ==
    /\ pc[r] = "reuse"
    /\ Reusable(r)
    /\ Return(r, "REUSED", bundle.man)
    /\ UNCHANGED <<sql, files, trouble>>

\* Slip: the analysis starts under the old status.
SkipsAnalyzing(r) ==
    /\ Goto(r, "reuse", "build")
    /\ ~Reusable(r)
    /\ UNCHANGED <<sql, files, locals, job, result, trouble>>

BeginAnalysis(r) ==
    /\ pc[r] = "reuse"
    /\ ~Reusable(r)
    /\ CallWriteStatus(r, "ANALYZING", CurrentHash, "build")
    /\ UNCHANGED <<sql, files, locals, result, trouble>>

(***************************************************************************)
(* writeStatus: check the backup and write .tmp; status -> .bak;           *)
(* .tmp -> status; remove .bak.                                            *)
(***************************************************************************)

\* writeStatus throws.  Only the SUCCESS write is inside runTask's try: its
\* catch records FAILED.  The other two throw out of runTask.
StatusThrows(r) ==
    \/ /\ job[r].then = "done"
       /\ CallWriteStatus(r, "FAILED", IF status' = NONE THEN NONE ELSE status'.cur, "failed")
       /\ UNCHANGED <<locals, result>>
    \/ /\ job[r].then # "done"
       /\ Return(r, "THROWN", NONE)

StatusWrite(r) ==
    /\ pc[r] = "statusWrite"
    /\ \/ /\ bak = NONE
          /\ tmp' = job[r].st
          /\ Goto(r, "statusWrite", "statusBackup")
          /\ UNCHANGED <<status, locals, job, result>>
       \/ /\ bak # NONE
          /\ UNCHANGED <<status, tmp>>
          /\ StatusThrows(r)
    /\ UNCHANGED <<sql, bak, bundle, recovery, staging, trouble>>

\* Slip: the old status is removed instead of kept as backup.
RemovesStatus(r) ==
    /\ Goto(r, "statusBackup", "statusRename")
    /\ status' = NONE
    /\ UNCHANGED <<sql, bak, tmp, bundle, recovery, staging, locals, job, result, trouble>>

StatusBackup(r) ==
    /\ Goto(r, "statusBackup", "statusRename")
    /\ IF status # NONE
       THEN bak' = status /\ status' = NONE
       ELSE UNCHANGED <<status, bak>>
    /\ UNCHANGED <<sql, tmp, bundle, recovery, staging, locals, job, result, trouble>>

StatusRename(r) ==
    /\ Goto(r, "statusRename", "statusClean")
    /\ tmp # NONE
    /\ status' = tmp
    /\ tmp' = NONE
    /\ UNCHANGED <<sql, bak, bundle, recovery, staging, locals, job, result, trouble>>

\* A rename failed, by itself or because another process renamed the shared
\* .tmp first, or the backup could not be removed.  The catch block puts the
\* backup back if there is no status, and removes .tmp.
StatusFails(r) ==
    /\ \/ pc[r] = "statusBackup" /\ status # NONE /\ Fault(r)
       \/ pc[r] = "statusRename" /\ tmp # NONE /\ Fault(r)
       \/ pc[r] = "statusRename" /\ tmp = NONE /\ UNCHANGED trouble
       \/ pc[r] = "statusClean" /\ bak # NONE /\ Fault(r)
    /\ tmp' = NONE
    /\ IF status = NONE /\ bak # NONE
       THEN status' = bak /\ bak' = NONE
       ELSE UNCHANGED <<status, bak>>
    /\ StatusThrows(r)
    /\ UNCHANGED <<sql, bundle, recovery, staging>>

StatusClean(r) ==
    /\ pc[r] = "statusClean"
    /\ bak' = NONE
    /\ CASE job[r].then = "build" ->
                /\ Goto(r, "statusClean", "build")
                /\ job' = [job EXCEPT ![r] = NoJob]
                /\ UNCHANGED <<locals, result>>
         [] job[r].then = "done" ->
                Return(r, "PUBLISHED", job[r].st.cur)
         [] OTHER -> Return(r, "FAILED", NONE)
    /\ UNCHANGED <<sql, status, tmp, bundle, recovery, staging, trouble>>

(***************************************************************************)
(* buildTaskBundle and the validation of what it staged.                   *)
(***************************************************************************)

\* The SQL file is read a second time here: what is analysed may not be what
\* was requested.  The staging directory exists from now on.
Build(r) ==
    /\ Goto(r, "build", "stageFiles")
    /\ \E o \in Outs : built' = [built EXCEPT ![r] = [sql |-> sql, out |-> o]]
    /\ staging' = [staging EXCEPT ![r] = [ok |-> FALSE, man |-> NONE]]
    /\ UNCHANGED <<sql, status, bak, tmp, bundle, recovery, req, had, scanning, job, result, trouble>>

\* All records, the manifest last.  If another process swept the directory
\* meanwhile, the later writes recreate it without the earlier files.
StageFiles(r) ==
    /\ Goto(r, "stageFiles", "validate")
    /\ staging' = [staging EXCEPT ![r] =
                      [ok |-> staging[r] # NONE, man |-> built[r]]]
    /\ UNCHANGED <<sql, status, bak, tmp, bundle, recovery, locals, job, result, trouble>>

\* The analysis throws: runTask's local `staging` is still null, so its catch
\* block leaves the incomplete directory behind.
BuildFails(r) ==
    /\ pc[r] = "stageFiles"
    /\ Fault(r)
    /\ WriteFailed(r)
    /\ UNCHANGED <<sql, files, locals, result>>

Validate(r) ==
    /\ pc[r] = "validate"
    /\ Goto(r, "validate", IF Valid(staging[r]) THEN "publish" ELSE "discard")
    /\ UNCHANGED <<sql, files, locals, job, result, trouble>>

\* runTask's catch block: remove the staging directory, record FAILED.
Discard(r) ==
    /\ pc[r] = "discard"
    /\ staging' = [staging EXCEPT ![r] = NONE]
    /\ WriteFailed(r)
    /\ UNCHANGED <<sql, status, bak, tmp, bundle, recovery, locals, result, trouble>>

\* The removal fails: the error leaves runTask and no FAILED is recorded.
DiscardFails(r) ==
    /\ pc[r] = "discard"
    /\ staging[r] # NONE
    /\ Fault(r)
    /\ Return(r, "THROWN", NONE)
    /\ UNCHANGED <<sql, files>>

(***************************************************************************)
(* publishArtifactBundle.                                                  *)
(***************************************************************************)

\* A valid bundle of the same analysis context (here: the same SQL).
SameContext(r) == Valid(bundle) /\ bundle.man.sql = built[r].sql

\* The same bundle: only the staging directory is removed.
PublishReused(r) ==
    /\ Goto(r, "publish", "dropStaging")
    /\ Valid(bundle) /\ bundle.man = built[r]
    /\ UNCHANGED <<sql, files, locals, job, result, trouble>>

DropStaging(r) ==
    /\ pc[r] = "dropStaging"
    /\ staging' = [staging EXCEPT ![r] = NONE]
    /\ CallWriteStatus(r, "SUCCESS", built[r], "done")
    /\ UNCHANGED <<sql, status, bak, tmp, bundle, recovery, locals, result, trouble>>

DropStagingFails(r) ==
    /\ Goto(r, "dropStaging", "discard")
    /\ staging[r] # NONE
    /\ Fault(r)
    /\ UNCHANGED <<sql, files, locals, job, result>>

\* Same inputs, other content: NON_DETERMINISTIC_OUTPUT, nothing published
\* (runTask's catch block repeats the removal of the staging directory).  An
\* existing bundle without a manifest, or a parked bundle: throw.
PublishRefused(r) ==
    /\ Goto(r, "publish", "discard")
    /\ \/ SameContext(r) /\ bundle.man # built[r]
       \/ bundle # NONE /\ bundle.man = NONE
       \/ recovery # NONE /\ ~SameContext(r)
    /\ UNCHANGED <<sql, files, locals, job, result, trouble>>

PublishStart(r) ==
    /\ Goto(r, "publish", "publishBackup")
    /\ ~SameContext(r)
    /\ bundle # NONE => bundle.man # NONE
    /\ recovery = NONE
    /\ had' = [had EXCEPT ![r] = bundle # NONE]
    /\ UNCHANGED <<sql, files, req, built, scanning, job, result, trouble>>

\* Slip: the previous bundle is removed instead of parked.
RemovesBundle(r) ==
    /\ Goto(r, "publishBackup", "publishInstall")
    /\ bundle' = NONE
    /\ UNCHANGED <<sql, status, bak, tmp, recovery, staging, locals, job, result, trouble>>

\* bundle -> .recovery
PublishBackup(r) ==
    /\ Goto(r, "publishBackup", "publishInstall")
    /\ IF had[r]
       THEN /\ bundle # NONE /\ recovery = NONE
            /\ recovery' = bundle
            /\ bundle' = NONE
       ELSE UNCHANGED <<bundle, recovery>>
    /\ UNCHANGED <<sql, status, bak, tmp, staging, locals, job, result, trouble>>

\* staging -> bundle
PublishInstall(r) ==
    /\ Goto(r, "publishInstall", "publishVerify")
    /\ staging[r] # NONE /\ bundle = NONE
    /\ bundle' = staging[r]
    /\ staging' = [staging EXCEPT ![r] = NONE]
    /\ UNCHANGED <<sql, status, bak, tmp, recovery, locals, job, result, trouble>>

PublishVerify(r) ==
    /\ Goto(r, "publishVerify", "publishClean")
    /\ Valid(bundle)
    /\ UNCHANGED <<sql, files, locals, job, result, trouble>>

\* Remove .recovery, return to runTask, which writes SUCCESS.
PublishClean(r) ==
    /\ pc[r] = "publishClean"
    /\ recovery' = NONE
    /\ CallWriteStatus(r, "SUCCESS", built[r], "done")
    /\ UNCHANGED <<sql, status, bak, tmp, bundle, staging, locals, result, trouble>>

\* A step of the publication fails: by itself, or because another process
\* moved the directories.
PublishFails(r) ==
    /\ \/ /\ \/ pc[r] = "publishBackup" /\ had[r]
             \/ pc[r] \in {"publishInstall", "publishVerify"}
             \/ pc[r] = "publishClean" /\ recovery # NONE
          /\ Fault(r)
       \/ /\ \/ /\ pc[r] = "publishBackup" /\ had[r]
                /\ bundle = NONE \/ recovery # NONE
             \/ /\ pc[r] = "publishInstall"
                /\ staging[r] = NONE \/ bundle # NONE
             \/ pc[r] = "publishVerify" /\ ~Valid(bundle)
          /\ UNCHANGED trouble
    /\ pc' = [pc EXCEPT ![r] = "rollbackBundle"]
    /\ UNCHANGED <<sql, files, locals, job, result>>

\* publishArtifactBundle's catch block: remove bundle/, whatever it is ...
RollbackBundle(r) ==
    /\ Goto(r, "rollbackBundle", "rollbackRestore")
    /\ bundle' = NONE
    /\ UNCHANGED <<sql, status, bak, tmp, recovery, staging, locals, job, result, trouble>>

\* ... and put .recovery back.
RollbackRestore(r) ==
    /\ Goto(r, "rollbackRestore", "discard")
    /\ IF recovery # NONE /\ bundle = NONE
       THEN bundle' = recovery /\ recovery' = NONE
       ELSE UNCHANGED <<bundle, recovery>>
    /\ UNCHANGED <<sql, status, bak, tmp, staging, locals, job, result, trouble>>

\* Either of the two fails, and with it the catch block.
RollbackFails(r) ==
    /\ \/ pc[r] = "rollbackBundle" /\ bundle # NONE
       \/ pc[r] = "rollbackRestore" /\ recovery # NONE
    /\ Fault(r)
    /\ pc' = [pc EXCEPT ![r] = "discard"]
    /\ UNCHANGED <<sql, files, locals, job, result>>

\* rmSync takes a file of the directory it is removing, by its path.
Tear(r) ==
    /\ \/ /\ pc[r] = "removeStaging" /\ staging[victim[r]] # NONE
          /\ \E d \in TornOf(staging[victim[r]]) : staging' = [staging EXCEPT ![victim[r]] = d]
          /\ UNCHANGED <<bundle, recovery>>
       \/ /\ pc[r] \in {"discard", "dropStaging"} /\ staging[r] # NONE
          /\ \E d \in TornOf(staging[r]) : staging' = [staging EXCEPT ![r] = d]
          /\ UNCHANGED <<bundle, recovery>>
       \/ /\ pc[r] = "publishClean" /\ recovery # NONE
          /\ recovery' \in TornOf(recovery)
          /\ UNCHANGED <<bundle, staging>>
       \/ /\ pc[r] = "rollbackBundle" /\ bundle # NONE
          /\ bundle' \in TornOf(bundle)
          /\ UNCHANGED <<recovery, staging>>
    /\ UNCHANGED <<sql, status, bak, tmp, pc, locals, job, result, trouble>>

(***************************************************************************)
(* The environment.                                                        *)
(***************************************************************************)

\* The process dies.
Crash(r) ==
    /\ "crash" \in FaultPoints
    /\ pc[r] # "idle"
    /\ trouble < MaxTrouble
    /\ trouble' = trouble + 1
    /\ Return(r, "CRASHED", NONE)
    /\ UNCHANGED <<sql, files>>

\* Somebody edits the task's SQL.
EditSql ==
    /\ trouble < MaxTrouble
    /\ trouble' = trouble + 1
    /\ \E s \in Sqls \ {sql} : sql' = s
    /\ UNCHANGED <<files, pc, locals, job, result>>

RecoverStep(r) ==
    \/ RestoreStatus(r) \/ ListStaging(r) \/ SweepStaging(r) \/ RemoveStaging(r)
    \/ RemoveStagingFails(r) \/ SweepDone(r) \/ RestoreBundle(r) \/ RestoreFails(r)
    \/ CheckInterrupted(r)
StatusStep(r)  == StatusWrite(r) \/ StatusBackup(r) \/ StatusRename(r) \/ StatusFails(r) \/ StatusClean(r)
BuildStep(r)   == Build(r) \/ StageFiles(r) \/ BuildFails(r) \/ Validate(r) \/ Discard(r) \/ DiscardFails(r)
PublishStep(r) ==
    \/ PublishReused(r) \/ DropStaging(r) \/ DropStagingFails(r) \/ PublishRefused(r) \/ PublishStart(r)
    \/ PublishBackup(r) \/ PublishInstall(r) \/ PublishVerify(r) \/ PublishClean(r)
    \/ PublishFails(r) \/ RollbackBundle(r) \/ RollbackRestore(r) \/ RollbackFails(r)

RunnerStep(r) ==
    \/ StartTask(r) \/ Reuse(r) \/ BeginAnalysis(r)
    \/ RecoverStep(r) \/ StatusStep(r) \/ BuildStep(r) \/ PublishStep(r)

Next == EditSql \/ \E r \in Runners : RunnerStep(r) \/ Tear(r) \/ Crash(r)

Spec == Init /\ [][Next]_vars

\* A batch, once started, runs on, and is started again after it ended.
FairSpec == Spec /\ \A r \in Runners : WF_vars(RunnerStep(r))

-----------------------------------------------------------------------------
(***************************************************************************)
(* Correctness.                                                            *)
(***************************************************************************)
ProgramPoints ==
    {"idle", "restoreStatus", "listStaging", "sweepStaging", "removeStaging",
     "restoreBundle", "checkInterrupted",
     "reuse", "statusWrite", "statusBackup", "statusRename", "statusClean",
     "build", "stageFiles", "validate", "discard", "publish", "dropStaging", "publishBackup",
     "publishInstall", "publishVerify", "publishClean", "rollbackBundle",
     "rollbackRestore"}

Jobs == [st : Statuses, then : {"build", "done", "failed"}] \cup {NoJob}
Results ==
    [kind : {"PUBLISHED", "REUSED"}, man : Manifests]
    \cup [kind : {"none", "FAILED", "THROWN", "CRASHED"}, man : {NONE}]

\* The files and the locals of runTask hold what their names say.
TypeOK ==
    /\ sql \in Sqls
    /\ status \in Statuses \cup {NONE}
    /\ bak \in Statuses \cup {NONE}
    /\ tmp \in Statuses \cup {NONE}
    /\ bundle \in Dirs \cup {NONE}
    /\ recovery \in Dirs \cup {NONE}
    /\ staging \in [Runners -> Dirs \cup {NONE}]
    /\ pc \in [Runners -> ProgramPoints]
    /\ req \in [Runners -> Sqls \cup {NONE}]
    /\ built \in [Runners -> Manifests \cup {NONE}]
    /\ had \in [Runners -> BOOLEAN]
    /\ scan \in [Runners -> SUBSET Runners]
    /\ victim \in [Runners -> Runners \cup {NONE}]
    /\ job \in [Runners -> Jobs]
    /\ result \in [Runners -> Results]
    /\ trouble \in 0 .. MaxTrouble

\* A SUCCESS status, current or parked as backup, names the manifest of a
\* complete published bundle, across every crash, failing operation and
\* recovery.  (runTask writes SUCCESS after publishArtifactBundle returned,
\* and ANALYZING before the bundle is touched.)
SuccessIsServed ==
    \A s \in {status, bak} :
        s # NONE /\ s.state = "SUCCESS" => s.cur # NONE /\ bundle = Intact(s.cur)

\* A complete bundle stays on disk, published or parked, whatever crashes and
\* whichever operation fails: the swap, its verification, the recovery.  One
\* step alone may destroy the last one, the removal in publishArtifactBundle's
\* catch block, and only where .recovery/ holds no complete bundle.
HasGood == Valid(bundle) \/ Valid(recovery)

LastGoodKept ==
    [][HasGood /\ ~HasGood' => \E r \in Runners : pc[r] = "rollbackBundle" /\ ~Valid(recovery)]_vars

\* What runTask reported as published or reused is still what a reader of
\* the status and the manifest accepts, until the task is run again.
ReportedIsServed ==
    \A r \in Runners :
        result[r].kind \in {"PUBLISHED", "REUSED"}
            => Served = result[r].man /\ Valid(bundle)

\* A status file exists from the first completed write on: the three-file
\* replacement leaves the old status, the new one, or the backup.
StatusNeverLost ==
    [][status # NONE \/ bak # NONE => status' # NONE \/ bak' # NONE]_vars

Recovering(r) == pc[r] \in {"restoreStatus", "listStaging", "sweepStaging", "removeStaging",
                            "restoreBundle", "checkInterrupted"}
IntactCopies  == {d.man : d \in {e \in {bundle, recovery} \cup {staging[r] : r \in Runners} : Valid(e)}}

\* While recoverArtifactState is at work it moves complete directories but
\* destroys none: what an interrupted publication left can be inspected.
RecoveryKeepsEvidence ==
    [][(\E r \in Runners : Recovering(r)) => IntactCopies \subseteq IntactCopies']_vars

\* The states of the directory between two runs that no run leaves by itself:
\* recovery refuses both status files, a complete staging directory, and a
\* parked bundle that is torn or was replaced; a bundle without manifest.json
\* makes every publication throw.
NeedsInspection ==
    /\ \A r \in Runners : pc[r] = "idle"
    /\ \/ status # NONE /\ bak # NONE
       \/ \E r \in Runners : Valid(staging[r])
       \/ recovery # NONE /\ (bundle # NONE \/ ~Valid(recovery))
       \/ bundle # NONE /\ bundle.man = NONE

Settled == Served # NONE /\ Served.sql = sql /\ status.req = sql

\* NON_DETERMINISTIC_OUTPUT: the published bundle of the same inputs differs.
Drifting(r) == pc[r] = "publish" /\ SameContext(r) /\ bundle.man # built[r]

\* If the task keeps being run, then once crashes, failures and edits stop its
\* runs serve a bundle of the current SQL, or leave the directory in a state
\* that asks for inspection, unless the analysis itself keeps changing its
\* outcome: no run of failures repeats for any other reason.
Heals == []<>(Settled \/ NeedsInspection \/ \E r \in Runners : Drifting(r))

\* The manifest of the last SUCCESS status, which every later status repeats.
LastCommitted ==
    IF status # NONE THEN status.cur ELSE IF bak # NONE THEN bak.cur ELSE NONE

Store == INSTANCE FactsStore WITH Bundles <- Manifests, served <- Served, kept <- LastCommitted

\* The directory protocol of runTask, with its crashes and recoveries, does
\* what FactsStore promises.
ImplementsStore == Store!Spec
=============================================================================
