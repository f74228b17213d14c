---------------------------- MODULE InputCollect ----------------------------
(***************************************************************************)
(* The batch collector of Input Packs, collect-task-input-pack.ts: load    *)
(* the checkpoint, classify the tasks, move the packs of excluded tasks to *)
(* their archives and record the exclusions, skip what is proved reusable, *)
(* and for each remaining task fetch its evidence, replace its Task Pack,  *)
(* then its Table Pack, and record the outcome.  One collector at a time;  *)
(* every rename that a crash or a failure can come between is a step.      *)
(*                                                                         *)
(* Data abstraction: a pack is [v, whole], v standing for the contentHash  *)
(* in its task.json (NONE: no task.json) and whole for "the SQL or DDL     *)
(* files match the hashes in it".  A task has one category and at most one *)
(* table, TABLE, which all tasks share.  What the platform answers is      *)
(* chosen when it is asked.  Leftover staging directories are not kept:    *)
(* nothing reads them.                                                     *)
(***************************************************************************)
EXTENDS Checkpoint

CONSTANTS
    Tasks,     \* the task ids of the batch
    TABLE,     \* the one Table Pack
    Versions,  \* contents of packs
    NONE,      \* absent pack, record, hash or task
    Classes,   \* what the scheduling lookup can answer
    Kinds,     \* what collecting one task can find
    MaxRuns    \* bound: runs of the collector

Slots   == Tasks \cup {TABLE}
Packs   == [v : Versions \cup {NONE}, whole : BOOLEAN]
Reasons == {"MANUAL_OR_FROZEN", "HORAE_TASK_NOT_FOUND", "PHYSICAL_TABLE_NOT_FOUND"}
Records == [st : {"SUCCESS", "PARTIAL", "FAILED"}, why : {NONE},
            pack : Versions \cup {NONE}, table : Versions \cup {NONE}]
           \cup [st : {"EXCLUDED"}, why : Reasons, pack : {NONE}, table : {NONE}]
\* What collectOneTask finds: a clean task has its table's DDL, a partial one
\* may have it.
Jobs    == [kind : Kinds \cap {"clean"}, v : Versions, tv : Versions]
           \cup [kind : Kinds \cap {"partial"}, v : Versions, tv : Versions \cup {NONE}]
           \cup [kind : Kinds \cap {"gap"}, v : Versions, tv : {NONE}]
           \cup [kind : Kinds \cap {"error"}, v : {NONE}, tv : {NONE}]

ASSUME CollectAssumption ==
    /\ NONE \notin Versions \cup Packs \cup Records \cup Tasks \cup Reasons
    /\ TABLE \notin Tasks \cup {NONE}
    /\ Classes \subseteq {"RUN", "MANUAL_OR_FROZEN", "HORAE_TASK_NOT_FOUND"}
    /\ Kinds \subseteq {"clean", "partial", "gap", "error"}
    /\ MaxRuns \in Nat
ASSUME DocsAssumption ==
    /\ Docs = [Tasks -> Records \cup {NONE}]
    /\ EmptyDoc = [t \in Tasks |-> NONE]

VARIABLES
    disk,    \* tasks/<category>/<id> and the table directory in the data root
    manual,  \* the same below --manual-data-root
    absent,  \* and below --not-found-data-root
    aside,   \* the .previous-<uuid> of the replacement underway
    staged,  \* the staging directory of the write underway
    litter,  \* .previous-<uuid> directories nobody will touch again
    pc,      \* where the collector is
    force,   \* --force
    class,   \* excludedTaskInfo
    moved,   \* manualFrozenMoves that are not empty
    todo,    \* tasks left in the loop underway
    cur,     \* the task underway
    slot,    \* the directory being written
    job,     \* the evidence fetched for cur
    full,    \* the status file is over its hard limit
    runs,    \* runs so far
    before,  \* history: the pack in slot when its write began
    worn,    \* history: its removal has begun
    newest,  \* history: what has to be there of each task, the contents last
             \* installed and not taken back
    calm     \* history: nothing has failed or interfered since the run began

packs  == <<disk, manual, absent, aside, staged, litter>>
locals == <<force, class, moved, todo, cur, slot, job>>
ghosts == <<before, worn, newest, calm>>
vars   == <<ckptVars, packs, pc, locals, full, runs, ghosts>>

Whole(v)    == [v |-> v, whole |-> TRUE]
NoJob       == [kind |-> "none", v |-> NONE, tv |-> NONE]
NoClass     == [t \in Tasks |-> "RUN"]
Excluded(w) == [st |-> "EXCLUDED", why |-> w, pack |-> NONE, table |-> NONE]
Plain(s)    == [st |-> s, why |-> NONE, pack |-> NONE, table |-> NONE]
Success(j)  == [st |-> "SUCCESS", why |-> NONE, pack |-> j.v, table |-> j.tv]

Init ==
    /\ InitCheckpoint
    /\ disk   = [s \in Slots |-> NONE]
    /\ manual = [t \in Tasks |-> NONE]
    /\ absent = [t \in Tasks |-> NONE]
    /\ aside = NONE /\ staged = NONE /\ litter = {}
    /\ pc = "out" /\ force = FALSE /\ class = NoClass
    /\ moved = {} /\ todo = {} /\ cur = NONE /\ slot = NONE /\ job = NoJob
    /\ full = FALSE /\ runs = 0
    /\ before = NONE /\ worn = FALSE /\ newest = [t \in Tasks |-> NONE] /\ calm = TRUE

\* The process is gone: what it was replacing stays where it is.
Leave ==
    /\ pc' = "out"
    /\ litter' = IF aside = NONE THEN litter ELSE litter \cup {<<slot, aside>>}
    /\ aside' = NONE /\ staged' = NONE
    /\ force' = FALSE /\ class' = NoClass /\ moved' = {} /\ todo' = {}
    /\ cur' = NONE /\ slot' = NONE /\ job' = NoJob /\ before' = NONE /\ worn' = FALSE

\* An operation of the collector itself fails.
Fails(point) ==
    /\ Trouble(point)
    /\ calm' = FALSE
    /\ UNCHANGED <<files, mem, spc, last, tried, cut>>

Quiet == UNCHANGED <<ckptVars, calm>>

-----------------------------------------------------------------------------
(* Start: the size check, loadTaskStatus, findExcludedTaskIds.             *)

StartRun ==
    /\ pc = "out" /\ runs < MaxRuns /\ ~full
    /\ BeginLoad
    /\ pc' = "load"
    /\ runs' = runs + 1
    /\ force' \in BOOLEAN
    /\ calm' = TRUE
    /\ UNCHANGED <<packs, class, moved, todo, cur, slot, job, full, before, worn, newest>>

Load ==
    /\ pc = "load"
    /\ LoadStep
    /\ pc' = IF spc' = "ready" THEN "classify" ELSE "out"
    /\ force' = (force /\ spc' = "ready")
    /\ calm' = (calm /\ trouble' = trouble)
    /\ UNCHANGED <<packs, class, moved, todo, cur, slot, job, full, runs, before, worn, newest>>

KnownExcluded(t) == ~force /\ mem[t] # NONE /\ mem[t].st = "EXCLUDED"

\* Recorded exclusions are taken over, the other tasks are looked up.
Classify ==
    /\ pc = "classify"
    /\ \E c \in [Tasks -> Classes] :
          class' = [t \in Tasks |-> IF KnownExcluded(t) THEN mem[t].why ELSE c[t]]
    /\ pc' = "relocate"
    /\ todo' = {t \in Tasks : class'[t] # "RUN"}
    /\ Quiet
    /\ UNCHANGED <<packs, force, moved, cur, slot, job, full, runs, before, worn, newest>>

\* The batch is given up: an exception that main does not catch.
GiveUp ==
    /\ Leave
    /\ Abandon
    /\ UNCHANGED <<status, now>>

\* The scheduling lookup throws (fails closed).
LookupFails ==
    /\ pc = "classify"
    /\ Trouble("lookup")
    /\ GiveUp
    /\ calm' = FALSE
    /\ UNCHANGED <<disk, manual, absent, full, runs, newest, last, tried, cut>>

-----------------------------------------------------------------------------
(* relocateTaskPacks, first for the manual and frozen tasks, then for the  *)
(* ones that do not exist.                                                 *)

NotFound(t) == class[t] \in Reasons \ {"MANUAL_OR_FROZEN"}

HasPack(d) == d # NONE /\ d.v # NONE  \* there is a task.json

RelocateManual ==
    /\ pc = "relocate"
    /\ \E t \in todo :
          /\ class[t] = "MANUAL_OR_FROZEN"
          /\ ~(HasPack(disk[t]) /\ manual[t] # NONE)
          /\ todo' = todo \ {t}
          /\ IF HasPack(disk[t])
             THEN /\ manual' = [manual EXCEPT ![t] = disk[t]]
                  /\ disk' = [disk EXCEPT ![t] = NONE]
                  /\ moved' = moved \cup {t}
             ELSE UNCHANGED <<manual, disk, moved>>
    /\ Quiet
    /\ UNCHANGED <<absent, aside, staged, litter, pc, force, class, cur, slot, job,
                   full, runs, before, worn, newest>>

ManualFirst == \A u \in todo : class[u] # "MANUAL_OR_FROZEN"

\* The pack in the data root, then (cur is set) the one in the manual root.
RelocateAbsent ==
    /\ pc = "relocate" /\ ManualFirst /\ cur = NONE
    /\ \E t \in todo :
          /\ ~(HasPack(disk[t]) /\ absent[t] # NONE)
          /\ cur' = t
          /\ IF HasPack(disk[t])
             THEN /\ absent' = [absent EXCEPT ![t] = disk[t]]
                  /\ disk' = [disk EXCEPT ![t] = NONE]
             ELSE UNCHANGED <<absent, disk>>
    /\ Quiet
    /\ UNCHANGED <<manual, aside, staged, litter, pc, force, class, moved, todo, slot,
                   job, full, runs, before, worn, newest>>

RelocateAbsentManual ==
    /\ pc = "relocate" /\ cur # NONE
    /\ ~(HasPack(manual[cur]) /\ absent[cur] # NONE)
    /\ IF HasPack(manual[cur])
       THEN /\ absent' = [absent EXCEPT ![cur] = manual[cur]]
            /\ manual' = [manual EXCEPT ![cur] = NONE]
       ELSE UNCHANGED <<absent, manual>>
    /\ todo' = todo \ {cur}
    /\ cur' = NONE
    /\ Quiet
    /\ UNCHANGED <<disk, aside, staged, litter, pc, force, class, moved, slot, job,
                   full, runs, before, worn, newest>>

\* MANUAL_TASK_ARCHIVE_CONFLICT, or a rename that fails: the batch ends.
Conflict ==
    \/ \E t \in todo : /\ class[t] = "MANUAL_OR_FROZEN"
                       /\ HasPack(disk[t]) /\ manual[t] # NONE
    \/ /\ ManualFirst /\ cur = NONE
       /\ \E t \in todo : HasPack(disk[t]) /\ absent[t] # NONE
    \/ cur # NONE /\ HasPack(manual[cur]) /\ absent[cur] # NONE

RelocateThrows ==
    /\ pc = "relocate"
    /\ \/ Conflict /\ UNCHANGED <<trouble, calm>>
       \/ Trouble("relocate") /\ calm' = FALSE
    /\ GiveUp
    /\ UNCHANGED <<disk, manual, absent, full, runs, newest, last, tried, cut>>

EndRelocate ==
    /\ pc = "relocate" /\ todo = {}
    /\ pc' = "mark"
    /\ todo' = {t \in Tasks : class[t] # "RUN"}
    /\ Quiet
    /\ UNCHANGED <<packs, force, class, moved, cur, slot, job, full, runs, before, worn, newest>>

-----------------------------------------------------------------------------
(* persistStatus: the record goes into the document in memory, and the     *)
(* document is saved; a failing save is only remembered.                   *)

Persist(t, r) ==
    /\ BeginSave([mem EXCEPT ![t] = r])
    /\ pc' = "save"

Save ==
    /\ pc = "save"
    /\ SaveStep
    /\ pc' = IF spc' = "ready" THEN "saved" ELSE "save"
    /\ calm' = (calm /\ trouble' = trouble)
    /\ UNCHANGED <<packs, locals, full, runs, before, worn, newest>>

\* Back to the loop that recorded: the exclusions, or the batch.
Continue ==
    /\ pc = "saved"
    /\ pc' = IF cur = NONE THEN "mark" ELSE "batch"
    /\ cur' = NONE
    /\ Quiet
    /\ UNCHANGED <<packs, force, class, moved, todo, slot, job, full, runs, before, worn, newest>>

\* StopTaskBatch: the file just saved is over the limit.  Among the exclusions
\* it ends the process, in the batch it ends the loop.
SaveStops ==
    /\ pc = "saved" /\ tried = {}
    /\ Trouble("oversize")
    /\ full' = TRUE
    /\ calm' = FALSE
    /\ IF cur = NONE
       THEN GiveUp
       ELSE /\ pc' = "done"
            /\ cur' = NONE /\ todo' = {}
            /\ UNCHANGED <<aside, staged, litter, force, class, moved, slot, job,
                           before, worn, files, mem, spc>>
    /\ UNCHANGED <<disk, manual, absent, runs, newest, last, tried, cut>>

\* The record that is there already says so.
Marked(t) ==
    /\ ~force
    /\ mem[t] = Excluded(class[t])
    /\ t \notin moved

MarkOne ==
    /\ pc = "mark"
    /\ \E t \in todo :
          /\ NotFound(t) \/ \A u \in todo : ~NotFound(u)
          /\ todo' = todo \ {t}
          /\ IF Marked(t)
             THEN Quiet /\ UNCHANGED pc
             ELSE Persist(t, Excluded(class[t])) /\ UNCHANGED calm
    /\ UNCHANGED <<packs, force, class, moved, cur, slot, job, full, runs, before, worn, newest>>

-----------------------------------------------------------------------------
(* isReusableSuccess / canSkipSuccessfulTask, and the batch.               *)

\* Slip: the record is believed without a look at the packs.
RecordOnly(t) == mem[t] # NONE /\ mem[t].st = "SUCCESS"

Reusable(t) ==
    /\ mem[t] # NONE
    /\ mem[t].st = "SUCCESS"
    /\ disk[t] = Whole(mem[t].pack)
    /\ disk[TABLE] = Whole(mem[t].table)

SkipReusable ==
    /\ pc = "mark" /\ todo = {}
    /\ pc' = "batch"
    /\ todo' = {t \in Tasks : class[t] = "RUN" /\ (force \/ ~Reusable(t))}
    /\ Quiet
    /\ UNCHANGED <<packs, force, class, moved, cur, slot, job, full, runs, before, worn, newest>>

PickTask ==
    /\ pc = "batch"
    /\ \E t \in todo :
          /\ cur' = t /\ slot' = t
          /\ todo' = todo \ {t}
          /\ before' = disk[t] /\ worn' = FALSE
    /\ pc' = "fetch"
    /\ Quiet
    /\ UNCHANGED <<packs, force, class, moved, job, full, runs, newest>>

EndBatch ==
    /\ pc = "batch" /\ todo = {}
    /\ pc' = "done"
    /\ slot' = NONE /\ job' = NoJob /\ before' = NONE /\ worn' = FALSE
    /\ Quiet
    /\ UNCHANGED <<packs, force, class, moved, todo, cur, full, runs, newest>>

Finish ==
    /\ pc = "done"
    /\ Exit
    /\ Leave
    /\ UNCHANGED <<disk, manual, absent, full, runs, newest, calm>>

\* collectOneTask up to its first write.
Fetch ==
    /\ pc = "fetch"
    /\ job' \in Jobs
    /\ pc' = IF job'.kind = "error" THEN "failed" ELSE "compare"
    /\ Quiet
    /\ UNCHANGED <<packs, force, class, moved, todo, cur, slot, full, runs, before, worn, newest>>

-----------------------------------------------------------------------------
(* writeTaskInput and writeTableInput, with replaceDirectory.              *)

Want == IF slot = TABLE THEN job.tv ELSE job.v

\* Slip: the table is written again after the table.
TablesForever ==
    IF job.tv # NONE
    THEN slot' = TABLE /\ before' = disk[TABLE] /\ worn' = FALSE /\ pc' = "compare"
    ELSE pc' = "settle" /\ UNCHANGED <<slot, before, worn>>

\* A directory is written: the table's turn, or both are there.
NextWrite ==
    IF slot # TABLE /\ job.tv # NONE
    THEN slot' = TABLE /\ before' = disk[TABLE] /\ worn' = FALSE /\ pc' = "compare"
    ELSE pc' = "settle" /\ UNCHANGED <<slot, before, worn>>

Installed == IF slot = TABLE THEN newest ELSE [newest EXCEPT ![slot] = Want]

\* readContentHash looks at the JSON document alone.
UpToDate == disk[slot] # NONE /\ disk[slot].v = Want

Unchanged ==
    /\ pc = "compare" /\ UpToDate
    /\ UNCHANGED <<packs, newest>>
    /\ NextWrite
    /\ Quiet
    /\ UNCHANGED <<force, class, moved, todo, cur, job, full, runs>>

StagePack ==
    /\ pc = "compare" /\ ~UpToDate
    /\ \/ staged' = Whole(Want) /\ pc' = "park" /\ Quiet
       \/ Fails("stage") /\ pc' = "failed" /\ UNCHANGED staged
    /\ UNCHANGED <<disk, manual, absent, aside, litter, locals, full, runs, before, worn, newest>>

\* Slip: the old directory is removed, not moved aside.
RemovesPack ==
    /\ pc = "park"
    /\ disk' = [disk EXCEPT ![slot] = NONE]
    /\ pc' = "install" /\ Quiet
    /\ UNCHANGED <<staged, manual, absent, aside, litter, locals, full, runs, before, worn, newest>>

ParkPack ==
    /\ pc = "park"
    /\ IF disk[slot] = NONE
       THEN pc' = "install" /\ Quiet /\ UNCHANGED <<disk, aside, staged>>
       ELSE \/ /\ aside' = disk[slot]
               /\ disk' = [disk EXCEPT ![slot] = NONE]
               /\ pc' = "install" /\ Quiet
               /\ UNCHANGED staged
            \/ /\ Fails("parkPack")
               /\ staged' = NONE /\ pc' = "failed"
               /\ UNCHANGED <<disk, aside>>
    /\ UNCHANGED <<manual, absent, litter, locals, full, runs, before, worn, newest>>

InstallPack ==
    /\ pc = "install"
    /\ \/ /\ disk' = [disk EXCEPT ![slot] = staged]
          /\ staged' = NONE
          /\ newest' = Installed
          /\ IF aside = NONE THEN NextWrite
             ELSE pc' = "drop" /\ UNCHANGED <<slot, before, worn>>
          /\ Quiet
       \/ /\ Fails("installPack")
          /\ pc' = "unpark"
          /\ UNCHANGED <<disk, staged, slot, before, worn, newest>>
    /\ UNCHANGED <<manual, absent, aside, litter, force, class, moved, todo, cur, job,
                   full, runs>>

DropAside ==
    /\ pc = "drop"
    /\ \/ /\ aside' = NONE
          /\ NextWrite
          /\ Quiet
       \/ /\ Fails("drop")
          /\ pc' = "unpark"
          /\ UNCHANGED <<aside, slot, before, worn>>
    /\ UNCHANGED <<disk, manual, absent, staged, litter, force, class, moved, todo, cur,
                   job, full, runs, newest>>

\* The catch of replaceDirectory: it removes the target, if there is one, and
\* puts the previous directory back.  The removal takes the new contents back.
TakenBack ==
    IF slot = TABLE \/ disk[slot] = NONE THEN newest
    ELSE [newest EXCEPT ![slot] = IF before # NONE /\ before.whole THEN before.v ELSE NONE]

\* What fails here throws out of the catch block.
LeftAside ==
    /\ litter' = IF aside = NONE THEN litter ELSE litter \cup {<<slot, aside>>}
    /\ aside' = NONE /\ staged' = NONE
    /\ pc' = "failed"

Unpark ==
    /\ pc = "unpark"
    /\ \/ /\ disk' = [disk EXCEPT ![slot] = NONE]
          /\ newest' = TakenBack
          /\ pc' = "putback"
          /\ Quiet
          /\ UNCHANGED <<aside, litter, staged>>
       \/ /\ disk[slot] # NONE /\ Fails("unpark")
          /\ LeftAside
          /\ UNCHANGED <<disk, newest>>
    /\ UNCHANGED <<manual, absent, locals, full, runs, before, worn>>

\* Slip: nothing is put back.
NotRestored == [disk EXCEPT ![slot] = NONE]

Restored == [disk EXCEPT ![slot] = aside]

PutBack ==
    /\ pc = "putback"
    /\ \/ /\ disk' = Restored
          /\ aside' = NONE /\ staged' = NONE
          /\ pc' = "failed"
          /\ Quiet
          /\ UNCHANGED litter
       \/ /\ aside # NONE /\ Fails("putback")
          /\ LeftAside
          /\ UNCHANGED disk
    /\ UNCHANGED <<manual, absent, locals, full, runs, before, worn, newest>>

\* A recursive removal that is underway has removed some of the files: of the
\* previous directory, or, in the catch block, of the new one.
TornOf(p) == [v : {p.v, NONE}, whole : {FALSE}] \ {p}

Tear ==
    /\ \/ /\ pc = "drop"
          /\ aside' \in TornOf(aside)
          /\ worn' = TRUE
          /\ UNCHANGED <<disk, newest>>
       \/ /\ pc = "unpark" /\ disk[slot] # NONE
          /\ \E p \in TornOf(disk[slot]) : disk' = [disk EXCEPT ![slot] = p]
          /\ newest' = TakenBack
          /\ UNCHANGED <<aside, worn>>
    /\ Quiet
    /\ UNCHANGED <<manual, absent, staged, litter, pc, locals, full, runs, before>>

-----------------------------------------------------------------------------
(* The outcome of one task.                                                *)

Clear == slot' = NONE /\ job' = NoJob /\ before' = NONE /\ worn' = FALSE

\* runTaskBatch's reportFailure.
RecordFailure ==
    /\ pc = "failed"
    /\ Persist(cur, Plain("FAILED"))
    /\ Clear
    /\ UNCHANGED <<packs, force, class, moved, todo, cur, full, runs, newest, calm>>

RecordOutcome ==
    /\ pc = "settle" /\ job.kind \in {"clean", "partial"}
    /\ Persist(cur, IF job.kind = "clean" THEN Success(job) ELSE Plain("PARTIAL"))
    /\ Clear
    /\ UNCHANGED <<packs, force, class, moved, todo, cur, full, runs, newest, calm>>

\* hasPhysicalTableEvidenceGap: the pack leaves the data root.
MoveGap ==
    /\ pc = "settle" /\ job.kind = "gap"
    /\ absent[cur] = NONE
    /\ \/ /\ absent' = [absent EXCEPT ![cur] = disk[cur]]
          /\ disk' = [disk EXCEPT ![cur] = NONE]
          /\ pc' = "gapMoved"
          /\ Quiet
       \/ /\ Fails("moveGap")
          /\ pc' = "gapFailed"
          /\ UNCHANGED <<absent, disk>>
    /\ UNCHANGED <<manual, aside, staged, litter, locals, full, runs, before, worn, newest>>

RecordGap ==
    /\ pc = "gapMoved"
    /\ Persist(cur, Excluded("PHYSICAL_TABLE_NOT_FOUND"))
    /\ Clear
    /\ UNCHANGED <<packs, force, class, moved, todo, cur, full, runs, newest, calm>>

\* The archive holds a pack of the task already, or the rename fails: a failure
\* of this task like any other.
GapConflict ==
    /\ \/ pc = "settle" /\ job.kind = "gap" /\ absent[cur] # NONE
       \/ pc = "gapFailed"
    /\ Persist(cur, Plain("FAILED"))
    /\ Clear
    /\ UNCHANGED <<packs, force, class, moved, todo, cur, full, runs, newest, calm>>

-----------------------------------------------------------------------------
(* The environment.                                                        *)

Killed ==
    /\ pc # "out"
    /\ Crash \/ PowerCut
    /\ Leave
    /\ calm' = FALSE
    /\ UNCHANGED <<disk, manual, absent, full, runs, newest>>

\* Between runs somebody edits a file of a pack, or removes the pack.
Edit ==
    /\ pc = "out"
    /\ Trouble("edit")
    /\ \E s \in Slots :
          /\ disk[s] # NONE /\ disk[s].whole
          /\ \/ disk' = [disk EXCEPT ![s].whole = FALSE]
             \/ disk' = [disk EXCEPT ![s] = NONE]
          /\ newest' = [t \in Tasks |-> IF t = s THEN NONE ELSE newest[t]]
    /\ UNCHANGED <<files, mem, spc, last, tried, cut, manual, absent, aside, staged,
                   litter, pc, locals, full, runs, before, worn, calm>>

Relocate == RelocateManual \/ RelocateAbsent \/ RelocateAbsentManual \/ EndRelocate
Write    == Unchanged \/ StagePack \/ ParkPack \/ InstallPack \/ DropAside \/ Unpark
            \/ PutBack
Outcome  == RecordFailure \/ RecordOutcome \/ MoveGap \/ RecordGap \/ GapConflict
Step     == \/ Load \/ Classify \/ LookupFails \/ Relocate \/ RelocateThrows
            \/ MarkOne \/ Save \/ Continue \/ SaveStops \/ SkipReusable
            \/ PickTask \/ EndBatch \/ Finish \/ Fetch \/ Write \/ Outcome

Next == StartRun \/ Step \/ Tear \/ Killed \/ Edit

Spec == Init /\ [][Next]_vars

\* A running collector goes on.
FairSpec == Spec /\ WF_vars(Step)

-----------------------------------------------------------------------------
(* Properties *)

Copies(t) == {disk[t], manual[t], absent[t]}
             \cup (IF slot = t THEN {aside} ELSE {})
             \cup {l[2] : l \in {x \in litter : x[1] = t}}

\* The state of the collector, its packs and its checkpoint.
TypeOK ==
    /\ CheckpointTypeOK
    /\ disk \in [Slots -> Packs \cup {NONE}]
    /\ manual \in [Tasks -> Packs \cup {NONE}]
    /\ absent \in [Tasks -> Packs \cup {NONE}]
    /\ aside \in Packs \cup {NONE} /\ staged \in Packs \cup {NONE}
    /\ litter \in SUBSET (Slots \X Packs)
    /\ pc \in {"out", "load", "classify", "relocate", "mark", "save", "saved", "batch", "done",
               "fetch", "compare", "park", "install", "drop", "unpark", "putback",
               "failed",
               "settle", "gapMoved", "gapFailed"}
    /\ force \in BOOLEAN
    /\ class \in [Tasks -> Reasons \cup {"RUN"}]
    /\ moved \in SUBSET Tasks /\ todo \in SUBSET Tasks
    /\ cur \in Tasks \cup {NONE} /\ slot \in Slots \cup {NONE}
    /\ job \in Jobs \cup {NoJob}
    /\ full \in BOOLEAN /\ runs \in 0..MaxRuns
    /\ before \in Packs \cup {NONE} /\ worn \in BOOLEAN
    /\ newest \in [Tasks -> Versions \cup {NONE}]
    /\ calm \in BOOLEAN

\* The contents last installed for a task, and not taken back, are whole in the
\* data root, in an archive or in a .previous directory, whatever crashes, fails
\* or conflicts (replaceDirectory, relocateTaskPacks).  Only one step loses them:
\* the catch block removes the complete new pack after the removal of the
\* previous one had stopped half-way, and neither is whole.
Evident(t) == newest[t] # NONE => \E p \in Copies(t) : p = Whole(newest[t])

EvidenceKept ==
    [][\A t \in Tasks : Evident(t) /\ ~Evident(t)' => pc = "unpark" /\ slot = t /\ worn]_vars

\* A write that fails leaves the pack it found: in its place, or as a .previous
\* directory where undoing failed too.  Only a removal of that pack that has
\* begun, after the new one was in place, takes it away.  (There the code departs
\* from "MUST keep the previous valid data" of the specification of Input Packs:
\* the catch block puts what is left of it in the place of the new one.)
FailureKeepsPack ==
    pc = "failed" => disk[slot] = before \/ <<slot, before>> \in litter \/ worn

\* After a run that nothing failed in or interfered with, checkpoint and packs
\* agree for every task of the batch: it is recorded, the saved document says
\* what the run found, a SUCCESS names the pack that is there, and an EXCLUDED
\* task has no pack in the data root.  (Of a FAILED task it says only that the
\* failure is on record.)
CalmRunSettles ==
    pc = "done" /\ calm =>
        /\ Parses(status) /\ status.doc = mem
        /\ \A t \in Tasks :
              /\ mem[t] # NONE
              /\ mem[t].st = "SUCCESS" => disk[t] # NONE /\ disk[t].v = mem[t].pack
              /\ mem[t].st = "EXCLUDED" => ~HasPack(disk[t])

\* The batch terminates: every run that is started ends.
RunEnds == pc # "out" ~> pc = "out"
=============================================================================
