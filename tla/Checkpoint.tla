----------------------------- MODULE Checkpoint -----------------------------
(***************************************************************************)
(* The status file of the Input Pack collector, <root>.input-pack-status.  *)
(* json: loadTaskStatus and saveTaskStatus of task-status.ts, one          *)
(* collector process at a time, killed anywhere and started again.         *)
(*                                                                         *)
(* A save writes <file>.<pid>.<time>.tmp, parks the status file as         *)
(* <file>.<pid>.bak, renames the .tmp into place and removes the .bak; a   *)
(* load that finds no readable status file takes the newest .bak or .tmp   *)
(* that parses, of whatever process.  Data abstraction: a file is its      *)
(* document and its modification time, [at, doc]; a file that does not     *)
(* parse has the document TORN.  A rename keeps the time.                  *)
(***************************************************************************)
EXTENDS Naturals

CONSTANTS
    Docs,        \* status documents
    EmptyDoc,    \* {tasks: {}}
    TORN,        \* content that does not parse
    NOFILE,      \* absent file
    FaultPoints, \* program points whose operation may fail; "powerCut": a cut may tear
    MaxTrouble   \* bound: crashes and failing operations, together

Files == [at : Nat, doc : Docs \cup {TORN}]

ASSUME DocAssumption ==
    /\ EmptyDoc \in Docs
    /\ TORN \notin Docs
    /\ NOFILE \notin Files
ASSUME TroubleAssumption == MaxTrouble \in Nat

VARIABLES
    status,   \* the status file
    tmp,      \* the running process's .tmp, once completely written
    bak,      \* the running process's .bak
    spare,    \* .tmp and .bak files nobody will touch again
    now,      \* modification time of the last file written
    mem,      \* the process's status document
    spc,      \* where it is in loadTaskStatus or saveTaskStatus
    last,     \* history: document of the last save that returned, or of the load
    tried,    \* history: documents of the saves begun since
    cut,      \* history: a power cut tore the status file
    trouble   \* crashes and failures so far

files == <<status, tmp, bak, spare, now>>
ckptVars == <<files, mem, spc, last, tried, cut, trouble>>

Parses(f) == f # NOFILE /\ f.doc # TORN

\* orphanStatusCandidates that recoverOrphanStatus can read.
Candidates == {f \in spare \cup {tmp, bak} : Parses(f)}

NewestOf(f) == f \in Candidates /\ \A g \in Candidates : g.at <= f.at

Trouble(point) ==
    /\ point \in FaultPoints
    /\ trouble < MaxTrouble
    /\ trouble' = trouble + 1

InitCheckpoint ==
    /\ status = NOFILE /\ tmp = NOFILE /\ bak = NOFILE /\ spare = {}
    /\ now = 0
    /\ mem = EmptyDoc /\ spc = "out"
    /\ last = EmptyDoc /\ tried = {}
    /\ cut = FALSE
    /\ trouble = 0

-----------------------------------------------------------------------------
(* loadTaskStatus *)

BeginLoad ==
    /\ spc = "out"
    /\ spc' = "load"
    /\ UNCHANGED <<files, mem, last, tried, cut, trouble>>

\* The document the process starts from.
Loaded(d) ==
    /\ mem' = d
    /\ spc' = "ready"
    /\ last' = d
    /\ tried' = {}

LoadStatus ==
    /\ spc = "load" /\ Parses(status)
    /\ Loaded(status.doc)
    /\ UNCHANGED <<files, cut, trouble>>

\* recoverOrphanStatus: the candidate becomes the status file, or (the rename
\* fails) stays where it is; its document is used either way.
RecoverOrphan ==
    /\ spc = "load" /\ ~Parses(status)
    /\ \E f \in Candidates :
          /\ NewestOf(f)
          /\ Loaded(f.doc)
          /\ \/ /\ status' = f
                /\ spare' = spare \ {f}
                /\ UNCHANGED trouble
             \/ /\ Trouble("recover")
                /\ status' \in {NOFILE, status} \* an unreadable one was moved aside, or not
                /\ UNCHANGED spare
    /\ UNCHANGED <<tmp, bak, now, cut>>

\* Nothing to recover: a first run, or the unreadable file put back and thrown.
LoadNothing ==
    /\ spc = "load" /\ ~Parses(status) /\ Candidates = {}
    /\ IF status = NOFILE
       THEN Loaded(EmptyDoc)
       ELSE /\ spc' = "out"
            /\ UNCHANGED <<mem, last, tried>>
    /\ UNCHANGED <<files, cut, trouble>>

-----------------------------------------------------------------------------
(* updateTaskStatus and saveTaskStatus *)

BeginSave(d) ==
    /\ spc = "ready"
    /\ mem' = d
    /\ tried' = tried \cup {d}
    /\ spc' = "write"
    /\ UNCHANGED <<files, last, cut, trouble>>

\* The program point that follows, given what exists.
AfterWrite == IF bak # NOFILE THEN "dropBak"
              ELSE IF status # NOFILE THEN "park" ELSE "install"

WriteTmp ==
    /\ spc = "write"
    /\ now' = now + 1
    /\ \/ /\ tmp' = [at |-> now + 1, doc |-> mem]
          /\ spc' = AfterWrite
          /\ UNCHANGED <<spare, trouble>>
       \/ /\ Trouble("write")
          /\ spare' = spare \cup {[at |-> now + 1, doc |-> TORN]}
          /\ spc' = "ready"
          /\ UNCHANGED tmp
    /\ UNCHANGED <<status, bak, mem, last, tried, cut>>

\* saveTaskStatus throws before its try: the .tmp stays behind.
SaveThrows ==
    /\ spare' = spare \cup {tmp}
    /\ tmp' = NOFILE
    /\ spc' = "ready"

DropBak ==
    /\ spc = "dropBak"
    /\ \/ /\ bak' = NOFILE
          /\ spc' = IF status # NOFILE THEN "park" ELSE "install"
          /\ UNCHANGED <<tmp, spare, trouble>>
       \/ /\ Trouble("dropBak")
          /\ SaveThrows
          /\ UNCHANGED bak
    /\ UNCHANGED <<status, now, mem, last, tried, cut>>

\* Slip: the status file is removed instead of parked.
RemovePark ==
    /\ spc = "park"
    /\ status' = NOFILE /\ tmp' = NOFILE
    /\ spc' = "install"
    /\ UNCHANGED <<bak, spare, now, mem, last, tried, cut, trouble>>

Park ==
    /\ spc = "park"
    /\ \/ /\ bak' = status
          /\ status' = NOFILE
          /\ spc' = "install"
          /\ UNCHANGED <<tmp, spare, trouble>>
       \/ /\ Trouble("park")
          /\ SaveThrows
          /\ UNCHANGED <<bak, status>>
    /\ UNCHANGED <<now, mem, last, tried, cut>>

\* saveTaskStatus returns: what it was given is the last saved document.
Saved ==
    /\ spc' = "ready"
    /\ last' = mem
    /\ tried' = {}

Install ==
    /\ spc = "install"
    /\ \/ /\ status' = tmp
          /\ tmp' = NOFILE
          /\ IF bak # NOFILE
             THEN spc' = "clean" /\ UNCHANGED <<last, tried>>
             ELSE Saved
          /\ UNCHANGED trouble
       \/ /\ Trouble("install")
          /\ spc' = "undo"
          /\ UNCHANGED <<status, tmp, last, tried>>
    /\ UNCHANGED <<bak, spare, now, mem, cut>>

CleanBak ==
    /\ spc = "clean"
    /\ \/ /\ bak' = NOFILE
          /\ Saved
          /\ UNCHANGED trouble
       \/ /\ Trouble("clean")
          /\ spc' = "undo"
          /\ UNCHANGED <<bak, last, tried>>
    /\ UNCHANGED <<status, tmp, spare, now, mem, cut>>

\* The catch: the parked status file comes back, then the .tmp goes.
Undo ==
    /\ spc = "undo"
    /\ IF status = NOFILE /\ bak # NOFILE
       THEN \/ /\ status' = bak
               /\ bak' = NOFILE
               /\ spc' = "undoTmp"
               /\ UNCHANGED <<tmp, spare, trouble>>
            \/ /\ Trouble("undo")
               /\ SaveThrows
               /\ UNCHANGED <<status, bak>>
       ELSE /\ spc' = "undoTmp"
            /\ UNCHANGED <<status, bak, tmp, spare, trouble>>
    /\ UNCHANGED <<now, mem, last, tried, cut>>

UndoTmp ==
    /\ spc = "undoTmp"
    /\ tmp' = NOFILE
    /\ spc' = "ready"
    /\ \/ UNCHANGED <<spare, trouble>>
       \/ /\ tmp # NOFILE
          /\ Trouble("undoTmp")
          /\ spare' = spare \cup {tmp}
    /\ UNCHANGED <<status, bak, now, mem, last, tried, cut>>

-----------------------------------------------------------------------------
(* The process ends, or is killed: the next one has another pid and never  *)
(* touches the .tmp and .bak left here.                                    *)

Abandon ==
    /\ spare' = (spare \cup {tmp, bak}) \ {NOFILE}
    /\ tmp' = NOFILE /\ bak' = NOFILE
    /\ mem' = EmptyDoc
    /\ spc' = "out"

Exit ==
    /\ spc = "ready"
    /\ Abandon
    /\ UNCHANGED <<status, now, last, tried, cut, trouble>>

Crash ==
    /\ spc # "out"
    /\ Trouble("crash")
    /\ IF spc = "write"
       THEN \* the .tmp is there in part
            /\ spare' = (spare \cup {bak, [at |-> now + 1, doc |-> TORN]}) \ {NOFILE}
            /\ now' = now + 1
            /\ tmp' = NOFILE /\ bak' = NOFILE /\ mem' = EmptyDoc /\ spc' = "out"
       ELSE Abandon /\ UNCHANGED now
    /\ UNCHANGED <<status, last, tried, cut>>

\* A power cut: the rename reached the disk, the content it named did not.
PowerCut ==
    /\ spc # "out"
    /\ Trouble("powerCut")
    /\ status # NOFILE
    /\ status' = [status EXCEPT !.doc = TORN]
    /\ cut' = TRUE
    /\ Abandon
    /\ UNCHANGED <<now, last, tried>>

LoadStep == LoadStatus \/ RecoverOrphan \/ LoadNothing
SaveStep == WriteTmp \/ DropBak \/ Park \/ Install \/ CleanBak \/ Undo \/ UndoTmp

NextCheckpoint ==
    \/ BeginLoad \/ LoadStep
    \/ \E d \in Docs : BeginSave(d)
    \/ SaveStep
    \/ Exit \/ Crash \/ PowerCut

SpecCheckpoint == InitCheckpoint /\ [][NextCheckpoint]_ckptVars

-----------------------------------------------------------------------------
Progress == {last} \cup tried

\* The files and the process's place are what the operations of
\* task-status.ts can leave.
CheckpointTypeOK ==
    /\ status \in Files \cup {NOFILE}
    /\ tmp \in Files \cup {NOFILE}
    /\ bak \in Files \cup {NOFILE}
    /\ spare \in SUBSET Files
    /\ now \in Nat
    /\ mem \in Docs
    /\ spc \in {"out", "load", "ready", "write", "dropBak", "park", "install",
                "clean", "undo", "undoTmp"}
    /\ last \in Docs
    /\ tried \in SUBSET Docs
    /\ cut \in BOOLEAN
    /\ trouble \in 0..MaxTrouble

\* Wherever the process is killed and whichever operations of a save fail, the
\* next loadTaskStatus starts from the document of the last save that returned
\* or of one that was begun since: no record that was saved is forgotten, and no
\* leftover .bak or .tmp of an earlier process comes back.  (A power cut that
\* tears the status file can lose it: the .bak is already gone.)
RestartKeepsProgress ==
    [][spc = "load" /\ spc' = "ready" /\ ~cut => mem' \in Progress]_ckptVars
=============================================================================
