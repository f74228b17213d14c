------------------------- MODULE InputCollect_proofs -------------------------
(***************************************************************************)
(* Proofs about InputCollect and the Checkpoint it extends, for any tasks, *)
(* contents, answers of the platform, runs and faults: types, that a       *)
(* restart starts from the last saved document, that no evidence is lost,  *)
(* and that a run in which nothing fails settles every task.               *)
(*                                                                         *)
(* The status file alone does not carry that proof.  While it is parked,   *)
(* what a load would find is the newest leftover that parses, so the       *)
(* invariant orders all leftovers by their age (AgesOK) and says of the    *)
(* newest one what holds of the status file otherwise (ProgressOK).        *)
(***************************************************************************)
EXTENDS InputCollect, TLAPS

\* Which of the process's files exist at each point of a save.
PlaceOK ==
    /\ spc \in {"out", "load"} => tmp = NOFILE /\ bak = NOFILE
    /\ tmp # NOFILE => /\ spc \in {"dropBak", "park", "install", "undo", "undoTmp"}
                       /\ tmp.doc = mem /\ tmp.at = now
    /\ spc \in {"dropBak", "park", "install"} => tmp # NOFILE
    /\ spc = "park" => status # NOFILE /\ bak = NOFILE
    /\ spc = "install" => status = NOFILE
    /\ spc = "clean" => status # NOFILE /\ status.doc = mem
    /\ spc = "undo" /\ status = NOFILE => tmp # NOFILE
    /\ spc = "undoTmp" /\ bak # NOFILE => status # NOFILE

\* No two files are of the same age, and the running .tmp is the newest.
AgesOK ==
    /\ \A f \in spare : f.at <= now
    /\ \A f, g \in spare : f.at = g.at => f = g
    /\ status # NOFILE => status.at <= now /\ \A f \in spare : f.at # status.at
    /\ bak # NOFILE => bak.at <= now /\ \A f \in spare : f.at # bak.at
    /\ status # NOFILE /\ bak # NOFILE => status.at # bak.at
    /\ tmp # NOFILE => /\ \A f \in spare : f.at < now
                       /\ status # NOFILE => status.at < now
                       /\ bak # NOFILE => bak.at < now

\* The leftovers alone would give a restart an acceptable document.
SpareGood ==
    /\ \A f \in spare :
          f.doc # TORN /\ (\A g \in spare : g.doc # TORN => g.at <= f.at) => f.doc \in Progress
    /\ (\A f \in spare : f.doc = TORN) => EmptyDoc \in Progress

\* The status file has just been parked.
JustParked == spc \in {"install", "undo"} /\ bak # NOFILE

\* What a load would find, wherever the process is killed.
ProgressOK ==
    ~cut =>
        /\ spc \notin {"out", "load"} => mem \in Progress
        /\ status # NOFILE => status.doc \in Progress
        /\ status = NOFILE /\ JustParked => bak.doc \in Progress
        /\ status = NOFILE /\ ~JustParked => SpareGood
        /\ status = NOFILE /\ bak # NOFILE /\ tmp = NOFILE =>
              \E f \in spare : f.doc # TORN /\ f.at > bak.at

CkptInv == CheckpointTypeOK /\ PlaceOK /\ AgesOK /\ ProgressOK

\* The process ends, however it comes to that.
Quit == /\ Abandon
        /\ UNCHANGED <<status, now, last, tried, cut>>
        /\ trouble' \in 0..MaxTrouble

\* The collector does something else.
Elsewhere == UNCHANGED <<files, mem, spc, last, tried, cut>> /\ trouble' \in 0..MaxTrouble

CkptStep ==
    \/ BeginLoad \/ LoadStep \/ SaveStep \/ Crash \/ PowerCut \/ Quit \/ Elsewhere
    \/ \E d \in Docs : BeginSave(d)

\* There is no file, and nothing was saved.
LEMMA CkptInit == InitCheckpoint => CkptInv
<1>. USE DocAssumption, TroubleAssumption DEF InitCheckpoint
<1>1. InitCheckpoint => CheckpointTypeOK
  <2>. SUFFICES ASSUME InitCheckpoint PROVE CheckpointTypeOK
    OBVIOUS
  <2>1. status \in {NOFILE} /\ tmp \in {NOFILE} /\ bak \in {NOFILE} /\ spare \in SUBSET Files
    OBVIOUS
  <2>2. now \in Nat /\ trouble \in 0..MaxTrouble
    OBVIOUS
  <2>3. mem \in Docs /\ last \in Docs /\ tried \in SUBSET Docs /\ cut \in BOOLEAN
    OBVIOUS
  <2>4. spc = "out"
    OBVIOUS
  <2>. QED BY ONLY <2>1, <2>2, <2>3, <2>4 DEF CheckpointTypeOK
<1>2. InitCheckpoint => PlaceOK /\ AgesOK
  BY DEF PlaceOK, AgesOK
<1>3. InitCheckpoint => ProgressOK
  BY DEF ProgressOK, SpareGood, JustParked, Progress
<1>. QED BY <1>1, <1>2, <1>3 DEF CkptInv

\* A load takes the status file, or the newest leftover.
LEMMA CkptLoad ==
    ASSUME CkptInv, BeginLoad \/ LoadStep
    PROVE  CkptInv' /\ (spc = "load" /\ spc' = "ready" /\ ~cut => mem' \in Progress)
<1>. USE DocAssumption, TroubleAssumption DEF CkptInv, CheckpointTypeOK, files
<1>1. CASE BeginLoad
  BY <1>1 DEF BeginLoad, PlaceOK, AgesOK, ProgressOK, SpareGood, JustParked, Progress
<1>2. CASE LoadStatus
  <2>1. CheckpointTypeOK' /\ PlaceOK' /\ AgesOK'
    BY <1>2 DEF LoadStatus, Loaded, Parses, Files, PlaceOK, AgesOK
  <2>2. ProgressOK' /\ (~cut => mem' \in Progress)
    BY <1>2 DEF LoadStatus, Loaded, Parses, Files, PlaceOK, ProgressOK, Progress
  <2>. QED BY <2>1, <2>2
<1>3. CASE RecoverOrphan
  <2>0. PICK f \in spare :
            /\ spc = "load" /\ spc' = "ready" /\ ~Parses(status)
            /\ f.doc # TORN /\ f # NOFILE
            /\ \A g \in spare : g.doc # TORN => g.at <= f.at
            /\ mem' = f.doc /\ last' = f.doc /\ tried' = {}
            /\ \/ status' = f /\ spare' = spare \ {f} /\ UNCHANGED trouble
               \/ Trouble("recover") /\ status' \in {NOFILE, status} /\ UNCHANGED spare
            /\ UNCHANGED <<tmp, bak, now, cut>>
    <3>1. tmp = NOFILE /\ bak = NOFILE
      BY <1>3 DEF RecoverOrphan, PlaceOK
    <3>2. Candidates = {f \in spare : f.doc # TORN}
      BY <3>1 DEF Candidates, Parses
    <3>. QED BY <1>3, <3>2 DEF RecoverOrphan, NewestOf, Loaded
  <2>1. CheckpointTypeOK' /\ PlaceOK'
    BY <2>0 DEF Files, PlaceOK, Trouble
  <2>2. AgesOK'
    BY <2>0 DEF Files, PlaceOK, AgesOK
  <2>3. ~cut => status = NOFILE /\ f.doc \in Progress
    <3>1. ~cut => status = NOFILE
      BY <2>0 DEF Parses, ProgressOK, Progress
    <3>. QED BY <2>0, <3>1 DEF ProgressOK, SpareGood, JustParked
  <2>4. ProgressOK'
    <3>1. CASE status' = f
      BY <2>0, <3>1 DEF ProgressOK, Progress, JustParked, Files
    <3>2. CASE ~cut /\ status' = NOFILE /\ spare' = spare
      <4>1. \A g \in spare : g.doc # TORN /\ (\A h \in spare : h.doc # TORN => h.at <= g.at) => g = f
        BY <2>0 DEF AgesOK, Files
      <4>. QED BY <2>0, <3>2, <4>1 DEF ProgressOK, Progress, SpareGood, JustParked, PlaceOK
    <3>. QED BY <2>0, <2>3, <3>1, <3>2 DEF ProgressOK
  <2>. QED BY <2>0, <2>1, <2>2, <2>3, <2>4
<1>4. CASE LoadNothing
  <2>1. ~Parses(status) /\ spc = "load" /\ tmp = NOFILE /\ bak = NOFILE
    BY <1>4 DEF LoadNothing, PlaceOK
  <2>2. \A f \in spare : f.doc = TORN
    BY <1>4 DEF LoadNothing, Candidates, Parses, Files
  <2>3. CASE status = NOFILE
    <3>1. ~cut => EmptyDoc \in Progress
      BY <2>1, <2>2, <2>3 DEF ProgressOK, SpareGood, JustParked
    <3>2. CheckpointTypeOK' /\ PlaceOK' /\ AgesOK'
      BY <1>4, <2>1, <2>3 DEF LoadNothing, Loaded, PlaceOK, AgesOK
    <3>3. ProgressOK'
      BY <1>4, <2>1, <2>2, <2>3 DEF LoadNothing, Loaded, ProgressOK, Progress, SpareGood, JustParked
    <3>. QED BY <1>4, <2>3, <3>1, <3>2, <3>3 DEF LoadNothing, Loaded
  <2>4. CASE status # NOFILE
    <3>1. cut
      BY <2>1, <2>4 DEF Parses, ProgressOK, Progress
    <3>2. CheckpointTypeOK' /\ PlaceOK' /\ AgesOK'
      BY <1>4, <2>1, <2>4 DEF LoadNothing, PlaceOK, AgesOK
    <3>. QED BY <1>4, <2>4, <3>1, <3>2 DEF LoadNothing, ProgressOK
  <2>. QED BY <2>3, <2>4
<1>. QED BY <1>1, <1>2, <1>3, <1>4 DEF LoadStep

\* Each operation of a save leaves a document that a load can start from.
LEMMA CkptSave ==
    ASSUME CkptInv, SaveStep
    PROVE  CkptInv'
<1>. USE DocAssumption, TroubleAssumption DEF CkptInv, CheckpointTypeOK, files
<1>1. CASE WriteTmp
  <2>1. CASE tmp' = [at |-> now + 1, doc |-> mem] /\ spc' = AfterWrite /\ UNCHANGED <<spare, trouble>>
    <3>0. spc = "write" /\ now' = now + 1 /\ UNCHANGED <<status, bak, mem, last, tried, cut>>
      BY <1>1 DEF WriteTmp
    <3>1. tmp' \in Files /\ tmp' # NOFILE /\ tmp'.doc = mem /\ tmp'.at = now + 1
      BY <2>1 DEF Files
    <3>2. CheckpointTypeOK' /\ PlaceOK'
      BY <2>1, <3>0, <3>1 DEF AfterWrite, PlaceOK
    <3>3. AgesOK'
      BY <2>1, <3>0, <3>1 DEF AgesOK, Files
    <3>4. ProgressOK'
      BY <2>1, <3>0, <3>1 DEF AfterWrite, ProgressOK, Progress, SpareGood, JustParked
    <3>. QED BY <3>2, <3>3, <3>4
  <2>2. CASE /\ Trouble("write") /\ spare' = spare \cup {[at |-> now + 1, doc |-> TORN]}
             /\ spc' = "ready" /\ UNCHANGED tmp
    <3>0. spc = "write" /\ now' = now + 1 /\ UNCHANGED <<status, bak, mem, last, tried, cut>>
      BY <1>1 DEF WriteTmp
    <3>1. [at |-> now + 1, doc |-> TORN] \in Files /\ tmp = NOFILE
      BY <3>0 DEF Files, PlaceOK
    <3>2. CheckpointTypeOK' /\ PlaceOK'
      BY <2>2, <3>0, <3>1 DEF Trouble, PlaceOK
    <3>3. AgesOK'
      BY <2>2, <3>0, <3>1 DEF AgesOK, Files
    <3>4. ProgressOK'
      BY <2>2, <3>0, <3>1 DEF ProgressOK, Progress, SpareGood, JustParked
    <3>. QED BY <3>2, <3>3, <3>4
  <2>. QED BY <1>1, <2>1, <2>2 DEF WriteTmp
<1>2. ASSUME SaveThrows, tmp # NOFILE, UNCHANGED <<now, mem, last, tried, cut>>,
             Trouble("dropBak") \/ Trouble("park") \/ Trouble("undo"), UNCHANGED <<status, bak>>
      PROVE  CkptInv'
  <2>1. CheckpointTypeOK' /\ PlaceOK'
    BY <1>2 DEF SaveThrows, Trouble, PlaceOK
  <2>2. AgesOK'
    BY <1>2 DEF SaveThrows, AgesOK, PlaceOK, Files
  <2>3. ProgressOK'
    <3>1. ~cut => mem \in Progress /\ Progress' = Progress
      BY <1>2 DEF ProgressOK, PlaceOK, Progress
    <3>2. ~cut => SpareGood'
      BY <1>2, <3>1 DEF SaveThrows, SpareGood, AgesOK, PlaceOK, Files
    <3>3. bak # NOFILE => \E f \in spare' : f.doc # TORN /\ f.at > bak.at
      BY <1>2 DEF SaveThrows, AgesOK, PlaceOK, Files
    <3>. QED BY <1>2, <3>1, <3>2, <3>3 DEF SaveThrows, ProgressOK, JustParked, Progress
  <2>. QED BY <2>1, <2>2, <2>3
<1>3. CASE DropBak
  <2>1. CASE /\ bak' = NOFILE /\ spc' = (IF status # NOFILE THEN "park" ELSE "install")
             /\ UNCHANGED <<tmp, spare, trouble>>
    <3>0. spc = "dropBak" /\ UNCHANGED <<status, now, mem, last, tried, cut>>
      BY <1>3 DEF DropBak
    <3>1. CheckpointTypeOK' /\ PlaceOK' /\ AgesOK'
      BY <2>1, <3>0 DEF PlaceOK, AgesOK
    <3>2. ProgressOK'
      BY <2>1, <3>0 DEF ProgressOK, Progress, SpareGood, JustParked
    <3>. QED BY <3>1, <3>2
  <2>. QED BY <1>2, <1>3, <2>1 DEF DropBak, PlaceOK
<1>4. CASE Park
  <2>1. CASE /\ bak' = status /\ status' = NOFILE /\ spc' = "install"
             /\ UNCHANGED <<tmp, spare, trouble>>
    <3>0. spc = "park" /\ UNCHANGED <<now, mem, last, tried, cut>> /\ status # NOFILE /\ tmp # NOFILE
      BY <1>4 DEF Park, PlaceOK
    <3>1. CheckpointTypeOK' /\ PlaceOK' /\ AgesOK'
      BY <2>1, <3>0 DEF PlaceOK, AgesOK
    <3>2. ProgressOK'
      BY <2>1, <3>0 DEF ProgressOK, Progress, JustParked
    <3>. QED BY <3>1, <3>2
  <2>. QED BY <1>2, <1>4, <2>1 DEF Park, PlaceOK
<1>5. CASE Install
  <2>0. spc = "install" /\ UNCHANGED <<bak, spare, now, mem, cut>> /\ status = NOFILE /\ tmp # NOFILE
    BY <1>5 DEF Install, PlaceOK
  <2>1. CASE status' = tmp /\ tmp' = NOFILE /\ UNCHANGED trouble
    <3>1. \/ bak # NOFILE /\ spc' = "clean" /\ UNCHANGED <<last, tried>>
          \/ bak = NOFILE /\ spc' = "ready" /\ last' = mem /\ tried' = {}
      BY <1>5, <2>0, <2>1 DEF Install, Saved
    <3>2. CheckpointTypeOK' /\ PlaceOK' /\ AgesOK'
      BY <2>0, <2>1, <3>1 DEF PlaceOK, AgesOK, Files
    <3>3. ProgressOK'
      BY <2>0, <2>1, <3>1 DEF ProgressOK, Progress, PlaceOK
    <3>. QED BY <3>2, <3>3
  <2>2. CASE Trouble("install") /\ spc' = "undo" /\ UNCHANGED <<status, tmp, last, tried>>
    <3>1. CheckpointTypeOK' /\ PlaceOK' /\ AgesOK'
      BY <2>0, <2>2 DEF Trouble, PlaceOK, AgesOK
    <3>2. ProgressOK'
      BY <2>0, <2>2 DEF ProgressOK, Progress, SpareGood, JustParked
    <3>. QED BY <3>1, <3>2
  <2>. QED BY <1>5, <2>1, <2>2 DEF Install
<1>6. CASE CleanBak
  <2>0. spc = "clean" /\ UNCHANGED <<status, tmp, spare, now, mem, cut>> /\ status # NOFILE
        /\ status.doc = mem /\ tmp = NOFILE
    BY <1>6 DEF CleanBak, PlaceOK
  <2>1. \/ bak' = NOFILE /\ spc' = "ready" /\ last' = mem /\ tried' = {} /\ UNCHANGED trouble
        \/ Trouble("clean") /\ spc' = "undo" /\ UNCHANGED <<bak, last, tried>>
    BY <1>6 DEF CleanBak, Saved
  <2>2. CheckpointTypeOK' /\ PlaceOK' /\ AgesOK'
    BY <2>0, <2>1 DEF Trouble, PlaceOK, AgesOK
  <2>3. ProgressOK'
    BY <2>0, <2>1 DEF ProgressOK, Progress
  <2>. QED BY <2>2, <2>3
<1>7. CASE Undo
  <2>0. spc = "undo" /\ UNCHANGED <<now, mem, last, tried, cut>>
    BY <1>7 DEF Undo
  <2>1. CASE /\ status = NOFILE /\ bak # NOFILE /\ status' = bak /\ bak' = NOFILE
             /\ spc' = "undoTmp" /\ UNCHANGED <<tmp, spare, trouble>>
    <3>1. CheckpointTypeOK' /\ PlaceOK' /\ AgesOK'
      BY <2>0, <2>1 DEF PlaceOK, AgesOK
    <3>2. ProgressOK'
      BY <2>0, <2>1 DEF ProgressOK, Progress, JustParked
    <3>. QED BY <3>1, <3>2
  <2>2. CASE /\ ~(status = NOFILE /\ bak # NOFILE) /\ spc' = "undoTmp"
             /\ UNCHANGED <<status, bak, tmp, spare, trouble>>
    <3>1. CheckpointTypeOK' /\ PlaceOK' /\ AgesOK'
      BY <2>0, <2>2 DEF PlaceOK, AgesOK
    <3>2. ProgressOK'
      BY <2>0, <2>2 DEF ProgressOK, Progress, SpareGood, JustParked
    <3>. QED BY <3>1, <3>2
  <2>. QED BY <1>2, <1>7, <2>0, <2>1, <2>2 DEF Undo, PlaceOK
<1>8. CASE UndoTmp
  <2>0. spc = "undoTmp" /\ tmp' = NOFILE /\ spc' = "ready"
        /\ UNCHANGED <<status, bak, now, mem, last, tried, cut>>
    BY <1>8 DEF UndoTmp
  <2>1. CASE UNCHANGED <<spare, trouble>>
    <3>1. CheckpointTypeOK' /\ PlaceOK' /\ AgesOK'
      BY <2>0, <2>1 DEF PlaceOK, AgesOK
    <3>2. ProgressOK'
      BY <2>0, <2>1 DEF ProgressOK, Progress, SpareGood, JustParked, PlaceOK
    <3>. QED BY <3>1, <3>2
  <2>2. CASE tmp # NOFILE /\ Trouble("undoTmp") /\ spare' = spare \cup {tmp}
    <3>1. CheckpointTypeOK' /\ PlaceOK'
      BY <2>0, <2>2 DEF Trouble, PlaceOK
    <3>2. AgesOK'
      BY <2>0, <2>2 DEF AgesOK, PlaceOK, Files
    <3>3. ~cut => mem \in Progress /\ Progress' = Progress
      BY <2>0 DEF ProgressOK, Progress
    <3>4. ~cut => SpareGood'
      BY <2>0, <2>2, <3>3 DEF SpareGood, AgesOK, PlaceOK, Files
    <3>5. ProgressOK'
      BY <2>0, <2>2, <3>3, <3>4 DEF ProgressOK, JustParked, PlaceOK, Progress
    <3>. QED BY <3>1, <3>2, <3>5
  <2>. QED BY <1>8, <2>1, <2>2 DEF UndoTmp
<1>. QED BY <1>1, <1>3, <1>4, <1>5, <1>6, <1>7, <1>8 DEF SaveStep

\* However the process ends, what it leaves is as good as the status file.
LEMMA CkptEnds ==
    ASSUME CkptInv, Crash \/ PowerCut \/ Quit
    PROVE  CkptInv'
<1>. USE DocAssumption, TroubleAssumption DEF CkptInv, CheckpointTypeOK, files
<1>1. ASSUME Abandon, UNCHANGED <<now, last, tried>>, trouble' \in 0..MaxTrouble,
             \/ UNCHANGED <<status, cut>>
             \/ status # NOFILE /\ status' = [status EXCEPT !.doc = TORN] /\ cut' = TRUE
      PROVE  CkptInv'
  <2>0. /\ spare' = spare \cup ({tmp, bak} \ {NOFILE}) /\ tmp' = NOFILE /\ bak' = NOFILE
        /\ mem' = EmptyDoc /\ spc' = "out"
    BY <1>1 DEF Abandon
  <2>1. CheckpointTypeOK' /\ PlaceOK'
    BY <1>1, <2>0 DEF PlaceOK, Files
  <2>2. AgesOK'
    <3>1. status # NOFILE => status' # NOFILE /\ status'.at = status.at
      BY <1>1 DEF Files
    <3>2. status = NOFILE => status' = NOFILE
      BY <1>1
    <3>. QED BY <1>1, <2>0, <3>1, <3>2 DEF AgesOK, PlaceOK, Files
  <2>3. ASSUME ~cut', status = NOFILE
        PROVE  SpareGood'
    <3>1. UNCHANGED <<status, cut>> /\ Progress' = Progress /\ ~cut
      BY <1>1, <2>3 DEF Progress
    <3>2. CASE tmp # NOFILE
      <4>1. tmp.doc \in Progress /\ tmp.doc # TORN
        BY <3>1, <3>2 DEF ProgressOK, PlaceOK, Files
      <4>2. \A f \in spare' : f.at <= tmp.at /\ (f.at = tmp.at => f = tmp)
        BY <2>0, <3>2 DEF AgesOK, PlaceOK, Files
      <4>3. tmp \in spare'
        BY <2>0, <3>2
      <4>4. \A f \in spare' : tmp.at <= f.at => f = tmp
        <5>1. tmp.at \in Nat /\ \A f \in spare' : f.at \in Nat
          BY <2>1, <3>2 DEF Files
        <5>. QED BY ONLY <4>2, <5>1
      <4>. QED BY <3>1, <4>1, <4>3, <4>4 DEF SpareGood
    <3>3. CASE tmp = NOFILE
      <4>1. SpareGood
        BY <2>3, <3>1, <3>3 DEF ProgressOK, JustParked, PlaceOK
      <4>2. CASE bak = NOFILE
        BY <2>0, <3>1, <3>3, <4>1, <4>2 DEF SpareGood
      <4>3. CASE bak # NOFILE
        <5>1. PICK f \in spare : f.doc # TORN /\ f.at > bak.at
          BY <2>3, <3>1, <3>3, <4>3 DEF ProgressOK
        <5>2. spare' = spare \cup {bak}
          BY <2>0, <3>3, <4>3
        <5>3. \A g \in spare' :
                  g.doc # TORN /\ (\A h \in spare' : h.doc # TORN => h.at <= g.at) => g \in spare
          BY <5>1, <5>2, <4>3 DEF Files
        <5>. QED BY <3>1, <4>1, <5>1, <5>2, <5>3 DEF SpareGood
      <4>. QED BY <4>2, <4>3
    <3>. QED BY <3>2, <3>3
  <2>4. ProgressOK'
    <3>1. ~cut' => UNCHANGED <<status, cut>> /\ Progress' = Progress
      BY <1>1 DEF Progress
    <3>. QED BY <2>0, <2>3, <3>1 DEF ProgressOK, JustParked
  <2>. QED BY <2>1, <2>2, <2>4
<1>2. CASE Crash /\ spc = "write"
  <2>0. /\ spare' = (spare \cup {bak, [at |-> now + 1, doc |-> TORN]}) \ {NOFILE}
        /\ now' = now + 1 /\ tmp' = NOFILE /\ bak' = NOFILE /\ mem' = EmptyDoc /\ spc' = "out"
        /\ UNCHANGED <<status, last, tried, cut>> /\ trouble' \in 0..MaxTrouble
        /\ tmp = NOFILE
    BY <1>2 DEF Crash, Trouble, PlaceOK
  <2> DEFINE torn == [at |-> now + 1, doc |-> TORN]
  <2>1. torn \in Files /\ torn # NOFILE /\ torn.at = now + 1 /\ torn.doc = TORN
    BY DEF Files
  <2>2. /\ torn \in spare'
        /\ \A f \in spare' : f \in spare \/ f = torn \/ (f = bak /\ bak # NOFILE)
        /\ spare \subseteq spare'
        /\ bak # NOFILE => bak \in spare'
    BY <2>0, <2>1
  <2>. HIDE DEF torn
  <2>3. CheckpointTypeOK' /\ PlaceOK'
    BY <2>0, <2>1, <2>2 DEF PlaceOK, Files
  <2>4. AgesOK'
    BY <2>0, <2>1, <2>2 DEF AgesOK, Files
  <2>5. ProgressOK'
    <3>1. ASSUME ~cut, status = NOFILE
          PROVE  SpareGood'
      <4>1. SpareGood
        BY <1>2, <3>1 DEF ProgressOK, JustParked
      <4>2. CASE bak = NOFILE
        BY <2>0, <2>1, <2>2, <4>1, <4>2 DEF SpareGood, Progress
      <4>3. CASE bak # NOFILE
        <5>1. PICK f \in spare : f.doc # TORN /\ f.at > bak.at
          BY <2>0, <3>1, <4>3 DEF ProgressOK
        <5>2. \A g \in spare' :
                  g.doc # TORN /\ (\A h \in spare' : h.doc # TORN => h.at <= g.at) => g \in spare
          BY <2>1, <2>2, <5>1, <4>3 DEF Files
        <5>. QED BY <2>0, <2>2, <4>1, <5>1, <5>2 DEF SpareGood, Progress
      <4>. QED BY <4>2, <4>3
    <3>. QED BY <2>0, <3>1 DEF ProgressOK, JustParked, Progress
  <2>. QED BY <2>3, <2>4, <2>5
<1>3. CASE Crash /\ spc # "write"
  BY <1>1, <1>3 DEF Crash, Trouble
<1>4. CASE PowerCut
  BY <1>1, <1>4 DEF PowerCut, Trouble
<1>5. CASE Quit
  BY <1>1, <1>5 DEF Quit
<1>. QED BY <1>2, <1>3, <1>4, <1>5

\* Every step of a collector, as far as its status file is concerned.
LEMMA CkptPreserved ==
    ASSUME CkptInv, CkptStep
    PROVE  CkptInv' /\ (spc = "load" /\ spc' = "ready" /\ ~cut => mem' \in Progress)
<1>1. CASE Elsewhere
  BY <1>1 DEF Elsewhere, files, CkptInv, CheckpointTypeOK, PlaceOK, AgesOK, ProgressOK, SpareGood,
              JustParked, Progress
<1>2. ASSUME NEW d \in Docs, BeginSave(d)
      PROVE  CkptInv' /\ spc # "load"
  BY <1>2 DEF BeginSave, files, CkptInv, CheckpointTypeOK, PlaceOK, AgesOK, ProgressOK, SpareGood,
              JustParked, Progress
<1>3. CASE SaveStep
  <2>1. spc # "load"
    BY <1>3 DEF SaveStep, WriteTmp, DropBak, Park, Install, CleanBak, Undo, UndoTmp
  <2>. QED BY <1>3, <2>1, CkptSave
<1>4. CASE Crash \/ PowerCut \/ Quit
  <2>1. spc' # "ready"
    BY <1>4 DEF Crash, PowerCut, Quit, Abandon
  <2>. QED BY <1>4, <2>1, CkptEnds
<1>5. CASE BeginLoad \/ LoadStep
  BY <1>5, CkptLoad
<1>. QED BY <1>1, <1>2, <1>3, <1>4, <1>5 DEF CkptStep


(***************************************************************************)
(* The collector: its types, and what its locals hold at each point.       *)
(***************************************************************************)
Writing == {"fetch", "compare", "park", "install", "drop", "unpark", "putback", "failed", "settle",
            "gapMoved", "gapFailed"}

LocalsOK ==
    /\ pc \in Writing => cur \in Tasks /\ slot \in Slots
    /\ aside # NONE => pc \in {"install", "drop", "unpark", "putback"}
    /\ pc = "drop" => aside # NONE
    /\ pc = "install" => disk[slot] = NONE
    /\ pc = "unpark" => disk[slot] = NONE \/ aside # NONE
    /\ pc = "putback" => disk[slot] = NONE
    /\ pc \in {"out", "load", "classify", "mark"} => cur = NONE
    /\ pc = "relocate" /\ cur # NONE => cur \in todo /\ ManualFirst
    /\ pc = "mark" \/ (pc \in {"save", "saved"} /\ cur = NONE) =>
          \A t \in todo : class[t] # "RUN"

CollectInv == CkptInv /\ TypeOK /\ LocalsOK

LEMMA CollectInit == Init => CollectInv
<1>. SUFFICES ASSUME Init PROVE CollectInv
  OBVIOUS
<1>1. CkptInv
  BY CkptInit DEF Init
<1>2. TypeOK
  <2>1. CheckpointTypeOK
    BY <1>1 DEF CkptInv
  <2>2. 0 \in 0..MaxRuns
    BY CollectAssumption
  <2>. QED BY <2>1, <2>2, CollectAssumption DEF Init, TypeOK, NoClass
<1>3. LocalsOK
  BY DEF Init, LocalsOK, Writing
<1>. QED BY <1>1, <1>2, <1>3 DEF CollectInv

\* A record of today goes into the document.
LEMMA PersistSaves ==
    ASSUME CollectInv, NEW t \in Tasks, NEW r \in Records, Persist(t, r)
    PROVE  CkptStep
<1>1. [mem EXCEPT ![t] = r] \in Docs
  BY DocsAssumption DEF CollectInv, TypeOK, CheckpointTypeOK
<1>. QED BY <1>1 DEF Persist, CkptStep

\* What the collector does to its status file is a step of a load or a save,
\* the end of the process, or nothing.
LEMMA CollectCkpt ==
    ASSUME CollectInv, Next
    PROVE  CkptStep
<1>. USE CollectAssumption, TroubleAssumption
<1>0. trouble \in 0..MaxTrouble /\ \A x : Trouble(x) => trouble' \in 0..MaxTrouble
  BY DEF CollectInv, TypeOK, CheckpointTypeOK, Trouble
<1>a. Quiet => Elsewhere
  BY <1>0 DEF Quiet, Elsewhere, ckptVars
<1>b. \A x : Fails(x) => Elsewhere
  BY <1>0 DEF Fails, Elsewhere
<1>1. CASE StartRun \/ Load \/ Save \/ Killed
  BY <1>1 DEF StartRun, Load, Save, Killed, CkptStep
<1>2. CASE Classify \/ Relocate \/ Continue \/ SkipReusable \/ PickTask \/ EndBatch \/ Fetch
  BY <1>2, <1>a DEF Classify, Relocate, RelocateManual, RelocateAbsent, RelocateAbsentManual,
        EndRelocate, Continue, SkipReusable, PickTask, EndBatch, Fetch, CkptStep
<1>3. CASE Write \/ MoveGap \/ Tear
  BY <1>3, <1>a, <1>b DEF Write, Unchanged, StagePack, ParkPack, InstallPack, DropAside, Unpark,
        PutBack, Tear, MoveGap, CkptStep
<1>4. CASE LookupFails \/ RelocateThrows \/ SaveStops \/ Finish
  <2>1. CASE LookupFails
    BY <2>1, <1>0 DEF LookupFails, GiveUp, Quit, CkptStep
  <2>2. CASE RelocateThrows
    BY <2>2, <1>0 DEF RelocateThrows, GiveUp, Quit, CkptStep
  <2>3. CASE SaveStops
    BY <2>3, <1>0 DEF SaveStops, GiveUp, Quit, Elsewhere, CkptStep
  <2>4. CASE Finish
    BY <2>4, <1>0 DEF Finish, Exit, Quit, CkptStep
  <2>. QED BY <1>4, <2>1, <2>2, <2>3, <2>4
<1>5. CASE MarkOne
  <2>1. PICK t \in todo : Quiet \/ Persist(t, Excluded(class[t]))
    BY <1>5 DEF MarkOne
  <2>2. t \in Tasks /\ class[t] \in Reasons
    BY <1>5, <2>1 DEF MarkOne, CollectInv, TypeOK, LocalsOK
  <2>3. Excluded(class[t]) \in Records
    BY <2>2 DEF Excluded, Records
  <2>. QED BY <2>1, <2>2, <2>3, <1>a, PersistSaves DEF CkptStep
<1>6. CASE RecordFailure \/ GapConflict
  <2>1. Persist(cur, Plain("FAILED"))
    BY <1>6 DEF RecordFailure, GapConflict
  <2>2. cur \in Tasks /\ Plain("FAILED") \in Records
    BY <1>6 DEF RecordFailure, GapConflict, CollectInv, LocalsOK, Writing, Plain, Records
  <2>. QED BY <2>1, <2>2, PersistSaves
<1>7. CASE RecordOutcome
  <2>1. cur \in Tasks /\ job \in Jobs
    BY <1>7 DEF RecordOutcome, CollectInv, TypeOK, LocalsOK, Writing, NoJob
  <2>2. Plain("PARTIAL") \in Records /\ (job.kind = "clean" => Success(job) \in Records)
    BY <2>1 DEF Plain, Success, Records, Jobs
  <2>. QED BY <1>7, <2>1, <2>2, PersistSaves DEF RecordOutcome
<1>8. CASE RecordGap
  <2>1. cur \in Tasks /\ Excluded("PHYSICAL_TABLE_NOT_FOUND") \in Records
    BY <1>8 DEF RecordGap, CollectInv, LocalsOK, Writing, Excluded, Records, Reasons
  <2>. QED BY <1>8, <2>1, PersistSaves DEF RecordGap
<1>9. CASE Edit
  BY <1>9, <1>0 DEF Edit, Elsewhere, CkptStep
<1>. QED
  BY <1>1, <1>2, <1>3, <1>4, <1>5, <1>6, <1>7, <1>8, <1>9 DEF Next, Step, Outcome


\* The types of the collector, without those of the checkpoint.
CollectorTypes ==
    /\ disk \in [Slots -> Packs \cup {NONE}]
    /\ manual \in [Tasks -> Packs \cup {NONE}]
    /\ absent \in [Tasks -> Packs \cup {NONE}]
    /\ aside \in Packs \cup {NONE} /\ staged \in Packs \cup {NONE}
    /\ litter \in SUBSET (Slots \X Packs)
    /\ pc \in {"out", "load", "classify", "relocate", "mark", "save", "saved", "batch", "done",
               "fetch", "compare", "park", "install", "drop", "unpark", "putback",
               "failed",
               "settle", "gapMoved", "gapFailed"}
    /\ force \in BOOLEAN
    /\ class \in [Tasks -> Reasons \cup {"RUN"}]
    /\ moved \in SUBSET Tasks /\ todo \in SUBSET Tasks
    /\ cur \in Tasks \cup {NONE} /\ slot \in Slots \cup {NONE}
    /\ job \in Jobs \cup {NoJob}
    /\ full \in BOOLEAN /\ runs \in 0..MaxRuns
    /\ before \in Packs \cup {NONE} /\ worn \in BOOLEAN
    /\ newest \in [Tasks -> Versions \cup {NONE}]
    /\ calm \in BOOLEAN

LEMMA TypeSplits == TypeOK <=> CheckpointTypeOK /\ CollectorTypes
BY DEF TypeOK, CollectorTypes

\* What a process leaves behind when it ends.
LEMMA LeaveTypes ==
    ASSUME CollectorTypes, LocalsOK, Leave,
           UNCHANGED <<disk, manual, absent, full, runs, newest>>, calm' \in BOOLEAN
    PROVE  CollectorTypes' /\ LocalsOK'
<1>1. litter' \in SUBSET (Slots \X Packs)
  BY DEF Leave, LocalsOK, Writing, CollectorTypes
<1>2. CollectorTypes'
  BY <1>1, CollectAssumption DEF Leave, CollectorTypes, NoClass
<1>3. LocalsOK'
  BY DEF Leave, LocalsOK, Writing
<1>. QED BY <1>2, <1>3

\* The run up to its batch: load, classify, relocate, record the exclusions.
LEMMA CollectBegins ==
    ASSUME CollectInv,
           \/ StartRun \/ Load \/ Classify \/ Relocate \/ MarkOne \/ Save
           \/ Continue \/ SkipReusable
    PROVE  CollectorTypes' /\ LocalsOK'
<1>0. CollectorTypes /\ LocalsOK /\ mem \in Docs
  BY TypeSplits DEF CollectInv, CheckpointTypeOK
<1>. USE CollectAssumption, <1>0 DEF CollectorTypes, packs, locals
<1>1. CASE StartRun
  BY <1>1 DEF StartRun, LocalsOK, Writing
<1>2. CASE Load
  <2>1. pc' \in {"classify", "out"} /\ pc = "load"
    BY <1>2 DEF Load
  <2>2. calm' \in BOOLEAN /\ force' \in BOOLEAN
    BY <1>2 DEF Load
  <2>. QED BY <1>2, <2>1, <2>2 DEF Load, LocalsOK, Writing
<1>3. CASE Classify
  <2>1. class' \in [Tasks -> Reasons \cup {"RUN"}]
    <3>1. \A t \in Tasks : KnownExcluded(t) => mem[t].why \in Reasons
      BY DocsAssumption DEF KnownExcluded, Records
    <3>2. PICK c \in [Tasks -> Classes] :
              class' = [t \in Tasks |-> IF KnownExcluded(t) THEN mem[t].why ELSE c[t]]
      BY <1>3 DEF Classify
    <3>. QED BY <3>1, <3>2 DEF Reasons
  <2>. QED BY <1>3, <2>1 DEF Classify, Quiet, LocalsOK, Writing
<1>4. CASE RelocateManual
  <2>1. cur = NONE
    BY <1>4 DEF RelocateManual, LocalsOK, ManualFirst
  <2>. QED BY <1>4, <2>1 DEF RelocateManual, Quiet, HasPack, LocalsOK, Writing, Slots
<1>5. CASE RelocateAbsent
  BY <1>5 DEF RelocateAbsent, Quiet, HasPack, LocalsOK, Writing, Slots, ManualFirst
<1>6. CASE RelocateAbsentManual
  BY <1>6 DEF RelocateAbsentManual, Quiet, HasPack, LocalsOK, Writing
<1>7. CASE EndRelocate
  BY <1>7 DEF EndRelocate, Quiet, LocalsOK, Writing
<1>8. CASE MarkOne
  <2>1. PICK t \in todo :
            /\ pc = "mark" /\ todo' = todo \ {t}
            /\ pc' \in {"mark", "save"} /\ calm' = calm
            /\ UNCHANGED <<packs, force, class, moved, cur, slot, job, full, runs, before, worn, newest>>
    BY <1>8 DEF MarkOne, Quiet, Persist
  <2>. QED BY <2>1 DEF LocalsOK, Writing
<1>9. CASE Save
  <2>1. pc = "save" /\ pc' \in {"saved", "save"} /\ calm' \in BOOLEAN
    BY <1>9 DEF Save
  <2>. QED BY <1>9, <2>1 DEF Save, LocalsOK, Writing
<1>10. CASE Continue
  BY <1>10 DEF Continue, Quiet, LocalsOK, Writing
<1>11. CASE SkipReusable
  BY <1>11 DEF SkipReusable, Quiet, LocalsOK, Writing
<1>. QED
  BY <1>1, <1>2, <1>3, <1>4, <1>5, <1>6, <1>7, <1>8, <1>9, <1>10, <1>11 DEF Relocate

\* The batch: fetch the evidence of a task, write its packs, record.
LEMMA CollectWorks ==
    ASSUME CollectInv, PickTask \/ EndBatch \/ Fetch \/ Write \/ Outcome \/ Tear
    PROVE  CollectorTypes' /\ LocalsOK'
<1>0. CollectorTypes /\ LocalsOK
  BY TypeSplits DEF CollectInv
<1>. USE CollectAssumption, <1>0 DEF CollectorTypes, packs, locals
<1>a. Want \in Versions \cup {NONE}
  BY DEF Want, Jobs, NoJob
<1>b. ASSUME NextWrite, pc \in Writing
      PROVE  /\ pc' \in {"compare", "settle"} /\ slot' \in Slots
             /\ before' \in Packs \cup {NONE} /\ worn' \in BOOLEAN
  <2>1. slot \in Slots /\ TABLE \in Slots
    BY <1>b DEF LocalsOK, Slots
  <2>2. CASE slot' = TABLE /\ before' = disk[TABLE] /\ worn' = FALSE /\ pc' = "compare"
    BY <2>1, <2>2
  <2>3. CASE pc' = "settle" /\ UNCHANGED <<slot, before, worn>>
    BY <2>1, <2>3
  <2>. QED BY <1>b, <2>2, <2>3 DEF NextWrite
<1>1. CASE PickTask
  <2>1. PICK t \in todo :
            /\ cur' = t /\ slot' = t /\ todo' = todo \ {t}
            /\ before' = disk[t] /\ worn' = FALSE
    BY <1>1 DEF PickTask
  <2>2. t \in Tasks /\ t \in Slots
    BY <2>1 DEF Slots
  <2>3. /\ pc = "batch" /\ pc' = "fetch" /\ calm' = calm
        /\ UNCHANGED <<packs, force, class, moved, job, full, runs, newest>>
    BY <1>1 DEF PickTask, Quiet
  <2>4. disk[t] \in Packs \cup {NONE}
    BY <2>2
  <2>. QED BY <2>1, <2>2, <2>3, <2>4 DEF LocalsOK, Writing
<1>2. CASE EndBatch
  BY <1>2 DEF EndBatch, Quiet, LocalsOK, Writing
<1>3. CASE Fetch
  BY <1>3 DEF Fetch, Quiet, LocalsOK, Writing
<1>4. CASE Unchanged
  <2>1. pc = "compare"
    BY <1>4 DEF Unchanged
  <2>. QED BY <1>4, <1>b, <2>1 DEF Unchanged, Quiet, LocalsOK, Writing
<1>5. CASE StagePack
  <2>1. Whole(Want) \in Packs
    BY <1>a DEF Whole, Packs
  <2>2. /\ pc = "compare" /\ pc' \in {"park", "failed"} /\ staged' \in {Whole(Want), staged}
        /\ calm' \in BOOLEAN
        /\ UNCHANGED <<disk, manual, absent, aside, litter, locals, full, runs, before, worn, newest>>
    BY <1>5 DEF StagePack, Quiet, Fails
  <2>. QED BY <2>1, <2>2 DEF LocalsOK, Writing
<1>6. CASE ParkPack
  <2>0. /\ pc = "park" /\ calm' \in BOOLEAN /\ slot \in Slots /\ cur \in Tasks /\ aside = NONE
        /\ UNCHANGED <<manual, absent, litter, locals, full, runs, before, worn, newest>>
    BY <1>6 DEF ParkPack, Quiet, Fails, LocalsOK, Writing
  <2>1. CASE disk[slot] = NONE
    BY <1>6, <2>0, <2>1 DEF ParkPack, LocalsOK, Writing
  <2>2. CASE /\ disk[slot] # NONE /\ aside' = disk[slot] /\ disk' = [disk EXCEPT ![slot] = NONE]
             /\ pc' = "install" /\ UNCHANGED staged
    BY <2>0, <2>2 DEF LocalsOK, Writing
  <2>3. CASE staged' = NONE /\ pc' = "failed" /\ UNCHANGED <<disk, aside>>
    BY <2>0, <2>3 DEF LocalsOK, Writing
  <2>. QED BY <1>6, <2>1, <2>2, <2>3 DEF ParkPack
<1>7. CASE InstallPack
  <2>0. /\ pc = "install" /\ calm' \in BOOLEAN /\ slot \in Slots /\ cur \in Tasks
        /\ UNCHANGED <<manual, absent, aside, litter, force, class, moved, todo, cur, job, full, runs>>
    BY <1>7 DEF InstallPack, Quiet, Fails, LocalsOK, Writing
  <2>1. CASE /\ disk' = [disk EXCEPT ![slot] = staged] /\ staged' = NONE /\ newest' = Installed
             /\ IF aside = NONE THEN NextWrite ELSE pc' = "drop" /\ UNCHANGED <<slot, before, worn>>
    <3>1. Installed \in [Tasks -> Versions \cup {NONE}]
      BY <1>a DEF Installed
    <3>2. CASE aside = NONE
      BY <1>b, <2>0, <2>1, <3>1, <3>2 DEF LocalsOK, Writing
    <3>3. CASE aside # NONE
      BY <2>0, <2>1, <3>1, <3>3 DEF LocalsOK, Writing
    <3>. QED BY <3>2, <3>3
  <2>2. CASE pc' = "unpark" /\ UNCHANGED <<disk, staged, slot, before, worn, newest>>
    BY <2>0, <2>2 DEF LocalsOK, Writing
  <2>. QED BY <1>7, <2>1, <2>2 DEF InstallPack
<1>8. CASE DropAside
  <2>0. /\ pc = "drop" /\ calm' \in BOOLEAN /\ slot \in Slots /\ cur \in Tasks /\ aside \in Packs
        /\ UNCHANGED <<disk, manual, absent, staged, litter, force, class, moved, todo, cur, job,
                       full, runs, newest>>
    BY <1>8 DEF DropAside, Quiet, Fails, LocalsOK, Writing
  <2>1. CASE aside' = NONE /\ NextWrite
    BY <1>b, <2>0, <2>1 DEF LocalsOK, Writing
  <2>2. CASE pc' = "unpark" /\ UNCHANGED <<aside, slot, before, worn>>
    BY <2>0, <2>2 DEF LocalsOK, Writing
  <2>. QED BY <1>8, <2>1, <2>2 DEF DropAside
<1>t. TakenBack \in [Tasks -> Versions \cup {NONE}]
  BY DEF TakenBack, Packs
<1>9. CASE Unpark
  <2>0. /\ pc = "unpark" /\ calm' \in BOOLEAN /\ slot \in Slots /\ cur \in Tasks
        /\ disk[slot] = NONE \/ aside # NONE
        /\ UNCHANGED <<manual, absent, locals, full, runs, before, worn>>
    BY <1>9 DEF Unpark, Quiet, Fails, LocalsOK, Writing
  <2>1. CASE /\ disk' = [disk EXCEPT ![slot] = NONE] /\ newest' = TakenBack
             /\ pc' = "putback" /\ UNCHANGED <<aside, litter, staged>>
    BY <1>t, <2>0, <2>1 DEF LocalsOK, Writing
  <2>2. CASE LeftAside /\ UNCHANGED <<disk, newest>>
    <3>1. litter' \in SUBSET (Slots \X Packs)
      BY <2>0, <2>2 DEF LeftAside
    <3>. QED BY <2>0, <2>2, <3>1 DEF LeftAside, LocalsOK, Writing
  <2>. QED BY <1>9, <2>1, <2>2 DEF Unpark
<1>12. CASE PutBack
  <2>0. /\ pc = "putback" /\ pc' = "failed" /\ calm' \in BOOLEAN /\ slot \in Slots /\ cur \in Tasks
        /\ aside' = NONE /\ staged' = NONE
        /\ UNCHANGED <<manual, absent, locals, full, runs, before, worn, newest>>
    BY <1>12 DEF PutBack, LeftAside, Quiet, Fails, LocalsOK, Writing
  <2>1. disk' \in [Slots -> Packs \cup {NONE}]
    BY <1>12 DEF PutBack, Restored
  <2>2. litter' \in SUBSET (Slots \X Packs)
    BY <1>12, <2>0 DEF PutBack, LeftAside
  <2>. QED BY <2>0, <2>1, <2>2 DEF LocalsOK, Writing
<1>13. CASE Tear
  <2>0. /\ pc \in {"drop", "unpark"} /\ UNCHANGED <<pc, calm, cur, slot>> /\ slot \in Slots
        /\ cur \in Tasks
        /\ UNCHANGED <<manual, absent, staged, litter, locals, full, runs, before>>
    BY <1>13 DEF Tear, Quiet, LocalsOK, Writing
  <2>1. \A p \in Packs : TornOf(p) \subseteq Packs
    BY DEF TornOf, Packs
  <2>2. CASE /\ pc = "drop" /\ aside' \in TornOf(aside) /\ worn' = TRUE /\ UNCHANGED <<disk, newest>>
    <3>1. aside' \in Packs
      BY <2>1, <2>2 DEF LocalsOK
    <3>. QED BY <2>0, <2>2, <3>1 DEF LocalsOK, Writing
  <2>3. CASE /\ pc = "unpark" /\ disk[slot] # NONE
             /\ \E p \in TornOf(disk[slot]) : disk' = [disk EXCEPT ![slot] = p]
             /\ newest' = TakenBack /\ UNCHANGED <<aside, worn>>
    <3>1. PICK p \in TornOf(disk[slot]) : disk' = [disk EXCEPT ![slot] = p]
      BY <2>3
    <3>2. p \in Packs
      BY <2>0, <2>1, <2>3, <3>1
    <3>. QED BY <1>t, <2>0, <2>3, <3>1, <3>2 DEF LocalsOK, Writing
  <2>. QED BY <1>13, <2>2, <2>3 DEF Tear
<1>10. CASE RecordFailure \/ RecordOutcome \/ RecordGap \/ GapConflict
  <2>1. /\ pc \in Writing /\ pc' = "save" /\ slot' = NONE /\ job' = NoJob /\ before' = NONE /\ worn' = FALSE
        /\ cur \in Tasks
        /\ UNCHANGED <<packs, force, class, moved, todo, cur, full, runs, newest, calm>>
    BY <1>10 DEF RecordFailure, RecordOutcome, RecordGap, GapConflict, Persist, Clear, LocalsOK, Writing
  <2>2. aside = NONE
    BY <1>10 DEF RecordFailure, RecordOutcome, RecordGap, GapConflict, LocalsOK
  <2>. QED BY <2>1, <2>2 DEF LocalsOK, Writing
<1>11. CASE MoveGap
  BY ZenonT(60), <1>11 DEF MoveGap, Quiet, Fails, LocalsOK, Writing, Slots
<1>. QED
  BY <1>1, <1>2, <1>3, <1>4, <1>5, <1>6, <1>7, <1>8, <1>9, <1>10, <1>11, <1>12, <1>13
     DEF Write, Outcome

\* The run ends, or somebody edits a pack between two runs.
LEMMA CollectStops ==
    ASSUME CollectInv,
           LookupFails \/ RelocateThrows \/ SaveStops \/ Finish \/ Killed \/ Edit
    PROVE  CollectorTypes' /\ LocalsOK'
<1>0. CollectorTypes /\ LocalsOK
  BY TypeSplits DEF CollectInv
<1>1. CASE LookupFails \/ RelocateThrows \/ Finish \/ Killed \/ (SaveStops /\ cur = NONE)
  <2>1. /\ Leave /\ calm' \in BOOLEAN
        /\ UNCHANGED <<disk, manual, absent, runs, newest>>
    BY <1>0, <1>1 DEF LookupFails, RelocateThrows, Finish, Killed, SaveStops, GiveUp, CollectorTypes
  <2>2. CASE UNCHANGED full
    BY <1>0, <2>1, <2>2, LeaveTypes
  <2>3. CASE SaveStops /\ cur = NONE
    <3>1. litter' \in SUBSET (Slots \X Packs)
      BY <1>0, <2>1 DEF Leave, LocalsOK, Writing, CollectorTypes
    <3>2. full' = TRUE
      BY <2>3 DEF SaveStops
    <3>3. CollectorTypes'
      BY <1>0, <2>1, <3>1, <3>2, CollectAssumption DEF Leave, CollectorTypes, NoClass
    <3>4. LocalsOK'
      BY <2>1 DEF Leave, LocalsOK, Writing
    <3>. QED BY <3>3, <3>4
  <2>. QED BY <1>1, <2>2, <2>3 DEF LookupFails, RelocateThrows, Finish, Killed
<1>2. CASE SaveStops /\ cur # NONE
  <2>. USE <1>0 DEF CollectorTypes
  <2>. QED BY ZenonT(60), <1>2, CollectAssumption DEF SaveStops, LocalsOK, Writing
<1>3. CASE Edit
  <2>. USE <1>0 DEF CollectorTypes, locals
  <2>0. pc = "out" /\ UNCHANGED <<manual, absent, aside, staged, litter, pc, locals, full, runs, before, worn, calm>>
    BY <1>3 DEF Edit
  <2>1. PICK s \in Slots :
            /\ disk[s] # NONE
            /\ \/ disk' = [disk EXCEPT ![s].whole = FALSE]
               \/ disk' = [disk EXCEPT ![s] = NONE]
            /\ newest' = [t \in Tasks |-> IF t = s THEN NONE ELSE newest[t]]
    BY <1>3 DEF Edit
  <2>2. disk' \in [Slots -> Packs \cup {NONE}]
    BY ZenonT(60), <2>1 DEF Packs
  <2>3. newest' \in [Tasks -> Versions \cup {NONE}]
    BY <2>1
  <2>. QED BY <2>0, <2>2, <2>3 DEF LocalsOK, Writing
<1>. QED BY <1>1, <1>2, <1>3

\* CollectInv holds in every reachable state.
LEMMA CollectPreserved == CollectInv /\ [Next]_vars => CollectInv'
<1>1. ASSUME CollectInv, Next PROVE CollectInv'
  <2>1. CkptInv'
    BY <1>1, CollectCkpt, CkptPreserved DEF CollectInv
  <2>2. CollectorTypes' /\ LocalsOK'
    BY <1>1, CollectBegins, CollectWorks, CollectStops DEF Next, Step
  <2>3. TypeOK'
    BY <2>1, <2>2 DEF CkptInv, TypeOK, CollectorTypes
  <2>. QED BY <2>1, <2>2, <2>3 DEF CollectInv
<1>2. ASSUME CollectInv, UNCHANGED vars PROVE CollectInv'
  BY <1>2 DEF vars, ckptVars, files, packs, locals, ghosts, CollectInv, CkptInv, CheckpointTypeOK,
      PlaceOK, AgesOK, ProgressOK, SpareGood, JustParked, Progress, TypeOK, LocalsOK, ManualFirst
<1>. QED BY <1>1, <1>2

LEMMA CollectInvariant == Spec => []CollectInv
BY CollectInit, CollectPreserved, PTL DEF Spec

\* The checkpoint, the packs and the locals of the collector keep their types.
THEOREM CollectTypeCorrect == Spec => []TypeOK
<1>1. CollectInv => TypeOK
  BY DEF CollectInv
<1>. QED BY CollectInvariant, <1>1, PTL

\* Wherever the collector is killed, and whichever operations of a save fail,
\* its next run starts from the last saved document or from a later one.
THEOREM RestartAlwaysKeepsProgress == Spec => RestartKeepsProgress
<1>1. CollectInv /\ [Next]_vars =>
        [spc = "load" /\ spc' = "ready" /\ ~cut => mem' \in Progress]_ckptVars
  BY CollectCkpt, CkptPreserved DEF CollectInv, vars
<1>. QED BY CollectInvariant, <1>1, PTL DEF Spec, RestartKeepsProgress


(***************************************************************************)
(* The packs: every rename of replaceDirectory and of the moves to the     *)
(* archives leaves the last evidence somewhere, and a failed write leaves  *)
(* what it found.                                                          *)
(***************************************************************************)

\* One of the copies of a task's pack is whole and has the contents v.
Holds(p, v) == p # NONE /\ p = Whole(v)
Kept(t, v) == \/ Holds(disk[t], v) \/ Holds(manual[t], v) \/ Holds(absent[t], v)
              \/ slot = t /\ Holds(aside, v)
              \/ \E l \in litter : l[1] = t /\ Holds(l[2], v)
Fact(t) == newest[t] # NONE => Kept(t, newest[t])

\* The one step that may take the last evidence of a task.
Excused(t) == pc = "unpark" /\ slot = t /\ worn

\* What is staged is what was fetched; the newest contents are in place while
\* the previous directory is removed; what the write found is in its place, then
\* aside, and stays that until its removal begins.
PackInv ==
    /\ pc \in {"park", "install"} => staged = Whole(Want)
    /\ pc = "drop" /\ slot \in Tasks => disk[slot] = Whole(newest[slot])
    /\ pc \in {"fetch", "compare", "park"} => before = disk[slot]
    /\ pc \in {"install", "drop", "unpark", "putback"} => before = aside \/ worn
    /\ FailureKeepsPack

LEMMA KeptIsEvidence ==
    ASSUME CollectInv, NEW t \in Tasks
    PROVE  Evident(t) <=> Fact(t)
<1>1. Whole(newest[t]) # NONE
  <2>1. newest[t] \in Versions \cup {NONE}
    BY DEF CollectInv, TypeOK
  <2>2. Whole(newest[t]) \in Packs
    BY <2>1 DEF Whole, Packs
  <2>. QED BY <2>2, CollectAssumption
<1>2. ASSUME Kept(t, newest[t]) PROVE \E p \in Copies(t) : p = Whole(newest[t])
  <2>1. CASE \E l \in litter : l[1] = t /\ Holds(l[2], newest[t])
    BY <2>1 DEF Copies, Holds
  <2>2. CASE slot = t /\ Holds(aside, newest[t])
    BY <2>2 DEF Copies, Holds
  <2>. QED BY <1>2, <2>1, <2>2 DEF Kept, Holds, Copies
<1>3. ASSUME NEW p \in Copies(t), p = Whole(newest[t]) PROVE Kept(t, newest[t])
  BY <1>1, <1>3 DEF Copies, Kept, Holds
<1>. QED BY <1>2, <1>3 DEF Evident, Fact

LEMMA PackInit == Init => PackInv
BY DEF Init, PackInv, FailureKeepsPack

\* Steps that leave the packs where they are.
LEMMA PackStays ==
    ASSUME CollectInv, PackInv,
           UNCHANGED <<disk, manual, absent, aside, litter, newest>>,
           aside = NONE \/ slot' = slot,
           pc' \notin {"compare", "park", "install", "drop", "unpark", "putback", "failed", "fetch"}
    PROVE  PackInv' /\ \A t \in Tasks : Fact(t) => Fact(t)'
BY DEF Fact, Kept, Holds, PackInv, FailureKeepsPack

\* The process ends: what it had put aside is left aside.
LEMMA PackLeaves ==
    ASSUME CollectInv, PackInv, Leave, UNCHANGED <<disk, manual, absent, newest>>
    PROVE  PackInv' /\ \A t \in Tasks : Fact(t) => Fact(t)'
<1>1. ASSUME NEW t \in Tasks, Kept(t, newest[t])
      PROVE  Kept(t, newest[t])'
  <2>1. CASE \E l \in litter : l[1] = t /\ Holds(l[2], newest[t])
    BY <2>1 DEF Leave, Kept, Holds
  <2>2. CASE slot = t /\ Holds(aside, newest[t])
    <3>1. <<slot, aside>> \in litter'
      BY <2>2 DEF Leave, Holds
    <3>. QED BY <2>2, <3>1 DEF Kept, Holds, Leave
  <2>3. CASE Holds(disk[t], newest[t]) \/ Holds(manual[t], newest[t]) \/ Holds(absent[t], newest[t])
    BY <2>3 DEF Kept, Holds
  <2>. QED BY <1>1, <2>1, <2>2, <2>3 DEF Kept
<1>. QED BY <1>1 DEF Leave, Fact, PackInv, FailureKeepsPack

\* A pack goes to an archive that has none of the task.
LEMMA PackMoves ==
    ASSUME CollectInv, PackInv,
           RelocateManual \/ RelocateAbsent \/ RelocateAbsentManual \/ MoveGap
    PROVE  PackInv' /\ \A u \in Tasks : Fact(u) => Fact(u)'
<1>. USE CollectAssumption
<1>0. CollectorTypes /\ LocalsOK
  BY TypeSplits DEF CollectInv
<1>1. PICK t \in Tasks :
          /\ \/ UNCHANGED <<disk, manual, absent>>
             \/ /\ manual' = [manual EXCEPT ![t] = disk[t]] /\ manual[t] = NONE
                /\ disk' = [disk EXCEPT ![t] = NONE] /\ absent' = absent
             \/ /\ absent' = [absent EXCEPT ![t] = disk[t]] /\ absent[t] = NONE
                /\ disk' = [disk EXCEPT ![t] = NONE] /\ manual' = manual
             \/ /\ absent' = [absent EXCEPT ![t] = manual[t]] /\ absent[t] = NONE
                /\ manual' = [manual EXCEPT ![t] = NONE] /\ disk' = disk
  <2>1. CASE RelocateManual
    BY <1>0, <2>1 DEF RelocateManual, CollectorTypes
  <2>2. CASE RelocateAbsent
    BY <1>0, <2>2 DEF RelocateAbsent, CollectorTypes
  <2>3. CASE RelocateAbsentManual
    BY <1>0, <2>3 DEF RelocateAbsentManual, CollectorTypes
  <2>4. CASE MoveGap
    BY <1>0, <2>4 DEF MoveGap, LocalsOK, Writing
  <2>. QED BY <2>1, <2>2, <2>3, <2>4
<1>2. /\ UNCHANGED <<aside, litter, newest, slot>>
      /\ pc' \in {"relocate", "gapMoved", "gapFailed"}
  BY DEF RelocateManual, RelocateAbsent, RelocateAbsentManual, MoveGap, locals
<1>3. ASSUME NEW u \in Tasks, Kept(u, newest[u])
      PROVE  Kept(u, newest[u])'
  <2>1. u \in Slots /\ t \in Slots
    BY DEF Slots
  <2>2. \/ disk'[u] = disk[u] /\ manual'[u] = manual[u] /\ absent'[u] = absent[u]
        \/ manual'[u] = disk[u] /\ manual[u] = NONE /\ absent'[u] = absent[u]
        \/ absent'[u] = disk[u] /\ absent[u] = NONE /\ manual'[u] = manual[u]
        \/ absent'[u] = manual[u] /\ absent[u] = NONE /\ disk'[u] = disk[u]
    BY <1>0, <1>1, <2>1 DEF CollectorTypes
  <2>. QED BY <1>2, <1>3, <2>2 DEF Kept, Holds
<1>. QED BY <1>2, <1>3 DEF Fact, PackInv, FailureKeepsPack

\* The writes up to the rename that parks the previous directory.
LEMMA PackBegins ==
    ASSUME CollectInv, PackInv, PickTask \/ Fetch \/ Unchanged \/ StagePack \/ ParkPack
    PROVE  PackInv' /\ \A t \in Tasks : Fact(t) => Fact(t)'
<1>. USE CollectAssumption
<1>0. CollectorTypes /\ LocalsOK /\ aside = NONE
  BY TypeSplits DEF CollectInv, LocalsOK, PickTask, Fetch, Unchanged, StagePack, ParkPack
<1>a. ASSUME UNCHANGED <<disk, manual, absent, aside, litter, newest>>
      PROVE  \A t \in Tasks : Fact(t) => Fact(t)'
  BY <1>0, <1>a DEF Fact, Kept, Holds
<1>1. CASE PickTask
  BY <1>0, <1>1, <1>a DEF PickTask, packs, PackInv, FailureKeepsPack
<1>2. CASE Fetch
  BY <1>0, <1>2, <1>a DEF Fetch, packs, PackInv, FailureKeepsPack
<1>3. CASE Unchanged
  BY <1>0, <1>3, <1>a DEF Unchanged, NextWrite, packs, PackInv, FailureKeepsPack
<1>4. CASE StagePack
  <2>1. /\ pc = "compare"
        /\ \/ staged' = Whole(Want) /\ pc' = "park"
           \/ pc' = "failed"
        /\ UNCHANGED <<disk, manual, absent, aside, litter, locals, newest, before, worn>>
    BY <1>0, <1>4 DEF StagePack
  <2>. QED BY <1>a, <2>1 DEF locals, Want, PackInv, FailureKeepsPack
<1>5. CASE ParkPack
  <2>0. /\ pc = "park" /\ slot \in Slots /\ before = disk[slot] /\ staged = Whole(Want)
        /\ UNCHANGED <<manual, absent, litter, locals, newest, before, worn>>
    BY <1>0, <1>5 DEF ParkPack, LocalsOK, Writing, PackInv
  <2>1. CASE disk[slot] = NONE /\ pc' = "install" /\ UNCHANGED <<disk, aside, staged>>
    BY <1>0, <1>a, <2>0, <2>1 DEF locals, Want, PackInv, FailureKeepsPack
  <2>2. CASE /\ aside' = disk[slot] /\ disk' = [disk EXCEPT ![slot] = NONE]
             /\ pc' = "install" /\ UNCHANGED staged
    <3>1. ASSUME NEW t \in Tasks, Kept(t, newest[t])
          PROVE  Kept(t, newest[t])'
      <4>1. t # slot => disk'[t] = disk[t]
        BY <1>0, <2>2 DEF CollectorTypes, Slots
      <4>. QED BY <1>0, <2>0, <2>2, <3>1, <4>1 DEF locals, Kept, Holds
    <3>. QED BY <2>0, <2>2, <3>1 DEF Fact, locals, Want, PackInv, FailureKeepsPack
  <2>3. CASE pc' = "failed" /\ UNCHANGED <<disk, aside>>
    BY <1>a, <2>0, <2>3 DEF locals, PackInv, FailureKeepsPack
  <2>. QED BY <1>5, <2>1, <2>2, <2>3 DEF ParkPack
<1>. QED BY <1>1, <1>2, <1>3, <1>4, <1>5

\* The new directory takes its name.
LEMMA PackInstalls ==
    ASSUME CollectInv, PackInv, InstallPack
    PROVE  PackInv' /\ \A t \in Tasks : Fact(t) => Fact(t)'
<1>. USE CollectAssumption
<1>0. CollectorTypes /\ LocalsOK
  BY TypeSplits DEF CollectInv
<1>1. /\ pc = "install" /\ slot \in Slots /\ staged = Whole(Want) /\ (before = aside \/ worn)
      /\ UNCHANGED <<manual, absent, aside, litter, job>>
  BY <1>0 DEF InstallPack, LocalsOK, Writing, PackInv
<1>2. CASE /\ disk' = [disk EXCEPT ![slot] = staged] /\ newest' = Installed
           /\ IF aside = NONE THEN NextWrite ELSE pc' = "drop" /\ UNCHANGED <<slot, before, worn>>
  <2>1. Holds(Whole(Want), Want)
    <3>1. Want \in Versions \cup {NONE}
      BY <1>0 DEF CollectorTypes, Want, Jobs, NoJob
    <3>2. Whole(Want) \in Packs
      BY <3>1 DEF Whole, Packs
    <3>. QED BY <3>2 DEF Holds
  <2>2. ASSUME NEW t \in Tasks, Fact(t), newest'[t] # NONE
        PROVE  Kept(t, newest[t])'
    <3>0. t \in Slots /\ t # TABLE
      BY DEF Slots
    <3>1. CASE t = slot
      <4>1. disk'[t] = Whole(Want) /\ newest'[t] = Want
        BY <1>0, <1>1, <1>2, <3>0, <3>1 DEF CollectorTypes, Installed
      <4>. QED BY <2>1, <4>1 DEF Kept
    <3>2. CASE t # slot
      <4>1. disk'[t] = disk[t] /\ newest'[t] = newest[t]
        BY <1>0, <1>1, <1>2, <3>0, <3>2 DEF CollectorTypes, Installed
      <4>2. Kept(t, newest[t])
        BY <2>2, <4>1 DEF Fact
      <4>. QED BY <1>1, <3>2, <4>1, <4>2 DEF Kept
    <3>. QED BY <3>1, <3>2
  <2>3. CASE aside = NONE
    <3>1. slot # TABLE => disk'[TABLE] = disk[TABLE]
      BY <1>0, <1>2 DEF CollectorTypes, Slots
    <3>. QED BY <1>1, <1>2, <2>2, <2>3, <3>1 DEF Fact, NextWrite, PackInv, FailureKeepsPack
  <2>4. CASE aside # NONE
    <3>1. slot \in Tasks => disk'[slot] = Whole(Want) /\ newest'[slot] = Want
      BY <1>0, <1>1, <1>2 DEF CollectorTypes, Installed
    <3>. QED BY <1>1, <1>2, <2>2, <2>4, <3>1 DEF Fact, PackInv, FailureKeepsPack
  <2>. QED BY <2>3, <2>4
<1>3. CASE pc' = "unpark" /\ UNCHANGED <<disk, slot, before, worn, newest>>
  BY <1>1, <1>3 DEF Fact, Kept, Holds, PackInv, FailureKeepsPack
<1>. QED BY <1>2, <1>3 DEF InstallPack

\* The removal of the previous directory, and the catch block.
LEMMA PackUndoes ==
    ASSUME CollectInv, PackInv, DropAside \/ Tear \/ Unpark \/ PutBack
    PROVE  PackInv' /\ \A t \in Tasks : Fact(t) => Fact(t)' \/ Excused(t)
<1>. USE CollectAssumption
<1>0. CollectorTypes /\ LocalsOK
  BY TypeSplits DEF CollectInv
<1>d. \A t \in Tasks : t \in Slots /\ t # TABLE
  BY DEF Slots
<1>k. ASSUME NEW t \in Tasks, Fact(t), UNCHANGED <<manual, absent, slot>>, newest'[t] = newest[t],
             litter \subseteq litter',
             \/ disk'[t] = disk[t]
             \/ disk[t] = NONE
             \/ Holds(disk'[t], newest[t]),
             \/ slot # t
             \/ aside \in {NONE, aside', disk'[t]}
             \/ <<slot, aside>> \in litter'
      PROVE  Fact(t)'
  BY <1>k DEF Fact, Kept, Holds
<1>t. ASSUME pc = "unpark", slot \in Slots, disk[slot] # NONE, newest' = TakenBack,
             UNCHANGED <<manual, absent, aside, litter, slot>>,
             \A u \in Slots : u # slot => disk'[u] = disk[u]
      PROVE  \A t \in Tasks : Fact(t) => Fact(t)' \/ Excused(t)
  <2>. SUFFICES ASSUME NEW t \in Tasks, Fact(t), ~Excused(t) PROVE Fact(t)'
    OBVIOUS
  <2>1. CASE t # slot
    <3>1. newest'[t] = newest[t]
      <4>1. CASE newest' = newest
        BY <4>1
      <4>2. CASE newest' = [newest EXCEPT ![slot] = IF before # NONE /\ before.whole
                                                   THEN before.v ELSE NONE]
        BY <1>0, <2>1, <4>2 DEF CollectorTypes
      <4>. QED BY <1>t, <4>1, <4>2 DEF TakenBack
    <3>2. disk'[t] = disk[t]
      BY <1>d, <1>t, <2>1
    <3>3. Fact(t) /\ UNCHANGED <<manual, absent, slot, aside, litter>>
      BY <1>t
    <3>. QED BY <1>k, <2>1, <3>1, <3>2, <3>3
  <2>2. CASE t = slot
    <3>1. before = aside
      BY <1>t, <2>2 DEF Excused, PackInv
    <3>2. newest'[t] = IF before # NONE /\ before.whole THEN before.v ELSE NONE
      BY <1>0, <1>d, <1>t, <2>2 DEF TakenBack, CollectorTypes
    <3>3. CASE before # NONE /\ before.whole
      <4>1. before \in Packs
        BY <1>0, <3>3 DEF CollectorTypes
      <4>2. before = Whole(before.v)
        BY <3>3, <4>1 DEF Whole, Packs
      <4>. QED BY <1>t, <2>2, <3>1, <3>2, <3>3, <4>2 DEF Fact, Kept, Holds
    <3>4. CASE ~(before # NONE /\ before.whole)
      BY <3>2, <3>4 DEF Fact
    <3>. QED BY <3>3, <3>4
  <2>. QED BY <2>1, <2>2
<1>h. ASSUME pc = "drop", UNCHANGED <<disk, manual, absent, litter, newest>>
      PROVE  \A t \in Tasks : Fact(t) => Fact(t)'
  <2>. SUFFICES ASSUME NEW t \in Tasks, Fact(t), newest'[t] # NONE PROVE Kept(t, newest[t])'
    BY DEF Fact
  <2>1. CASE slot = t
    <3>1. disk[t] = Whole(newest[t])
      BY <1>h, <2>1 DEF PackInv
    <3>2. Whole(newest[t]) \in Packs
      BY <1>0 DEF CollectorTypes, Whole, Packs
    <3>. QED BY <1>h, <3>1, <3>2 DEF Kept, Holds
  <2>2. CASE slot # t
    <3>1. Kept(t, newest[t])
      BY <1>h DEF Fact
    <3>. QED BY <1>h, <2>2, <3>1 DEF Kept
  <2>. QED BY <2>1, <2>2
<1>1. CASE DropAside
  <2>0. /\ pc = "drop" /\ slot \in Slots /\ (before = aside \/ worn)
        /\ UNCHANGED <<disk, manual, absent, litter, newest>>
    BY <1>0, <1>1 DEF DropAside, LocalsOK, Writing, PackInv
  <2>1. CASE aside' = NONE /\ NextWrite
    BY <1>h, <2>0, <2>1 DEF NextWrite, PackInv, FailureKeepsPack
  <2>2. CASE pc' = "unpark" /\ UNCHANGED <<aside, slot, before, worn>>
    BY <1>h, <2>0, <2>2 DEF PackInv, FailureKeepsPack
  <2>. QED BY <1>1, <2>1, <2>2 DEF DropAside
<1>2. CASE Tear
  <2>0. /\ slot \in Slots /\ UNCHANGED <<manual, absent, staged, litter, pc, slot, job, before>>
        /\ before = aside \/ worn
    BY <1>0, <1>2 DEF Tear, locals, LocalsOK, Writing, PackInv
  <2>1. CASE pc = "drop" /\ worn' = TRUE /\ UNCHANGED <<disk, newest>>
    BY <1>h, <2>0, <2>1 DEF PackInv, FailureKeepsPack
  <2>2. CASE /\ pc = "unpark" /\ disk[slot] # NONE
             /\ \E p \in TornOf(disk[slot]) : disk' = [disk EXCEPT ![slot] = p]
             /\ newest' = TakenBack /\ UNCHANGED <<aside, worn>>
    <3>1. \A u \in Slots : u # slot => disk'[u] = disk[u]
      BY <1>0, <2>2 DEF CollectorTypes
    <3>. QED BY <1>t, <2>0, <2>2, <3>1 DEF PackInv, FailureKeepsPack
  <2>. QED BY <1>2, <2>1, <2>2 DEF Tear
<1>3. CASE Unpark
  <2>0. /\ pc = "unpark" /\ slot \in Slots /\ (before = aside \/ worn)
        /\ disk[slot] = NONE \/ aside # NONE
        /\ UNCHANGED <<manual, absent, slot, before, worn>>
    BY <1>0, <1>3 DEF Unpark, locals, LocalsOK, Writing, PackInv
  <2>1. CASE /\ disk' = [disk EXCEPT ![slot] = NONE] /\ newest' = TakenBack
             /\ pc' = "putback" /\ UNCHANGED <<aside, litter, staged>>
    <3>1. \A u \in Slots : u # slot => disk'[u] = disk[u]
      BY <1>0, <2>1 DEF CollectorTypes
    <3>2. CASE disk[slot] = NONE
      <4>1. newest' = newest /\ \A u \in Slots : disk'[u] = disk[u]
        BY <1>0, <2>1, <3>2, <3>1 DEF TakenBack, CollectorTypes
      <4>2. \A t \in Tasks : Fact(t) => Fact(t)'
        <5>. SUFFICES ASSUME NEW t \in Tasks, Fact(t) PROVE Fact(t)'
          OBVIOUS
        <5>1. newest'[t] = newest[t] /\ disk'[t] = disk[t]
          BY <1>d, <4>1
        <5>. QED BY <1>k, <2>0, <2>1, <5>1
      <4>. QED BY <2>0, <2>1, <4>2 DEF PackInv, FailureKeepsPack
    <3>3. CASE disk[slot] # NONE
      BY <1>t, <2>0, <2>1, <3>1, <3>3 DEF PackInv, FailureKeepsPack
    <3>. QED BY <3>2, <3>3
  <2>2. CASE disk[slot] # NONE /\ LeftAside /\ UNCHANGED <<disk, newest>>
    <3>1. /\ litter' = litter \cup {<<slot, aside>>} /\ pc' = "failed" /\ aside' = NONE
      BY <2>0, <2>2 DEF LeftAside
    <3>2. \A t \in Tasks : Fact(t) => Fact(t)'
      <4>. SUFFICES ASSUME NEW t \in Tasks, Fact(t) PROVE Fact(t)'
        OBVIOUS
      <4>1. newest'[t] = newest[t] /\ disk'[t] = disk[t]
        BY <2>2
      <4>. QED BY <1>k, <2>0, <3>1, <4>1
    <3>. QED BY <2>0, <3>1, <3>2 DEF PackInv, FailureKeepsPack
  <2>. QED BY <1>3, <2>1, <2>2 DEF Unpark
<1>4. CASE PutBack
  <2>0. /\ pc = "putback" /\ pc' = "failed" /\ slot \in Slots /\ (before = aside \/ worn)
        /\ disk[slot] = NONE /\ aside' = NONE
        /\ UNCHANGED <<manual, absent, slot, before, worn, newest>>
    BY <1>0, <1>4 DEF PutBack, LeftAside, locals, LocalsOK, Writing, PackInv
  <2>1. CASE disk' = Restored /\ UNCHANGED litter
    <3>1. disk'[slot] = aside /\ \A u \in Slots : u # slot => disk'[u] = disk[u]
      BY <1>0, <2>0, <2>1 DEF Restored, CollectorTypes
    <3>2. \A t \in Tasks : Fact(t) => Fact(t)'
      <4>. SUFFICES ASSUME NEW t \in Tasks, Fact(t) PROVE Fact(t)'
        OBVIOUS
      <4>1. newest'[t] = newest[t] /\ litter' = litter
        BY <2>0, <2>1
      <4>2. CASE t = slot
        <5>1. disk[t] = NONE /\ disk'[t] = aside
          BY <2>0, <3>1, <4>2
        <5>. QED BY <1>k, <2>0, <4>1, <5>1
      <4>3. CASE t # slot
        <5>1. disk'[t] = disk[t]
          BY <1>d, <3>1, <4>3
        <5>. QED BY <1>k, <2>0, <4>1, <4>3, <5>1
      <4>. QED BY <4>2, <4>3
    <3>. QED BY <2>0, <3>1, <3>2 DEF PackInv, FailureKeepsPack
  <2>2. CASE aside # NONE /\ LeftAside /\ UNCHANGED disk
    <3>1. litter' = litter \cup {<<slot, aside>>}
      BY <2>2 DEF LeftAside
    <3>2. \A t \in Tasks : Fact(t) => Fact(t)'
      <4>. SUFFICES ASSUME NEW t \in Tasks, Fact(t) PROVE Fact(t)'
        OBVIOUS
      <4>1. newest'[t] = newest[t] /\ disk'[t] = disk[t]
        BY <2>0, <2>2
      <4>. QED BY <1>k, <2>0, <3>1, <4>1
    <3>. QED BY <2>0, <3>1, <3>2 DEF PackInv, FailureKeepsPack
  <2>. QED BY <1>4, <2>1, <2>2 DEF PutBack
<1>. QED BY <1>1, <1>2, <1>3, <1>4

\* A pack is edited, or removed by hand and no longer expected.
LEMMA PackEdited ==
    ASSUME CollectInv, PackInv, Edit
    PROVE  PackInv' /\ \A t \in Tasks : Fact(t) => Fact(t)'
<1>. USE CollectAssumption
<1>0. CollectorTypes
  BY TypeSplits DEF CollectInv
<1>1. pc = "out" /\ pc' = "out" /\ UNCHANGED <<manual, absent, aside, litter, slot>>
  BY DEF Edit, locals
<1>2. PICK s \in Slots :
          /\ \/ disk' = [disk EXCEPT ![s].whole = FALSE]
             \/ disk' = [disk EXCEPT ![s] = NONE]
          /\ newest' = [t \in Tasks |-> IF t = s THEN NONE ELSE newest[t]]
  BY DEF Edit
<1>3. ASSUME NEW t \in Tasks, Fact(t), newest'[t] # NONE
      PROVE  Kept(t, newest[t])'
  <2>1. t # s /\ newest'[t] = newest[t] /\ t \in Slots
    BY <1>2, <1>3 DEF Slots
  <2>2. disk'[t] = disk[t]
    BY <1>0, <1>2, <2>1 DEF CollectorTypes
  <2>. QED BY <1>1, <1>3, <2>1, <2>2 DEF Fact, Kept
<1>. QED BY <1>1, <1>3 DEF Fact, PackInv, FailureKeepsPack

\* PackInv holds in every reachable state, and no step but the excused one takes
\* the last evidence of a task.
LEMMA PackPreserved ==
    ASSUME CollectInv, PackInv, [Next]_vars
    PROVE  PackInv' /\ \A t \in Tasks : Fact(t) => Fact(t)' \/ Excused(t)
<1>0. LocalsOK
  BY DEF CollectInv
<1>1. CASE StartRun \/ Load \/ Classify \/ EndRelocate \/ MarkOne \/ Save \/ Continue
           \/ SkipReusable \/ EndBatch
  <2>1. /\ UNCHANGED <<disk, manual, absent, aside, litter, newest>> /\ aside = NONE
        /\ pc' \notin {"compare", "park", "install", "drop", "unpark", "putback", "failed", "fetch"}
    <3>1. CASE StartRun \/ Load \/ Classify \/ EndRelocate \/ MarkOne
      BY <1>0, <3>1 DEF StartRun, Load, Classify, EndRelocate, MarkOne, Persist, packs, LocalsOK
    <3>2. CASE Save \/ Continue \/ SkipReusable \/ EndBatch
      BY <1>0, <3>2 DEF Save, Continue, SkipReusable, EndBatch, packs, LocalsOK
    <3>. QED BY <1>1, <3>1, <3>2
  <2>. QED BY <2>1, PackStays
<1>2. CASE RecordFailure \/ RecordOutcome \/ RecordGap \/ GapConflict
  <2>1. /\ UNCHANGED <<disk, manual, absent, aside, litter, newest>> /\ aside = NONE /\ pc' = "save"
    BY <1>0, <1>2 DEF RecordFailure, RecordOutcome, RecordGap, GapConflict, Persist, packs, LocalsOK
  <2>. QED BY <2>1, PackStays
<1>3. CASE LookupFails \/ RelocateThrows \/ Finish \/ Killed
  BY <1>3, PackLeaves DEF LookupFails, RelocateThrows, Finish, Killed, GiveUp
<1>4. CASE SaveStops
  <2>1. CASE cur = NONE
    BY <1>4, <2>1, PackLeaves DEF SaveStops, GiveUp
  <2>2. CASE cur # NONE
    BY <1>4, <2>2, PackStays DEF SaveStops
  <2>. QED BY <2>1, <2>2
<1>5. CASE RelocateManual \/ RelocateAbsent \/ RelocateAbsentManual \/ MoveGap
  BY <1>5, PackMoves
<1>6. CASE PickTask \/ Fetch \/ Write \/ Tear
  BY <1>6, PackBegins, PackInstalls, PackUndoes DEF Write
<1>7. CASE Edit
  BY <1>7, PackEdited
<1>8. CASE UNCHANGED vars
  BY <1>8 DEF vars, packs, locals, ghosts, PackInv, FailureKeepsPack, Fact, Kept, Holds, Want
<1>. QED
  BY <1>1, <1>2, <1>3, <1>4, <1>5, <1>6, <1>7, <1>8 DEF Next, Step, Relocate, Outcome

LEMMA PackInvariant == Spec => []PackInv
<1>1. CollectInv /\ PackInv /\ [Next]_vars => PackInv'
  BY PackPreserved
<1>. QED BY <1>1, PackInit, CollectInvariant, PTL DEF Spec

\* However often the collector is killed, and whichever operations fail, the
\* contents last collected of a task are whole in one of its places, until the
\* catch block takes the new pack away after the old one was torn.
THEOREM EvidenceAlwaysKept == Spec => EvidenceKept
<1>1. CollectInv /\ CollectInv' /\ PackInv /\ [Next]_vars =>
        [\A t \in Tasks : Evident(t) /\ ~Evident(t)' => pc = "unpark" /\ slot = t /\ worn]_vars
  <2>. SUFFICES ASSUME CollectInv, CollectInv', PackInv, [Next]_vars, NEW t \in Tasks,
                       Evident(t), ~Evident(t)'
                PROVE  pc = "unpark" /\ slot = t /\ worn
    OBVIOUS
  <2>1. Fact(t)
    BY KeptIsEvidence
  <2>2. Evident(t)' <=> Fact(t)'
    BY KeptIsEvidence, PTL
  <2>. QED BY <2>1, <2>2, PackPreserved DEF Excused
<1>. QED BY <1>1, CollectInvariant, PackInvariant, PTL DEF Spec, EvidenceKept

\* A write that fails leaves the pack that was there, unless its removal had
\* begun.
THEOREM FailureAlwaysKeepsPack == Spec => []FailureKeepsPack
<1>1. PackInv => FailureKeepsPack
  BY DEF PackInv
<1>. QED BY PackInvariant, <1>1, PTL

(***************************************************************************)
(* A calm run settles.                                                     *)
(***************************************************************************)
\* Checkpoint and packs agree on t.
Settled(t) ==
    /\ mem[t] # NONE
    /\ mem[t].st = "SUCCESS" => disk[t] # NONE /\ disk[t].v = mem[t].pack
    /\ mem[t].st = "EXCLUDED" => ~HasPack(disk[t])

\* The loop over the exclusions, and the loop over the batch.
Marking  == pc = "mark" \/ (pc \in {"save", "saved"} /\ cur = NONE)
Batching == pc \in Writing \cup {"batch", "done"} \/ (pc \in {"save", "saved"} /\ cur # NONE)

\* The document in memory is in the status file, or nothing was recorded yet.
SavedPart ==
    /\ pc \notin {"out", "load", "save"} =>
          spc = "ready" /\ (mem = EmptyDoc \/ (Parses(status) /\ status.doc = mem))
    /\ pc = "save" => spc \in {"write", "dropBak", "park", "install", "clean"}

\* An excluded task has no pack in the data root once it was relocated.
RelocatedPart ==
    /\ pc = "relocate" => \A t \in Tasks : t \notin todo \/ t = cur =>
          class[t] = "RUN" \/ ~HasPack(disk[t])
    /\ Marking => \A t \in Tasks : class[t] # "RUN" =>
          ~HasPack(disk[t]) /\ (t \in todo \/ mem[t] = Excluded(class[t]))

\* What has been written for the task underway.
WrittenPart ==
    /\ pc = "fetch" => slot = cur
    /\ pc \in {"compare", "park", "install", "drop", "settle"} =>
          job \in Jobs /\ (slot = cur \/ (slot = TABLE /\ job.tv # NONE))
    /\ pc \in {"park", "install"} => staged = Whole(Want)
    /\ pc = "drop" \/ (pc \in {"compare", "park", "install", "drop"} /\ slot = TABLE)
          \/ (pc = "settle" /\ job.kind = "clean") =>
             disk[cur] # NONE /\ disk[cur].v = job.v
    /\ pc = "gapMoved" => ~HasPack(disk[cur])
    /\ pc \notin {"unpark", "putback"}

\* The tasks that the loop is through with.
SettledPart ==
    /\ Batching => \A t \in Tasks \ todo : (t = cur /\ pc \in Writing) \/ Settled(t)
    /\ pc \in Writing => cur \notin todo
    /\ pc = "done" => todo = {}

CalmInv == calm /\ pc # "out" => SavedPart /\ RelocatedPart /\ WrittenPart /\ SettledPart

\* In a step after which the run is still calm, nothing has failed.
LEMMA NothingFails ==
    ASSUME CollectInv, NEW x, Trouble(x)
    PROVE  trouble' # trouble
BY DEF CollectInv, TypeOK, CheckpointTypeOK, Trouble

\* The steps with which a run is over, and those before it.
LEMMA CalmOutside ==
    ASSUME CollectInv, calm', pc' # "out",
           LookupFails \/ RelocateThrows \/ SaveStops \/ Finish \/ Killed \/ Edit
    PROVE  FALSE
BY DEF LookupFails, RelocateThrows, SaveStops, Finish, Killed, Edit, GiveUp, Leave

\* A load that meets no failure has its document in the status file.
LEMMA CalmLoad ==
    ASSUME CollectInv, Load, calm', pc' # "out"
    PROVE  pc' = "classify" /\ SavedPart'
<1>. USE DocAssumption
<1>1. LoadStep /\ pc = "load" /\ pc' = "classify" /\ spc' = "ready" /\ trouble' = trouble
  BY DEF Load
<1>2. mem' = EmptyDoc \/ (Parses(status)' /\ status'.doc = mem')
  <2>1. CASE LoadStatus
    BY <2>1 DEF LoadStatus, Loaded, Parses, files
  <2>2. CASE RecoverOrphan
    BY <1>1, <2>2, NothingFails DEF RecoverOrphan, Loaded, Candidates, Parses
  <2>3. CASE LoadNothing
    BY <1>1, <2>3 DEF LoadNothing, Loaded
  <2>. QED BY <1>1, <2>1, <2>2, <2>3 DEF LoadStep
<1>. QED BY <1>1, <1>2 DEF SavedPart

\* A save that meets no failure ends with its document in the status file.
LEMMA CalmSave ==
    ASSUME CollectInv, SavedPart, Save, calm'
    PROVE  SavedPart' /\ UNCHANGED mem
<1>. USE DocAssumption
<1>1. /\ SaveStep /\ pc = "save" /\ trouble' = trouble
      /\ pc' = IF spc' = "ready" THEN "saved" ELSE "save"
      /\ spc \in {"write", "dropBak", "park", "install", "clean"}
      /\ mem \in Docs
  BY DEF Save, SavedPart, CollectInv, TypeOK, CheckpointTypeOK
<1>2. /\ spc = "install" => tmp # NOFILE /\ tmp.doc = mem
      /\ spc = "clean" => status # NOFILE /\ status.doc = mem
  BY DEF CollectInv, CkptInv, PlaceOK
<1>3. CASE WriteTmp
  BY <1>1, <1>3, NothingFails DEF WriteTmp, AfterWrite, SavedPart
<1>4. CASE DropBak
  BY <1>1, <1>4, NothingFails DEF DropBak, SavedPart
<1>5. CASE Park
  BY <1>1, <1>5, NothingFails DEF Park, SavedPart
<1>6. CASE Install
  BY <1>1, <1>2, <1>6, NothingFails DEF Install, Saved, Parses, SavedPart
<1>7. CASE CleanBak
  BY <1>1, <1>2, <1>7, NothingFails DEF CleanBak, Saved, Parses, SavedPart
<1>8. CASE Undo \/ UndoTmp
  BY <1>1, <1>8 DEF Undo, UndoTmp
<1>. QED BY <1>1, <1>3, <1>4, <1>5, <1>6, <1>7, <1>8 DEF SaveStep

\* Everything else leaves the file alone, or begins a save.
LEMMA CalmSaved ==
    ASSUME CollectInv, CalmInv, Next, calm', pc' # "out"
    PROVE  SavedPart'
<1>1. CASE StartRun
  BY <1>1 DEF StartRun, SavedPart
<1>2. CASE Load
  BY <1>2, CalmLoad
<1>3. CASE Save
  BY <1>3, CalmSave DEF Save, CalmInv
<1>4. CASE Classify \/ Relocate \/ Continue \/ SkipReusable \/ PickTask \/ EndBatch \/ Fetch
  <2>1. /\ Quiet
        /\ pc \in {"classify", "relocate", "saved", "mark", "batch", "fetch"}
        /\ pc' \in {"relocate", "mark", "batch", "fetch", "done", "failed", "compare"}
    BY <1>4 DEF Classify, Relocate, RelocateManual, RelocateAbsent, RelocateAbsentManual,
        EndRelocate, Continue, SkipReusable, PickTask, EndBatch, Fetch
  <2>. QED BY <2>1 DEF Quiet, ckptVars, files, CalmInv, SavedPart, Parses
<1>5. CASE Write \/ MoveGap \/ Tear
  <2>1. /\ Quiet
        /\ pc \in {"compare", "park", "install", "drop", "unpark", "putback", "settle"}
        /\ pc' \in Writing \ {"fetch"}
    BY <1>5 DEF Write, Unchanged, StagePack, ParkPack, InstallPack, DropAside, Unpark,
        PutBack, Tear, MoveGap, NextWrite, Fails, Writing
  <2>. QED BY <2>1 DEF Quiet, ckptVars, files, CalmInv, SavedPart, Parses, Writing
<1>6. CASE MarkOne
  <2>1. CASE Quiet /\ UNCHANGED pc
    BY <1>6, <2>1 DEF MarkOne, Quiet, ckptVars, files, CalmInv, SavedPart, Parses
  <2>2. CASE \E t \in todo : Persist(t, Excluded(class[t]))
    BY <2>2 DEF Persist, BeginSave, SavedPart
  <2>. QED BY <1>6, <2>1, <2>2 DEF MarkOne
<1>7. CASE RecordFailure \/ RecordOutcome \/ RecordGap \/ GapConflict
  BY <1>7 DEF RecordFailure, RecordOutcome, RecordGap, GapConflict, Persist, BeginSave, SavedPart
<1>. QED
  BY <1>1, <1>2, <1>3, <1>4, <1>5, <1>6, <1>7, CalmOutside DEF Next, Step, Outcome

\* Relocation and marking go through the excluded tasks.
LEMMA CalmRelocated ==
    ASSUME CollectInv, CalmInv, Next, calm', pc' # "out"
    PROVE  RelocatedPart'
<1>. USE CollectAssumption DEF RelocatedPart, Marking
<1>0. CollectorTypes /\ LocalsOK /\ mem \in [Tasks -> Records \cup {NONE}]
  BY TypeSplits, DocsAssumption DEF CollectInv, CkptInv, CheckpointTypeOK
<1>1. CASE StartRun \/ Load
  BY <1>1, CalmLoad DEF StartRun
<1>2. CASE Classify
  BY <1>0, <1>2 DEF Classify, LocalsOK
<1>3. CASE RelocateManual
  BY <1>0, <1>3 DEF RelocateManual, Quiet, CalmInv, HasPack, CollectorTypes, Slots
<1>4. CASE RelocateAbsent
  BY <1>0, <1>4 DEF RelocateAbsent, Quiet, CalmInv, HasPack, CollectorTypes, Slots
<1>5. CASE RelocateAbsentManual
  BY <1>0, <1>5 DEF RelocateAbsentManual, Quiet, CalmInv, HasPack
<1>6. CASE EndRelocate
  BY <1>0, <1>6 DEF EndRelocate, packs, Quiet, CalmInv, HasPack
<1>7. CASE MarkOne
  <2>0. pc = "mark" /\ cur = NONE /\ UNCHANGED <<disk, class, cur>>
    BY <1>0, <1>7 DEF MarkOne, packs, LocalsOK
  <2>1. PICK t \in todo :
          /\ todo' = todo \ {t}
          /\ IF Marked(t) THEN Quiet /\ UNCHANGED pc ELSE Persist(t, Excluded(class[t]))
    BY <1>7 DEF MarkOne
  <2>2. mem'[t] = Excluded(class[t]) /\ \A u \in Tasks \ {t} : mem'[u] = mem[u]
    BY <1>0, <2>1 DEF Marked, Quiet, ckptVars, Persist, BeginSave, CollectorTypes
  <2>3. calm /\ pc # "out" /\ pc' \in {"mark", "save"}
    BY <1>7, <2>0, <2>1 DEF MarkOne, Quiet, Persist
  <2>. QED BY <2>0, <2>1, <2>2, <2>3 DEF CalmInv, HasPack
<1>8. CASE Save
  BY <1>8, CalmSave DEF Save, packs, locals, CalmInv, HasPack
<1>9. CASE Continue
  BY <1>9 DEF Continue, packs, Quiet, ckptVars, CalmInv, HasPack
<1>10. CASE SkipReusable \/ PickTask \/ EndBatch \/ Fetch \/ Write \/ MoveGap \/ Tear
  <2>1. pc' \in {"batch", "fetch", "done", "failed", "compare", "settle", "park", "install", "drop",
                 "unpark", "putback", "gapMoved", "gapFailed"}
    BY <1>10 DEF SkipReusable, PickTask, EndBatch, Fetch, Write, Unchanged, StagePack, ParkPack,
        InstallPack, DropAside, Unpark, PutBack, LeftAside, Tear, MoveGap, NextWrite
  <2>. QED BY <2>1
<1>11. CASE RecordFailure \/ RecordOutcome \/ RecordGap \/ GapConflict
  <2>1. pc' = "save" /\ cur' \in Tasks
    BY <1>0, <1>11 DEF RecordFailure, RecordOutcome, RecordGap, GapConflict, Persist, LocalsOK, Writing
  <2>. QED BY <2>1
<1>. QED
  BY <1>1, <1>2, <1>3, <1>4, <1>5, <1>6, <1>7, <1>8, <1>9, <1>10, <1>11, CalmOutside
     DEF Next, Step, Relocate, Outcome

\* What is written is the pack of the task underway, then that of its table.
LEMMA CalmWritten ==
    ASSUME CollectInv, CalmInv, Next, calm', pc' # "out"
    PROVE  WrittenPart'
<1>. USE CollectAssumption
<1>0. CollectorTypes /\ LocalsOK
  BY TypeSplits DEF CollectInv
<1>w. calm /\ pc \in Writing => WrittenPart /\ cur \in Tasks /\ slot \in Slots /\ cur # TABLE /\ cur \in Slots
  BY <1>0 DEF CalmInv, LocalsOK, Writing, Slots
<1>n. ASSUME calm, pc \in Writing, NextWrite, UNCHANGED <<cur, job>>,
             job \in Jobs, slot = cur \/ (slot = TABLE /\ job.tv # NONE),
             disk'[cur] # NONE /\ disk'[cur].v = job.v
      PROVE  WrittenPart'
  BY <1>n, <1>w DEF NextWrite, WrittenPart
<1>v. Want \in Versions \cup {NONE}
  BY <1>0 DEF CollectorTypes, Want, Jobs, NoJob
<1>p. Whole(Want) \in Packs /\ Whole(Want) # NONE /\ Whole(Want).v = Want
  <2>1. Whole(Want) \in Packs
    BY <1>v DEF Whole, Packs
  <2>2. Whole(Want) # NONE
    BY <2>1
  <2>3. Whole(Want).v = Want
    BY DEF Whole
  <2>. QED BY <2>1, <2>2, <2>3
<1>1. CASE PickTask
  BY <1>1 DEF PickTask, WrittenPart
<1>2. CASE Fetch
  <2>1. calm /\ pc \in Writing
    BY <1>2 DEF Fetch, Quiet, Writing
  <2>. QED BY <1>2, <1>w, <2>1 DEF Fetch, WrittenPart
<1>3. CASE Unchanged
  <2>1. /\ calm /\ pc = "compare" /\ pc \in Writing /\ NextWrite /\ disk[slot] # NONE /\ disk[slot].v = Want
        /\ UNCHANGED <<disk, cur, job>>
    BY <1>3 DEF Unchanged, UpToDate, Quiet, Writing, packs
  <2>2. job \in Jobs /\ (slot = cur \/ (slot = TABLE /\ job.tv # NONE))
    BY <1>w, <2>1 DEF WrittenPart
  <2>3. disk[cur] # NONE /\ disk[cur].v = job.v
    BY <1>w, <2>1, <2>2 DEF WrittenPart, Want
  <2>. QED BY <1>n, <2>1, <2>2, <2>3
<1>4. CASE StagePack
  <2>1. /\ calm /\ pc = "compare" /\ pc \in Writing /\ pc' = "park" /\ staged' = Whole(Want)
        /\ UNCHANGED <<disk, locals>>
    BY <1>4 DEF StagePack, Quiet, Fails, Writing
  <2>. QED BY <1>w, <2>1 DEF WrittenPart, locals, Want
<1>5. CASE ParkPack
  <2>1. /\ calm /\ pc = "park" /\ pc \in Writing /\ pc' = "install" /\ UNCHANGED <<staged, locals>>
        /\ disk' = disk \/ disk' = [disk EXCEPT ![slot] = NONE]
    BY <1>5 DEF ParkPack, Quiet, Fails, Writing
  <2>2. slot # cur => disk'[cur] = disk[cur]
    BY <1>0, <1>w, <2>1 DEF CollectorTypes
  <2>. QED BY <1>w, <2>1, <2>2 DEF WrittenPart, locals, Want
<1>6. CASE InstallPack
  <2>1. /\ calm /\ pc = "install" /\ pc \in Writing
        /\ disk' = [disk EXCEPT ![slot] = staged] /\ UNCHANGED <<cur, job>>
        /\ IF aside = NONE THEN NextWrite ELSE pc' = "drop" /\ UNCHANGED <<slot, before, worn>>
    BY <1>6 DEF InstallPack, Quiet, Fails, Writing
  <2>2. /\ job \in Jobs /\ (slot = cur \/ (slot = TABLE /\ job.tv # NONE))
        /\ staged = Whole(Want)
    BY <1>w, <2>1 DEF WrittenPart
  <2>3. disk'[cur] # NONE /\ disk'[cur].v = job.v
    <3>1. CASE slot = cur
      BY <1>0, <1>p, <1>w, <2>1, <2>2, <3>1 DEF CollectorTypes, Want
    <3>2. CASE slot # cur
      BY <1>0, <1>w, <2>1, <2>2, <3>2 DEF CollectorTypes, WrittenPart
    <3>. QED BY <3>1, <3>2
  <2>4. CASE aside = NONE
    BY <1>n, <2>1, <2>2, <2>3, <2>4
  <2>5. CASE aside # NONE
    BY <2>1, <2>2, <2>3, <2>5 DEF WrittenPart
  <2>. QED BY <2>4, <2>5
<1>7. CASE DropAside
  <2>1. /\ calm /\ pc = "drop" /\ pc \in Writing /\ NextWrite /\ UNCHANGED <<disk, cur, job>>
    BY <1>7 DEF DropAside, Quiet, Fails, Writing
  <2>2. /\ job \in Jobs /\ (slot = cur \/ (slot = TABLE /\ job.tv # NONE))
        /\ disk[cur] # NONE /\ disk[cur].v = job.v
    BY <1>w, <2>1 DEF WrittenPart
  <2>. QED BY <1>n, <2>1, <2>2
<1>8. CASE MoveGap
  <2>1. /\ calm /\ pc = "settle" /\ pc \in Writing /\ pc' = "gapMoved"
        /\ disk' = [disk EXCEPT ![cur] = NONE] /\ UNCHANGED locals
    BY <1>8 DEF MoveGap, Quiet, Fails, Writing
  <2>. QED BY <1>0, <1>w, <2>1 DEF WrittenPart, locals, HasPack, CollectorTypes
<1>9. CASE Unpark \/ PutBack \/ (Tear /\ pc # "drop")
  <2>1. calm /\ pc \in {"unpark", "putback"}
    BY <1>9 DEF Unpark, PutBack, Tear, Quiet, Fails
  <2>. QED BY <1>w, <2>1 DEF WrittenPart, Writing
<1>11. CASE Tear /\ pc = "drop"
  <2>1. calm /\ pc = "drop" /\ UNCHANGED <<disk, staged, pc, locals>>
    BY <1>11 DEF Tear, Quiet
  <2>. QED BY <1>w, <2>1 DEF WrittenPart, Writing, locals, Want
<1>10. CASE RecordFailure \/ RecordOutcome \/ RecordGap \/ GapConflict \/ MarkOne \/ Save
            \/ StartRun \/ Load \/ Classify \/ Relocate \/ Continue \/ SkipReusable \/ EndBatch
  <2>1. pc' \in {"save", "saved", "mark", "load", "classify", "relocate", "batch", "done"}
    BY <1>10, CalmLoad DEF RecordFailure, RecordOutcome, RecordGap, GapConflict, MarkOne, Save,
        Persist, StartRun, Classify, Relocate, RelocateManual, RelocateAbsent,
        RelocateAbsentManual, EndRelocate, Continue, SkipReusable, EndBatch
  <2>. QED BY <2>1 DEF WrittenPart
<1>. QED
  BY <1>1, <1>2, <1>3, <1>4, <1>5, <1>6, <1>7, <1>8, <1>9, <1>10, <1>11, CalmOutside
     DEF Next, Step, Write, Outcome

\* A task that is neither underway nor left keeps what was settled of it.
LEMMA SettledStays ==
    ASSUME NEW t \in Tasks, Settled(t), UNCHANGED mem, disk'[t] = disk[t]
    PROVE  Settled(t)'
BY DEF Settled, HasPack

\* The loop over the batch settles a task with each turn.
LEMMA CalmSettled ==
    ASSUME CollectInv, CalmInv, Next, calm', pc' # "out"
    PROVE  SettledPart'
<1>. USE CollectAssumption
<1>0. CollectorTypes /\ LocalsOK /\ mem \in [Tasks -> Records \cup {NONE}]
  BY TypeSplits, DocsAssumption DEF CollectInv, CkptInv, CheckpointTypeOK
<1>w. calm /\ pc \in Writing => WrittenPart /\ SettledPart /\ Batching /\ cur \in Tasks /\ slot \in Slots
  BY <1>0 DEF CalmInv, LocalsOK, Writing, Batching
<1>1. CASE StartRun \/ Load \/ Classify \/ Relocate
  <2>1. pc' \in {"load", "classify", "relocate", "mark"}
    BY <1>1, CalmLoad DEF StartRun, Classify, Relocate, RelocateManual, RelocateAbsent,
        RelocateAbsentManual, EndRelocate
  <2>. QED BY <2>1 DEF SettledPart, Batching, Writing
<1>2. CASE MarkOne
  <2>1. pc' \in {"mark", "save"} /\ cur' = NONE
    BY <1>0, <1>2 DEF MarkOne, Persist, LocalsOK
  <2>. QED BY <2>1 DEF SettledPart, Batching, Writing
<1>3. CASE Save
  <2>1. /\ calm /\ pc = "save" /\ pc' \in {"save", "saved"}
        /\ UNCHANGED <<mem, disk, todo, cur>>
    BY <1>3, CalmSave DEF Save, packs, locals, CalmInv
  <2>2. Batching' => Batching
    BY <2>1 DEF Batching, Writing
  <2>3. SettledPart
    BY <2>1 DEF CalmInv
  <2>. QED BY <2>1, <2>2, <2>3, SettledStays DEF SettledPart, Writing
<1>4. CASE Continue
  <2>1. /\ calm /\ pc = "saved" /\ pc' = (IF cur = NONE THEN "mark" ELSE "batch") /\ cur' = NONE
        /\ UNCHANGED <<mem, disk, todo>>
    BY <1>4 DEF Continue, Quiet, ckptVars, packs
  <2>2. Batching' => Batching
    BY <2>1 DEF Batching, Writing
  <2>3. SettledPart
    BY <2>1 DEF CalmInv
  <2>. QED BY <2>1, <2>2, <2>3, SettledStays DEF SettledPart, Writing
<1>5. CASE SkipReusable
  <2>1. /\ calm /\ pc = "mark" /\ pc' = "batch" /\ todo = {} /\ UNCHANGED <<mem, disk, class, cur>>
        /\ todo' = {t \in Tasks : class[t] = "RUN" /\ (force \/ ~Reusable(t))}
    BY <1>5 DEF SkipReusable, Quiet, ckptVars, packs
  <2>2. ASSUME NEW t \in Tasks \ todo' PROVE Settled(t)
    <3>1. CASE class[t] # "RUN"
      <4>1. ~HasPack(disk[t]) /\ mem[t] = Excluded(class[t])
        BY <2>1, <3>1 DEF CalmInv, RelocatedPart, Marking
      <4>2. mem[t] # NONE
        BY <1>0, <3>1, <4>1 DEF CollectorTypes, Excluded, Records
      <4>. QED BY <4>1, <4>2 DEF Settled, Excluded
    <3>2. CASE class[t] = "RUN"
      <4>1. mem[t] # NONE /\ mem[t].st = "SUCCESS" /\ disk[t] = Whole(mem[t].pack)
        BY <2>1, <2>2, <3>2 DEF Reusable
      <4>2. mem[t].pack \in Versions \cup {NONE}
        BY <1>0, <4>1 DEF Records
      <4>3. Whole(mem[t].pack) \in Packs /\ Whole(mem[t].pack).v = mem[t].pack
        BY <4>2 DEF Whole, Packs
      <4>. QED BY <4>1, <4>3 DEF Settled
    <3>. QED BY <3>1, <3>2
  <2>. QED BY <2>1, <2>2, SettledStays DEF SettledPart, Writing
<1>6. CASE PickTask
  <2>1. /\ calm /\ pc = "batch" /\ pc' = "fetch" /\ UNCHANGED <<mem, disk>>
        /\ cur' \in todo /\ todo' = todo \ {cur'}
    BY <1>6 DEF PickTask, Quiet, ckptVars, packs
  <2>2. \A t \in Tasks \ todo : Settled(t)
    BY <2>1 DEF CalmInv, SettledPart, Batching, Writing
  <2>. QED BY <2>1, <2>2, SettledStays DEF SettledPart, Writing
<1>7. CASE EndBatch
  <2>1. /\ calm /\ pc = "batch" /\ pc' = "done" /\ todo = {} /\ UNCHANGED <<mem, disk, todo>>
    BY <1>7 DEF EndBatch, Quiet, ckptVars, packs
  <2>2. \A t \in Tasks \ todo : Settled(t)
    BY <2>1 DEF CalmInv, SettledPart, Batching, Writing
  <2>. QED BY <2>1, <2>2, SettledStays DEF SettledPart, Writing
<1>8. CASE Fetch \/ Write \/ MoveGap \/ Tear
  <2>1. /\ calm /\ pc \in Writing /\ pc' \in Writing /\ UNCHANGED <<mem, todo, cur>>
    BY <1>8 DEF Fetch, Write, Unchanged, StagePack, ParkPack, InstallPack, DropAside, Unpark,
        PutBack, LeftAside, Tear, MoveGap, NextWrite, Quiet, Fails, ckptVars, locals, Writing
  <2>2. disk' = disk \/ \E d : disk' = [disk EXCEPT ![slot] = d] \/ disk' = [disk EXCEPT ![cur] = d]
    BY <1>8 DEF Fetch, Write, Unchanged, StagePack, ParkPack, InstallPack, DropAside, Unpark,
        PutBack, Tear, Restored, MoveGap, packs
  <2>3. slot = cur \/ slot = TABLE \/ disk' = disk
    <3>1. CASE pc \in {"compare", "park", "install", "drop", "settle"}
      BY <1>w, <2>1, <3>1 DEF WrittenPart
    <3>2. CASE pc \in {"unpark", "putback"}
      BY <1>w, <2>1, <3>2 DEF WrittenPart
    <3>3. CASE pc = "fetch"
      BY <1>w, <2>1, <3>3 DEF WrittenPart
    <3>4. CASE pc \in {"failed", "gapMoved", "gapFailed"}
      BY <1>8, <3>4 DEF Fetch, Write, Unchanged, StagePack, ParkPack, InstallPack, DropAside,
          Unpark, PutBack, Tear, MoveGap
    <3>. QED BY <2>1, <3>1, <3>2, <3>3, <3>4 DEF Writing
  <2>4. ASSUME NEW t \in Tasks \ todo, t # cur PROVE Settled(t)'
    <3>1. disk'[t] = disk[t]
      BY <1>0, <2>2, <2>3, <2>4 DEF CollectorTypes, Slots
    <3>2. Settled(t)
      BY <1>w, <2>1, <2>4 DEF SettledPart
    <3>. QED BY <2>1, <3>1, <3>2, SettledStays
  <2>5. cur \notin todo
    BY <1>w, <2>1 DEF SettledPart
  <2>. QED BY <2>1, <2>4, <2>5 DEF SettledPart, Writing
<1>9. CASE RecordFailure \/ RecordOutcome \/ RecordGap \/ GapConflict
  <2>1. /\ calm /\ pc \in Writing /\ pc' = "save" /\ UNCHANGED <<disk, todo, cur>>
    BY <1>9 DEF RecordFailure, RecordOutcome, RecordGap, GapConflict, Persist, Writing, packs
  <2>2. PICK r \in Records :
          /\ mem' = [mem EXCEPT ![cur] = r]
          /\ r.st = "SUCCESS" => disk[cur] # NONE /\ disk[cur].v = r.pack
          /\ r.st = "EXCLUDED" => ~HasPack(disk[cur])
    <3>1. CASE RecordFailure \/ GapConflict
      <4>1. mem' = [mem EXCEPT ![cur] = Plain("FAILED")] /\ Plain("FAILED") \in Records
        BY <3>1 DEF RecordFailure, GapConflict, Persist, BeginSave, Plain, Records
      <4>. QED BY <4>1 DEF Plain
    <3>2. CASE RecordOutcome
      <4>1. /\ pc = "settle" /\ job.kind \in {"clean", "partial"}
            /\ mem' = [mem EXCEPT ![cur] = IF job.kind = "clean" THEN Success(job) ELSE Plain("PARTIAL")]
        BY <3>2 DEF RecordOutcome, Persist, BeginSave
      <4>2. job \in Jobs /\ (job.kind = "clean" => disk[cur] # NONE /\ disk[cur].v = job.v)
        BY <1>w, <2>1, <4>1 DEF WrittenPart
      <4>3. CASE job.kind = "clean"
        <5>1. Success(job) \in Records /\ Success(job).pack = job.v /\ Success(job).st = "SUCCESS"
          BY <4>2, <4>3 DEF Success, Records, Jobs
        <5>. QED BY <4>1, <4>2, <4>3, <5>1
      <4>4. CASE job.kind = "partial"
        <5>1. Plain("PARTIAL") \in Records
          BY DEF Plain, Records
        <5>. QED BY <4>1, <4>4, <5>1 DEF Plain
      <4>. QED BY <4>1, <4>3, <4>4
    <3>3. CASE RecordGap
      <4>1. /\ mem' = [mem EXCEPT ![cur] = Excluded("PHYSICAL_TABLE_NOT_FOUND")]
            /\ pc = "gapMoved"
        BY <3>3 DEF RecordGap, Persist, BeginSave
      <4>2. Excluded("PHYSICAL_TABLE_NOT_FOUND") \in Records
        BY DEF Excluded, Records, Reasons
      <4>. QED BY <1>w, <2>1, <4>1, <4>2 DEF WrittenPart, Excluded
    <3>. QED BY <1>9, <3>1, <3>2, <3>3
  <2>3. ASSUME NEW t \in Tasks \ todo PROVE Settled(t)'
    <3>1. CASE t = cur
      <4>1. mem'[t] = r /\ r # NONE
        BY <1>0, <2>2, <3>1
      <4>. QED BY <2>1, <2>2, <3>1, <4>1 DEF Settled, HasPack
    <3>2. CASE t # cur
      <4>1. Settled(t) /\ mem'[t] = mem[t]
        BY <1>0, <1>w, <2>1, <2>2, <2>3, <3>2 DEF SettledPart
      <4>. QED BY <2>1, <4>1 DEF Settled, HasPack
    <3>. QED BY <3>1, <3>2
  <2>. QED BY <2>1, <2>3 DEF SettledPart, Writing
<1>. QED
  BY <1>1, <1>2, <1>3, <1>4, <1>5, <1>6, <1>7, <1>8, <1>9, CalmOutside
     DEF Next, Step, Outcome

\* After a run that nothing failed in or interfered with, checkpoint and packs
\* agree for every task of a batch that has tasks.
THEOREM CalmRunAlwaysSettles ==
    ASSUME Tasks # {}
    PROVE  Spec => []CalmRunSettles
<1>1. Init => CalmInv
  BY DEF Init, CalmInv
<1>2. CollectInv /\ CalmInv /\ [Next]_vars => CalmInv'
  <2>1. ASSUME CollectInv, CalmInv, Next PROVE CalmInv'
    BY <2>1, CalmSaved, CalmRelocated, CalmWritten, CalmSettled DEF CalmInv
  <2>2. ASSUME CalmInv, UNCHANGED vars PROVE CalmInv'
    BY <2>2 DEF vars, ckptVars, files, packs, locals, ghosts, CalmInv, SavedPart, Parses,
        RelocatedPart, Marking, HasPack, WrittenPart, Want, SettledPart, Batching, Settled
  <2>. QED BY <2>1, <2>2
<1>3. CollectInv /\ CalmInv => CalmRunSettles
  <2>1. SUFFICES ASSUME CollectInv, CalmInv, pc = "done", calm
                 PROVE  CalmRunSettles
    BY DEF CalmRunSettles
  <2>2. \A t \in Tasks : Settled(t)
    BY <2>1 DEF CalmInv, SettledPart, Batching, Writing
  <2>3. mem # EmptyDoc
    BY <2>2, DocsAssumption DEF Settled
  <2>4. Parses(status) /\ status.doc = mem
    BY <2>1, <2>3 DEF CalmInv, SavedPart
  <2>. QED BY <2>2, <2>4 DEF CalmRunSettles, Settled
<1>. QED BY <1>1, <1>2, <1>3, CollectInvariant, PTL DEF Spec
=============================================================================
