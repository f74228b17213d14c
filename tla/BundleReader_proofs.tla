------------------------ MODULE BundleReader_proofs ------------------------
(***************************************************************************)
(* Theorems about a consumer that loads the bundle of a task while runners *)
(* rewrite it.  They rest on what TaskFacts_proofs shows of the runners:   *)
(* the reader and the index leave the task directory alone, so RSpec       *)
(* implements TaskFacts' Spec and inherits its invariants.                 *)
(***************************************************************************)
EXTENDS BundleReader, TaskFacts_proofs

\* Every step of the composition is a step of the runners or leaves their
\* variables alone.
LEMMA ReaderImplementsTask == RSpec => Spec
<1>1. RInit => Init
  BY DEF RInit
<1>2. [RNext]_allVars => [Next]_vars
  BY DEF RNext, allVars, runnerVars, StoreMoves, Reader, RefreshRow, ReadsOnly,
         StartLoad, CheckExists, ReadStatus, ReadManifest, HashManifest, HashOutput,
         StartParsing, ParseOutput, StartExposing, ExposeOutput, Accept
<1> QED
  BY <1>1, <1>2, PTL DEF RSpec, Spec

(***************************************************************************)
(* Type correctness.                                                       *)
(***************************************************************************)
LEMMA ContentTyped ==
    ASSUME NEW f \in Files, NEW m \in Manifests
    PROVE  Content(f, m) \in Contents
  BY DEF Contents

\* What is found on disk is the content of some output, or nothing.
LEMMA FoundTyped ==
    ASSUME TypeInv, NEW f \in Files, NEW c \in Found(f)
    PROVE  c \in Contents \cup {NONE}
  BY ContentTyped DEF Found, TypeInv, TypeOK, Dirs

ReaderTypeInv ==
    /\ ReaderTypeOK
    /\ rpc \in {"manifest", "hash"} => seen \in Statuses
    /\ rpc \in {"hash", "outputs", "parse", "expose"} => parsed \in Manifests

LEMMA ReaderTypeInit == RInit => ReaderTypeInv
  BY DEF RInit, ReaderTypeInv, ReaderTypeOK, NoRows

LEMMA ReaderTypeStep ==
    ASSUME TypeInv, TypeInv', ReaderTypeInv, [RNext]_allVars
    PROVE  ReaderTypeInv'
<1> USE DEF ReadsOnly, history, chain, outputs, Then, readerVars
<1>0. Served \in Manifests \cup {NONE} /\ (Served \in Manifests \cup {NONE})'
  BY NoneAssumption DEF Served, TypeInv, TypeOK, Statuses
<1>1. CASE StoreMoves
  BY <1>1, <1>0 DEF StoreMoves, ReaderTypeInv, ReaderTypeOK
<1>2. ASSUME NEW r \in Runners, RefreshRow(r) PROVE ReaderTypeInv'
  BY <1>2, <1>0 DEF RefreshRow, ReaderTypeInv, ReaderTypeOK, TypeInv, TypeOK, Results
<1>3. CASE StartLoad
  <2>1. (ctx' = ctx /\ ctx # <<>>) \/ ctx' = <<index>>
    BY <1>3 DEF StartLoad
  <2>2. ctx'[1] \in Manifests \cup {NONE}
    BY <2>1 DEF ReaderTypeInv, ReaderTypeOK
  <2>3. during' \subseteq Manifests /\ quiet' \in BOOLEAN /\ index' = index
    BY <1>3, <1>0 DEF StartLoad
  <2>4. CASE index'= index /\ ctx'[1] = NONE
    BY <1>3, <2>2, <2>3, <2>4 DEF StartLoad, Reject, ReaderTypeInv, ReaderTypeOK, NoRows
  <2>5. CASE ctx'[1] # NONE
    BY <1>3, <2>2, <2>3, <2>5 DEF StartLoad, ReaderTypeInv, ReaderTypeOK, NoRows
  <2> QED
    BY <2>3, <2>4, <2>5
<1>4. CASE CheckExists
  BY <1>4 DEF CheckExists, Reject, ReaderTypeInv, ReaderTypeOK, NoRows
<1>5. CASE ReadStatus
  BY <1>5 DEF ReadStatus, Reject, ReaderTypeInv, ReaderTypeOK, NoRows, TypeInv, TypeOK
<1>6. CASE ReadManifest
  BY <1>6 DEF ReadManifest, ManifestNow, Reject, ReaderTypeInv, ReaderTypeOK, NoRows, TypeInv, TypeOK, Dirs
<1>7. CASE HashManifest
  BY <1>7 DEF HashManifest, ManifestNow, Reject, ReaderTypeInv, ReaderTypeOK, NoRows, TypeInv, TypeOK, Dirs
<1>8. CASE HashOutput
  BY <1>8 DEF HashOutput, Reject, ReaderTypeInv, ReaderTypeOK, NoRows
<1>9. CASE StartParsing
  BY <1>9 DEF StartParsing, ReaderTypeInv, ReaderTypeOK
<1>10. CASE ParseOutput
  BY <1>10, FoundTyped DEF ParseOutput, ReaderTypeInv, ReaderTypeOK
<1>11. CASE StartExposing
  BY <1>11 DEF StartExposing, Reject, ReaderTypeInv, ReaderTypeOK, NoRows
<1>12. CASE ExposeOutput
  BY <1>12 DEF ExposeOutput, ReaderTypeInv, ReaderTypeOK
<1>13. CASE Accept
  BY <1>13 DEF Accept, ReaderTypeInv, ReaderTypeOK, NoRows
<1>14. CASE UNCHANGED allVars
  BY <1>14 DEF allVars, ReaderTypeInv, ReaderTypeOK
<1> QED
  BY <1>1, <1>2, <1>3, <1>4, <1>5, <1>6, <1>7, <1>8, <1>9, <1>10, <1>11, <1>12, <1>13, <1>14
     DEF RNext, Reader

LEMMA ReaderTypeInvariant == RSpec => [](TypeInv /\ ReaderTypeInv)
<1>1. TypeInv /\ TypeInv' /\ ReaderTypeInv /\ [RNext]_allVars => ReaderTypeInv'
  BY ReaderTypeStep
<1> QED
  BY <1>1, ReaderTypeInit, ReaderImplementsTask, TypeInvariant, PTL DEF RSpec

\* Type correctness of loadCurrentTaskBundleWithContext's locals, beside any
\* number of runners.
THEOREM ReaderTypeCorrect == RSpec => []ReaderTypeOK
<1>1. ReaderTypeInv => ReaderTypeOK
  BY DEF ReaderTypeInv
<1> QED
  BY <1>1, ReaderTypeInvariant, PTL

(***************************************************************************)
(* Statements are traceable to the SQL of the accepted manifest.           *)
(***************************************************************************)
\* What a load may parse and expose under the name "statements".
Foreseen == {NONE, EMPTY, Content("statements", parsed)}

\* Rows of foreign statements make the load unsound (their spans do not fit the
\* SQL), and only a sound load exposes rows.
TraceInv ==
    /\ rpc \notin {"parse", "expose"} => rows = NoRows
    /\ rpc \in {"parse", "expose"} /\ sound => rows["statements"] \in Foreseen
    /\ rpc = "expose" => sound
    /\ rpc \notin {"idle", "expose"} => records = NoRows
    /\ rpc = "expose" \/ loaded = "CURRENT" => records["statements"] \in Foreseen
    /\ loaded = "CURRENT" => rpc = "idle"

LEMMA TraceStep ==
    ASSUME ReaderTypeInv, TraceInv, [RNext]_allVars
    PROVE  TraceInv'
<1> USE TextAssumption DEF TraceInv, Foreseen, ReadsOnly, history, chain, outputs, Then, readerVars, Reject
<1>1. CASE StoreMoves
  BY <1>1 DEF StoreMoves
<1>2. ASSUME NEW r \in Runners, RefreshRow(r) PROVE TraceInv'
  BY <1>2 DEF RefreshRow
<1>3. CASE StartLoad
  BY <1>3 DEF StartLoad
<1>4. CASE CheckExists
  BY <1>4 DEF CheckExists
<1>5. CASE ReadStatus
  BY <1>5 DEF ReadStatus
<1>6. CASE ReadManifest
  BY <1>6 DEF ReadManifest
<1>7. CASE HashManifest
  BY <1>7 DEF HashManifest
<1>8. CASE HashOutput
  BY <1>8 DEF HashOutput
<1>9. CASE StartParsing
  BY <1>9 DEF StartParsing, NoRows
<1>10. CASE ParseOutput
  BY <1>10 DEF ParseOutput, ReaderTypeInv, ReaderTypeOK
<1>11. CASE StartExposing
  BY <1>11 DEF StartExposing, NoRows
<1>12. CASE ExposeOutput
  BY <1>12 DEF ExposeOutput, ReaderTypeInv, ReaderTypeOK
<1>13. CASE Accept
  BY <1>13 DEF Accept
<1>14. CASE UNCHANGED allVars
  BY <1>14 DEF allVars
<1> QED
  BY <1>1, <1>2, <1>3, <1>4, <1>5, <1>6, <1>7, <1>8, <1>9, <1>10, <1>11, <1>12, <1>13, <1>14
     DEF RNext, Reader

\* The statements of a CURRENT load are those of the SQL its manifest names, or
\* missing, whatever any number of runners swap in while it runs.
THEOREM StatementsAlwaysTraceable == RSpec => []StatementsTraceable
<1>1. RInit => TraceInv
  BY DEF RInit, TraceInv
<1>2. ReaderTypeInv /\ TraceInv /\ [RNext]_allVars => TraceInv'
  BY TraceStep
<1>3. TraceInv => StatementsTraceable
  BY DEF TraceInv, Foreseen, StatementsTraceable
<1> QED
  BY <1>1, <1>2, <1>3, ReaderTypeInvariant, PTL DEF RSpec

(***************************************************************************)
(* The four reads of the chain amount to one.                              *)
(***************************************************************************)
\* Everything served during the load is in `during`; a SUCCESS status that was
\* read names a manifest that was served when it was read.
ChainInv ==
    /\ rpc # "idle" /\ Served # NONE => Served \in during
    /\ rpc \in {"manifest", "hash"} /\ seen.state = "SUCCESS" => seen.cur \in during
    /\ rpc \in {"outputs", "parse", "expose"} => hash \in during
    /\ loaded = "CURRENT" => rpc = "idle" /\ hash \in during

\* A SUCCESS status is served.
LEMMA SuccessServed ==
    ASSUME TypeInv, ServeInv, status # NONE, status.state = "SUCCESS"
    PROVE  Served = status.cur /\ Served # NONE
<1>1. status.cur # NONE /\ bundle = Intact(status.cur)
  BY DEF ServeInv, SuccessIsServed
<1>2. status.cur \in Manifests
  BY <1>1 DEF TypeInv, TypeOK, Statuses
<1>3. bundle # NONE /\ bundle.man = status.cur
  <2>1. [ok |-> TRUE, man |-> status.cur] \in Dirs
    BY <1>2 DEF Dirs
  <2>2. bundle = [ok |-> TRUE, man |-> status.cur]
    BY <1>1 DEF Intact
  <2> QED
    BY <2>1, <2>2, NoneAssumption
<1> QED
  BY <1>1, <1>3 DEF Served

LEMMA ChainStep ==
    ASSUME TypeInv, ServeInv, ReaderTypeInv, ChainInv, [RNext]_allVars
    PROVE  ChainInv'
<1> USE DEF ChainInv, ReadsOnly, history, chain, outputs, Then, readerVars, Reject
<1>0. UNCHANGED runnerVars => Served' = Served
  BY DEF runnerVars, vars, files, Served
<1>1. CASE StoreMoves
  BY <1>1 DEF StoreMoves
<1>2. ASSUME NEW r \in Runners, RefreshRow(r) PROVE ChainInv'
  BY <1>2, <1>0 DEF RefreshRow
<1>3. CASE StartLoad
  BY <1>3, <1>0 DEF StartLoad
<1>4. CASE CheckExists
  BY <1>4, <1>0 DEF CheckExists
<1>5. CASE ReadStatus
  BY <1>5, <1>0, SuccessServed DEF ReadStatus
<1>6. CASE ReadManifest
  BY <1>6, <1>0 DEF ReadManifest
<1>7. CASE HashManifest
  BY <1>7, <1>0 DEF HashManifest, ChainHolds
<1>8. CASE HashOutput
  BY <1>8, <1>0 DEF HashOutput
<1>9. CASE StartParsing
  BY <1>9, <1>0 DEF StartParsing
<1>10. CASE ParseOutput
  BY <1>10, <1>0 DEF ParseOutput
<1>11. CASE StartExposing
  BY <1>11, <1>0 DEF StartExposing
<1>12. CASE ExposeOutput
  BY <1>12, <1>0 DEF ExposeOutput
<1>13. CASE Accept
  BY <1>13, <1>0 DEF Accept
<1>14. CASE UNCHANGED allVars
  BY <1>14, <1>0 DEF allVars
<1> QED
  BY <1>1, <1>2, <1>3, <1>4, <1>5, <1>6, <1>7, <1>8, <1>9, <1>10, <1>11, <1>12, <1>13, <1>14
     DEF RNext, Reader

\* With one process per task, the manifest hash a CURRENT load accepted was the
\* served one at a moment of that load: comparing the hash with the status
\* read before makes up for the four separate reads and a cached index.
THEOREM ChainAlwaysSnapshot ==
    ASSUME OneRunner
    PROVE  RSpec => []ChainIsSnapshot
<1>1. RInit => ChainInv
  BY DEF RInit, ChainInv
<1>2. TypeInv /\ ServeInv /\ ReaderTypeInv /\ ChainInv /\ [RNext]_allVars => ChainInv'
  BY ChainStep
<1>3. ChainInv => ChainIsSnapshot
  BY DEF ChainInv, ChainIsSnapshot
<1> QED
  BY <1>1, <1>2, <1>3, ReaderTypeInvariant, ReaderImplementsTask, ServeInvariant, PTL DEF RSpec

(***************************************************************************)
(* A load is exact if the task directory stands still.                     *)
(***************************************************************************)
\* Where a load has accepted the chain.
Confirmed == {"outputs", "parse", "expose"}

\* What a load has read of a directory that stands still is still there; once the
\* chain is accepted, that is the served bundle, and every row is its row.
StillInv ==
    /\ rpc \in {"manifest", "hash"} => seen = status /\ status # NONE
    /\ rpc \in {"hash"} \cup Confirmed => bundle # NONE /\ bundle.man = parsed
    /\ rpc \in Confirmed => Served = parsed /\ bundle = Intact(parsed) /\ sound
    /\ rpc = "parse" => \A f \in Files \ left : rows[f] = Content(f, parsed)
    /\ rpc = "expose" => /\ \A f \in Files : rows[f] = Content(f, parsed)
                         /\ \A f \in Files \ left : records[f] = Content(f, parsed)

QuietInv ==
    /\ rpc \notin {"outputs", "parse"} => sound
    /\ quiet => StillInv
    /\ QuietLoadsAreExact

\* The content of an output is something, and all that is found of it in a
\* complete bundle.
LEMMA ContentIsSome ==
    ASSUME NEW f \in Files, NEW m \in Manifests
    PROVE  Content(f, m) # NONE
<1>1. m # NONE /\ m.sql \in Sqls
  BY NoneAssumption DEF Manifests
<1> QED
  BY <1>1, TextAssumption, ContentAssumption DEF Content

LEMMA FoundInIntact ==
    ASSUME NEW f \in Files, NEW m \in Manifests, bundle = Intact(m), bundle # NONE
    PROVE  Found(f) = {Content(f, m)}
<1>1. bundle.man = m /\ bundle.man # NONE /\ bundle.ok
  BY NoneAssumption DEF Intact
<1> QED
  BY <1>1 DEF Found

LEMMA QuietStep ==
    ASSUME TypeInv, ServeInv, ReaderTypeInv, QuietInv, [RNext]_allVars
    PROVE  QuietInv'
<1> USE DEF ReadsOnly, history, chain, outputs, Then, readerVars
<1>0. UNCHANGED <<status, bundle>> => Served' = Served /\ Valid(bundle)' = Valid(bundle)
  BY DEF Served, Valid
<1>a. UNCHANGED runnerVars => UNCHANGED <<status, bundle>>
  BY DEF runnerVars, vars, files
<1>b. UNCHANGED <<status, bundle, readerVars>> /\ (quiet' => quiet) => QuietInv'
  BY <1>0 DEF QuietInv, StillInv, QuietLoadsAreExact, Confirmed
<1>1. CASE StoreMoves
  BY <1>1, <1>b, <1>0 DEF StoreMoves, QuietInv, QuietLoadsAreExact
<1>2. ASSUME NEW r \in Runners, RefreshRow(r) PROVE QuietInv'
  BY <1>2, <1>a, <1>b DEF RefreshRow
<1>3. CASE StartLoad
  BY <1>3, <1>a, <1>0 DEF StartLoad, Reject, QuietInv, StillInv, QuietLoadsAreExact, Confirmed
<1>4. CASE CheckExists
  BY <1>4, <1>a, <1>0 DEF CheckExists, Reject, QuietInv, StillInv, QuietLoadsAreExact, Confirmed, Served
<1>5. CASE ReadStatus
  BY <1>5, <1>a, <1>0 DEF ReadStatus, Reject, QuietInv, StillInv, QuietLoadsAreExact, Confirmed, Served
<1>6. CASE ReadManifest
  BY <1>6, <1>a, <1>0 DEF ReadManifest, ManifestNow, Reject, QuietInv, StillInv, QuietLoadsAreExact, Confirmed, Served
<1>7. CASE HashManifest
  <2> UNCHANGED <<status, bundle>> /\ ctx' = ctx /\ quiet' = quiet /\ Served' = Served
    BY <1>7, <1>a, <1>0 DEF HashManifest
  <2>1. CASE ManifestNow = NONE
    BY <1>7, <2>1 DEF HashManifest, ManifestNow, Reject, QuietInv, StillInv, QuietLoadsAreExact, Confirmed, Served
  <2>2. CASE ManifestNow # NONE /\ ~ChainHolds(ManifestNow)
    <3>1. quiet /\ Served # NONE => ctx[1] # Served \/ status.req # Served.sql
      BY <1>7, <2>2 DEF HashManifest, ManifestNow, ChainHolds, QuietInv, StillInv, Served
    <3> QED
      BY <1>7, <2>2, <3>1 DEF HashManifest, Reject, QuietInv, StillInv, QuietLoadsAreExact, Confirmed
  <2>3. CASE ManifestNow # NONE /\ ChainHolds(ManifestNow)
    <3>1. rpc = "hash" /\ rpc' = "outputs" /\ parsed' = parsed /\ sound' = sound
      BY <1>7, <2>3 DEF HashManifest
    <3>2. quiet => status # NONE /\ status.state = "SUCCESS" /\ status.cur = parsed
      BY <2>3, <3>1 DEF ManifestNow, ChainHolds, QuietInv, StillInv
    <3>3. quiet => Served = parsed /\ bundle = Intact(parsed)
      BY <3>2, SuccessServed DEF ServeInv, SuccessIsServed
    <3>4. quiet => bundle # NONE /\ bundle.man = parsed /\ sound
      BY <3>1 DEF QuietInv, StillInv
    <3>5. (quiet => StillInv)'
      BY <3>1, <3>3, <3>4 DEF StillInv, Confirmed, Intact
    <3>6. QuietLoadsAreExact'
      BY <3>1 DEF QuietLoadsAreExact
    <3> QED
      BY <3>1, <3>5, <3>6 DEF QuietInv
  <2> QED
    BY <2>1, <2>2, <2>3
<1>8. CASE HashOutput
  <2> UNCHANGED <<status, bundle>> /\ ctx' = ctx /\ quiet' = quiet /\ Served' = Served /\ rpc = "outputs"
    BY <1>8, <1>a, <1>0 DEF HashOutput
  <2>1. PICK f \in left :
          \/ \E c \in Found(f) :
                /\ sound' = (sound /\ c = Content(f, parsed))
                /\ left' = left \ {f}
                /\ UNCHANGED <<rpc, chain, rows, records, loaded>>
          \/ bundle = NONE /\ Reject("THROWN")
    BY <1>8 DEF HashOutput
  <2>2. CASE bundle = NONE
    <3>1. ~quiet
      BY <2>2 DEF QuietInv, StillInv, Confirmed
    <3> QED
      BY <2>1, <3>1 DEF Reject, QuietInv, QuietLoadsAreExact
  <2>3. CASE bundle # NONE
    <3>1. PICK c \in Found(f) : sound' = (sound /\ c = Content(f, parsed)) /\ UNCHANGED <<rpc, chain, rows, records, loaded>>
      BY <2>1, <2>3
    <3>2. quiet => c = Content(f, parsed)
      BY <2>3, <3>1, FoundInIntact DEF QuietInv, StillInv, Confirmed, ReaderTypeInv, ReaderTypeOK
    <3>3. (quiet => StillInv)'
      BY <3>1, <3>2 DEF QuietInv, StillInv, Confirmed, Intact
    <3> QED
      BY <3>1, <3>3 DEF QuietInv, QuietLoadsAreExact
  <2> QED
    BY <2>2, <2>3
<1>9. CASE StartParsing
  BY <1>9, <1>a, <1>0 DEF StartParsing, QuietInv, StillInv, QuietLoadsAreExact, Confirmed
<1>10. CASE ParseOutput
  <2> UNCHANGED <<status, bundle, ctx, quiet, chain, records, rpc>> /\ Served' = Served /\ rpc = "parse"
    BY <1>10, <1>a, <1>0 DEF ParseOutput
  <2>1. PICK f \in left : \E c \in Found(f) : rows' = [rows EXCEPT ![f] = c] /\ left' = left \ {f}
    BY <1>10 DEF ParseOutput
  <2>0. PICK c \in Found(f) : rows' = [rows EXCEPT ![f] = c] /\ left' = left \ {f}
    BY <2>1
  <2>2. f \in Files /\ rows \in [Files -> Contents \cup {NONE}] /\ parsed \in Manifests
    BY DEF ReaderTypeInv, ReaderTypeOK
  <2>3. quiet => c = Content(f, parsed)
    BY <2>2, FoundInIntact DEF QuietInv, StillInv, Confirmed
  <2>4. quiet => sound'
    <3>1. quiet => sound /\ \A h \in left : \A d \in Found(h) : d = Content(h, parsed)
      BY <2>2, FoundInIntact DEF QuietInv, StillInv, Confirmed, ReaderTypeInv, ReaderTypeOK
    <3>2. \E h \in left : \E d \in Found(h), shows \in BOOLEAN :
            /\ d \in {NONE, Content(h, parsed)} => ~shows
            /\ sound' = (sound /\ ~shows)
      BY <1>10 DEF ParseOutput
    <3> QED
      BY <3>1, <3>2
  <2>5. quiet => \A h \in Files \ left' : rows'[h] = Content(h, parsed)
    BY <2>0, <2>2, <2>3 DEF QuietInv, StillInv
  <2>6. (quiet => StillInv)'
    BY <2>4, <2>5 DEF QuietInv, StillInv, Confirmed, Intact
  <2> QED
    BY <2>6 DEF QuietInv, QuietLoadsAreExact
<1>11. CASE StartExposing
  BY <1>11, <1>a, <1>0 DEF StartExposing, Reject, QuietInv, StillInv, QuietLoadsAreExact, Confirmed
<1>12. CASE ExposeOutput
  <2> UNCHANGED <<status, bundle, ctx, quiet, chain, rows, sound, rpc>> /\ Served' = Served /\ rpc = "expose"
    BY <1>12, <1>a, <1>0 DEF ExposeOutput
  <2>1. PICK f \in left : \E c \in Found(f) :
          /\ records' = [records EXCEPT ![f] = IF c = NONE THEN NONE ELSE IF rows[f] = NONE THEN EMPTY ELSE rows[f]]
          /\ left' = left \ {f}
    BY <1>12 DEF ExposeOutput
  <2>0. PICK c \in Found(f) :
          /\ records' = [records EXCEPT ![f] = IF c = NONE THEN NONE ELSE IF rows[f] = NONE THEN EMPTY ELSE rows[f]]
          /\ left' = left \ {f}
    BY <2>1
  <2>2. f \in Files /\ records \in [Files -> Contents \cup {NONE, EMPTY}] /\ parsed \in Manifests
    BY DEF ReaderTypeInv, ReaderTypeOK
  <2>3. quiet => c = Content(f, parsed)
    BY <2>2, FoundInIntact DEF QuietInv, StillInv, Confirmed
  <2>4. quiet => rows[f] = Content(f, parsed) /\ Content(f, parsed) # NONE
    BY <2>2, ContentIsSome DEF QuietInv, StillInv
  <2>5. quiet => \A h \in Files \ left' : records'[h] = Content(h, parsed)
    BY <2>0, <2>2, <2>3, <2>4 DEF QuietInv, StillInv
  <2>6. (quiet => StillInv)'
    BY <2>5 DEF QuietInv, StillInv, Confirmed, Intact
  <2> QED
    BY <2>6 DEF QuietInv, QuietLoadsAreExact
<1>13. CASE Accept
  BY <1>13, <1>a, <1>0 DEF Accept, QuietInv, StillInv, QuietLoadsAreExact, Confirmed
<1>14. CASE UNCHANGED allVars
  BY <1>14, <1>a, <1>b DEF allVars
<1> QED
  BY <1>1, <1>2, <1>3, <1>4, <1>5, <1>6, <1>7, <1>8, <1>9, <1>10, <1>11, <1>12, <1>13, <1>14
     DEF RNext, Reader

\* With one process per task, a load during which the task directory does not
\* move accepts only the served manifest, with all its records, and rejects it
\* only for a row or a request that names something else.
THEOREM QuietLoadsAlwaysExact ==
    ASSUME OneRunner
    PROVE  RSpec => []QuietLoadsAreExact
<1>1. RInit => QuietInv
  BY DEF RInit, QuietInv, StillInv, QuietLoadsAreExact
<1>2. TypeInv /\ ServeInv /\ ReaderTypeInv /\ QuietInv /\ [RNext]_allVars => QuietInv'
  BY QuietStep
<1>3. QuietInv => QuietLoadsAreExact
  BY DEF QuietInv
<1> QED
  BY <1>1, <1>2, <1>3, ReaderTypeInvariant, ReaderImplementsTask, ServeInvariant, PTL DEF RSpec
=============================================================================
