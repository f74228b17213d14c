---------------------------- MODULE BundleReader ----------------------------
(***************************************************************************)
(* A consumer loading the current bundle of one task (current-task-bundle  *)
(* .ts) while TaskFacts' runners work on the task directory, and the row   *)
(* of the task in the shared index that connects the two.                  *)
(*                                                                         *)
(* loadCurrentTaskBundle reads, one file-system call after the other: the  *)
(* index (or the snapshot its reader context cached), the status, the      *)
(* manifest, the manifest again for its hash, each output for its hash,    *)
(* and each output again for its records.  Nothing keeps the runners from  *)
(* replacing the bundle in between.                                        *)
(*                                                                         *)
(* A manifest [sql, out] determines the content of each output: the        *)
(* statements quote the SQL text, the other outputs depend on everything.  *)
(* The inputs of TaskFacts stand for SQL, schema and configuration;        *)
(* TextOf[s] is the SQL text of input s.                                   *)
(***************************************************************************)
EXTENDS TaskFacts

CONSTANTS
    Files,    \* declared outputs of a bundle; "statements" is one of them
    Texts,    \* SQL texts
    TextOf    \* TextOf[s]: the SQL text of input s

ASSUME TextAssumption == TextOf \in [Sqls -> Texts] /\ "statements" \in Files

VARIABLES
    index,    \* row of the task in task-fact-index.jsonl
    ctx,      \* index snapshot cached by the reader context; <<>> before the first load
    rpc,      \* where the reader is
    seen,     \* the status it read
    parsed,   \* the manifest it parsed
    hash,     \* the manifest it hashed
    left,     \* outputs left in its current loop
    rows,     \* parsedJsonl: content parsed per output
    records,  \* records: content exposed per output
    sound,    \* integrityIssues is empty
    loaded,   \* state of the last load: NONE, STALE, INVALID, THROWN, CURRENT
    during,   \* history: the manifests served while the load ran
    quiet     \* history: the task directory has not moved since the load began

runnerVars == vars
chain      == <<seen, parsed, hash>>
outputs    == <<rows, records, sound>>
readerVars == <<ctx, rpc, chain, left, outputs, loaded>>
history    == <<during, quiet>>
allVars    == <<runnerVars, index, readerVars, history>>

NoRows == [f \in Files |-> NONE]
EMPTY  == [sql |-> NONE, out |-> NONE]   \* parsedJsonl has no rows

Content(f, m) == IF f = "statements" THEN [sql |-> TextOf[m.sql], out |-> NONE] ELSE m

ASSUME ContentAssumption == \A t \in Texts : [sql |-> t, out |-> NONE] # NONE

RInit ==
    /\ Init
    /\ index = NONE
    /\ ctx = <<>> /\ rpc = "idle" /\ left = {}
    /\ seen = NONE /\ parsed = NONE /\ hash = NONE
    /\ rows = NoRows /\ records = NoRows /\ sound = TRUE
    /\ loaded = "NONE"
    /\ during = {} /\ quiet = FALSE

Then(from, to) == rpc = from /\ rpc' = to

\* Every step of the reader leaves the store alone.
ReadsOnly == UNCHANGED <<runnerVars, index, history>>

\* The load returns without records, or throws.
Reject(state) ==
    /\ rpc' = "idle"
    /\ loaded' = state
    /\ seen' = NONE /\ parsed' = NONE /\ hash' = NONE /\ left' = {}
    /\ rows' = NoRows /\ records' = NoRows /\ sound' = TRUE

(***************************************************************************)
(* Index -> status -> manifest.                                            *)
(***************************************************************************)

\* A new reader, or one that goes on with its context, loads the task.  The
\* index file is read once per context.
StartLoad ==
    /\ rpc = "idle"
    /\ \E keep \in BOOLEAN : ctx' = IF keep /\ ctx # <<>> THEN ctx ELSE <<index>>
    /\ IF ctx'[1] = NONE
       THEN Reject("STALE")
       ELSE /\ rpc' = "exists"
            /\ loaded' = "NONE"
            /\ records' = NoRows /\ parsed' = NONE /\ hash' = NONE
            /\ UNCHANGED <<seen, left, rows, sound>>
    /\ during' = {Served} \ {NONE}
    /\ quiet' = TRUE
    /\ UNCHANGED <<runnerVars, index>>

CheckExists ==
    /\ rpc = "exists"
    /\ IF status # NONE /\ bundle # NONE /\ bundle.man # NONE
       THEN rpc' = "status" /\ UNCHANGED <<chain, left, outputs, loaded>>
       ELSE Reject("STALE")
    /\ UNCHANGED ctx
    /\ ReadsOnly

ReadStatus ==
    /\ rpc = "status"
    /\ IF status # NONE
       THEN /\ rpc' = "manifest" /\ seen' = status
            /\ UNCHANGED <<parsed, hash, left, outputs, loaded>>
       ELSE Reject("INVALID")
    /\ UNCHANGED ctx
    /\ ReadsOnly

ManifestNow == IF bundle = NONE THEN NONE ELSE bundle.man

ReadManifest ==
    /\ rpc = "manifest"
    /\ IF ManifestNow # NONE
       THEN /\ rpc' = "hash" /\ parsed' = ManifestNow
            /\ UNCHANGED <<seen, hash, left, outputs, loaded>>
       ELSE Reject("INVALID")
    /\ UNCHANGED ctx
    /\ ReadsOnly

\* Slip: the state of the status is not looked at.
AcceptsAnyState(h) ==
    ctx[1] = h /\ seen.cur = h /\ ctx[1].sql = parsed.sql /\ seen.req = parsed.sql

\* staleIssues is empty.
ChainHolds(h) ==
    /\ seen.state = "SUCCESS"
    /\ ctx[1] = h /\ seen.cur = h
    /\ ctx[1].sql = parsed.sql
    /\ seen.req = parsed.sql

\* The manifest is read a second time, outside the try block.
HashManifest ==
    /\ rpc = "hash"
    /\ IF ManifestNow = NONE THEN Reject("THROWN")
       ELSE IF ~ChainHolds(ManifestNow) THEN Reject("STALE")
       ELSE /\ rpc' = "outputs" /\ hash' = ManifestNow /\ left' = Files
            /\ UNCHANGED <<seen, parsed, outputs, loaded>>
    /\ UNCHANGED ctx
    /\ ReadsOnly

(***************************************************************************)
(* Manifest -> outputs, and the records.                                   *)
(***************************************************************************)

\* What is found under the name of output f: a torn directory may have lost it.
Found(f) ==
    IF bundle = NONE THEN {NONE}
    ELSE (IF bundle.man = NONE THEN {} ELSE {Content(f, bundle.man)})
         \cup (IF bundle.ok THEN {} ELSE {NONE})

\* An output is missing, or its hash is not the declared one.  A file that
\* goes between the look and the read makes the load throw.
HashOutput == \E f \in left :
    /\ rpc = "outputs"
    /\ \/ \E c \in Found(f) :
            /\ sound' = (sound /\ c = Content(f, parsed))
            /\ left' = left \ {f}
            /\ UNCHANGED <<rpc, chain, rows, records, loaded>>
       \/ bundle = NONE /\ Reject("THROWN")
    /\ UNCHANGED ctx
    /\ ReadsOnly

\* Slip: no output is selected for parsing.
ParsesNothing ==
    /\ Then("outputs", "parse")
    /\ left = {}
    /\ UNCHANGED <<ctx, chain, left, outputs, loaded>>
    /\ ReadsOnly

StartParsing ==
    /\ Then("outputs", "parse")
    /\ left = {}
    /\ left' = Files
    /\ UNCHANGED <<ctx, chain, outputs, loaded>>
    /\ ReadsOnly

\* Slip: spans and row counts are not compared.
ParsesUnchecked == \E f \in left : \E c \in Found(f) :
    /\ rpc = "parse"
    /\ rows' = [rows EXCEPT ![f] = c]
    /\ left' = left \ {f}
    /\ UNCHANGED <<ctx, rpc, chain, records, sound, loaded>>
    /\ ReadsOnly

\* The records are read again.  A missing file is skipped.  Content that is
\* not the hashed one shows in the row count or not; foreign statements show
\* in their spans, which are compared with the SQL snapshot.
ParseOutput == \E f \in left : \E c \in Found(f) :
    /\ rpc = "parse"
    /\ rows' = [rows EXCEPT ![f] = c]
    /\ \E shows \in BOOLEAN :
          /\ (c \in {NONE, Content(f, parsed)} => ~shows)
          /\ (f = "statements" /\ c \notin {NONE, Content(f, parsed)} => shows)
          /\ sound' = (sound /\ ~shows)
    /\ left' = left \ {f}
    /\ UNCHANGED <<ctx, rpc, chain, records, loaded>>
    /\ ReadsOnly

StartExposing ==
    /\ rpc = "parse"
    /\ left = {}
    /\ IF sound
       THEN rpc' = "expose" /\ left' = Files /\ UNCHANGED <<chain, outputs, loaded>>
       ELSE Reject("INVALID")
    /\ UNCHANGED ctx
    /\ ReadsOnly

\* A file that is there now gets the rows parsed before, or none at all.
ExposeOutput == \E f \in left : \E c \in Found(f) :
    /\ rpc = "expose"
    /\ records' = [records EXCEPT ![f] =
          IF c = NONE THEN NONE ELSE IF rows[f] = NONE THEN EMPTY ELSE rows[f]]
    /\ left' = left \ {f}
    /\ UNCHANGED <<ctx, rpc, chain, rows, sound, loaded>>
    /\ ReadsOnly

Accept ==
    /\ Then("expose", "idle")
    /\ left = {}
    /\ loaded' = "CURRENT"
    /\ seen' = NONE /\ rows' = NoRows
    /\ UNCHANGED <<ctx, parsed, hash, left, records, sound>>
    /\ ReadsOnly

Reader ==
    \/ StartLoad \/ CheckExists \/ ReadStatus \/ ReadManifest \/ HashManifest
    \/ HashOutput \/ StartParsing \/ ParseOutput \/ StartExposing \/ ExposeOutput \/ Accept

(***************************************************************************)
(* The store.                                                              *)
(***************************************************************************)

\* A batch that ended refreshes the row from its result (FactsIndex): the
\* published or reused manifest, or no row.  A batch may also report FAILED
\* for a task that it never ran.
RefreshRow(r) ==
    /\ \/ /\ result[r].kind \in {"PUBLISHED", "REUSED"}
          /\ Served = result[r].man
          /\ index' = result[r].man
       \/ index' = NONE
    /\ index' # index
    /\ UNCHANGED <<runnerVars, readerVars, history>>

StoreMoves ==
    /\ Next
    /\ during' = IF rpc = "idle" THEN during ELSE during \cup ({Served'} \ {NONE})
    /\ quiet' = (quiet /\ UNCHANGED <<status, bundle>>)
    /\ UNCHANGED <<index, readerVars>>

RNext == StoreMoves \/ Reader \/ \E r \in Runners : RefreshRow(r)

RSpec == RInit /\ [][RNext]_allVars

-----------------------------------------------------------------------------
(***************************************************************************)
(* Correctness.                                                            *)
(***************************************************************************)
Contents == {Content(f, m) : f \in Files, m \in Manifests}

\* The locals of a load hold what their names say.
ReaderTypeOK ==
    /\ index \in Manifests \cup {NONE}
    /\ ctx = <<>> \/ ctx[1] \in Manifests \cup {NONE}
    /\ rpc \in {"idle", "exists", "status", "manifest", "hash", "outputs", "parse", "expose"}
    /\ seen \in Statuses \cup {NONE}
    /\ parsed \in Manifests \cup {NONE} /\ hash \in Manifests \cup {NONE}
    /\ left \subseteq Files
    /\ rows \in [Files -> Contents \cup {NONE}]
    /\ records \in [Files -> Contents \cup {NONE, EMPTY}]
    /\ sound \in BOOLEAN
    /\ loaded \in {"NONE", "STALE", "INVALID", "THROWN", "CURRENT"}
    /\ during \subseteq Manifests /\ quiet \in BOOLEAN

\* Four separate reads (index, status, manifest, manifest bytes) amount to
\* one: the manifest hash of a CURRENT load was the served one at some moment
\* of that load, even when the index snapshot was cached long before.
ChainIsSnapshot == loaded = "CURRENT" => hash \in during

\* Whatever is swapped in during a load, its statements are those of the SQL
\* that the accepted manifest names, or missing.
StatementsTraceable ==
    loaded = "CURRENT" =>
        records["statements"] \in {NONE, EMPTY, Content("statements", parsed)}

\* A load during which the task directory does not move is exact: it accepts
\* only the served manifest, with all its records, and rejects it only for a
\* row or a request that names something else.
QuietLoadsAreExact ==
    quiet /\ rpc = "idle" =>
        /\ loaded = "CURRENT" =>
              parsed = Served /\ \A f \in Files : records[f] = Content(f, Served)
        /\ loaded \in {"STALE", "INVALID", "THROWN"} /\ Served # NONE /\ Valid(bundle) =>
              ctx[1] # Served \/ status.req # Served.sql
=============================================================================
