# A TLA+ verification of sql-static-lineage

This directory models the parts of sql-static-lineage whose correctness depends
on the order in which several processes, crashes, failing operations and data
meet: the collection of input packs, the Machine Facts store (task directories,
index, writer catalog, readers), the publication of lineage artifacts, the paid
calls of the semantic workflow; and the algorithms on which the lineage rests:
the partition scope of a READ and the multi-hop traversal. The modules are
checked by TLC on small instances and their central invariants are proved by
TLAPS for every value of the constants. Paths below are relative to `src/`.

## 1. The system

The program collects SQL tasks and table schemas into *input packs*, analyses
each task's SQL statically into *Machine Facts*, joins the facts into lineage
(one hop, multi hop, field level), and publishes it as artifacts for graph
packages, views and a language-model workflow.

| Component | State it keeps | Operations | Interacts through |
|---|---|---|---|
| Input collection (`scripts/input/mainline`) | `<root>.input-pack-status.json` (+ `.tmp`, `.bak`), archives of excluded tasks | load, repair, save the status; classify, relocate, skip, collect, record | remote queries; the status file of the next run |
| Input packs (`scripts/input/shared/input-pack.ts`) | `tasks/<category>/<id>/`, table directories, `.previous-*` | `writeTaskInput`, `writeTableInput`, `replaceDirectory` | files read by the analysis |
| Machine Facts task directory (`machine-facts.ts`, `machine-facts-runtime.ts`) | `analysis-status.json` (+ `.bak`, `.tmp`), `bundle/`, `.recovery/`, `.staging-*` | `runTask`: recover, reuse, build, validate, publish | directory renames; no lock |
| Machine Facts index (`refreshMachineFactsIndex`) | `task-fact-index.jsonl` (+ `.tmp`), `.lock` | incremental or full refresh at the end of a batch | reads every task directory; lock file |
| Writer catalog (`writer-catalog.ts`) | SQLite tables of writers and coverage | replace or remove the rows of a task, one transaction each | called by the batch before the refresh |
| Machine Facts analysis (rest of `machine-facts.ts`) | none | pure: SQL plan + schema -> records | called by `runTask` |
| JSONL store, gzip migration | `x.jsonl` or `x.jsonl.gz` | read either, migrate | files of bundles |
| Current bundle reader (`current-task-bundle.ts`) | cached index snapshot of a reader context | `loadCurrentTaskBundle` | reads index, status, manifest, outputs |
| Read scope, one hop (`reconcile-one-hop.ts`, `sql-read-scope.ts`, `producer-index-query.ts`) | none (pure) | scope of a READ, partition match, decision per occurrence | facts through the reader |
| Multi hop (`reconcile-multi-hop.ts`) | queue, nodes, edges, bridges, terminals of one traversal | visit, bind, follow, truncate, validate | one hop of each task |
| Lineage publication (`lineage-all.ts`) | `.locks/`, `.staging/`, `artifacts/tasks/<id>/`, `.previous-*` | batch, lock, stage, publish, clean up | directory renames; lock files |
| Semantic workflow (`tools/semantic-workflow`) | run store in SQLite, `run.lock` | reserve budget, call a model, record, replace, revalidate, review | paid remote calls; shared tables |
| Data graph packages and UI | content-addressed graph packages | publish, query, view | read published artifacts |
| Inventory and processing maps, knowledge, catalogs | none | one-shot builders, read-only servers | files |

What makes the system hard is its *store protocols*: everything is files and two
SQLite stores; several command-line processes may work on the same store; a
process may be killed between any two file-system calls; on Windows a rename or
a removal fails when a viewer has a file open; inputs may be edited meanwhile; a
reader takes several reads to collect one logical snapshot; a remote call may
have been billed although its answer never came. Beside that, two pure parts
have hard data: predicates that are only partly understood, and task graphs with
cycles and limits. What must hold:

* input collection: the evidence collected for a task is never lost, not by a
  failing write, not by a move to an archive; a record that was saved is not
  forgotten; an undisturbed run leaves checkpoint and packs in agreement; a run ends;
* task directory: a SUCCESS status names a complete published bundle; crashes and
  failing operations do not lose the last good bundle (one removal can, see below); a
  recovery destroys no evidence; no failure repeats for ever unless the directory asks
  for inspection;
* index and catalog: refreshes are serialised and lose no row of each other; a
  row names a committed manifest; a batch's results are in the catalog and in the
  index; a crash or a taken lock between the two heals;
* reader: what it accepts is one consistent moment of the store, and records are
  those of the accepted manifest;
* read scope: a producer is excluded only when no runtime value lets the READ see
  what it writes; a proven overlap is one (for columns that compare like the code);
* multi hop: each task is expanded once, at its smallest depth; cycles are cut;
  undecided producers are not followed; what is not truncated is complete;
* lineage publication: what is reported as published is published whole, in one
  generation; a failed task keeps its formal artifacts;
* semantic workflow: the budget holds over crashes; an open call is never repeated
  unasked and never counted as free; reviews are not displaced.

The hazards, each at its line and with the properties that cover it, are the
list `hazards` of `PROJECT.json`.

## 2. Modules

| Module | Models | Proofs |
|---|---|---|
| `Checkpoint` | the collector's status file: save by park-and-rename, load with repair from leftovers | in `InputCollect_proofs` |
| `InputCollect` | the batch collector and its packs, composed with `Checkpoint` (EXTENDS) | `InputCollect_proofs` |
| `FactsStore` | the abstract promise of a task directory: a served manifest, set atomically, and the last committed one | |
| `TaskFacts` | `runTask` of any number of processes on one task directory | `TaskFacts_proofs` |
| `FactsIndex` | batches, the writer catalog and the shared index, over abstract task directories | `FactsIndex_proofs` |
| `BundleReader` | a consumer loading a bundle, composed with `TaskFacts` (EXTENDS) and the index row | `BundleReader_proofs` |
| `ReadScope` | predicate -> partition scope -> match with a producer, against what the SQL means | `ReadScope_proofs` |
| `OneHop` | the decision which producers a READ comes from, as operators | in `MultiHop_proofs` |
| `MultiHop` | the traversal, over `OneHop` (EXTENDS), and its validator | `MultiHop_proofs` |
| `LineagePublish` | batches of `runLineageAll` and the artifact directories | `LineagePublish_proofs` |
| `SemanticRun` | `run()`, revalidation and review pages over the shared tables | `SemanticRun_proofs` |
| `MC*` | model values, symmetry, fault sets, batch assignments, packs and predicates for TLC | |

Conventions. Every file-system call (SQLite transaction) that another process or
a crash can come between is one action; computations between two calls belong to
the action of the call that follows or precedes them. `pc[p]` is the program
point of a process; `Goto(p, from, to)` moves it. A local of the code is a
function from processes. Operations that may fail are the program points in
`FaultPoints` (or the kinds in `Troubles`); all crashes, failures and edits
together are at most `MaxTrouble`. A recursive removal is not one call: `Tear` takes
files of the directory, any number of times and at no cost in troubles, until the
removal ends, fails, or its process dies. Operators commented "Slip" are plausible
mistakes in the operator they precede; the mutation tests use them and no
specification does.

### Checkpoint and InputCollect

A status file is its document and its modification time, `[at, doc]`, because a
load that finds no readable status file takes the *newest* `.bak` or `.tmp` that
parses, of whatever process; a rename keeps the time, `now` counts writes. `spare`
holds the leftovers of dead processes. `PowerCut` is the one fault of the
environment beyond a kill: the rename reached the disk and the content did not.

`InputCollect` keeps the directories of the data root (`disk`) and of the two
archives (`manual`, `absent`). A pack is `[v, whole]`: the `contentHash` of its
JSON document and whether the other files match it. All tasks share one table,
`TABLE`. `aside` is the `.previous-<uuid>` of the replacement underway; when its
process ends, or its undoing fails, it becomes `litter`, which nothing in the code looks
for. The history variable `newest` is the content last installed for a task, as long as
`replaceDirectory` has not taken it back; `worn` says that the removal of the previous
pack has begun.

| Code | Actions |
|---|---|
| `loadTaskStatus`, `recoverOrphanStatus` | `LoadStatus`, `RecoverOrphan`, `LoadNothing` (in `Load`) |
| `saveTaskStatus` | `WriteTmp`, `DropBak`, `Park`, `Install`, `CleanBak`, `Undo`, `UndoTmp` (in `Save`) |
| main: size check, `findExcludedTaskIds` | `StartRun`, `Classify`, `LookupFails` |
| `relocateTaskPacks` | `RelocateManual`, `RelocateAbsent`, `RelocateAbsentManual`, `RelocateThrows`, `EndRelocate` |
| recording exclusions, `canSkipSuccessfulTask` | `MarkOne`, `Continue`, `SaveStops`, `SkipReusable` |
| `runTaskBatch`, `collectOneTask` | `PickTask`, `Fetch`, `EndBatch`, `Finish` |
| `writeTaskInput` / `writeTableInput`, `replaceDirectory` | `Unchanged`, `StagePack`, `ParkPack`, `InstallPack`, `DropAside`; its catch block `Unpark` (remove the target), `PutBack` (rename the backup); `Tear` inside both removals |
| outcome of a task | `RecordOutcome`, `RecordFailure`, `MoveGap`, `RecordGap`, `GapConflict` |
| killed process, edited packs | `Killed`, `Edit` |

One collector works on a status file at a time; nothing in the code locks it
(`task-status.ts:260`), so that is an assumption about how the command is used.

### TaskFacts

The variables are the files of `registry/tasks/<id>/` and the locals of `runTask`.
A directory is absent, or `[ok, man]`: whether `validateBundle` accepts it, and
the manifest in it. `sql` is the file that is analysed; it is read twice (the
request, then the analysis). A manifest is `[sql, out]`: two values of
`Outs` stand for an analysis that is not deterministic, which the code refuses
(`NON_DETERMINISTIC_OUTPUT`).

| Code | Actions |
|---|---|
| `recoverArtifactState` | `RestoreStatus`, `ListStaging`, `SweepStaging` (validates), `RemoveStaging`, `RemoveStagingFails`, `SweepDone`, `RestoreBundle`, `RestoreFails`, `CheckInterrupted` |
| `reusableTaskResult` | `Reusable`, `Reuse` |
| `writeStatus` (three files) | `StatusWrite`, `StatusBackup`, `StatusRename`, `StatusClean`, `StatusFails` |
| `buildTaskBundle`, `validateBundle` | `Build`, `StageFiles`, `BuildFails`, `Validate` |
| `publishArtifactBundle` | `PublishReused`, `DropStaging`, `DropStagingFails`, `PublishRefused`, `PublishStart`, `PublishBackup`, `PublishInstall`, `PublishVerify`, `PublishClean`, `PublishFails`; its catch block `RollbackBundle`, `RollbackRestore`, `RollbackFails` |
| catch block of `runTask` | `Discard`, `DiscardFails`, `WriteFailed`, `StatusThrows` |
| `rmSync(.., recursive)` under way | `Tear` |
| killed process, edited SQL | `Crash`, `EditSql` |

`rmSync` removes by path, file after file (the JavaScript implementation of Node 20,
which `package.json:6` asks for at least), so `Tear` takes files of whatever has the name
at that moment. With one process nothing else can have it.

The actions are those of any number of processes, and `BundleReader` puts a reader
beside one. What is claimed of the directory is claimed of one process: nothing in the
code locks a task directory, and two processes on one task do destroy each other's
bundle (below); the operators' document asks not to run two on one Facts root
(`docs/lineage-repair/candidate-field-diagnosis-and-merge-plan-20260915.md:222`).

### FactsIndex

Batches process their tasks one after the other, keep each result in memory, write
the results to the writer catalog (the processes in `Cataloguing`: the batches of
`runInputPackMachineFacts`) and refresh the index at their end. A task directory is
reduced to its status and the manifest of its bundle, which is all a refresh reads;
the version of the input is the manifest. `StartBatch` .. `TaskFails` are `runTask`
as seen through those two; `TasksDone`, `Catalogue`, `CatalogueFails` are
`syncWriterCatalogAfterMachineFacts`, one transaction per task; `Acquire`, `Locked`,
`Load`, `DropRow`, `ReadStatus`, `ReadManifest`, `WriteTemp`, `Rename`,
`RenameFails`, `Release` are `refreshMachineFactsIndex`, call by call. `RemoveLock`
is the person who follows the message of `MACHINE_FACTS_INDEX_LOCKED`: it takes
away a lock whose holder can no longer write. `catalog[t]` is the coverage row and
the manifest its writers were taken from, so that writers of another manifest than
the coverage names are visible.

### BundleReader

`TaskFacts` plus a reader and the index row of the task. The reader's steps are
the reads of `loadCurrentTaskBundle` in their order: index (or the cached
snapshot), existence, status, manifest, manifest bytes, output hashes, output
records, exposure. `Found(f)` is what a read can find in a directory that
is being removed. Two ghost variables record which manifests were served during
the load and whether the directory moved.

### LineagePublish

Batches of `runLineageAll`. A published directory maps three files (`json`, `html`
and the optional `field`) to the run that wrote them, so that a directory with
files of two runs is visible. Actions follow `runTask` (`Lock` opens the lock file,
`Begin` writes the pid and makes `.staging`, `Stage` is mkdtemp; then the stages,
`publishStagedTask`, catch and finally) and the cleanup of `runLineageAll`, with
the in-place publication that Windows falls back to (`Blocked`). Each of these
operations may fail on its own: `LockFails`, `BeginFails`, `StageFails`, `DiscardFails`,
`UnlockFails` and `CleanFails` leave what the code leaves there. Two history variables name
the causes: `spoilt[p]` says how p's run damaged what it should keep (the removal of the
backup stopped half-way, the undoing failed, an in-place copy failed), `harm` which
failures may have left a lock or a staged directory.

### ReadScope and OneHop

`ReadScope` states what the code concludes (`Evaluate`, `Resolve`: `evaluate`,
`combine` and `resolveReadPartitionScope`; `MatchAtom`, `CombineMatches`,
`MatchConstraint`, `MatchEdge`: `producer-index-query.ts`) beside what the SQL means
(`Holds`, `CanRead`: two-valued evaluation of the predicate under every assignment
of the runtime expressions, of the other columns and of the opaque atoms). The
properties compare the two. Its two steps, resolve and match, are taken for every
predicate and every producer of the instance.

A literal is a text. The code has only that: `EQ` and `IN` compare texts, a range
compares two texts as numbers if both spell one, else as texts if both begin with an ISO
date, else not at all (`MatchLiterals`, `CanOrder`, `Less`). What a text means depends on
the column: `Sense[f][l]`. So `01` and `1` may be one value (a number column) or two, and
`10` comes before or after `9`. Where a column takes two of the texts at hand for one
value, or orders them otherwise than the code, the code is wrong about it; `PlainValues`
and `PlainOrder` are that condition, and the properties assume it.

The code calls itself on the children of a predicate and folds lists. The module has
sets of branches and of writes instead (neither the meaning nor any status depends on
order or repetition), predicates nested no more than `Depth` times (`Level`, `Preds`),
and one recursive function over them for each recursive function of the code:
`Evaluation`, `Meaning` and `CombineMatches` say what a predicate gets, given what
its branches got.

`OneHop` is `decideReadOccurrenceProducers` and the final decision of
`reconcile-one-hop.ts` as operators: an occurrence gives each task a match, `Ambiguous`
is "several overwrites of one partition and not one schedule parent among them",
`Reconcile` is the decision for a READ with several occurrences.

### MultiHop

`reconcileMultiHopRootTraversalKernel` is one synchronous loop; the actions are its
turns, so that the invariants hold inside the loops as well as at their ends. The
pack of a task is chosen when it is looked at, from `Packs[t]`, and `limits` is
chosen at the start.

| Code | Actions |
|---|---|
| queue, depth, availability | `TooDeep`, `Unavailable`, `NoReads`, `Expand` (in `Visit`) |
| READs and their terminals | `ReadRefused`, `ReadEnds`, `ReadBinds`, `EndOfReads` |
| producers of a READ | `BindRefused`, `BindBeside`, `BindPrimary`, `EndOfBinds` |
| schedule parents | `ParentKnown`, `ParentRefused`, `ParentFollowed`, `EndOfParents` |
| `validateMultiHop...` | `Finish` ends in "returned" or "thrown" |

### SemanticRun

The state is the SQLite tables (`attempts`, `verdicts`, `replaced`, `repairs`,
`current`, `revision`), the lock file and the locals of `run()`. A request is its
pack and its context; equal requests have equal hashes, which is what the cache
looks for. `Start`, `Look`, `Reserve`, `Note`, `Replace`, `Answer` (a result, an
invalid one, or an uncertain end), `End` are `run()` in `runner.mjs`; `Throws` and `Crash` end it
anywhere; `Unlock` is the person who removes a stale `run.lock` after making sure
that its process is gone. `Prepare`, `Revalidate`, `OpenPage`, `CheckReview`,
`CommitReview` are the other commands on the same tables; a review page saves with
the revision it was rendered from.

## 3. Runs

| Run | Instance | Shows |
|---|---|---|
| `task_one` | 1 process, 2 SQLs, 2 outcomes, any 4 troubles among 16 kinds, fairness; about 100 000 states | `SuccessIsServed`, `LastGoodKept`, `ReportedIsServed`, `StatusNeverLost`, `RecoveryKeepsEvidence`; the file protocol implements `FactsStore`; `Heals`: no failure repeats for ever, except when between runs the directory is in one of the states that ask for inspection, and when the analysis itself keeps changing its outcome |
| `index` | 2 batches on different tasks, both modes, 2 troubles, fairness | `OwnResultsIndexed`, `OwnResultsCatalogued`, `OtherRowsKept`; `CatchesUp`: index and catalog together, unless refreshes of the two keep meeting |
| `reader_chain` | 1 process, 2 SQL texts, 3 troubles, 1 reader | `ChainIsSnapshot`, `StatementsTraceable`, `QuietLoadsAreExact` |
| `publish_one` | 1 batch, 2 tasks, any 3 operations fail, renames may be blocked | `SuccessIsPublished`, `FailureKeepsFormal`, `NothingLeftBehind` |
| `publish_two` | 2 batches on 1 task, publication by renames, a removal that tears | `NoMixedGenerations` |
| `collect_again` | 1 task and its table, 2 contents, 3 runs of the collector, any 2 troubles, fairness; about a million states | `EvidenceKept`, `FailureKeepsPack`, `CalmRunSettles`, `RestartKeepsProgress`, `RunEnds` |
| `semantic` | 2 runners, 2 pages, 2 pilot items, 2 pack versions, 1 trouble, 2 runs, 3 reviews; about two million states | `BudgetHeld`, `UnknownStaysReserved`, `NoBlindReplay`, `OneOpenCall`, `ReplacedHaveEnded`, `ReviewedStaysShown`, `AcceptedHasEnds` |
| `read_scope` | a date field stored as text and a number field, 5 texts (two dates; `01`, `1`, `2`), 2 runtime values, predicates of up to 3 atoms, nested up to `Depth` = 2, producers with 1 or 2 writes; about 470 000 states | `DisjointIsNeverRead`, `ProvenOverlapIsRead` |
| `read_drop` | one date field, two predicates, two producers | finds a counterexample to `OnlyDisjointIsExcluded`, see below |
| `multi_hop` | 5 tasks, 10 settings of the limits, a root with every match of two producers, fairness; about 200 000 states | `DepthIsSmallest`, `FrontierIsPending`, `NoUndecidedPath`, `CyclesAreCut`, `TraversalEnds` |
| `multi_limit`, `multi_beside` | the same | find counterexamples to `LimitsAreReported` and `PrimariesAreLookedAt`, see below |

Why these bounds are enough to mean something. The shortest histories that
break a wrong version of a file protocol need one trouble to leave a debris state
and a second one during the recovery from it (a crash between the two renames,
then a failing rename in the next run); the runs allow two to four, which is a
crash during the recovery of a crash plus an edit. Two inputs are needed to see
a request and an analysis that differ, two outcomes to see non-determinism, two
processes to see an interleaving; a third of any of them takes part in no
guard that two do not reach. Four generations in `LineagePublish` are the published
one, one per process, and one of a dead process.

`collect_again` has three runs because a leftover of the first may compete with one
of the second in the third; its record has one task, since the tasks of a batch meet
only in the shared table: `CalmRunSettles` was also run once with two tasks, one
trouble and two runs. `semantic` has two pilot items because the context of one
quotes the other, and a `Limit` of two reservations so that the third call meets it;
three and four runs with one page, a larger `Limit`, and a third item outside
the pilots were run once each and found nothing more. In `multi_hop` five tasks
hold a diamond and a cycle behind the root; one of the ten limits truncates nothing,
the others stop the traversal at each of its places.

For the invariants that are proved, the bounds do not matter. `TypeOK` of each
module, `SingleWriter`, `RowsWereCommitted` and `TraversalShrinks` are theorems only,
and take no part in a run.

Every property of a passing run has at least one mutation in `PROJECT.json`: a
plausible slip in the modelled code under which the same run finds the property
violated.

### The findings

`read_drop`. `sql-read-scope.ts:227`: the children of an `OR` that have no predicate
are dropped, one that is not understood included, and the result still counts as
supported. Of `p = D1 OR p <> D1`, alone or under an `AND`, only `p = D1` is kept; a
producer of another date is `PROVEN_DISJOINT` and excluded although the READ sees it.
`docs/reconcile-one-hop.md:76` says that only certainly disjoint producers stay out.
`DisjointIsNeverRead` is what holds: no such exclusion as long as no `OR` of the
predicate has a branch of which nothing was understood, and the columns compare texts
like the code.

`multi_limit`. The schedule edge is recorded before `MAX_TASKS` is looked at
(`reconcile-multi-hop.ts:1504`, `:1549`): a parent that does not fit leaves an edge
without a node, and the validator throws `SCHEDULE_EDGE_TASK_MISSING` (`:674`) where
`docs/reconcile-multi-hop.md:187` promises a truncated result. The test
(`tests/reconcile-multi-hop.test.ts:1182`) has the case of a data producer. The theorem
`OnlyTaskLimitEverThrows` says that the validator throws for nothing else.

`multi_beside`. A primary producer that already has a node is answered
ALREADY_DISCOVERED and not queued (`:1478`), also where it was met as a candidate or by a
schedule edge that is not followed: it is never looked at, and the result is not
truncated, although the next level of the traversal should be what one hop calls primary
(`docs/reconcile-multi-hop.md:10`). The theorem `PrimariesAreAlwaysFollowed` says that this
is the only way to miss one.

### Where the code departs from its documents, or surprises

None of these has a run of its own; the properties name them (a case of the formula, an
assumption of the theorem, a history variable), as their comments say.

Task directory, index, reader:

* Two processes on one task: the rollback of the one whose rename failed removes
  the bundle the other published (`machine-facts-runtime.ts:101`); a sweep removes, file
  by file, a staging directory that its owner completes meanwhile. Hence `OneRunner`.
* `publishArtifactBundle`'s catch block removes `bundle/` also when the very first
  rename failed and `bundle/` is still the previous one, and restores a `.recovery`
  that its own failing removal has torn. `LastGoodKept` is exact about it: this removal
  is the only step that takes the last complete bundle, and only where `.recovery/`
  holds none.
* A FAILED result from a moment when another process was analysing removes the row
  that process has written since (`machine-facts.ts:2213`). Hence disjoint batches.
* The catalog keeps the old manifest in the coverage row of a FAILED task; two
  batches that share a task can leave the coverage of one and the writers of the
  other, the two not being read under one lock. `OwnResultsCatalogued` assumes
  disjoint batches and says nothing of the manifest of a FAILED row.
* A bundle swapped in between hashing and parsing is exposed under the old manifest
  (`current-task-bundle.ts:395`). `StatementsTraceable` speaks of the statements only, so
  that a bundle of the same SQL and another schema passes.

Lineage publication:

* "If a task fails, its previous formal directory is kept" (`docs/lineage-all.md:46`, and
  `openspec/changes/unify-evidence-pipeline-run/specs/evidence-pipeline-run/spec.md:48`)
  does not hold for three failures, and `FailureKeepsFormal` says for each what is left.
  The removal of the backup stops half-way after the new directory is in place
  (`lineage-all.ts:920`): the catch block removes the complete new directory and restores
  what is left of the old one. The undoing fails as well: nothing, or a part of the new
  one. A copy of the in-place publication fails (`:952`): files of both runs.
* A taken lock, or a failing mkdir or mkdtemp, is thrown out of the whole batch
  (`BatchThrows`). A failing write of the pid (`:888`), mkdir (`:993`) or mkdtemp (`:994`)
  leaves the lock file, a failing removal leaves the lock (`:1332`) or the staged
  directory (`:1323`): no later run of the task starts until somebody removes the lock.
  `NothingLeftBehind` says which failure leaves what.
* Cleanup removes `.locks` with another batch's lock in it; a third run takes the
  same lock (`lineage-all.ts:1365`, against `design.md:50` of its change).
* A crash between the two renames leaves the formal artifacts under a name no
  later run looks for (`lineage-all.ts:911`, `design.md:66`).
* The in-place fallback on Windows has a directory of two generations while it
  copies, which is why `GenerationsNeverMixed` assumes `~Blocked`; at the end of a
  successful run the directory is whole (`SuccessIsPublished`).

Input collection:

* "If collection or validation fails, the previous valid data MUST be kept"
  (`openspec/changes/unify-task-input-collection-input-pack/specs/task-input-pack/spec.md:180`)
  does not hold when the removal of the previous pack stops half-way: the catch block
  removes the complete new pack and restores the torn old one (`input-pack.ts:1304`).
  `FailureKeepsPack` and `EvidenceKept` name that case (`worn`) and no other.
* `readContentHash` looks at `task.json` only (`input-pack.ts:1341`): a pack whose SQL
  was edited is collected again and "unchanged", so it is never repaired, and each
  later run collects it once more. `CalmRunSettles` therefore speaks of the hash, not
  of `whole`. A `task.json` that does not parse makes it throw (`:1330`).
* A leftover `.previous-<uuid>` is not looked for by the collector, but the discovery of
  `producer-index.ts:564` takes it for a pack.
* The 8 MiB limit ends a run and refuses every later one (`collect-task-input-pack.ts:134`);
  an archive that already has the task ends the whole batch before it starts
  (`collect-one-task-input-pack.ts:381`): `Conflict` in `RelocateThrows`.
* A power cut after the removal of `.bak` can lose the checkpoint (`task-status.ts:276`):
  `RestartKeepsProgress` exempts it through `cut`.

Read scope, one hop, multi hop:

* `EQ` and `IN` compare texts (`producer-index-query.ts:430`): in a column of numbers a
  write of `01` is `PROVEN_DISJOINT` from `p = 1` and excluded, the second way past
  `docs/reconcile-one-hop.md:76`. In a column of texts a range over numbers is decided by
  the numbers (`:311`), so that `9` is excluded from `p > '10'`. `PlainValues` and
  `PlainOrder` are the conditions under which neither happens.
* `runtimeExpressionsEqual` ignores the operator (`producer-index-query.ts:415`), so that
  `p < ${day}` "overlaps" a write of `${day}`; an `AND` with a conjunct that is not
  understood still claims `PROVEN_OVERLAP`. `ProvenOverlapIsRead` is about predicates
  that are understood (`Understood`).
* "BFS guarantees the task's minDepth" (`docs/reconcile-multi-hop.md:182`) is not the
  number of hops from the root: a task met at depth 1 in a role that is not followed, and
  queued by its schedule child at depth 2 (`:1573`), is expanded at depth 2, and its
  producers are given depth 3. `DepthIsSmallest` says what holds: the depth of a task is
  the smallest of the relations recorded to it, each one below the depth at which its
  consumer was expanded.
* The key of the terminals CYCLE and ALREADY_DISCOVERED leaves the consumer out, so that
  a second consumer's terminal is dropped; `CyclesAreCut` speaks of tasks.

Semantic workflow:

* After a crash an attempt that is in flight blocks its item for good: only one that
  ended uncertain can be asked for again (`runner.mjs:29`).
* `finally` unlinks `run.lock` whoever owns it now (`runner.mjs:82`); it is the
  process's own as long as nobody removes the lock of a living one, as `Unlock` assumes.

Not modelled, found while reading: two gzip migrators share one `.migration-tmp`, and a
crash between their rename and unlink leaves both files, which the store reports as
CONFLICT (`migrate-jsonl-gzip.ts:104`); `backfillWriterCatalogFromFacts` may read
ANALYZING while a batch finishes and remove the writers it has just recorded.

### Fairness

* `TaskFacts!FairSpec` and `FactsIndex!FairSpec` assume weak fairness of each process
  as a whole: a batch that was started executes its next statement, and the command
  is run again after it ended. That is how the tool is operated (the batch commands
  loop synchronously over their tasks, and are rerun until the collection is
  complete); nothing in the code retries by itself, and without reruns no claim of
  recovery would be true. `WF(RemoveLock)` is the operator who inspects a leftover
  lock, as the error message asks.
* `InputCollect!FairSpec` assumes that a running collector goes on (`WF(Step)`), and not
  that it is started again: `RunEnds` is about the run underway.
* `MultiHop!FairSpec` assumes that the synchronous loop goes on (`WF(Next)`).

No fairness is assumed of crashes, failures or edits; their number is bounded, so
"once troubles stop" is part of a formula's meaning.

## 4. Proofs

All theorems are checked by tlapm for arbitrary sets of processes, inputs,
outcomes, tasks, packs, faults and any bound on troubles and runs. Each proof
states the inductive invariant as a conjunction of named parts, one lemma per
action (or per action and part), and concludes by PTL.

* `TaskFacts_proofs`. `TypeCorrect` needs no assumption. The others assume
  `OneRunner` (at most one process works on the task, which the code does not enforce)
  and none about faults: every operation may fail, every removal may stop half-way.
  `SuccessIsServed` is not inductive: nothing in it keeps a publication from moving
  the bundle under a SUCCESS status. `ServeInv` adds, for each program point, how far
  staging -> bundle -> status has come: while the process works there is a status, it
  does not say SUCCESS and it has no backup; a SUCCESS about to be written names the
  bundle in place; at `publishInstall` the staged directory is the validated one.
  `SuccessAlwaysServed`, `ReportsAreServed` and `StatusAlwaysKept` follow. With it
  `LastGoodAlwaysKept` is a case distinction over the steps that touch `bundle/` or
  `.recovery/` (`GoodStep`): the removal of `.recovery/` comes after the verification of the
  new bundle, the rename of `bundle/` keeps it, and only `RollbackBundle` removes a complete
  one. `RecoveryAlwaysKeepsEvidence` needs `VictimInv`: what a sweep removes was incomplete
  when it was validated, and nobody completes it. `StoreRefined` is the refinement of
  `FactsStore`: initial states map to initial states and each action to a step of the
  abstract store or a stutter; `CommitInv` says that a status other than SUCCESS repeats
  the last committed manifest.
* `FactsIndex_proofs`. `IndexTypeCorrect`; `IndexSingleWriter` and
  `IndexMutualExclusion` from the invariant that every refreshing process is the one
  in the lock file and that `.tmp` is its own; `IndexRowsCommitted`, strengthened
  to the rows in memory, in `.tmp`, and to the status a refresh has read;
  `IndexOtherRowsKept`, because an incremental refresh carries the rows of other tasks
  forward from an index that cannot change while it holds the lock.
  `CatalogHoldsOwnResults` assumes `DisjointBatches`: while a batch runs, a task it
  still has to process has no result (`PendingHaveNone`), and a result that is a
  manifest is the one in the task's directory (`ResultsOnDisk`), so that the catalog
  transaction reads the writers of the manifest it records. `IndexHoldsOwnResults` goes
  on from there, under the same assumption: from its rename on, the index on disk, and
  whatever another refresh has read, hold the results of the batch (`IndexGood`,
  `RowsGood`), and the other refresh carries them forward.
* `BundleReader_proofs`. `ReaderTypeCorrect`; `StatementsAlwaysTraceable` for any number of
  processes: foreign statements make a load unsound, and only a sound one exposes
  rows (`TraceInv`); `ChainAlwaysSnapshot` under `OneRunner`: a SUCCESS status that
  was read names a manifest that was served when it was read (`ServeInv` of
  `TaskFacts`), and the manifest hashed later equals the one it names (`ChainInv`).
  `QuietLoadsAlwaysExact`, under `OneRunner` too: in a directory that stands still, what
  was read is still there (`StillInv`), and once the chain is accepted the bundle is
  complete, so that every output found is the manifest's.
* `LineagePublish_proofs`. `PublishTypeCorrect`, with the containment of staged
  directories and locks in `.staging` and `.locks`; `GenerationsNeverMixed` under `~Blocked`.
  The three properties of one batch assume `OneBatchAtATime` (at most one process, which
  may be killed and start again; renames may be blocked or not), as in the run that checks
  them; two batches on one artifact directory can break them. `BatchInv` has four parts: `StagedPart` (from
  the last write until the rename the staged directory is the whole generation),
  `FormalPart` (the previous directory is in its place, set aside, or put back, or what
  `spoilt` says of it), `OutcomePart` (a recorded outcome goes with what is published) and
  `Tidy` (locks and staged directories are those of the run underway, or `harm` names what
  left them). They give `SuccessAlwaysPublished`,
  `FailureAlwaysKeepsFormal` and `NothingEverLeftBehind`.
* `InputCollect_proofs`, without assumptions beyond those on the constants (but see the last).
  `CollectTypeCorrect`. `RestartAlwaysKeepsProgress`: a load takes the status file or
  the newest leftover that parses; so the invariant orders the leftovers. `PlaceOK`
  says, for each point of a save, which of status, `.tmp` and `.bak` exist and with
  which document; `AgesOK`, that no two files have one time and that the running
  `.tmp` is the newest; `ProgressOK`, that the status file and, where there is none,
  the newest leftover (`SpareGood`) hold a document of `Progress`. `EvidenceAlwaysKept`
  needs more than where a pack is: an invariant ties the content last installed to the
  place `replaceDirectory` has moved it to, so that `DropAside` drops it only when its
  successor is in place, and the removal in the catch block finds the previous pack whole
  unless its removal had begun. `FailureAlwaysKeepsPack` needs that from the first rename
  to the last undo the pack that was there is in its place, aside, or in the litter.
  `CalmRunAlwaysSettles` is for batches that have tasks (one without saves no document at
  all): while a run is calm, its document is on disk or nothing was recorded (`SavedPart`),
  excluded tasks are relocated before they are marked (`RelocatedPart`), what is written is
  the pack of the task underway, then that of its table (`WrittenPart`), and every task
  the loop is through with is settled (`SettledPart`).
* `MultiHop_proofs`. `TypeInv`; `FrontierAlwaysPending`, inductive with the types;
  `FollowInv` (followed edges lead from tasks that were looked at to decided producers)
  gives `NeverUndecidedPath`; `GraphInv` relates edges, bridges and nodes and, with
  `Halted`, gives `OnlyTaskLimitEverThrows`. `CyclesAreCut` is itself
  inductive, stated over sets (a set without an edge that leaves it is what a cycle
  would be), so that no induction over paths is needed: `HasTaskPath` is "every set
  that contains the start and is closed contains the end". `LevelInv` and `ShortInv`
  (the depths in the queue are within one of each other, and every relation is at the
  depth of its consumer plus one) give `DepthIsAlwaysSmallest`; `WholeInv` (a traversal
  that stopped has a reason, and the consumers of recorded relations are expanded) and
  `TakenInv` (every known task of a primary relation is taken, or was met beside) give
  `PrimariesAreAlwaysFollowed`. `TraversalAlwaysShrinks` is the part of the
  termination that needs no liveness: every step goes down in the lexicographic order of
  what may still be expanded (nothing once stopped), the phase of the loop, what is left
  of it (READs, parents or the frontier) and the bindings of a READ, and that order is
  well-founded (`RanksAreWellFounded`). It rests on `FrontierIsPending`, for a popped task
  must not be expanded already, and on `FiniteInv`.
* `SemanticRun_proofs`. `TypeInv` is `TypeOK` with what each program point knows of its
  locals, the exclusion of two runs (`RunsExclude`, hence `RunsNeverOverlap`, whoever
  removed the lock of whom) and that a page never is ahead of the tables. `OpenUncharged`
  gives `UnknownAlwaysReserved`. `CheckedEnds` and `ReviewsShown` are what a page that
  passed its check still knows when it commits: `AcceptedAlwaysHasEnds`,
  `ReviewedAlwaysShown`. `OpenInv` (the open calls of an item are those the run has
  listed as to be replaced, and the one it makes) gives `OneCallStaysOpen`, `EndedInv`
  gives `OnlyEndedCallsReplaced`. That the newest of a finite set of attempts exists
  (`MaxIsLargest`) is derived from the well-founded ordering of finite sets. `SendInv`
  says that of the calls of one request only the last may count, that a correction is
  on record as a repair unless its run died in between (and then the item is blocked),
  and that what `Look` found still holds when the request is reserved; it gives
  `NoBlindReplayEver`. `BudgetAlwaysHeld` compares two sums over the calls: what is
  due for all of them, and by how much answers went over their own reservation
  (`Total`). `Reserve` adds a row only if the sum the code computes (`Accounted`, which
  is `Total(Due)` over the rows of all runs) leaves room for it (`RowOf`); every other
  step changes what is due for a row by no more than its overrun (`OldRowsCost`).
* `ReadScope_proofs`, for any set of predicates of any (finite) nesting, with any fields,
  values and writes. `KeptIsWeaker`: what `evaluate` keeps of a predicate holds wherever
  the predicate does, unless an `OR` drops a branch (`Remembers`). `KeptIsStronger`: for
  a predicate that is understood and SUPPORTED the converse holds, for the rows that
  satisfy its conditions on other columns. `DisjointFails` and `OverlapHolds` say what a
  certain match of what was kept says of the partitions a write fills; at the atoms they
  lead from the comparison of texts and numbers to the one of their senses, by
  `PlainValues` and `PlainOrder`. With the
  invariant `Inv` (a scope with a predicate is `Evaluate`'s, a certain match is
  `CombineMatches`'s) they give `DisjointProducerIsNeverRead` and
  `ProvenOverlapIsReadAlways`.

Induction over data without an induction rule. The library's induction theorems have an
operator as a parameter and cannot be used here; two arguments stand in for them.
That a recursive function exists and satisfies its equation is proved
for each fold: if some level (some number of elements) had no solution, there would be
a least one (`LeastNumber`, from `WFMin`), and the solution one below extends to it
(`FoldExists` over the levels of predicates; `SumExists` over the sizes of sets). A fact
about all predicates is proved of a smallest counterexample, all of whose branches
have it (`SmallestPred`); one about all sums, of a smallest set (`SmallestSet`).

Only model-checked:

* liveness, which the prover cannot do (no ENABLED): `Heals`, `CatchesUp`, `RunEnds`,
  `TraversalEnds`. Every safety property of a passing run is also a theorem.
  Of `TraversalEnds` it is also proved that the steps cannot go on for ever; that one is
  possible until the end is what the run adds.

## 5. Not modelled

Within the modelled parts:

* `TaskFacts`: the content of the analysis. A manifest stands for its own hash (no
  collisions). Failing writes of `.tmp` and failing reads.
* `FactsIndex`: torn task directories; `backfillWriterCatalogFromFacts` and the
  lookups in the catalog; freezing of raw SQL and the verify mode.
* `BundleReader`: requests for a subset of the outputs; the per-task cache of loads;
  `.json` outputs, which are parsed only when they are exposed (`current-task-bundle.ts:468`). A
  missing index file is treated as a missing row (the code calls one INVALID and the
  other STALE).
* `LineagePublish`: the field-driven closure loop (`lineage-all.ts:1215`) is one step;
  `.previous-*` directories of dead processes are not tracked, because nothing reads
  them.
* `InputCollect`: what the platform answers is chosen when asked; the caches of remote
  queries, the table resolver, the partition evidence and the merging of column
  evidence in packs are left out; two collectors at once are left out, because the
  status file has no lock and nothing is promised for them.
* `ReadScope`: the reconstruction of a predicate from the statement's tokens; `OneHop`:
  reading the packs, and the matching of tasks without occurrences.
* `MultiHop`: frozen snapshots, evidence, counters and table nodes, none of which a
  guard of the traversal reads; the bindings of READs without occurrence decisions
  (`reconcile-multi-hop.ts:1316`). The frontier is a set of tasks with their depths: a
  task queued twice at one depth would be one element.
* `SemanticRun`: prompts, parsing of answers, export. A result has one relation. The
  generic `reviews` table is left out, and with it the dates by which `State.items` orders
  reviewed results (`state.mjs:66`): of several the newest attempt is shown. The inserts of
  the context and of the repair note are one step (`runner.mjs:52`), since no guard reads
  the context alone.

Parts of the system:

* the gzip migration and the publication of graph packages (section 6);
* the Machine Facts analysis, the SQL plans (`plan-adapter.ts`: a wrapper of an external
  parser, whose state is a syntax tree), field lineage, the producer index and the causal
  closures: long pure functions from documents to documents, whose correctness is a
  relation between data models and not an order of steps;
* read-only servers, views, one-shot builders and catalogs: no state a step could break.

## 6. Plan

1. `TopologyPublication`: two publishers of one content hash
   (`project-topology-publication.ts:149`).
2. `GzipMigration`: two migrators and a crash between rename and unlink, with the JSONL
   store's choice of file as the reader. Both are short and independent.
3. The catalog backfill beside a batch inside `FactsIndex`.
4. The closure loop of `lineage-all.ts` over `MultiHop`'s result: termination and which
   tasks it adds.
5. Partition binding of `machine-facts.ts` as operators, compared with the meaning of
   the statement as `ReadScope` does for READs.
