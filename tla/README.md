# TLA+ models of the AI-native data platform

These modules model the parts of `ai_data_platform` in which order, failure and
concurrency decide whether the platform keeps its word: the table operations on
the DEV warehouse file, the pipeline runner on top of them, the runtime
repository behind the context service, and around these the ten tools and
services that agents, reviewers and operators work with. TLC checks each on
small instances (`*.cfg`), and TLAPS proves the main safety properties for every
instance (`*Proofs.tla`). `PROJECT.json` lists components, runs, theorems,
hazards, and for each definition the source lines it models.

Paths below are relative to the package `src/ai_data_platform/` of the
repository unless they start with `docs/` or `tests/`.

## 1. Inventory

### Where state lives

| State | File | Written by | Guarded by |
|---|---|---|---|
| published tables, staging tables, backups, `_platform_pipeline_runs`, `_platform_lineage` | `engineering.duckdb` | engineering toolkit, pipeline runner | DuckDB: one process at a time has the file open for writing; transactions within a session |
| audit records | `engineering-audit.jsonl` | engineering toolkit, runner, authoring | append of one line, after the session is closed |
| observation history | `runtime-history.duckdb` | runtime repository | one connection per process, held for its whole life; a lock per statement |
| latest observation of each dataset | `runtime-metadata.sqlite` | runtime repository | one connection, a lock per statement |
| dataset, pipeline and policy definitions | YAML files | people, drafts of the crawler, promoted proposals | read once at start |
| proposal packages, deployment manifests | state directory | authoring, deployment tools | file by file |
| crawler drafts, dbt projects, sample data | directories of the caller's choice | crawler, dbt export, downloads | file by file, the report or manifest last |

### Components

| Component | State and operations | What is hard | What makes it correct | Module |
|---|---|---|---|---|
| Warehouse table operations (`engineering/service.py`) | tables and backups; replace, publish, prune, restore, each with an audit record | statements that raise half-way; a process dying between commit and record; another process between two sessions | readers see only whole changes; the last change can be undone; the audit file tells no lies | `DevWarehouse` |
| Pipeline runner (`pipelines/runner.py`) | run rows, lineage, staging tables, observations; `ingest`, `run`, `_run_one`, `_record` | a dozen sessions per run with other processes between them; statements that commit one by one; failures that must block what reads from them | only gated content is published; nothing is published over an unpublished upstream; records follow publications | `PipelineRunner` |
| Runtime repository (`runtime/stores.py`) | history and snapshot in two files; record, get latest, trend, summary | late and repeated observations; failure between the two writes; reads between them | the snapshot never turns back; what was answered is served | `RuntimeStore` |
| Context service and HTTP (`context/service.py`, `http/app.py`) | none of its own; handlers on a thread pool | several reads of changing stores per answer | one answer is of one piece | `RuntimeStore` |
| Pipeline project (`pipelines/loader.py`) | the specs; order, selection and lineage over them | cycles, diamonds, repeated ids, selection with downstream | an order that respects inputs; the least selection closed downstream | `PipelineGraph` |
| Quality gates (`pipelines/execution.py`) | none; contract comparison, checks, reconciliation | tolerance at its boundary, nulls, empty tables; a second implementation of the same gates as dbt tests | a candidate passes exactly when its contract and checks say so, natively and in dbt | `Gates` |
| SQL guard and sandbox (`pipelines/sql.py`) | a locked-down connection | scoping of CTEs and relations, case | a query reads declared inputs only | `SqlGuard` |
| Agent authoring (`pipelines/authoring.py`) | proposal packages; validate, dry run with a deadline timer, submit | the timer against the end of a statement; concurrent proposals; a stop between files | a package is whole; a validated proposal passes review unless the repository outran it; a dry run ends | `Authoring` |
| dbt export (`pipelines/dbt.py`) | generated files and a manifest | a stop between the two; files of others | nothing generated is forgotten; only generated files are replaced | `DbtExport` |
| Process wiring (`pipelines/factory.py`, `cli.py`, `api.py`) | who holds which file open | servers, commands and scripts on the same state directory | a dry run sees no command half-done | `StateDirectory` |
| Validation and deployment tools (`engineering/service.py`) | deployment manifests, audit records | a file that changes between validation and digest; timeouts | what is recorded as deployed was validated | `Deployment` |
| Crawler (`engineering/crawler.py`) | drafts and a report | a conflict found after some drafts are written; curators at work | a report stands for a complete area; no curated contract is overwritten | `Crawler` |
| Discovery and ranking (`discovery/`, `policy/`, `runtime/ranking.py`) | none | ties, exclusions, fusion of two rankings, the order of adjustment and cut | excluded datasets never appear; what is left out is not better than what is shown | `Discovery` |
| Governed reasoning (`reasoning/`) | none | an answer that names or cites what it was not given; ambiguity | accepted answers are governed and cite their own evidence | `Reasoning` |
| Sample data (`sample_data.py`) | downloaded files and a manifest | kills while clearing, fetching or listing; an ingest beside it | whole files only; a manifest stands for its files | `SampleData` |
| MCP server and agent tools (`mcp/`, `agent_tools/`) | the services above | lifetime of the files they hold | as the services | `StateDirectory` |
| Registry, embeddings, evaluation, console | files read, vectors, answers | little | references resolve | none |

### How they interact

The runner calls the toolkit to publish, prune and audit, and the runtime
repository to observe. The context service and discovery read the repository;
reasoning reads discovery; HTTP handlers, MCP tools and commands call these
services. Authoring reads the project and the warehouse, and its packages
reach the project only through a reviewer and CI. Nothing sends messages:
processes meet in the files, above all in `engineering.duckdb`, threads of one
server meet in the two runtime stores. The hazards that follow from this are
listed in `PROJECT.json` under `hazards`, each at its line, with the properties
that would catch it going wrong or the reason why none does.

Where one component's model assumes what another one does, the other's module
shows it:

| Assumed | By | Shown by |
|---|---|---|
| the order of pipelines respects their inputs (`Position`) | `PipelineRunner` | `PipelineGraph`, `OrderIsTopological` |
| a table operation is one step of `RollbackTable` | `PipelineRunner`, `KeepsPromise` | `DevWarehouse`, `KeepsPromise` and `UndoAvailable` |
| a candidate passes or fails its gates | `PipelineRunner` | `Gates`, `GatesCarryOverButForNulls` |
| at most one runner observes | `LastSuccess` in `PipelineRunnerProofs` | `StateDirectory`: one process has the history open |
| a proposal is validated as CI will | reviewers in `Authoring` | `SubmittedPassesReview` |
| the latest observation of a dataset | `Discovery`, as any value | `RuntimeStore`, `AnsweredIsServed` |

## 2. Modules

| Module | Models |
|---|---|
| `RollbackTable` | abstract: what the toolkit promises of a published table |
| `DevWarehouse` | the four table operations statement by statement, several processes |
| `RuntimeLedger` | abstract: what the two runtime stores promise together |
| `RuntimeStore` | the runtime repository and the handlers that use it, several threads |
| `PipelineRunner` | `ingest` and `run`, several processes and an operator |
| `PipelineGraph` | loading, validating, ordering and selecting pipelines |
| `Gates` | the gates of a candidate and their dbt counterparts |
| `SqlGuard` | from the text of a spec to the tables it reads |
| `Authoring` | proposals: validation, dry run, package, promotion |
| `DbtExport` | generated files and their manifest over several exports |
| `Deployment` | validation, digest, manifest and audit of a deployment |
| `Crawler` | crawling into a review area, curating and validating drafts |
| `StateDirectory` | which process has which database open |
| `SampleData` | downloads and an ingest that reads beside them |
| `Discovery` | from a question to a ranked, governed short list |
| `Reasoning` | extends `Discovery`: context, draft of a provider, judgement |
| `MC...` | instances for TLC: symmetry, and the tables a `.cfg` cannot write |
| `Rankings` | lemmas on ranks in a finite strict order, for everything that sorts and cuts |
| `DevWarehouseProofs`, `RuntimeStoreProofs`, `PipelineRunnerProofs`, `AuthoringProofs` | theorems on the module of that name |
| `PipelineProjectProofs` | theorems on `PipelineGraph` and `Gates` |
| `ToolFileProofs` | theorems on `DbtExport`, `Deployment`, `Crawler`, `SampleData` and `StateDirectory` |
| `AgentGuardProofs` | theorems on `SqlGuard`, `Discovery` and `Reasoning` |

Definitions commented "a slip" are plausible mistakes in the code at that
point (a dropped guard, a swapped order, a record written too early). No
specification uses them; they exist so that each property can be shown to fail
when the code is wrong: `PROJECT.json` pairs every checked property with such a slip.

### DevWarehouse and RollbackTable

`db` holds the committed content of every table name, `work` what the open
transaction sees. A content is one value: `_copy_table_with_schema` copies definition, rows and
indexes together. A name is a record of kind, table and stamp, because
`prune_backups` selects backups by prefix and orders them by the time-stamp in
the name, while the random suffix only keeps names apart: `FreshStamp` hands
out a stamp nobody has, the latest of all only if `MonotonicClock`.

`Begin` is everything up to `BEGIN TRANSACTION`; `CopyTarget`,
`DropTarget`, `RenameReplacement` (or `CopyBackup`, `DropBackup`) are one statement each;
`Commit` commits and closes. `BeginPrune` lists and decides, each `DropNext`
commits by itself. `Audit` appends the record and answers the caller, so the
backup it names is `promised`. `Raise` is the `except` branch: roll back, close,
and out past the audit; in a prune it needs a drop that is still to come, since after the last
one only the connection is closed. `Crash` is process death at any step, after which DuckDB
recovers the last commit.

`KeepsPromise` states that all this implements `RollbackTable` under the mapping
that shows `db` as the current content and the set of copies as what can be
restored: `Promise!Next` is a publication, a replacement, a restore or a
forgetting, never anything in between.

Left out: approval and environment checks beyond `allow_development_writes` (they
return before any state is touched), restores from a table that is not a copy of
the target, and replacements that are not staging tables of their own.

### RuntimeStore and RuntimeLedger

Each request is a thread; each statement under a store's lock is a step.
`Append` and `Upsert` are the two halves of `record`; the upsert's
`WHERE excluded.observed_at >= ...` is its guard. A context read takes the
snapshot, then the trend, then the summary; discovery reads snapshots once to rank and once to
attach. `Attach` reads those of all datasets, a superset of the returned ones.
`At` is the observation's time, `Epoch` the whole microseconds the history
orders by: the assumption says only that later times have no smaller microsecond, since
distinct times may merge in the float computation. `NewestRows` leaves ties open, as `ORDER BY` does.
`Raise` ends a request where it is; `Crash` ends all that have begun.

`KeepsLedger` states that the two stores, written one after the other, implement
one ledger that only grows, with a current entry per dataset that never turns back.

### PipelineRunner

Each runner is a process: `pc` is its place in `run` and `_run_one`, `todo` what
the loop has left, `blocked` the loop's set of that name, `cur` the pipeline,
run id and status it has in hand. A table's content is the id of the run that
built it, so that "what was published", "what passed its gates" and "what was
read" are relations between ids: `gated`, `published`, `read` and `touched` are
history variables that no guard reads.

A step is a session on the file, or a statement where statements commit one
by one: `RecordRun`, `DropEdges`, `AddEdge` and `CloseRecord` are `_record`, `AuditRun` and
`Observe` what follows it. `FindTarget` and the publication are two sessions, as in
the code: the target may appear in between, which is `Conflict`.
`Build` opens the sandboxed session that the gates run in. `Stop` is whatever
ends `run` early: the file is open elsewhere, a statement raises, the process
dies. `RestoreTable` is an operator at work between the sessions.

Abstractions, each weaker or equal to the code: a table operation of the toolkit
is one step of `RollbackTable`, the specification that `DevWarehouse` implements statement by statement; `Prune` forgets any of the displaced
contents (what it must keep is a property of `DevWarehouse`); gates are a choice of
outcome; the looks at the inputs are one look, since tables only ever appear;
run ids are numbers in the order they are drawn; the runtime repository is its
latest observation per dataset, with a clock that does not step back between
runs; of the audit file only the runner's own records are kept. `execution_order`
is the constant `Position`, which the assumption requires to respect the inputs; any
non-empty selection may be run, so the downstream closure is a special case.

`KeepsPromise` states that to the runners the tables are what `RollbackTable` promises, under
the mapping that shows `table` as the current content and `kept` as what can be restored. So
one abstract specification stands between the two modules: the toolkit implements it, and
the runner, even where a table appears between `FindTarget` and the publication, only ever takes
its steps; a publication that overwrote what it did not see would be none.

The module is as long as the code it stands for: a third of it is types,
the inductive invariant, properties and slips, and the remaining length is the number of
sessions and early exits a run has.

### PipelineGraph

`unread`, `project` and `flawed` are `load_pipeline_project`, one spec file per
step: a file that does not parse and an id that comes twice make the project
flawed, and the later spec replaces the earlier, as the dictionary does.
`Validate` is `validate_pipeline_project`, with the parts of `spec_errors` that
concern inputs, outputs and SQL references. `LookForReady` and `TakeReady` are the two loops of
`execution_order`, `Grow` one pass of `downstream_of`. In the code a pass of
`downstream_of` uses the outputs it had at its start, so the pass is one step.
The properties hold the result against definitions that do not mention the
loops: a topological order, the absence of a *tangle* (pipelines that each wait
for another of them), the least set closed downstream.

### Gates

`build_candidate` gate by gate over a table of small numbers and nulls: contract
comparison, not-null for required columns, each kind of check with its
treatment of nulls, reconciliation over scalar results that may be missing, many, null
or not finite, with its tolerance. `DbtAccepts` is what the tests say that
`dbt.py` generates for the same spec. `GatesCarryOverButForNulls` states
exactly where the two differ: dbt's `unique` ignores nulls where the native check counts them,
and a reconciliation that returns no row is null in dbt.

### SqlGuard

A query is a tree of blocks, each with a name if it is a CTE and a set of references.
`ValidateSelect` looks at names without scopes, as the guard does;
`Bind` looks them up scope by scope and without case, as DuckDB does.
The property compares the two: no reference that the guard took for a CTE binds to
something of the catalogue.

### Authoring

Servers load project and registry at start (`known`, `governed`) and work on one
call each. A trial is a number of statements; the deadline timer is armed over all of them
and `Interrupt` stops the one that runs, or is forgotten between two (`lost`).
A package grows file by file; `StopServer` may come anywhere. `Promote` is the
reviewer who copies a reviewed package, replaces the producer it names and has CI
validate the result. What a package was validated against is kept with it as
history, so that `Outrun` can name the only ways in which a repository that has moved since can refuse
it: its id was taken, an input was lost, it now closes a cycle, or its dataset has been given
a contract. `SubmittedPassesReview` says that CI accepts every submitted package that is not outrun.

### DbtExport, Deployment, Crawler, SampleData

Four tools that write files one by one and a manifest, report or record last.
In `DbtExport`, `owner[f]` says who wrote a file last; a stop inside the manifest
leaves it `Torn`, and `FindStale` is then not enabled, as `json.loads` raises.
`orphans` is history: what a stopped export left that no manifest names.
In `Deployment` the artifact is read by the tests and again for the digest;
`edited` is history. The registry profile never reads the artifact, and the
property says only what the unit profile earns. In `Crawler` all tables
are drafted before the first file is written, but names of files are found
taken in the middle of the loop. Curators may edit a file while the crawl goes on.
In `SampleData` a month is written beside its name and
renamed, the directory is cleared entry by entry, and an ingest picks its files
once and reads them later.

### StateDirectory

`history` is who has `runtime-history.duckdb` open, `writing` and `reading` who
has a session on the warehouse. A command holds the first for its whole life and
opens the second session by session; `DryRunsSeeSettledTables` says that the first keeps
a server's dry runs away from a command that is half-done. `docs/governed-pipelines.md`
can be read as if a command could run beside a serving process on the same state directory; the
code raises at the history file, and the module follows the code.

### Discovery and Reasoning

A question comes with what it matches: excluded datasets, points, metric scores and similar
documents. `DiscoverDatasets`, `Fuse`, `Assess` and `Rerank` are the four stages, with the
weights, the rounding of rank fusion and the comparability threshold of the code. `Candidates` is the
union of both rankings: the code keeps a dataset whose place has rounded to no points at all.
`Reasoning` adds the context (`Consult`), any reply of a provider and the checks of
`select_dataset` in their order (`Judge`). It takes one observation per
dataset for ranking and context alike; that the service reads them twice is in `RuntimeStore`
(`AttachedNotOlder`).

## 3. Runs

| Run | Instance | Question |
|---|---|---|
| `warehouse_newest` | 2 processes, 1 table, 3 contents, 3 copies, faults and crashes, pruning by age | are changes whole, undoable and truthfully recorded, whatever raises or dies, and whose records can get lost? |
| `warehouse_preserve` | 2 processes, each prunes after its own replacement and preserves its backup, keep 2, 2 contents, faults and crashes | does preserving one's own backup cost another its undo, and does a prune leave at most `keep`, the preserved one among them? |
| `warehouse_solo` | 1 process, keep 1, 2 contents, clock may step back, faults and crashes, fairness | does `preserve` make up for names out of order, and does every change reach the audit file unless its operation was interrupted? |
| `warehouse_race` | 2 processes, each prunes after its own replacement, keep 1 | *violated*, see findings |
| `warehouse_unaudited` | 1 process, a prune of two backups, statements may raise | *violated*, see findings |
| `runtime_threads` | 4 posts, a context read, a discovery, faults and a restart, fairness | do late, equal and failed observations keep the ledger, are answers of one piece, and does the history reach the snapshot unless the request failed? |
| `runner_faults` | 1 runner, 2 pipelines, 3 runs, stops anywhere, restores | do tables stay gated, records behind publications, blocked outputs untouched, and has every run in the audit file its complete lineage? |
| `runner_two` | 2 runners that publish and a third without write permission, 2 pipelines, 3 runs | the same when publications race; do the tables keep the promise of `RollbackTable`, and is no refusal recorded as a success? |
| `runner_calm` | 1 runner, a chain of 3 pipelines, 5 runs, fairness | do lineage and observations describe what happened, and is every run recorded? |
| `runner_refused` | a runner without write permission | *violated*, see findings |
| `platform_tools` | one of the ten other components, chosen at the start | what each of them promises: one invariant or action property or more per component, and the deadline of a dry run under fairness |
| `platform_conflict` | the same | *violated*, see findings |

The ten components of `platform_tools` share no variable, so its behaviours are
those of ten separate runs and its states their sum; `MCPlatform` composes them only
in this sense.

**Bounds.** `MaxStamp` = 3 copies and keep of 1 or 2 give a prune something to
drop, something to keep, and a copy taken in between; two processes suffice
for every race between two sessions, and the third content tells the
displaced one from the one before (`warehouse_preserve` and `warehouse_solo` have two, which is enough to tell a content from the one it displaced). Four posts to one dataset and an unknown one
contain a late and an equal-microsecond observation; `Limit` = 1 makes the trend full.
Three runs over two pipelines let a pipeline run, fail and run again, and let
a second runner take a table from under the first (the third, without
write permission, is the runtime repository's observer there); the chain of three is the
shortest on which a failure must block through a skip, and five runs repeat
part of it. Bounds are in the guards (`FreshStamp`, `Start`, `Draw`): a run that
would exceed one does not begin, so nothing stops half-way because of a bound.

In `platform_tools`: three pipelines over three datasets, every combination of
inputs, so chains, diamonds' halves, self-reading and cycles of two and three all
occur. One server submits two packages beside a reviewer; in the repository two pipelines read the third, and the offers close a
cycle (alone, or two together that are each sound), steal a producer with and without its id, and add a mart; `MaxPackages` = 2 lets
the second be validated before the first is promoted and then find its id taken, a contract in its way or itself in a
cycle (that an input is lost takes three packages and is left to the theorem); two statements give an interrupt a
place in and between them. Three exports over three generations of a project let files
appear, go and come back. Two deployments overlap. Four tables have two ids in common and two
ids one file name. Two MCP servers, an HTTP server, two commands and a script meet on one state
directory, with up to three sessions a command. Two downloads of three months let a
second clear what the first left. Candidates have up to two rows, two columns and
every null; queries have three blocks, which is the least for a CTE that is out of
scope. Three datasets and three metrics let the limit cut the better, the
worse or the conflicting one. All of these properties but `DeadlineBinds`, which is a liveness property,
are also proved without bounds.

**Fairness.** `FairSpec` in `DevWarehouse` and `PipelineRunner` is weak fairness of the
continuation of a begun operation: the code is synchronous Python and goes on by
itself. Calls, faults, crashes and restores are never fair. In `RuntimeStore` it is
weak fairness of each handler thread: the locks are held for one
statement and the thread pool runs every request. In `warehouse_solo` statements
raise and processes die: `ChangesReachAudit` exempts the changes of interrupted operations, `LostRecords`, and
`OnlyInterruptionsLoseRecords` (in `warehouse_newest`) says that nothing else is in that set. One process is enough there: what has a
record to write waits for nobody, since the file is closed or its own by then. The fair run of the runner has no faults: what stops do
to its records is the subject of `runner_faults`. `FairAuthoring` is weak fairness of a server's own steps and of its timer
thread; a statement is *not* assumed to end, since ending it is what the deadline is for.

**Deadlock.** `DevWarehouse` and `RuntimeStore` end when the bounds on copies or
requests are used up, and so do several components of `platform_tools` (a
project that is loaded, a question that is answered), so their configurations say
`CHECK_DEADLOCK FALSE`; in `PipelineRunner` an idle runner can always ingest, and
deadlock is checked.

### Findings

* `warehouse_race`: `prune_backups(keep=1, preserve=b)` keeps `b` alone. A
  process that replaced first and prunes after another has replaced drops the
  backup the other was told to "use ... for deterministic rollback"
  (`engineering/service.py:434`).
* `warehouse_unaudited`: the drops of one prune commit one by one and are
  recorded together at the end. In the trace there are two to drop: the first commits, the second raises, and
the first is left without the record
  `docs/milestone-6-ai-native-engineering.md:134` promises for every
  state-changing action.
* `runner_refused`: a publication that is refused leaves the staging table in
  the warehouse, against `docs/governed-pipelines.md:108`.
* `platform_conflict`: ambiguity is assessed over all candidates, its evidence is
  looked up among those the limit left in; a request for clarification may name a
  conflicting metric and cite nothing for it, where
  `docs/milestone-4-governed-reasoning.md:86` promises citations for the
  conflicting metrics.

## 4. Proofs

All theorems hold for every value of the constants that satisfies the named
assumptions of the modules (`WarehouseConstants`, `NoNameIsNoTable`, `StoreConstants`,
`RunnerConstants`, `GraphConstants`, `FirstProjectSound` and so on: sets that do not overlap, bounds that are
naturals, ids that have an order, for the runner an order that respects inputs, for authoring a repository that
passes its own CI at the start), so for any number of processes, tables, requests, pipelines and files.

**DevWarehouseProofs.** `TypeCorrect`; `Invariance`; `Refinement`
(`Spec => Promise!Spec`); `AuditNeverLies`; `LostWithTheirOperation` (a change without a record is owed
by an operation under way or belongs to one that was interrupted) and from it `CalmAudit` (assuming no faults and no
crashes); `UndoAlwaysAvailable` (assuming a clock that does not step back and
`RoomForTheNewest`: where callers preserve a backup they keep at least two; the
run `warehouse_race` shows the theorem false without it); `UndoAvailableAlone` (assuming
`AloneAndPreserving`: one process, which preserves; the clock and `keep` are free, and it is what
`warehouse_solo` shows on an instance); `PrunesReachKeep`, which needs no assumption
about the clock, since `preserve` is what makes up for it.
The inductive invariant `Inv` says which file and transaction belong to which step;
its core is `TransactionFits`, which computes what the open transaction must see
from the committed tables and the step (`View`). Without it `Commit` could publish
anything, and neither the refinement nor the undo would follow. For the
audit, `OwedIsDone` adds what a step still owes, and `InterruptionsAlone` that only `Raise` and `Crash` take that away unwritten; for the undo, `StampsInOrder`
and `UndoKept` add that the undo of each table is a pre-restore copy, which no
prune selects, or the newest backup, and is on no pruner's list. For the process that is alone, `UndoHeld` says
instead that this copy is the one backup of the table the caller was told of, or is about to be told of (`Holds`),
which is the one it preserves. For the prune, `StampsDiffer` says
that no two copies of a table have one stamp, so a sorted list of backups has one order and cutting it after `keep` leaves
`keep` (`Rankings`), and `SparesEnough` that what a running prune will leave is not empty, is at most `keep`, and that it
has not dropped the backup it was to preserve.

**RuntimeStoreProofs.** `Invariance`, `AnsweredServed`, `ContextAgrees`,
`DiscoveryAgrees`, `SnapshotIsNewest`, `Refinement`. The argument is one lemma, `StepsForward`: no
step takes an observation from the history or moves a snapshot back. What
each request has behind it at each step (`PostsPlaced`, `ViewsPlaced`,
`DiscoveriesPlaced`) is therefore stable under all other requests. `SnapshotIsNewest` adds that only an answer changes a snapshot: it is a
newest of the answered observations, and a row of the history that is not served belongs to a request that failed or is
between its two writes. That is the state from which `HistoryReachesSnapshot` needs fairness and nothing else.

**PipelineRunnerProofs.** `TypeCorrect`, `Invariance`, `OnlyGatedEver`,
`Refinement` (`Spec => Promise!Spec`, and from it `DisplacedKept`), `BlockedUntouched`, `RecordsFollow`, and `LastSuccess` (assuming
at most one observing runner). The invariant is local to each runner: `StepFits` (the session is its own
exactly inside its sessions, and what it holds has a type), `CandidatePlaced` (what it
is about to publish passed its gates, what it is about to record was published) and
`LoopFits` (what the loop is done with was published or blocks). `OthersKeep` shows
that a step of one runner leaves all that alone in the others, `OwnFits` goes
through the actions for the runner itself. The last conjunct of `LoopFits` is what
carries blocking through skips: the pipelines read by the one being built come
earlier in the order, so they are done, and since none of them blocks they were published.
`LastSuccess` needs `ObserverAhead`: the run an observer has in hand is later
than every last success.

Four more theorems, `BuiltFromThis`, `LeavesNothing`, `LineageDescribes` and `ObservationTells`, are about a runner that
nothing disturbs (`Alone`: one runner, no faults, no restores; `LeavesNothing` needs one that may write, and
`ObservationTells` one with a runtime repository; the run `runner_refused` shows `LeavesNothing` false without writes,
and disturbances break the other three). They rest on
`Calm`: what this invocation published is still in its table, a pipeline is published once (`OnceEach`), and what it reads
was read from the table as it is. To this `Clean` adds that only the candidate at hand is staged, `Lined` that the lineage of
every dataset but the one being recorded describes its table, and `Telling` that the observations tell of all recorded
runs but the one at hand, which is later than all others; `TellsOneMore` is the step from the fold over a set of runs to the fold
over one run more.

`RunIdsIdentify` is about the abstraction the module rests on, that a run id stands for a candidate: by `Numbered` no two
runners have one id in hand, no row or gated candidate has the id of another run, so a row, a table and a backup each name
one run of one dataset, through stops and restores. `RunsLeaveRecords` (again of a runner that nothing
disturbs) is the safety half of `RunsAreRecorded`: by `Owing` a run id that was drawn is in hand or audited, and what is
audited is recorded.

`LineageIsAudited` needs one runner but holds through faults, stops and restores: a success in the audit file has its complete
lineage and no other edges until a later success of its dataset is recorded. Its invariant `Traced` says how far the edges of a run are at each statement of `_record`, which a stop may
leave half-written, and that the audit comes after all of them.

**PipelineProjectProofs.** `OrdersAreTopological`, `SelectionsAreLeast`, `GatesCarryOver`. From the first pass
on, `GraphInv` splits the pipelines into those in the order and those that remain
(`OrderSplits`) and says that no tangle reaches into the order (`TangleRemains`):
what is taken reads only what is done, and what is done was made by a
pipeline in the order, because validation found no dataset with two producers. When nothing is ready, every
pipeline that remains waits for one that remains, which is a tangle. For the selection, every
set that covers the request and is closed contains what was selected so far.
`LeastIsIn` uses the well-foundedness of the naturals, so project sizes are not bounded and
the sets need not be finite. For the gates, `Sound` says what they demand together; by `GatesInv`
`failures` names exactly the kinds of what has failed so far, so a build passes when it is sound. `ChecksAgree` compares the native check with
dbt's test kind by kind, `ReconciliationsAgree` the scalars and their tolerance; tables, suites and tolerances have any size.

**AuthoringProofs.** `PackagesAreWhole`, `SubmissionsPassReview`. The invariant says for each server
which files its package has at the step it is at and that no two servers write one package; for review, that
a package was valid against the project and the contracts kept with it. `ProposalsPromote` is the
core: on any sound project a sound spec with a free id, inputs that are produced and no cycle is accepted by `CIAccepts` once
promoted. `ContractsStay` carries what was validated over to a repository that has moved: promotions add contracts and
take none away.

**ToolFileProofs.** `DeploymentsHoldUp`, `NoModelIsStale`, `OthersStayUntouched`, `AreaIsComplete`,
`CuratedAlwaysSurvives`, `WholeFiles`, `DryRunsAreSettled`, each with the invariant of its tool: what a call has in hand was
validated; what is generated is in the manifest, under way or an orphan; the
files of a crawl are those of the tables done, one each (`Cardinality` by the library's theorems on finite sets); what a download
has put in place is whole. For the process wiring: whoever is past `OpenRuntime` is the only one in `history`, and who has
a session is alone with the warehouse or among readers.

**AgentGuardProofs.** `ExecutedTextsReadDeclared`, `SelectionsAreGoverned`, `ReasoningTypeCorrect`, `ShownBest`,
`ClarificationsCiteTheirConflicts`. For the guard: a bare name that binds to
nothing local would have to be in the catalogue, and every bare name is some CTE's, and no CTE has a catalogue name. For
reasoning: exclusion is carried from the scores of both modes to the cut (`ExclusionHolds`), a resolved status
means no conflict among all candidates (`StatusTells`), and evidence tied to a dataset is that dataset's own
(`TiedIsOwn`). `ShownBest` reads the cut as ranks: adjusted score and id order the candidates strictly, so by `Rankings` the
first `limit` are exactly `limit`, and all of them where there are fewer. `ClarificationsCiteTheirConflicts` proves
what is left of the promise that `platform_conflict` refutes: a clarification cites the conflicting metrics of
the datasets shown and nothing else, and all conflicting metrics when the limit cuts off no candidate.

**Rankings.** Who comes later has more ahead (`LaterRanksHigher`), so every rank is taken once (`RanksAreTakenOnce`), so the
first `k` of `n` are `k` or all (`FirstAreAsMany`). It rests on the library's theorems on bijections and cardinality.

Only model-checked: the liveness properties (`ChangesReachAudit`, `HistoryReachesSnapshot`,
`RunsAreRecorded`, `DeadlineBinds`), since fairness and `ENABLED` are beyond the prover (of the
second and third the safety half is proved, `SnapshotIsNewest` and `RunsLeaveRecords`), and what is found violated. Every
invariant and every action property of a passing run is a theorem; `OthersUntouched`, of the dbt export, and what
`CalmAudit` says are proved and in no passing run. Nothing here needs induction over data: the loops of the
code are steps of the model.

`At most one observing runner` is what the repository ensures: a process with a
runtime repository holds `runtime-history.duckdb` open, and DuckDB refuses a second
one (`StateDirectory`). Other runners are built without one.

## 5. Not modelled

* **Embeddings, evaluation, browser console.** Floating-point vectors, offline scores and
  presentation: no state and no order of events. Discovery takes the similarities as given.
* **Registry loading and validation.** Files are read once at start and references checked; nothing changes afterwards.
* **`generate_tpch`**, which has DuckDB write its tables in one statement each; **`run_reconciliation`**, which compares two
  tables in one session and audits the outcome; routes and tools that only read.
* **Half-written small files.** `write_text` killed half-way is modelled for the dbt manifest, which the next export
  parses, and by the `.partial` files of downloads; a truncated `review.json`, contract, crawl report or deployment manifest is
  not told apart from one that is not there.
* **DuckDB's sandbox settings** (no external access, memory and temp-disk caps), its recovery after a crash and its file locks are
  taken as they are documented and as the code relies on them.
* **Wording, logging, HTTP status codes and the text of generated SQL.**
