--------------------------- MODULE PipelineRunner ---------------------------
(***************************************************************************)
(* PipelineRunner.run: in dependency order, skip what is blocked, build a  *)
(* staging table, gate it, publish it over the table it replaces, prune,   *)
(* and record the run, its lineage and a runtime observation. Each session *)
(* on the warehouse file is a step or, where statements commit one by one, *)
(* a few; between sessions other processes act on the same file.           *)
(*                                                                         *)
(* A table's content is the run that built it. The table operations of     *)
(* EngineeringService are single steps here, which DevWarehouse justifies; *)
(* of the audit file only the records of the runner itself are kept.       *)
(***************************************************************************)
EXTENDS Integers, FiniteSets

CONSTANTS
  Pipelines,   \* a pipeline and the dataset it alone produces
  Inputs,      \* Inputs[p]: the datasets p reads
  Sources,     \* raw sources
  Reads,       \* Reads[p]: the sources p reads
  Position,    \* Position[p]: place in execution_order
  Runners,     \* processes with a PipelineRunner
  Observers,   \* those with a runtime repository
  Writers,     \* those whose EngineeringService may write
  MaxRuns,     \* bound: how many run ids are drawn
  NoRunner,
  NoPipeline,
  Restores,    \* an operator may restore a table from a backup
  Faults       \* a session may raise, a process may die

ASSUME RunnerConstants ==
  /\ Inputs \in [Pipelines -> SUBSET Pipelines]
  /\ Reads \in [Pipelines -> SUBSET Sources]
  /\ Position \in [Pipelines -> Int]
  /\ \A p, q \in Pipelines : Position[p] = Position[q] => p = q
  /\ \A p \in Pipelines : \A q \in Inputs[p] : Position[q] < Position[p]
  /\ Observers \subseteq Runners /\ Writers \subseteq Runners
  /\ NoRunner \notin Runners /\ NoPipeline \notin Pipelines
  /\ MaxRuns \in Nat
  /\ {Restores, Faults} \subseteq BOOLEAN

Runs == 1..MaxRuns
NoRun == 0   \* no table, no backup, no run

Failures == {"failed_contract", "failed_quality", "failed_error"}
Statuses == Failures \cup {"succeeded", "skipped"}
Steps == {"idle", "next", "build", "gate", "target", "replace", "publish", "prune",
          "record", "relineage", "edges", "audit", "observe"}

\* Steps inside a session: the file is open for this runner alone.
InSession == {"gate", "relineage", "edges"}

VARIABLES
  landed,     \* raw tables an ingest has landed
  table,      \* table[p]: the run whose content the dataset's table holds
  kept,       \* kept[p]: the runs whose content a backup of it holds
  staging,    \* runs whose staging table exists
  runs,       \* _platform_pipeline_runs
  lineage,    \* _platform_lineage
  audit,      \* the audit records of ingests and runs
  latest,     \* the runtime repository's latest observation of each dataset
  drawn,      \* run ids drawn so far
  session,    \* the runner that has the file open
  pc, todo, blocked, cur,  \* each runner's place in run and _run_one
  chosen, touched,         \* history: what an invocation covers, the run it published
  gated, published,        \* history: candidates that passed their gates, were published
  read                     \* history: which run's content a run was built from

vars == <<landed, table, kept, staging, runs, lineage, audit, latest, drawn, session,
          pc, todo, blocked, cur, chosen, touched, gated, published, read>>

tables == <<landed, table, kept, staging>>
records == <<runs, lineage, audit, latest>>
invocation == <<todo, blocked, chosen>>
history == <<touched, gated, published, read>>

RunRow == [run : Runs, pipeline : Pipelines, status : Statuses]
Edge == [output : Pipelines, input : Pipelines \cup Sources, run : Runs]
Records == ({"ingest"} \X Sources) \cup ({"run"} \X Runs)
Candidates == Pipelines \X Runs
Observation == [fresh : {"none", "fresh", "stale"},
                quality : {"passing", "failing", "unknown"},
                health : {"healthy", "degraded", "failed", "unknown"},
                success : Runs \cup {NoRun}]
Unobserved == [fresh |-> "none", quality |-> "unknown", health |-> "unknown",
               success |-> NoRun]
Working == [pipeline : Pipelines, run : Runs, status : Statuses \cup {"building"}]
Idle == [pipeline |-> NoPipeline, run |-> NoRun, status |-> "building"]

TablesTyped ==
  /\ landed \in SUBSET Sources
  /\ table \in [Pipelines -> Runs \cup {NoRun}]
  /\ kept \in [Pipelines -> SUBSET Runs]
  /\ staging \in SUBSET Runs

RecordsTyped ==
  /\ runs \in SUBSET RunRow
  /\ lineage \in SUBSET Edge
  /\ audit \in SUBSET Records
  /\ latest \in [Pipelines -> Observation]

ControlTyped ==
  /\ drawn \in 0..MaxRuns
  /\ session \in Runners \cup {NoRunner}
  /\ pc \in [Runners -> Steps]
  /\ todo \in [Runners -> SUBSET Pipelines]
  /\ blocked \in [Runners -> SUBSET Pipelines]
  /\ chosen \in [Runners -> SUBSET Pipelines]
  /\ cur \in [Runners -> Working \cup {Idle}]

HistoryTyped ==
  /\ touched \in [Runners -> [Pipelines -> Runs \cup {NoRun}]]
  /\ gated \in SUBSET Candidates
  /\ published \in SUBSET Candidates
  /\ read \in SUBSET (Runs \X (Runs \cup {NoRun}))

TypeOK == TablesTyped /\ RecordsTyped /\ ControlTyped /\ HistoryTyped

At(w, step) == pc[w] = step
Goto(w, step) == pc' = [pc EXCEPT ![w] = step]

\* connect() raises while another process has the file open.
Free == session = NoRunner
OpenFile(w) == Free /\ session' = w
CloseFile == session' = NoRunner

Exists(p) == table[p] # NoRun
Untouched == [p \in Pipelines |-> NoRun]

Init ==
  /\ landed = {}
  /\ table = [p \in Pipelines |-> NoRun]
  /\ kept = [p \in Pipelines |-> {}]
  /\ staging = {} /\ runs = {} /\ lineage = {} /\ audit = {}
  /\ latest = [p \in Pipelines |-> Unobserved]
  /\ drawn = 0
  /\ session = NoRunner
  /\ pc = [w \in Runners |-> "idle"]
  /\ todo = [w \in Runners |-> {}]
  /\ blocked = [w \in Runners |-> {}]
  /\ cur = [w \in Runners |-> Idle]
  /\ chosen = [w \in Runners |-> {}]
  /\ touched = [w \in Runners |-> Untouched]
  /\ gated = {} /\ published = {} /\ read = {}

-----------------------------------------------------------------------------
(* ingest: the sources land in one transaction; the audit records follow it *)
(* one by one, and a process that dies leaves the rest unwritten.           *)
Ingest(w) ==
  /\ At(w, "idle") /\ Free
  /\ \E S \in SUBSET Sources \ {{}} : \E noted \in SUBSET S :
       /\ noted = S \/ Faults
       /\ landed' = landed \cup S
       /\ audit' = audit \cup ({"ingest"} \X noted)
  /\ UNCHANGED <<table, kept, staging, runs, lineage, latest, drawn, session, pc,
                 invocation, cur, history>>

(* run: any selection, with or without what lies downstream of it.          *)
Pending == {x \in Runners \X Pipelines : x[2] \in todo[x[1]]}

Start(w, selected) ==
  /\ At(w, "idle")
  /\ selected # {}
  /\ drawn + Cardinality(Pending) + Cardinality(selected) <= MaxRuns
  /\ Goto(w, "next")
  /\ todo' = [todo EXCEPT ![w] = selected]
  /\ chosen' = [chosen EXCEPT ![w] = selected]
  /\ blocked' = [blocked EXCEPT ![w] = {}]
  /\ touched' = [touched EXCEPT ![w] = Untouched]
  /\ UNCHANGED <<tables, records, drawn, session, cur, gated, published, read>>

\* The pipeline the loop is at, in execution_order.
IsNext(w, p) ==
  /\ At(w, "next")
  /\ p \in todo[w]
  /\ \A q \in todo[w] : Position[p] <= Position[q]

UpstreamBlocked(w, p) == Inputs[p] \cap blocked[w] # {}
InputsExist(p) == Reads[p] \subseteq landed /\ \A q \in Inputs[p] : Exists(q)

\* A run id, and the pipeline it is for.
Draw(w, p, status) ==
  /\ drawn < MaxRuns
  /\ drawn' = drawn + 1
  /\ cur' = [cur EXCEPT ![w] = [pipeline |-> p, run |-> drawn + 1, status |-> status]]

\* A slip: what was skipped does not block what reads it.
BlockFailed(w, p) ==
  blocked' = IF UpstreamBlocked(w, p) THEN blocked
             ELSE [blocked EXCEPT ![w] = @ \cup {p}]

Settle(w, status) == cur' = [cur EXCEPT ![w] = [@ EXCEPT !.status = status]]
Block(w, p) == blocked' = [blocked EXCEPT ![w] = @ \cup {p}]

(* Blocked by an upstream, or _run_one finds an input missing. Tables only  *)
(* ever appear, so the many looks at the inputs are one.                    *)
PassOver(w, p) ==
  /\ IsNext(w, p) /\ Free
  /\ UpstreamBlocked(w, p) \/ ~InputsExist(p)
  /\ Draw(w, p, IF UpstreamBlocked(w, p) THEN "skipped" ELSE "failed_error")
  /\ Block(w, p)
  /\ Goto(w, "record")
  /\ UNCHANGED <<tables, records, session, todo, chosen, history>>

FindInputs(w, p) ==
  /\ IsNext(w, p) /\ Free
  /\ ~UpstreamBlocked(w, p) /\ InputsExist(p)
  /\ Draw(w, p, "building")
  /\ Goto(w, "build")
  /\ UNCHANGED <<tables, records, session, invocation, history>>

(* build_candidate, in a sandboxed session of its own.                      *)
Build(w) ==
  /\ At(w, "build")
  /\ OpenFile(w)
  /\ staging' = staging \cup {cur[w].run}
  /\ read' = read \cup {<<cur[w].run, table[q]>> : q \in Inputs[cur[w].pipeline]}
  /\ Goto(w, "gate")
  /\ UNCHANGED <<landed, table, kept, records, drawn, invocation, cur, touched,
                 gated, published>>

PassGates(w) ==
  /\ At(w, "gate")
  /\ gated' = gated \cup {<<cur[w].pipeline, cur[w].run>>}
  /\ CloseFile
  /\ Goto(w, "target")
  /\ UNCHANGED <<tables, records, drawn, invocation, cur, touched, published, read>>

\* A slip: a failure is reported and blocks nothing.
FailUnblocked(w, status) ==
  /\ Settle(w, status)
  /\ Goto(w, "record")
  /\ UNCHANGED <<landed, table, kept, records, drawn, invocation, history>>

\* A run that did not publish: run blocks what reads its output.
Fail(w, status) ==
  /\ Settle(w, status)
  /\ Block(w, cur[w].pipeline)
  /\ Goto(w, "record")
  /\ UNCHANGED <<landed, table, kept, records, drawn, todo, chosen, history>>

\* The SQL is refused or raises before a candidate exists.
RefuseSql(w) ==
  /\ At(w, "build") /\ Free
  /\ Fail(w, "failed_error")
  /\ UNCHANGED <<staging, session>>

\* A slip: a failed candidate is kept for inspection.
KeepCandidate(r) == UNCHANGED staging

\* _drop swallows what goes wrong.
Discard(r) == staging' = staging \ {r} \/ (Faults /\ UNCHANGED staging)

\* A slip: a failed gate is reported, and the candidate published all the same.
FailGatesPublishing(w, status) ==
  /\ At(w, "gate")
  /\ CloseFile
  /\ Settle(w, status)
  /\ Goto(w, "target")
  /\ UNCHANGED <<tables, records, drawn, invocation, history>>

FailGates(w, status) ==
  /\ At(w, "gate")
  /\ Discard(cur[w].run)
  /\ CloseFile
  /\ Fail(w, status)

-----------------------------------------------------------------------------
(* _relation_exists(target) decides in a session of its own which           *)
(* publication is called.                                                   *)
FindTarget(w) ==
  /\ At(w, "target") /\ Free
  /\ Goto(w, IF Exists(cur[w].pipeline) THEN "replace" ELSE "publish")
  /\ UNCHANGED <<tables, records, drawn, session, invocation, cur, history>>

\* The staging table takes the target's name.
Publish(w) ==
  LET p == cur[w].pipeline
      r == cur[w].run
  IN /\ w \in Writers /\ Free
     /\ table' = [table EXCEPT ![p] = r]
     /\ staging' = staging \ {r}
     /\ published' = published \cup {<<p, r>>}
     /\ touched' = [touched EXCEPT ![w] = [@ EXCEPT ![p] = r]]
     /\ Goto(w, "prune")
     /\ UNCHANGED <<landed, records, drawn, session, invocation, cur, gated, read>>

SafeReplace(w) ==
  LET p == cur[w].pipeline IN
  /\ At(w, "replace") /\ Exists(p)
  /\ kept' = [kept EXCEPT ![p] = @ \cup {table[p]}]
  /\ Publish(w)

\* A slip: the check for an existing target is left to the caller.
PublishNewOver(w) ==
  /\ At(w, "publish")
  /\ Publish(w)
  /\ UNCHANGED kept

PublishNew(w) ==
  /\ At(w, "publish") /\ ~Exists(cur[w].pipeline)
  /\ Publish(w)
  /\ UNCHANGED kept

\* A slip: the status of the publication is not looked at.
RefusalOverlooked(w) ==
  /\ pc[w] \in {"replace", "publish"} /\ Free
  /\ w \notin Writers
  /\ Goto(w, "prune")
  /\ UNCHANGED <<tables, records, drawn, session, invocation, cur, history>>

\* Writes are disabled: APPROVAL_REQUIRED makes the run fail.
RefusePublication(w) ==
  /\ pc[w] \in {"replace", "publish"} /\ Free
  /\ w \notin Writers
  /\ Fail(w, "failed_error")
  /\ UNCHANGED <<staging, session>>

\* An exception out of run: what is left is neither run nor recorded.
Abort(w) ==
  /\ Goto(w, "idle")
  /\ todo' = [todo EXCEPT ![w] = {}]
  /\ cur' = [cur EXCEPT ![w] = Idle]
  /\ session' = IF session = w THEN NoRunner ELSE session
  /\ UNCHANGED <<tables, records, drawn, blocked, chosen, history>>

(* CONFLICT: the target appeared after FindTarget looked.                   *)
Conflict(w) ==
  /\ At(w, "publish") /\ w \in Writers /\ Free
  /\ Exists(cur[w].pipeline)
  /\ Abort(w)

\* prune_backups forgets some of the displaced contents.
Prune(w) ==
  LET p == cur[w].pipeline IN
  /\ At(w, "prune") /\ Free
  /\ \E forgotten \in SUBSET kept[p] : kept' = [kept EXCEPT ![p] = @ \ forgotten]
  /\ Settle(w, "succeeded")
  /\ Goto(w, "record")
  /\ UNCHANGED <<landed, table, staging, records, drawn, session, invocation, history>>

-----------------------------------------------------------------------------
(* _record: statements commit one by one; a success keeps the session open  *)
(* and replaces the lineage of its output.                                  *)
RecordRun(w) ==
  /\ At(w, "record") /\ Free
  /\ runs' = runs \cup {cur[w]}
  /\ IF cur[w].status = "succeeded"
     THEN session' = w /\ Goto(w, "relineage")
     ELSE session' = session /\ Goto(w, "audit")
  /\ UNCHANGED <<tables, lineage, audit, latest, drawn, invocation, cur, history>>

EdgesOf(p) == {e \in lineage : e.output = p}
EdgesFor(p, r) == {[output |-> p, input |-> i, run |-> r] : i \in Inputs[p] \cup Reads[p]}

\* A slip: the edges of the run before are left in place.
DropNoEdges(w) ==
  /\ At(w, "relineage")
  /\ Goto(w, "edges")
  /\ UNCHANGED <<tables, records, drawn, session, invocation, cur, history>>

DropEdges(w) ==
  /\ At(w, "relineage")
  /\ lineage' = lineage \ EdgesOf(cur[w].pipeline)
  /\ Goto(w, "edges")
  /\ UNCHANGED <<tables, runs, audit, latest, drawn, session, invocation, cur, history>>

AddEdge(w) ==
  /\ At(w, "edges")
  /\ \E e \in EdgesFor(cur[w].pipeline, cur[w].run) \ lineage : lineage' = lineage \cup {e}
  /\ UNCHANGED <<tables, runs, audit, latest, drawn, session, pc, invocation, cur, history>>

\* A slip: the loop over the edges is left after the first.
CloseRecordEarly(w) ==
  /\ At(w, "edges")
  /\ EdgesOf(cur[w].pipeline) # {}
  /\ CloseFile
  /\ Goto(w, "audit")
  /\ UNCHANGED <<tables, records, drawn, invocation, cur, history>>

CloseRecord(w) ==
  /\ At(w, "edges")
  /\ EdgesFor(cur[w].pipeline, cur[w].run) \subseteq lineage
  /\ CloseFile
  /\ Goto(w, "audit")
  /\ UNCHANGED <<tables, records, drawn, invocation, cur, history>>

\* A slip: only successes are audited.
AuditSuccess(w) ==
  /\ At(w, "audit")
  /\ audit' = IF cur[w].status = "succeeded" THEN audit \cup {<<"run", cur[w].run>>} ELSE audit
  /\ Goto(w, "observe")
  /\ UNCHANGED <<tables, runs, lineage, latest, drawn, session, invocation, cur, history>>

AuditRun(w) ==
  /\ At(w, "audit")
  /\ audit' = audit \cup {<<"run", cur[w].run>>}
  /\ Goto(w, "observe")
  /\ UNCHANGED <<tables, runs, lineage, latest, drawn, session, invocation, cur, history>>

(* The observation a run adds to the previous one.                          *)
Quality(status) ==
  CASE status = "succeeded" -> "passing"
    [] status \in {"failed_quality", "failed_contract"} -> "failing"
    [] OTHER -> "unknown"
Health(status) ==
  CASE status = "succeeded" -> "healthy"
    [] status \in {"failed_quality", "failed_contract"} -> "degraded"
    [] status = "failed_error" -> "failed"
    [] OTHER -> "unknown"

\* Slips: a skip is observed like a failure, a failure forgets the last success.
ObservedSkipAnew(previous, row) ==
  [fresh |-> IF row.status = "succeeded" THEN "fresh" ELSE "stale",
   quality |-> Quality(row.status),
   health |-> Health(row.status),
   success |-> IF row.status = "succeeded" THEN row.run ELSE previous.success]
ObservedForgetting(previous, row) ==
  IF row.status = "skipped" THEN [previous EXCEPT !.fresh = "stale"]
  ELSE [fresh |-> IF row.status = "succeeded" THEN "fresh" ELSE "stale",
        quality |-> Quality(row.status),
        health |-> Health(row.status),
        success |-> IF row.status = "succeeded" THEN row.run ELSE NoRun]

Observed(previous, row) ==
  IF row.status = "skipped" THEN [previous EXCEPT !.fresh = "stale"]
  ELSE [fresh |-> IF row.status = "succeeded" THEN "fresh" ELSE "stale",
        quality |-> Quality(row.status),
        health |-> Health(row.status),
        success |-> IF row.status = "succeeded" THEN row.run ELSE previous.success]

Observe(w) ==
  LET p == cur[w].pipeline IN
  /\ At(w, "observe")
  /\ latest' = IF w \in Observers
               THEN [latest EXCEPT ![p] = Observed(@, cur[w])] ELSE latest
  /\ todo' = [todo EXCEPT ![w] = @ \ {p}]
  /\ cur' = [cur EXCEPT ![w] = Idle]
  /\ Goto(w, "next")
  /\ UNCHANGED <<tables, runs, lineage, audit, drawn, session, blocked, chosen, history>>

Finish(w) ==
  /\ At(w, "next") /\ todo[w] = {}
  /\ Goto(w, "idle")
  /\ UNCHANGED <<tables, records, drawn, session, invocation, cur, history>>

-----------------------------------------------------------------------------
(* The run stops: the file is open in another process, something raises, or *)
(* the process dies.                                                        *)
Stop(w) ==
  /\ ~At(w, "idle")
  /\ Faults \/ session \notin {w, NoRunner}
  /\ Abort(w)

(* An operator restores a backup; runs, lineage and runtime state stay.     *)
RestoreTable(p, r) ==
  /\ Restores /\ Free
  /\ Exists(p) /\ r \in kept[p]
  /\ table' = [table EXCEPT ![p] = r]
  /\ \E consumed \in SUBSET {r} : kept' = [kept EXCEPT ![p] = (@ \ consumed) \cup {table[p]}]
  /\ UNCHANGED <<landed, staging, records, drawn, session, pc, invocation, cur, history>>

Call(w) == Ingest(w) \/ \E selected \in SUBSET Pipelines : Start(w, selected)

RunOne(w) ==
  \/ \E p \in Pipelines : PassOver(w, p) \/ FindInputs(w, p)
  \/ Build(w) \/ RefuseSql(w) \/ PassGates(w)
  \/ \E status \in Failures : FailGates(w, status)
  \/ FindTarget(w) \/ SafeReplace(w) \/ PublishNew(w)
  \/ RefusePublication(w) \/ Conflict(w) \/ Prune(w)

RecordOne(w) ==
  \/ RecordRun(w) \/ DropEdges(w) \/ AddEdge(w) \/ CloseRecord(w)
  \/ AuditRun(w) \/ Observe(w) \/ Finish(w)

Step(w) == Call(w) \/ RunOne(w) \/ RecordOne(w) \/ Stop(w)

Next ==
  \/ \E w \in Runners : Step(w)
  \/ \E p \in Pipelines, r \in Runs : RestoreTable(p, r)

Spec == Init /\ [][Next]_vars

\* An invocation runs on: run is one synchronous loop.
FairSpec == Spec /\ \A w \in Runners : WF_vars(RunOne(w) \/ RecordOne(w))

-----------------------------------------------------------------------------
(* The parts of the inductive invariant, for each runner: the file is open  *)
(* for it just inside its sessions, and what it holds fits its step; past   *)
(* its gates a candidate has passed them, past publication it was           *)
(* published, and a recorded run stays recorded; what the loop is done with *)
(* was published or blocks, and what it builds reads nothing that blocks or *)
(* is still to come.                                                        *)
Publishing == {"target", "replace", "publish"}
Recorded == {"relineage", "edges", "audit", "observe"}
Done(w) == <<cur[w].pipeline, cur[w].run>>
Settled(w, p) == p \in blocked[w] \/ touched[w][p] # NoRun

StepFits(w) ==
  /\ session = w <=> pc[w] \in InSession
  /\ pc[w] \notin {"idle", "next"} => cur[w] \in Working
  /\ pc[w] \in {"record"} \cup Recorded => cur[w].status \in Statuses

CandidatePlaced(w) ==
  /\ pc[w] \in Publishing => Done(w) \in gated
  /\ pc[w] = "prune" => Done(w) \in published
  /\ pc[w] \in {"record"} \cup Recorded /\ cur[w].status = "succeeded"
       => Done(w) \in published
  /\ pc[w] \in Recorded => cur[w] \in runs
  /\ pc[w] \in {"relineage", "edges"} => cur[w].status = "succeeded"
  /\ pc[w] = "edges" => \A e \in EdgesOf(cur[w].pipeline) : e.run = cur[w].run

LoopFits(w) ==
  /\ pc[w] # "idle" => \A p \in chosen[w] \ todo[w] : Settled(w, p)
  /\ pc[w] \in {"prune", "record"} \cup Recorded => Settled(w, cur[w].pipeline)
  /\ pc[w] \in {"build", "gate"} \cup Publishing =>
       \A q \in Inputs[cur[w].pipeline] \cap chosen[w] : touched[w][q] # NoRun

Inv ==
  /\ TypeOK
  /\ published \subseteq gated
  /\ \A w \in Runners : StepFits(w) /\ CandidatePlaced(w) /\ LoopFits(w)

(* A table and its backups hold only what passed the gates of the pipeline  *)
(* that produces the table, whatever runs, failures and restores there were *)
(* (runner.py:256; governed-pipelines.md:108).                              *)
OnlyGatedIsPublished ==
  \A p \in Pipelines : \A r \in kept[p] \cup ({table[p]} \ {NoRun}) : <<p, r>> \in gated

(* What is recorded was done: a recorded success was published, a lineage   *)
(* edge and a last success name a recorded success, and all edges of an     *)
(* output name one run, even if recording them was cut short.               *)
Succeeded(p, r) == [run |-> r, pipeline |-> p, status |-> "succeeded"] \in runs
RecordsFollowPublication ==
  /\ \A p \in Pipelines, r \in Runs : Succeeded(p, r) => <<p, r>> \in published
  /\ \A e \in lineage : Succeeded(e.output, e.run)
  /\ \A p \in Pipelines : latest[p].success # NoRun => Succeeded(p, latest[p].success)
  /\ \A p \in Pipelines : \A d, e \in EdgesOf(p) : d.run = e.run

(* Nothing is published over an upstream that this invocation ran and did   *)
(* not publish, directly or through what was skipped in between             *)
(* (governed-pipelines.md:102).                                             *)
BlockedStaysUntouched ==
  \A w \in Runners : \A p \in chosen[w] : \A q \in Inputs[p] \cap chosen[w] :
    touched[w][p] # NoRun => touched[w][q] # NoRun

(* With one runner and no restores it was even built from what the upstream *)
(* published in this invocation.                                            *)
BuiltFromThisInvocation ==
  \A w \in Runners : \A p \in chosen[w] : \A q \in Inputs[p] \cap chosen[w] :
    touched[w][p] # NoRun => <<touched[w][p], touched[w][q]>> \in read

(* To the runners the tables are what RollbackTable promises: a publication *)
(* keeps the content it displaces, also when the table appeared after the   *)
(* runner looked for it (runner.py:271), and of two that publish at once    *)
(* neither overwrites the other unseen.                                     *)
Promise == INSTANCE RollbackTable WITH
  Targets <- Pipelines, Contents <- Runs, Absent <- NoRun, cur <- table, kept <- kept
KeepsPromise == Promise!Spec

Quiet == \A w \in Runners : pc[w] \in {"idle", "next"}

(* Between runs the lineage of a published dataset names the run that built *)
(* its table and exactly the inputs its pipeline declares (runner.py:312).  *)
LineageDescribesTables ==
  Quiet => \A p \in Pipelines :
    EdgesOf(p) = IF Exists(p) THEN EdgesFor(p, table[p]) ELSE {}

(* With one runner, an audited success has all its edges and no others,     *)
(* until a later success of its dataset is recorded: a replacement that was *)
(* cut short between its statements never passes for a finished one         *)
(* (governed-pipelines.md:111, runner.py:299-323).                          *)
AuditedRunsHaveLineage ==
  \A p \in Pipelines, r \in Runs :
    Succeeded(p, r) /\ <<"run", r>> \in audit =>
      \/ EdgesOf(p) = EdgesFor(p, r)
      \/ \E later \in Runs : later > r /\ Succeeded(p, later)

(* The outcome table of governed-pipelines.md:114-121 as a fold over the    *)
(* recorded runs of a dataset: the last run decides freshness, the last run *)
(* that was not skipped quality and health, the last success stays.         *)
Last(rows) == CHOOSE row \in rows : \A other \in rows : other.run <= row.run
Told(p) ==
  LET rows == {row \in runs : row.pipeline = p}
      built == {row \in rows : row.status # "skipped"}
      succeeded == {row \in rows : row.status = "succeeded"}
  IN [fresh |-> IF rows = {} THEN "none"
                ELSE IF Last(rows) \in succeeded THEN "fresh" ELSE "stale",
      quality |-> IF built = {} THEN "unknown" ELSE Quality(Last(built).status),
      health |-> IF built = {} THEN "unknown" ELSE Health(Last(built).status),
      success |-> IF succeeded = {} THEN NoRun ELSE Last(succeeded).run]
ObservationTellsRuns == Quiet => \A p \in Pipelines : latest[p] = Told(p)

\* No last success is as late as the run the observer is at.
ObserverAhead ==
  /\ \A p \in Pipelines : latest[p].success <= drawn
  /\ \A w \in Observers : pc[w] \notin {"idle", "next"} =>
       /\ cur[w].run <= drawn
       /\ \A p \in Pipelines : latest[p].success < cur[w].run

(* A dataset's last success is only ever replaced by a later one: failures, *)
(* skips and interrupted runs keep it (governed-pipelines.md:121).          *)
LastSuccessStays ==
  [][\A p \in Pipelines : latest'[p].success >= latest[p].success]_vars

(* When nobody runs no staging table is left (governed-pipelines.md:108;    *)
(* tests/test_pipelines.py:219).                                            *)
NothingLeftBehind == (\A w \in Runners : At(w, "idle")) => staging = {}

(* Every run that is begun is recorded and audited in the end.              *)
RunsAreRecorded ==
  \A r \in Runs : drawn >= r ~>
    <<"run", r>> \in audit /\ \E row \in runs : row.run = r

=============================================================================
