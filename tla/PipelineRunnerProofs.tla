------------------------ MODULE PipelineRunnerProofs ------------------------
(***************************************************************************)
(* Theorems about PipelineRunner for any pipelines, any number of runners, *)
(* with or without faults and restores.                                    *)
(***************************************************************************)
EXTENDS PipelineRunner, TLAPS

USE RunnerConstants

Fits(w) == StepFits(w) /\ CandidatePlaced(w) /\ LoopFits(w)

(* Nobody runs at first, and there is no table.                             *)
LEMMA InitInv == Init => Inv
  <1> SUFFICES ASSUME Init PROVE Inv
    OBVIOUS
  <1>1. TablesTyped /\ HistoryTyped
    BY DEF Init, TablesTyped, HistoryTyped, Untouched
  <1>2. RecordsTyped
    BY DEF Init, RecordsTyped, Unobserved, Observation
  <1>3. ControlTyped
    BY DEF Init, ControlTyped, Steps
  <1>4. ASSUME NEW w \in Runners PROVE StepFits(w) /\ CandidatePlaced(w) /\ LoopFits(w)
    BY <1>4 DEF Init, StepFits, CandidatePlaced, LoopFits, InSession, Recorded, Publishing
  <1>5. published \subseteq gated
    BY DEF Init
  <1>6. QED
    BY <1>1, <1>2, <1>3, <1>4, <1>5 DEF Inv, TypeOK

(* What a runner in the middle of a pipeline holds.                         *)
LEMMA CurWorks ==
  ASSUME Inv, NEW w \in Runners, pc[w] \notin {"idle", "next"}
  PROVE  /\ cur[w] \in Working
         /\ cur[w].pipeline \in Pipelines /\ cur[w].run \in Runs
         /\ cur[w].status \in Statuses \cup {"building"}
         /\ cur[w] = [pipeline |-> cur[w].pipeline, run |-> cur[w].run, status |-> cur[w].status]
  BY DEF Inv, StepFits, Working

(* A status changes nothing else of what a runner holds.                    *)
LEMMA SettleWorks ==
  ASSUME Inv, NEW w \in Runners, pc[w] \notin {"idle", "next"},
         NEW status \in Statuses, Settle(w, status)
  PROVE  /\ cur' \in [Runners -> Working \cup {Idle}]
         /\ cur'[w] \in Working
         /\ cur'[w].pipeline = cur[w].pipeline
         /\ cur'[w].run = cur[w].run
         /\ cur'[w].status = status
         /\ \A v \in Runners \ {w} : cur'[v] = cur[v]
  <1>1. cur \in [Runners -> Working \cup {Idle}]
    BY DEF Inv, TypeOK, ControlTyped
  <1>2. PICK c \in Working : c = cur[w]
    BY CurWorks
  <1>3. /\ [c EXCEPT !.status = status] \in Working
        /\ [c EXCEPT !.status = status].pipeline = c.pipeline
        /\ [c EXCEPT !.status = status].run = c.run
        /\ [c EXCEPT !.status = status].status = status
    BY DEF Working
  <1>4. cur' = [cur EXCEPT ![w] = [c EXCEPT !.status = status]]
    BY <1>2 DEF Settle
  <1>5. QED
    BY <1>1, <1>2, <1>3, <1>4

(* Tables and backups hold the content of runs.                             *)
LEMMA TablesStep ==
  ASSUME Inv, [Next]_vars
  PROVE  TablesTyped'
  <1>1. ASSUME NEW w \in Runners, Ingest(w)
       PROVE  TablesTyped'
    BY <1>1 DEF Inv, TypeOK, TablesTyped, Ingest
  <1>2. ASSUME NEW w \in Runners, Build(w)
       PROVE  TablesTyped'
    BY <1>2, CurWorks DEF Inv, TypeOK, TablesTyped, At, records, Build
  <1>3. ASSUME NEW w \in Runners, NEW status \in Failures, FailGates(w, status)
       PROVE  TablesTyped'
    BY <1>3 DEF Inv, TypeOK, TablesTyped, FailGates, Discard, Fail
  <1>4. ASSUME NEW w \in Runners, SafeReplace(w)
       PROVE  TablesTyped'
    <2>1. cur[w].pipeline \in Pipelines /\ cur[w].run \in Runs
      BY <1>4, CurWorks DEF SafeReplace, At
    <2>2. table' = [table EXCEPT ![cur[w].pipeline] = cur[w].run] /\ UNCHANGED landed
      BY <1>4 DEF SafeReplace, Publish
    <2>3. staging' = staging \ {cur[w].run}
      BY <1>4 DEF SafeReplace, Publish
    <2>4. kept' = [kept EXCEPT ![cur[w].pipeline] = @ \cup {table[cur[w].pipeline]}]
      BY <1>4 DEF SafeReplace
    <2>5. table[cur[w].pipeline] \in Runs
      BY <1>4, <2>1 DEF SafeReplace, Exists, Inv, TypeOK, TablesTyped
    <2>6. QED
      BY <2>1, <2>2, <2>3, <2>4, <2>5 DEF Inv, TypeOK, TablesTyped
  <1>5. ASSUME NEW w \in Runners, PublishNew(w)
       PROVE  TablesTyped'
    BY <1>5, CurWorks DEF Inv, TypeOK, TablesTyped, PublishNew, Publish, At
  <1>6. ASSUME NEW w \in Runners, Prune(w)
       PROVE  TablesTyped'
    <2>1. cur[w].pipeline \in Pipelines
      BY <1>6, CurWorks DEF Prune, At
    <2>2. PICK forgotten \in SUBSET kept[cur[w].pipeline] :
             kept' = [kept EXCEPT ![cur[w].pipeline] = @ \ forgotten]
      BY <1>6 DEF Prune
    <2>3. UNCHANGED <<landed, table, staging>>
      BY <1>6 DEF Prune
    <2>4. QED
      BY <2>1, <2>2, <2>3 DEF Inv, TypeOK, TablesTyped
  <1>7. ASSUME NEW p \in Pipelines, NEW r \in Runs, RestoreTable(p, r)
       PROVE  TablesTyped'
    <2>1. table[p] \in Runs
      BY <1>7 DEF RestoreTable, Exists, Inv, TypeOK, TablesTyped
    <2>2. PICK consumed \in SUBSET {r} :
             kept' = [kept EXCEPT ![p] = (@ \ consumed) \cup {table[p]}]
      BY <1>7 DEF RestoreTable
    <2>3. UNCHANGED <<landed, staging>> /\ table' = [table EXCEPT ![p] = r]
      BY <1>7 DEF RestoreTable
    <2>4. QED
      BY <2>1, <2>2, <2>3 DEF Inv, TypeOK, TablesTyped
  <1>8. CASE UNCHANGED tables
    BY <1>8 DEF Inv, TypeOK, TablesTyped, tables
  <1>9. ASSUME NEW w \in Runners,
         \/ \E selected \in SUBSET Pipelines : Start(w, selected)
         \/ \E p \in Pipelines : PassOver(w, p)
         \/ \E p \in Pipelines : FindInputs(w, p)
         \/ RefuseSql(w)
         \/ PassGates(w)
         \/ FindTarget(w)
       PROVE  UNCHANGED tables
    BY <1>9 DEF tables, records, invocation, history, Start, PassOver, FindInputs,
       RefuseSql, Fail, PassGates, FindTarget
  <1>10. ASSUME NEW w \in Runners,
         \/ RefusePublication(w)
         \/ Conflict(w)
         \/ Stop(w)
       PROVE  UNCHANGED tables
    BY <1>10 DEF tables, records, invocation, history, RefusePublication, Fail,
       Conflict, Abort, Stop
  <1>11. ASSUME NEW w \in Runners,
         \/ RecordRun(w)
         \/ DropEdges(w)
         \/ AddEdge(w)
         \/ CloseRecord(w)
         \/ AuditRun(w)
         \/ Observe(w)
         \/ Finish(w)
       PROVE  UNCHANGED tables
    BY <1>11 DEF tables, records, invocation, history, RecordRun, DropEdges, AddEdge,
       CloseRecord, AuditRun, Observe, Finish
  <1>12. UNCHANGED vars => UNCHANGED tables
    BY DEF vars, tables, records, invocation, history
  <1>13. QED
    BY <1>1, <1>2, <1>3, <1>4, <1>5, <1>6, <1>7, <1>8, <1>9, <1>10, <1>11, <1>12
    DEF Next, Step, Call, RunOne, RecordOne

(* What a runner records.                                                   *)
LEMMA StatusKnown ==
  ASSUME Inv, NEW w \in Runners, pc[w] \in {"record"} \cup Recorded
  PROVE  cur[w] \in RunRow
  <1>1. cur[w].status \in Statuses
    BY DEF Inv, StepFits
  <1>2. cur[w].pipeline \in Pipelines /\ cur[w].run \in Runs
    BY CurWorks DEF Recorded
  <1>3. cur[w] = [pipeline |-> cur[w].pipeline, run |-> cur[w].run, status |-> cur[w].status]
    BY CurWorks DEF Recorded
  <1>4. QED
    BY <1>1, <1>2, <1>3 DEF RunRow

(* What is observed is an observation.                                      *)
LEMMA ObservedType ==
  ASSUME NEW previous \in Observation, NEW row \in RunRow
  PROVE  Observed(previous, row) \in Observation
  BY DEF Observed, Observation, RunRow, Quality, Health, NoRun

(* Runs, lineage, audit and observations name runs, pipelines and inputs.   *)
LEMMA RecordsStep ==
  ASSUME Inv, [Next]_vars
  PROVE  RecordsTyped'
  <1>1. ASSUME NEW w \in Runners, Ingest(w)
       PROVE  RecordsTyped'
    <2>1. PICK noted \in SUBSET Sources : audit' = audit \cup ({"ingest"} \X noted)
      BY <1>1 DEF Ingest
    <2>2. {"ingest"} \X noted \subseteq Records
      BY <2>1 DEF Records
    <2>3. UNCHANGED <<runs, lineage, latest>>
      BY <1>1 DEF Ingest
    <2>4. QED
      BY <2>1, <2>2, <2>3 DEF Inv, TypeOK, RecordsTyped
  <1>2. ASSUME NEW w \in Runners, RecordRun(w)
       PROVE  RecordsTyped'
    <2>1. cur[w] \in RunRow
      BY <1>2, StatusKnown DEF RecordRun, At
    <2>2. QED
      BY <1>2, <2>1 DEF Inv, TypeOK, RecordsTyped, RecordRun
  <1>3. ASSUME NEW w \in Runners, DropEdges(w)
       PROVE  RecordsTyped'
    BY <1>3 DEF Inv, TypeOK, RecordsTyped, DropEdges
  <1>4. ASSUME NEW w \in Runners, AddEdge(w)
       PROVE  RecordsTyped'
    <2>1. cur[w].pipeline \in Pipelines /\ cur[w].run \in Runs
      BY <1>4, CurWorks DEF AddEdge, At
    <2>2. EdgesFor(cur[w].pipeline, cur[w].run) \subseteq Edge
      BY <2>1 DEF EdgesFor, Edge
    <2>3. QED
      BY <1>4, <2>2 DEF Inv, TypeOK, RecordsTyped, AddEdge
  <1>5. ASSUME NEW w \in Runners, AuditRun(w)
       PROVE  RecordsTyped'
    <2>1. <<"run", cur[w].run>> \in Records
      BY <1>5, CurWorks DEF AuditRun, At, Records
    <2>2. QED
      BY <1>5, <2>1 DEF Inv, TypeOK, RecordsTyped, AuditRun
  <1>6. ASSUME NEW w \in Runners, Observe(w)
       PROVE  RecordsTyped'
    <2>1. cur[w].pipeline \in Pipelines
      BY <1>6, CurWorks DEF Observe, At
    <2>2. cur[w] \in RunRow
      BY <1>6, StatusKnown DEF Observe, At, Recorded
    <2>3. Observed(latest[cur[w].pipeline], cur[w]) \in Observation
      BY <2>1, <2>2, ObservedType DEF Inv, TypeOK, RecordsTyped
    <2>4. UNCHANGED <<runs, lineage, audit>>
      BY <1>6 DEF Observe
    <2>5. latest' \in [Pipelines -> Observation]
      BY <1>6, <2>1, <2>3 DEF Observe, Inv, TypeOK, RecordsTyped
    <2>6. QED
      BY <2>4, <2>5 DEF Inv, TypeOK, RecordsTyped
  <1>7. CASE UNCHANGED records
    BY <1>7 DEF Inv, TypeOK, RecordsTyped, records
  <1>8. ASSUME NEW w \in Runners,
         \/ \E selected \in SUBSET Pipelines : Start(w, selected)
         \/ \E p \in Pipelines : PassOver(w, p)
         \/ \E p \in Pipelines : FindInputs(w, p)
         \/ Build(w)
         \/ RefuseSql(w)
         \/ PassGates(w)
         \/ \E status \in Failures : FailGates(w, status)
         \/ FindTarget(w)
       PROVE  UNCHANGED records
    BY <1>8 DEF tables, records, invocation, history, Start, PassOver, FindInputs,
       Build, RefuseSql, Fail, PassGates, FailGates, FindTarget
  <1>9. ASSUME NEW w \in Runners,
         \/ SafeReplace(w)
         \/ PublishNew(w)
         \/ RefusePublication(w)
         \/ Conflict(w)
         \/ Prune(w)
         \/ Stop(w)
       PROVE  UNCHANGED records
    BY <1>9 DEF tables, records, invocation, history, SafeReplace, Publish,
       PublishNew, RefusePublication, Fail, Conflict, Abort, Prune, Stop
  <1>10. ASSUME NEW w \in Runners,
         \/ CloseRecord(w)
         \/ Finish(w)
       PROVE  UNCHANGED records
    BY <1>10 DEF tables, records, invocation, history, CloseRecord, Finish
  <1>11. ASSUME NEW p \in Pipelines, NEW r \in Runs, RestoreTable(p, r)
       PROVE  UNCHANGED records
    BY <1>11 DEF tables, records, invocation, history, RestoreTable
  <1>12. UNCHANGED vars => UNCHANGED records
    BY DEF vars, tables, records, invocation, history
  <1>13. QED
    BY <1>1, <1>2, <1>3, <1>4, <1>5, <1>6, <1>7, <1>8, <1>9, <1>10, <1>11, <1>12
    DEF Next, Step, Call, RunOne, RecordOne

(* The history variables name runs and pipelines.                           *)
LEMMA HistoryStep ==
  ASSUME Inv, [Next]_vars
  PROVE  HistoryTyped'
  <1>1. ASSUME NEW w \in Runners, NEW selected \in SUBSET Pipelines, Start(w, selected)
       PROVE  HistoryTyped'
    BY <1>1 DEF Inv, TypeOK, HistoryTyped, Start, Untouched
  <1>2. ASSUME NEW w \in Runners, Build(w)
       PROVE  HistoryTyped'
    <2>1. cur[w].pipeline \in Pipelines /\ cur[w].run \in Runs
      BY <1>2, CurWorks DEF Build, At
    <2>2. {<<cur[w].run, table[q]>> : q \in Inputs[cur[w].pipeline]} \subseteq Runs \X (Runs \cup {NoRun})
      BY <2>1 DEF Inv, TypeOK, TablesTyped
    <2>3. UNCHANGED <<touched, gated, published>>
      BY <1>2 DEF Build
    <2>4. read' = read \cup {<<cur[w].run, table[q]>> : q \in Inputs[cur[w].pipeline]}
      BY <1>2 DEF Build
    <2>5. QED
      BY <2>2, <2>3, <2>4 DEF Inv, TypeOK, HistoryTyped
  <1>3. ASSUME NEW w \in Runners, PassGates(w)
       PROVE  HistoryTyped'
    <2>1. <<cur[w].pipeline, cur[w].run>> \in Candidates
      BY <1>3, CurWorks DEF PassGates, At, Candidates
    <2>2. QED
      BY <1>3, <2>1 DEF Inv, TypeOK, HistoryTyped, PassGates
  <1>4. ASSUME NEW w \in Runners, SafeReplace(w)
       PROVE  HistoryTyped'
    <2>1. cur[w].pipeline \in Pipelines /\ cur[w].run \in Runs
      BY <1>4, CurWorks DEF SafeReplace, At
    <2>2. touched' = [touched EXCEPT ![w] = [@ EXCEPT ![cur[w].pipeline] = cur[w].run]]
      BY <1>4 DEF SafeReplace, Publish
    <2>3. published' = published \cup {<<cur[w].pipeline, cur[w].run>>}
      BY <1>4 DEF SafeReplace, Publish
    <2>4. UNCHANGED <<gated, read>>
      BY <1>4 DEF SafeReplace, Publish
    <2>5. QED
      BY <2>1, <2>2, <2>3, <2>4 DEF Inv, TypeOK, HistoryTyped, Candidates
  <1>5. ASSUME NEW w \in Runners, PublishNew(w)
       PROVE  HistoryTyped'
    <2>1. cur[w].pipeline \in Pipelines /\ cur[w].run \in Runs
      BY <1>5, CurWorks DEF PublishNew, At
    <2>2. touched' = [touched EXCEPT ![w] = [@ EXCEPT ![cur[w].pipeline] = cur[w].run]]
      BY <1>5 DEF PublishNew, Publish
    <2>3. published' = published \cup {<<cur[w].pipeline, cur[w].run>>}
      BY <1>5 DEF PublishNew, Publish
    <2>4. UNCHANGED <<gated, read>>
      BY <1>5 DEF PublishNew, Publish
    <2>5. QED
      BY <2>1, <2>2, <2>3, <2>4 DEF Inv, TypeOK, HistoryTyped, Candidates
  <1>6. CASE UNCHANGED history
    BY <1>6 DEF Inv, TypeOK, HistoryTyped, history
  <1>7. ASSUME NEW w \in Runners,
         \/ \E p \in Pipelines : PassOver(w, p)
         \/ \E p \in Pipelines : FindInputs(w, p)
         \/ RefuseSql(w)
         \/ \E status \in Failures : FailGates(w, status)
         \/ FindTarget(w)
       PROVE  UNCHANGED history
    BY <1>7 DEF tables, records, invocation, history, PassOver, FindInputs, RefuseSql,
       Fail, FailGates, FindTarget
  <1>8. ASSUME NEW w \in Runners,
         \/ RefusePublication(w)
         \/ Conflict(w)
         \/ Prune(w)
         \/ Stop(w)
       PROVE  UNCHANGED history
    BY <1>8 DEF tables, records, invocation, history, RefusePublication, Fail,
       Conflict, Abort, Prune, Stop
  <1>9. ASSUME NEW w \in Runners,
         \/ RecordRun(w)
         \/ DropEdges(w)
         \/ AddEdge(w)
         \/ CloseRecord(w)
         \/ AuditRun(w)
         \/ Observe(w)
         \/ Finish(w)
       PROVE  UNCHANGED history
    BY <1>9 DEF tables, records, invocation, history, RecordRun, DropEdges, AddEdge,
       CloseRecord, AuditRun, Observe, Finish
  <1>10. ASSUME NEW w \in Runners, Ingest(w)
       PROVE  UNCHANGED history
    BY <1>10 DEF tables, records, invocation, history, Ingest
  <1>11. ASSUME NEW p \in Pipelines, NEW r \in Runs, RestoreTable(p, r)
       PROVE  UNCHANGED history
    BY <1>11 DEF tables, records, invocation, history, RestoreTable
  <1>12. UNCHANGED vars => UNCHANGED history
    BY DEF vars, tables, records, invocation, history
  <1>13. QED
    BY <1>1, <1>2, <1>3, <1>4, <1>5, <1>6, <1>7, <1>8, <1>9, <1>10, <1>11, <1>12
    DEF Next, Step, Call, RunOne, RecordOne

(* Every runner is at a step, with a pipeline in hand in the middle of one. *)
LEMMA ControlStep ==
  ASSUME Inv, [Next]_vars
  PROVE  ControlTyped'
  <1>1. ASSUME NEW w \in Runners, NEW selected \in SUBSET Pipelines, Start(w, selected)
       PROVE  ControlTyped'
    BY <1>1 DEF Inv, TypeOK, ControlTyped, Steps, Goto, Start
  <1>2. ASSUME NEW w \in Runners, NEW p \in Pipelines, PassOver(w, p)
       PROVE  ControlTyped'
    <2>1. drawn + 1 \in Runs /\ drawn' \in 0..MaxRuns
      BY <1>2 DEF PassOver, Draw, Runs, Inv, TypeOK, ControlTyped
    <2>2. [pipeline |-> p, run |-> drawn + 1, status |-> IF UpstreamBlocked(w, p) THEN "skipped" ELSE "failed_error"] \in Working
      BY <2>1 DEF Working, Statuses, Failures
    <2>3. cur' \in [Runners -> Working \cup {Idle}]
      BY <1>2, <2>2 DEF PassOver, Draw, Inv, TypeOK, ControlTyped
    <2>4. pc' \in [Runners -> Steps]
      BY <1>2 DEF PassOver, Goto, Steps, Inv, TypeOK, ControlTyped
    <2>5. QED
      BY <1>2, <2>1, <2>3, <2>4 DEF PassOver, Block, invocation, Inv, TypeOK, ControlTyped
  <1>3. ASSUME NEW w \in Runners, NEW p \in Pipelines, FindInputs(w, p)
       PROVE  ControlTyped'
    <2>1. drawn + 1 \in Runs /\ drawn' \in 0..MaxRuns
      BY <1>3 DEF FindInputs, Draw, Runs, Inv, TypeOK, ControlTyped
    <2>2. [pipeline |-> p, run |-> drawn + 1, status |-> "building"] \in Working
      BY <2>1 DEF Working, Statuses, Failures
    <2>3. cur' \in [Runners -> Working \cup {Idle}]
      BY <1>3, <2>2 DEF FindInputs, Draw, Inv, TypeOK, ControlTyped
    <2>4. pc' \in [Runners -> Steps]
      BY <1>3 DEF FindInputs, Goto, Steps, Inv, TypeOK, ControlTyped
    <2>5. QED
      BY <1>3, <2>1, <2>3, <2>4 DEF FindInputs, Block, invocation, Inv, TypeOK, ControlTyped
  <1>4. ASSUME NEW w \in Runners, Build(w)
       PROVE  ControlTyped'
    BY <1>4 DEF Inv, TypeOK, ControlTyped, Steps, Goto, invocation, Build, OpenFile
  <1>5. ASSUME NEW w \in Runners, RefuseSql(w)
       PROVE  ControlTyped'
    <2>1. cur' \in [Runners -> Working \cup {Idle}]
      BY <1>5, SettleWorks DEF RefuseSql, Fail, At, Statuses, Failures
    <2>2. pc' \in [Runners -> Steps]
      BY <1>5 DEF RefuseSql, Fail, Goto, Steps, Inv, TypeOK, ControlTyped
    <2>3. cur[w].pipeline \in Pipelines
      BY <1>5, CurWorks DEF RefuseSql, At
    <2>4. blocked' \in [Runners -> SUBSET Pipelines]
      BY <1>5, <2>3 DEF RefuseSql, Fail, Block, Inv, TypeOK, ControlTyped
    <2>5. UNCHANGED <<drawn, todo, chosen>> /\ session' \in {session, NoRunner}
      BY <1>5 DEF RefuseSql, Fail, CloseFile
    <2>6. QED
      BY <2>1, <2>2, <2>4, <2>5 DEF Inv, TypeOK, ControlTyped
  <1>6. ASSUME NEW w \in Runners, PassGates(w)
       PROVE  ControlTyped'
    BY <1>6 DEF Inv, TypeOK, ControlTyped, Steps, Goto, invocation, PassGates, CloseFile
  <1>7. ASSUME NEW w \in Runners, NEW status \in Failures, FailGates(w, status)
       PROVE  ControlTyped'
    <2>1. cur' \in [Runners -> Working \cup {Idle}]
      BY <1>7, SettleWorks DEF FailGates, Fail, At, Statuses, Failures
    <2>2. pc' \in [Runners -> Steps]
      BY <1>7 DEF FailGates, Fail, Goto, Steps, Inv, TypeOK, ControlTyped
    <2>3. cur[w].pipeline \in Pipelines
      BY <1>7, CurWorks DEF FailGates, At
    <2>4. blocked' \in [Runners -> SUBSET Pipelines]
      BY <1>7, <2>3 DEF FailGates, Fail, Block, Inv, TypeOK, ControlTyped
    <2>5. UNCHANGED <<drawn, todo, chosen>> /\ session' \in {session, NoRunner}
      BY <1>7 DEF FailGates, Fail, CloseFile
    <2>6. QED
      BY <2>1, <2>2, <2>4, <2>5 DEF Inv, TypeOK, ControlTyped
  <1>8. ASSUME NEW w \in Runners, FindTarget(w)
       PROVE  ControlTyped'
    BY <1>8 DEF Inv, TypeOK, ControlTyped, Steps, Goto, invocation, FindTarget
  <1>9. ASSUME NEW w \in Runners, SafeReplace(w)
       PROVE  ControlTyped'
    BY <1>9 DEF Inv, TypeOK, ControlTyped, Steps, Goto, invocation, SafeReplace, Publish
  <1>10. ASSUME NEW w \in Runners, PublishNew(w)
       PROVE  ControlTyped'
    BY <1>10 DEF Inv, TypeOK, ControlTyped, Steps, Goto, invocation, PublishNew, Publish
  <1>11. ASSUME NEW w \in Runners, RefusePublication(w)
       PROVE  ControlTyped'
    <2>1. cur' \in [Runners -> Working \cup {Idle}]
      BY <1>11, SettleWorks DEF RefusePublication, Fail, At, Statuses, Failures
    <2>2. pc' \in [Runners -> Steps]
      BY <1>11 DEF RefusePublication, Fail, Goto, Steps, Inv, TypeOK, ControlTyped
    <2>3. cur[w].pipeline \in Pipelines
      BY <1>11, CurWorks DEF RefusePublication, At
    <2>4. blocked' \in [Runners -> SUBSET Pipelines]
      BY <1>11, <2>3 DEF RefusePublication, Fail, Block, Inv, TypeOK, ControlTyped
    <2>5. UNCHANGED <<drawn, todo, chosen>> /\ session' \in {session, NoRunner}
      BY <1>11 DEF RefusePublication, Fail, CloseFile
    <2>6. QED
      BY <2>1, <2>2, <2>4, <2>5 DEF Inv, TypeOK, ControlTyped
  <1>12. ASSUME NEW w \in Runners, Conflict(w)
       PROVE  ControlTyped'
    BY <1>12 DEF Inv, TypeOK, ControlTyped, Steps, Goto, invocation, Conflict, Abort
  <1>13. ASSUME NEW w \in Runners, Prune(w)
       PROVE  ControlTyped'
    <2>1. cur' \in [Runners -> Working \cup {Idle}]
      BY <1>13, SettleWorks DEF Prune, At, Statuses
    <2>2. QED
      BY <1>13, <2>1 DEF Inv, TypeOK, ControlTyped, Prune, Goto, Steps, invocation
  <1>14. ASSUME NEW w \in Runners, RecordRun(w)
       PROVE  ControlTyped'
    BY <1>14 DEF Inv, TypeOK, ControlTyped, Steps, Goto, invocation, RecordRun
  <1>15. ASSUME NEW w \in Runners, DropEdges(w)
       PROVE  ControlTyped'
    BY <1>15 DEF Inv, TypeOK, ControlTyped, Steps, Goto, invocation, DropEdges
  <1>16. ASSUME NEW w \in Runners, AddEdge(w)
       PROVE  ControlTyped'
    BY <1>16 DEF Inv, TypeOK, ControlTyped, Steps, Goto, invocation, AddEdge
  <1>17. ASSUME NEW w \in Runners, CloseRecord(w)
       PROVE  ControlTyped'
    BY <1>17 DEF Inv, TypeOK, ControlTyped, Steps, Goto, invocation, CloseRecord, CloseFile
  <1>18. ASSUME NEW w \in Runners, AuditRun(w)
       PROVE  ControlTyped'
    BY <1>18 DEF Inv, TypeOK, ControlTyped, Steps, Goto, invocation, AuditRun
  <1>19. ASSUME NEW w \in Runners, Observe(w)
       PROVE  ControlTyped'
    BY <1>19 DEF Inv, TypeOK, ControlTyped, Steps, Goto, invocation, Observe
  <1>20. ASSUME NEW w \in Runners, Finish(w)
       PROVE  ControlTyped'
    BY <1>20 DEF Inv, TypeOK, ControlTyped, Steps, Goto, invocation, Finish
  <1>21. ASSUME NEW w \in Runners, Stop(w)
       PROVE  ControlTyped'
    BY <1>21 DEF Inv, TypeOK, ControlTyped, Steps, Goto, invocation, Stop, Abort
  <1>22. CASE UNCHANGED <<drawn, session, pc, todo, blocked, chosen, cur>>
    BY <1>22 DEF Inv, TypeOK, ControlTyped
  <1>23. ASSUME NEW w \in Runners, Ingest(w)
       PROVE  UNCHANGED <<drawn, session, pc, todo, blocked, chosen, cur>>
    BY <1>23 DEF tables, records, invocation, history, Ingest
  <1>24. ASSUME NEW p \in Pipelines, NEW r \in Runs, RestoreTable(p, r)
       PROVE  UNCHANGED <<drawn, session, pc, todo, blocked, chosen, cur>>
    BY <1>24 DEF tables, records, invocation, history, RestoreTable
  <1>25. UNCHANGED vars => UNCHANGED <<drawn, session, pc, todo, blocked, chosen, cur>>
    BY DEF vars, tables, records, invocation, history
  <1>26. QED
    BY <1>1, <1>2, <1>3, <1>4, <1>5, <1>6, <1>7, <1>8, <1>9, <1>10, <1>11, <1>12,
       <1>13, <1>14, <1>15, <1>16, <1>17, <1>18, <1>19, <1>20, <1>21, <1>22, <1>23,
       <1>24, <1>25
    DEF Next, Step, Call, RunOne, RecordOne

(* Every step keeps the types.                                              *)
LEMMA TypeStep ==
  ASSUME Inv, [Next]_vars
  PROVE  TypeOK'
  BY TablesStep, RecordsStep, HistoryStep, ControlStep DEF TypeOK

-----------------------------------------------------------------------------
(* What a runner did not do: another one keeps its place, and the lineage   *)
(* while it has it in hand.                                                 *)
Keeps(v) ==
  /\ pc'[v] = pc[v] /\ cur'[v] = cur[v]
  /\ todo'[v] = todo[v] /\ blocked'[v] = blocked[v] /\ chosen'[v] = chosen[v]
  /\ touched'[v] = touched[v]
  /\ session' = v <=> session = v
  /\ pc[v] = "edges" => lineage' = lineage

(* A step of one runner leaves the others where they are.                   *)
LEMMA OthersKeep ==
  ASSUME Inv, NEW w \in Runners, NEW v \in Runners \ {w}, Step(w)
  PROVE  Keeps(v)
  <1>1. ASSUME Ingest(w)
       PROVE  Keeps(v)
    BY <1>1 DEF Inv, TypeOK, ControlTyped, HistoryTyped, Keeps, StepFits, InSession,
       Free, Ingest,
       At, Goto, tables, records, invocation, history
  <1>2. ASSUME NEW selected \in SUBSET Pipelines, Start(w, selected)
       PROVE  Keeps(v)
    BY <1>2 DEF Inv, TypeOK, ControlTyped, HistoryTyped, Keeps, StepFits, InSession,
       Free, Start,
       At, Goto, tables, records, invocation, history
  <1>3. ASSUME NEW p \in Pipelines, PassOver(w, p)
       PROVE  Keeps(v)
    BY <1>3 DEF Inv, TypeOK, ControlTyped, HistoryTyped, Keeps, StepFits, InSession,
       Free, PassOver, Draw, Block,
       At, Goto, tables, records, invocation, history
  <1>4. ASSUME NEW p \in Pipelines, FindInputs(w, p)
       PROVE  Keeps(v)
    BY <1>4 DEF Inv, TypeOK, ControlTyped, HistoryTyped, Keeps, StepFits, InSession,
       Free, FindInputs, Draw,
       At, Goto, tables, records, invocation, history
  <1>5. ASSUME Build(w)
       PROVE  Keeps(v)
    BY <1>5 DEF Inv, TypeOK, ControlTyped, HistoryTyped, Keeps, StepFits, InSession,
       Free, Build, OpenFile,
       At, Goto, tables, records, invocation, history
  <1>6. ASSUME RefuseSql(w)
       PROVE  Keeps(v)
    BY <1>6 DEF Inv, TypeOK, ControlTyped, HistoryTyped, Keeps, StepFits, InSession,
       Free, RefuseSql, Fail, Block, Settle,
       At, Goto, tables, records, invocation, history
  <1>7. ASSUME PassGates(w)
       PROVE  Keeps(v)
    BY <1>7 DEF Inv, TypeOK, ControlTyped, HistoryTyped, Keeps, StepFits, InSession,
       Free, PassGates, CloseFile,
       At, Goto, tables, records, invocation, history
  <1>8. ASSUME NEW status \in Failures, FailGates(w, status)
       PROVE  Keeps(v)
    BY <1>8 DEF Inv, TypeOK, ControlTyped, HistoryTyped, Keeps, StepFits, InSession,
       Free, FailGates, Fail, Block, Discard, CloseFile, Settle,
       At, Goto, tables, records, invocation, history
  <1>9. ASSUME FindTarget(w)
       PROVE  Keeps(v)
    BY <1>9 DEF Inv, TypeOK, ControlTyped, HistoryTyped, Keeps, StepFits, InSession,
       Free, FindTarget,
       At, Goto, tables, records, invocation, history
  <1>10. ASSUME SafeReplace(w)
       PROVE  Keeps(v)
    BY <1>10 DEF Inv, TypeOK, ControlTyped, HistoryTyped, Keeps, StepFits, InSession,
       Free, SafeReplace, Publish,
       At, Goto, tables, records, invocation, history
  <1>11. ASSUME PublishNew(w)
       PROVE  Keeps(v)
    BY <1>11 DEF Inv, TypeOK, ControlTyped, HistoryTyped, Keeps, StepFits, InSession,
       Free, PublishNew, Publish,
       At, Goto, tables, records, invocation, history
  <1>12. ASSUME RefusePublication(w)
       PROVE  Keeps(v)
    BY <1>12 DEF Inv, TypeOK, ControlTyped, HistoryTyped, Keeps, StepFits, InSession,
       Free, RefusePublication, Fail, Block, Settle,
       At, Goto, tables, records, invocation, history
  <1>13. ASSUME Conflict(w)
       PROVE  Keeps(v)
    BY <1>13 DEF Inv, TypeOK, ControlTyped, HistoryTyped, Keeps, StepFits, InSession,
       Free, Conflict, Abort,
       At, Goto, tables, records, invocation, history
  <1>14. ASSUME Prune(w)
       PROVE  Keeps(v)
    BY <1>14 DEF Inv, TypeOK, ControlTyped, HistoryTyped, Keeps, StepFits, InSession,
       Free, Prune, Settle,
       At, Goto, tables, records, invocation, history
  <1>15. ASSUME RecordRun(w)
       PROVE  Keeps(v)
    BY <1>15 DEF Inv, TypeOK, ControlTyped, HistoryTyped, Keeps, StepFits, InSession,
       Free, RecordRun,
       At, Goto, tables, records, invocation, history
  <1>16. ASSUME DropEdges(w)
       PROVE  Keeps(v)
    BY <1>16 DEF Inv, TypeOK, ControlTyped, HistoryTyped, Keeps, StepFits, InSession,
       Free, DropEdges,
       At, Goto, tables, records, invocation, history
  <1>17. ASSUME AddEdge(w)
       PROVE  Keeps(v)
    BY <1>17 DEF Inv, TypeOK, ControlTyped, HistoryTyped, Keeps, StepFits, InSession,
       Free, AddEdge,
       At, Goto, tables, records, invocation, history
  <1>18. ASSUME CloseRecord(w)
       PROVE  Keeps(v)
    BY <1>18 DEF Inv, TypeOK, ControlTyped, HistoryTyped, Keeps, StepFits, InSession,
       Free, CloseRecord, CloseFile,
       At, Goto, tables, records, invocation, history
  <1>19. ASSUME AuditRun(w)
       PROVE  Keeps(v)
    BY <1>19 DEF Inv, TypeOK, ControlTyped, HistoryTyped, Keeps, StepFits, InSession,
       Free, AuditRun,
       At, Goto, tables, records, invocation, history
  <1>20. ASSUME Observe(w)
       PROVE  Keeps(v)
    BY <1>20 DEF Inv, TypeOK, ControlTyped, HistoryTyped, Keeps, StepFits, InSession,
       Free, Observe,
       At, Goto, tables, records, invocation, history
  <1>21. ASSUME Finish(w)
       PROVE  Keeps(v)
    BY <1>21 DEF Inv, TypeOK, ControlTyped, HistoryTyped, Keeps, StepFits, InSession,
       Free, Finish,
       At, Goto, tables, records, invocation, history
  <1>22. ASSUME Stop(w)
       PROVE  Keeps(v)
    BY <1>22 DEF Inv, TypeOK, ControlTyped, HistoryTyped, Keeps, StepFits, InSession,
       Free, Stop, Abort,
       At, Goto, tables, records, invocation, history
  <1>23. QED
    BY <1>1, <1>2, <1>3, <1>4, <1>5, <1>6, <1>7, <1>8, <1>9, <1>10, <1>11, <1>12,
       <1>13, <1>14, <1>15, <1>16, <1>17, <1>18, <1>19, <1>20, <1>21, <1>22
    DEF Step, Call, RunOne, RecordOne

(* What passed its gates, was published or was recorded stays so.            *)
LEMMA Grows ==
  ASSUME Inv, [Next]_vars
  PROVE  gated \subseteq gated' /\ published \subseteq published' /\ runs \subseteq runs'
  <1>0. SUFFICES ASSUME NEW w \in Runners, Step(w)
        PROVE  gated \subseteq gated' /\ published \subseteq published' /\ runs \subseteq runs'
    BY DEF Next, RestoreTable, vars, records, history
  <1>1. ASSUME
        \/ Ingest(w)
        \/ \E selected \in SUBSET Pipelines : Start(w, selected)
        \/ \E p \in Pipelines : PassOver(w, p)
        \/ \E p \in Pipelines : FindInputs(w, p)
        \/ Build(w)
        \/ RefuseSql(w)
        \/ PassGates(w)
        \/ \E status \in Failures : FailGates(w, status)
        \/ FindTarget(w)
       PROVE  gated \subseteq gated' /\ published \subseteq published' /\ runs \subseteq runs'
    BY <1>1 DEF records, history, Ingest, Start, PassOver, FindInputs, Build,
       RefuseSql, Fail, PassGates, FailGates, FindTarget
  <1>2. ASSUME
        \/ SafeReplace(w)
        \/ PublishNew(w)
        \/ RefusePublication(w)
        \/ Conflict(w)
        \/ Prune(w)
        \/ Stop(w)
       PROVE  gated \subseteq gated' /\ published \subseteq published' /\ runs \subseteq runs'
    BY <1>2 DEF records, history, SafeReplace, Publish, PublishNew, RefusePublication,
       Fail, Conflict, Abort, Prune, Stop
  <1>3. ASSUME
        \/ RecordRun(w)
        \/ DropEdges(w)
        \/ AddEdge(w)
        \/ CloseRecord(w)
        \/ AuditRun(w)
        \/ Observe(w)
        \/ Finish(w)
       PROVE  gated \subseteq gated' /\ published \subseteq published' /\ runs \subseteq runs'
    BY <1>3 DEF records, history, RecordRun, DropEdges, AddEdge, CloseRecord,
       AuditRun, Observe, Finish
  <1>4. QED
    BY <1>0, <1>1, <1>2, <1>3 DEF Step, Call, RunOne, RecordOne

(* So another runner's step leaves fitting what fitted.                     *)
LEMMA OtherFits ==
  ASSUME Inv, NEW w \in Runners, NEW v \in Runners \ {w}, Step(w)
  PROVE  Fits(v)'
  <1>1. Keeps(v)
    BY OthersKeep
  <1>2. gated \subseteq gated' /\ published \subseteq published' /\ runs \subseteq runs'
    BY Grows DEF Next
  <1>3. StepFits(v)'
    BY <1>1 DEF Inv, StepFits, Keeps
  <1>4. CandidatePlaced(v)'
    BY <1>1, <1>2 DEF Inv, CandidatePlaced, Keeps, Done, EdgesOf
  <1>5. LoopFits(v)'
    BY <1>1 DEF Inv, LoopFits, Keeps, Settled
  <1>6. QED
    BY <1>3, <1>4, <1>5 DEF Fits

(* A run id is drawn for the pipeline the loop is at.                       *)
LEMMA DrawWorks ==
  ASSUME Inv, NEW w \in Runners, NEW p \in Pipelines,
         NEW status \in Statuses \cup {"building"}, Draw(w, p, status)
  PROVE  cur'[w] \in Working /\ cur'[w].pipeline = p /\ cur'[w].status = status
  <1>1. drawn + 1 \in Runs
    BY DEF Draw, Inv, TypeOK, ControlTyped, Runs
  <1>2. cur'[w] = [pipeline |-> p, run |-> drawn + 1, status |-> status]
    BY DEF Draw, Inv, TypeOK, ControlTyped
  <1>3. QED
    BY <1>1, <1>2 DEF Working

(* A run that does not publish goes on to be recorded, and blocks.          *)
LEMMA FailFits ==
  ASSUME Inv, NEW w \in Runners, pc[w] \notin {"idle", "next"},
         NEW status \in Failures, Fail(w, status), session' # w
  PROVE  Fits(w)'
  <1>1. /\ cur'[w] \in Working /\ cur'[w].pipeline = cur[w].pipeline
        /\ cur'[w].status = status
    BY SettleWorks DEF Fail, Statuses
  <1>2. pc'[w] = "record"
    BY DEF Fail, Goto, Inv, TypeOK, ControlTyped
  <1>3. status \in Statuses /\ status # "succeeded"
    BY DEF Statuses, Failures
  <1>4. /\ blocked'[w] = blocked[w] \cup {cur[w].pipeline}
        /\ UNCHANGED <<todo, chosen, touched>>
    BY DEF Fail, Block, history, Inv, TypeOK, ControlTyped
  <1>5. StepFits(w)'
    BY <1>1, <1>2, <1>3 DEF StepFits, InSession, Recorded
  <1>6. CandidatePlaced(w)'
    BY <1>1, <1>2, <1>3 DEF CandidatePlaced, Publishing, Recorded
  <1>7. \A p \in Pipelines : Settled(w, p) => Settled(w, p)'
    BY <1>4 DEF Settled
  <1>8. Settled(w, cur[w].pipeline)'
    BY <1>1, <1>4 DEF Settled
  <1>9. \A p \in chosen'[w] \ todo'[w] : p \in Pipelines /\ Settled(w, p)
    BY <1>4 DEF Inv, TypeOK, ControlTyped, LoopFits
  <1>10. LoopFits(w)'
    BY <1>1, <1>2, <1>7, <1>8, <1>9 DEF LoopFits, Settled, Publishing, Recorded
  <1>11. QED
    BY <1>5, <1>6, <1>10 DEF Fits

(* What is published is settled, and unsettles nothing.                     *)
LEMMA PublishFits ==
  ASSUME Inv, NEW w \in Runners, pc[w] \in {"replace", "publish"}, Publish(w)
  PROVE  LoopFits(w)'
  <1>1. cur[w].pipeline \in Pipelines /\ cur[w].run \in Runs
    BY CurWorks
  <1>2. touched'[w] = [touched[w] EXCEPT ![cur[w].pipeline] = cur[w].run]
    BY DEF Publish, Inv, TypeOK, HistoryTyped
  <1>3. touched[w] \in [Pipelines -> Runs \cup {NoRun}]
    BY DEF Inv, TypeOK, HistoryTyped
  <1>4. /\ pc'[w] = "prune"
        /\ UNCHANGED <<cur, todo, blocked, chosen>>
    BY DEF Publish, Goto, invocation, Inv, TypeOK, ControlTyped
  <1>5. /\ touched'[w][cur[w].pipeline] # NoRun
        /\ \A p \in Pipelines : touched[w][p] # NoRun => touched'[w][p] # NoRun
    BY <1>1, <1>2, <1>3 DEF Runs, NoRun
  <1>6. \A p \in chosen[w] \ todo[w] : p \in Pipelines /\ Settled(w, p)
    BY DEF Inv, TypeOK, ControlTyped, LoopFits
  <1>7. QED
    BY <1>4, <1>5, <1>6 DEF LoopFits, Settled, Publishing, Recorded

(* A step leaves the runner that takes it fitting its next step.            *)
LEMMA OwnFits ==
  ASSUME Inv, NEW w \in Runners, Step(w)
  PROVE  Fits(w)'
  <1>1. ASSUME Ingest(w)
       PROVE  Fits(w)'
    <2>1. StepFits(w)'
      BY <1>1, CurWorks DEF Inv, TypeOK, ControlTyped, StepFits, InSession,
         Recorded, Free, Statuses, Failures, Ingest,
         tables, records, invocation, history, At, Goto
    <2>2. CandidatePlaced(w)'
      BY <1>1, CurWorks DEF Inv, TypeOK, ControlTyped, CandidatePlaced, Publishing,
         Recorded, Done, Ingest,
         tables, records, invocation, history, At, Goto
    <2>3. LoopFits(w)'
      BY <1>1, CurWorks DEF Inv, TypeOK, ControlTyped, HistoryTyped, LoopFits,
         Settled, Publishing, Recorded, Ingest,
         tables, records, invocation, history, At, Goto
    <2>4. QED
      BY <2>1, <2>2, <2>3 DEF Fits
  <1>2. ASSUME NEW selected \in SUBSET Pipelines, Start(w, selected)
       PROVE  Fits(w)'
    <2>1. StepFits(w)'
      BY <1>2, CurWorks DEF Inv, TypeOK, ControlTyped, StepFits, InSession,
         Recorded, Free, Statuses, Failures, Start,
         tables, records, invocation, history, At, Goto
    <2>2. CandidatePlaced(w)'
      BY <1>2, CurWorks DEF Inv, TypeOK, ControlTyped, CandidatePlaced, Publishing,
         Recorded, Done, Start,
         tables, records, invocation, history, At, Goto
    <2>3. LoopFits(w)'
      BY <1>2, CurWorks DEF Inv, TypeOK, ControlTyped, HistoryTyped, LoopFits,
         Settled, Publishing, Recorded, Start,
         tables, records, invocation, history, At, Goto
    <2>4. QED
      BY <2>1, <2>2, <2>3 DEF Fits
  <1>3. ASSUME NEW p \in Pipelines, PassOver(w, p)
       PROVE  Fits(w)'
    <2>1. /\ cur'[w] \in Working /\ cur'[w].pipeline = p
          /\ cur'[w].status \in Statuses \ {"succeeded"}
      <3>1. CASE UpstreamBlocked(w, p)
        BY <1>3, <3>1, DrawWorks DEF PassOver, Statuses, Failures
      <3>2. CASE ~UpstreamBlocked(w, p)
        BY <1>3, <3>2, DrawWorks DEF PassOver, Statuses, Failures
      <3>3. QED
        BY <3>1, <3>2
    <2>2. /\ pc'[w] = "record" /\ blocked'[w] = blocked[w] \cup {p}
          /\ UNCHANGED <<session, todo, chosen, touched>>
      BY <1>3 DEF PassOver, Goto, Block, history, Inv, TypeOK, ControlTyped
    <2>3. StepFits(w)'
      BY <1>3, <2>1, <2>2 DEF PassOver, IsNext, At, Inv, StepFits, InSession, Recorded
    <2>4. CandidatePlaced(w)'
      BY <2>1, <2>2 DEF CandidatePlaced, Publishing, Recorded
    <2>5. \A q \in chosen[w] \ todo[w] : Settled(w, q)
      BY <1>3 DEF PassOver, IsNext, At, Inv, LoopFits
    <2>6. LoopFits(w)'
      BY <2>1, <2>2, <2>5 DEF LoopFits, Settled, Publishing, Recorded
    <2>7. QED
      BY <2>3, <2>4, <2>6 DEF Fits
  <1>4. ASSUME NEW p \in Pipelines, FindInputs(w, p)
       PROVE  Fits(w)'
    <2>1. cur'[w] \in Working /\ cur'[w].pipeline = p
      BY <1>4, DrawWorks DEF FindInputs
    <2>2. pc'[w] = "build" /\ UNCHANGED <<session, todo, blocked, chosen, touched>>
      BY <1>4 DEF FindInputs, Goto, invocation, history, Inv, TypeOK, ControlTyped
    <2>3. StepFits(w)'
      BY <1>4, <2>1, <2>2 DEF FindInputs, IsNext, At, Inv, StepFits, InSession, Recorded
    <2>4. CandidatePlaced(w)'
      BY <2>2 DEF CandidatePlaced, Publishing, Recorded
    <2>5. ASSUME NEW q \in Inputs[p] \cap chosen[w]
          PROVE  touched[w][q] # NoRun
      <3>1. q \in Pipelines /\ Position[q] < Position[p]
        BY <2>5
      <3>2. q \notin todo[w]
        BY <1>4, <3>1 DEF FindInputs, IsNext
      <3>3. Settled(w, q)
        BY <1>4, <2>5, <3>2 DEF FindInputs, IsNext, At, Inv, LoopFits
      <3>4. q \notin blocked[w]
        BY <1>4, <2>5 DEF FindInputs, UpstreamBlocked
      <3>5. QED
        BY <3>3, <3>4 DEF Settled
    <2>6. \A q \in chosen[w] \ todo[w] : Settled(w, q)
      BY <1>4 DEF FindInputs, IsNext, At, Inv, LoopFits
    <2>7. LoopFits(w)'
      BY <2>1, <2>2, <2>5, <2>6 DEF LoopFits, Settled, Publishing, Recorded
    <2>8. QED
      BY <2>3, <2>4, <2>7 DEF Fits
  <1>5. ASSUME Build(w)
       PROVE  Fits(w)'
    <2>1. StepFits(w)'
      BY <1>5, CurWorks DEF Inv, TypeOK, ControlTyped, StepFits, InSession,
         Recorded, Free, Statuses, Failures, Build, OpenFile,
         tables, records, invocation, history, At, Goto
    <2>2. CandidatePlaced(w)'
      BY <1>5, CurWorks DEF Inv, TypeOK, ControlTyped, CandidatePlaced, Publishing,
         Recorded, Done, Build, OpenFile,
         tables, records, invocation, history, At, Goto
    <2>3. LoopFits(w)'
      BY <1>5, CurWorks DEF Inv, TypeOK, ControlTyped, HistoryTyped, LoopFits,
         Settled, Publishing, Recorded, Build, OpenFile,
         tables, records, invocation, history, At, Goto
    <2>4. QED
      BY <2>1, <2>2, <2>3 DEF Fits
  <1>6. ASSUME RefuseSql(w)
       PROVE  Fits(w)'
    <2>1. Fail(w, "failed_error") /\ session' # w
      BY <1>6 DEF RefuseSql, At, CloseFile, Inv, StepFits, InSession
    <2>2. pc[w] \notin {"idle", "next"}
      BY <1>6 DEF RefuseSql, At
    <2>3. QED
      BY <2>1, <2>2, FailFits DEF Failures
  <1>7. ASSUME PassGates(w)
       PROVE  Fits(w)'
    <2>1. StepFits(w)'
      BY <1>7, CurWorks DEF Inv, TypeOK, ControlTyped, StepFits, InSession,
         Recorded, Free, Statuses, Failures, PassGates, CloseFile,
         tables, records, invocation, history, At, Goto
    <2>2. CandidatePlaced(w)'
      BY <1>7, CurWorks DEF Inv, TypeOK, ControlTyped, CandidatePlaced, Publishing,
         Recorded, Done, PassGates, CloseFile,
         tables, records, invocation, history, At, Goto
    <2>3. LoopFits(w)'
      BY <1>7, CurWorks DEF Inv, TypeOK, ControlTyped, HistoryTyped, LoopFits,
         Settled, Publishing, Recorded, PassGates, CloseFile,
         tables, records, invocation, history, At, Goto
    <2>4. QED
      BY <2>1, <2>2, <2>3 DEF Fits
  <1>8. ASSUME NEW status \in Failures, FailGates(w, status)
       PROVE  Fits(w)'
    <2>1. Fail(w, status) /\ session' # w
      BY <1>8 DEF FailGates, At, CloseFile, Inv, StepFits, InSession
    <2>2. pc[w] \notin {"idle", "next"}
      BY <1>8 DEF FailGates, At
    <2>3. QED
      BY <2>1, <2>2, FailFits DEF Failures
  <1>9. ASSUME FindTarget(w)
       PROVE  Fits(w)'
    <2>1. StepFits(w)'
      BY <1>9, CurWorks DEF Inv, TypeOK, ControlTyped, StepFits, InSession,
         Recorded, Free, Statuses, Failures, FindTarget,
         tables, records, invocation, history, At, Goto
    <2>2. CandidatePlaced(w)'
      BY <1>9, CurWorks DEF Inv, TypeOK, ControlTyped, CandidatePlaced, Publishing,
         Recorded, Done, FindTarget,
         tables, records, invocation, history, At, Goto
    <2>3. LoopFits(w)'
      BY <1>9, CurWorks DEF Inv, TypeOK, ControlTyped, HistoryTyped, LoopFits,
         Settled, Publishing, Recorded, FindTarget,
         tables, records, invocation, history, At, Goto
    <2>4. QED
      BY <2>1, <2>2, <2>3 DEF Fits
  <1>10. ASSUME SafeReplace(w)
       PROVE  Fits(w)'
    <2>1. StepFits(w)'
      BY <1>10, CurWorks DEF Inv, TypeOK, ControlTyped, StepFits, InSession,
         Recorded, Free, Statuses, Failures, SafeReplace, Publish,
         tables, records, invocation, history, At, Goto
    <2>2. CandidatePlaced(w)'
      BY <1>10, CurWorks DEF Inv, TypeOK, ControlTyped, CandidatePlaced, Publishing,
         Recorded, Done, SafeReplace, Publish,
         tables, records, invocation, history, At, Goto
    <2>3. LoopFits(w)'
      BY <1>10, PublishFits DEF SafeReplace, At
    <2>4. QED
      BY <2>1, <2>2, <2>3 DEF Fits
  <1>11. ASSUME PublishNew(w)
       PROVE  Fits(w)'
    <2>1. StepFits(w)'
      BY <1>11, CurWorks DEF Inv, TypeOK, ControlTyped, StepFits, InSession,
         Recorded, Free, Statuses, Failures, PublishNew, Publish,
         tables, records, invocation, history, At, Goto
    <2>2. CandidatePlaced(w)'
      BY <1>11, CurWorks DEF Inv, TypeOK, ControlTyped, CandidatePlaced, Publishing,
         Recorded, Done, PublishNew, Publish,
         tables, records, invocation, history, At, Goto
    <2>3. LoopFits(w)'
      BY <1>11, PublishFits DEF PublishNew, At
    <2>4. QED
      BY <2>1, <2>2, <2>3 DEF Fits
  <1>12. ASSUME RefusePublication(w)
       PROVE  Fits(w)'
    <2>1. Fail(w, "failed_error") /\ session' # w
      BY <1>12 DEF RefusePublication, At, CloseFile, Inv, StepFits, InSession
    <2>2. pc[w] \notin {"idle", "next"}
      BY <1>12 DEF RefusePublication, At
    <2>3. QED
      BY <2>1, <2>2, FailFits DEF Failures
  <1>13. ASSUME Conflict(w)
       PROVE  Fits(w)'
    <2>1. StepFits(w)'
      BY <1>13, CurWorks DEF Inv, TypeOK, ControlTyped, StepFits, InSession,
         Recorded, Free, Statuses, Failures, Conflict, Abort,
         tables, records, invocation, history, At, Goto
    <2>2. CandidatePlaced(w)'
      BY <1>13, CurWorks DEF Inv, TypeOK, ControlTyped, CandidatePlaced, Publishing,
         Recorded, Done, Conflict, Abort,
         tables, records, invocation, history, At, Goto
    <2>3. LoopFits(w)'
      BY <1>13, CurWorks DEF Inv, TypeOK, ControlTyped, HistoryTyped, LoopFits,
         Settled, Publishing, Recorded, Conflict, Abort,
         tables, records, invocation, history, At, Goto
    <2>4. QED
      BY <2>1, <2>2, <2>3 DEF Fits
  <1>14. ASSUME Prune(w)
       PROVE  Fits(w)'
    <2>1. /\ cur'[w] \in Working /\ cur'[w].pipeline = cur[w].pipeline
          /\ cur'[w].run = cur[w].run /\ cur'[w].status = "succeeded"
      BY <1>14, SettleWorks DEF Prune, At, Statuses
    <2>2. pc'[w] = "record" /\ session' = session /\ published' = published
      BY <1>14 DEF Prune, Goto, history, Inv, TypeOK, ControlTyped
    <2>3. StepFits(w)'
      BY <1>14, <2>1, <2>2 DEF Prune, At, Inv, StepFits, InSession, Statuses, Recorded
    <2>4. CandidatePlaced(w)'
      BY <1>14, <2>1, <2>2 DEF Prune, At, Inv, CandidatePlaced, Done, Publishing, Recorded
    <2>5. LoopFits(w)'
      BY <1>14, CurWorks DEF Inv, TypeOK, ControlTyped, HistoryTyped, LoopFits,
         Settled, Publishing, Recorded, Prune, Settle,
         tables, records, invocation, history, At, Goto
    <2>6. QED
      BY <2>3, <2>4, <2>5 DEF Fits
  <1>15. ASSUME RecordRun(w)
       PROVE  Fits(w)'
    <2>1. StepFits(w)'
      BY <1>15, CurWorks DEF Inv, TypeOK, ControlTyped, StepFits, InSession,
         Recorded, Free, Statuses, Failures, RecordRun,
         tables, records, invocation, history, At, Goto
    <2>2. CandidatePlaced(w)'
      BY <1>15, CurWorks DEF Inv, TypeOK, ControlTyped, CandidatePlaced, Publishing,
         Recorded, Done, RecordRun,
         tables, records, invocation, history, At, Goto
    <2>3. LoopFits(w)'
      BY <1>15, CurWorks DEF Inv, TypeOK, ControlTyped, HistoryTyped, LoopFits,
         Settled, Publishing, Recorded, RecordRun,
         tables, records, invocation, history, At, Goto
    <2>4. QED
      BY <2>1, <2>2, <2>3 DEF Fits
  <1>16. ASSUME DropEdges(w)
       PROVE  Fits(w)'
    <2>1. StepFits(w)'
      BY <1>16, CurWorks DEF Inv, TypeOK, ControlTyped, StepFits, InSession,
         Recorded, Free, Statuses, Failures, DropEdges,
         tables, records, invocation, history, At, Goto
    <2>2. CandidatePlaced(w)'
      BY <1>16, CurWorks DEF Inv, TypeOK, ControlTyped, CandidatePlaced, Publishing,
         Recorded, Done, DropEdges, EdgesOf, EdgesFor,
         tables, records, invocation, history, At, Goto
    <2>3. LoopFits(w)'
      BY <1>16, CurWorks DEF Inv, TypeOK, ControlTyped, HistoryTyped, LoopFits,
         Settled, Publishing, Recorded, DropEdges,
         tables, records, invocation, history, At, Goto
    <2>4. QED
      BY <2>1, <2>2, <2>3 DEF Fits
  <1>17. ASSUME AddEdge(w)
       PROVE  Fits(w)'
    <2>1. StepFits(w)'
      BY <1>17, CurWorks DEF Inv, TypeOK, ControlTyped, StepFits, InSession,
         Recorded, Free, Statuses, Failures, AddEdge,
         tables, records, invocation, history, At, Goto
    <2>2. PICK e \in EdgesFor(cur[w].pipeline, cur[w].run) : lineage' = lineage \cup {e}
      BY <1>17 DEF AddEdge
    <2>3. e.run = cur[w].run
      BY <2>2 DEF EdgesFor
    <2>4. pc[w] = "edges" /\ UNCHANGED <<pc, cur, runs, gated, published>>
      BY <1>17 DEF AddEdge, At, history
    <2>5. CandidatePlaced(w)'
      BY <2>2, <2>3, <2>4 DEF Inv, CandidatePlaced, Done, EdgesOf, Publishing, Recorded
    <2>6. LoopFits(w)'
      BY <1>17, CurWorks DEF Inv, TypeOK, ControlTyped, HistoryTyped, LoopFits,
         Settled, Publishing, Recorded, AddEdge,
         tables, records, invocation, history, At, Goto
    <2>7. QED
      BY <2>1, <2>5, <2>6 DEF Fits
  <1>18. ASSUME CloseRecord(w)
       PROVE  Fits(w)'
    <2>1. StepFits(w)'
      BY <1>18, CurWorks DEF Inv, TypeOK, ControlTyped, StepFits, InSession,
         Recorded, Free, Statuses, Failures, CloseRecord, CloseFile,
         tables, records, invocation, history, At, Goto
    <2>2. CandidatePlaced(w)'
      BY <1>18, CurWorks DEF Inv, TypeOK, ControlTyped, CandidatePlaced, Publishing,
         Recorded, Done, CloseRecord, CloseFile,
         tables, records, invocation, history, At, Goto
    <2>3. LoopFits(w)'
      BY <1>18, CurWorks DEF Inv, TypeOK, ControlTyped, HistoryTyped, LoopFits,
         Settled, Publishing, Recorded, CloseRecord, CloseFile,
         tables, records, invocation, history, At, Goto
    <2>4. QED
      BY <2>1, <2>2, <2>3 DEF Fits
  <1>19. ASSUME AuditRun(w)
       PROVE  Fits(w)'
    <2>1. StepFits(w)'
      BY <1>19, CurWorks DEF Inv, TypeOK, ControlTyped, StepFits, InSession,
         Recorded, Free, Statuses, Failures, AuditRun,
         tables, records, invocation, history, At, Goto
    <2>2. CandidatePlaced(w)'
      BY <1>19, CurWorks DEF Inv, TypeOK, ControlTyped, CandidatePlaced, Publishing,
         Recorded, Done, AuditRun,
         tables, records, invocation, history, At, Goto
    <2>3. LoopFits(w)'
      BY <1>19, CurWorks DEF Inv, TypeOK, ControlTyped, HistoryTyped, LoopFits,
         Settled, Publishing, Recorded, AuditRun,
         tables, records, invocation, history, At, Goto
    <2>4. QED
      BY <2>1, <2>2, <2>3 DEF Fits
  <1>20. ASSUME Observe(w)
       PROVE  Fits(w)'
    <2>1. StepFits(w)'
      BY <1>20, CurWorks DEF Inv, TypeOK, ControlTyped, StepFits, InSession,
         Recorded, Free, Statuses, Failures, Observe,
         tables, records, invocation, history, At, Goto
    <2>2. CandidatePlaced(w)'
      BY <1>20, CurWorks DEF Inv, TypeOK, ControlTyped, CandidatePlaced, Publishing,
         Recorded, Done, Observe,
         tables, records, invocation, history, At, Goto
    <2>3. LoopFits(w)'
      BY <1>20, CurWorks DEF Inv, TypeOK, ControlTyped, HistoryTyped, LoopFits,
         Settled, Publishing, Recorded, Observe,
         tables, records, invocation, history, At, Goto
    <2>4. QED
      BY <2>1, <2>2, <2>3 DEF Fits
  <1>21. ASSUME Finish(w)
       PROVE  Fits(w)'
    <2>1. StepFits(w)'
      BY <1>21, CurWorks DEF Inv, TypeOK, ControlTyped, StepFits, InSession,
         Recorded, Free, Statuses, Failures, Finish,
         tables, records, invocation, history, At, Goto
    <2>2. CandidatePlaced(w)'
      BY <1>21, CurWorks DEF Inv, TypeOK, ControlTyped, CandidatePlaced, Publishing,
         Recorded, Done, Finish,
         tables, records, invocation, history, At, Goto
    <2>3. LoopFits(w)'
      BY <1>21, CurWorks DEF Inv, TypeOK, ControlTyped, HistoryTyped, LoopFits,
         Settled, Publishing, Recorded, Finish,
         tables, records, invocation, history, At, Goto
    <2>4. QED
      BY <2>1, <2>2, <2>3 DEF Fits
  <1>22. ASSUME Stop(w)
       PROVE  Fits(w)'
    <2>1. StepFits(w)'
      BY <1>22, CurWorks DEF Inv, TypeOK, ControlTyped, StepFits, InSession,
         Recorded, Free, Statuses, Failures, Stop, Abort,
         tables, records, invocation, history, At, Goto
    <2>2. CandidatePlaced(w)'
      BY <1>22, CurWorks DEF Inv, TypeOK, ControlTyped, CandidatePlaced, Publishing,
         Recorded, Done, Stop, Abort,
         tables, records, invocation, history, At, Goto
    <2>3. LoopFits(w)'
      BY <1>22, CurWorks DEF Inv, TypeOK, ControlTyped, HistoryTyped, LoopFits,
         Settled, Publishing, Recorded, Stop, Abort,
         tables, records, invocation, history, At, Goto
    <2>4. QED
      BY <2>1, <2>2, <2>3 DEF Fits
  <1>23. QED
    BY <1>1, <1>2, <1>3, <1>4, <1>5, <1>6, <1>7, <1>8, <1>9, <1>10, <1>11, <1>12,
       <1>13, <1>14, <1>15, <1>16, <1>17, <1>18, <1>19, <1>20, <1>21, <1>22
    DEF Step, Call, RunOne, RecordOne

(* Only a runner whose candidate passed its gates publishes.                *)
LEMMA PublishedGated ==
  ASSUME Inv, [Next]_vars
  PROVE  published' \subseteq gated'
  <1>1. gated \subseteq gated'
    BY Grows
  <1>2. ASSUME NEW w \in Runners, SafeReplace(w) \/ PublishNew(w)
       PROVE  published' \subseteq gated'
    <2>1. Done(w) \in gated
      BY <1>2 DEF SafeReplace, PublishNew, At, Inv, CandidatePlaced, Publishing
    <2>2. published' = published \cup {Done(w)}
      BY <1>2 DEF SafeReplace, PublishNew, Publish, Done
    <2>3. QED
      BY <1>1, <2>1, <2>2 DEF Inv
  <1>3. ASSUME NEW w \in Runners,
         \/ Ingest(w)
         \/ \E selected \in SUBSET Pipelines : Start(w, selected)
         \/ \E p \in Pipelines : PassOver(w, p)
         \/ \E p \in Pipelines : FindInputs(w, p)
         \/ Build(w)
         \/ RefuseSql(w)
         \/ PassGates(w)
         \/ \E status \in Failures : FailGates(w, status)
         \/ FindTarget(w)
       PROVE  UNCHANGED published
    BY <1>3 DEF tables, records, invocation, history, Ingest, Start, PassOver,
       FindInputs, Build, RefuseSql, Fail, PassGates, FailGates, FindTarget
  <1>4. ASSUME NEW w \in Runners,
         \/ RefusePublication(w)
         \/ Conflict(w)
         \/ Prune(w)
         \/ Stop(w)
       PROVE  UNCHANGED published
    BY <1>4 DEF tables, records, invocation, history, RefusePublication, Fail,
       Conflict, Abort, Prune, Stop
  <1>5. ASSUME NEW w \in Runners,
         \/ RecordRun(w)
         \/ DropEdges(w)
         \/ AddEdge(w)
         \/ CloseRecord(w)
         \/ AuditRun(w)
         \/ Observe(w)
         \/ Finish(w)
       PROVE  UNCHANGED published
    BY <1>5 DEF tables, records, invocation, history, RecordRun, DropEdges, AddEdge,
       CloseRecord, AuditRun, Observe, Finish
  <1>6. UNCHANGED published => published' \subseteq gated'
    BY <1>1 DEF Inv
  <1>7. (\E p \in Pipelines, r \in Runs : RestoreTable(p, r)) \/ UNCHANGED vars
          => UNCHANGED published
    BY DEF RestoreTable, history, vars
  <1>8. QED
    BY <1>2, <1>3, <1>4, <1>5, <1>6, <1>7 DEF Next, Step, Call, RunOne, RecordOne

(* A restore moves no runner and publishes nothing.                         *)
LEMMA RestoreFits ==
  ASSUME Inv, NEW v \in Runners,
         (\E p \in Pipelines, r \in Runs : RestoreTable(p, r)) \/ UNCHANGED vars
  PROVE  Fits(v)'
  <1>1. UNCHANGED <<records, session, pc, invocation, cur, history>>
    BY DEF RestoreTable, vars, records, invocation, history
  <1>2. StepFits(v)'
    BY <1>1 DEF Inv, StepFits
  <1>3. CandidatePlaced(v)'
    BY <1>1 DEF Inv, CandidatePlaced, Done, EdgesOf, records, history
  <1>4. LoopFits(v)'
    BY <1>1 DEF Inv, LoopFits, Settled, invocation, history
  <1>5. QED
    BY <1>2, <1>3, <1>4 DEF Fits

(* Every step keeps the inductive invariant.                                *)
LEMMA InvStep ==
  ASSUME Inv, [Next]_vars
  PROVE  Inv'
  <1>1. TypeOK' /\ published' \subseteq gated'
    BY TypeStep, PublishedGated
  <1>2. ASSUME NEW v \in Runners
        PROVE  Fits(v)'
    <2>1. ASSUME NEW w \in Runners, Step(w)
          PROVE  Fits(v)'
      <3>1. CASE v = w
        BY <2>1, <3>1, OwnFits
      <3>2. CASE v # w
        BY <2>1, <3>2, OtherFits
      <3>3. QED
        BY <3>1, <3>2
    <2>2. QED
      BY <2>1, RestoreFits DEF Next
  <1>3. QED
    BY <1>1, <1>2 DEF Inv, Fits

(* Each runner's place, what it holds and what it has done fit together,    *)
(* however runners, failures, deaths and restores interleave.               *)
THEOREM Invariance == Spec => []Inv
  BY InitInv, InvStep, PTL DEF Spec

(* Every variable keeps its type.                                           *)
THEOREM TypeCorrect == Spec => []TypeOK
  <1>1. Inv => TypeOK
    BY DEF Inv
  <1>2. QED
    BY <1>1, Invariance, PTL

-----------------------------------------------------------------------------
(* Every step keeps tables and backups gated.                               *)
LEMMA GatedStep ==
  ASSUME Inv, OnlyGatedIsPublished, [Next]_vars
  PROVE  OnlyGatedIsPublished'
  <1>0. gated \subseteq gated'
    BY Grows
  <1>1. ASSUME NEW w \in Runners,
         \/ Ingest(w)
         \/ \E selected \in SUBSET Pipelines : Start(w, selected)
         \/ \E p \in Pipelines : PassOver(w, p)
         \/ \E p \in Pipelines : FindInputs(w, p)
         \/ Build(w)
         \/ RefuseSql(w)
         \/ PassGates(w)
         \/ \E status \in Failures : FailGates(w, status)
         \/ FindTarget(w)
       PROVE  UNCHANGED <<table, kept>>
    BY <1>1 DEF tables, records, invocation, history, Ingest, Start, PassOver,
       FindInputs, Build, RefuseSql, Fail, PassGates, FailGates, FindTarget
  <1>2. ASSUME NEW w \in Runners,
         \/ RefusePublication(w)
         \/ Conflict(w)
         \/ Stop(w)
       PROVE  UNCHANGED <<table, kept>>
    BY <1>2 DEF tables, records, invocation, history, RefusePublication, Fail,
       Conflict, Abort, Stop
  <1>3. ASSUME NEW w \in Runners,
         \/ RecordRun(w)
         \/ DropEdges(w)
         \/ AddEdge(w)
         \/ CloseRecord(w)
         \/ AuditRun(w)
         \/ Observe(w)
         \/ Finish(w)
       PROVE  UNCHANGED <<table, kept>>
    BY <1>3 DEF tables, records, invocation, history, RecordRun, DropEdges, AddEdge,
       CloseRecord, AuditRun, Observe, Finish
  <1>4. UNCHANGED vars => UNCHANGED <<table, kept>>
    BY DEF vars
  <1>5. UNCHANGED <<table, kept>> => OnlyGatedIsPublished'
    BY <1>0 DEF OnlyGatedIsPublished
  <1>6. ASSUME NEW w \in Runners, SafeReplace(w)
       PROVE  OnlyGatedIsPublished'
    <2>1. Done(w) \in gated /\ cur[w].pipeline \in Pipelines
      BY <1>6, CurWorks DEF SafeReplace, At, Inv, CandidatePlaced, Publishing
    <2>2. table' = [table EXCEPT ![cur[w].pipeline] = cur[w].run]
      BY <1>6 DEF SafeReplace, Publish
    <2>3. kept' = [kept EXCEPT ![cur[w].pipeline] = @ \cup {table[cur[w].pipeline]}]
      BY <1>6 DEF SafeReplace
    <2>4. table[cur[w].pipeline] # NoRun
      BY <1>6 DEF SafeReplace, Exists
    <2>5. QED
      BY <1>0, <2>1, <2>2, <2>3, <2>4 DEF OnlyGatedIsPublished, Done, Inv, TypeOK,
         TablesTyped
  <1>7. ASSUME NEW w \in Runners, PublishNew(w)
       PROVE  OnlyGatedIsPublished'
    <2>1. Done(w) \in gated /\ cur[w].pipeline \in Pipelines
      BY <1>7, CurWorks DEF PublishNew, At, Inv, CandidatePlaced, Publishing
    <2>2. table' = [table EXCEPT ![cur[w].pipeline] = cur[w].run] /\ kept' = kept
      BY <1>7 DEF PublishNew, Publish
    <2>3. QED
      BY <1>0, <2>1, <2>2 DEF OnlyGatedIsPublished, Done, Inv, TypeOK, TablesTyped
  <1>8. ASSUME NEW w \in Runners, Prune(w)
       PROVE  OnlyGatedIsPublished'
    <2>1. PICK forgotten \in SUBSET kept[cur[w].pipeline] :
             kept' = [kept EXCEPT ![cur[w].pipeline] = @ \ forgotten]
      BY <1>8 DEF Prune
    <2>2. table' = table
      BY <1>8 DEF Prune
    <2>3. \A p \in Pipelines : kept'[p] \subseteq kept[p]
      BY <2>1 DEF Inv, TypeOK, TablesTyped
    <2>4. QED
      BY <1>0, <2>2, <2>3 DEF OnlyGatedIsPublished
  <1>9. ASSUME NEW p \in Pipelines, NEW r \in Runs, RestoreTable(p, r)
       PROVE  OnlyGatedIsPublished'
    <2>1. PICK consumed \in SUBSET {r} :
             kept' = [kept EXCEPT ![p] = (@ \ consumed) \cup {table[p]}]
      BY <1>9 DEF RestoreTable
    <2>2. table' = [table EXCEPT ![p] = r] /\ r \in kept[p] /\ table[p] # NoRun
      BY <1>9 DEF RestoreTable, Exists
    <2>3. QED
      BY <1>0, <2>1, <2>2 DEF OnlyGatedIsPublished, Inv, TypeOK, TablesTyped
  <1>10. QED
    BY <1>1, <1>2, <1>3, <1>4, <1>5, <1>6, <1>7, <1>8, <1>9
    DEF Next, Step, Call, RunOne, RecordOne

(* A table and its backups hold only gated content.                         *)
THEOREM OnlyGatedEver == Spec => []OnlyGatedIsPublished
  <1>1. Init => OnlyGatedIsPublished
    BY DEF Init, OnlyGatedIsPublished
  <1>2. Inv /\ OnlyGatedIsPublished /\ [Next]_vars => OnlyGatedIsPublished'
    BY GatedStep
  <1>3. QED
    BY <1>1, <1>2, Invariance, PTL DEF Spec

(* The steps that leave the tables and their backups alone.                 *)
LEMMA RunnerStutters ==
  ASSUME NEW w \in Runners, Step(w), ~SafeReplace(w), ~PublishNew(w), ~Prune(w)
  PROVE  UNCHANGED <<table, kept>>
  <1>1. ASSUME \/ Ingest(w)
               \/ \E selected \in SUBSET Pipelines : Start(w, selected)
               \/ \E p \in Pipelines : PassOver(w, p) \/ FindInputs(w, p)
               \/ Build(w) \/ RefuseSql(w) \/ PassGates(w)
               \/ \E status \in Failures : FailGates(w, status)
               \/ FindTarget(w)
        PROVE  UNCHANGED <<table, kept>>
    BY <1>1 DEF tables, Ingest, Start, PassOver, FindInputs, Build, RefuseSql, Fail,
       PassGates, FailGates, FindTarget
  <1>2. ASSUME RefusePublication(w) \/ Conflict(w) \/ Stop(w)
        PROVE  UNCHANGED <<table, kept>>
    BY <1>2 DEF tables, RefusePublication, Fail, Conflict, Abort, Stop
  <1>3. ASSUME RecordOne(w)
        PROVE  UNCHANGED <<table, kept>>
    BY <1>3 DEF tables, RecordOne, RecordRun, DropEdges, AddEdge, CloseRecord, AuditRun,
       Observe, Finish
  <1>4. QED
    BY <1>1, <1>2, <1>3 DEF Step, Call, RunOne

(* Each step that does change them is one the promise allows.               *)
LEMMA StepKeepsPromise == Inv /\ [Next]_vars => [Promise!Next]_(Promise!vars)
  <1> SUFFICES ASSUME Inv, [Next]_vars PROVE [Promise!Next]_(Promise!vars)
    OBVIOUS
  <1>1. ASSUME UNCHANGED <<table, kept>> PROVE [Promise!Next]_(Promise!vars)
    BY <1>1 DEF Promise!vars
  <1>2. ASSUME NEW w \in Runners, SafeReplace(w) PROVE Promise!Next
    <2>1. cur[w].pipeline \in Pipelines /\ cur[w].run \in Runs
      BY <1>2, CurWorks DEF SafeReplace, At
    <2>2. Promise!Replace(cur[w].pipeline, cur[w].run)
      BY <1>2 DEF SafeReplace, Publish, Exists, Promise!Replace
    <2>3. QED
      BY <2>1, <2>2 DEF Promise!Next
  <1>3. ASSUME NEW w \in Runners, PublishNew(w) PROVE Promise!Next
    <2>1. cur[w].pipeline \in Pipelines /\ cur[w].run \in Runs
      BY <1>3, CurWorks DEF PublishNew, At
    <2>2. Promise!Publish(cur[w].pipeline, cur[w].run)
      BY <1>3 DEF PublishNew, Publish, Exists, Promise!Publish
    <2>3. QED
      BY <2>1, <2>2 DEF Promise!Next
  <1>4. ASSUME NEW w \in Runners, Prune(w) PROVE Promise!Next
    <2>1. cur[w].pipeline \in Pipelines
      BY <1>4, CurWorks DEF Prune, At
    <2>2. Promise!Prune(cur[w].pipeline)
      BY <1>4 DEF Prune, Promise!Prune
    <2>3. QED
      BY <2>1, <2>2 DEF Promise!Next
  <1>5. ASSUME NEW p \in Pipelines, NEW r \in Runs, RestoreTable(p, r) PROVE Promise!Next
    <2>1. Promise!Restore(p, r)
      BY <1>5 DEF RestoreTable, Exists, Promise!Restore
    <2>2. QED
      BY <2>1 DEF Promise!Next
  <1>6. CASE UNCHANGED vars
    BY <1>1, <1>6 DEF vars
  <1>7. QED
    BY <1>1, <1>2, <1>3, <1>4, <1>5, <1>6, RunnerStutters DEF Next

(* Runners use the tables as the toolkit promises them to be: of any number *)
(* of runners, with faults anywhere and an operator who restores, no step   *)
(* takes a table or a backup away that the promise does not let go.         *)
THEOREM Refinement == Spec => KeepsPromise
  <1>1. Init => Promise!Init
    BY DEF Init, Promise!Init
  <1>2. QED
    BY <1>1, StepKeepsPromise, Invariance, PTL DEF Spec, KeepsPromise, Promise!Spec

(* What a publication or a restore displaces is kept.                       *)
DisplacedIsKept ==
  [][\A p \in Pipelines :
       table'[p] # table[p] /\ Exists(p) => table[p] \in kept'[p]]_<<table, kept>>

(* So nothing published is lost but by pruning, even if the table appears   *)
(* between the look for it and the publication (runner.py:271).             *)
THEOREM DisplacedKept == Spec => DisplacedIsKept
  <1> DEFINE Kept == \A p \in Pipelines :
               table'[p] # table[p] /\ Exists(p) => table[p] \in kept'[p]
  <1>1. Inv /\ [Promise!Next]_(Promise!vars) => [Kept]_<<table, kept>>
    <2> SUFFICES ASSUME Inv, Promise!Next PROVE Kept
      BY DEF Promise!vars
    <2>1. table \in [Pipelines -> Runs \cup {NoRun}] /\ kept \in [Pipelines -> SUBSET Runs]
      BY DEF Inv, TypeOK, TablesTyped
    <2>2. ASSUME NEW t \in Pipelines, Promise!Prune(t) PROVE Kept
      BY <2>2 DEF Promise!Prune
    <2>3. ASSUME NEW t \in Pipelines, NEW v \in Runs, Promise!Publish(t, v) PROVE Kept
      BY <2>1, <2>3 DEF Promise!Publish, Exists
    <2>4. ASSUME NEW t \in Pipelines, NEW v \in Runs, Promise!Replace(t, v) PROVE Kept
      BY <2>1, <2>4 DEF Promise!Replace
    <2>5. ASSUME NEW t \in Pipelines, NEW v \in Runs, Promise!Restore(t, v) PROVE Kept
      BY <2>1, <2>5 DEF Promise!Restore
    <2>6. QED
      BY <2>2, <2>3, <2>4, <2>5 DEF Promise!Next
  <1>2. QED
    BY <1>1, Refinement, Invariance, PTL DEF KeepsPromise, Promise!Spec, DisplacedIsKept

-----------------------------------------------------------------------------
(* Every step keeps the dependents of an unpublished dataset untouched.     *)
LEMMA BlockedStep ==
  ASSUME Inv, BlockedStaysUntouched, [Next]_vars
  PROVE  BlockedStaysUntouched'
  <1> DEFINE Obeys(v) == \A p \in chosen[v] : \A q \in Inputs[p] \cap chosen[v] :
                           touched[v][p] # NoRun => touched[v][q] # NoRun
  <1>1. ASSUME NEW w \in Runners,
         \/ Ingest(w)
         \/ \E p \in Pipelines : PassOver(w, p)
         \/ \E p \in Pipelines : FindInputs(w, p)
         \/ Build(w)
         \/ RefuseSql(w)
         \/ PassGates(w)
         \/ \E status \in Failures : FailGates(w, status)
         \/ FindTarget(w)
       PROVE  UNCHANGED <<chosen, touched>>
    BY <1>1 DEF tables, records, invocation, history, Ingest, PassOver, FindInputs,
       Build, RefuseSql, Fail, PassGates, FailGates, FindTarget
  <1>2. ASSUME NEW w \in Runners,
         \/ RefusePublication(w)
         \/ Conflict(w)
         \/ Prune(w)
         \/ Stop(w)
       PROVE  UNCHANGED <<chosen, touched>>
    BY <1>2 DEF tables, records, invocation, history, RefusePublication, Fail,
       Conflict, Abort, Prune, Stop
  <1>3. ASSUME NEW w \in Runners,
         \/ RecordRun(w)
         \/ DropEdges(w)
         \/ AddEdge(w)
         \/ CloseRecord(w)
         \/ AuditRun(w)
         \/ Observe(w)
         \/ Finish(w)
       PROVE  UNCHANGED <<chosen, touched>>
    BY <1>3 DEF tables, records, invocation, history, RecordRun, DropEdges, AddEdge,
       CloseRecord, AuditRun, Observe, Finish
  <1>4. UNCHANGED vars => UNCHANGED <<chosen, touched>>
    BY DEF vars
  <1>5. (\E p \in Pipelines, r \in Runs : RestoreTable(p, r)) => UNCHANGED <<chosen, touched>>
    BY DEF RestoreTable, invocation, history
  <1>6. UNCHANGED <<chosen, touched>> => BlockedStaysUntouched'
    BY DEF BlockedStaysUntouched
  <1>7. ASSUME NEW w \in Runners, NEW v \in Runners \ {w}, Step(w)
        PROVE  Obeys(v)'
    BY <1>7, OthersKeep DEF Keeps, BlockedStaysUntouched
  <1>8. ASSUME NEW w \in Runners, NEW selected \in SUBSET Pipelines, Start(w, selected)
        PROVE  Obeys(w)'
    BY <1>8 DEF Start, Untouched, Inv, TypeOK, ControlTyped, HistoryTyped
  <1>9. ASSUME NEW w \in Runners, SafeReplace(w) \/ PublishNew(w)
        PROVE  Obeys(w)'
    <2>1. cur[w].pipeline \in Pipelines /\ cur[w].run \in Runs
      BY <1>9, CurWorks DEF SafeReplace, PublishNew, At
    <2>2. \A q \in Inputs[cur[w].pipeline] \cap chosen[w] : touched[w][q] # NoRun
      BY <1>9 DEF SafeReplace, PublishNew, At, Inv, LoopFits, Publishing
    <2>3. touched'[w] = [touched[w] EXCEPT ![cur[w].pipeline] = cur[w].run] /\ chosen' = chosen
      BY <1>9 DEF SafeReplace, PublishNew, Publish, invocation, Inv, TypeOK, HistoryTyped
    <2>4. touched[w] \in [Pipelines -> Runs \cup {NoRun}] /\ chosen[w] \subseteq Pipelines
      BY DEF Inv, TypeOK, ControlTyped, HistoryTyped
    <2>5. ASSUME NEW p \in chosen[w], NEW q \in Inputs[p] \cap chosen[w], touched'[w][p] # NoRun
          PROVE  touched'[w][q] # NoRun
      <3>1. touched[w][q] # NoRun
        BY <2>2, <2>3, <2>4, <2>5 DEF BlockedStaysUntouched
      <3>2. QED
        BY <2>1, <2>3, <2>4, <3>1 DEF Runs, NoRun
    <2>6. QED
      BY <2>3, <2>5
  <1>10. ASSUME NEW w \in Runners, Step(w), Obeys(w)'
         PROVE  BlockedStaysUntouched'
    BY <1>7, <1>10 DEF BlockedStaysUntouched
  <1>11. ASSUME NEW w \in Runners, Step(w)
         PROVE  BlockedStaysUntouched'
    <2>1. CASE \E selected \in SUBSET Pipelines : Start(w, selected)
      BY <1>8, <1>10, <1>11, <2>1
    <2>2. CASE SafeReplace(w) \/ PublishNew(w)
      BY <1>9, <1>10, <1>11, <2>2
    <2>3. QED
      BY <1>1, <1>2, <1>3, <1>6, <1>11, <2>1, <2>2 DEF Step, Call, RunOne, RecordOne
  <1>12. QED
    BY <1>4, <1>5, <1>6, <1>11 DEF Next

(* Nothing is published over an upstream the invocation left unpublished.   *)
THEOREM BlockedUntouched == Spec => []BlockedStaysUntouched
  <1>1. Init => BlockedStaysUntouched
    BY DEF Init, BlockedStaysUntouched
  <1>2. Inv /\ BlockedStaysUntouched /\ [Next]_vars => BlockedStaysUntouched'
    BY BlockedStep
  <1>3. QED
    BY <1>1, <1>2, Invariance, PTL DEF Spec

-----------------------------------------------------------------------------
(* Every step keeps the records behind what was done.                       *)
LEMMA RecordsFollowStep ==
  ASSUME Inv, RecordsFollowPublication, [Next]_vars
  PROVE  RecordsFollowPublication'
  <1>0. published \subseteq published' /\ runs \subseteq runs'
    BY Grows
  <1>1. \A p \in Pipelines, r \in Runs : Succeeded(p, r) => Succeeded(p, r)'
    BY <1>0 DEF Succeeded
  <1> DEFINE Real == \A p \in Pipelines, r \in Runs : Succeeded(p, r) => <<p, r>> \in published
             Named == \A e \in lineage : Succeeded(e.output, e.run)
             Best == \A p \in Pipelines : latest[p].success # NoRun => Succeeded(p, latest[p].success)
             One == \A p \in Pipelines : \A d, e \in EdgesOf(p) : d.run = e.run
  <1>2. Real /\ Named /\ Best /\ One
    BY DEF RecordsFollowPublication
  <1>3. lineage \subseteq Edge /\ latest \in [Pipelines -> Observation]
    BY DEF Inv, TypeOK, RecordsTyped
  <1>4. UNCHANGED runs => Real'
    BY <1>0, <1>2 DEF Succeeded
  <1>5. UNCHANGED lineage => Named' /\ One'
    BY <1>1, <1>2, <1>3 DEF EdgesOf, Edge
  <1>6. UNCHANGED latest => Best'
    <2>1. SUFFICES ASSUME UNCHANGED latest, NEW p \in Pipelines, latest[p].success # NoRun
          PROVE  Succeeded(p, latest[p].success)'
      OBVIOUS
    <2>2. latest[p].success \in Runs
      BY <1>3, <2>1 DEF Observation
    <2>3. QED
      BY <1>1, <1>2, <2>1, <2>2 DEF Succeeded
  <1>7. UNCHANGED <<runs, lineage, latest>> => RecordsFollowPublication'
    BY <1>4, <1>5, <1>6 DEF RecordsFollowPublication
  <1>8. ASSUME NEW w \in Runners,
         \/ Ingest(w)
         \/ \E selected \in SUBSET Pipelines : Start(w, selected)
         \/ \E p \in Pipelines : PassOver(w, p)
         \/ \E p \in Pipelines : FindInputs(w, p)
         \/ Build(w)
         \/ RefuseSql(w)
         \/ PassGates(w)
         \/ \E status \in Failures : FailGates(w, status)
         \/ FindTarget(w)
       PROVE  UNCHANGED <<runs, lineage, latest>>
    BY <1>8 DEF tables, records, invocation, history, Ingest, Start, PassOver,
       FindInputs, Build, RefuseSql, Fail, PassGates, FailGates, FindTarget
  <1>9. ASSUME NEW w \in Runners,
         \/ SafeReplace(w)
         \/ PublishNew(w)
         \/ RefusePublication(w)
         \/ Conflict(w)
         \/ Prune(w)
         \/ Stop(w)
       PROVE  UNCHANGED <<runs, lineage, latest>>
    BY <1>9 DEF tables, records, invocation, history, SafeReplace, Publish,
       PublishNew, RefusePublication, Fail, Conflict, Abort, Prune, Stop
  <1>10. ASSUME NEW w \in Runners,
         \/ CloseRecord(w)
         \/ AuditRun(w)
         \/ Finish(w)
       PROVE  UNCHANGED <<runs, lineage, latest>>
    BY <1>10 DEF tables, records, invocation, history, CloseRecord, AuditRun, Finish
  <1>11. UNCHANGED vars => UNCHANGED <<runs, lineage, latest>>
    BY DEF vars
  <1>12. (\E p \in Pipelines, r \in Runs : RestoreTable(p, r)) => UNCHANGED <<runs, lineage, latest>>
    BY DEF RestoreTable, records
  <1>13. ASSUME NEW w \in Runners, RecordRun(w)
         PROVE  RecordsFollowPublication'
    <2>1. runs' = runs \cup {cur[w]} /\ UNCHANGED <<lineage, latest, published>>
      BY <1>13 DEF RecordRun, history
    <2>2. cur[w].status = "succeeded" => <<cur[w].pipeline, cur[w].run>> \in published
      BY <1>13 DEF RecordRun, At, Inv, CandidatePlaced, Done
    <2>3. Real'
      <3>1. SUFFICES ASSUME NEW p \in Pipelines, NEW r \in Runs, Succeeded(p, r)'
            PROVE  <<p, r>> \in published'
        OBVIOUS
      <3>2. CASE Succeeded(p, r)
        BY <1>2, <2>1, <3>2
      <3>3. CASE [run |-> r, pipeline |-> p, status |-> "succeeded"] = cur[w]
        <4>1. cur[w].run = r /\ cur[w].pipeline = p /\ cur[w].status = "succeeded"
          BY <3>3
        <4>2. QED
          BY <2>1, <2>2, <4>1
      <3>4. QED
        BY <2>1, <3>1, <3>2, <3>3 DEF Succeeded
    <2>4. QED
      BY <1>5, <1>6, <2>1, <2>3 DEF RecordsFollowPublication
  <1>14. ASSUME NEW w \in Runners, DropEdges(w)
         PROVE  RecordsFollowPublication'
    <2>1. lineage' \subseteq lineage /\ UNCHANGED <<runs, latest>>
      BY <1>14 DEF DropEdges
    <2>2. Named' /\ One'
      BY <1>2, <2>1 DEF EdgesOf, Succeeded
    <2>3. QED
      BY <1>4, <1>6, <2>1, <2>2 DEF RecordsFollowPublication
  <1>15. ASSUME NEW w \in Runners, AddEdge(w)
         PROVE  RecordsFollowPublication'
    <2>1. PICK e \in EdgesFor(cur[w].pipeline, cur[w].run) : lineage' = lineage \cup {e}
      BY <1>15 DEF AddEdge
    <2>2. e.output = cur[w].pipeline /\ e.run = cur[w].run
      BY <2>1 DEF EdgesFor
    <2>3. UNCHANGED <<runs, latest>> /\ pc[w] = "edges"
      BY <1>15 DEF AddEdge, At
    <2>4. cur[w] = [pipeline |-> cur[w].pipeline, run |-> cur[w].run, status |-> cur[w].status]
      BY <2>3, CurWorks
    <2>5. cur[w] \in runs /\ cur[w].status = "succeeded"
      BY <2>3 DEF Inv, CandidatePlaced, Recorded
    <2>6. Succeeded(e.output, e.run)
      BY <2>2, <2>4, <2>5 DEF Succeeded
    <2>7. \A d \in EdgesOf(cur[w].pipeline) : d.run = cur[w].run
      BY <2>3 DEF Inv, CandidatePlaced
    <2>8. Named'
      BY <1>2, <2>1, <2>3, <2>6 DEF Succeeded
    <2>9. One'
      BY <1>2, <2>1, <2>2, <2>7 DEF EdgesOf
    <2>10. QED
      BY <1>4, <1>6, <2>3, <2>8, <2>9 DEF RecordsFollowPublication
  <1>16. ASSUME NEW w \in Runners, Observe(w)
         PROVE  RecordsFollowPublication'
    <2>1. /\ UNCHANGED <<runs, lineage>> /\ pc[w] = "observe"
          /\ \/ UNCHANGED latest
             \/ latest' = [latest EXCEPT ![cur[w].pipeline] = Observed(@, cur[w])]
      BY <1>16 DEF Observe, At
    <2>2. cur[w].pipeline \in Pipelines
      BY <2>1, CurWorks
    <2>3. cur[w] = [pipeline |-> cur[w].pipeline, run |-> cur[w].run, status |-> cur[w].status]
      BY <2>1, CurWorks
    <2>4. cur[w] \in runs
      BY <2>1 DEF Inv, CandidatePlaced, Recorded
    <2>5. ASSUME NEW p \in Pipelines, latest'[p].success # NoRun
          PROVE  Succeeded(p, latest'[p].success)
      <3>1. CASE latest'[p].success = latest[p].success
        BY <1>2, <2>5, <3>1
      <3>2. CASE latest'[p].success # latest[p].success
        <4>1. p = cur[w].pipeline /\ latest'[p] = Observed(latest[p], cur[w])
          BY <1>3, <2>1, <2>2, <3>2
        <4>2. cur[w].status = "succeeded" /\ latest'[p].success = cur[w].run
          <5>1. PICK previous \in Observation : previous = latest[p]
            BY <1>3
          <5>2. cur[w].status = "skipped" => Observed(previous, cur[w]).success = previous.success
            BY DEF Observed, Observation
          <5>3. cur[w].status # "skipped" => Observed(previous, cur[w]).success =
                  IF cur[w].status = "succeeded" THEN cur[w].run ELSE previous.success
            BY DEF Observed
          <5>4. QED
            BY <3>2, <4>1, <5>1, <5>2, <5>3
        <4>3. QED
          BY <2>3, <2>4, <4>1, <4>2 DEF Succeeded
      <3>3. QED
        BY <3>1, <3>2
    <2>6. Best'
      BY <2>1, <2>5 DEF Succeeded
    <2>7. QED
      BY <1>4, <1>5, <2>1, <2>6 DEF RecordsFollowPublication
  <1>17. QED
    BY <1>7, <1>8, <1>9, <1>10, <1>11, <1>12, <1>13, <1>14, <1>15, <1>16
    DEF Next, Step, Call, RunOne, RecordOne

(* What is recorded was done.                                               *)
THEOREM RecordsFollow == Spec => []RecordsFollowPublication
  <1>1. Init => RecordsFollowPublication
    BY DEF Init, RecordsFollowPublication, Succeeded, EdgesOf, Unobserved
  <1>2. Inv /\ RecordsFollowPublication /\ [Next]_vars => RecordsFollowPublication'
    BY RecordsFollowStep
  <1>3. QED
    BY <1>1, <1>2, Invariance, PTL DEF Spec

-----------------------------------------------------------------------------
(* The last success an observation carries on is the previous one.          *)
LEMMA ObservedSuccess ==
  ASSUME NEW previous \in Observation, NEW row \in RunRow
  PROVE  Observed(previous, row).success \in {previous.success, row.run}
  <1>1. row.status = "skipped" => Observed(previous, row).success = previous.success
    BY DEF Observed, Observation
  <1>2. row.status # "skipped" => Observed(previous, row).success =
          IF row.status = "succeeded" THEN row.run ELSE previous.success
    BY DEF Observed
  <1>3. QED
    BY <1>1, <1>2

(* A runner in the middle of a pipeline has just drawn its run id or keeps  *)
(* the one it had.                                                          *)
LEMMA HoldsRun ==
  ASSUME Inv, NEW w \in Runners, Step(w)
  PROVE  \/ pc'[w] \in {"idle", "next"} /\ drawn' = drawn
         \/ pc[w] \notin {"idle", "next"} /\ cur'[w].run = cur[w].run /\ drawn' = drawn
         \/ cur'[w].run = drawn + 1 /\ drawn' = drawn + 1
  <1>1. CASE \E p \in Pipelines : PassOver(w, p) \/ FindInputs(w, p)
    BY <1>1 DEF PassOver, FindInputs, Draw, Inv, TypeOK, ControlTyped
  <1>2. CASE RefuseSql(w) \/ RefusePublication(w) \/ \E status \in Failures : FailGates(w, status)
    <2>1. PICK status \in Failures : Fail(w, status) /\ pc[w] \notin {"idle", "next"}
      BY <1>2 DEF RefuseSql, FailGates, RefusePublication, At, Failures
    <2>2. QED
      BY <2>1, SettleWorks DEF Fail, Statuses
  <1>3. CASE Prune(w)
    BY <1>3, SettleWorks DEF Prune, At, Statuses
  <1>4. CASE \/ Build(w) \/ PassGates(w) \/ FindTarget(w) \/ SafeReplace(w) \/ PublishNew(w)
             \/ RecordRun(w) \/ DropEdges(w) \/ AddEdge(w) \/ CloseRecord(w) \/ AuditRun(w)
    BY <1>4 DEF Build, PassGates, FindTarget, SafeReplace, PublishNew, Publish, RecordRun,
       DropEdges, AddEdge, CloseRecord, AuditRun, At
  <1>5. CASE \/ Ingest(w) \/ (\E selected \in SUBSET Pipelines : Start(w, selected))
             \/ Conflict(w) \/ Observe(w) \/ Finish(w) \/ Stop(w)
    BY <1>5 DEF Ingest, Start, Conflict, Abort, Observe, Finish, Stop, At, Goto,
       Inv, TypeOK, ControlTyped
  <1>6. QED
    BY <1>1, <1>2, <1>3, <1>4, <1>5 DEF Step, Call, RunOne, RecordOne

Later == \A p \in Pipelines : latest'[p].success >= latest[p].success

(* Only an observer that is done with a run changes a last success, and run *)
(* ids only grow.                                                           *)
LEMMA AheadStep ==
  ASSUME Inv, ObserverAhead, [Next]_vars, \A v, w \in Observers : v = w
  PROVE  ObserverAhead' /\ Later
  <1>1. /\ latest \in [Pipelines -> Observation] /\ drawn \in Nat
        /\ \A p \in Pipelines : latest[p].success \in Nat
    BY DEF Inv, TypeOK, RecordsTyped, ControlTyped, Observation, Runs, NoRun
  <1>2. \A p \in Pipelines : latest[p].success <= drawn
    BY DEF ObserverAhead
  <1>3. ASSUME NEW v \in Runners, pc[v] \notin {"idle", "next"}
        PROVE  cur[v].run \in Nat
    <2>1. cur[v].run \in Runs
      BY <1>3, CurWorks
    <2>2. QED
      BY <2>1 DEF Runs
  <1>4. ASSUME NEW w \in Runners,
         \/ Ingest(w)
         \/ \E selected \in SUBSET Pipelines : Start(w, selected)
         \/ \E p \in Pipelines : PassOver(w, p)
         \/ \E p \in Pipelines : FindInputs(w, p)
         \/ Build(w)
         \/ RefuseSql(w)
         \/ PassGates(w)
         \/ \E status \in Failures : FailGates(w, status)
         \/ FindTarget(w)
       PROVE  UNCHANGED latest
    BY <1>4 DEF tables, records, invocation, history, Ingest, Start, PassOver,
       FindInputs, Build, RefuseSql, Fail, PassGates, FailGates, FindTarget
  <1>5. ASSUME NEW w \in Runners,
         \/ SafeReplace(w)
         \/ PublishNew(w)
         \/ RefusePublication(w)
         \/ Conflict(w)
         \/ Prune(w)
         \/ Stop(w)
       PROVE  UNCHANGED latest
    BY <1>5 DEF tables, records, invocation, history, SafeReplace, Publish,
       PublishNew, RefusePublication, Fail, Conflict, Abort, Prune, Stop
  <1>6. ASSUME NEW w \in Runners,
         \/ RecordRun(w)
         \/ DropEdges(w)
         \/ AddEdge(w)
         \/ CloseRecord(w)
         \/ AuditRun(w)
         \/ Finish(w)
       PROVE  UNCHANGED latest
    BY <1>6 DEF tables, records, invocation, history, RecordRun, DropEdges, AddEdge,
       CloseRecord, AuditRun, Finish
  <1>7. (\E p \in Pipelines, r \in Runs : RestoreTable(p, r)) \/ UNCHANGED vars
          => UNCHANGED <<latest, drawn, pc, cur>>
    BY DEF RestoreTable, records, vars
  <1>8. ASSUME UNCHANGED <<latest, drawn, pc, cur>>
         PROVE  ObserverAhead' /\ Later
    BY <1>1, <1>8 DEF ObserverAhead, Later
  <1>9. ASSUME NEW w \in Runners, Step(w), UNCHANGED latest
         PROVE  ObserverAhead' /\ Later
    <2>1. drawn' \in {drawn, drawn + 1}
      BY <1>9, HoldsRun
    <2>2. ASSUME NEW v \in Observers, pc'[v] \notin {"idle", "next"}
          PROVE  cur'[v].run <= drawn' /\ \A p \in Pipelines : latest[p].success < cur'[v].run
      <3>1. CASE v # w
        <4>1. v \in Runners
          OBVIOUS
        <4>2. pc'[v] = pc[v] /\ cur'[v] = cur[v]
          BY <1>9, <3>1, <4>1, OthersKeep DEF Keeps
        <4>3. cur[v].run <= drawn /\ \A p \in Pipelines : latest[p].success < cur[v].run
          BY <2>2, <4>2 DEF ObserverAhead
        <4>4. QED
          BY <1>1, <1>3, <2>1, <2>2, <4>1, <4>2, <4>3
      <3>2. CASE v = w
        <4>1. CASE pc[w] \notin {"idle", "next"} /\ cur'[w].run = cur[w].run /\ drawn' = drawn
          BY <3>2, <4>1 DEF ObserverAhead
        <4>2. CASE cur'[w].run = drawn + 1 /\ drawn' = drawn + 1
          BY <1>1, <1>2, <3>2, <4>2
        <4>3. QED
          BY <1>9, <2>2, <3>2, <4>1, <4>2, HoldsRun
      <3>3. QED
        BY <3>1, <3>2
    <2>3. Later /\ \A p \in Pipelines : latest'[p].success <= drawn'
      BY <1>1, <1>2, <1>9, <2>1 DEF Later
    <2>4. QED
      BY <1>9, <2>2, <2>3 DEF ObserverAhead
  <1>10. ASSUME NEW w \in Runners, Observe(w)
         PROVE  ObserverAhead' /\ Later
    <2>1. pc[w] = "observe" /\ drawn' = drawn /\ pc' = [pc EXCEPT ![w] = "next"]
      BY <1>10 DEF Observe, At, Goto
    <2>2. CASE w \notin Observers
      <3>1. UNCHANGED latest
        BY <1>10, <2>2 DEF Observe
      <3>2. QED
        BY <1>9, <1>10, <3>1 DEF Step, RecordOne
    <2>3. CASE w \in Observers
      <3>1. latest' = [latest EXCEPT ![cur[w].pipeline] = Observed(@, cur[w])]
        BY <1>10, <2>3 DEF Observe
      <3>2. cur[w].pipeline \in Pipelines /\ cur[w].run \in Nat
        BY <1>3, <2>1, CurWorks
      <3>3. cur[w] \in RunRow
        BY <2>1, StatusKnown DEF Recorded
      <3>4. cur[w].run <= drawn /\ \A p \in Pipelines : latest[p].success < cur[w].run
        BY <2>1, <2>3 DEF ObserverAhead
      <3>5. \A p \in Pipelines : latest'[p].success \in {latest[p].success, cur[w].run}
        BY <1>1, <3>1, <3>2, <3>3, ObservedSuccess
      <3>6. Later
        BY <1>1, <3>2, <3>4, <3>5 DEF Later
      <3>7. \A p \in Pipelines : latest'[p].success <= drawn'
        BY <1>1, <1>2, <2>1, <3>4, <3>5
      <3>8. \A v \in Observers : pc'[v] = "next"
        BY <2>1, <2>3 DEF Inv, TypeOK, ControlTyped
      <3>9. QED
        BY <3>6, <3>7, <3>8 DEF ObserverAhead
    <2>4. QED
      BY <2>2, <2>3
  <1>11. QED
    BY <1>4, <1>5, <1>6, <1>7, <1>8, <1>9, <1>10 DEF Next, Step, Call, RunOne, RecordOne

(* With one observer, as the lock on the runtime repository ensures, a last *)
(* success is only replaced by a later one.                                 *)
THEOREM LastSuccess ==
  ASSUME \A v, w \in Observers : v = w
  PROVE  Spec => LastSuccessStays
  <1>1. Init => ObserverAhead
    BY DEF Init, ObserverAhead, Unobserved, NoRun
  <1>2. Inv /\ ObserverAhead /\ [Next]_vars => ObserverAhead'
    BY AheadStep
  <1>3. Inv /\ ObserverAhead /\ [Next]_vars => [Later]_vars
    BY AheadStep
  <1>4. [Later]_vars <=> [\A p \in Pipelines : latest'[p].success >= latest[p].success]_vars
    BY DEF Later
  <1>5. QED
    BY <1>1, <1>2, <1>3, <1>4, Invariance, PTL DEF Spec, LastSuccessStays

-----------------------------------------------------------------------------
(* One runner that nothing disturbs: no other process on the file, no       *)
(* faults and no restores.                                                  *)
Alone == (\A v, w \in Runners : v = w) /\ ~Faults /\ ~Restores

Behind == {"prune", "record"} \cup Recorded   \* steps past a publication

\* A pipeline is published once: it is to do until its records are written.
OnceEach(w) ==
  /\ pc[w] = "idle" => todo[w] = {}
  /\ pc[w] \notin {"idle", "next"} => cur[w].pipeline \in todo[w]
  /\ \A p \in todo[w] : touched[w][p] # NoRun => pc[w] \in Behind /\ p = cur[w].pipeline

\* Nobody else changes a table, so what was published or found is still there.
TablesKnown(w) ==
  /\ \A p \in Pipelines : touched[w][p] # NoRun => table[p] = touched[w][p]
  /\ pc[w] = "publish" => ~Exists(cur[w].pipeline)
  /\ pc[w] = "prune" => table[cur[w].pipeline] = cur[w].run
  /\ pc[w] \in {"record"} \cup Recorded /\ cur[w].status = "succeeded" =>
       table[cur[w].pipeline] = cur[w].run

ReadsKnown(w) ==
  /\ pc[w] \in {"gate"} \cup Publishing =>
       \A q \in Inputs[cur[w].pipeline] : <<cur[w].run, table[q]>> \in read
  /\ \A p \in chosen[w] : \A q \in Inputs[p] \cap chosen[w] :
       touched[w][p] # NoRun => <<touched[w][p], touched[w][q]>> \in read

Calm(w) == OnceEach(w) /\ TablesKnown(w) /\ ReadsKnown(w)

(* What the variables of the runner are functions to.                       *)
LEMMA Typed ==
  ASSUME Inv
  PROVE  /\ pc \in [Runners -> Steps] /\ todo \in [Runners -> SUBSET Pipelines]
         /\ chosen \in [Runners -> SUBSET Pipelines]
         /\ blocked \in [Runners -> SUBSET Pipelines]
         /\ cur \in [Runners -> Working \cup {Idle}]
         /\ touched \in [Runners -> [Pipelines -> Runs \cup {NoRun}]]
         /\ table \in [Pipelines -> Runs \cup {NoRun}]
         /\ drawn \in Nat
  BY DEF Inv, TypeOK, ControlTyped, HistoryTyped, TablesTyped

(* Drawing a run id.                                                        *)
LEMMA DrawCalm ==
  ASSUME Inv, NEW w \in Runners, Calm(w), NEW p \in Pipelines,
         PassOver(w, p) \/ FindInputs(w, p)
  PROVE  Calm(w)'
  <1>1. /\ pc[w] = "next" /\ p \in todo[w]
        /\ UNCHANGED <<todo, chosen, touched, table, read>>
    BY DEF PassOver, FindInputs, IsNext, At, tables, history, invocation
  <1>2. /\ pc'[w] \in {"record", "build"} /\ cur'[w].pipeline = p
        /\ cur'[w].status # "succeeded"
    BY Typed DEF PassOver, FindInputs, Draw, Goto
  <1>3. \A q \in todo[w] : touched[w][q] = NoRun
    BY <1>1 DEF Calm, OnceEach, Behind, Recorded
  <1>4. OnceEach(w)'
    BY <1>1, <1>2, <1>3 DEF OnceEach
  <1>5. TablesKnown(w)' /\ ReadsKnown(w)'
    BY <1>1, <1>2 DEF Calm, TablesKnown, ReadsKnown, Publishing, Recorded
  <1>6. QED
    BY <1>4, <1>5 DEF Calm

(* A run that fails to publish leaves tables and what it read alone.        *)
LEMMA FailCalm ==
  ASSUME Inv, NEW w \in Runners, Calm(w), pc[w] \in {"build", "gate"} \cup Publishing,
         NEW status \in Failures, Fail(w, status)
  PROVE  Calm(w)'
  <1>1. UNCHANGED <<todo, chosen, touched, table, read>>
    BY DEF Fail, history
  <1>2. pc'[w] = "record" /\ cur'[w].pipeline = cur[w].pipeline /\ cur'[w].status # "succeeded"
    BY SettleWorks, Typed DEF Fail, Goto, Statuses, Failures, Publishing
  <1>3. OnceEach(w)'
    BY <1>1, <1>2 DEF Calm, OnceEach, Behind, Publishing
  <1>4. TablesKnown(w)' /\ ReadsKnown(w)'
    BY <1>1, <1>2 DEF Calm, TablesKnown, ReadsKnown, Publishing, Recorded
  <1>5. QED
    BY <1>3, <1>4 DEF Calm

(* What is published was built from the tables as they are.                 *)
LEMMA PublishCalm ==
  ASSUME Inv, BlockedStaysUntouched, NEW w \in Runners, Calm(w),
         SafeReplace(w) \/ PublishNew(w)
  PROVE  Calm(w)'
  <1>1. pc[w] \in Publishing /\ pc[w] \notin Behind /\ pc[w] \notin {"idle", "next"}
    BY DEF SafeReplace, PublishNew, At, Publishing, Behind, Recorded
  <1>2. PICK p \in Pipelines, r \in Runs : p = cur[w].pipeline /\ r = cur[w].run
    BY <1>1, CurWorks
  <1>3. /\ table' = [table EXCEPT ![p] = r]
        /\ touched'[w] = [touched[w] EXCEPT ![p] = r]
        /\ pc'[w] = "prune" /\ UNCHANGED <<cur, todo, chosen, read>>
    BY <1>2, Typed DEF SafeReplace, PublishNew, Publish, Goto, invocation
  <1>4. touched[w][p] = NoRun /\ p \in todo[w] /\ \A q \in todo[w] : touched[w][q] = NoRun
    BY <1>1, <1>2 DEF Calm, OnceEach
  <1>5. r # NoRun
    BY DEF Runs, NoRun
  <1>6. OnceEach(w)'
    BY <1>2, <1>3, <1>4, <1>5, Typed DEF OnceEach, Behind
  <1>7. TablesKnown(w)'
    BY <1>2, <1>3, Typed DEF Calm, TablesKnown, Recorded
  <1>8. ReadsKnown(w)'
    <2> SUFFICES ASSUME NEW o \in chosen[w], NEW q \in Inputs[o] \cap chosen[w],
                        touched'[w][o] # NoRun
                 PROVE  <<touched'[w][o], touched'[w][q]>> \in read
      BY <1>3 DEF ReadsKnown, Publishing
    <2>1. o \in Pipelines /\ q \in Pipelines /\ q # o
      BY Typed
    <2>2. CASE o = p
      <3>1. touched[w][q] # NoRun
        BY <1>1, <1>2, <2>2 DEF Inv, LoopFits
      <3>2. table[q] = touched[w][q] /\ <<r, table[q]>> \in read
        BY <1>1, <1>2, <2>1, <2>2, <3>1 DEF Calm, TablesKnown, ReadsKnown
      <3>3. QED
        BY <1>3, <2>1, <2>2, <3>2, Typed
    <2>3. CASE o # p
      <3>1. touched'[w][o] = touched[w][o]
        BY <1>3, <2>1, <2>3, Typed
      <3>2. <<touched[w][o], touched[w][q]>> \in read
        BY <3>1 DEF Calm, ReadsKnown
      <3>3. q # p
        <4>1. ASSUME q = p PROVE FALSE
          <5>1. touched[w][q] # NoRun
            BY <3>1 DEF BlockedStaysUntouched
          <5>2. QED
            BY <1>4, <4>1, <5>1
        <4>2. QED
          BY <4>1
      <3>4. QED
        BY <1>3, <2>1, <3>1, <3>2, <3>3, Typed
    <2>4. QED
      BY <2>2, <2>3
  <1>9. QED
    BY <1>6, <1>7, <1>8 DEF Calm

(* The steps of an undisturbed invocation up to its publication.            *)
LEMMA BuildCalm ==
  ASSUME Inv, NEW w \in Runners, Calm(w),
         Build(w) \/ PassGates(w) \/ FindTarget(w)
  PROVE  Calm(w)'
  <1>1. /\ UNCHANGED <<cur, todo, chosen, touched, table>>
        /\ read \subseteq read'
        /\ pc[w] \in {"build", "gate", "target"}
        /\ pc'[w] \in {"gate", "target", "replace", "publish"}
        /\ pc'[w] = "publish" => ~Exists(cur[w].pipeline)
    BY Typed DEF Build, PassGates, FindTarget, Goto, At, tables, history, invocation
  <1>2. OnceEach(w)' /\ TablesKnown(w)'
    BY <1>1 DEF Calm, OnceEach, TablesKnown, Exists, Behind, Recorded
  <1>3. \A q \in Inputs[cur[w].pipeline] : <<cur[w].run, table[q]>> \in read'
    <2>1. CASE Build(w)
      BY <2>1 DEF Build
    <2>2. CASE PassGates(w) \/ FindTarget(w)
      BY <2>2, <1>1 DEF PassGates, FindTarget, At, Calm, ReadsKnown, Publishing
    <2>3. QED
      BY <2>1, <2>2
  <1>4. \A p \in chosen[w] : \A q \in Inputs[p] \cap chosen[w] :
          touched[w][p] # NoRun => <<touched[w][p], touched[w][q]>> \in read'
    BY <1>1 DEF Calm, ReadsKnown
  <1>5. ReadsKnown(w)'
    BY <1>1, <1>3, <1>4 DEF ReadsKnown
  <1>6. QED
    BY <1>2, <1>5 DEF Calm

(* The steps behind a publication, and the ends of the loop.                *)
LEMMA RecordCalm ==
  ASSUME Inv, NEW w \in Runners, Calm(w), Prune(w) \/ RecordOne(w)
  PROVE  Calm(w)'
  <1>1. UNCHANGED <<table, chosen, touched, read>>
    BY DEF Prune, RecordOne, RecordRun, DropEdges, AddEdge, CloseRecord, AuditRun,
           Observe, Finish, tables, history, invocation
  <1>2. CASE Prune(w)
    <2>1. pc[w] = "prune" /\ pc'[w] = "record" /\ UNCHANGED todo
      BY <1>2, Typed DEF Prune, At, Goto, invocation
    <2>2. cur'[w].pipeline = cur[w].pipeline /\ cur'[w].run = cur[w].run
      BY <1>2, <2>1, SettleWorks DEF Prune, Statuses
    <2>3. OnceEach(w)' /\ TablesKnown(w)'
      BY <1>1, <2>1, <2>2 DEF Calm, OnceEach, TablesKnown, Behind, Recorded
    <2>4. ReadsKnown(w)'
      BY <1>1, <2>1 DEF Calm, ReadsKnown, Publishing
    <2>5. QED
      BY <2>3, <2>4 DEF Calm
  <1>3. CASE RecordRun(w) \/ DropEdges(w) \/ AddEdge(w) \/ CloseRecord(w) \/ AuditRun(w)
    <2>1. /\ UNCHANGED <<todo, cur>>
          /\ pc[w] \in {"record"} \cup Recorded /\ pc'[w] \in Recorded
      BY <1>3, Typed DEF RecordRun, DropEdges, AddEdge, CloseRecord, AuditRun, At,
                         Goto, Recorded, invocation
    <2>2. OnceEach(w)' /\ TablesKnown(w)'
      BY <1>1, <2>1 DEF Calm, OnceEach, TablesKnown, Behind, Recorded
    <2>3. ReadsKnown(w)'
      BY <1>1, <2>1 DEF Calm, ReadsKnown, Publishing, Recorded
    <2>4. QED
      BY <2>2, <2>3 DEF Calm
  <1>4. CASE Observe(w)
    <2>1. /\ pc[w] = "observe" /\ pc'[w] = "next"
          /\ todo'[w] = todo[w] \ {cur[w].pipeline}
      BY <1>4, Typed DEF Observe, At, Goto
    <2>2. OnceEach(w)' /\ TablesKnown(w)'
      BY <1>1, <2>1 DEF Calm, OnceEach, TablesKnown, Behind, Recorded
    <2>3. ReadsKnown(w)'
      BY <1>1, <2>1 DEF Calm, ReadsKnown, Publishing
    <2>4. QED
      BY <2>2, <2>3 DEF Calm
  <1>5. CASE Finish(w)
    <2>1. pc'[w] = "idle" /\ todo[w] = {} /\ UNCHANGED todo
      BY <1>5, Typed DEF Finish, At, Goto, invocation
    <2>2. OnceEach(w)' /\ TablesKnown(w)'
      BY <1>1, <2>1 DEF Calm, OnceEach, TablesKnown, Behind, Recorded
    <2>3. ReadsKnown(w)'
      BY <1>1, <2>1 DEF Calm, ReadsKnown, Publishing
    <2>4. QED
      BY <2>2, <2>3 DEF Calm
  <1>6. QED
    BY <1>2, <1>3, <1>4, <1>5 DEF RecordOne

(* A new invocation has published nothing.                                  *)
LEMMA CallCalm ==
  ASSUME Inv, NEW w \in Runners, Calm(w), Call(w)
  PROVE  Calm(w)'
  <1>1. CASE Ingest(w)
    BY <1>1 DEF Ingest, invocation, history, Calm, OnceEach, TablesKnown, ReadsKnown,
                Exists
  <1>2. ASSUME NEW S \in SUBSET Pipelines, Start(w, S)
        PROVE  Calm(w)'
    <2>1. pc'[w] = "next" /\ \A p \in Pipelines : touched'[w][p] = NoRun
      BY <1>2, Typed DEF Start, Goto, Untouched
    <2>2. chosen'[w] \in SUBSET Pipelines /\ todo'[w] \in SUBSET Pipelines
      BY <1>2, Typed DEF Start
    <2>3. QED
      BY <2>1, <2>2 DEF Calm, OnceEach, TablesKnown, ReadsKnown, Publishing, Recorded
  <1>3. QED
    BY <1>1, <1>2 DEF Call

(* An undisturbed runner does not stop in the middle, and meets no conflict.*)
LEMMA CalmStep ==
  ASSUME Alone, Inv, BlockedStaysUntouched, \A w \in Runners : Calm(w), [Next]_vars
  PROVE  \A w \in Runners : Calm(w)'
  <1> SUFFICES ASSUME NEW w \in Runners PROVE Calm(w)'
    OBVIOUS
  <1>1. CASE UNCHANGED vars
    BY <1>1 DEF vars, Calm, OnceEach, TablesKnown, ReadsKnown, Exists
  <1>2. CASE Next
    <2>1. Step(w)
      BY <1>2 DEF Next, Alone, RestoreTable
    <2>2. ~Stop(w)
      BY DEF Stop, Alone, Inv, TypeOK, ControlTyped
    <2>3. ~Conflict(w)
      BY DEF Conflict, At, Calm, TablesKnown
    <2>4. CASE Call(w)
      BY <2>4, CallCalm
    <2>5. CASE RunOne(w)
      <3>1. ASSUME NEW p \in Pipelines, PassOver(w, p) \/ FindInputs(w, p) PROVE Calm(w)'
        BY <3>1, DrawCalm
      <3>2. CASE RefuseSql(w) \/ RefusePublication(w)
                 \/ \E status \in Failures : FailGates(w, status)
        <4>1. \E status \in Failures : Fail(w, status)
          BY <3>2 DEF RefuseSql, RefusePublication, FailGates, Failures
        <4>2. pc[w] \in {"build", "gate"} \cup Publishing
          BY <3>2 DEF RefuseSql, RefusePublication, FailGates, At, Publishing
        <4>3. QED
          BY <4>1, <4>2, FailCalm
      <3>3. CASE Build(w) \/ PassGates(w) \/ FindTarget(w)
        BY <3>3, BuildCalm
      <3>4. CASE SafeReplace(w) \/ PublishNew(w)
        BY <3>4, PublishCalm
      <3>5. CASE Prune(w)
        BY <3>5, RecordCalm
      <3>6. QED
        BY <2>3, <2>5, <3>1, <3>2, <3>3, <3>4, <3>5 DEF RunOne
    <2>6. CASE RecordOne(w)
      BY <2>6, RecordCalm
    <2>7. QED
      BY <2>1, <2>2, <2>4, <2>5, <2>6 DEF Step
  <1>3. QED
    BY <1>1, <1>2

LEMMA CalmInvariance ==
  ASSUME Alone
  PROVE  Spec => [](\A w \in Runners : Calm(w))
  <1>1. Init => \A w \in Runners : Calm(w)
    <2> SUFFICES ASSUME Init, NEW w \in Runners PROVE Calm(w)
      OBVIOUS
    <2>1. /\ pc[w] = "idle" /\ todo[w] = {} /\ chosen[w] = {}
          /\ \A p \in Pipelines : touched[w][p] = NoRun
      BY DEF Init, Untouched
    <2>2. QED
      BY <2>1 DEF Calm, OnceEach, TablesKnown, ReadsKnown, Publishing, Recorded
  <1>2. Inv /\ BlockedStaysUntouched /\ (\A w \in Runners : Calm(w)) /\ [Next]_vars
          => (\A w \in Runners : Calm(w))'
    BY CalmStep
  <1>3. QED
    BY <1>1, <1>2, Invariance, BlockedUntouched, PTL DEF Spec

(* An undisturbed runner builds from what its own invocation published.     *)
THEOREM BuiltFromThis ==
  ASSUME Alone
  PROVE  Spec => []BuiltFromThisInvocation
  <1>1. (\A w \in Runners : Calm(w)) => BuiltFromThisInvocation
    BY DEF Calm, ReadsKnown, BuiltFromThisInvocation
  <1>2. QED
    BY <1>1, CalmInvariance, PTL

(* Nothing is known to be staged but the candidate at hand.                 *)
Clean(w) ==
  staging \subseteq IF pc[w] \in {"gate"} \cup Publishing THEN {cur[w].run} ELSE {}

LEMMA CleanStep ==
  ASSUME Alone, Runners \subseteq Writers, Inv, \A w \in Runners : Calm(w) /\ Clean(w),
         [Next]_vars
  PROVE  \A w \in Runners : Clean(w)'
  <1> SUFFICES ASSUME NEW w \in Runners PROVE Clean(w)'
    OBVIOUS
  <1>1. CASE UNCHANGED vars
    BY <1>1 DEF vars, Clean
  <1>2. CASE Next
    <2>1. Step(w)
      BY <1>2 DEF Next, Alone, RestoreTable
    <2>2. ~Stop(w) /\ ~Conflict(w) /\ ~RefusePublication(w)
      BY DEF Stop, Conflict, RefusePublication, At, Calm, TablesKnown, Alone, Inv,
             TypeOK, ControlTyped
    <2>3. ASSUME staging = {}, staging' = {} PROVE Clean(w)'
      BY <2>3 DEF Clean
    <2>4. CASE Ingest(w)
      BY <2>4 DEF Ingest, Clean
    <2>5. CASE Build(w)
      BY <2>5, Typed DEF Build, At, Goto, Clean, Publishing
    <2>6. CASE PassGates(w) \/ FindTarget(w)
      BY <2>6, Typed DEF PassGates, FindTarget, At, Goto, tables, Clean, Publishing
    <2>7. ASSUME NEW status \in Failures, FailGates(w, status) PROVE Clean(w)'
      BY <2>3, <2>7 DEF FailGates, Discard, At, Clean, Alone
    <2>8. CASE SafeReplace(w) \/ PublishNew(w)
      BY <2>3, <2>8 DEF SafeReplace, PublishNew, Publish, At, Clean, Publishing
    <2>9. CASE \/ \E S \in SUBSET Pipelines : Start(w, S)
               \/ \E p \in Pipelines : PassOver(w, p) \/ FindInputs(w, p)
               \/ RefuseSql(w) \/ Prune(w) \/ RecordOne(w)
      <3>1. UNCHANGED staging
        BY <2>9 DEF Start, PassOver, FindInputs, RefuseSql, Prune, RecordOne, RecordRun,
                    DropEdges, AddEdge, CloseRecord, AuditRun, Observe, Finish, tables
      <3>2. pc[w] \notin {"gate"} \cup Publishing
        BY <2>9 DEF Start, PassOver, FindInputs, IsNext, RefuseSql, Prune, RecordOne,
                    RecordRun, DropEdges, AddEdge, CloseRecord, AuditRun, Observe, Finish,
                    At, Publishing
      <3>3. QED
        BY <2>3, <3>1, <3>2 DEF Clean
    <2>10. QED
      BY <2>1, <2>2, <2>4, <2>5, <2>6, <2>7, <2>8, <2>9 DEF Step, Call, RunOne
  <1>3. QED
    BY <1>1, <1>2

(* An undisturbed runner that may write leaves no candidate behind.         *)
THEOREM LeavesNothing ==
  ASSUME Alone, Runners \subseteq Writers, Runners # {}
  PROVE  Spec => []NothingLeftBehind
  <1>1. Init => \A w \in Runners : Clean(w)
    BY DEF Init, Clean, Publishing
  <1>2. Inv /\ (\A w \in Runners : Calm(w)) /\ (\A w \in Runners : Clean(w)) /\ [Next]_vars
          => (\A w \in Runners : Clean(w))'
    BY CleanStep
  <1>3. (\A w \in Runners : Clean(w)) => NothingLeftBehind
    BY DEF Clean, NothingLeftBehind, At, Publishing
  <1>4. QED
    BY <1>1, <1>2, <1>3, Invariance, CalmInvariance, PTL DEF Spec

(* The lineage of a dataset describes its table but from a publication to   *)
(* the end of its record, which the runner is in with at most one dataset.  *)
Recording(w, p) ==
  /\ p = cur[w].pipeline
  /\ \/ pc[w] \in {"prune", "relineage", "edges"}
     \/ pc[w] = "record" /\ cur[w].status = "succeeded"

Described(p) == EdgesOf(p) = IF Exists(p) THEN EdgesFor(p, table[p]) ELSE {}

Lined(w) ==
  /\ \A p \in Pipelines : Recording(w, p) \/ Described(p)
  /\ pc[w] = "edges" =>
       EdgesOf(cur[w].pipeline) \subseteq EdgesFor(cur[w].pipeline, cur[w].run)

LEMMA SameTables ==
  ASSUME NEW w \in Runners, Lined(w), UNCHANGED <<table, lineage>>, pc'[w] # "edges",
         \A p \in Pipelines : Recording(w, p) => Recording(w, p)'
  PROVE  Lined(w)'
  BY DEF Lined, Described, EdgesOf, Exists

LEMMA LinedRun ==
  ASSUME Inv, NEW w \in Runners, Calm(w), Lined(w), RunOne(w), ~Conflict(w)
  PROVE  Lined(w)'
  <1>1. ASSUME NEW p \in Pipelines, PassOver(w, p) \/ FindInputs(w, p) PROVE Lined(w)'
    <2>1. UNCHANGED <<table, lineage>> /\ pc[w] = "next" /\ pc'[w] \in {"record", "build"}
      BY <1>1, Typed DEF PassOver, FindInputs, IsNext, At, Goto, tables, records
    <2>2. QED
      BY <2>1, SameTables DEF Recording
  <1>2. ASSUME NEW status \in Failures, Fail(w, status), UNCHANGED table,
               pc[w] \in {"build", "gate"} \cup Publishing
        PROVE  Lined(w)'
    <2>1. UNCHANGED lineage /\ pc'[w] = "record"
      BY <1>2, Typed DEF Fail, Goto, records
    <2>2. QED
      BY <1>2, <2>1, SameTables DEF Recording, Publishing
  <1>3. CASE RefuseSql(w) \/ RefusePublication(w)
             \/ \E status \in Failures : FailGates(w, status)
    <2>1. \E status \in Failures : Fail(w, status)
      BY <1>3 DEF RefuseSql, RefusePublication, FailGates, Failures
    <2>2. pc[w] \in {"build", "gate"} \cup Publishing
      BY <1>3 DEF RefuseSql, RefusePublication, FailGates, At, Publishing
    <2>3. UNCHANGED table
      BY <2>1 DEF Fail
    <2>4. QED
      BY <1>2, <2>1, <2>2, <2>3
  <1>4. CASE Build(w) \/ PassGates(w) \/ FindTarget(w)
    <2>1. /\ UNCHANGED <<table, lineage>>
          /\ pc[w] \in {"build", "gate", "target"}
          /\ pc'[w] \in {"gate", "target", "replace", "publish"}
      BY <1>4, Typed DEF Build, PassGates, FindTarget, Goto, At, tables, records
    <2>2. QED
      BY <2>1, SameTables DEF Recording
  <1>5. CASE SafeReplace(w) \/ PublishNew(w)
    <2>1. /\ table' = [table EXCEPT ![cur[w].pipeline] = cur[w].run]
          /\ pc'[w] = "prune" /\ UNCHANGED <<cur, lineage>>
          /\ pc[w] \in Publishing
      BY <1>5, Typed DEF SafeReplace, PublishNew, Publish, Goto, At, records, Publishing
    <2>2. ASSUME NEW p \in Pipelines, p # cur[w].pipeline PROVE Described(p)'
      <3>1. table'[p] = table[p] /\ Described(p)
        BY <2>1, <2>2, Typed DEF Lined, Recording
      <3>2. QED
        BY <2>1, <3>1 DEF Described, EdgesOf, Exists
    <2>3. QED
      BY <2>1, <2>2 DEF Lined, Recording
  <1>6. CASE Prune(w)
    <2>1. UNCHANGED <<table, lineage>> /\ pc[w] = "prune" /\ pc'[w] = "record"
      BY <1>6, Typed DEF Prune, Goto, At, records
    <2>2. cur'[w].pipeline = cur[w].pipeline /\ cur'[w].status = "succeeded"
      BY <1>6, <2>1, SettleWorks DEF Prune, Statuses
    <2>3. QED
      BY <2>1, <2>2, SameTables DEF Recording
  <1>7. QED
    BY <1>1, <1>3, <1>4, <1>5, <1>6 DEF RunOne

LEMMA LinedRecord ==
  ASSUME Inv, NEW w \in Runners, Calm(w), Lined(w), RecordOne(w)
  PROVE  Lined(w)'
  <1>1. CASE RecordRun(w)
    <2>1. UNCHANGED <<table, lineage, cur>> /\ pc[w] = "record"
          /\ pc'[w] \in {"relineage", "audit"}
          /\ (cur[w].status = "succeeded" => pc'[w] = "relineage")
      BY <1>1, Typed DEF RecordRun, At, Goto, tables
    <2>2. QED
      BY <2>1, SameTables DEF Recording
  <1>2. CASE AuditRun(w)
    <2>1. UNCHANGED <<table, lineage>> /\ pc[w] = "audit" /\ pc'[w] = "observe"
      BY <1>2, Typed DEF AuditRun, At, Goto, tables
    <2>2. QED
      BY <2>1, SameTables DEF Recording
  <1>3. CASE Observe(w)
    <2>1. UNCHANGED <<table, lineage>> /\ pc[w] = "observe" /\ pc'[w] = "next"
      BY <1>3, Typed DEF Observe, At, Goto, tables
    <2>2. QED
      BY <2>1, SameTables DEF Recording
  <1>4. CASE Finish(w)
    <2>1. UNCHANGED <<table, lineage>> /\ pc[w] = "next" /\ pc'[w] = "idle"
      BY <1>4, Typed DEF Finish, At, Goto, tables, records
    <2>2. QED
      BY <2>1, SameTables DEF Recording
  <1>5. CASE DropEdges(w)
    <2>1. /\ UNCHANGED <<table, cur>> /\ lineage' = lineage \ EdgesOf(cur[w].pipeline)
          /\ pc[w] = "relineage" /\ pc'[w] = "edges"
      BY <1>5, Typed DEF DropEdges, At, Goto, tables
    <2>2. EdgesOf(cur[w].pipeline)' = {}
      BY <2>1 DEF EdgesOf
    <2>3. ASSUME NEW p \in Pipelines, p # cur[w].pipeline PROVE Described(p)'
      <3>1. Described(p) /\ EdgesOf(p)' = EdgesOf(p)
        BY <2>1, <2>3 DEF Lined, Recording, EdgesOf
      <3>2. QED
        BY <2>1, <3>1 DEF Described, Exists
    <2>4. QED
      BY <2>1, <2>2, <2>3 DEF Lined, Recording
  <1>6. CASE AddEdge(w)
    <2>1. /\ UNCHANGED <<table, cur, pc>> /\ pc[w] = "edges"
          /\ \E e \in EdgesFor(cur[w].pipeline, cur[w].run) : lineage' = lineage \cup {e}
      BY <1>6 DEF AddEdge, At, tables
    <2>2. PICK e \in EdgesFor(cur[w].pipeline, cur[w].run) : lineage' = lineage \cup {e}
      BY <2>1
    <2>3. e.output = cur[w].pipeline
      BY DEF EdgesFor
    <2>4. EdgesOf(cur[w].pipeline)' \subseteq EdgesFor(cur[w].pipeline, cur[w].run)
      BY <2>1, <2>2 DEF Lined, EdgesOf
    <2>5. ASSUME NEW p \in Pipelines, p # cur[w].pipeline PROVE Described(p)'
      <3>1. Described(p) /\ EdgesOf(p)' = EdgesOf(p)
        BY <2>1, <2>2, <2>3, <2>5 DEF Lined, Recording, EdgesOf
      <3>2. QED
        BY <2>1, <3>1 DEF Described, Exists
    <2>6. QED
      BY <2>1, <2>4, <2>5 DEF Lined, Recording, EdgesFor
  <1>7. CASE CloseRecord(w)
    <2>1. /\ UNCHANGED <<table, lineage, cur>> /\ pc[w] = "edges" /\ pc'[w] = "audit"
          /\ EdgesFor(cur[w].pipeline, cur[w].run) \subseteq lineage
      BY <1>7, Typed DEF CloseRecord, At, Goto, tables, records
    <2>2. cur[w].status = "succeeded" /\ cur[w].run # NoRun
      <3>1. CandidatePlaced(w)
        BY DEF Inv
      <3>2. cur[w].run \in Runs
        BY <2>1, CurWorks
      <3>3. QED
        BY <2>1, <3>1, <3>2 DEF CandidatePlaced, Runs, NoRun
    <2>3. table[cur[w].pipeline] = cur[w].run
      BY <2>1, <2>2 DEF Calm, TablesKnown, Recorded
    <2>4. EdgesOf(cur[w].pipeline) = EdgesFor(cur[w].pipeline, cur[w].run)
      BY <2>1 DEF Lined, EdgesOf, EdgesFor
    <2>5. Described(cur[w].pipeline)
      BY <2>2, <2>3, <2>4 DEF Described, Exists
    <2>6. \A p \in Pipelines : Described(p)
      BY <2>5 DEF Lined, Recording
    <2>7. QED
      BY <2>1, <2>6 DEF Lined, Described, EdgesOf, Exists
  <1>8. QED
    BY <1>1, <1>2, <1>3, <1>4, <1>5, <1>6, <1>7 DEF RecordOne

LEMMA LinedStep ==
  ASSUME Alone, Inv, \A w \in Runners : Calm(w) /\ Lined(w), [Next]_vars
  PROVE  \A w \in Runners : Lined(w)'
  <1> SUFFICES ASSUME NEW w \in Runners PROVE Lined(w)'
    OBVIOUS
  <1>1. CASE UNCHANGED vars
    BY <1>1 DEF vars, Lined, Described, Recording, EdgesOf, Exists
  <1>2. CASE Next
    <2>1. Step(w)
      BY <1>2 DEF Next, Alone, RestoreTable
    <2>2. ~Stop(w) /\ ~Conflict(w)
      BY DEF Stop, Conflict, At, Calm, TablesKnown, Alone, Inv, TypeOK, ControlTyped
    <2>3. CASE Call(w)
      <3>1. /\ UNCHANGED <<table, lineage>>
            /\ pc[w] = "idle" /\ pc'[w] \in {"idle", "next"}
        BY <2>3, Typed DEF Call, Ingest, Start, At, Goto, tables, records
      <3>2. QED
        BY <3>1, SameTables DEF Recording
    <2>4. QED
      BY <2>1, <2>2, <2>3, LinedRun, LinedRecord DEF Step
  <1>3. QED
    BY <1>1, <1>2

(* After an undisturbed runner the lineage describes the tables.            *)
THEOREM LineageDescribes ==
  ASSUME Alone, Runners # {}
  PROVE  Spec => []LineageDescribesTables
  <1>1. Init => \A w \in Runners : Lined(w)
    BY DEF Init, Lined, Described, EdgesOf, Exists
  <1>2. Inv /\ (\A w \in Runners : Calm(w)) /\ (\A w \in Runners : Lined(w)) /\ [Next]_vars
          => (\A w \in Runners : Lined(w))'
    BY LinedStep
  <1>3. (\A w \in Runners : Lined(w)) => LineageDescribesTables
    BY DEF Lined, Described, Recording, LineageDescribesTables, Quiet
  <1>4. QED
    BY <1>1, <1>2, <1>3, Invariance, CalmInvariance, PTL DEF Spec

(* What a set of recorded runs tells of their dataset.                      *)
Tells(rows) ==
  LET built == {row \in rows : row.status # "skipped"}
      succeeded == {row \in rows : row.status = "succeeded"}
  IN [fresh |-> IF rows = {} THEN "none"
                ELSE IF Last(rows) \in succeeded THEN "fresh" ELSE "stale",
      quality |-> IF built = {} THEN "unknown" ELSE Quality(Last(built).status),
      health |-> IF built = {} THEN "unknown" ELSE Health(Last(built).status),
      success |-> IF succeeded = {} THEN NoRun ELSE Last(succeeded).run]
Of(rows, p) == {row \in rows : row.pipeline = p}

LEMMA LastIs ==
  ASSUME NEW S \in SUBSET RunRow, NEW c \in RunRow, \A row \in S : row.run < c.run
  PROVE  Last(S \cup {c}) = c
  <1>1. c.run \in Int /\ \A row \in S : row.run \in Int
    BY DEF RunRow, Runs
  <1>2. \A other \in S \cup {c} : other.run <= c.run
    BY <1>1
  <1>3. ASSUME NEW x \in S \cup {c}, \A other \in S \cup {c} : other.run <= x.run
        PROVE  x = c
    BY <1>1, <1>3
  <1>4. QED
    BY <1>2, <1>3 DEF Last

(* A run later than those told of adds its observation.                     *)
LEMMA TellsOneMore ==
  ASSUME NEW S \in SUBSET RunRow, NEW c \in RunRow, \A row \in S : row.run < c.run
  PROVE  Tells(S \cup {c}) = Observed(Tells(S), c)
  <1> DEFINE built(R) == {row \in R : row.status # "skipped"}
             succeeded(R) == {row \in R : row.status = "succeeded"}
  <1>1. Last(S \cup {c}) = c /\ S \cup {c} # {}
    BY LastIs
  <1>2. CASE c.status = "skipped"
    <2>1. built(S \cup {c}) = built(S) /\ succeeded(S \cup {c}) = succeeded(S)
      BY <1>2
    <2>2. c \notin succeeded(S \cup {c})
      BY <1>2
    <2>3. QED
      BY <1>1, <1>2, <2>1, <2>2 DEF Tells, Observed
  <1>3. CASE c.status = "succeeded"
    <2>1. /\ built(S \cup {c}) = built(S) \cup {c}
          /\ succeeded(S \cup {c}) = succeeded(S) \cup {c}
      BY <1>3
    <2>2. Last(built(S) \cup {c}) = c /\ Last(succeeded(S) \cup {c}) = c
      <3>1. built(S) \in SUBSET RunRow /\ succeeded(S) \in SUBSET RunRow
        OBVIOUS
      <3>2. QED
        BY <3>1, LastIs
    <2>3. c \in succeeded(S \cup {c})
      BY <1>3
    <2>4. QED
      BY <1>1, <1>3, <2>1, <2>2, <2>3 DEF Tells, Observed
  <1>4. CASE c.status \notin {"skipped", "succeeded"}
    <2>1. /\ built(S \cup {c}) = built(S) \cup {c}
          /\ succeeded(S \cup {c}) = succeeded(S)
      BY <1>4
    <2>2. Last(built(S) \cup {c}) = c
      BY LastIs
    <2>3. c \notin succeeded(S \cup {c})
      BY <1>4
    <2>4. QED
      BY <1>1, <1>4, <2>1, <2>2, <2>3 DEF Tells, Observed
  <1>5. QED
    BY <1>2, <1>3, <1>4

(* The observations tell of the runs recorded, but for the one at hand      *)
(* until it is observed; a run at hand is later than all others recorded.   *)
Others(w) == IF pc[w] \in Recorded THEN runs \ {cur[w]} ELSE runs
Telling(w) ==
  /\ \A row \in runs : row.run <= drawn
  /\ pc[w] \notin {"idle", "next"} =>
       cur[w].run <= drawn /\ \A row \in Others(w) : row.run < cur[w].run
  /\ \A p \in Pipelines : latest[p] = Tells(Of(Others(w), p))

LEMMA RecordsTypes ==
  ASSUME Inv
  PROVE  /\ runs \in SUBSET RunRow /\ drawn \in Nat
         /\ \A row \in runs : row.run \in Int
         /\ latest \in [Pipelines -> Observation]
  BY DEF Inv, TypeOK, RecordsTyped, ControlTyped, RunRow, Runs

LEMMA SameRuns ==
  ASSUME NEW w \in Runners, Telling(w), UNCHANGED <<runs, latest, drawn>>,
         pc[w] \notin Recorded, pc'[w] \notin Recorded,
         pc'[w] \notin {"idle", "next"} =>
           pc[w] \notin {"idle", "next"} /\ cur'[w].run = cur[w].run
  PROVE  Telling(w)'
  BY DEF Telling, Others, Of

LEMMA TellingDraw ==
  ASSUME Inv, NEW w \in Runners, Telling(w), NEW p \in Pipelines,
         PassOver(w, p) \/ FindInputs(w, p)
  PROVE  Telling(w)'
  <1>1. /\ UNCHANGED <<runs, latest>> /\ drawn' = drawn + 1
        /\ pc[w] = "next" /\ pc'[w] \in {"record", "build"}
        /\ cur'[w].run = drawn + 1
    BY Typed DEF PassOver, FindInputs, IsNext, Draw, At, Goto, records
  <1>2. Others(w) = runs /\ Others(w)' = runs
    BY <1>1 DEF Others, Recorded
  <1>3. \A row \in runs : row.run <= drawn'
    BY <1>1, RecordsTypes DEF Telling
  <1>4. cur'[w].run <= drawn' /\ \A row \in runs : row.run < cur'[w].run
    BY <1>1, RecordsTypes DEF Telling
  <1>5. QED
    BY <1>1, <1>2, <1>3, <1>4 DEF Telling, Of

LEMMA TellingRecord ==
  ASSUME Inv, NEW w \in Runners, w \in Observers, Telling(w), RecordOne(w)
  PROVE  Telling(w)'
  <1>1. CASE RecordRun(w)
    <2>1. /\ UNCHANGED <<latest, drawn, cur>> /\ runs' = runs \cup {cur[w]}
          /\ pc[w] = "record" /\ pc'[w] \in {"relineage", "audit"}
      BY <1>1, Typed DEF RecordRun, At, Goto
    <2>2. cur[w].run \in Int
      <3>1. cur[w].run \in Runs
        BY <2>1, CurWorks
      <3>2. QED
        BY <3>1 DEF Runs
    <2>3. Others(w) = runs /\ cur[w] \notin runs
      BY <2>1, <2>2 DEF Telling, Others, Recorded
    <2>4. Others(w)' = runs
      BY <2>1, <2>3 DEF Others, Recorded
    <2>5. QED
      BY <2>1, <2>3, <2>4 DEF Telling, Of
  <1>2. CASE DropEdges(w) \/ AddEdge(w) \/ CloseRecord(w) \/ AuditRun(w)
    <2>1. /\ UNCHANGED <<runs, latest, drawn, cur>>
          /\ pc[w] \in Recorded /\ pc'[w] \in Recorded
      BY <1>2, Typed DEF DropEdges, AddEdge, CloseRecord, AuditRun, At, Goto, Recorded, records
    <2>2. Others(w)' = Others(w)
      BY <2>1 DEF Others
    <2>3. QED
      BY <2>1, <2>2 DEF Telling, Of, Recorded
  <1>3. CASE Observe(w)
    <2>1. /\ UNCHANGED <<runs, drawn>> /\ pc[w] = "observe" /\ pc'[w] = "next"
          /\ latest' = [latest EXCEPT ![cur[w].pipeline] = Observed(@, cur[w])]
      BY <1>3, Typed DEF Observe, At, Goto
    <2>2. cur[w] \in runs /\ cur[w] \in RunRow
      BY <2>1, RecordsTypes DEF Inv, CandidatePlaced, Recorded
    <2>3. Others(w) = runs \ {cur[w]} /\ Others(w)' = runs
      BY <2>1 DEF Others, Recorded
    <2>4. ASSUME NEW p \in Pipelines PROVE latest'[p] = Tells(Of(runs, p))
      <3>1. CASE p # cur[w].pipeline
        <4>1. Of(runs, p) = Of(runs \ {cur[w]}, p)
          BY <3>1 DEF Of
        <4>2. QED
          BY <2>1, <2>3, <3>1, <4>1, RecordsTypes DEF Telling
      <3>2. CASE p = cur[w].pipeline
        <4> DEFINE S == Of(runs \ {cur[w]}, p)
        <4>1. Of(runs, p) = S \cup {cur[w]} /\ S \in SUBSET RunRow
          BY <2>2, <3>2, RecordsTypes DEF Of
        <4>2. \A row \in S : row.run < cur[w].run
          BY <2>1, <2>3 DEF Telling, Of
        <4>3. latest[p] = Tells(S)
          BY <2>3 DEF Telling
        <4>4. Tells(S \cup {cur[w]}) = Observed(Tells(S), cur[w])
          BY <2>2, <4>1, <4>2, TellsOneMore
        <4>5. QED
          BY <2>1, <3>2, <4>1, <4>3, <4>4, RecordsTypes
      <3>3. QED
        BY <3>1, <3>2
    <2>5. QED
      BY <2>1, <2>3, <2>4 DEF Telling
  <1>4. CASE Finish(w)
    <2>1. UNCHANGED <<runs, latest, drawn>> /\ pc[w] = "next" /\ pc'[w] = "idle"
      BY <1>4, Typed DEF Finish, At, Goto, records
    <2>2. QED
      BY <2>1, SameRuns DEF Recorded
  <1>5. QED
    BY <1>1, <1>2, <1>3, <1>4 DEF RecordOne

LEMMA TellingRun ==
  ASSUME Inv, NEW w \in Runners, Telling(w), RunOne(w), ~Conflict(w)
  PROVE  Telling(w)'
  <1>1. CASE \E p \in Pipelines : PassOver(w, p) \/ FindInputs(w, p)
    BY <1>1, TellingDraw
  <1>2. ASSUME NEW status \in Failures, Fail(w, status),
               pc[w] \in {"build", "gate"} \cup Publishing
        PROVE  Telling(w)'
    <2>1. UNCHANGED <<runs, latest, drawn>> /\ pc'[w] = "record"
      BY <1>2, Typed DEF Fail, Goto, records
    <2>2. cur'[w].run = cur[w].run
      BY <1>2, SettleWorks DEF Fail, Publishing, Failures, Statuses
    <2>3. QED
      BY <1>2, <2>1, <2>2, SameRuns DEF Recorded, Publishing
  <1>3. CASE RefuseSql(w) \/ RefusePublication(w)
             \/ \E status \in Failures : FailGates(w, status)
    <2>1. \E status \in Failures : Fail(w, status)
      BY <1>3 DEF RefuseSql, RefusePublication, FailGates, Failures
    <2>2. pc[w] \in {"build", "gate"} \cup Publishing
      BY <1>3 DEF RefuseSql, RefusePublication, FailGates, At, Publishing
    <2>3. QED
      BY <1>2, <2>1, <2>2
  <1>4. CASE Build(w) \/ PassGates(w) \/ FindTarget(w) \/ SafeReplace(w) \/ PublishNew(w)
    <2>1. /\ UNCHANGED <<runs, latest, drawn, cur>>
          /\ pc[w] \in {"build", "gate"} \cup Publishing
          /\ pc'[w] \in {"gate", "prune"} \cup Publishing
      BY <1>4, Typed DEF Build, PassGates, FindTarget, SafeReplace, PublishNew, Publish,
                         Goto, At, records, Publishing
    <2>2. QED
      BY <2>1, SameRuns DEF Recorded, Publishing
  <1>5. CASE Prune(w)
    <2>1. UNCHANGED <<runs, latest, drawn>> /\ pc[w] = "prune" /\ pc'[w] = "record"
      BY <1>5, Typed DEF Prune, Goto, At, records
    <2>2. cur'[w].run = cur[w].run
      BY <1>5, <2>1, SettleWorks DEF Prune, Statuses
    <2>3. QED
      BY <2>1, <2>2, SameRuns DEF Recorded
  <1>6. QED
    BY <1>1, <1>3, <1>4, <1>5 DEF RunOne

LEMMA TellingStep ==
  ASSUME Alone, Observers = Runners, Inv, \A w \in Runners : Calm(w) /\ Telling(w),
         [Next]_vars
  PROVE  \A w \in Runners : Telling(w)'
  <1> SUFFICES ASSUME NEW w \in Runners PROVE Telling(w)'
    OBVIOUS
  <1>1. CASE UNCHANGED vars
    BY <1>1 DEF vars, Telling, Others, Of
  <1>2. CASE Next
    <2>1. Step(w)
      BY <1>2 DEF Next, Alone, RestoreTable
    <2>2. ~Stop(w) /\ ~Conflict(w)
      BY DEF Stop, Conflict, At, Calm, TablesKnown, Alone, Inv, TypeOK, ControlTyped
    <2>3. CASE Call(w)
      <3>1. /\ UNCHANGED <<runs, latest, drawn>>
            /\ pc[w] = "idle" /\ pc'[w] \in {"idle", "next"}
        BY <2>3, Typed DEF Call, Ingest, Start, At, Goto, records
      <3>2. QED
        BY <3>1, SameRuns DEF Recorded
    <2>4. QED
      BY <2>1, <2>2, <2>3, TellingRun, TellingRecord DEF Step
  <1>3. QED
    BY <1>1, <1>2

(* The observations of an undisturbed runner tell its recorded runs.        *)
THEOREM ObservationTells ==
  ASSUME Alone, Observers = Runners, Runners # {}
  PROVE  Spec => []ObservationTellsRuns
  <1>1. Init => \A w \in Runners : Telling(w)
    <2> SUFFICES ASSUME Init, NEW w \in Runners PROVE Telling(w)
      OBVIOUS
    <2>1. Others(w) = {} /\ pc[w] = "idle" /\ runs = {}
      BY DEF Init, Others, Recorded
    <2>2. ASSUME NEW p \in Pipelines PROVE latest[p] = Tells(Of(Others(w), p))
      <3>1. latest[p] = Unobserved
        BY DEF Init
      <3>2. Of(Others(w), p) = {}
        BY <2>1 DEF Of
      <3>3. Tells({}) = Unobserved
        BY DEF Tells, Unobserved
      <3>4. QED
        BY <3>1, <3>2, <3>3
    <2>3. QED
      BY <2>1, <2>2 DEF Telling
  <1>2. Inv /\ (\A w \in Runners : Calm(w)) /\ (\A w \in Runners : Telling(w)) /\ [Next]_vars
          => (\A w \in Runners : Telling(w))'
    BY TellingStep
  <1>3. (\A w \in Runners : Telling(w)) => ObservationTellsRuns
    <2> SUFFICES ASSUME \A w \in Runners : Telling(w), Quiet, NEW p \in Pipelines
                 PROVE  latest[p] = Told(p)
      BY DEF ObservationTellsRuns
    <2>1. latest[p] = Tells(Of(runs, p))
      BY DEF Telling, Others, Quiet, Recorded
    <2>2. QED
      BY <2>1 DEF Told, Tells, Of
  <1>4. QED
    BY <1>1, <1>2, <1>3, Invariance, CalmInvariance, PTL DEF Spec

-----------------------------------------------------------------------------
(* What a run id stands for. The model, like _platform_pipeline_runs and    *)
(* the names of staging tables, tells candidates apart by run id alone.     *)
Busy(w) == pc[w] \notin {"idle", "next"}
Held(p) == kept[p] \cup ({table[p]} \ {NoRun})
RunRecorded(r) == \E row \in runs : row.run = r

RowsDiffer == \A row, other \in runs : row.run = other.run => row = other
AuditFollows == \A r \in Runs : <<"run", r>> \in audit => RunRecorded(r)
RunsIdentified ==
  /\ RowsDiffer /\ AuditFollows
  /\ \A p, q \in Pipelines : Held(p) \cap Held(q) # {} => p = q

\* No other runner, row or candidate has the id of the run in hand.
OwnRun(w) ==
  Busy(w) =>
    /\ cur[w].run <= drawn
    /\ pc[w] \notin Recorded => ~RunRecorded(cur[w].run)
    /\ \A c \in gated : c[2] = cur[w].run => c[1] = cur[w].pipeline
    /\ \A v \in Runners \ {w} : Busy(v) => cur[v].run # cur[w].run

Numbered ==
  /\ RowsDiffer /\ AuditFollows
  /\ \A row \in runs : row.run <= drawn
  /\ \A c \in gated : c[2] <= drawn
  /\ \A c, d \in gated : c[2] = d[2] => c = d
  /\ \A w \in Runners : OwnRun(w)

(* The ids in hand, in rows and in candidates are numbers.                  *)
LEMMA RunTypes ==
  ASSUME Inv
  PROVE  /\ drawn \in Nat
         /\ \A row \in runs : row.run \in Nat
         /\ \A c \in gated : c[2] \in Nat
         /\ \A w \in Runners : Busy(w) => cur[w] \in Working /\ cur[w].run \in Runs /\ cur[w].run \in Nat
  <1>1. /\ drawn \in Nat /\ runs \in SUBSET RunRow /\ gated \in SUBSET Candidates
    BY DEF Inv, TypeOK, ControlTyped, RecordsTyped, HistoryTyped
  <1>2. ASSUME NEW w \in Runners, Busy(w) PROVE cur[w] \in Working /\ cur[w].run \in Runs
    BY <1>2 DEF Inv, StepFits, Busy, Working
  <1>3. QED
    BY <1>1, <1>2 DEF RunRow, Candidates, Runs

(* A step that records nothing, gates nothing and draws nothing: the run in *)
(* hand is let go or kept.                                                  *)
LEMMA NothingNumbered ==
  ASSUME Inv, Numbered, NEW w \in Runners, Step(w), UNCHANGED <<runs, gated, drawn>>,
         \A r \in Runs : <<"run", r>> \in audit' => <<"run", r>> \in audit,
         Busy(w)' => /\ Busy(w)
                     /\ cur'[w].run = cur[w].run /\ cur'[w].pipeline = cur[w].pipeline
                     /\ pc[w] \in Recorded => pc'[w] \in Recorded
  PROVE  Numbered'
  <1>1. \A v \in Runners \ {w} : pc'[v] = pc[v] /\ cur'[v] = cur[v]
    BY OthersKeep DEF Keeps
  <1>2. ASSUME NEW v \in Runners, Busy(v)'
        PROVE  /\ Busy(v) /\ cur'[v].run = cur[v].run /\ cur'[v].pipeline = cur[v].pipeline
               /\ pc[v] \in Recorded => pc'[v] \in Recorded
    BY <1>1, <1>2 DEF Busy
  <1>3. \A r : RunRecorded(r)' <=> RunRecorded(r)
    BY DEF RunRecorded
  <1>4. ASSUME NEW v \in Runners PROVE OwnRun(v)'
    <2> SUFFICES ASSUME Busy(v)' PROVE OwnRun(v)'
      BY DEF OwnRun
    <2>1. OwnRun(v)
      BY DEF Numbered
    <2>2. \A u \in Runners \ {v} : Busy(u)' => cur'[u].run # cur'[v].run
      BY <1>2, <2>1 DEF OwnRun
    <2>3. QED
      BY <1>2, <1>3, <2>1, <2>2 DEF OwnRun
  <1>5. AuditFollows'
    BY <1>3 DEF Numbered, AuditFollows
  <1>6. QED
    BY <1>4, <1>5 DEF Numbered, RowsDiffer

(* A drawn run id is nobody else's.                                         *)
LEMMA DrawNumbered ==
  ASSUME Inv, Numbered, NEW w \in Runners, NEW p \in Pipelines,
         PassOver(w, p) \/ FindInputs(w, p)
  PROVE  Numbered'
  <1>1. /\ UNCHANGED <<runs, audit, gated>>
        /\ drawn' = drawn + 1 /\ cur'[w].run = drawn + 1 /\ cur'[w].pipeline = p
        /\ pc'[w] \notin Recorded
    BY Typed DEF PassOver, FindInputs, Draw, Goto, records, history, Recorded
  <1>2. Step(w)
    BY DEF Step, RunOne
  <1>3. \A v \in Runners \ {w} : pc'[v] = pc[v] /\ cur'[v] = cur[v]
    BY <1>2, OthersKeep DEF Keeps
  <1>4. \A r : RunRecorded(r)' <=> RunRecorded(r)
    BY <1>1 DEF RunRecorded
  <1>5. ~RunRecorded(drawn + 1) /\ \A c \in gated : c[2] # drawn + 1
    BY RunTypes DEF Numbered, RunRecorded
  <1>6. \A v \in Runners \ {w} : Busy(v) => cur[v].run <= drawn /\ cur[v].run # drawn + 1
    BY RunTypes DEF Numbered, OwnRun
  <1>7. OwnRun(w)'
    <2>1. \A v \in Runners \ {w} : Busy(v)' => cur'[v].run # cur'[w].run
      BY <1>1, <1>3, <1>6 DEF Busy
    <2>2. QED
      BY <1>1, <1>4, <1>5, <2>1, RunTypes DEF OwnRun
  <1>8. ASSUME NEW v \in Runners \ {w} PROVE OwnRun(v)'
    <2> SUFFICES ASSUME Busy(v)' PROVE OwnRun(v)'
      BY DEF OwnRun
    <2>1. OwnRun(v) /\ Busy(v) /\ cur'[v] = cur[v] /\ pc'[v] = pc[v]
      BY <1>3 DEF Numbered, Busy
    <2>2. \A u \in Runners \ {v} : Busy(u)' => cur'[u].run # cur'[v].run
      BY <1>1, <1>3, <1>6, <2>1 DEF OwnRun, Busy
    <2>3. cur[v].run <= drawn'
      BY <1>1, <2>1, RunTypes DEF OwnRun
    <2>4. QED
      BY <1>1, <1>4, <2>1, <2>2, <2>3 DEF OwnRun
  <1>9. RowsDiffer' /\ AuditFollows'
    BY <1>1, <1>4 DEF Numbered, RowsDiffer, AuditFollows
  <1>10. (\A row \in runs' : row.run <= drawn') /\ \A c \in gated' : c[2] <= drawn'
    BY <1>1, RunTypes DEF Numbered
  <1>11. QED
    BY <1>1, <1>7, <1>8, <1>9, <1>10 DEF Numbered

(* A gated candidate has the run id in hand and the pipeline in hand.       *)
LEMMA GateNumbered ==
  ASSUME Inv, Numbered, NEW w \in Runners, PassGates(w)
  PROVE  Numbered'
  <1> DEFINE c == <<cur[w].pipeline, cur[w].run>>
  <1>1. /\ UNCHANGED <<runs, audit, drawn, cur>> /\ gated' = gated \cup {c}
        /\ pc[w] = "gate" /\ pc' = [pc EXCEPT ![w] = "target"]
    BY DEF PassGates, At, Goto, records
  <1>2. \A v \in Runners : /\ Busy(v)' <=> Busy(v)
                           /\ pc'[v] \in Recorded <=> pc[v] \in Recorded
    BY <1>1, Typed DEF Busy, Recorded
  <1>3. \A r : RunRecorded(r)' <=> RunRecorded(r)
    BY <1>1 DEF RunRecorded
  <1>4. Busy(w) /\ OwnRun(w)
    BY <1>1 DEF Numbered, Busy
  <1>5. ASSUME NEW v \in Runners PROVE OwnRun(v)'
    <2> SUFFICES ASSUME Busy(v)' PROVE OwnRun(v)'
      BY DEF OwnRun
    <2>1. OwnRun(v) /\ Busy(v)
      BY <1>2 DEF Numbered
    <2>2. \A d \in gated' : d[2] = cur[v].run => d[1] = cur[v].pipeline
      BY <1>1, <1>4, <2>1 DEF OwnRun
    <2>3. \A u \in Runners \ {v} : Busy(u)' => cur[u].run # cur[v].run
      BY <1>2, <2>1 DEF OwnRun
    <2>4. QED
      BY <1>1, <1>2, <1>3, <2>1, <2>2, <2>3 DEF OwnRun
  <1>6. \A d \in gated' : d[2] <= drawn
    BY <1>1, <1>4 DEF Numbered, OwnRun
  <1>7. \A d, e \in gated' : d[2] = e[2] => d = e
    <2>1. ASSUME NEW d \in gated, d[2] = c[2] PROVE d = c
      <3>1. d[1] = c[1]
        BY <1>4, <2>1 DEF OwnRun
      <3>2. d \in Candidates
        BY DEF Inv, TypeOK, HistoryTyped
      <3>3. QED
        BY <2>1, <3>1, <3>2 DEF Candidates
    <2>2. QED
      BY <1>1, <2>1 DEF Numbered
  <1>8. RowsDiffer' /\ AuditFollows' /\ \A row \in runs' : row.run <= drawn'
    BY <1>1, <1>3 DEF Numbered, RowsDiffer, AuditFollows
  <1>9. QED
    BY <1>1, <1>5, <1>6, <1>7, <1>8 DEF Numbered

(* A recorded run is new among the rows.                                    *)
LEMMA RecordNumbered ==
  ASSUME Inv, Numbered, NEW w \in Runners, RecordRun(w)
  PROVE  Numbered'
  <1>1. /\ UNCHANGED <<audit, gated, drawn, cur>> /\ runs' = runs \cup {cur[w]}
        /\ pc[w] = "record" /\ pc'[w] \in {"relineage", "audit"}
        /\ \A v \in Runners \ {w} : pc'[v] = pc[v]
    BY Typed DEF RecordRun, At, Goto, history
  <1>2. /\ Busy(w) /\ OwnRun(w) /\ ~RunRecorded(cur[w].run) /\ pc'[w] \in Recorded
        /\ \A v \in Runners : Busy(v)' <=> Busy(v)
    BY <1>1 DEF Numbered, OwnRun, Busy, Recorded
  <1>3. \A r : RunRecorded(r)' <=> RunRecorded(r) \/ r = cur[w].run
    BY <1>1 DEF RunRecorded
  <1>4. ASSUME NEW v \in Runners PROVE OwnRun(v)'
    <2> SUFFICES ASSUME Busy(v)' PROVE OwnRun(v)'
      BY DEF OwnRun
    <2>1. OwnRun(v) /\ Busy(v)
      BY <1>2 DEF Numbered
    <2>2. pc'[v] \notin Recorded => ~RunRecorded(cur[v].run)'
      BY <1>1, <1>2, <1>3, <2>1 DEF OwnRun
    <2>3. QED
      BY <1>1, <1>2, <2>1, <2>2 DEF OwnRun
  <1>5. RowsDiffer'
    BY <1>1, <1>2 DEF Numbered, RowsDiffer, RunRecorded
  <1>6. \A row \in runs' : row.run <= drawn
    BY <1>1, <1>2 DEF Numbered, OwnRun
  <1>7. AuditFollows'
    BY <1>1, <1>3 DEF Numbered, AuditFollows
  <1>8. QED
    BY <1>1, <1>4, <1>5, <1>6, <1>7 DEF Numbered

(* An audited run has been recorded.                                        *)
LEMMA AuditNumbered ==
  ASSUME Inv, Numbered, NEW w \in Runners, AuditRun(w)
  PROVE  Numbered'
  <1>1. /\ UNCHANGED <<runs, gated, drawn, cur>> /\ audit' = audit \cup {<<"run", cur[w].run>>}
        /\ pc[w] = "audit" /\ pc' = [pc EXCEPT ![w] = "observe"]
    BY DEF AuditRun, At, Goto, history
  <1>2. \A v \in Runners : /\ Busy(v)' <=> Busy(v)
                           /\ pc'[v] \in Recorded <=> pc[v] \in Recorded
    BY <1>1, Typed DEF Busy, Recorded
  <1>3. \A r : RunRecorded(r)' <=> RunRecorded(r)
    BY <1>1 DEF RunRecorded
  <1>4. RunRecorded(cur[w].run)
    BY <1>1 DEF Inv, CandidatePlaced, Recorded, RunRecorded
  <1>5. AuditFollows'
    BY <1>1, <1>3, <1>4 DEF Numbered, AuditFollows
  <1>6. \A v \in Runners : OwnRun(v)'
    BY <1>1, <1>2, <1>3 DEF Numbered, OwnRun
  <1>7. QED
    BY <1>1, <1>5, <1>6 DEF Numbered, RowsDiffer

(* Every step keeps the numbering.                                          *)
LEMMA NumberedStep == Inv /\ Numbered /\ [Next]_vars => Numbered'
  <1> SUFFICES ASSUME Inv, Numbered, [Next]_vars PROVE Numbered'
    OBVIOUS
  <1>1. ASSUME NEW w \in Runners,
               \/ Ingest(w) \/ (\E selected \in SUBSET Pipelines : Start(w, selected))
               \/ Conflict(w) \/ Observe(w) \/ Finish(w) \/ Stop(w)
        PROVE  Numbered'
    <2>1. Step(w)
      BY <1>1 DEF Step, Call, RunOne, RecordOne
    <2>2. UNCHANGED <<runs, gated, drawn>>
      BY <1>1 DEF Ingest, Start, Conflict, Abort, Observe, Finish, Stop, records, history
    <2>3. ~Busy(w)'
      BY <1>1, Typed DEF Ingest, Start, Conflict, Abort, Observe, Finish, Stop, At, Goto, Busy
    <2>4. \A r \in Runs : <<"run", r>> \in audit' => <<"run", r>> \in audit
      BY <1>1 DEF Ingest, Start, Conflict, Abort, Observe, Finish, Stop, records
    <2>5. QED
      BY <2>1, <2>2, <2>3, <2>4, NothingNumbered
  <1>2. ASSUME NEW w \in Runners,
               \/ Build(w) \/ FindTarget(w) \/ SafeReplace(w) \/ PublishNew(w)
               \/ DropEdges(w) \/ AddEdge(w) \/ CloseRecord(w)
        PROVE  Numbered'
    <2>1. Step(w)
      BY <1>2 DEF Step, RunOne, RecordOne
    <2>2. UNCHANGED <<runs, audit, gated, drawn, cur>>
      BY <1>2 DEF Build, FindTarget, SafeReplace, PublishNew, Publish, DropEdges, AddEdge,
         CloseRecord, records, history
    <2>3. Busy(w) /\ (pc[w] \in Recorded => pc'[w] \in Recorded)
      BY <1>2, Typed DEF Build, FindTarget, SafeReplace, PublishNew, Publish, DropEdges, AddEdge,
         CloseRecord, At, Goto, Busy, Recorded
    <2>4. QED
      BY <2>1, <2>2, <2>3, NothingNumbered
  <1>3. ASSUME NEW w \in Runners,
               \/ RefuseSql(w) \/ RefusePublication(w) \/ Prune(w)
               \/ \E status \in Failures : FailGates(w, status)
        PROVE  Numbered'
    <2>1. Step(w)
      BY <1>3 DEF Step, RunOne
    <2>2. PICK status \in Statuses : Settle(w, status)
      BY <1>3 DEF RefuseSql, RefusePublication, Prune, FailGates, Fail, Statuses, Failures
    <2>3. UNCHANGED <<runs, audit, gated, drawn>>
      BY <1>3 DEF RefuseSql, RefusePublication, Prune, FailGates, Fail, records, history
    <2>4. pc[w] \notin {"idle", "next"} \cup Recorded
      BY <1>3 DEF RefuseSql, RefusePublication, Prune, FailGates, At, Recorded
    <2>5. cur'[w].run = cur[w].run /\ cur'[w].pipeline = cur[w].pipeline
      BY <2>2, <2>4, SettleWorks
    <2>6. QED
      BY <2>1, <2>3, <2>4, <2>5, NothingNumbered DEF Busy
  <1>4. ASSUME \/ \E p \in Pipelines, r \in Runs : RestoreTable(p, r)
               \/ UNCHANGED vars
        PROVE  Numbered'
    <2>1. UNCHANGED <<runs, audit, gated, drawn, pc, cur>>
      BY <1>4 DEF RestoreTable, vars, records, history
    <2>2. QED
      BY <2>1 DEF Numbered, RowsDiffer, AuditFollows, OwnRun, Busy, RunRecorded
  <1>5. QED
    BY <1>1, <1>2, <1>3, <1>4, DrawNumbered, GateNumbered, RecordNumbered, AuditNumbered
    DEF Next, Step, Call, RunOne, RecordOne

(* The numbering holds throughout.                                          *)
LEMMA NumberedInvariance == Spec => []Numbered
  <1>1. Init => Numbered
    BY DEF Init, Numbered, RowsDiffer, AuditFollows, OwnRun, Busy
  <1>2. Inv /\ Numbered /\ [Next]_vars => Numbered'
    BY NumberedStep
  <1>3. QED
    BY <1>1, <1>2, Invariance, PTL DEF Spec

(* A run id names one row of _platform_pipeline_runs and the content of one *)
(* dataset, and is audited only if it is recorded: for any number of        *)
(* runners that draw ids side by side, stop anywhere and restore tables     *)
(* (runner.py, _run_one, _record).                                          *)
THEOREM RunIdsIdentify == Spec => []RunsIdentified
  <1>1. Inv /\ Numbered /\ OnlyGatedIsPublished => RunsIdentified
    <2> SUFFICES ASSUME Numbered, OnlyGatedIsPublished, NEW p \in Pipelines, NEW q \in Pipelines,
                        NEW r \in Held(p) \cap Held(q)
                 PROVE  p = q
      BY DEF RunsIdentified, Numbered
    <2>1. <<p, r>> \in gated /\ <<q, r>> \in gated
      BY DEF OnlyGatedIsPublished, Held
    <2>2. <<p, r>> = <<q, r>>
      BY <2>1 DEF Numbered
    <2>3. QED
      BY <2>2
  <1>2. QED
    BY <1>1, NumberedInvariance, Invariance, OnlyGatedEver, PTL

(* Where nothing disturbs a runner, what it drew is audited unless it is in *)
(* hand.                                                                    *)
Owing(w) ==
  /\ \A r \in 1..drawn : <<"run", r>> \in audit \/ (Busy(w) /\ cur[w].run = r)
  /\ pc[w] = "observe" => <<"run", cur[w].run>> \in audit

NothingOwed == Quiet => \A r \in 1..drawn : <<"run", r>> \in audit /\ RunRecorded(r)

(* An audit record is there for good, and a run is let go once it has one.  *)
LEMMA AuditBeforeLeaving ==
  ASSUME Inv, NEW w \in Runners, Step(w), ~Stop(w), ~Conflict(w)
  PROVE  /\ audit \subseteq audit'
         /\ pc'[w] = "observe" => cur' = cur /\ <<"run", cur[w].run>> \in audit'
         /\ Busy(w) /\ ~Busy(w)' => pc[w] = "observe"
  <1> USE Typed DEF At, Goto, Busy
  <1>1. CASE Ingest(w) \/ \E selected \in SUBSET Pipelines : Start(w, selected)
    BY <1>1 DEF Ingest, Start, records
  <1>2. CASE \/ \E p \in Pipelines : PassOver(w, p) \/ FindInputs(w, p)
             \/ Build(w) \/ PassGates(w) \/ FindTarget(w)
    BY <1>2 DEF PassOver, FindInputs, Build, PassGates, FindTarget, records
  <1>3. CASE \/ RefuseSql(w) \/ RefusePublication(w) \/ Prune(w)
             \/ \E status \in Failures : FailGates(w, status)
    BY <1>3 DEF RefuseSql, RefusePublication, Prune, FailGates, Fail, records
  <1>4. CASE SafeReplace(w) \/ PublishNew(w)
    BY <1>4 DEF SafeReplace, PublishNew, Publish, records
  <1>5. CASE RecordRun(w) \/ DropEdges(w) \/ AddEdge(w) \/ CloseRecord(w)
    BY <1>5 DEF RecordRun, DropEdges, AddEdge, CloseRecord, records
  <1>6. CASE AuditRun(w) \/ Observe(w) \/ Finish(w)
    BY <1>6 DEF AuditRun, Observe, Finish, records
  <1>7. QED
    BY <1>1, <1>2, <1>3, <1>4, <1>5, <1>6 DEF Step, Call, RunOne, RecordOne

\* Only the two steps that draw change drawn, and the loop is between pipelines.
LEMMA DrawsAtNext ==
  ASSUME Inv, NEW w \in Runners, Step(w), drawn' # drawn
  PROVE  ~Busy(w) /\ Busy(w)'
  <1>1. PICK p \in Pipelines : PassOver(w, p) \/ FindInputs(w, p)
    BY DEF Step, Call, RunOne, RecordOne, Ingest, Start, Build, RefuseSql, PassGates, FailGates,
       Fail, FindTarget, SafeReplace, PublishNew, Publish, RefusePublication, Conflict, Abort,
       Prune, RecordRun, DropEdges, AddEdge, CloseRecord, AuditRun, Observe, Finish, Stop
  <1>2. QED
    BY <1>1, Typed DEF PassOver, FindInputs, IsNext, At, Goto, Busy

(* Every step of an undisturbed runner keeps its account.                   *)
LEMMA OwingStep ==
  ASSUME Alone, Inv, \A w \in Runners : Calm(w) /\ Owing(w), [Next]_vars
  PROVE  \A w \in Runners : Owing(w)'
  <1> SUFFICES ASSUME NEW w \in Runners PROVE Owing(w)'
    OBVIOUS
  <1>1. CASE UNCHANGED vars
    BY <1>1 DEF vars, Owing, Busy
  <1>2. CASE Next
    <2>1. Step(w)
      BY <1>2 DEF Next, Alone, RestoreTable
    <2>2. ~Stop(w) /\ ~Conflict(w)
      BY DEF Stop, Conflict, At, Calm, TablesKnown, Alone, Inv, TypeOK, ControlTyped
    <2>3. drawn \in Nat /\ (Busy(w) => cur[w].run \in Nat)
      BY RunTypes
    <2>4. pc'[w] = "observe" => <<"run", cur'[w].run>> \in audit'
      BY <2>1, <2>2, AuditBeforeLeaving
    <2>5. ASSUME NEW r \in 1..drawn', <<"run", r>> \notin audit'
          PROVE  Busy(w)' /\ cur'[w].run = r
      <3>1. CASE Busy(w)' /\ cur'[w].run = drawn + 1 /\ drawn' = drawn + 1
        <4>1. r \in 1..drawn => Busy(w) /\ cur[w].run = r
          BY <2>1, <2>2, <2>5, AuditBeforeLeaving DEF Owing
        <4>2. ~Busy(w)
          BY <2>1, <2>3, <3>1, DrawsAtNext
        <4>3. QED
          BY <2>3, <2>5, <3>1, <4>1, <4>2
      <3>2. CASE drawn' = drawn
        <4>1. Busy(w) /\ cur[w].run = r /\ <<"run", r>> \notin audit
          BY <2>1, <2>2, <2>5, <3>2, AuditBeforeLeaving DEF Owing
        <4>2. Busy(w)'
          BY <2>1, <2>2, <4>1, AuditBeforeLeaving DEF Owing
        <4>3. QED
          BY <2>1, <2>3, <3>2, <4>1, <4>2, HoldsRun DEF Busy
      <3>3. QED
        BY <2>1, <2>3, <3>1, <3>2, HoldsRun, DrawsAtNext
    <2>6. QED
      BY <2>4, <2>5 DEF Owing
  <1>3. QED
    BY <1>1, <1>2

(* Between the runs of an undisturbed runner every run id that was drawn    *)
(* has its row and its audit record: the state that RunsAreRecorded has     *)
(* fairness lead to, again and again (runner.py, run and _record).          *)
THEOREM RunsLeaveRecords ==
  ASSUME Alone, Runners # {}
  PROVE  Spec => []NothingOwed
  <1>1. Init => \A w \in Runners : Owing(w)
    BY DEF Init, Owing
  <1>2. Inv /\ (\A w \in Runners : Calm(w)) /\ (\A w \in Runners : Owing(w)) /\ [Next]_vars
          => (\A w \in Runners : Owing(w))'
    BY OwingStep
  <1>3. Inv /\ Numbered /\ (\A w \in Runners : Owing(w)) => NothingOwed
    <2> SUFFICES ASSUME Inv, Numbered, \A w \in Runners : Owing(w), Quiet, NEW r \in 1..drawn
                 PROVE  <<"run", r>> \in audit /\ RunRecorded(r)
      BY DEF NothingOwed
    <2>1. <<"run", r>> \in audit
      BY DEF Owing, Busy, Quiet
    <2>2. r \in Runs
      BY DEF Inv, TypeOK, ControlTyped, Runs
    <2>3. QED
      BY <2>1, <2>2 DEF Numbered, AuditFollows
  <1>4. Spec => []Numbered
    BY NumberedInvariance
  <1>5. QED
    BY <1>1, <1>2, <1>3, <1>4, Invariance, CalmInvariance, PTL DEF Spec
-----------------------------------------------------------------------------
(* The lineage of audited runs, with one runner that may stop anywhere: the *)
(* run in hand is the last one recorded or comes after all of them, it is   *)
(* not audited before its edges are complete, and they are its own.         *)
Edges(w) == EdgesOf(cur[w].pipeline)
EdgesDue(w) == EdgesFor(cur[w].pipeline, cur[w].run)

Traced(w) ==
  /\ Busy(w) => \A row \in runs : row.run < cur[w].run \/ (pc[w] \in Recorded /\ row = cur[w])
  /\ pc[w] \in {"relineage", "edges", "audit"} => <<"run", cur[w].run>> \notin audit
  /\ pc[w] = "edges" => Edges(w) \subseteq EdgesDue(w)
  /\ pc[w] = "audit" /\ cur[w].status = "succeeded" => Edges(w) = EdgesDue(w)

LineageKept == (\A w \in Runners : Traced(w)) /\ AuditedRunsHaveLineage

\* Steps that record nothing and keep the run in hand, or let it go.
LEMMA NothingTraced ==
  ASSUME LineageKept, UNCHANGED <<runs, lineage>>,
         \A r \in Runs : <<"run", r>> \in audit' => <<"run", r>> \in audit,
         \A w \in Runners :
           Busy(w)' => /\ Busy(w) /\ pc[w] \notin Recorded /\ pc'[w] \notin Recorded
                       /\ cur'[w].run = cur[w].run
  PROVE  LineageKept'
  <1>1. \A w \in Runners : Traced(w)'
    BY DEF LineageKept, Traced, Busy, Recorded
  <1>2. AuditedRunsHaveLineage'
    BY DEF LineageKept, AuditedRunsHaveLineage, Succeeded, EdgesOf
  <1>3. QED
    BY <1>1, <1>2 DEF LineageKept

\* What the lone runner records, and the edges it replaces.
LEMMA RecordTraced ==
  ASSUME Inv, Numbered, LineageKept, NEW w \in Runners, \A v \in Runners : v = w,
         RecordRun(w) \/ DropEdges(w) \/ AddEdge(w) \/ CloseRecord(w) \/ AuditRun(w)
  PROVE  LineageKept'
  <1> DEFINE p == cur[w].pipeline
             r == cur[w].run
  <1>0. /\ pc[w] \notin {"idle", "next"} /\ Busy(w) /\ cur' = cur
        /\ p \in Pipelines /\ r \in Runs /\ r \in Nat
        /\ cur[w] = [run |-> r, pipeline |-> p, status |-> cur[w].status]
    <2>1. pc[w] \notin {"idle", "next"} /\ cur' = cur
      BY DEF RecordRun, DropEdges, AddEdge, CloseRecord, AuditRun, At
    <2>2. QED
      BY <2>1, CurWorks, RunTypes DEF Busy
  <1>t. Traced(w) /\ AuditedRunsHaveLineage /\ CandidatePlaced(w) /\ OwnRun(w)
    BY DEF LineageKept, Inv, Numbered
  <1>1. CASE RecordRun(w)
    <2>1. /\ pc[w] = "record" /\ pc'[w] \in {"relineage", "audit"}
          /\ cur[w].status = "succeeded" => pc'[w] = "relineage"
          /\ runs' = runs \cup {cur[w]} /\ UNCHANGED <<lineage, audit>>
      BY <1>1, Typed DEF RecordRun, At, Goto
    <2>2. \A row \in runs : row.run < r
      BY <1>0, <1>t, <2>1 DEF Traced, Recorded
    <2>3. <<"run", r>> \notin audit
      BY <1>0, <1>t, <2>1 DEF OwnRun, Recorded, Numbered, AuditFollows
    <2>4. Traced(w)'
      BY <1>0, <2>1, <2>2, <2>3 DEF Traced, Recorded, Busy
    <2>5. ASSUME NEW q \in Pipelines, NEW n \in Runs, Succeeded(q, n)', <<"run", n>> \in audit'
          PROVE  \/ EdgesOf(q)' = EdgesFor(q, n)
                 \/ \E later \in Runs : later > n /\ Succeeded(q, later)'
      <3>1. n # r
        BY <2>1, <2>3, <2>5
      <3>2. Succeeded(q, n) /\ <<"run", n>> \in audit /\ EdgesOf(q)' = EdgesOf(q)
        BY <1>0, <2>1, <2>5, <3>1 DEF Succeeded, EdgesOf
      <3>3. \A later \in Runs : Succeeded(q, later) => Succeeded(q, later)'
        BY <2>1 DEF Succeeded
      <3>4. QED
        BY <1>t, <3>2, <3>3 DEF AuditedRunsHaveLineage
    <2>6. QED
      BY <2>4, <2>5 DEF LineageKept, AuditedRunsHaveLineage
  <1>2. ASSUME pc[w] \in {"relineage", "edges"}, UNCHANGED <<runs, audit>>, Traced(w)',
               \A q \in Pipelines \ {p} : EdgesOf(q)' = EdgesOf(q)
        PROVE  LineageKept'
    <2>1. Succeeded(p, r) /\ cur[w] \in runs /\ <<"run", r>> \notin audit
      BY <1>0, <1>2, <1>t DEF CandidatePlaced, Recorded, Succeeded, Traced
    <2>2. ASSUME NEW q \in Pipelines, NEW n \in Runs, Succeeded(q, n), <<"run", n>> \in audit
          PROVE  \/ EdgesOf(q)' = EdgesFor(q, n)
                 \/ \E later \in Runs : later > n /\ Succeeded(q, later)
      <3>1. CASE q # p
        BY <1>2, <1>t, <2>2, <3>1 DEF AuditedRunsHaveLineage
      <3>2. CASE q = p
        <4>1. n < r
          BY <1>0, <1>t, <2>1, <2>2 DEF Traced, Succeeded
        <4>2. r > n
          BY <1>0, <4>1 DEF Runs
        <4>3. QED
          BY <1>0, <2>1, <3>2, <4>2
      <3>3. QED
        BY <3>1, <3>2
    <2>3. AuditedRunsHaveLineage'
      BY <1>2, <2>2 DEF AuditedRunsHaveLineage, Succeeded
    <2>4. QED
      BY <1>2, <2>3 DEF LineageKept
  <1>3. CASE DropEdges(w)
    <2>1. /\ pc[w] = "relineage" /\ pc'[w] = "edges" /\ lineage' = lineage \ EdgesOf(p)
          /\ UNCHANGED <<runs, audit>>
      BY <1>3, Typed DEF DropEdges, At, Goto
    <2>2. Edges(w)' = {} /\ \A q \in Pipelines \ {p} : EdgesOf(q)' = EdgesOf(q)
      BY <1>0, <2>1 DEF Edges, EdgesOf
    <2>3. Traced(w)'
      BY <1>0, <1>t, <2>1, <2>2 DEF Traced, Recorded, Busy
    <2>4. QED
      BY <1>2, <2>1, <2>2, <2>3
  <1>4. CASE AddEdge(w)
    <2>1. PICK e \in EdgesFor(p, r) : lineage' = lineage \cup {e}
      BY <1>4 DEF AddEdge
    <2>2. pc[w] = "edges" /\ UNCHANGED <<runs, audit, pc>>
      BY <1>4 DEF AddEdge, At
    <2>3. e.output = p
      BY <2>1 DEF EdgesFor
    <2>4. Edges(w) \subseteq EdgesFor(p, r)
      BY <1>t, <2>2 DEF Traced, EdgesDue
    <2>5. Edges(w)' \subseteq EdgesFor(p, r) /\ \A q \in Pipelines \ {p} : EdgesOf(q)' = EdgesOf(q)
      BY <1>0, <2>1, <2>3, <2>4 DEF Edges, EdgesOf
    <2>6. EdgesDue(w)' = EdgesFor(p, r)
      BY <1>0 DEF EdgesDue, EdgesFor
    <2>7. Traced(w)'
      BY <1>0, <1>t, <2>2, <2>5, <2>6 DEF Traced, Recorded, Busy
    <2>8. QED
      BY <1>2, <2>2, <2>5, <2>7
  <1>5. CASE CloseRecord(w)
    <2>1. /\ pc[w] = "edges" /\ pc'[w] = "audit" /\ EdgesFor(p, r) \subseteq lineage
          /\ UNCHANGED <<runs, audit, lineage>>
      BY <1>5, Typed DEF CloseRecord, At, Goto, records
    <2>2. Edges(w) = EdgesFor(p, r)
      <3>1. Edges(w) \subseteq EdgesFor(p, r)
        BY <1>t, <2>1 DEF Traced, EdgesDue
      <3>2. EdgesFor(p, r) \subseteq Edges(w)
        BY <2>1 DEF Edges, EdgesOf, EdgesFor
      <3>3. QED
        BY <3>1, <3>2
    <2>3. Edges(w)' = EdgesDue(w)'
      BY <1>0, <2>1, <2>2 DEF Edges, EdgesDue, EdgesOf, EdgesFor
    <2>4. Traced(w)'
      BY <1>0, <1>t, <2>1, <2>3 DEF Traced, Recorded, Busy
    <2>5. QED
      BY <1>2, <2>1, <2>4 DEF EdgesOf
  <1>6. CASE AuditRun(w)
    <2>1. /\ pc[w] = "audit" /\ pc'[w] = "observe" /\ audit' = audit \cup {<<"run", r>>}
          /\ UNCHANGED <<runs, lineage>>
      BY <1>6, Typed DEF AuditRun, At, Goto
    <2>2. Traced(w)'
      BY <1>0, <1>t, <2>1 DEF Traced, Recorded, Busy
    <2>3. ASSUME NEW q \in Pipelines, NEW n \in Runs, Succeeded(q, n), <<"run", n>> \in audit'
          PROVE  \/ EdgesOf(q) = EdgesFor(q, n)
                 \/ \E later \in Runs : later > n /\ Succeeded(q, later)
      <3>1. CASE <<"run", n>> \in audit
        BY <1>t, <2>3, <3>1 DEF AuditedRunsHaveLineage
      <3>2. CASE n = r
        <4>1. [run |-> n, pipeline |-> q, status |-> "succeeded"] = cur[w]
          BY <1>0, <1>t, <2>1, <2>3, <3>2 DEF Traced, Succeeded
        <4>2. q = p /\ cur[w].status = "succeeded"
          BY <4>1
        <4>3. QED
          BY <1>t, <2>1, <3>2, <4>2 DEF Traced, Edges, EdgesDue
      <3>3. QED
        BY <2>1, <2>3, <3>1, <3>2
    <2>4. AuditedRunsHaveLineage'
      BY <2>1, <2>3 DEF AuditedRunsHaveLineage, Succeeded, EdgesOf
    <2>5. QED
      BY <2>2, <2>4 DEF LineageKept
  <1>7. QED
    BY <1>1, <1>3, <1>4, <1>5, <1>6

(* Every step of a lone runner, and every restore, keeps the lineage.       *)
LEMMA TracedStep ==
  ASSUME \A v, w \in Runners : v = w, Inv, Numbered, LineageKept, [Next]_vars
  PROVE  LineageKept'
  <1>1. CASE UNCHANGED vars \/ \E p \in Pipelines, r \in Runs : RestoreTable(p, r)
    <2>1. UNCHANGED <<runs, lineage, audit, pc, cur>>
      BY <1>1 DEF vars, RestoreTable, records
    <2>2. \A w \in Runners : Edges(w)' = Edges(w) /\ EdgesDue(w)' = EdgesDue(w)
      BY <2>1 DEF Edges, EdgesDue, EdgesOf, EdgesFor
    <2>3. \A w \in Runners : Traced(w)'
      BY <2>1, <2>2 DEF LineageKept, Traced, Busy
    <2>4. AuditedRunsHaveLineage'
      BY <2>1 DEF LineageKept, AuditedRunsHaveLineage, Succeeded, EdgesOf
    <2>5. QED
      BY <2>3, <2>4 DEF LineageKept
  <1>2. ASSUME NEW w \in Runners,
               \/ Ingest(w) \/ (\E selected \in SUBSET Pipelines : Start(w, selected))
               \/ Conflict(w) \/ Observe(w) \/ Finish(w) \/ Stop(w)
        PROVE  LineageKept'
    <2>1. UNCHANGED <<runs, lineage>>
      BY <1>2 DEF Ingest, Start, Conflict, Abort, Observe, Finish, Stop, records
    <2>2. ~Busy(w)'
      BY <1>2, Typed DEF Ingest, Start, Conflict, Abort, Observe, Finish, Stop, At, Goto, Busy
    <2>3. \A r \in Runs : <<"run", r>> \in audit' => <<"run", r>> \in audit
      BY <1>2 DEF Ingest, Start, Conflict, Abort, Observe, Finish, Stop, records
    <2>4. \A v \in Runners : ~Busy(v)'
      BY <2>2
    <2>5. QED
      BY <2>1, <2>3, <2>4, NothingTraced
  <1>3. ASSUME NEW w \in Runners, NEW p \in Pipelines, PassOver(w, p) \/ FindInputs(w, p)
        PROVE  LineageKept'
    <2>1. /\ UNCHANGED <<runs, lineage, audit>>
          /\ pc'[w] \in {"record", "build"} /\ cur'[w].run = drawn + 1
      BY <1>3, Typed DEF PassOver, FindInputs, Draw, Goto, records
    <2>2. \A row \in runs : row.run < drawn + 1
      BY RunTypes DEF Numbered
    <2>3. Traced(w)'
      BY <2>1, <2>2 DEF Traced
    <2>4. AuditedRunsHaveLineage'
      BY <2>1 DEF LineageKept, AuditedRunsHaveLineage, Succeeded, EdgesOf
    <2>5. QED
      BY <2>3, <2>4 DEF LineageKept
  <1>4. ASSUME NEW w \in Runners,
               \/ Build(w) \/ PassGates(w) \/ FindTarget(w) \/ SafeReplace(w) \/ PublishNew(w)
               \/ RefuseSql(w) \/ RefusePublication(w) \/ Prune(w)
               \/ \E status \in Failures : FailGates(w, status)
        PROVE  LineageKept'
    <2>1. UNCHANGED <<runs, lineage, audit, drawn>>
      BY <1>4 DEF Build, PassGates, FindTarget, SafeReplace, PublishNew, Publish, RefuseSql,
         RefusePublication, Prune, FailGates, Fail, records
    <2>2. /\ pc[w] \notin {"idle", "next"} \cup Recorded
          /\ pc'[w] \notin {"idle", "next"} \cup Recorded
      BY <1>4, Typed DEF Build, PassGates, FindTarget, SafeReplace, PublishNew, Publish, RefuseSql,
         RefusePublication, Prune, FailGates, Fail, At, Goto, Recorded
    <2>3. Step(w)
      BY <1>4 DEF Step, RunOne
    <2>4. cur'[w].run = cur[w].run
      BY <2>1, <2>2, <2>3, HoldsRun, RunTypes
    <2>5. \A v \in Runners : v = w
      OBVIOUS
    <2>6. QED
      BY <2>1, <2>2, <2>4, <2>5, NothingTraced DEF Busy
  <1>5. QED
    BY <1>1, <1>2, <1>3, <1>4, RecordTraced DEF Next, Step, Call, RunOne, RecordOne

(* With one runner, whatever fails, stops or is restored: an audited        *)
(* success has exactly its own edges until a later one is recorded          *)
(* (runner.py, _record).                                                    *)
THEOREM LineageIsAudited ==
  ASSUME \A v, w \in Runners : v = w
  PROVE  Spec => []AuditedRunsHaveLineage
  <1>1. Init => LineageKept
    BY DEF Init, LineageKept, Traced, Busy, AuditedRunsHaveLineage
  <1>2. Inv /\ Numbered /\ LineageKept /\ [Next]_vars => LineageKept'
    BY TracedStep
  <1>3. LineageKept => AuditedRunsHaveLineage
    BY DEF LineageKept
  <1>4. QED
    BY <1>1, <1>2, <1>3, Invariance, NumberedInvariance, PTL DEF Spec

=============================================================================
