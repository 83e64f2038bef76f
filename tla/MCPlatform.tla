------------------------------ MODULE MCPlatform ------------------------------
(***************************************************************************)
(* Small instances of the components that share no state with one another. *)
(* A behaviour is one of one component, which is chosen at the start: the  *)
(* states of this run are the sum of theirs.                               *)
(***************************************************************************)
EXTENDS PipelineGraph, Authoring, DbtExport, Deployment, Crawler, StateDirectory,
        SampleData, Gates, SqlGuard, Reasoning, TLC

\* Three spec files; a flawed spec is one that does not parse, repeats an id,
\* or whose SQL does not use the inputs it declares.
GraphTexts ==
  [f \in SpecFiles |->
     {s \in Specs : s.id = f /\ s.refs = s.inputs} \cup {Unparsable}
     \cup {s \in Specs : s.id = 1 /\ s.output = "b" /\ s.inputs = {"a"} /\ s.refs = {}}]

\* The repository has b and c read a; the offers close a cycle, alone or two of
\* them together, take another producer's dataset with and without its id, or
\* add a mart.
RepoSpec(i, o, in) == [id |-> i, output |-> o, inputs |-> in]
RepoFan == {RepoSpec(1, "a", {}), RepoSpec(2, "b", {"a"}), RepoSpec(3, "c", {"a"})}
AgentOffers ==
  {RepoSpec(1, "a", {"c"}), RepoSpec(4, "a", {}), RepoSpec(2, "a", {}),
   RepoSpec(4, "d", {"c"}), RepoSpec(2, "b", {"c"}), RepoSpec(3, "c", {"b"})}

PathGenerations == {{"m1"}, {"m1", "m2"}, {"m3"}}

\* Two tables of one id, and two ids of one file name.
Identities == 1 :> "a" @@ 2 :> "b" @@ 3 :> "c" @@ 4 :> "a"
FileNames == "a" :> "fa" @@ "b" :> "fb" @@ "c" :> "fb"

\* All tables of up to two rows over two columns with each suite of checks, and
\* an empty table with each reconciliation.
CheckOf(kind, columns, values, least, most) ==
  [check |-> kind, columns |-> columns, values |-> values, min |-> least, max |-> most]
CheckSuites ==
  {<<>>,
   <<CheckOf("not_null", {"k", "v"}, {}, Null, Null)>>,
   <<CheckOf("unique", {"k"}, {}, Null, Null)>>,
   <<CheckOf("unique", {"k", "v"}, {}, Null, Null), CheckOf("accepted_values", {"v"}, {1}, Null, Null)>>,
   <<CheckOf("range", {"v"}, {}, 2, Null), CheckOf("row_count", {"k"}, {}, 1, 1)>>}
SmallTables == UNION {[1..n -> [{"k", "v"} -> {1, 2, Null}]] : n \in 0..2}
SmallScalars ==
  [rows : {"one"}, value : {0, 1, Null, NotFinite}] \cup [rows : {"none", "many"}, value : {Null}]
SmallBuilds ==
  [table : SmallTables, schema : {"equal"}, required : {{}, {"k"}}, checks : CheckSuites,
   reconciliations : {<<>>}]
  \cup [table : {<<>>}, schema : {"equal", "missing", "additional", "other_type"}, required : {{}},
        checks : {<<>>, <<CheckOf("row_count", {"k"}, {}, 1, Null)>>},
        reconciliations : {<<[expected |-> e, actual |-> a, tolerance |-> t]>> :
                             e \in SmallScalars, a \in SmallScalars, t \in {0, 1}}]

\* Three blocks, the third within the first or the second, each with at most
\* one reference; DuckDB refuses two CTEs of one name in one block.
FoldedNames == "x" :> "x" @@ "X" :> "x" @@ "v" :> "v"
SmallReferences ==
  {[by |-> "template", to |-> "in"], [by |-> "template", to |-> "other"],
   [by |-> "qualified", to |-> "other"]} \cup [by : {"bare"}, to : {"x", "X", "v"}]
SmallTexts ==
  {t \in [plain : BOOLEAN,
          within : {[b \in 1..3 |-> IF b = 3 THEN outer ELSE 1] : outer \in {1, 2}},
          cte : {[b \in 1..3 |-> IF b = 1 THEN "" ELSE names[b]] : names \in [2..3 -> {"", "x", "X", "v"}]},
          reads : [1..3 -> {{}} \cup {{r} : r \in SmallReferences}]] :
     /\ t.plain \/ t.reads = [b \in 1..3 |-> {}]
     /\ ~(/\ t.within[2] = t.within[3] /\ "" \notin {t.cte[2], t.cte[3]}
          /\ FoldedNames[t.cte[2]] = FoldedNames[t.cte[3]])}

\* Each dataset has a metric, and the first two are declared non-equivalent. A
\* question matches them equally, unequally or not comparably; the third is
\* found by similarity alone or by its points; and one finds nothing.
OwnMetrics == 1 :> {1} @@ 2 :> {2} @@ 3 :> {3}
DeclaredDistinct == {<<1, 2>>, <<2, 1>>}
Document(datasets, metric, similarity) ==
  [datasets |-> datasets, metric |-> metric, similarity |-> similarity]
SmallQuestions ==
  [prohibited : {{}, {1}},
   points : {[d \in 1..3 |-> IF d = 3 THEN points ELSE 2] : points \in {0, 6}},
   score : {[m \in 1..3 |-> IF m = 3 THEN 0 ELSE IF m = 1 THEN first ELSE 4] : first \in {0, 2, 4}},
   terms : {[m \in 1..3 |-> IF m = 3 THEN {} ELSE {"a"}]},
   vector : {{}, {Document({3}, 3, 10)}, {Document({1}, 0, 3), Document({2}, 2, 6)}}]
  \cup {[prohibited |-> {}, points |-> [d \in 1..3 |-> 0], score |-> [m \in 1..3 |-> 0],
         terms |-> [m \in 1..3 |-> {}], vector |-> {}]}
Sick == [freshness |-> "stale", quality |-> "failing", health |-> "failed", usage |-> 0]
SmallObservations == {Sick}

\* What a provider may return: a dataset in the context or out of it, nothing
\* cited, the wrong thing cited, an id that is in no context.
Cited == [contract |-> [kind |-> "contract", about |-> 1], rank |-> [kind |-> "ranking", about |-> 2],
          metric |-> [kind |-> "definition", about |-> 2], unknown |-> [kind |-> "contract", about |-> Nowhere]]
SmallReplies ==
  [selected : {1, 2, Nowhere, NoDraft},
   cites : {{}, {Cited.contract}, {Cited.rank}, {Cited.metric, Cited.contract}, {Cited.rank, Cited.unknown}}]

-----------------------------------------------------------------------------
VARIABLE running   \* the component this behaviour is one of

Running(component) == running = component /\ UNCHANGED running

PlatformInit ==
  /\ running \in {"graph", "authoring", "export", "deployment", "crawler", "directory",
                  "sample", "gates", "guard", "reasoning"}
  /\ GraphInit /\ AuthoringInit /\ ExportInit /\ DeploymentInit /\ CrawlerInit
  /\ StateInit /\ SampleInit /\ GatesInit /\ GuardInit /\ ReasoningInit

tools == <<graphVars, gateVars, guardVars>>
files == <<exportVars, deploymentVars, crawlerVars, sampleVars>>

PlatformNext ==
  \/ Running("graph") /\ GraphNext /\ UNCHANGED <<gateVars, guardVars, files, authoringVars, stateVars, allVars>>
  \/ Running("gates") /\ GatesNext /\ UNCHANGED <<graphVars, guardVars, files, authoringVars, stateVars, allVars>>
  \/ Running("guard") /\ GuardNext /\ UNCHANGED <<graphVars, gateVars, files, authoringVars, stateVars, allVars>>
  \/ Running("authoring") /\ AuthoringNext /\ UNCHANGED <<tools, files, stateVars, allVars>>
  \/ Running("directory") /\ StateNext /\ UNCHANGED <<tools, files, authoringVars, allVars>>
  \/ Running("reasoning") /\ ReasoningNext /\ UNCHANGED <<tools, files, authoringVars, stateVars>>
  \/ /\ Running("export") /\ ExportNext
     /\ UNCHANGED <<tools, deploymentVars, crawlerVars, sampleVars, authoringVars, stateVars, allVars>>
  \/ /\ Running("deployment") /\ DeploymentNext
     /\ UNCHANGED <<tools, exportVars, crawlerVars, sampleVars, authoringVars, stateVars, allVars>>
  \/ /\ Running("crawler") /\ CrawlerNext
     /\ UNCHANGED <<tools, exportVars, deploymentVars, sampleVars, authoringVars, stateVars, allVars>>
  \/ /\ Running("sample") /\ SampleNext
     /\ UNCHANGED <<tools, exportVars, deploymentVars, crawlerVars, authoringVars, stateVars, allVars>>

platformVars == <<tools, files, authoringVars, stateVars, allVars, running>>
PlatformSpec == PlatformInit /\ [][PlatformNext]_platformVars /\ FairAuthoring
=============================================================================
