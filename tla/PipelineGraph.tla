---------------------------- MODULE PipelineGraph ----------------------------
(***************************************************************************)
(* A pipeline project: the spec files are read, the project is validated,  *)
(* execution_order lists it and run cuts the list down to what is          *)
(* downstream of the pipelines asked for. The loops of loader.py are steps *)
(* here; what they compute is held against what a dependency order and a   *)
(* downstream closure are.                                                 *)
(***************************************************************************)
EXTENDS Integers, Sequences, FiniteSets

CONSTANTS
  SpecFiles,        \* files in specs/, in the order of their names
  PipelineIds,          \* pipeline ids, in the order of their names
  DatasetIds,     \* dataset ids
  Contracted,   \* those whose registry contract declares columns
  Written,      \* Written[f]: the specs file f may hold
  Unparsable    \* a file that is not a spec

Specs == [id : PipelineIds, output : DatasetIds, inputs : SUBSET DatasetIds, refs : SUBSET DatasetIds]

ASSUME GraphConstants ==
  /\ SpecFiles \subseteq Nat /\ PipelineIds \subseteq Nat
  /\ Written \in [SpecFiles -> SUBSET (Specs \cup {Unparsable})]
  /\ Unparsable \notin Specs

VARIABLES
  unread,     \* spec files still to be read
  project,    \* PipelineProject.pipelines
  flawed,     \* load_pipeline_project has collected an error
  phase,
  remaining, done, ready, ordered,   \* the locals of execution_order
  wanted, selected                   \* the argument and result of downstream_of

graphVars == <<unread, project, flawed, phase, remaining, done, ready, ordered,
               wanted, selected>>
orderLocals == <<remaining, done, ready, ordered>>
selectLocals == <<wanted, selected>>

Pipelines == DOMAIN project
OutputOf(p) == project[p].output
InputsOf(p) == project[p].inputs
Produced == {OutputOf(p) : p \in Pipelines}

Least(S) == CHOOSE p \in S : \A q \in S : p <= q
InOrder == {ordered[i] : i \in DOMAIN ordered}

GraphTypeOK ==
  /\ unread \subseteq SpecFiles
  /\ Pipelines \subseteq PipelineIds /\ project \in [Pipelines -> Specs]
  /\ flawed \in BOOLEAN
  /\ phase \in {"loading", "refused", "passes", "taking", "stuck", "listed",
                "growing", "planned"}
  /\ remaining \subseteq Pipelines /\ ready \subseteq remaining
  /\ done \subseteq DatasetIds
  /\ ordered \in Seq(Pipelines)
  /\ wanted \subseteq selected /\ selected \subseteq Pipelines

GraphInit ==
  /\ unread = SpecFiles
  /\ project = <<>>
  /\ flawed = FALSE
  /\ phase = "loading"
  /\ remaining = {} /\ done = {} /\ ready = {} /\ ordered = <<>>
  /\ wanted = {} /\ selected = {}

-----------------------------------------------------------------------------
(* load_pipeline_project: a file that does not parse is an error and adds   *)
(* nothing; a second file with the same id is one and replaces the first.   *)
Added(spec) == [p \in Pipelines \cup {spec.id} |-> IF p = spec.id THEN spec ELSE project[p]]

ReadSpec ==
  /\ phase = "loading" /\ unread # {}
  /\ unread' = unread \ {Least(unread)}
  /\ \E spec \in Written[Least(unread)] :
       \/ /\ spec = Unparsable
          /\ flawed' = TRUE
          /\ UNCHANGED project
       \/ /\ spec # Unparsable
          /\ flawed' = (flawed \/ spec.id \in Pipelines)
          /\ project' = Added(spec)
  /\ UNCHANGED <<phase, orderLocals, selectLocals>>

\* spec_errors, for the parts that concern the graph.
SpecErrors(p) ==
  \/ OutputOf(p) \notin Contracted
  \/ OutputOf(p) \in InputsOf(p)
  \/ ~(InputsOf(p) \subseteq Produced)
  \/ project[p].refs # InputsOf(p)   \* undeclared or unused

ProducedTwice == \E p, q \in Pipelines : p # q /\ OutputOf(p) = OutputOf(q)

\* validate_pipeline_project up to the call of execution_order.
ValidProject == ~flawed /\ ~ProducedTwice /\ \A p \in Pipelines : ~SpecErrors(p)

Validate ==
  /\ phase = "loading" /\ unread = {}
  /\ IF ValidProject
     THEN /\ phase' = "passes"
          /\ remaining' = Pipelines
          /\ done' = {} /\ ready' = {} /\ ordered' = <<>>
     ELSE phase' = "refused" /\ UNCHANGED orderLocals
  /\ UNCHANGED <<unread, project, flawed, selectLocals>>

-----------------------------------------------------------------------------
(* execution_order: each pass looks for what has its inputs done, then      *)
(* takes all of it by id; a pass that finds nothing reports a cycle.        *)
Ready == {p \in remaining : InputsOf(p) \cap Produced \subseteq done}

LookUntilEmpty ==   \* a slip: an empty pass is not looked at
  /\ phase = "passes"
  /\ ready' = Ready
  /\ phase' = IF Ready = {} THEN "listed" ELSE "taking"
  /\ UNCHANGED <<unread, project, flawed, remaining, done, ordered, selectLocals>>

LookForReady ==
  /\ phase = "passes"
  /\ ready' = Ready
  /\ phase' = IF remaining = {} THEN "listed" ELSE IF Ready = {} THEN "stuck" ELSE "taking"
  /\ UNCHANGED <<unread, project, flawed, remaining, done, ordered, selectLocals>>

TakeReady ==
  /\ phase = "taking"
  /\ LET p == Least(ready) IN
       /\ remaining' = remaining \ {p}
       /\ ready' = ready \ {p}
       /\ done' = done \cup {OutputOf(p)}
       /\ ordered' = Append(ordered, p)
       /\ phase' = IF ready = {p} THEN "passes" ELSE "taking"
  /\ UNCHANGED <<unread, project, flawed, selectLocals>>

-----------------------------------------------------------------------------
(* run(select): downstream_of grows the selection until a pass over the     *)
(* pipelines changes nothing.                                               *)
SelectPipelines ==
  /\ phase = "listed"
  /\ \E from \in (SUBSET Pipelines) \ {{}} : wanted' = from /\ selected' = from
  /\ phase' = "growing"
  /\ UNCHANGED <<unread, project, flawed, orderLocals>>

ReadersOf(S) == {p \in Pipelines : \E q \in S : OutputOf(q) \in InputsOf(p)}

GrowOnce ==   \* a slip: one pass and no more
  /\ phase = "growing"
  /\ selected' = selected \cup ReadersOf(selected)
  /\ phase' = "planned"
  /\ UNCHANGED <<unread, project, flawed, orderLocals, wanted>>

Grow ==
  /\ phase = "growing"
  /\ selected' = selected \cup ReadersOf(selected)
  /\ phase' = IF ReadersOf(selected) \subseteq selected THEN "planned" ELSE "growing"
  /\ UNCHANGED <<unread, project, flawed, orderLocals, wanted>>

GraphNext ==
  \/ ReadSpec \/ Validate
  \/ LookForReady \/ TakeReady
  \/ SelectPipelines \/ Grow

GraphSpec == GraphInit /\ [][GraphNext]_graphVars

-----------------------------------------------------------------------------
OrderKnown == phase \in {"listed", "growing", "planned"}

\* Pipelines that wait for one another: each reads from one of them.
Tangle(C) == C # {} /\ \A p \in C : \E q \in C : OutputOf(q) \in InputsOf(p)

ClosedDownstream(S) == ReadersOf(S) \subseteq S

(* execution_order lists every pipeline once, after everything it reads,    *)
(* and finds a cycle exactly when there is one.                             *)
OrderIsTopological ==
  /\ OrderKnown =>
       /\ InOrder = Pipelines
       /\ \A i, j \in DOMAIN ordered : ordered[i] = ordered[j] => i = j
       /\ \A i \in DOMAIN ordered, q \in Pipelines :
            OutputOf(q) \in InputsOf(ordered[i]) => \E j \in 1..(i - 1) : ordered[j] = q
       /\ \A C \in SUBSET Pipelines : ~Tangle(C)
  /\ phase = "stuck" => Tangle(remaining)

(* A partial run covers what it was asked for and everything downstream,    *)
(* and nothing else.                                                        *)
SelectionIsLeast ==
  phase = "planned" =>
    /\ wanted \subseteq selected /\ ClosedDownstream(selected)
    /\ \A S \in SUBSET Pipelines : wanted \subseteq S /\ ClosedDownstream(S) => selected \subseteq S
=============================================================================
