------------------------ MODULE PipelineProjectProofs ------------------------
(***************************************************************************)
(* Theorems about a pipeline project: for any spec files, what             *)
(* execution_order and downstream_of compute and when a cycle is reported  *)
(* (PipelineGraph); for any candidate, what the gates' verdict stands for  *)
(* and what is left of it in dbt (Gates).                                  *)
(***************************************************************************)
EXTENDS PipelineGraph, Gates, WellFoundedInduction, TLAPS

(* What a loop over sorted names or ids takes first is there.               *)
LEMMA LeastIsIn ==
  ASSUME NEW S \in SUBSET Nat, S # {}
  PROVE  Least(S) \in S
  <1> DEFINE Less == {ss \in Nat \X Nat : ss[1] < ss[2]}
  <1>1. IsWellFoundedOn(Less, Nat)
    BY NatLessThanWellFounded DEF OpToRel
  <1> HIDE DEF Less
  <1>2. PICK n \in S : \A k \in S : <<k, n>> \notin Less
    BY <1>1, WFMin, Zenon
  <1>3. \A k \in S : n <= k
    <2> SUFFICES ASSUME NEW k \in S, ~(n <= k) PROVE FALSE
      OBVIOUS
    <2>1. n \in Nat /\ k \in Nat /\ k < n
      OBVIOUS
    <2>2. <<k, n>> \in Less
      BY <2>1 DEF Less
    <2>3. QED
      BY <1>2, <2>2
  <1>4. QED
    BY <1>3 DEF Least

-----------------------------------------------------------------------------
(* The inductive invariant. From the first pass on the project is valid and *)
(* its pipelines are split into those in the order and those that remain.   *)
Ordering == phase \in {"passes", "taking", "stuck", "listed", "growing", "planned"}

Before(i, q) == \E j \in 1..(i - 1) : ordered[j] = q

OrderSplits ==
  /\ InOrder \cup remaining = Pipelines /\ InOrder \cap remaining = {}
  /\ done = {OutputOf(p) : p \in InOrder}
OrderOnce == \A i, j \in DOMAIN ordered : ordered[i] = ordered[j] => i = j
OrderRespectsInputs ==
  \A i \in DOMAIN ordered, q \in Pipelines : OutputOf(q) \in InputsOf(ordered[i]) => Before(i, q)
TangleRemains == \A C \in SUBSET Pipelines : Tangle(C) => C \cap InOrder = {}

OrderStands ==
  /\ ~Ordering => ordered = <<>> /\ remaining = {} /\ ready = {} /\ wanted = {} /\ selected = {}
  /\ Ordering =>
       /\ ~ProducedTwice
       /\ OrderSplits /\ OrderOnce /\ OrderRespectsInputs /\ TangleRemains
  /\ phase = "taking" => ready # {} /\ \A p \in ready : InputsOf(p) \cap Produced \subseteq done
  /\ phase = "stuck" => Tangle(remaining)
  /\ OrderKnown => remaining = {}

Covers(S) == wanted \subseteq S /\ ClosedDownstream(S)
SelectionStands ==
  /\ \A S \in SUBSET Pipelines : Covers(S) => selected \subseteq S
  /\ phase = "planned" => ClosedDownstream(selected)

GraphInv == GraphTypeOK /\ OrderStands /\ SelectionStands

(* At first nothing is loaded.                                              *)
LEMMA GraphInitInv == GraphInit => GraphInv
  <1> SUFFICES ASSUME GraphInit PROVE GraphInv
    OBVIOUS
  <1>1. Pipelines = {} /\ project \in [Pipelines -> Specs]
    BY DEF GraphInit, Pipelines
  <1>2. GraphTypeOK
    <2>1. ordered \in Seq(Pipelines)
      <3>1. ordered = <<>>
        BY DEF GraphInit
      <3>2. QED
        BY <3>1
    <2>2. project \in [Pipelines -> Specs] /\ Pipelines \subseteq PipelineIds
      BY <1>1
    <2>3. QED
      BY <2>1, <2>2 DEF GraphInit, GraphTypeOK
  <1>3. OrderStands /\ SelectionStands
    BY DEF GraphInit, OrderStands, SelectionStands, Ordering, OrderKnown
  <1>4. QED
    BY <1>2, <1>3 DEF GraphInv

(* The loading of one file keeps the types, whatever it holds.              *)
LEMMA LoadingStep ==
  ASSUME GraphInv, ReadSpec
  PROVE  GraphInv'
  <1> USE DEF GraphInv
  <1>1. /\ phase = "loading" /\ unread' \subseteq SpecFiles
        /\ UNCHANGED <<phase, remaining, done, ready, ordered, wanted, selected>>
    BY DEF ReadSpec, GraphTypeOK, orderLocals, selectLocals
  <1>2. unread # {} /\ unread \in SUBSET SpecFiles
    BY DEF ReadSpec, GraphTypeOK
  <1>3. /\ flawed' \in BOOLEAN
        /\ Pipelines' \subseteq PipelineIds /\ project' \in [Pipelines' -> Specs]
    <2>1. CASE project' = project /\ flawed' = TRUE
      BY <2>1 DEF GraphTypeOK, Pipelines
    <2>2. ASSUME NEW spec \in Specs, flawed' = (flawed \/ spec.id \in Pipelines),
                 project' = Added(spec)
          PROVE /\ flawed' \in BOOLEAN
                /\ Pipelines' \subseteq PipelineIds /\ project' \in [Pipelines' -> Specs]
      <3>1. spec.id \in PipelineIds
        BY DEF Specs
      <3>2. Pipelines' = Pipelines \cup {spec.id}
        BY <2>2 DEF Added, Pipelines
      <3>3. project' \in [Pipelines \cup {spec.id} -> Specs]
        BY <2>2 DEF Added, GraphTypeOK
      <3>4. QED
        BY <2>2, <3>1, <3>2, <3>3 DEF GraphTypeOK
    <2>3. QED
      <3>1. Least(unread) \in unread
        BY <1>2, LeastIsIn, GraphConstants
      <3>2. PICK spec \in Written[Least(unread)] :
              \/ spec = Unparsable /\ flawed' = TRUE /\ project' = project
              \/ /\ spec # Unparsable
                 /\ flawed' = (flawed \/ spec.id \in Pipelines) /\ project' = Added(spec)
        BY DEF ReadSpec
      <3>3. spec \in Specs \cup {Unparsable}
        BY <1>2, <3>1, GraphConstants
      <3>4. QED
        BY <2>1, <2>2, <3>2, <3>3
  <1>4. GraphTypeOK'
    BY <1>1, <1>3 DEF GraphTypeOK, OrderStands, Ordering
  <1>5. OrderStands'
    BY <1>1 DEF OrderStands, Ordering, OrderKnown
  <1>6. SelectionStands'
    BY <1>1 DEF SelectionStands, OrderStands, Ordering
  <1>7. QED
    BY <1>4, <1>5, <1>6

(* What the passes of execution_order build does not depend on what reads   *)
(* it afterwards.                                                           *)
LEMMA OrderFrame ==
  ASSUME GraphInv, Ordering, Ordering', UNCHANGED <<project, remaining, done, ordered>>
  PROVE  (/\ ~ProducedTwice
          /\ OrderSplits /\ OrderOnce /\ OrderRespectsInputs /\ TangleRemains)'
  <1>1. ~ProducedTwice /\ OrderSplits /\ OrderOnce /\ OrderRespectsInputs /\ TangleRemains
    BY DEF GraphInv, OrderStands
  <1>2. ProducedTwice' = ProducedTwice
    BY DEF ProducedTwice, Pipelines, OutputOf
  <1>3. OrderSplits'
    BY <1>1 DEF OrderSplits, InOrder, Pipelines, OutputOf
  <1>4. OrderOnce' /\ OrderRespectsInputs'
    BY <1>1 DEF OrderOnce, OrderRespectsInputs, Before, Pipelines, OutputOf, InputsOf
  <1>5. TangleRemains'
    BY <1>1 DEF TangleRemains, Tangle, InOrder, Pipelines, OutputOf, InputsOf
  <1>6. QED
    BY <1>1, <1>2, <1>3, <1>4, <1>5

(* Validation starts the order with every pipeline remaining.               *)
LEMMA ValidateStep ==
  ASSUME GraphInv, Validate
  PROVE  GraphInv'
  <1>1. /\ phase = "loading"
        /\ UNCHANGED <<unread, project, flawed, wanted, selected>>
    BY DEF Validate, selectLocals
  <1>2. wanted = {} /\ selected = {} /\ ordered = <<>> /\ remaining = {} /\ ready = {}
    BY <1>1 DEF GraphInv, OrderStands, Ordering
  <1>3. CASE ValidProject
    <2>1. /\ phase' = "passes" /\ remaining' = Pipelines
          /\ done' = {} /\ ready' = {} /\ ordered' = <<>>
      BY <1>3 DEF Validate
    <2>2. Pipelines' = Pipelines
      BY <1>1 DEF Pipelines
    <2>3. ordered' \in Seq(Pipelines)
      BY <2>1
    <2>4. GraphTypeOK'
      BY <1>1, <1>2, <2>1, <2>2, <2>3 DEF GraphInv, GraphTypeOK
    <2>5. InOrder' = {}
      BY <2>1 DEF InOrder
    <2>6. ~ProducedTwice'
      BY <1>1, <1>3 DEF ValidProject, ProducedTwice, Pipelines, OutputOf
    <2>7. OrderSplits' /\ TangleRemains'
      BY <2>1, <2>2, <2>5 DEF OrderSplits, TangleRemains
    <2>8. OrderOnce' /\ OrderRespectsInputs'
      BY <2>1 DEF OrderOnce, OrderRespectsInputs
    <2>9. OrderStands'
      BY <2>1, <2>6, <2>7, <2>8 DEF OrderStands, Ordering, OrderKnown
    <2>10. SelectionStands'
      BY <1>1, <1>2, <2>1 DEF SelectionStands
    <2>11. QED
      BY <2>4, <2>9, <2>10 DEF GraphInv
  <1>4. CASE ~ValidProject
    <2>1. phase' = "refused" /\ UNCHANGED <<remaining, done, ready, ordered>>
      BY <1>4 DEF Validate, orderLocals
    <2>2. Pipelines' = Pipelines
      BY <1>1 DEF Pipelines
    <2>3. GraphTypeOK'
      BY <1>1, <2>1, <2>2 DEF GraphInv, GraphTypeOK
    <2>4. OrderStands' /\ SelectionStands'
      BY <1>1, <1>2, <2>1 DEF OrderStands, SelectionStands, Ordering, OrderKnown
    <2>5. QED
      BY <2>3, <2>4 DEF GraphInv
  <1>5. QED
    BY <1>3, <1>4

(* A pass finds what waits for nothing, or a tangle: whatever a pipeline    *)
(* that is not ready waits for is made by one that remains.                 *)
LEMMA LookStep ==
  ASSUME GraphInv, LookForReady
  PROVE  GraphInv'
  <1>1. /\ phase = "passes" /\ ready' = Ready
        /\ phase' = IF remaining = {} THEN "listed" ELSE IF Ready = {} THEN "stuck" ELSE "taking"
        /\ UNCHANGED <<unread, project, flawed, remaining, done, ordered, wanted, selected>>
    BY DEF LookForReady, selectLocals
  <1>2. phase' \in {"listed", "stuck", "taking"}
    BY <1>1
  <1>3. Ordering /\ Ordering'
    BY <1>1, <1>2 DEF Ordering
  <1>4. Pipelines' = Pipelines /\ Ready \subseteq remaining
    BY <1>1 DEF Pipelines, Ready
  <1>5. GraphTypeOK'
    BY <1>1, <1>2, <1>4 DEF GraphInv, GraphTypeOK
  <1>6. ASSUME phase' = "stuck" PROVE Tangle(remaining)'
    <2>1. remaining # {} /\ Ready = {}
      BY <1>1, <1>6
    <2>2. ASSUME NEW p \in remaining PROVE \E q \in remaining : OutputOf(q) \in InputsOf(p)
      <3>1. PICK d \in InputsOf(p) \cap Produced : d \notin done
        BY <2>1 DEF Ready
      <3>2. PICK q \in Pipelines : d = OutputOf(q)
        BY <3>1 DEF Produced
      <3>3. q \notin InOrder
        BY <1>3, <3>1, <3>2 DEF GraphInv, OrderStands, OrderSplits
      <3>4. q \in remaining
        BY <1>3, <3>3 DEF GraphInv, OrderStands, OrderSplits
      <3>5. QED
        BY <3>1, <3>2, <3>4
    <2>3. QED
      BY <1>1, <2>1, <2>2 DEF Tangle, OutputOf, InputsOf
  <1>7. ASSUME phase' = "taking"
        PROVE  (ready # {} /\ \A p \in ready : InputsOf(p) \cap Produced \subseteq done)'
    <2>1. Ready # {}
      BY <1>1, <1>7
    <2>2. QED
      BY <1>1, <2>1 DEF Ready, InputsOf, Produced, Pipelines, OutputOf
  <1>8. OrderStands'
    <2>1. (/\ ~ProducedTwice
           /\ OrderSplits /\ OrderOnce /\ OrderRespectsInputs /\ TangleRemains)'
      BY <1>1, <1>3, OrderFrame
    <2>2. OrderKnown' => remaining' = {}
      BY <1>1 DEF OrderKnown
    <2>3. QED
      BY <1>3, <1>6, <1>7, <2>1, <2>2 DEF OrderStands
  <1>9. SelectionStands'
    BY <1>1, <1>2 DEF GraphInv, SelectionStands, Covers, ClosedDownstream, ReadersOf,
                      Pipelines, OutputOf, InputsOf
  <1>10. QED
    BY <1>5, <1>8, <1>9 DEF GraphInv

(* What is taken reads only what is done, and what is done was made by what *)
(* is in the order: no two pipelines make the same table.                   *)
LEMMA TakeStep ==
  ASSUME GraphInv, TakeReady
  PROVE  GraphInv'
  <1>1. PICK p : /\ p = Least(ready)
                 /\ remaining' = remaining \ {p} /\ ready' = ready \ {p}
                 /\ done' = done \cup {OutputOf(p)} /\ ordered' = Append(ordered, p)
                 /\ phase' = IF ready = {p} THEN "passes" ELSE "taking"
    BY DEF TakeReady
  <1>2. phase = "taking" /\ UNCHANGED <<unread, project, flawed, wanted, selected>>
    BY DEF TakeReady, selectLocals
  <1>3. /\ ready # {} /\ \A r \in ready : InputsOf(r) \cap Produced \subseteq done
        /\ ~ProducedTwice /\ OrderSplits /\ OrderOnce /\ OrderRespectsInputs /\ TangleRemains
    BY <1>2 DEF GraphInv, OrderStands, Ordering
  <1>4. p \in ready
    <2>1. ready \in SUBSET Nat
      BY GraphConstants DEF GraphInv, GraphTypeOK
    <2>2. QED
      BY <1>1, <1>3, <2>1, LeastIsIn
  <1>5. p \in remaining /\ p \in Pipelines /\ ordered \in Seq(Pipelines)
    BY <1>4 DEF GraphInv, GraphTypeOK
  <1>6. p \notin InOrder
    BY <1>3, <1>5 DEF OrderSplits
  <1>7. Pipelines' = Pipelines /\ phase' \in {"passes", "taking"}
    BY <1>1, <1>2 DEF Pipelines
  <1>8. /\ ordered' \in Seq(Pipelines) /\ Len(ordered) \in Nat
        /\ DOMAIN ordered = 1..Len(ordered) /\ DOMAIN ordered' = 1..(Len(ordered) + 1)
        /\ \A i \in 1..Len(ordered) : ordered'[i] = ordered[i]
        /\ ordered'[Len(ordered) + 1] = p
    BY <1>1, <1>5
  <1>9. InOrder' = InOrder \cup {p}
    BY <1>8 DEF InOrder
  <1>10. GraphTypeOK'
    <2>1. OutputOf(p) \in DatasetIds
      BY <1>5 DEF GraphInv, GraphTypeOK, OutputOf, Specs
    <2>2. QED
      BY <1>1, <1>2, <1>7, <1>8, <2>1 DEF GraphInv, GraphTypeOK
  <1>11. OrderSplits'
    <2>1. done' = {OutputOf(q) : q \in InOrder \cup {p}}
      BY <1>1, <1>3 DEF OrderSplits
    <2>2. done' = {OutputOf(q) : q \in InOrder}'
      BY <1>2, <1>9, <2>1 DEF OutputOf
    <2>3. QED
      BY <1>1, <1>3, <1>5, <1>6, <1>7, <1>9, <2>2 DEF OrderSplits
  <1>12. OrderOnce'
    <2>1. \A i \in 1..Len(ordered) : ordered[i] # p
      BY <1>6, <1>8 DEF InOrder
    <2>2. QED
      BY <1>3, <1>8, <2>1 DEF OrderOnce
  <1>13. OrderRespectsInputs'
    <2> SUFFICES ASSUME NEW i \in 1..(Len(ordered) + 1), NEW q \in Pipelines,
                        OutputOf(q) \in InputsOf(ordered'[i])
                 PROVE  \E j \in 1..(i - 1) : ordered'[j] = q
      BY <1>2, <1>7, <1>8 DEF OrderRespectsInputs, Before, OutputOf, InputsOf
    <2>1. CASE i \in 1..Len(ordered)
      <3>1. PICK j \in 1..(i - 1) : ordered[j] = q
        BY <1>3, <1>8, <2>1 DEF OrderRespectsInputs, Before
      <3>2. j \in 1..Len(ordered)
        BY <1>8, <2>1
      <3>3. QED
        BY <1>8, <3>1, <3>2
    <2>2. CASE i = Len(ordered) + 1
      <3>1. OutputOf(q) \in InputsOf(p) /\ OutputOf(q) \in Produced
        BY <1>8, <2>2 DEF Produced
      <3>2. OutputOf(q) \in done
        BY <1>3, <1>4, <3>1
      <3>3. PICK r \in InOrder : OutputOf(r) = OutputOf(q)
        BY <1>3, <3>2 DEF OrderSplits
      <3>4. q = r
        BY <1>3, <3>3 DEF OrderSplits, ProducedTwice
      <3>5. PICK j \in 1..Len(ordered) : ordered[j] = q
        BY <1>8, <3>3, <3>4 DEF InOrder
      <3>6. j \in 1..(i - 1)
        BY <1>8, <2>2, <3>5
      <3>7. QED
        BY <1>8, <3>5, <3>6
    <2>3. QED
      BY <1>8, <2>1, <2>2
  <1>14. TangleRemains'
    <2> SUFFICES ASSUME NEW C \in SUBSET Pipelines, Tangle(C)
                 PROVE  C \cap (InOrder \cup {p}) = {}
      BY <1>2, <1>7, <1>9 DEF TangleRemains, Tangle, OutputOf, InputsOf
    <2>1. C \cap InOrder = {}
      BY <1>3 DEF TangleRemains
    <2>2. ASSUME p \in C PROVE FALSE
      <3>1. PICK q \in C : OutputOf(q) \in InputsOf(p)
        BY <2>2 DEF Tangle
      <3>2. OutputOf(q) \in done
        BY <1>3, <1>4, <3>1 DEF Produced
      <3>3. PICK r \in InOrder : OutputOf(r) = OutputOf(q)
        BY <1>3, <3>2 DEF OrderSplits
      <3>4. q = r
        BY <1>3, <3>3 DEF OrderSplits, ProducedTwice
      <3>5. QED
        BY <2>1, <3>3, <3>4
    <2>3. QED
      BY <2>1, <2>2
  <1>15. OrderStands'
    <2>1. ~ProducedTwice'
      BY <1>2, <1>3 DEF ProducedTwice, Pipelines, OutputOf
    <2>2. phase' = "taking"
            => (ready # {} /\ \A r \in ready : InputsOf(r) \cap Produced \subseteq done)'
      <3> SUFFICES ASSUME phase' = "taking"
                   PROVE  (ready # {} /\ \A r \in ready : InputsOf(r) \cap Produced \subseteq done)'
        OBVIOUS
      <3>1. ready' # {}
        BY <1>1, <1>4
      <3>2. \A r \in ready' : InputsOf(r) \cap Produced \subseteq done'
        BY <1>1, <1>3
      <3>3. QED
        BY <1>2, <3>1, <3>2 DEF InputsOf, Produced, Pipelines, OutputOf
    <2>3. QED
      BY <1>7, <1>11, <1>12, <1>13, <1>14, <2>1, <2>2 DEF OrderStands, Ordering, OrderKnown
  <1>16. SelectionStands'
    BY <1>2, <1>7 DEF GraphInv, SelectionStands, Covers, ClosedDownstream, ReadersOf,
                      Pipelines, OutputOf, InputsOf
  <1>17. QED
    BY <1>10, <1>15, <1>16 DEF GraphInv

(* A run starts from the pipelines it is asked for, whichever they are.     *)
LEMMA SelectStep ==
  ASSUME GraphInv, SelectPipelines
  PROVE  GraphInv'
  <1>1. PICK from \in (SUBSET Pipelines) \ {{}} : wanted' = from /\ selected' = from
    BY DEF SelectPipelines
  <1>2. /\ phase = "listed" /\ phase' = "growing"
        /\ UNCHANGED <<unread, project, flawed, remaining, done, ready, ordered>>
    BY DEF SelectPipelines, orderLocals
  <1>3. Ordering /\ Ordering' /\ OrderKnown
    BY <1>2 DEF Ordering, OrderKnown
  <1>4. GraphTypeOK'
    BY <1>1, <1>2 DEF GraphInv, GraphTypeOK, Pipelines
  <1>5. OrderStands'
    <2>1. (/\ ~ProducedTwice
           /\ OrderSplits /\ OrderOnce /\ OrderRespectsInputs /\ TangleRemains)'
      BY <1>2, <1>3, OrderFrame
    <2>2. remaining' = {}
      BY <1>2, <1>3 DEF GraphInv, OrderStands
    <2>3. QED
      BY <1>2, <1>3, <2>1, <2>2 DEF OrderStands
  <1>6. SelectionStands'
    BY <1>1, <1>2 DEF SelectionStands, Covers
  <1>7. QED
    BY <1>4, <1>5, <1>6 DEF GraphInv

(* The selection grows inside every closed set that covers what was asked.  *)
LEMMA GrowStep ==
  ASSUME GraphInv, Grow
  PROVE  GraphInv'
  <1>1. /\ phase = "growing" /\ phase' \in {"planned", "growing"}
        /\ phase' = "planned" => ReadersOf(selected) \subseteq selected
        /\ selected' = selected \cup ReadersOf(selected)
        /\ UNCHANGED <<unread, project, flawed, remaining, done, ready, ordered, wanted>>
    BY DEF Grow, orderLocals
  <1>2. Ordering /\ Ordering' /\ OrderKnown
    BY <1>1 DEF Ordering, OrderKnown
  <1>3. GraphTypeOK'
    BY <1>1 DEF GraphInv, GraphTypeOK, Pipelines, ReadersOf
  <1>4. OrderStands'
    <2>1. (/\ ~ProducedTwice
           /\ OrderSplits /\ OrderOnce /\ OrderRespectsInputs /\ TangleRemains)'
      BY <1>1, <1>2, OrderFrame
    <2>2. remaining' = {}
      BY <1>1, <1>2 DEF GraphInv, OrderStands
    <2>3. QED
      BY <1>1, <1>2, <2>1, <2>2 DEF OrderStands
  <1>5. \A S : ReadersOf(S)' = ReadersOf(S)
    BY <1>1 DEF ReadersOf, Pipelines, OutputOf, InputsOf
  <1>6. ASSUME NEW S \in SUBSET Pipelines, wanted \subseteq S, ReadersOf(S) \subseteq S
        PROVE  selected' \subseteq S
    <2>1. selected \subseteq S
      BY <1>6 DEF GraphInv, SelectionStands, Covers, ClosedDownstream
    <2>2. ReadersOf(selected) \subseteq ReadersOf(S)
      BY <2>1 DEF ReadersOf
    <2>3. QED
      BY <1>1, <1>6, <2>1, <2>2
  <1>7. SelectionStands'
    <2>1. phase' = "planned" => ReadersOf(selected)' \subseteq selected'
      <3> SUFFICES ASSUME phase' = "planned" PROVE ReadersOf(selected)' \subseteq selected'
        OBVIOUS
      <3>1. selected' = selected
        BY <1>1
      <3>2. QED
        BY <1>1, <3>1 DEF ReadersOf, Pipelines, OutputOf, InputsOf
    <2>2. \A S \in SUBSET Pipelines' :
            wanted' \subseteq S /\ ReadersOf(S)' \subseteq S => selected' \subseteq S
      BY <1>1, <1>5, <1>6 DEF Pipelines
    <2>3. QED
      BY <2>1, <2>2 DEF SelectionStands, Covers, ClosedDownstream
  <1>8. QED
    BY <1>3, <1>4, <1>7 DEF GraphInv

(* The invariant holds in every state of every project.                     *)
LEMMA GraphInvariant == GraphSpec => []GraphInv
  <1>1. GraphInv /\ [GraphNext]_graphVars => GraphInv'
    <2> SUFFICES ASSUME GraphInv, [GraphNext]_graphVars PROVE GraphInv'
      OBVIOUS
    <2>1. CASE GraphNext
      BY <2>1, LoadingStep, ValidateStep, LookStep, TakeStep, SelectStep, GrowStep DEF GraphNext
    <2>2. CASE UNCHANGED graphVars
      <3>1. UNCHANGED <<unread, project, flawed, phase, remaining, done, ready, ordered,
                        wanted, selected>>
        BY <2>2 DEF graphVars
      <3>2. GraphTypeOK'
        BY <3>1 DEF GraphInv, GraphTypeOK, Pipelines
      <3>3. (Ordering =>
               /\ ~ProducedTwice
               /\ OrderSplits /\ OrderOnce /\ OrderRespectsInputs /\ TangleRemains)'
        BY <3>1, OrderFrame DEF Ordering
      <3>4. (phase = "taking" => ready # {} /\ \A p \in ready : InputsOf(p) \cap Produced \subseteq done)'
        BY <3>1 DEF GraphInv, OrderStands, InputsOf, Produced, Pipelines, OutputOf
      <3>5. (phase = "stuck" => Tangle(remaining))'
        BY <3>1 DEF GraphInv, OrderStands, Tangle, InputsOf, OutputOf
      <3>6. OrderStands'
        BY <3>1, <3>3, <3>4, <3>5 DEF GraphInv, OrderStands, Ordering, OrderKnown
      <3>7. SelectionStands'
        BY <3>1 DEF GraphInv, SelectionStands, Covers, ClosedDownstream, ReadersOf,
                    Pipelines, OutputOf, InputsOf
      <3>8. QED
        BY <3>2, <3>6, <3>7 DEF GraphInv
    <2>3. QED
      BY <2>1, <2>2
  <1>2. QED
    BY <1>1, GraphInitInv, PTL DEF GraphSpec

(* execution_order: once it has an order, every pipeline is in it exactly   *)
(* once and after everything it reads, and there is no cycle; when it       *)
(* reports a cycle, the pipelines it names wait for one another.            *)
THEOREM OrdersAreTopological == GraphSpec => [](GraphTypeOK /\ OrderIsTopological)
  <1>1. GraphInv => GraphTypeOK /\ OrderIsTopological
    <2> SUFFICES ASSUME GraphInv PROVE OrderIsTopological
      BY DEF GraphInv
    <2>1. phase = "stuck" => Tangle(remaining)
      BY DEF GraphInv, OrderStands
    <2>2. CASE ~OrderKnown
      BY <2>1, <2>2 DEF OrderIsTopological
    <2>3. CASE OrderKnown
      <3>1. OrderSplits /\ OrderOnce /\ OrderRespectsInputs /\ TangleRemains /\ remaining = {}
        BY <2>3 DEF GraphInv, OrderStands, OrderKnown, Ordering
      <3>2. InOrder = Pipelines
        BY <3>1 DEF OrderSplits
      <3>3. \A C \in SUBSET Pipelines : ~Tangle(C)
        BY <3>1, <3>2 DEF TangleRemains, Tangle
      <3>4. QED
        BY <2>1, <3>1, <3>2, <3>3 DEF OrderIsTopological, OrderOnce, OrderRespectsInputs, Before
    <2>4. QED
      BY <2>2, <2>3
  <1>2. QED
    BY <1>1, GraphInvariant, PTL

(* downstream_of: a partial run rebuilds what it was asked for and what     *)
(* reads it, directly or through others, and nothing else.                  *)
THEOREM SelectionsAreLeast == GraphSpec => []SelectionIsLeast
  <1>1. GraphInv => SelectionIsLeast
    BY DEF GraphInv, GraphTypeOK, SelectionStands, SelectionIsLeast, Covers
  <1>2. QED
    BY <1>1, GraphInvariant, PTL

-----------------------------------------------------------------------------
(* The gates of build_candidate. What the verdict is to say: the contract   *)
(* is met, every check passes and every reconciliation gives two scalars    *)
(* that agree.                                                              *)
CheckFails(upTo) == \E i \in 1..upTo : ~Passes(ChecksToRun[i])
Unreconciled(r) == ~(OneScalarEach(r) /\ Reconciles(r))
Sound ==
  /\ ~ContractErrors
  /\ ~CheckFails(Len(ChecksToRun))
  /\ \A i \in DOMAIN candidate.reconciliations : ~Unreconciled(candidate.reconciliations[i])

(* What is known of the candidate at each gate: failures names just the     *)
(* kinds of what has failed so far.                                         *)
GatesInv ==
  LET recs == candidate.reconciliations IN
  /\ GatesTypeOK
  /\ gate # "none" => candidate \in Builds
  /\ gate \in {"none", "contract"} => failures = {} /\ position = 0
  /\ gate = "checks" =>
       /\ ~ContractErrors /\ position \in 0..Len(ChecksToRun)
       /\ failures = IF CheckFails(position) THEN {"checks"} ELSE {}
  /\ gate = "reconciliations" =>
       /\ ~ContractErrors /\ position \in 0..Len(recs)
       /\ "checks" \in failures <=> CheckFails(Len(ChecksToRun))
       /\ "reconciliations" \in failures <=> \E i \in 1..position : Unreconciled(recs[i])
       /\ "contract" \notin failures
  /\ gate = "built" => (failures = {} <=> Sound)
  /\ gate = "raised" => ~Sound

(* The types of what reaches the gates.                                     *)
LEMMA BuildHasChecks ==
  ASSUME candidate \in Builds
  PROVE  /\ candidate.checks \in Seq(Checks) /\ candidate.reconciliations \in Seq(Reconciliations)
         /\ candidate.table \in Seq([Columns -> Values]) /\ candidate.required \subseteq Columns
         /\ Len(ChecksToRun) \in Nat /\ Len(candidate.reconciliations) \in Nat
         /\ \A i \in DOMAIN candidate.checks :
              \E j \in 1..Len(ChecksToRun) : ChecksToRun[j] = candidate.checks[i]
         /\ \A j \in 1..Len(ChecksToRun) :
              \/ candidate.required # {} /\ ChecksToRun[j] = RequiredCheck
              \/ \E i \in DOMAIN candidate.checks : ChecksToRun[j] = candidate.checks[i]
         /\ candidate.required # {} =>
              1 \in 1..Len(ChecksToRun) /\ ChecksToRun[1] = RequiredCheck
  <1>1. candidate \in BuildType
    BY GateConstants
  <1>2. /\ candidate.checks \in Seq(Checks) /\ candidate.reconciliations \in Seq(Reconciliations)
        /\ candidate.table \in Seq([Columns -> Values]) /\ candidate.required \subseteq Columns
    BY <1>1 DEF BuildType
  <1>3. Len(candidate.checks) \in Nat /\ Len(candidate.reconciliations) \in Nat
        /\ DOMAIN candidate.checks = 1..Len(candidate.checks)
    BY <1>2
  <1>4. CASE candidate.required = {}
    <2>1. ChecksToRun = candidate.checks
      BY <1>4 DEF ChecksToRun
    <2>2. QED
      BY <1>2, <1>3, <1>4, <2>1
  <1>5. CASE candidate.required # {}
    <2> DEFINE cs == candidate.checks
               n == Len(cs)
               R == RequiredCheck
               run == <<R>> \o cs
    <2>1. ChecksToRun = run
      BY <1>5 DEF ChecksToRun
    <2>2. cs \in Seq(Checks \cup {R}) /\ <<R>> \in Seq(Checks \cup {R})
      BY <1>2
    <2> HIDE DEF cs, R
    <2>3. /\ Len(run) = n + 1 /\ run[1] = R
          /\ \A i \in 1..n : run[i + 1] = cs[i]
          /\ \A j \in 1..(n + 1) : j = 1 \/ (j - 1 \in 1..n /\ run[j] = cs[j - 1])
      BY <2>2
    <2>4. n \in Nat /\ DOMAIN cs = 1..n
      BY <2>2
    <2> HIDE DEF run, n
    <2>5. \A i \in DOMAIN cs : \E j \in 1..Len(run) : run[j] = cs[i]
      BY <2>3, <2>4
    <2>6. \A j \in 1..Len(run) : run[j] = R \/ \E i \in DOMAIN cs : run[j] = cs[i]
      BY <2>3, <2>4
    <2>7. QED
      BY <1>2, <1>3, <1>5, <2>1, <2>3, <2>4, <2>5, <2>6 DEF cs, R
  <1>6. QED
    BY <1>4, <1>5

(* What is said of a candidate holds as long as the candidate is the same.  *)
LEMMA CandidateFrame ==
  ASSUME candidate' = candidate
  PROVE  /\ ContractErrors' = ContractErrors /\ ChecksToRun' = ChecksToRun
         /\ \A c : Passes(c)' = Passes(c)
         /\ \A n : CheckFails(n)' = CheckFails(n)
         /\ Sound' = Sound
  <1>1. /\ ContractErrors' = ContractErrors /\ ChecksToRun' = ChecksToRun
        /\ \A c : Passes(c)' = Passes(c)
    BY DEF ContractErrors, ChecksToRun, RequiredCheck, Passes, Rows, Cell, Key, Duplicates,
           RowCountIn
  <1>2. \A n : CheckFails(n)' = CheckFails(n)
    BY <1>1 DEF CheckFails
  <1>3. QED
    BY <1>1, <1>2 DEF Sound

(* A gate adds its kind to the failures just when what it looks at fails.   *)
LEMMA GatesStep == GatesInv /\ [GatesNext]_gateVars => GatesInv'
  <1> SUFFICES ASSUME GatesInv, [GatesNext]_gateVars PROVE GatesInv'
    OBVIOUS
  <1> DEFINE recs == candidate.reconciliations
  <1>1. CASE CreateCandidate
    BY <1>1 DEF CreateCandidate, GatesInv, GatesTypeOK
  <1>2. CASE CompareContract
    <2>1. candidate' = candidate /\ position' = position /\ candidate \in Builds
          /\ failures = {} /\ position = 0 /\ gate = "contract"
      BY <1>2 DEF CompareContract, GatesInv
    <2>2. CASE ContractErrors
      BY <1>2, <2>1, <2>2, CandidateFrame DEF CompareContract, GatesInv, GatesTypeOK, Sound
    <2>3. CASE ~ContractErrors
      <3>1. failures' = {} /\ gate' = "checks"
        BY <1>2, <2>1, <2>3 DEF CompareContract
      <3>2. ~CheckFails(0)
        BY DEF CheckFails
      <3>3. position' \in 0..Len(ChecksToRun)
        BY <2>1, BuildHasChecks
      <3>4. QED
        BY <2>1, <2>3, <3>1, <3>2, <3>3, CandidateFrame DEF GatesInv, GatesTypeOK
    <2>4. QED
      BY <2>2, <2>3
  <1>3. CASE RunCheck
    <2> DEFINE n == Len(ChecksToRun)
    <2>1. /\ gate = "checks" /\ candidate' = candidate /\ candidate \in Builds
          /\ ~ContractErrors /\ position \in 0..n
          /\ failures = IF CheckFails(position) THEN {"checks"} ELSE {}
      BY <1>3 DEF RunCheck, GatesInv
    <2>2. n \in Nat /\ Len(recs) \in Nat
      BY <2>1, BuildHasChecks
    <2>3. CASE position < n
      <3>1. /\ position' = position + 1 /\ gate' = gate
            /\ failures' = IF Passes(ChecksToRun[position + 1]) THEN failures
                           ELSE failures \cup {"checks"}
        BY <1>3, <2>3 DEF RunCheck
      <3>2. position + 1 \in 0..n /\ 1..(position + 1) = 1..position \cup {position + 1}
        BY <2>1, <2>2, <2>3
      <3>3. CheckFails(position + 1) <=>
              CheckFails(position) \/ ~Passes(ChecksToRun[position + 1])
        BY <3>2 DEF CheckFails
      <3>4. failures' = IF CheckFails(position + 1) THEN {"checks"} ELSE {}
        BY <2>1, <3>1, <3>3
      <3>5. position' \in Nat
        BY <2>1, <3>1
      <3>6. /\ ~ContractErrors' /\ position' \in 0..n /\ ChecksToRun' = ChecksToRun
            /\ failures' = IF CheckFails(position)' THEN {"checks"} ELSE {}
        <4>1. CheckFails(position)' <=> CheckFails(position + 1)
          BY <2>1, <3>1, CandidateFrame DEF CheckFails
        <4>2. ~ContractErrors' /\ ChecksToRun' = ChecksToRun
          BY <2>1, CandidateFrame
        <4>3. position' \in 0..n
          BY <3>1, <3>2
        <4>4. QED
          BY <3>4, <4>1, <4>2, <4>3
      <3>7. /\ gate' = "checks" /\ candidate' = candidate
            /\ failures' \subseteq {"contract", "checks", "reconciliations"}
        BY <2>1, <3>1, <3>4
      <3>8. QED
        BY <2>1, <3>5, <3>6, <3>7 DEF GatesInv, GatesTypeOK
    <2>4. CASE ~(position < n)
      <3>1. gate' = "reconciliations" /\ position' = 0 /\ failures' = failures
        BY <1>3, <2>4 DEF RunCheck
      <3>2. position = n
        BY <2>1, <2>2, <2>4
      <3>3. /\ "checks" \in failures <=> CheckFails(n)
            /\ "reconciliations" \notin failures /\ "contract" \notin failures
        BY <2>1, <3>2
      <3>4. 0 \in 0..Len(recs)
        BY <2>2
      <3>5. QED
        BY <2>1, <3>1, <3>3, <3>4, CandidateFrame DEF GatesInv, GatesTypeOK
    <2>5. QED
      BY <2>3, <2>4
  <1>4. CASE RunReconciliation
    <2> DEFINE n == Len(ChecksToRun)
               m == Len(recs)
    <2>1. /\ gate = "reconciliations" /\ candidate' = candidate /\ candidate \in Builds
          /\ ~ContractErrors /\ position \in 0..m
          /\ "checks" \in failures <=> CheckFails(n)
          /\ "reconciliations" \in failures <=> \E i \in 1..position : Unreconciled(recs[i])
          /\ "contract" \notin failures /\ failures \subseteq {"contract", "checks", "reconciliations"}
      BY <1>4 DEF RunReconciliation, GatesInv, GatesTypeOK
    <2>2. m \in Nat /\ DOMAIN recs = 1..m
      BY <2>1, BuildHasChecks
    <2>3. CASE position = m
      <3>1. gate' = "built" /\ position' = position /\ failures' = failures
        BY <1>4, <2>3 DEF RunReconciliation
      <3>2. failures = {} <=> "checks" \notin failures /\ "reconciliations" \notin failures
        BY <2>1
      <3>3. failures = {} <=> Sound
        BY <2>1, <2>2, <2>3, <3>2 DEF Sound
      <3>4. QED
        BY <2>1, <3>1, <3>3, CandidateFrame DEF GatesInv, GatesTypeOK
    <2>4. CASE position # m
      <3> DEFINE r == recs[position + 1]
      <3>1. /\ gate' = IF OneScalarEach(r) THEN "reconciliations" ELSE "raised"
            /\ position' = position + 1
            /\ failures' = IF ~Unreconciled(r) THEN failures ELSE failures \cup {"reconciliations"}
        BY <1>4, <2>4 DEF RunReconciliation, Unreconciled
      <3>2. /\ position + 1 \in 0..m /\ position + 1 \in 1..m
            /\ 1..(position + 1) = 1..position \cup {position + 1}
        BY <2>1, <2>2, <2>4
      <3>3. /\ "checks" \in failures' <=> CheckFails(n)
            /\ "contract" \notin failures' /\ failures' \subseteq {"contract", "checks", "reconciliations"}
        BY <2>1, <3>1
      <3>4. "reconciliations" \in failures' <=> \E i \in 1..position' : Unreconciled(recs[i])
        BY <2>1, <3>1, <3>2
      <3>5. ~OneScalarEach(r) => ~Sound
        BY <2>2, <3>2 DEF Sound, Unreconciled
      <3>6. position' \in Nat
        BY <2>1, <3>1
      <3>7. QED
        BY <2>1, <3>1, <3>2, <3>3, <3>4, <3>5, <3>6, CandidateFrame DEF GatesInv, GatesTypeOK
    <2>5. QED
      BY <2>3, <2>4
  <1>5. CASE UNCHANGED gateVars
    BY <1>5, CandidateFrame DEF gateVars, GatesInv, GatesTypeOK
  <1>6. QED
    BY <1>1, <1>2, <1>3, <1>4, <1>5 DEF GatesNext

(* So failures says what has failed, at every gate.                         *)
LEMMA GatesInvariant == GatesSpec => []GatesInv
  <1>1. GatesInit => GatesInv
    BY DEF GatesInit, GatesInv, GatesTypeOK
  <1>2. QED
    BY <1>1, GatesStep, PTL DEF GatesSpec

(* The checks of a type look at the same cells in both worlds, but for the  *)
(* null keys that dbt leaves out.                                           *)
LEMMA ChecksAgree ==
  ASSUME NEW c \in Checks
  PROVE  /\ Passes(c) => TestAccepts(c)
         /\ TestAccepts(c) /\ ~Passes(c) =>
              c.check = "unique" /\ Cardinality(c.columns) = 1 /\ Duplicates(c.columns)
  <1>1. CASE c.check = "unique"
    <2>1. Passes(c) = ~Duplicates(c.columns)
      BY <1>1 DEF Passes
    <2>2. TestAccepts(c) = ~DuplicatesInDbt(c.columns)
      BY <1>1 DEF TestAccepts
    <2>3. DuplicatesInDbt(c.columns) => Duplicates(c.columns)
      BY DEF DuplicatesInDbt, Duplicates
    <2>4. Duplicates(c.columns) /\ Cardinality(c.columns) # 1 => DuplicatesInDbt(c.columns)
      BY DEF DuplicatesInDbt, Duplicates
    <2>5. QED
      BY <1>1, <2>1, <2>2, <2>3, <2>4
  <1>2. CASE c.check # "unique"
    BY <1>2 DEF TestAccepts
  <1>3. QED
    BY <1>1, <1>2

(* Two scalars that are there agree in both worlds or in neither.           *)
LEMMA ReconciliationsAgree ==
  ASSUME NEW r \in Reconciliations
  PROVE  /\ ~Unreconciled(r) => SingularTestAccepts(r)
         /\ SingularTestAccepts(r) /\ Unreconciled(r) =>
              "none" \in {r.expected.rows, r.actual.rows}
  <1> DEFINE e == r.expected.value
             a == r.actual.value
  <1>1. /\ r.expected.rows \in {"none", "one", "many"} /\ r.actual.rows \in {"none", "one", "many"}
        /\ r.tolerance \in 0..9
    BY DEF Reconciliations, Scalars, Numbers
  <1>2. Distance(0, 0) <= r.tolerance
    BY <1>1 DEF Distance
  <1>3. ASSUME OneScalarEach(r) PROVE SingularTestAccepts(r) <=> Reconciles(r)
    <2>1. ScalarOf(r.expected) = e /\ ScalarOf(r.actual) = a
      BY <1>3 DEF OneScalarEach, ScalarOf
    <2>2. r.expected.rows # "many" /\ r.actual.rows # "many"
      BY <1>3 DEF OneScalarEach
    <2>3. SingularTestAccepts(r) <=>
            NotFinite \notin {e, a} /\ Distance(OrZero(e), OrZero(a)) <= r.tolerance
            /\ (e = Null) = (a = Null)
      BY <2>1, <2>2 DEF SingularTestAccepts
    <2>4. CASE Null \in {e, a}
      <3>1. Reconciles(r) <=> NotFinite \notin {e, a} /\ e = a
        BY <2>4 DEF Reconciles
      <3>2. e = Null /\ a = Null => Distance(OrZero(e), OrZero(a)) <= r.tolerance
        BY <1>2 DEF OrZero
      <3>3. QED
        BY <2>3, <2>4, <3>1, <3>2
    <2>5. CASE Null \notin {e, a}
      <3>1. Reconciles(r) <=> NotFinite \notin {e, a} /\ Distance(e, a) <= r.tolerance
        BY <2>5 DEF Reconciles
      <3>2. OrZero(e) = e /\ OrZero(a) = a /\ (e = Null) = (a = Null)
        BY <2>5 DEF OrZero
      <3>3. QED
        BY <2>3, <3>1, <3>2
    <2>6. QED
      BY <2>4, <2>5
  <1>4. SingularTestAccepts(r) => r.expected.rows # "many" /\ r.actual.rows # "many"
    BY DEF SingularTestAccepts
  <1>5. QED
    BY <1>1, <1>3, <1>4 DEF Unreconciled, OneScalarEach

(* What the verdict stands for, against what dbt would say.                 *)
LEMMA SoundAndDbt ==
  ASSUME candidate \in Builds
  PROVE  /\ Sound => DbtAccepts
         /\ DbtAccepts /\ ~Sound => NullKeys \/ EmptyScalar
  <1> DEFINE recs == candidate.reconciliations
             checks == candidate.checks
             n == Len(ChecksToRun)
  <1>1. /\ \A i \in DOMAIN checks : checks[i] \in Checks
        /\ \A i \in DOMAIN recs : recs[i] \in Reconciliations
    <2>1. checks \in Seq(Checks) /\ recs \in Seq(Reconciliations)
      BY BuildHasChecks
    <2> HIDE DEF checks, recs
    <2>2. QED
      BY <2>1
  <1>2. Passes(RequiredCheck) <=> \A column \in candidate.required, r \in Rows : Cell(r, column) # Null
    BY DEF Passes, RequiredCheck
  <1>3. ASSUME Sound PROVE DbtAccepts
    <2>1. ~ContractErrors /\ \A j \in 1..n : Passes(ChecksToRun[j])
      BY <1>3 DEF Sound, CheckFails
    <2>2. \A column \in candidate.required, r \in Rows : Cell(r, column) # Null
      <3>1. candidate.required # {} => Passes(RequiredCheck)
        BY <2>1, BuildHasChecks
      <3>2. QED
        BY <1>2, <3>1
    <2>3. \A i \in DOMAIN checks : TestAccepts(checks[i])
      <3>1. \A i \in DOMAIN checks : Passes(checks[i])
        BY <2>1, BuildHasChecks
      <3>2. QED
        BY <1>1, <3>1, ChecksAgree
    <2>4. \A i \in DOMAIN recs : SingularTestAccepts(recs[i])
      BY <1>1, <1>3, ReconciliationsAgree DEF Sound
    <2>5. QED
      BY <2>1, <2>2, <2>3, <2>4 DEF DbtAccepts
  <1>4. ASSUME DbtAccepts, ~Sound PROVE NullKeys \/ EmptyScalar
    <2>1. ~ContractErrors
      BY <1>4 DEF DbtAccepts
    <2>2. CASE CheckFails(n)
      <3>1. PICK j \in 1..n : ~Passes(ChecksToRun[j])
        BY <2>2 DEF CheckFails
      <3>2. Passes(RequiredCheck)
        BY <1>2, <1>4 DEF DbtAccepts
      <3>3. PICK i \in DOMAIN checks : ChecksToRun[j] = checks[i]
        BY <3>1, <3>2, BuildHasChecks
      <3>4. TestAccepts(checks[i]) /\ ~Passes(checks[i]) /\ checks[i] \in Checks
        BY <1>1, <1>4, <3>1, <3>3 DEF DbtAccepts
      <3>5. NullKeys
        BY <3>4, ChecksAgree DEF NullKeys
      <3>6. QED
        BY <3>5
    <2>3. CASE \E i \in DOMAIN recs : Unreconciled(recs[i])
      <3>1. PICK i \in DOMAIN recs : Unreconciled(recs[i])
        BY <2>3
      <3>2. SingularTestAccepts(recs[i]) /\ recs[i] \in Reconciliations
        BY <1>1, <1>4, <3>1 DEF DbtAccepts
      <3>3. EmptyScalar
        BY <3>1, <3>2, ReconciliationsAgree DEF EmptyScalar
      <3>4. QED
        BY <3>3
    <2>4. QED
      BY <1>4, <2>1, <2>2, <2>3 DEF Sound
  <1>5. QED
    BY <1>3, <1>4

(* Whatever the gates pass dbt's tests pass as well, and what they stop     *)
(* dbt passes only in the two cases that are named: for any table, any      *)
(* suite of checks and any reconciliations (execution.py beside dbt.py).    *)
THEOREM GatesCarryOver == GatesSpec => [](GatesTypeOK /\ GatesCarryOverButForNulls)
  <1>1. GatesInv => GatesTypeOK /\ GatesCarryOverButForNulls
    <2> SUFFICES ASSUME GatesInv, Decided
                 PROVE  /\ Passed => DbtAccepts
                        /\ DbtAccepts /\ ~Passed => NullKeys \/ EmptyScalar
      BY DEF GatesInv, GatesCarryOverButForNulls
    <2>1. candidate \in Builds /\ (Passed <=> Sound)
      BY DEF GatesInv, Decided, Passed
    <2>2. QED
      BY <2>1, SoundAndDbt
  <1>2. QED
    BY <1>1, GatesInvariant, PTL
=============================================================================
