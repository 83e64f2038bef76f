------------------------------- MODULE Reasoning -------------------------------
(***************************************************************************)
(* select_dataset: what discovery returns is assembled into a context with  *)
(* addressable evidence, a provider that is not trusted drafts a choice,    *)
(* and the draft is checked against the context or thrown away.             *)
(***************************************************************************)
EXTENDS Discovery

CONSTANTS
  Replies,      \* what a provider may return: see Drafts
  Nowhere,      \* an id that is in no context
  NoDraft

VARIABLES
  catalog,   \* evidence_catalog
  draft,     \* what the provider returned
  answer     \* DatasetSelectionResult, or the policy error

reasoningVars == <<catalog, draft, answer>>
allVars == <<discoveryVars, reasoningVars>>

\* Entities and concepts are collected and tied as metrics are. about is a
\* dataset, or for a definition a metric.
Evidence == [kind : {"contract", "ranking", "runtime"}, about : Catalogued \cup {Nowhere}]
            \cup [kind : {"definition"}, about : Metrics \cup {Nowhere}]
Drafts == [selected : Catalogued \cup {Nowhere, NoDraft}, cites : SUBSET Evidence]
Answers == [outcome : {"none", "selected", "clarify", "no_match", "policy_error"},
            selected : Catalogued \cup {NoDraft}, cites : SUBSET Evidence]

ASSUME ReasoningConstants ==
  /\ Replies \subseteq Drafts
  /\ Nowhere \notin Catalogued \cup Metrics /\ NoDraft \notin Drafts

NoAnswer == [outcome |-> "none", selected |-> NoDraft, cites |-> {}]

ReasoningTypeOK ==
  /\ DiscoveryTypeOK
  /\ catalog \subseteq Evidence
  /\ draft \in Replies \cup {NoDraft}
  /\ answer \in Answers

ReasoningInit ==
  /\ DiscoveryInit
  /\ catalog = {} /\ draft = NoDraft /\ answer = NoAnswer

\* limit is 1 to 5 here, less than the registry may hold.
Retrieve == DiscoveryNext /\ UNCHANGED reasoningVars

-----------------------------------------------------------------------------
EvidenceOf(d) ==
  {[kind |-> k, about |-> d] : k \in {"contract", "ranking"}}
    \cup {[kind |-> "definition", about |-> m] : m \in MetricsOf[d]}
    \cup (IF observed[d] = Unobserved THEN {} ELSE {[kind |-> "runtime", about |-> d]})

\* assemble_reasoning_context, then generate() unless nothing matched.
Consult ==
  /\ progress = "returned" /\ catalog = {} /\ answer = NoAnswer
  /\ LET items == UNION {EvidenceOf(d) : d \in shown} IN
       IF status = "NO_MATCH"
       THEN answer' = [NoAnswer EXCEPT !.outcome = "no_match"] /\ UNCHANGED <<catalog, draft>>
       ELSE catalog' = items /\ draft' \in Replies /\ UNCHANGED answer
  /\ UNCHANGED discoveryVars

\* _evidence_ids_for_candidate
Tied(e, d) ==
  IF e.kind = "definition" THEN e.about \in MetricsOf[d] ELSE e.about = d

\* The checks on a draft for a resolved question.
Acceptable ==
  /\ draft.selected \in shown
  /\ draft.cites # {} /\ draft.cites \subseteq catalog
  /\ \E e \in draft.cites : Tied(e, draft.selected)

\* _ambiguity_evidence: of the definitions in the context, the conflicting ones.
AmbiguityEvidence == {e \in catalog : e.kind = "definition" /\ e.about \in conflicting}

\* A slip: the selection is looked at before the status.
JudgeSelectionFirst ==
  /\ draft # NoDraft /\ answer = NoAnswer
  /\ answer' =
       IF Acceptable
       THEN [outcome |-> "selected", selected |-> draft.selected, cites |-> draft.cites]
       ELSE IF status = "CLARIFICATION_REQUIRED"
       THEN [outcome |-> "clarify", selected |-> NoDraft, cites |-> AmbiguityEvidence]
       ELSE [NoAnswer EXCEPT !.outcome = "policy_error"]
  /\ UNCHANGED <<discoveryVars, catalog, draft>>

Judge ==
  /\ draft # NoDraft /\ answer = NoAnswer
  /\ answer' =
       IF status = "CLARIFICATION_REQUIRED"
       THEN [outcome |-> "clarify", selected |-> NoDraft, cites |-> AmbiguityEvidence]
       ELSE IF Acceptable
       THEN [outcome |-> "selected", selected |-> draft.selected, cites |-> draft.cites]
       ELSE [NoAnswer EXCEPT !.outcome = "policy_error"]
  /\ UNCHANGED <<discoveryVars, catalog, draft>>

ReasoningNext == Retrieve \/ Consult \/ Judge
ReasoningSpec == ReasoningInit /\ [][ReasoningNext]_allVars

-----------------------------------------------------------------------------
(* A dataset is selected only if no prohibition excludes it, if no two      *)
(* non-equivalent metrics were left open, whichever datasets the cut left   *)
(* in, and if something that is cited is about it: its contract, rank,      *)
(* state or one of its own definitions, as they were in the context.        *)
SelectionIsGoverned ==
  answer.outcome = "selected" =>
    /\ answer.selected \in shown \ Excluded
    /\ Conflicts = {}
    /\ answer.cites \subseteq UNION {EvidenceOf(d) : d \in shown}
    /\ \E e \in answer.cites : e \in EvidenceOf(answer.selected)

(* A request for clarification cites the conflicting metrics                *)
(* (docs/milestone-4-governed-reasoning.md: "citations for the conflicting  *)
(* canonical metrics").                                                     *)
ConflictIsCited ==
  answer.outcome = "clarify" => {e.about : e \in answer.cites} = conflicting
=============================================================================
