--------------------------- MODULE AgentGuardProofs ---------------------------
(***************************************************************************)
(* Theorems about what an agent or a model provider hands in, for any text *)
(* and any reply: which tables a SELECT that runs has read (SqlGuard),     *)
(* which datasets a question is shown (Discovery) and which of them a      *)
(* draft can get selected (Reasoning).                                     *)
(***************************************************************************)
EXTENDS SqlGuard, Reasoning, Rankings

(* What the guard and the binder have established when they have passed.    *)
GuardInv ==
  /\ guarded \in {"accepted", "executed"} => text.plain /\ ~Shadowing /\ Undeclared = {}
  /\ guarded = "executed" => BindsToNothing = {}

(* A bare name that is a CTE's somewhere cannot bind to the catalog         *)
(* elsewhere, since no CTE has a name that the catalog has: a statement     *)
(* that runs reads declared inputs only, though scopes are never looked at. *)
THEOREM ExecutedTextsReadDeclared == GuardSpec => []ExecutedReadsDeclared
  <1>1. GuardInit => GuardInv
    BY DEF GuardInit, GuardInv
  <1>2. GuardInv /\ [GuardNext]_guardVars => GuardInv'
    <2> SUFFICES ASSUME GuardInv, [GuardNext]_guardVars PROVE GuardInv'
      OBVIOUS
    <2>1. ASSUME text' = text
          PROVE  /\ Shadowing' = Shadowing /\ Undeclared' = Undeclared
                 /\ BindsToNothing' = BindsToNothing
      <3>1. Ctes' = Ctes /\ AllReferences' = AllReferences /\ CteNames' = CteNames
        BY <2>1 DEF Ctes, AllReferences, CteNames
      <3>2. \A b, r : BindsToCte(b, r)' = BindsToCte(b, r)
        BY <2>1, <3>1 DEF BindsToCte, Visible, Encloses
      <3>3. ReadsOutside' = ReadsOutside
        BY <2>1, <3>1, <3>2 DEF ReadsOutside
      <3>4. QED
        BY <2>1, <3>1, <3>3 DEF Shadowing, Undeclared, BindsToNothing
    <2>2. CASE OfferText
      BY <2>2 DEF OfferText, GuardInv
    <2>3. CASE Render
      BY <2>3 DEF Render, GuardInv
    <2>4. CASE ValidateSelect
      <3>1. text' = text /\ guarded' \in {"accepted", "refused"}
        BY <2>4 DEF ValidateSelect
      <3>2. guarded' = "accepted" => text.plain /\ ~Shadowing /\ Undeclared = {}
        BY <2>4 DEF ValidateSelect
      <3>3. QED
        BY <2>1, <3>1, <3>2 DEF GuardInv
    <2>5. CASE Bind
      <3>1. text' = text /\ guarded = "accepted"
        BY <2>5 DEF Bind
      <3>2. guarded' = "executed" => BindsToNothing = {}
        BY <2>5 DEF Bind
      <3>3. QED
        BY <2>1, <3>1, <3>2 DEF GuardInv
    <2>6. CASE UNCHANGED guardVars
      BY <2>1, <2>6 DEF guardVars, GuardInv
    <2>7. QED
      BY <2>2, <2>3, <2>4, <2>5, <2>6 DEF GuardNext
  <1>3. GuardInv => ExecutedReadsDeclared
    <2> SUFFICES ASSUME GuardInv, guarded = "executed", NEW r \in ReadsOutside
                 PROVE  text.plain /\ r.by # "bare" /\ r.to \in Declared
      BY DEF ExecutedReadsDeclared, GuardInv
    <2>1. text.plain /\ ~Shadowing /\ Undeclared = {} /\ BindsToNothing = {}
      BY DEF GuardInv
    <2>2. r \in AllReferences
      BY DEF ReadsOutside
    <2>3. ASSUME r.by = "bare" PROVE FALSE
      <3>1. Folded[r.to] \in CteNames
        BY <2>1, <2>2, <2>3 DEF Undeclared
      <3>2. Folded[r.to] \in Catalog
        BY <2>1, <2>3 DEF BindsToNothing
      <3>3. QED
        BY <2>1, <3>1, <3>2 DEF Shadowing
    <2>4. r.to \in Declared
      BY <2>1, <2>2, <2>3 DEF Undeclared
    <2>5. QED
      BY <2>1, <2>3, <2>4
  <1>4. QED
    BY <1>1, <1>2, <1>3, PTL DEF GuardSpec

-----------------------------------------------------------------------------
(* The invariant of the reasoning service: exclusion holds from the scores  *)
(* to the cut, the status tells of the conflicts among all candidates, the  *)
(* catalogue of evidence is the one of what is shown, and a selection has   *)
(* passed every check.                                                      *)
Ranked == progress \in {"ranked", "fused", "assessed", "returned"}
Assessed == progress \in {"assessed", "returned"}

ExclusionHolds ==
  /\ Ranked => Candidates \cap Excluded = {}
  /\ progress = "returned" => shown \subseteq Candidates

StatusTells ==
  /\ status \in {"NO_MATCH", "CLARIFICATION_REQUIRED", "RESOLVED"}
  /\ Assessed /\ status = "RESOLVED" => Conflicts = {}

CatalogTells ==
  catalog # {} \/ draft # NoDraft =>
    progress = "returned" /\ status # "NO_MATCH" /\ catalog = UNION {EvidenceOf(d) : d \in shown}

GovernedInv ==
  /\ ExclusionHolds /\ StatusTells /\ CatalogTells
  /\ answer.outcome = "selected" => progress = "returned"
  /\ SelectionIsGoverned

(* Once discover has returned, nothing it computed changes.                 *)
LEMMA ReturnedStays == ~(progress = "returned" /\ DiscoveryNext)
  BY DEF DiscoveryNext, Discover, Ask, DiscoverDatasets, Fuse, Assess, Rerank

(* What the invariant says of discovery is a matter of these variables.     *)
LEMMA DiscoveryFrame ==
  ASSUME UNCHANGED <<question, asked, baseline>>
  PROVE  /\ Candidates' = Candidates /\ Excluded' = Excluded
         /\ evidence' = evidence => Conflicts' = Conflicts
  <1>1. Candidates' = Candidates /\ Excluded' = Excluded
    <2>1. Excluded' = Excluded
      BY DEF Excluded
    <2>2. VectorScore' = VectorScore
      BY <2>1 DEF VectorScore, VectorSimilarity
    <2>3. Baselines' = Baselines /\ VectorFound' = VectorFound
      BY <2>2 DEF Baselines, VectorFound
    <2>4. QED
      BY <2>1, <2>3 DEF Candidates
  <1> SUFFICES ASSUME evidence' = evidence PROVE Conflicts' = Conflicts
    BY <1>1
  <1>2. Eligible' = Eligible
    BY <1>1 DEF Eligible
  <1>3. Comparable' = Comparable
    BY <1>2 DEF Comparable
  <1>4. Conflicts' = Conflicts
    BY <1>3 DEF Conflicts, Confusable
  <1>5. QED
    BY <1>1, <1>4

(* No score is given to what the question prohibits, in either mode.        *)
LEMMA DiscoveryStep ==
  ASSUME ExclusionHolds, StatusTells, DiscoveryNext
  PROVE  (ExclusionHolds /\ StatusTells)'
  <1>1. CASE Ask
    BY <1>1 DEF Ask, ExclusionHolds, StatusTells, Ranked, Assessed
  <1>2. CASE DiscoverDatasets
    <2>1. /\ progress' = "ranked" /\ question' = question /\ status' = status
          /\ baseline' = [d \in Catalogued |-> RankDataset(d)]
      BY <1>2 DEF DiscoverDatasets
    <2>2. \A d \in Catalogued : baseline'[d] > 0 => d \notin Excluded
      BY <2>1 DEF RankDataset
    <2>3. \A d \in VectorFound' : d \notin Excluded'
      BY DEF VectorFound, VectorScore
    <2>4. Candidates' \cap Excluded' = {}
      BY <2>1, <2>2, <2>3 DEF Candidates, Baselines, Excluded
    <2>5. QED
      BY <2>1, <2>4 DEF ExclusionHolds, StatusTells, Ranked, Assessed
  <1>3. CASE Fuse
    <2>1. /\ progress = "ranked" /\ progress' = "fused"
          /\ UNCHANGED <<question, asked, baseline, status>>
      BY <1>3 DEF Fuse
    <2>2. QED
      BY <2>1, DiscoveryFrame DEF ExclusionHolds, StatusTells, Ranked, Assessed
  <1>4. CASE Assess
    <2>1. /\ progress = "fused" /\ progress' = "assessed"
          /\ UNCHANGED <<question, asked, baseline, evidence>>
          /\ status' \in {"NO_MATCH", "CLARIFICATION_REQUIRED", "RESOLVED"}
          /\ status' = "RESOLVED" => Conflicts = {}
      BY <1>4 DEF Assess
    <2>2. QED
      BY <2>1, DiscoveryFrame DEF ExclusionHolds, StatusTells, Ranked, Assessed
  <1>5. CASE Rerank
    <2>1. /\ progress = "assessed" /\ progress' = "returned"
          /\ UNCHANGED <<question, asked, baseline, evidence, status>>
          /\ shown' = Reranked(observed')
      BY <1>5 DEF Rerank
    <2>2. shown' \subseteq Candidates
      BY <2>1 DEF Reranked, TopOf
    <2>3. QED
      BY <2>1, <2>2, DiscoveryFrame DEF ExclusionHolds, StatusTells, Ranked, Assessed
  <1>6. QED
    BY <1>1, <1>2, <1>3, <1>4, <1>5 DEF DiscoveryNext, Discover

(* Evidence that is tied to a dataset and in the catalogue is that dataset's *)
(* own: what is shared by two datasets is the definition of a metric.        *)
LEMMA TiedIsOwn ==
  ASSUME NEW S, NEW e \in UNION {EvidenceOf(d) : d \in S}, NEW sel, Tied(e, sel)
  PROVE  e \in EvidenceOf(sel)
  <1>1. PICK d \in S : e \in EvidenceOf(d)
    OBVIOUS
  <1>2. CASE \E k \in {"contract", "ranking"} : e = [kind |-> k, about |-> d]
    <2>1. PICK k \in {"contract", "ranking"} : e = [kind |-> k, about |-> d]
      BY <1>2
    <2>2. sel = d
      BY <2>1 DEF Tied
    <2>3. QED
      BY <1>1, <2>2
  <1>3. CASE \E m \in MetricsOf[d] : e = [kind |-> "definition", about |-> m]
    <2>1. PICK m \in MetricsOf[d] : e = [kind |-> "definition", about |-> m]
      BY <1>3
    <2>2. m \in MetricsOf[sel]
      BY <2>1 DEF Tied
    <2>3. QED
      BY <2>1, <2>2 DEF EvidenceOf
  <1>4. CASE e = [kind |-> "runtime", about |-> d]
    <2>1. sel = d
      BY <1>4 DEF Tied
    <2>2. QED
      BY <1>1, <2>1
  <1>5. QED
    BY <1>1, <1>2, <1>3, <1>4 DEF EvidenceOf

(* The invariant holds, whatever a provider drafts.                         *)
LEMMA ReasoningKeepsGoverned == ReasoningSpec => []GovernedInv
  <1>1. ReasoningInit => GovernedInv
    BY DEF ReasoningInit, DiscoveryInit, NoAnswer, GovernedInv, ExclusionHolds, StatusTells,
           CatalogTells, SelectionIsGoverned, Ranked, Assessed
  <1>2. GovernedInv /\ [ReasoningNext]_allVars => GovernedInv'
    <2> SUFFICES ASSUME GovernedInv, [ReasoningNext]_allVars PROVE GovernedInv'
      OBVIOUS
    <2>1. CASE Retrieve
      <3>1. /\ DiscoveryNext /\ progress # "returned"
            /\ UNCHANGED <<catalog, draft, answer>>
        BY <2>1, ReturnedStays DEF Retrieve, reasoningVars
      <3>2. catalog = {} /\ draft = NoDraft /\ answer.outcome # "selected"
        BY <3>1 DEF GovernedInv, CatalogTells
      <3>3. (ExclusionHolds /\ StatusTells)'
        BY <3>1, DiscoveryStep DEF GovernedInv
      <3>4. QED
        BY <3>1, <3>2, <3>3 DEF GovernedInv, CatalogTells, SelectionIsGoverned
    <2>2. ASSUME UNCHANGED discoveryVars
          PROVE  /\ (ExclusionHolds /\ StatusTells)'
                 /\ Excluded' = Excluded /\ Conflicts' = Conflicts
                 /\ \A d : EvidenceOf(d)' = EvidenceOf(d)
                 /\ UNCHANGED <<progress, status, shown>>
      <3>1. UNCHANGED <<question, asked, progress, baseline, evidence, status, observed, shown>>
        BY <2>2 DEF discoveryVars
      <3>2. Candidates' = Candidates /\ Excluded' = Excluded /\ Conflicts' = Conflicts
        BY <3>1, DiscoveryFrame
      <3>3. (ExclusionHolds /\ StatusTells)'
        BY <3>1, <3>2 DEF GovernedInv, ExclusionHolds, StatusTells, Ranked, Assessed
      <3>4. \A d : EvidenceOf(d)' = EvidenceOf(d)
        BY <3>1 DEF EvidenceOf
      <3>5. QED
        BY <3>1, <3>2, <3>3, <3>4
    <2>3. CASE Consult
      <3>1. /\ progress = "returned" /\ catalog = {} /\ answer = NoAnswer
            /\ UNCHANGED discoveryVars
        BY <2>3 DEF Consult
      <3>2. answer'.outcome # "selected"
        BY <2>3, <3>1 DEF Consult, NoAnswer
      <3>3. CatalogTells'
        <4>1. CASE status = "NO_MATCH"
          BY <2>3, <3>1, <4>1, <2>2 DEF Consult, GovernedInv, CatalogTells
        <4>2. CASE status # "NO_MATCH"
          <5>1. catalog' = UNION {EvidenceOf(d) : d \in shown}
            BY <2>3, <4>2 DEF Consult
          <5>2. catalog' = UNION {EvidenceOf(d)' : d \in shown'}
            BY <2>2, <3>1, <5>1
          <5>3. QED
            BY <2>2, <3>1, <4>2, <5>2 DEF CatalogTells
        <4>3. QED
          BY <4>1, <4>2
      <3>4. QED
        BY <2>2, <3>1, <3>2, <3>3 DEF GovernedInv, SelectionIsGoverned
    <2>4. CASE Judge
      <3>1. /\ draft # NoDraft /\ UNCHANGED <<catalog, draft>> /\ UNCHANGED discoveryVars
        BY <2>4 DEF Judge
      <3>2. /\ progress = "returned" /\ status # "NO_MATCH"
            /\ catalog = UNION {EvidenceOf(d) : d \in shown}
        BY <3>1 DEF GovernedInv, CatalogTells
      <3>3. CatalogTells'
        <4>1. catalog' = UNION {EvidenceOf(d)' : d \in shown'}
          BY <2>2, <3>1, <3>2
        <4>2. QED
          BY <2>2, <3>1, <3>2, <4>1 DEF CatalogTells
      <3>4. ASSUME answer'.outcome = "selected" PROVE SelectionIsGoverned'
        <4>1. /\ status # "CLARIFICATION_REQUIRED" /\ Acceptable
              /\ answer' = [outcome |-> "selected", selected |-> draft.selected, cites |-> draft.cites]
          BY <2>4, <3>4 DEF Judge, NoAnswer
        <4>2. Conflicts = {} /\ draft.selected \in shown \ Excluded
          BY <3>2, <4>1 DEF GovernedInv, StatusTells, ExclusionHolds, Assessed, Ranked, Acceptable
        <4>3. draft.cites \subseteq UNION {EvidenceOf(d) : d \in shown}
          BY <3>2, <4>1 DEF Acceptable
        <4>4. \E e \in draft.cites : e \in EvidenceOf(draft.selected)
          BY <3>2, <4>1, TiedIsOwn DEF Acceptable
        <4>5. answer'.selected = draft.selected /\ answer'.cites = draft.cites
          BY <4>1
        <4>6. answer'.cites \subseteq UNION {EvidenceOf(d)' : d \in shown'}
          BY <2>2, <3>1, <4>3, <4>5
        <4>7. QED
          BY <2>2, <3>1, <4>2, <4>4, <4>5, <4>6 DEF SelectionIsGoverned
      <3>5. QED
        BY <2>2, <3>1, <3>2, <3>3, <3>4 DEF GovernedInv, SelectionIsGoverned
    <2>5. CASE UNCHANGED allVars
      <3>1. UNCHANGED discoveryVars /\ UNCHANGED <<catalog, draft, answer>>
        BY <2>5 DEF allVars, reasoningVars
      <3>2. UNION {EvidenceOf(d)' : d \in shown'} = UNION {EvidenceOf(d) : d \in shown}
        BY <2>2, <3>1
      <3>3. CatalogTells'
        BY <2>2, <3>1, <3>2 DEF GovernedInv, CatalogTells
      <3>4. SelectionIsGoverned'
        BY <2>2, <3>1, <3>2 DEF GovernedInv, SelectionIsGoverned
      <3>5. QED
        BY <2>2, <3>1, <3>3, <3>4 DEF GovernedInv
    <2>6. QED
      BY <2>1, <2>3, <2>4, <2>5 DEF ReasoningNext
  <1>3. QED
    BY <1>1, <1>2, PTL DEF ReasoningSpec

(* Whatever the provider drafts, a dataset is selected only if it is shown, *)
(* no use of it is prohibited, the question left no two metrics in conflict *)
(* and something cited is about it.                                         *)
THEOREM SelectionsAreGoverned == ReasoningSpec => []SelectionIsGoverned
  <1>1. GovernedInv => SelectionIsGoverned
    BY DEF GovernedInv
  <1>2. QED
    BY <1>1, ReasoningKeepsGoverned, PTL

-----------------------------------------------------------------------------
(* The greatest of a finite set of naturals exists.                         *)
LEMMA LargestIsThere ==
  ASSUME NEW S \in SUBSET Nat, IsFiniteSet(S)
  PROVE  /\ Largest(S) \in Nat
         /\ S # {} => Largest(S) \in S /\ \A k \in S : k <= Largest(S)
  <1> DEFINE before == {pair \in S \X S : pair[1] > pair[2]}
  <1> HIDE DEF before
  <1>1. CASE S = {}
    BY <1>1 DEF Largest
  <1>2. CASE S # {}
    <2>1. StrictlyOrders(before, S)
      BY DEF StrictlyOrders, before
    <2>2. PICK n \in S : \A k \in S : k = n \/ <<n, k>> \in before
      BY <1>2, <2>1, SomeoneIsFirst
    <2>3. ASSUME NEW k \in S PROVE k <= n
      <3>1. n \in Nat /\ k \in Nat
        OBVIOUS
      <3>2. CASE <<n, k>> \in before
        BY <3>1, <3>2 DEF before
      <3>3. CASE k = n
        BY <3>1, <3>3
      <3>4. QED
        BY <2>2, <3>2, <3>3
    <2>4. Largest(S) \in S /\ \A k \in S : k <= Largest(S)
      BY <1>2, <2>3 DEF Largest
    <2>5. QED
      BY <2>4
  <1>3. QED
    BY <1>1, <1>2

(* Fusion gives a natural number of points.                                 *)
LEMMA RoundedType ==
  ASSUME NEW n \in Nat, NEW d \in Nat \ {0}
  PROVE  Rounded(n, d) \in Nat
  <1> DEFINE up == (2 * n + d) \div (2 * d)
  <1>1. 2 * n + d \in Nat /\ 2 * d \in Nat \ {0}
    OBVIOUS
  <1>2. up \in Nat
    BY <1>1
  <1> HIDE DEF up
  <1>3. up % 2 = 1 => up - 1 \in Nat
    BY <1>2
  <1>4. Rounded(n, d) \in {up, up - 1} /\ (Rounded(n, d) = up - 1 => up % 2 = 1 \/ Rounded(n, d) = up)
    BY DEF Rounded, up
  <1>5. QED
    BY <1>2, <1>3, <1>4

-----------------------------------------------------------------------------
(* A score orders the datasets, ids breaking its ties.                      *)
Better(S, score) ==
  {pair \in S \X S : \/ score[pair[1]] > score[pair[2]]
                     \/ score[pair[1]] = score[pair[2]] /\ pair[1] < pair[2]}

(* Place is the rank in that order.                                         *)
LEMMA ScoresOrder ==
  ASSUME NEW S \in SUBSET Catalogued, NEW score \in [Catalogued -> Int]
  PROVE  /\ IsFiniteSet(S)
         /\ StrictlyOrders(Better(S, score), S)
         /\ \A d \in S : Place(d, S, score) = 1 + Cardinality(Ahead(S, Better(S, score), d))
         /\ \A d \in S : Place(d, S, score) \in Nat \ {0}
  <1>1. IsFiniteSet(S)
    BY DiscoveryConstants, FS_Subset
  <1>2. \A d \in S : d \in Nat /\ score[d] \in Int
    BY DiscoveryConstants
  <1>3. StrictlyOrders(Better(S, score), S)
    BY <1>2 DEF StrictlyOrders, Better
  <1>4. ASSUME NEW d \in S
        PROVE  /\ Place(d, S, score) = 1 + Cardinality(Ahead(S, Better(S, score), d))
               /\ Place(d, S, score) \in Nat \ {0}
    <2> DEFINE A == Ahead(S, Better(S, score), d)
    <2>1. A = {e \in S : score[e] > score[d] \/ (score[e] = score[d] /\ e < d)}
      BY DEF Ahead, Better
    <2>2. IsFiniteSet(A)
      BY <1>1, <2>1, FS_Subset
    <2>3. Cardinality(A) \in Nat
      BY <2>2, FS_CardinalityType
    <2>4. Place(d, S, score) = 1 + Cardinality(A)
      BY <2>1 DEF Place
    <2>5. QED
      BY <2>3, <2>4
  <1>5. QED
    BY <1>1, <1>3, <1>4

(* The cut leaves the best, and as many as were asked for if there are.     *)
LEMMA TopIsBest ==
  ASSUME NEW S \in SUBSET Catalogued, NEW score \in [Catalogued -> Int], asked.limit \in Nat
  PROVE  /\ Cardinality(TopOf(S, score)) = AtMost(asked.limit, Cardinality(S))
         /\ \A d \in TopOf(S, score), e \in S \ TopOf(S, score) :
              score[d] > score[e] \/ (score[d] = score[e] /\ d < e)
  <1> DEFINE before == Better(S, score)
             k == asked.limit
  <1>1. /\ IsFiniteSet(S) /\ StrictlyOrders(before, S)
        /\ \A d \in S : Place(d, S, score) = 1 + Cardinality(Ahead(S, before, d))
        /\ \A d \in S : Cardinality(Ahead(S, before, d)) \in Nat
    <2>1. \A d \in S : IsFiniteSet(Ahead(S, before, d))
      <3>1. \A d \in S : Ahead(S, before, d) \subseteq S
        BY DEF Ahead
      <3>2. QED
        BY <3>1, ScoresOrder, FS_Subset
    <2>2. QED
      BY <2>1, ScoresOrder, FS_CardinalityType
  <1>2. TopOf(S, score) = First(S, before, k)
    BY <1>1 DEF TopOf, First
  <1>3. Cardinality(TopOf(S, score)) = AtMost(k, Cardinality(S))
    BY <1>1, <1>2, FirstAreAsMany DEF AtMost
  <1>4. ASSUME NEW d \in TopOf(S, score), NEW e \in S \ TopOf(S, score)
        PROVE  score[d] > score[e] \/ (score[d] = score[e] /\ d < e)
    <2>1. /\ d \in S /\ e \in S /\ d # e
          /\ Cardinality(Ahead(S, before, d)) < k
          /\ ~(Cardinality(Ahead(S, before, e)) < k)
      BY <1>2 DEF First
    <2>2. <<e, d>> \notin before
      <3>1. ASSUME <<e, d>> \in before PROVE FALSE
        <4>1. Cardinality(Ahead(S, before, e)) < Cardinality(Ahead(S, before, d))
          BY <1>1, <2>1, <3>1, LaterRanksHigher
        <4>2. QED
          BY <1>1, <2>1, <4>1
      <3>2. QED
        BY <3>1
    <2>3. <<d, e>> \in before
      BY <1>1, <2>1, <2>2 DEF StrictlyOrders
    <2>4. QED
      BY <2>3 DEF Better
  <1>5. QED
    BY <1>3, <1>4

-----------------------------------------------------------------------------
(* What the scores of a question are.                                       *)
LEMMA PointsType ==
  ASSUME question \in Questions, NEW d \in Catalogued
  PROVE  RankDataset(d) \in Nat
  <1>1. question \in QuestionType /\ MetricsOf[d] \subseteq Metrics
    BY DiscoveryConstants
  <1>2. question.points[d] \in Nat /\ \A m \in Metrics : question.score[m] \in Nat
    BY <1>1 DEF QuestionType
  <1> DEFINE f == question.score
             S == MetricsOf[d]
  <1>3. IsFiniteSet({f[m] : m \in S})
    <2> HIDE DEF f, S
    <2>1. IsFiniteSet(S)
      BY <1>1, DiscoveryConstants, FS_Subset DEF S
    <2>2. QED
      BY <2>1, ValuesAreFinite
  <1>4. {f[m] : m \in S} \subseteq Nat
    BY <1>1, <1>2
  <1>5. Largest({f[m] : m \in S}) \in Nat
    BY <1>3, <1>4, LargestIsThere
  <1>6. MetricPoints(d) \in Nat
    BY <1>5 DEF MetricPoints, AtMost
  <1>7. Governance(d) \in Nat
    BY DEF Governance
  <1>8. QED
    BY <1>2, <1>6, <1>7 DEF RankDataset

(* A similarity is a number from 0 to 10, and so is what it gives evidence. *)
LEMMA SimilarityType ==
  ASSUME question \in Questions
  PROVE  /\ VectorScore \in [Catalogued -> 0..10]
         /\ \A m \in Metrics : VectorEvidence(m) \in Nat
  <1>1. question.vector \subseteq Documents
    BY DiscoveryConstants DEF QuestionType
  <1>2. ASSUME NEW S \in SUBSET (0..10) PROVE Largest(S) \in 0..10
    <2>1. \A n \in Nat : IsFiniteSet(0..n)
      BY FS_Interval
    <2>2. IsFiniteSet(0..10)
      BY <2>1
    <2>3. IsFiniteSet(S)
      BY <2>2, FS_Subset
    <2>4. S \in SUBSET Nat
      OBVIOUS
    <2>5. S # {} => Largest(S) \in S
      BY <2>3, <2>4, LargestIsThere
    <2>6. S = {} => Largest(S) = 0
      BY DEF Largest
    <2>7. 0 \in 0..10
      OBVIOUS
    <2>8. QED
      BY <2>5, <2>6, <2>7, Zenon
  <1>3. ASSUME NEW W \in SUBSET question.vector
        PROVE  Largest({v.similarity : v \in W}) \in 0..10
    <2>1. {v.similarity : v \in W} \in SUBSET (0..10)
      BY <1>1 DEF Documents
    <2>2. QED
      BY <1>2, <2>1
  <1>4. \A d \in Catalogued : VectorSimilarity(d) \in 0..10
    BY <1>3 DEF VectorSimilarity
  <1>5. VectorScore \in [Catalogued -> 0..10]
    BY <1>4 DEF VectorScore
  <1>6. ASSUME NEW m \in Metrics PROVE VectorEvidence(m) \in Nat
    <2> DEFINE D == {VectorScore[d] : d \in {e \in VectorFound : m \in MetricsOf[e]}}
               W == {w \in question.vector : w.metric = m}
    <2>1. D \in SUBSET (0..10)
      BY <1>5 DEF VectorFound
    <2>2. Largest(D) \in 0..10
      BY <1>2, <2>1
    <2>3. Largest({v.similarity : v \in W}) \in 0..10
      BY <1>3
    <2>4. VectorEvidence(m) = AtLeast(Largest({v.similarity : v \in W}), Largest(D))
      BY DEF VectorEvidence
    <2> HIDE DEF D, W
    <2>5. QED
      BY <2>2, <2>3, <2>4 DEF AtLeast
  <1>7. QED
    BY <1>5, <1>6

(* Fusion adds up points.                                                   *)
LEMMA FusedScoreType ==
  ASSUME question \in Questions, baseline \in [Catalogued -> Nat], NEW d \in Catalogued
  PROVE  FusedScore(d) \in Nat
  <1>1. ASSUME NEW S \in SUBSET Catalogued, NEW score \in [Catalogued -> Int], d \in S,
               NEW w \in {1, 2}
        PROVE  RrfPoints(Place(d, S, score), w) \in Nat
    <2> DEFINE p == Place(d, S, score)
    <2>1. p \in Nat \ {0}
      BY <1>1, ScoresOrder
    <2> HIDE DEF p
    <2>2. 1000 * w \in Nat /\ 10 + p \in Nat \ {0}
      BY <2>1
    <2>3. Rounded(1000 * w, 10 + p) \in Nat
      BY <2>2, RoundedType
    <2>4. QED
      BY <2>3 DEF RrfPoints, p
  <1>2. Baselines \in SUBSET Catalogued /\ VectorFound \in SUBSET Catalogued
    BY DEF Baselines, VectorFound
  <1>3. baseline \in [Catalogued -> Int] /\ VectorScore \in [Catalogued -> Int]
    BY SimilarityType
  <1>4. d \in Baselines => RrfPoints(Place(d, Baselines, baseline), 2) \in Nat
    BY <1>1, <1>2, <1>3
  <1>5. d \in VectorFound => RrfPoints(Place(d, VectorFound, VectorScore), 1) \in Nat
    BY <1>1, <1>2, <1>3
  <1>6. Governance(d) \in Nat
    BY DEF Governance
  <1>7. QED
    BY <1>4, <1>5, <1>6 DEF FusedScore

(* Observations may take a score below zero.                                *)
LEMMA AdjustedType ==
  ASSUME fused \in [Catalogued -> Nat], NEW obs \in [Catalogued -> Observations \cup {Unobserved}]
  PROVE  Adjusted(obs) \in [Catalogued -> Int]
  <1>1. ASSUME NEW o \in Observations \cup {Unobserved} PROVE RuntimePoints(o) \in Int
    <2>1. CASE o = Unobserved
      BY <2>1 DEF RuntimePoints
    <2>2. CASE o # Unobserved
      <3> DEFINE fp == [fresh |-> 8, stale |-> -12, unknown |-> 0]
                 qp == [passing |-> 10, warning |-> -5, failing |-> -20, unknown |-> 0]
                 hp == [healthy |-> 8, degraded |-> -8, failed |-> -20, unknown |-> 0]
      <3>1. o \in ObservationType
        BY <2>2, DiscoveryConstants
      <3>2. /\ o.freshness \in {"fresh", "stale", "unknown"}
            /\ o.quality \in {"passing", "warning", "failing", "unknown"}
            /\ o.health \in {"healthy", "degraded", "failed", "unknown"}
            /\ o.usage \in Nat
        BY <3>1 DEF ObservationType
      <3>3. fp[o.freshness] \in Int
        BY <3>2
      <3>4. qp[o.quality] \in Int
        BY <3>2
      <3>5. hp[o.health] \in Int
        BY <3>2
      <3>6. UsagePoints(o.usage) \in Int
        BY DEF UsagePoints
      <3>7. RuntimePoints(o) = fp[o.freshness] + qp[o.quality] + hp[o.health] + UsagePoints(o.usage)
        BY <2>2 DEF RuntimePoints
      <3> HIDE DEF fp, qp, hp
      <3>8. QED
        BY <3>3, <3>4, <3>5, <3>6, <3>7
    <2>3. QED
      BY <2>1, <2>2
  <1>2. QED
    BY <1>1 DEF Adjusted

-----------------------------------------------------------------------------
(* The invariant of discovery: every score has its type once a question is  *)
(* there, and what is shown are the first of the adjusted candidates.       *)
DiscoveryInv ==
  /\ DiscoveryTypeOK
  /\ progress # "idle" => question \in Questions
  /\ progress = "returned" => shown = Reranked(observed)

(* Nothing is asked at first.                                               *)
LEMMA DiscoveryInvInit == DiscoveryInit => DiscoveryInv
  <1> SUFFICES ASSUME DiscoveryInit PROVE DiscoveryInv
    OBVIOUS
  <1>1. [m \in Metrics |-> NoMatch] \in [Metrics -> MatchType]
    BY DEF NoMatch, MatchType
  <1>2. [d \in Catalogued |-> 0] \in [Catalogued -> Nat]
    OBVIOUS
  <1>3. [d \in Catalogued |-> Unobserved] \in [Catalogued -> Observations \cup {Unobserved}]
    OBVIOUS
  <1>4. QED
    BY <1>1, <1>2, <1>3 DEF DiscoveryInit, DiscoveryInv, DiscoveryTypeOK

(* Each stage of discovery hands on scores of the right type.               *)
LEMMA DiscoveryInvStep ==
  ASSUME DiscoveryInv, DiscoveryNext
  PROVE  DiscoveryInv'
  <1>1. DiscoveryTypeOK /\ (progress # "idle" => question \in Questions)
    BY DEF DiscoveryInv
  <1>2. Ask \/ DiscoverDatasets \/ Fuse \/ Assess \/ Rerank
    BY DEF DiscoveryNext, Discover
  <1>3. CASE Ask
    <2>1. \A n \in Nat : 1..n \subseteq Nat
      OBVIOUS
    <2>2. Cardinality(Catalogued) \in Nat
      BY DiscoveryConstants, FS_CardinalityType
    <2>3. asked' \in [hybrid : BOOLEAN, limit : Nat]
      BY <1>3, <2>1, <2>2 DEF Ask
    <2>4. QED
      BY <1>1, <1>3, <2>3 DEF Ask, DiscoveryInv, DiscoveryTypeOK
  <1>4. CASE DiscoverDatasets
    <2>1. /\ question \in Questions /\ question' = question /\ asked' = asked
          /\ progress' = "ranked"
          /\ baseline' = [d \in Catalogued |-> RankDataset(d)]
          /\ evidence' = [m \in Metrics |-> [score |-> question.score[m],
                                             terms |-> question.terms[m], vector |-> FALSE]]
          /\ UNCHANGED <<fused, status, conflicting, observed, shown>>
      BY <1>1, <1>4 DEF DiscoverDatasets
    <2>2. baseline' \in [Catalogued -> Nat]
      BY <2>1, PointsType
    <2>3. question \in QuestionType
      BY <2>1, DiscoveryConstants
    <2>4. question.score \in [Metrics -> Nat] /\ question.terms \in [Metrics -> SUBSET {"a", "b"}]
      BY <2>3 DEF QuestionType
    <2>5. evidence' \in [Metrics -> MatchType]
      BY <2>1, <2>4 DEF MatchType
    <2>6. QED
      BY <1>1, <2>1, <2>2, <2>5 DEF DiscoveryInv, DiscoveryTypeOK
  <1>5. CASE Fuse
    <2>1. /\ question \in Questions /\ progress' = "fused"
          /\ UNCHANGED <<question, asked, baseline, status, conflicting, observed, shown>>
      BY <1>1, <1>5 DEF Fuse
    <2>2. fused' \in [Catalogued -> Nat]
      <3>1. CASE asked.hybrid
        <4>1. \A d \in Catalogued : FusedScore(d) \in Nat
          BY <1>1, <2>1, FusedScoreType DEF DiscoveryTypeOK
        <4>2. QED
          BY <1>5, <3>1, <4>1 DEF Fuse
      <3>2. CASE ~asked.hybrid
        BY <1>1, <1>5, <3>2 DEF Fuse, DiscoveryTypeOK
      <3>3. QED
        BY <3>1, <3>2
    <2>3. evidence' \in [Metrics -> MatchType]
      <3>1. CASE asked.hybrid
        <4>1. evidence' = [m \in Metrics |->
                [evidence[m] EXCEPT !.score = AtLeast(@, VectorEvidence(m)),
                                    !.vector = VectorEvidence(m) > 0]]
          BY <1>5, <3>1 DEF Fuse
        <4>2. ASSUME NEW m \in Metrics
              PROVE  [evidence[m] EXCEPT !.score = AtLeast(@, VectorEvidence(m)),
                                         !.vector = VectorEvidence(m) > 0] \in MatchType
          <5> DEFINE e == evidence[m]
                     n == VectorEvidence(m)
          <5>1. e \in MatchType
            BY <1>1 DEF DiscoveryTypeOK
          <5>2. n \in Nat
            BY <2>1, SimilarityType
          <5> HIDE DEF e, n
          <5>3. AtLeast(e.score, n) \in Nat /\ (n > 0) \in BOOLEAN
            BY <5>1, <5>2 DEF MatchType, AtLeast
          <5>4. [e EXCEPT !.score = AtLeast(@, n), !.vector = n > 0] \in MatchType
            BY <5>1, <5>3 DEF MatchType
          <5>5. QED
            BY <5>4 DEF e, n
        <4>3. QED
          BY <4>1, <4>2
      <3>2. CASE ~asked.hybrid
        BY <1>1, <1>5, <3>2 DEF Fuse, DiscoveryTypeOK
      <3>3. QED
        BY <3>1, <3>2
    <2>4. QED
      BY <1>1, <2>1, <2>2, <2>3 DEF DiscoveryInv, DiscoveryTypeOK
  <1>6. CASE Assess
    <2>1. Conflicts \subseteq Metrics
      BY DEF Conflicts, Comparable, Eligible
    <2>2. /\ conflicting' \subseteq Metrics
          /\ status' \in {"NO_MATCH", "CLARIFICATION_REQUIRED", "RESOLVED"}
          /\ progress = "fused" /\ progress' = "assessed"
          /\ UNCHANGED <<question, asked, baseline, fused, evidence, observed, shown>>
      BY <1>6, <2>1 DEF Assess
    <2>3. QED
      BY <1>1, <2>2 DEF DiscoveryInv, DiscoveryTypeOK
  <1>7. CASE Rerank
    <2>1. /\ progress = "assessed" /\ progress' = "returned"
          /\ observed' \in [Catalogued -> Observations \cup {Unobserved}]
          /\ shown' = Reranked(observed')
          /\ UNCHANGED <<question, asked, baseline, fused, evidence, status, conflicting>>
      BY <1>7 DEF Rerank
    <2>2. Candidates \subseteq Catalogued
      BY DEF Candidates, Baselines, VectorFound
    <2>3. shown' \subseteq Catalogued
      BY <2>1, <2>2 DEF Reranked, TopOf
    <2>4. Candidates' = Candidates
      BY <2>1, DiscoveryFrame
    <2>5. Reranked(observed)' = Reranked(observed')
      BY <2>1, <2>4 DEF Reranked, TopOf, Adjusted
    <2>6. QED
      BY <1>1, <2>1, <2>3, <2>5 DEF DiscoveryInv, DiscoveryTypeOK
  <1>8. QED
    BY <1>2, <1>3, <1>4, <1>5, <1>6, <1>7

(* The reasoning service only reads what discovery has found.               *)
LEMMA DiscoveryInvFrame ==
  ASSUME DiscoveryInv, UNCHANGED discoveryVars
  PROVE  DiscoveryInv'
  <1>1. UNCHANGED <<question, asked, progress, baseline, fused, evidence, status, conflicting,
                    observed, shown>>
    BY DEF discoveryVars
  <1>2. Candidates' = Candidates
    BY <1>1, DiscoveryFrame
  <1>3. Reranked(observed)' = Reranked(observed)
    BY <1>1, <1>2 DEF Reranked, TopOf, Adjusted
  <1>4. QED
    BY <1>1, <1>3 DEF DiscoveryInv, DiscoveryTypeOK

(* So the invariant of discovery holds under the reasoning service.         *)
LEMMA DiscoveryKeepsInv == ReasoningSpec => []DiscoveryInv
  <1>1. ReasoningInit => DiscoveryInv
    BY DiscoveryInvInit DEF ReasoningInit
  <1>2. DiscoveryInv /\ [ReasoningNext]_allVars => DiscoveryInv'
    <2> SUFFICES ASSUME DiscoveryInv, [ReasoningNext]_allVars PROVE DiscoveryInv'
      OBVIOUS
    <2>1. DiscoveryNext \/ UNCHANGED discoveryVars
      BY DEF ReasoningNext, Retrieve, Consult, Judge, allVars
    <2>2. QED
      BY <2>1, DiscoveryInvStep, DiscoveryInvFrame
  <1>3. QED
    BY <1>1, <1>2, PTL DEF ReasoningSpec

(* What is shown when discovery has returned.                               *)
LEMMA ReturnedAreTop ==
  ASSUME DiscoveryInv, progress = "returned"
  PROVE  /\ shown \subseteq Candidates
         /\ \A d \in shown, e \in Candidates \ shown :
              LET a == Adjusted(observed) IN a[d] > a[e] \/ (a[d] = a[e] /\ d < e)
         /\ Cardinality(shown) = AtMost(asked.limit, Cardinality(Candidates))
  <1> DEFINE a == Adjusted(observed)
  <1>1. /\ fused \in [Catalogued -> Nat] /\ asked.limit \in Nat
        /\ observed \in [Catalogued -> Observations \cup {Unobserved}]
        /\ shown = TopOf(Candidates, a)
    BY DEF DiscoveryInv, DiscoveryTypeOK, Reranked
  <1>2. a \in [Catalogued -> Int]
    BY <1>1, AdjustedType
  <1>3. Candidates \in SUBSET Catalogued
    BY DEF Candidates, Baselines, VectorFound
  <1> HIDE DEF a
  <1>4. /\ Cardinality(shown) = AtMost(asked.limit, Cardinality(Candidates))
        /\ \A d \in shown, e \in Candidates \ shown : a[d] > a[e] \/ (a[d] = a[e] /\ d < e)
    BY <1>1, <1>2, <1>3, TopIsBest
  <1>5. shown \subseteq Candidates
    BY <1>1 DEF TopOf
  <1>6. QED
    BY <1>4, <1>5 DEF a

-----------------------------------------------------------------------------
(* Evidence about catalogued datasets has its type.                         *)
LEMMA EvidenceType ==
  ASSUME NEW S \in SUBSET Catalogued
  PROVE  UNION {EvidenceOf(d) : d \in S} \subseteq Evidence
  <1> SUFFICES ASSUME NEW d \in S, NEW e \in EvidenceOf(d) PROVE e \in Evidence
    OBVIOUS
  <1>1. d \in Catalogued /\ MetricsOf[d] \subseteq Metrics
    BY DiscoveryConstants
  <1>2. CASE e \in {[kind |-> k, about |-> d] : k \in {"contract", "ranking"}}
    BY <1>1, <1>2 DEF Evidence
  <1>3. CASE e \in {[kind |-> "definition", about |-> m] : m \in MetricsOf[d]}
    BY <1>1, <1>3 DEF Evidence
  <1>4. CASE e = [kind |-> "runtime", about |-> d]
    BY <1>1, <1>4 DEF Evidence
  <1>5. QED
    BY <1>2, <1>3, <1>4 DEF EvidenceOf

(* Every state variable of the reasoning service has its type: the scores   *)
(* are natural numbers in both modes, and what a provider drafts becomes an *)
(* answer only with a catalogued dataset.                                   *)
THEOREM ReasoningTypeCorrect == ReasoningSpec => []ReasoningTypeOK
  <1>1. ReasoningInit => ReasoningTypeOK
    BY DiscoveryInvInit
    DEF ReasoningInit, ReasoningTypeOK, DiscoveryInv, NoAnswer, Answers
  <1>2. DiscoveryInv /\ DiscoveryInv' /\ ReasoningTypeOK /\ [ReasoningNext]_allVars => ReasoningTypeOK'
    <2> SUFFICES ASSUME DiscoveryInv, DiscoveryInv', ReasoningTypeOK, [ReasoningNext]_allVars
                 PROVE  catalog' \subseteq Evidence /\ draft' \in Replies \cup {NoDraft}
                        /\ answer' \in Answers
      BY DEF ReasoningTypeOK, DiscoveryInv
    <2>1. catalog \subseteq Evidence /\ draft \in Replies \cup {NoDraft} /\ answer \in Answers
      BY DEF ReasoningTypeOK
    <2>2. CASE UNCHANGED reasoningVars
      BY <2>1, <2>2 DEF reasoningVars
    <2>3. CASE Consult
      <3>1. shown \in SUBSET Catalogued
        BY DEF DiscoveryInv, DiscoveryTypeOK
      <3>2. UNION {EvidenceOf(d) : d \in shown} \subseteq Evidence
        BY <3>1, EvidenceType
      <3>3. CASE status = "NO_MATCH"
        <4>1. answer' = [NoAnswer EXCEPT !.outcome = "no_match"] /\ UNCHANGED <<catalog, draft>>
          BY <2>3, <3>3 DEF Consult
        <4>2. answer' \in Answers
          BY <4>1 DEF NoAnswer, Answers
        <4>3. QED
          BY <2>1, <4>1, <4>2
      <3>4. CASE status # "NO_MATCH"
        BY <2>1, <2>3, <3>2, <3>4 DEF Consult
      <3>5. QED
        BY <3>3, <3>4
    <2>4. CASE Judge
      <3>1. draft # NoDraft /\ UNCHANGED <<catalog, draft>>
        BY <2>4 DEF Judge
      <3>2. draft \in Drafts
        BY <2>1, <3>1, ReasoningConstants
      <3>3. CASE status = "CLARIFICATION_REQUIRED"
        <4>1. AmbiguityEvidence \subseteq Evidence
          BY <2>1 DEF AmbiguityEvidence
        <4>2. answer' = [outcome |-> "clarify", selected |-> NoDraft, cites |-> AmbiguityEvidence]
          BY <2>4, <3>3 DEF Judge
        <4>3. QED
          BY <2>1, <3>1, <4>1, <4>2 DEF Answers
      <3>4. CASE status # "CLARIFICATION_REQUIRED" /\ Acceptable
        <4>1. draft.selected \in Catalogued /\ draft.cites \subseteq Evidence
          BY <2>1, <3>4 DEF Acceptable, DiscoveryInv, DiscoveryTypeOK
        <4>2. answer' = [outcome |-> "selected", selected |-> draft.selected, cites |-> draft.cites]
          BY <2>4, <3>4 DEF Judge
        <4>3. QED
          BY <2>1, <3>1, <4>1, <4>2 DEF Answers
      <3>5. CASE status # "CLARIFICATION_REQUIRED" /\ ~Acceptable
        <4>1. answer' = [NoAnswer EXCEPT !.outcome = "policy_error"]
          BY <2>4, <3>5 DEF Judge
        <4>2. answer' \in Answers
          BY <4>1 DEF NoAnswer, Answers
        <4>3. QED
          BY <2>1, <3>1, <4>2
      <3>6. QED
        BY <3>3, <3>4, <3>5
    <2>5. QED
      BY <2>2, <2>3, <2>4 DEF ReasoningNext, Retrieve, allVars
  <1>3. QED
    BY <1>1, <1>2, DiscoveryKeepsInv, PTL DEF ReasoningSpec

(* Whatever the scores, the weights and the observations: nothing that is   *)
(* prohibited is shown, what is left out is never better than what is       *)
(* shown, and no place is left empty.                                       *)
THEOREM ShownBest == ReasoningSpec => []ShownAreTheBest
  <1>1. DiscoveryInv /\ GovernedInv => ShownAreTheBest
    BY ReturnedAreTop DEF GovernedInv, ExclusionHolds, ShownAreTheBest, Ranked
  <1>2. QED
    BY <1>1, ReasoningKeepsGoverned, DiscoveryKeepsInv, PTL

-----------------------------------------------------------------------------
(* What a request for clarification cites is exact for the metrics that     *)
(* have a dataset in the context, and so for all of them whenever the cut   *)
(* takes nothing away.                                                      *)
ClarificationCites ==
  answer.outcome = "clarify" =>
    /\ conflicting = Conflicts /\ conflicting # {}
    /\ {e.about : e \in answer.cites} = conflicting \cap UNION {MetricsOf[d] : d \in shown}
    /\ Cardinality(Candidates) <= asked.limit => ConflictIsCited

(* Once assessed, a question to be clarified names the conflicts there are. *)
ConflictingTells ==
  Assessed /\ status = "CLARIFICATION_REQUIRED" => conflicting = Conflicts /\ Conflicts # {}

(* The conflicts are named when they are assessed, and do not change then.  *)
LEMMA ConflictingStep ==
  ASSUME ConflictingTells, StatusTells, [ReasoningNext]_allVars
  PROVE  ConflictingTells'
  <1>1. DiscoveryNext \/ UNCHANGED discoveryVars
    BY DEF ReasoningNext, Retrieve, Consult, Judge, allVars
  <1>2. CASE Ask \/ DiscoverDatasets \/ Fuse
    BY <1>2 DEF Ask, DiscoverDatasets, Fuse, ConflictingTells, Assessed
  <1>3. CASE Assess
    <2>1. /\ UNCHANGED <<question, asked, baseline, evidence>>
          /\ status' = "CLARIFICATION_REQUIRED" => conflicting' = Conflicts /\ Conflicts # {}
      BY <1>3 DEF Assess
    <2>2. QED
      BY <2>1, DiscoveryFrame DEF ConflictingTells
  <1>4. CASE Rerank \/ UNCHANGED discoveryVars
    <2>1. /\ UNCHANGED <<question, asked, baseline, evidence, status, conflicting>>
          /\ Assessed' => Assessed
      BY <1>4 DEF Rerank, discoveryVars, Assessed
    <2>2. QED
      BY <2>1, DiscoveryFrame DEF ConflictingTells
  <1>5. QED
    BY <1>1, <1>2, <1>3, <1>4 DEF DiscoveryNext, Discover

(* The definitions in a context are those of the metrics of its datasets.   *)
LEMMA DefinitionsInContext ==
  ASSUME NEW S, NEW C
  PROVE  {e.about : e \in {x \in UNION {EvidenceOf(d) : d \in S} :
                             x.kind = "definition" /\ x.about \in C}}
         = C \cap UNION {MetricsOf[d] : d \in S}
  <1> DEFINE A == {x \in UNION {EvidenceOf(d) : d \in S} : x.kind = "definition" /\ x.about \in C}
             B == UNION {MetricsOf[d] : d \in S}
  <1>1. ASSUME NEW e \in A PROVE e.about \in C \cap B
    <2>1. PICK d \in S : e \in EvidenceOf(d)
      OBVIOUS
    <2>2. e.kind = "definition" /\ e.about \in C
      OBVIOUS
    <2>3. CASE \E k \in {"contract", "ranking"} : e = [kind |-> k, about |-> d]
      BY <2>2, <2>3
    <2>4. CASE e = [kind |-> "runtime", about |-> d]
      BY <2>2, <2>4
    <2>5. CASE \E m \in MetricsOf[d] : e = [kind |-> "definition", about |-> m]
      BY <2>2, <2>5
    <2>6. QED
      BY <2>1, <2>3, <2>4, <2>5 DEF EvidenceOf
  <1>2. ASSUME NEW m \in C \cap B PROVE \E e \in A : e.about = m
    <2>1. PICK d \in S : m \in MetricsOf[d]
      OBVIOUS
    <2> DEFINE e == [kind |-> "definition", about |-> m]
    <2>2. e \in EvidenceOf(d)
      BY <2>1 DEF EvidenceOf
    <2>3. e.kind = "definition" /\ e.about = m
      OBVIOUS
    <2>4. QED
      BY <2>2, <2>3
  <1> HIDE DEF A, B
  <1>3. {e.about : e \in A} = C \cap B
    BY <1>1, <1>2
  <1>4. QED
    BY <1>3 DEF A, B

(* If the limit takes nothing away, every candidate is shown, and so is     *)
(* some dataset of every conflicting metric.                                *)
LEMMA AllCandidatesCited ==
  ASSUME DiscoveryInv, progress = "returned", Cardinality(Candidates) <= asked.limit
  PROVE  Conflicts \subseteq UNION {MetricsOf[d] : d \in shown}
  <1>1. shown \subseteq Candidates /\ Cardinality(shown) = AtMost(asked.limit, Cardinality(Candidates))
    BY ReturnedAreTop
  <1>2. Candidates \subseteq Catalogued
    BY DEF Candidates, Baselines, VectorFound
  <1>3. IsFiniteSet(Candidates)
    BY <1>2, DiscoveryConstants, FS_Subset
  <1>4. Cardinality(Candidates) \in Nat /\ asked.limit \in Nat
    BY <1>3, FS_CardinalityType DEF DiscoveryInv, DiscoveryTypeOK
  <1>5. Cardinality(shown) = Cardinality(Candidates)
    BY <1>1, <1>4 DEF AtMost
  <1>6. shown = Candidates
    BY <1>1, <1>3, <1>5, FS_Subset
  <1>7. QED
    BY <1>6 DEF Conflicts, Comparable, Eligible

(* A request for clarification is about the conflicts among all candidates, *)
(* and cites the definition of each that a dataset in the context has.      *)
THEOREM ClarificationsCiteTheirConflicts == ReasoningSpec => []ClarificationCites
  <1> DEFINE Said == answer.outcome = "clarify" =>
               /\ progress = "returned" /\ status = "CLARIFICATION_REQUIRED"
               /\ catalog = UNION {EvidenceOf(d) : d \in shown}
               /\ answer.cites = AmbiguityEvidence
  <1>1. ReasoningInit => ConflictingTells /\ Said
    BY DEF ReasoningInit, DiscoveryInit, ConflictingTells, Assessed, NoAnswer
  <1>2. StatusTells /\ ConflictingTells /\ [ReasoningNext]_allVars => ConflictingTells'
    BY ConflictingStep
  <1>3. GovernedInv /\ Said /\ [ReasoningNext]_allVars => Said'
    <2> SUFFICES ASSUME GovernedInv, Said, [ReasoningNext]_allVars, answer'.outcome = "clarify"
                 PROVE  /\ progress' = "returned" /\ status' = "CLARIFICATION_REQUIRED"
                        /\ catalog' = UNION {EvidenceOf(d)' : d \in shown'}
                        /\ answer'.cites = AmbiguityEvidence'
      OBVIOUS
    <2>1. ASSUME UNCHANGED <<discoveryVars, catalog>>
          PROVE  /\ UNCHANGED <<progress, status, catalog>>
                 /\ UNION {EvidenceOf(d)' : d \in shown'} = UNION {EvidenceOf(d) : d \in shown}
                 /\ AmbiguityEvidence' = AmbiguityEvidence
      <3>1. UNCHANGED <<progress, status, conflicting, observed, shown, catalog>>
        BY <2>1 DEF discoveryVars
      <3>2. \A d : EvidenceOf(d)' = EvidenceOf(d)
        BY <3>1 DEF EvidenceOf
      <3>3. QED
        BY <3>1, <3>2 DEF AmbiguityEvidence
    <2>2. CASE UNCHANGED <<discoveryVars, catalog, answer>>
      BY <2>1, <2>2
    <2>3. CASE Judge
      <3>1. /\ draft # NoDraft /\ UNCHANGED <<discoveryVars, catalog>>
            /\ status = "CLARIFICATION_REQUIRED" /\ answer'.cites = AmbiguityEvidence
        BY <2>3 DEF Judge, NoAnswer
      <3>2. progress = "returned" /\ catalog = UNION {EvidenceOf(d) : d \in shown}
        BY <3>1 DEF GovernedInv, CatalogTells
      <3>3. QED
        BY <2>1, <3>1, <3>2
    <2>4. CASE Consult
      BY <2>4 DEF Consult, NoAnswer
    <2>5. CASE Retrieve
      <3>1. progress # "returned" /\ UNCHANGED answer
        BY <2>5, ReturnedStays DEF Retrieve, reasoningVars
      <3>2. QED
        BY <3>1
    <2>6. QED
      BY <2>2, <2>3, <2>4, <2>5 DEF ReasoningNext, allVars, reasoningVars
  <1>4. DiscoveryInv /\ ConflictingTells /\ Said => ClarificationCites
    <2> SUFFICES ASSUME DiscoveryInv, ConflictingTells, Said, answer.outcome = "clarify"
                 PROVE  ClarificationCites
      BY DEF ClarificationCites
    <2>1. /\ progress = "returned" /\ status = "CLARIFICATION_REQUIRED"
          /\ catalog = UNION {EvidenceOf(d) : d \in shown}
          /\ answer.cites = AmbiguityEvidence
      OBVIOUS
    <2>2. conflicting = Conflicts /\ conflicting # {}
      BY <2>1 DEF ConflictingTells, Assessed
    <2>3. {e.about : e \in answer.cites} = conflicting \cap UNION {MetricsOf[d] : d \in shown}
      BY <2>1, DefinitionsInContext DEF AmbiguityEvidence
    <2>4. Cardinality(Candidates) <= asked.limit => ConflictIsCited
      BY <2>1, <2>2, <2>3, AllCandidatesCited DEF ConflictIsCited
    <2>5. QED
      BY <2>2, <2>3, <2>4 DEF ClarificationCites
  <1>5. GovernedInv => StatusTells
    BY DEF GovernedInv
  <1>6. QED
    BY <1>1, <1>2, <1>3, <1>4, <1>5, ReasoningKeepsGoverned, DiscoveryKeepsInv, PTL DEF ReasoningSpec
=============================================================================
