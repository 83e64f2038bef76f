------------------------------- MODULE Discovery -------------------------------
(***************************************************************************)
(* How a question becomes a short list of datasets: prohibited uses exclude *)
(* datasets, the rest is scored, hybrid mode fuses that ranking with a      *)
(* vector search, similarly relevant metrics that are declared              *)
(* non-equivalent make the question ambiguous, and only then the latest     *)
(* observations move candidates up or down and the list is cut.             *)
(***************************************************************************)
EXTENDS Integers, FiniteSets

CONSTANTS
  Catalogued,     \* datasets of the registry, in the order of their ids
  Metrics,        \* metrics, in the order of their ids
  MetricsOf,      \* MetricsOf[d]: metric_ids
  NotEquivalent,  \* pairs of metrics declared non-equivalent
  Certified,      \* certified datasets
  Gold,           \* datasets of the gold layer
  Questions,      \* what a question matches in the registry: see QuestionType
  Observations,   \* latest observations a dataset may have
  Unobserved,
  NoQuestion

\* points: keyword, domain, use-case, audience and freshness points; score and
\* terms: of the metrics' deterministic match; vector: documents found by
\* similarity (in tenths), each with the datasets it stands for and the metric
\* it is of, 0 for none.
Documents == [datasets : SUBSET Catalogued, metric : Metrics \cup {0}, similarity : 1..10]
QuestionType ==
  [prohibited : SUBSET Catalogued, points : [Catalogued -> Nat],
   score : [Metrics -> Nat], terms : [Metrics -> SUBSET {"a", "b"}],
   vector : SUBSET Documents]
ObservationType ==
  [freshness : {"fresh", "stale", "unknown"}, quality : {"passing", "warning", "failing", "unknown"},
   health : {"healthy", "degraded", "failed", "unknown"}, usage : Nat]

ASSUME DiscoveryConstants ==
  /\ Catalogued \subseteq Nat \ {0} /\ Metrics \subseteq Nat \ {0}
  /\ IsFiniteSet(Catalogued) /\ IsFiniteSet(Metrics)
  /\ MetricsOf \in [Catalogued -> SUBSET Metrics]
  /\ NotEquivalent \subseteq Metrics \X Metrics
  /\ \A m, o \in Metrics : <<m, o>> \in NotEquivalent => m # o /\ <<o, m>> \in NotEquivalent
  /\ Certified \subseteq Catalogued /\ Gold \subseteq Catalogued
  /\ \A q \in Questions : q \in QuestionType
  /\ Observations \subseteq ObservationType
  /\ NoQuestion \notin Questions /\ Unobserved \notin Observations

VARIABLES
  question,    \* what is asked
  asked,       \* [hybrid, limit]
  progress,       \* how far discover is
  baseline,    \* baseline[d]: deterministic score of a retrieved candidate, else 0
  fused,       \* fused[d]: the score of a candidate after fusion, else 0
  evidence,    \* evidence[m]: the match of an eligible metric, score 0 if there is none
  status,
  conflicting, \* conflicting_metrics of the ambiguity
  observed,    \* observed[d]: the latest observation, as the reranking read it
  shown        \* the candidates that are returned

discoveryVars == <<question, asked, progress, baseline, fused, evidence, status, conflicting, observed, shown>>

NoMatch == [score |-> 0, terms |-> {}, vector |-> FALSE]
MatchType == [score : Nat, terms : SUBSET {"a", "b"}, vector : BOOLEAN]

DiscoveryTypeOK ==
  /\ question \in Questions \cup {NoQuestion}
  /\ asked \in [hybrid : BOOLEAN, limit : Nat]
  /\ progress \in {"idle", "asked", "ranked", "fused", "assessed", "returned"}
  /\ baseline \in [Catalogued -> Nat] /\ fused \in [Catalogued -> Nat]
  /\ evidence \in [Metrics -> MatchType]
  /\ status \in {"NO_MATCH", "CLARIFICATION_REQUIRED", "RESOLVED"}
  /\ conflicting \subseteq Metrics
  /\ observed \in [Catalogued -> Observations \cup {Unobserved}]
  /\ shown \subseteq Catalogued

DiscoveryInit ==
  /\ question = NoQuestion
  /\ asked = [hybrid |-> FALSE, limit |-> 1]
  /\ progress = "idle"
  /\ baseline = [d \in Catalogued |-> 0] /\ fused = [d \in Catalogued |-> 0]
  /\ evidence = [m \in Metrics |-> NoMatch]
  /\ status = "NO_MATCH" /\ conflicting = {}
  /\ observed = [d \in Catalogued |-> Unobserved]
  /\ shown = {}

AtLeast(a, b) == IF a > b THEN a ELSE b
AtMost(a, b) == IF a < b THEN a ELSE b
Largest(S) == IF S = {} THEN 0 ELSE CHOOSE n \in S : \A k \in S : k <= n

\* Where d stands in S: by score, then by id.
Place(d, S, score) ==
  1 + Cardinality({e \in S : score[e] > score[d] \/ (score[e] = score[d] /\ e < d)})

\* limit >= 1, no more than the registry has to offer.
Ask ==
  /\ progress = "idle"
  /\ question' \in Questions
  /\ asked' \in [hybrid : BOOLEAN, limit : 1..Cardinality(Catalogued)]
  /\ progress' = "asked"
  /\ UNCHANGED <<baseline, fused, evidence, status, conflicting, observed, shown>>

-----------------------------------------------------------------------------
Excluded == question.prohibited

MetricPoints(d) == AtMost(30, 3 * Largest({question.score[m] : m \in MetricsOf[d]}))
Governance(d) == (IF d \in Certified THEN 8 ELSE 0) + (IF d \in Gold THEN 5 ELSE 0)

\* _rank_dataset: governance adds to what the question has retrieved and
\* retrieves nothing.
Retrieved(d) == question.points[d] + MetricPoints(d) > 0
RankDataset(d) ==
  IF d \in Excluded \/ ~Retrieved(d) THEN 0
  ELSE question.points[d] + MetricPoints(d) + Governance(d)

DiscoverDatasets ==
  /\ progress = "asked"
  /\ baseline' = [d \in Catalogued |-> RankDataset(d)]
  /\ evidence' = [m \in Metrics |-> [score |-> question.score[m], terms |-> question.terms[m],
                                     vector |-> FALSE]]
  /\ progress' = "ranked"
  /\ UNCHANGED <<question, asked, fused, status, conflicting, observed, shown>>

-----------------------------------------------------------------------------
\* n / d, rounded as Python does: a half goes to the even neighbour.
Rounded(n, d) ==
  LET up == (2 * n + d) \div (2 * d) IN
    IF 2 * n + d = 2 * d * up /\ up % 2 = 1 THEN up - 1 ELSE up
RrfPoints(place, weight) == Rounded(1000 * weight, 10 + place)

Baselines == {d \in Catalogued : baseline[d] > 0}
VectorSimilarity(d) == Largest({v.similarity : v \in {w \in question.vector : d \in w.datasets}})
VectorScore == [d \in Catalogued |-> IF d \in Excluded THEN 0 ELSE VectorSimilarity(d)]
VectorFound == {d \in Catalogued : VectorScore[d] > 0}

\* discover_datasets_hybrid
FusedScore(d) ==
  IF d \notin Baselines \cup VectorFound THEN 0
  ELSE (IF d \in Baselines THEN RrfPoints(Place(d, Baselines, baseline), 2) ELSE 0)
       + (IF d \in VectorFound THEN RrfPoints(Place(d, VectorFound, VectorScore), 1) ELSE 0)
       + Governance(d)

\* _hybrid_metric_matches: evidence of its own document and of its datasets.
VectorEvidence(m) ==
  AtLeast(Largest({v.similarity : v \in {w \in question.vector : w.metric = m}}),
          Largest({VectorScore[d] : d \in {e \in VectorFound : m \in MetricsOf[e]}}))

Fuse ==
  /\ progress = "ranked"
  /\ IF asked.hybrid
     THEN /\ fused' = [d \in Catalogued |-> FusedScore(d)]
          /\ evidence' = [m \in Metrics |->
               [evidence[m] EXCEPT !.score = AtLeast(@, VectorEvidence(m)),
                                   !.vector = VectorEvidence(m) > 0]]
     ELSE fused' = baseline /\ UNCHANGED evidence
  /\ progress' = "fused"
  /\ UNCHANGED <<question, asked, baseline, status, conflicting, observed, shown>>

-----------------------------------------------------------------------------
\* The union of both rankings, even where a low place has rounded to no points.
Candidates == IF asked.hybrid THEN Baselines \cup VectorFound ELSE Baselines

\* Metrics that matched and that a candidate, returned or not, supports.
Eligible == {m \in Metrics : evidence[m].score > 0 /\ \E d \in Candidates : m \in MetricsOf[d]}

\* assess_ambiguity
Comparable ==
  {m \in Eligible : \A o \in Eligible : 10 * evidence[m].score >= 7 * evidence[o].score}
Confusable(m, o) ==
  /\ <<m, o>> \in NotEquivalent
  /\ \/ evidence[m].terms \cap evidence[o].terms # {}
     \/ evidence[m].vector /\ evidence[o].vector
Conflicts == {m \in Comparable : \E o \in Comparable : Confusable(m, o)}

Assess ==
  /\ progress = "fused"
  /\ conflicting' = IF Candidates = {} THEN {} ELSE Conflicts
  /\ status' = IF Candidates = {} THEN "NO_MATCH"
               ELSE IF Conflicts = {} THEN "RESOLVED" ELSE "CLARIFICATION_REQUIRED"
  /\ progress' = "assessed"
  /\ UNCHANGED <<question, asked, baseline, fused, evidence, observed, shown>>

-----------------------------------------------------------------------------
\* runtime_ranking_reasons, from the weights of policy/ranking.py
UsagePoints(n) == IF n >= 100 THEN 5 ELSE IF n >= 20 THEN 3 ELSE IF n > 0 THEN 1 ELSE 0
RuntimePoints(o) ==
  IF o = Unobserved THEN 0
  ELSE [fresh |-> 8, stale |-> -12, unknown |-> 0][o.freshness]
       + [passing |-> 10, warning |-> -5, failing |-> -20, unknown |-> 0][o.quality]
       + [healthy |-> 8, degraded |-> -8, failed |-> -20, unknown |-> 0][o.health]
       + UsagePoints(o.usage)

Adjusted(obs) == [d \in Catalogued |-> fused[d] + RuntimePoints(obs[d])]

\* rerank_with_runtime: the whole candidate set, then the cut.
TopOf(S, score) == {d \in S : Place(d, S, score) <= asked.limit}
RerankedAfterCut(obs) == TopOf(Candidates, fused)   \* a slip: the cut before the observations

Reranked(obs) == TopOf(Candidates, Adjusted(obs))

Rerank ==
  /\ progress = "assessed"
  /\ observed' \in [Catalogued -> Observations \cup {Unobserved}]
  /\ shown' = Reranked(observed')
  /\ progress' = "returned"
  /\ UNCHANGED <<question, asked, baseline, fused, evidence, status, conflicting>>

Discover == DiscoverDatasets \/ Fuse \/ Assess \/ Rerank
DiscoveryNext == Ask \/ Discover
DiscoverySpec == DiscoveryInit /\ [][DiscoveryNext]_discoveryVars

-----------------------------------------------------------------------------
(* A prohibited dataset comes back by no way, neither a similar document    *)
(* nor a good observation; and of two candidates the one that is left out   *)
(* is never the better one, observations included                           *)
(* (docs/milestone-3-runtime-context.md, "first retrieves the full semantic *)
(* candidate set, then applies deterministic adjustments and finally        *)
(* truncates").                                                             *)
ShownAreTheBest ==
  progress = "returned" =>
    /\ shown \cap Excluded = {}
    /\ \A d \in shown, e \in Candidates \ shown :
         LET a == Adjusted(observed) IN a[d] > a[e] \/ (a[d] = a[e] /\ d < e)
    /\ Cardinality(shown) = AtMost(asked.limit, Cardinality(Candidates))
=============================================================================
