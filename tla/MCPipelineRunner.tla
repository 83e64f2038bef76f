-------------------------- MODULE MCPipelineRunner --------------------------
(* Three datasets: mart reads silver and gold, gold reads silver, and       *)
(* silver alone reads a raw source, as in the repository's own project.     *)
EXTENDS PipelineRunner, TLC

Chain == {"silver", "gold", "mart"}
ChainInputs ==
  ("silver" :> {} @@ "gold" :> {"silver"} @@ "mart" :> {"gold"})
ChainReads == ("silver" :> {"raw"} @@ "gold" :> {} @@ "mart" :> {})
ChainPosition == ("silver" :> 1 @@ "gold" :> 2 @@ "mart" :> 3)

Pair == {"silver", "gold"}
PairInputs == ("silver" :> {} @@ "gold" :> {"silver"})
PairReads == ("silver" :> {"raw"} @@ "gold" :> {"raw"})
PairPosition == ("silver" :> 1 @@ "gold" :> 2)

RawSources == {"raw"}

\* Runners that differ in nothing but their name.
Interchangeable == Permutations(Writers \ Observers)
=============================================================================
