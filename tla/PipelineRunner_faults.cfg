SPECIFICATION Spec
CONSTANTS
  Pipelines <- Pair
  Inputs <- PairInputs
  Reads <- PairReads
  Position <- PairPosition
  Sources <- RawSources
  Runners = {w1}
  Observers = {w1}
  Writers = {w1}
  MaxRuns = 3
  Restores = TRUE
  Faults = TRUE
  NoRunner = NoRunner
  NoPipeline = NoPipeline
INVARIANTS OnlyGatedIsPublished RecordsFollowPublication BlockedStaysUntouched
INVARIANT AuditedRunsHaveLineage
PROPERTY LastSuccessStays
