SPECIFICATION Spec
CONSTANTS
  Pipelines <- Pair
  Inputs <- PairInputs
  Reads <- PairReads
  Position <- PairPosition
  Sources <- RawSources
  Runners = {w1}
  Observers = {w1}
  Writers = {}
  MaxRuns = 2
  Restores = FALSE
  Faults = FALSE
  NoRunner = NoRunner
  NoPipeline = NoPipeline
INVARIANT NothingLeftBehind
