SPECIFICATION Spec
CONSTANTS
  Pipelines <- Pair
  Inputs <- PairInputs
  Reads <- PairReads
  Position <- PairPosition
  Sources <- RawSources
  Runners = {w1, w2, w3}
  Observers = {w3}
  Writers = {w1, w2}
  MaxRuns = 3
  Restores = FALSE
  Faults = FALSE
  NoRunner = NoRunner
  NoPipeline = NoPipeline
SYMMETRY Interchangeable
INVARIANT RecordsFollowPublication
PROPERTY KeepsPromise
