SPECIFICATION FairSpec
CONSTANTS
  Pipelines <- Chain
  Inputs <- ChainInputs
  Reads <- ChainReads
  Position <- ChainPosition
  Sources <- RawSources
  Runners = {w1}
  Observers = {w1}
  Writers = {w1}
  MaxRuns = 5
  Restores = FALSE
  Faults = FALSE
  NoRunner = NoRunner
  NoPipeline = NoPipeline
INVARIANTS BuiltFromThisInvocation LineageDescribesTables ObservationTellsRuns NothingLeftBehind
PROPERTY RunsAreRecorded
