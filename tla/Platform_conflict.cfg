\* The same instances: what a clarification cites when the limit cuts a candidate.
SPECIFICATION PlatformSpec
CONSTANTS
  SpecFiles = {1, 2, 3}
  PipelineIds = {1, 2, 3}
  DatasetIds = {"a", "b", "c"}
  Contracted = {"a", "b", "c"}
  Written <- GraphTexts
  Unparsable = Unparsable
  Servers = {s1}
  RepoIds = {1, 2, 3, 4}
  RepoDatasets = {"a", "b", "c", "d"}
  FirstProject <- RepoFan
  FirstContracts = {"a", "b", "c"}
  Offers <- AgentOffers
  MaxPackages = 2
  Statements = 2
  NoOffer = NoOffer
  Paths = {"m1", "m2", "m3"}
  Generations <- PathGenerations
  MaxExports = 3
  Missing = Missing
  Torn = Torn
  Deployers = {e1, e2}
  Versions = {v1, v2}
  Good = {v1}
  FirstVersion = v1
  Gone = Gone
  MaxCalls = 2
  Tables = {1, 2, 3, 4}
  DraftIds = {"a", "b", "c"}
  DraftFiles = {"fa", "fb"}
  TableId <- Identities
  FileName <- FileNames
  Registered = {"b"}
  NoContract = NoContract
  McpServers = {m1, m2}
  Others = {h1}
  Commands = {c1, c2}
  Scripts = {x1}
  Sessions = 3
  Months = {1, 2, 3}
  MaxDownloads = 2
  Columns = {"k", "v"}
  Builds <- SmallBuilds
  Null = Null
  NotFinite = NotFinite
  NoCandidate = NoCandidate
  Blocks = {1, 2, 3}
  Names = {"x", "X", "v"}
  Folded <- FoldedNames
  Catalog = {"v"}
  Relations = {"in", "other"}
  Declared = {"in"}
  Texts <- SmallTexts
  NoText = NoText
  Catalogued = {1, 2, 3}
  Metrics = {1, 2, 3}
  MetricsOf <- OwnMetrics
  NotEquivalent <- DeclaredDistinct
  Certified = {1}
  Gold = {2}
  Questions <- SmallQuestions
  Observations <- SmallObservations
  Unobserved = Unobserved
  NoQuestion = NoQuestion
  Replies <- SmallReplies
  Nowhere = Nowhere
  NoDraft = NoDraft
INVARIANT ConflictIsCited
CHECK_DEADLOCK FALSE
