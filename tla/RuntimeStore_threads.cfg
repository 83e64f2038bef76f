\* Handler threads under faults: writers, a reader of a context, a discovery.
SPECIFICATION FairSpec
CONSTANTS
  d1 = d1  d2 = d2  elsewhere = elsewhere
  p1 = p1  p2 = p2  p3 = p3  p4 = p4
  v1 = v1  x1 = x1
  NoPost = NoPost
  Datasets = {d1, d2}
  Posts = {p1, p2, p3, p4}
  Of <- MCOf
  At <- MCAt
  Epoch <- MCEpoch
  Counted = {p1, p2, p3}
  Views = {v1}
  Viewed <- MCViewed
  Limit = 1
  Discoveries = {x1}
  Faults = TRUE
INVARIANTS AnsweredIsServed ContextHangsTogether AttachedNotOlder
PROPERTIES KeepsLedger HistoryReachesSnapshot
CHECK_DEADLOCK FALSE
