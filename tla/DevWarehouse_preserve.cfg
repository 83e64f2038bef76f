\* Two processes that prune after each replacement, two backups kept.
SPECIFICATION Spec
CONSTANTS
  Targets = {t1}
  Scratch = {s1}
  Contents = {v1, v2}
  Clients = {c1, c2}
  Writers = {c1, c2}
  Absent = Absent
  NoClient = NoClient
  NoName = NoName
  MaxStamp = 3
  Keeps = {2}
  PassPreserve = TRUE
  MonotonicClock = TRUE
  StatementFaults = TRUE
  Crashes = TRUE
SYMMETRY Symmetry
INVARIANT UndoAvailable
PROPERTY PruneReachesKeep
CHECK_DEADLOCK FALSE
