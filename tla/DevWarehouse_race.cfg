\* Two processes that prune after each replacement, one backup kept.
SPECIFICATION Spec
CONSTANTS
  Targets = {t1}
  Scratch = {s1}
  Contents = {v1, v2, v3}
  Clients = {c1, c2}
  Writers = {c1, c2}
  Absent = Absent
  NoClient = NoClient
  NoName = NoName
  MaxStamp = 3
  Keeps = {1}
  PassPreserve = TRUE
  MonotonicClock = TRUE
  StatementFaults = FALSE
  Crashes = FALSE
INVARIANT UndoAvailable
CHECK_DEADLOCK FALSE
