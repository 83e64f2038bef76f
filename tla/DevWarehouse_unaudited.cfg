\* A statement may raise inside a prune: of two drops the first commits, the second raises.
SPECIFICATION Spec
CONSTANTS
  Targets = {t1}
  Scratch = {s1}
  Contents = {v1, v2, v3}
  Clients = {c1}
  Writers = {c1}
  Absent = Absent
  NoClient = NoClient
  NoName = NoName
  MaxStamp = 3
  Keeps = {1}
  PassPreserve = FALSE
  MonotonicClock = TRUE
  StatementFaults = TRUE
  Crashes = FALSE
INVARIANT EveryChangeAudited
CHECK_DEADLOCK FALSE
