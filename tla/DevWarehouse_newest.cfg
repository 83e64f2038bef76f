\* Two processes, sane clock, pruning by age only: no caller passes preserve.
SPECIFICATION Spec
CONSTANTS
  Targets = {t1}
  Scratch = {s1}
  Contents = {v1, v2, v3}
  Clients = {c1, c2}
  Writers = {c1, c2}
  Absent = Absent
  NoClient = NoClient
  NoName = NoName
  MaxStamp = 3
  Keeps = {1, 2}
  PassPreserve = FALSE
  MonotonicClock = TRUE
  StatementFaults = TRUE
  Crashes = TRUE
SYMMETRY Symmetry
INVARIANTS UndoAvailable AuditIsTruthful
PROPERTIES KeepsPromise OnlyInterruptionsLoseRecords
CHECK_DEADLOCK FALSE
