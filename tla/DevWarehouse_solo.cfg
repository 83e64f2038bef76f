\* One process with the keep_backups = 1 default; the clock may step back. What is
\* begun goes on unless it raises or the process dies.
SPECIFICATION FairSpec
CONSTANTS
  Targets = {t1}
  Scratch = {s1}
  Contents = {v1, v2}
  Clients = {c1}
  Writers = {c1}
  Absent = Absent
  NoClient = NoClient
  NoName = NoName
  MaxStamp = 3
  Keeps = {1}
  PassPreserve = TRUE
  MonotonicClock = FALSE
  StatementFaults = TRUE
  Crashes = TRUE
INVARIANT UndoAvailable
PROPERTY ChangesReachAudit
CHECK_DEADLOCK FALSE
