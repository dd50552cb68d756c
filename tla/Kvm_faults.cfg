\* Everything fails, everybody is killed, and a backup decays, in one work directory.
SPECIFICATION Spec
CONSTANTS
  MaxRun = 3
  Instances = {p1, p2}
  p1 = p1
  p2 = p2
  SameRoot = TRUE
  Kills = TRUE
  RestoreFaults = TRUE
  Damage = TRUE
  EarlyKvm = TRUE
INVARIANTS
  TypeOK
  IdleMeansMatched
  PairRecoverable
PROPERTIES
  ReplacesOnlySaved
  InstallReportsPair
  FailedInstallUndone
  RestoreReportsPair
SYMMETRY Symmetry
CHECK_DEADLOCK FALSE
