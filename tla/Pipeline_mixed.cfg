\* Stages started in several terminals.
SPECIFICATION Spec
CONSTANTS
  MaxGen = 2
  MaxBuild = 2
  Overlap = TRUE
INVARIANTS
  DomainRuntimeGenuine
CHECK_DEADLOCK FALSE
