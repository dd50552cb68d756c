\* Stages started in several terminals.
SPECIFICATION Spec
CONSTANTS
  MaxGen = 2
  MaxBuild = 3
  Overlap = TRUE
INVARIANTS
  BuildInfoHonest
PROPERTIES
  AcceptedBuildsGenuine
CONSTRAINT FirstDeployment
CHECK_DEADLOCK FALSE
