\* One stage at a time, as the README's order of use has it; any stage may
\* die between two steps.
SPECIFICATION Spec
CONSTANTS
  MaxGen = 2
  MaxBuild = 3
  Overlap = FALSE
INVARIANTS
  TypeOK
  DomainRuntimeGenuine
PROPERTIES
  ImplementsLifecycle
CHECK_DEADLOCK FALSE
