\* Two virtual CPUs; every pinning, every affinity mask.
SPECIFICATION Spec
CONSTANTS
  Vcpus = 2
  Cpus <- MCCpus
PROPERTIES
  PinningIsExclusive
  ApplyIsStable
  BoundCpusKept
CHECK_DEADLOCK FALSE
