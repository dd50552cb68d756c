\* Any exit, any VMCS access failing, any of the paths switched on.
SPECIFICATION Spec
CONSTANTS
  Period = 2
INVARIANTS
  ResumesExactly
  ReturnsUntouched
  FailureSynchronized
PROPERTIES
  TimerServed
CHECK_DEADLOCK FALSE
