\* Failures, kills and reboots at any command; the owner acts and edits at any time.
SPECIFICATION Spec
CONSTANTS
  MaxGen = 2
  MaxEdit = 1
  Adapters = 2
  Faults = TRUE
INVARIANTS
  TypeOK
  AppliedStaysOperational
  RunningHasNetwork
  GuestIsolated
  OldNetworksRemoved
PROPERTIES
  UnitCanStart
  DomainNetworksKept
VIEW NothingUnused
CHECK_DEADLOCK FALSE
