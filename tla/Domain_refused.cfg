\* 01 and then 04 on the domain of the owner, without an edit in between.
SPECIFICATION Spec
CONSTANTS
  Catalog <- MCCatalog
  HostSlots = 2
  HostPorts <- MCHostPorts
  Bays <- MCBays
  Domains <- MCDomains
  Totals = {16}
  MaxEdits = 0
INVARIANTS
  RegenerateSuffices
CHECK_DEADLOCK FALSE
