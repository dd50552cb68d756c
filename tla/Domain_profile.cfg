\* Every topology on three buses, before and after one edit; 64 GiB in two
\* slots, and 68 GiB, which no vendor makes in two.
SPECIFICATION Spec
CONSTANTS
  Catalog <- MCCatalog
  HostSlots = 2
  HostPorts <- MCHostPorts
  Bays <- MCBays
  Domains <- MCDomains
  Totals = {16, 17}
  MaxEdits = 1
INVARIANTS
  RefusalExplained
  IdentitiesAssigned
  LayoutIsBest
  MemoryTablesExact
PROPERTIES
  ReapplyIsNoop
CHECK_DEADLOCK FALSE
