\* The table against what kvm_cpuid answers, with everything that changes it.
SPECIFICATION Spec
CONSTANTS
  Functions = {0, 1, 2, 6, 7, 11, 12, 13, 14}
  Indexes = {0, 1}
  RuntimeLeaves = {1, 7}
  TsxLeaf = 7
  InvtscLeaf = 13
  HostLeaves = {6}
  TopologyLeaves = {11}
  Size = 7
  ProbeLimit = 3
  Models <- MCModels
  Home <- MCHome
  Queries <- MCQueries
INVARIANTS
  TypeOK
  TableIsCurrent
  EarlyAgrees
  SlotsReachable
PROPERTIES
  AnswersAsPromised
