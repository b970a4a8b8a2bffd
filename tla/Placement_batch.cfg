SPECIFICATION Spec
CONSTANTS
  Flow = {1, 2}
  Target = {1, 2}
  Kind = {k1}
  Dim = {"pps"}
  MaxAmount = 6
  NoTarget = 0
  MaxRanked = 2
  MaxRequests = 1
  RequestId = {1, 2}
  FlowDescriptors <- MCFlowDescriptors
  Declarations <- MCDeclarations
  Policies <- MCPolicies
  Loads <- MCLoads
  MaxSchedule = 2
  Demands = {2}
  Anchors = {0}
  Capacities = {3}
  Costs = {1}
  Domains = {"Offload"}
  MaxFlowGeneration = 2
  MaxIncarnation = 2
  MaxPolicy = 1
  StickyPolicies = {FALSE}
  LoadModels = {"ScheduledOnly"}
  WithoutEvidence = {FALSE}
  MinImprovement = 1
  Reserve = 0
  LoadStates = {}
INVARIANT TypeOK
INVARIANT PlannedDemandIsExact
PROPERTY BatchConservesCapacity
PROPERTY ScheduleRefreshed
