SPECIFICATION Spec
CONSTANTS
  Flow = {1, 2}
  Target = {1, 2}
  Kind = {k1}
  Dim = {"pps"}
  MaxAmount = 4
  NoTarget = 0
  MaxRanked = 2
  MaxRequests = 2
  RequestId = {1, 2}
  FlowDescriptors <- MCFlowDescriptors
  Declarations <- MCDeclarations
  Policies <- MCPolicies
  Loads <- MCLoads
  MaxSchedule = 2
  Demands = {2}
  Anchors = {0}
  Capacities = {3}
  Costs = {1}
  Domains = {"Offload"}
  MaxFlowGeneration = 1
  MaxIncarnation = 1
  MaxPolicy = 1
  StickyPolicies = {TRUE}
  LoadModels = {"ScheduledOnly"}
  WithoutEvidence = {FALSE}
  MinImprovement = 1
  Reserve = 0
  LoadStates = {}
PROPERTY PlacementFits
