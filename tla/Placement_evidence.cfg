SPECIFICATION Spec
CONSTANTS
  Flow = {1, 2}
  Target = {1, 2}
  Kind = {k1}
  Dim = {"pps"}
  MaxAmount = 6
  NoTarget = 0
  MaxRanked = 2
  MaxRequests = 2
  RequestId = {1}
  FlowDescriptors <- MCFlowDescriptors
  Declarations <- MCDeclarations
  Policies <- MCPolicies
  Loads <- MCLoads
  MaxSchedule = 1
  Demands = {2}
  Anchors = {0, 1}
  Capacities = {4}
  Costs = {1}
  Domains = {"Offload"}
  MaxFlowGeneration = 1
  MaxIncarnation = 1
  MaxPolicy = 1
  StickyPolicies = {TRUE}
  LoadModels = {"MaximumOfBoth", "SumConservative"}
  WithoutEvidence = {TRUE, FALSE}
  MinImprovement = 1
  Reserve = 1
  LoadStates = {"Known", "Conflicting"}
PROPERTY BatchConservesCapacity
PROPERTY NoMoveBack
