SPECIFICATION Spec
CONSTANTS
  Flow = {1, 2}
  Target = {t1, t2}
  Key = {k1}
  Stateless = stateless
  FlowDescriptors <- MCFlowDescriptors
  Declarations <- MCDeclarations
  Policies <- MCPolicies
  Persistent = TRUE
  MaxHistory = 2
  MaxMigrations = 2
  MaxBatch = 2
  MaxTopology = 1
  MaxSchedule = 3
  MaxRecommendations = 3
  MaxAuthorizations = 2
  MaxAttempts = 2
  MaxRestarts = 1
  MaxIncarnation = 1
  MaxCapability = 1
  MaxFlowGeneration = 1
  MaxPolicy = 1
  StickyPolicies = {TRUE}
  StatelessFlows = FALSE
SYMMETRY MCSymmetry
INVARIANT ExclusiveState
