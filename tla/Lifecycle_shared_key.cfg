SPECIFICATION Spec
CONSTANTS
  Flow = {1, 2}
  Target = {t1, t2}
  Key = {k1}
  Stateless = stateless
  FlowDescriptors <- MCFlowDescriptors
  Declarations <- MCDeclarations
  Policies <- MCPolicies
  Persistent = FALSE
  MaxHistory = 1
  MaxMigrations = 2
  MaxBatch = 1
  MaxTopology = 1
  MaxSchedule = 2
  MaxRecommendations = 2
  MaxAuthorizations = 1
  MaxAttempts = 1
  MaxRestarts = 2
  MaxIncarnation = 2
  MaxCapability = 2
  MaxFlowGeneration = 1
  MaxPolicy = 1
  StickyPolicies = {FALSE}
  StatelessFlows = FALSE
SYMMETRY MCSymmetry
INVARIANT ExclusiveState
INVARIANT EffectsAreAcknowledged
INVARIANT AssignedHoldsState
INVARIANT AuthorityFollowsAssignment
INVARIANT VerifiedOnCurrentIncarnation
