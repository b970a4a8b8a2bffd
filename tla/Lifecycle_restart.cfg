SPECIFICATION Spec
CONSTANTS
  Flow = {1}
  Target = {t1, t2}
  Key = {k1}
  Stateless = stateless
  FlowDescriptors <- MCFlowDescriptors
  Declarations <- MCDeclarations
  Policies <- MCPolicies
  Persistent = TRUE
  MaxHistory = 1
  MaxMigrations = 2
  MaxBatch = 1
  MaxTopology = 2
  MaxSchedule = 2
  MaxRecommendations = 2
  MaxAuthorizations = 1
  MaxAttempts = 2
  MaxRestarts = 2
  MaxIncarnation = 1
  MaxCapability = 1
  MaxFlowGeneration = 2
  MaxPolicy = 1
  StickyPolicies = {FALSE}
  StatelessFlows = TRUE
SYMMETRY MCSymmetry
INVARIANT TypeOK
INVARIANT InFlightIsCurrent
INVARIANT VerifiedIsBacked
INVARIANT HolderIsAssigned
INVARIANT AssignedIsRegistered
INVARIANT UsableOnCurrentTopology
PROPERTY TerminalIsFinal
