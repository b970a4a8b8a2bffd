---------------------------- MODULE MCLifecycle ----------------------------
(* Instances of Lifecycle for TLC. *)
EXTENDS LifecycleClaims, TLC

CONSTANTS MaxIncarnation, MaxCapability, MaxFlowGeneration, MaxPolicy,
          StickyPolicies, StatelessFlows

\* Descriptors of flows that may migrate, in each generation; a flow may give up
\* its exclusive state in the last one.
MCFlowDescriptors ==
  {d \in [generation : 1..MaxFlowGeneration, key : Key \cup {Stateless},
          allow_migration : {TRUE}] :
     d.key = Stateless => StatelessFlows /\ d.generation = MaxFlowGeneration}

\* A first declaration under each topology generation, and ones that are newer in
\* the incarnation or in the capability generation, not in both.
MCDeclarations ==
  {d \in {[incarnation |-> i, capability_generation |-> c, topology_generation |-> g,
           lifecycle |-> "Ready", supports_migration |-> TRUE] :
             i \in 1..MaxIncarnation, c \in 1..MaxCapability, g \in 1..MaxTopology} :
     d.incarnation = 1 \/ d.capability_generation = 1}

MCPolicies ==
  {[generation |-> g, sticky |-> s, allow_migration |-> FALSE] :
     g \in 1..MaxPolicy, s \in StickyPolicies}

\* Targets are only compared for equality.
MCSymmetry == Permutations(Target)

=============================================================================
