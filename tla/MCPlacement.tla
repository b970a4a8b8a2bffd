---------------------------- MODULE MCPlacement ----------------------------
(* Instances of Placement for TLC. *)
EXTENDS PlacementClaims

CONSTANTS Demands, Anchors, Capacities, Costs, Domains, MaxFlowGeneration,
          MaxIncarnation, MaxPolicy,
          StickyPolicies, LoadModels, WithoutEvidence, Reserve, LoadStates, MinImprovement

\* The same amount in every dimension.
All(n) == [d \in Dim |-> n]

MCFlowDescriptors ==
  {[generation |-> g, demand |-> All(n), runs_on |-> Kind, anchor |-> a,
    movable |-> TRUE] :
     g \in 1..MaxFlowGeneration, n \in Demands, a \in Anchors}

MCDeclarations ==
  {[incarnation |-> i, capability_generation |-> 1, kind |-> k,
    capacity |-> All(n), reserved |-> Zero, domain |-> dom, host |-> 1, cost |-> c] :
     i \in 1..MaxIncarnation, k \in Kind, n \in Capacities, dom \in Domains, c \in Costs}

MCPolicies ==
  {[generation |-> g, sticky |-> s, preferred |-> "Offload", only |-> FALSE,
    fallback |-> s, load_model |-> m, without_evidence |-> w, reserve |-> All(Reserve),
    permits |-> Flow \X Kind, min_improvement |-> MinImprovement] :
     g \in 1..MaxPolicy, s \in StickyPolicies, m \in LoadModels,
     w \in WithoutEvidence}

\* The amount in conflicting evidence is never read.
MCLoads == {[state |-> s, used |-> IF s = "Known" THEN All(1) ELSE Zero] : s \in LoadStates}

=============================================================================
