-------------------------- MODULE PlacementClaims --------------------------
(* What the repository says of placement where the code does something else. *)
(* Claim_capacity checks the first; the README gives the constants with      *)
(* which TLC violates each of the others.                                    *)
EXTENDS Placement

\* README.md: "committed demand per target never exceeds its capacity".  A
\* placement refreshes the cached demand before it makes its assignments, so the
\* next placement evaluates its targets without them.
PlacementFits ==
  [][Publishes /\ CountsCommitments =>
       \A t \in DOMAIN targets :
         Gained(t) # {} => Dominates(Room(t), Committed(t)')]_vars

\* architecture.md: planned and released demand are tracked "so that capacity is
\* conserved across the batch".  When the demand of a target and the additions
\* of a batch overflow, the releases are taken off the saturated sum, and the
\* target appears to have room that it has not.
BatchNeverOverfills ==
  [][Publishes /\ Accurate /\ CountsCommitments =>
       \A t \in DOMAIN targets :
         Gained(t) # {} => Dominates(Room(t), Committed(t)')]_vars

\* limitations.md: "The capacity check at apply time is exact".  No step from
\* issuing an intent to verifying it looks at capacity.
MigrationFits ==
  [][\A f \in Flow, t \in Target :
       CompleteMigration(f, t) =>
         Dominates(targets[t].descriptor.capacity, Committed(t)')]_vars

\* A flow on a target that is ready, permitted and able to carry the demand
\* committed to it, by a schedule that is up to date.
Healthy(f) ==
  /\ f \in DOMAIN assignments /\ Accurate
  /\ policy.load_model = "ScheduledOnly"
  /\ LET t == assignments[f].target IN
     /\ targets[t].lifecycle = "Ready"
     /\ Retained(f, t)
     /\ targets[t].descriptor.domain = policy.preferred
     /\ targets[t].descriptor.kind \in flows[f].runs_on
     /\ <<f, targets[t].descriptor.kind>> \in policy.permits
     /\ Local(f, t)
     /\ targets[t].load.state # "Conflicting"
     /\ Dominates(Room(t), Committed(t))

\* test_placement.cpp: "sticky_policy_retains_a_healthy_target".  The demand of
\* the flow being placed again is counted twice on its own target, once in the
\* cache and once as new demand, so a target that carries it well is refused.
StickyRetains ==
  [][Publishes =>
       \A f \in Flow : Healthy(f) /\ {g \in Flow : g \in DOMAIN assignments' /\
                          (g \in DOMAIN assignments => assignments[g] # assignments'[g])} = {f}
                       => assignments'[f] = assignments[f]]_vars

\* README.md: "Duplicate delivery is idempotent or explicitly fenced".  The table
\* of requests drops its lowest id, which may be the request just carried out;
\* the same request delivered again is then carried out again.
RequestRemembered ==
  [][\A r \in RequestId, batch \in SUBSET Flow, fresh \in SUBSET WithLoad :
       Place(r, batch, fresh) => r \in DOMAIN requests']_vars

\* limits.hpp: beyond a limit there is "never a silent truncation".  The list of
\* candidates is cut by target id before it is ranked, without a trace, and the
\* flow goes to a worse target than the best eligible one.
BestOfAllEligible ==
  \A f \in DOMAIN flows, fresh \in SUBSET WithLoad :
    LET eligible == {t \in DOMAIN targets : Eligible(f, t, NoPlan, fresh)}
    IN  eligible # {} =>
          \A t \in eligible \ {Best(f, NoPlan, fresh)} :
            Precedes(RankKey(f, Best(f, NoPlan, fresh), NoPlan, fresh),
                     RankKey(f, t, NoPlan, fresh))

=============================================================================
