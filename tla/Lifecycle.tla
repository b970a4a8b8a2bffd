----------------------------- MODULE Lifecycle -----------------------------
(***************************************************************************)
(* The coordinator's decision and effect lifecycle (src/src/engine.cpp and *)
(* the commit half of src/src/placement.cpp): flows and targets come and   *)
(* go, placements publish assignments and recommendations, authorizations  *)
(* are granted on recommendations, and migration attempts go from intent   *)
(* to acknowledgement, applied effect and verified effect, while new       *)
(* generations, incarnations, removals and restarts supersede them.        *)
(*                                                                         *)
(* Every public operation holds state_mutex from its first check to its    *)
(* persist, so an operation is one action.  A refused operation changes    *)
(* counters only and is a stuttering step.  Messages from executors        *)
(* (acknowledgements, applied effects, observations) may be lost, late,    *)
(* repeated or reordered: nothing obliges one to arrive, one arrives in    *)
(* any state, and a repeated one is either refused or changes nothing.     *)
(*                                                                         *)
(* Abstractions.  The boot identity changes exactly when the epoch does    *)
(* and is carried by it.  A stateless flow has key Stateless.  Lifecycle   *)
(* values other than Ready are one value, NotReady.  Digests, reasons,     *)
(* timestamps, counters and assignment ids steer nothing and are left out; *)
(* so are fences, which no operation reads.  A stateful intent needs a     *)
(* safe contract that covers it: one can be registered in any state, so    *)
(* the contract table adds no behaviour and is left out.  Commits succeed. *)
(***************************************************************************)
EXTENDS Naturals, FiniteSets

CONSTANTS
  Flow,              \* flow ids, compared by <
  Target,            \* target ids
  Key,               \* exclusive state keys
  Stateless,         \* the "key" of a flow with no exclusive state
  FlowDescriptors,   \* the descriptors register_flow is called with
  Declarations,      \* the descriptors declare_target is called with
  Policies,          \* the policies set_policy is called with
  Persistent,        \* EngineConfig::persistence_enabled
  MaxHistory,        \* EngineConfig::max_history
  MaxMigrations,     \* EngineConfig::max_migrations, attempts in flight
  MaxBatch           \* most flows one placement request decides

\* Bounds of the exploration.  The code's counters are 64-bit.
CONSTANTS MaxTopology, MaxSchedule, MaxRecommendations, MaxAuthorizations,
          MaxAttempts, MaxRestarts

VARIABLES
  epoch, restarts,           \* coordinator epoch, counters.restarts
  policy,                    \* generation 0 while no policy is present
  schedule_generation, topology_generation,
  flows, targets,            \* the std::maps of descriptors, by id
  assignments,               \* by flow
  holders,                   \* holder of exclusive state, by key
  recommendations, authorizations,
  next_recommendation, next_authorization,
  migrations, next_attempt   \* every attempt ever issued, by attempt id

decisions == <<schedule_generation, assignments, holders>>
authority == <<recommendations, authorizations,
               next_recommendation, next_authorization>>
attempts == <<migrations, next_attempt>>
vars == <<epoch, restarts, policy, topology_generation, flows, targets,
          decisions, authority, attempts>>

Generation == Nat \ {0}
FlowDescriptor == [generation: Generation, key: Key \cup {Stateless},
                   allow_migration: BOOLEAN]
Declaration == [incarnation: Generation, capability_generation: Nat,
                topology_generation: Nat, lifecycle: {"Ready", "NotReady"},
                supports_migration: BOOLEAN]
TargetState == [incarnation: Generation, capability_generation: Nat,
                topology_generation: Nat, lifecycle: {"Ready", "NotReady"},
                supports_migration: BOOLEAN, declared: BOOLEAN]
Policy == [generation: Nat, sticky: BOOLEAN, allow_migration: BOOLEAN]
Effect == {"Unknown", "IntentIssued", "Acknowledged", "Applied", "Verified"}
Assignment == [flow_generation: Generation, target: Target,
               incarnation: Generation, capability_generation: Nat,
               effect: Effect]
StateHolder == [flow: Flow, flow_generation: Generation, target: Target,
                incarnation: Generation, handoff_pending: BOOLEAN,
                pending_attempt: Nat]
Recommendation == [id: Nat, flow: Flow, flow_generation: Generation,
                   target: Target, incarnation: Generation,
                   capability_generation: Nat, policy_generation: Nat,
                   schedule_generation: Nat, topology_generation: Nat,
                   epoch: Nat]
Authorization == [id: Nat, flow: Flow, flow_generation: Generation,
                  target: Target, policy_generation: Nat,
                  schedule_generation: Nat, epoch: Nat, granted: BOOLEAN]
InFlightPhase == {"IntentIssued", "SourceAcknowledged",
                  "DestinationAcknowledged", "EffectApplied"}
Terminal == {"Completed", "Aborted", "Fenced"}
MigrationRecord == [flow: Flow, flow_generation: Generation,
                    source_target: Target, source_incarnation: Generation,
                    destination_target: Target,
                    destination_incarnation: Generation,
                    destination_capability_generation: Nat,
                    epoch: Nat, phase: InFlightPhase \cup Terminal,
                    source_acknowledged: BOOLEAN,
                    destination_acknowledged: BOOLEAN,
                    effect_applied: BOOLEAN]

ASSUME LifecycleAssumption ==
  /\ Flow \subseteq Nat /\ IsFiniteSet(Flow)
  /\ Stateless \notin Key
  /\ FlowDescriptors \subseteq FlowDescriptor
  /\ Declarations \subseteq Declaration
  /\ Policies \subseteq Policy
  /\ Persistent \in BOOLEAN
  /\ MaxHistory \in Nat /\ MaxMigrations \in Nat /\ MaxBatch \in Nat

-----------------------------------------------------------------------------
(* std::map operations on partial functions. *)

Insert(m, k, v) == [x \in DOMAIN m \cup {k} |-> IF x = k THEN v ELSE m[x]]
Erase(m, S) == [x \in DOMAIN m \ S |-> m[x]]

Stateful(f) == flows[f].key # Stateless
InFlight == {a \in DOMAIN migrations : migrations[a].phase \notin Terminal}
Touching(t) == {a \in InFlight : \/ migrations[a].source_target = t
                                 \/ migrations[a].destination_target = t}
\* Faulty variants, here and below, are named Faulty...: each is the definition
\* that follows with one plausible mistake, and breaks a property.
FaultyInFlightOf(f) == {a \in InFlight : /\ migrations[a].flow = f
                                         /\ migrations[a].phase = "IntentIssued"}
InFlightOf(f) == {a \in InFlight : migrations[a].flow = f}

\* A target new flows may be sent to: trusted, and Ready.
Usable(t) == /\ t \in DOMAIN targets
             /\ targets[t].declared
             /\ targets[t].lifecycle = "Ready"

\* Every attempt of S ends in the given phase.
EndAttempts(S, phase) ==
  [a \in DOMAIN migrations |->
     IF a \in S THEN [migrations[a] EXCEPT !.phase = phase] ELSE migrations[a]]

\* The holders that wait for an attempt of S wait no longer.
ReleaseHandoff(S) ==
  [k \in DOMAIN holders |->
     IF holders[k].pending_attempt \in S
     THEN [holders[k] EXCEPT !.handoff_pending = FALSE, !.pending_attempt = 0]
     ELSE holders[k]]

\* What was known of the effect of the assignments in S is no longer known.
WithEffect(S, effect) ==
  [f \in DOMAIN assignments |->
     IF f \in S THEN [assignments[f] EXCEPT !.effect = effect] ELSE assignments[f]]
FaultyAssignedTo(t) == {f \in DOMAIN assignments :
  assignments[f].target = t /\ assignments[f].effect # "Verified"}
AssignedTo(t) == {f \in DOMAIN assignments : assignments[f].target = t}

FaultyHeldByNone(f) == {}
FaultyHeldByAny(f) == {k \in DOMAIN holders : k = flows[f].key}
\* The keys whose exclusive state flow f holds.
HeldBy(f) == {k \in DOMAIN holders : k = flows[f].key /\ holders[k].flow = f}

\* The MaxHistory newest entries of a table: evict_history drops lowest ids.
Newest(S) == {r \in S : Cardinality({q \in S : q.id > r.id}) < MaxHistory}

-----------------------------------------------------------------------------
\* A fresh store, opened for the first time.
Init ==
  /\ epoch = 1 /\ restarts = 1
  /\ policy = [generation |-> 0, sticky |-> TRUE, allow_migration |-> FALSE]
  /\ schedule_generation = 0 /\ topology_generation = 0
  /\ flows = [f \in {} |-> {}] /\ targets = [t \in {} |-> {}]
  /\ assignments = [f \in {} |-> {}] /\ holders = [k \in {} |-> {}]
  /\ recommendations = {} /\ authorizations = {}
  /\ next_recommendation = 1 /\ next_authorization = 1
  /\ migrations = [a \in {} |-> {}] /\ next_attempt = 1

-----------------------------------------------------------------------------
(* Registration. *)

RegisterNewFlow(f, descriptor) ==
  /\ f \notin DOMAIN flows
  /\ flows' = Insert(flows, f, descriptor)
  /\ UNCHANGED <<epoch, restarts, policy, topology_generation, targets,
                 decisions, authority, attempts>>

\* A newer generation releases the older one's state and assignment and fences
\* its attempts.
RegisterNewGeneration(f, descriptor) ==
  /\ f \in DOMAIN flows
  /\ descriptor.generation > flows[f].generation
  /\ holders' = Erase(holders, HeldBy(f))
  /\ assignments' = Erase(assignments, {f})
  /\ migrations' = EndAttempts(InFlightOf(f), "Fenced")
  /\ flows' = Insert(flows, f, descriptor)
  /\ UNCHANGED <<epoch, restarts, policy, schedule_generation,
                 topology_generation, targets, authority, next_attempt>>

FaultyRemoveFlow(f) ==
  /\ f \in DOMAIN flows
  /\ holders' = Erase(holders, HeldBy(f))
  /\ migrations' = EndAttempts(InFlightOf(f), "Fenced")
  /\ flows' = Erase(flows, {f})
  /\ UNCHANGED <<epoch, restarts, policy, schedule_generation, assignments,
                 topology_generation, targets, authority, next_attempt>>
RemoveFlow(f) ==
  /\ f \in DOMAIN flows
  /\ holders' = Erase(holders, HeldBy(f))
  /\ assignments' = Erase(assignments, {f})
  /\ migrations' = EndAttempts(InFlightOf(f), "Fenced")
  /\ flows' = Erase(flows, {f})
  /\ UNCHANGED <<epoch, restarts, policy, schedule_generation,
                 topology_generation, targets, authority, next_attempt>>

\* The state of a target its owner has just declared.
Declared(d) == [incarnation |-> d.incarnation,
                capability_generation |-> d.capability_generation,
                topology_generation |-> d.topology_generation,
                lifecycle |-> d.lifecycle,
                supports_migration |-> d.supports_migration,
                declared |-> TRUE]

FaultyWithdraw(ts, g, exempt) ==
  [t \in DOMAIN ts |->
     IF t \notin exempt /\ ts[t].topology_generation + 1 < g
     THEN [ts[t] EXCEPT !.declared = FALSE] ELSE ts[t]]
\* Declarations derived from a topology older than g are withdrawn.
Withdraw(ts, g, exempt) ==
  [t \in DOMAIN ts |->
     IF t \notin exempt /\ ts[t].topology_generation < g
     THEN [ts[t] EXCEPT !.declared = FALSE] ELSE ts[t]]

\* Records the declaration d of target t, advancing the topology if d is newer.
Record(t, d) ==
  LET recorded == Insert(targets, t, Declared(d)) IN
  /\ d.topology_generation >= topology_generation
  /\ topology_generation' = d.topology_generation
  /\ targets' = IF d.topology_generation > topology_generation
                THEN Withdraw(recorded, d.topology_generation, {t})
                ELSE recorded

DeclareNewTarget(t, d) ==
  /\ t \notin DOMAIN targets
  /\ Record(t, d)
  /\ UNCHANGED <<epoch, restarts, policy, flows, decisions, authority, attempts>>

\* The same descriptor again: only trust and lifecycle may change.
RedeclareTarget(t, d) ==
  /\ t \in DOMAIN targets
  /\ d.incarnation = targets[t].incarnation
  /\ d.capability_generation = targets[t].capability_generation
  /\ d.topology_generation = targets[t].topology_generation
  /\ d.supports_migration = targets[t].supports_migration
  /\ Record(t, d)
  /\ UNCHANGED <<epoch, restarts, policy, flows, decisions, authority, attempts>>

\* New capabilities on the same incarnation: effects are demoted, attempts
\* stay in flight.
AdvanceCapability(t, d) ==
  /\ t \in DOMAIN targets
  /\ d.incarnation = targets[t].incarnation
  /\ d.capability_generation > targets[t].capability_generation
  /\ Record(t, d)
  /\ assignments' = WithEffect(AssignedTo(t), "Unknown")
  /\ UNCHANGED <<epoch, restarts, policy, schedule_generation, flows, holders,
                 authority, attempts>>

\* A new incarnation: effects are demoted, attempts that touch the target are
\* aborted, and the holders on it (those only) follow it and stop waiting.
NewIncarnation(t, d) ==
  /\ t \in DOMAIN targets
  /\ d.incarnation > targets[t].incarnation
  /\ Record(t, d)
  /\ assignments' = WithEffect(AssignedTo(t), "Unknown")
  /\ migrations' = EndAttempts(Touching(t), "Aborted")
  /\ holders' = [k \in DOMAIN holders |->
                   IF holders[k].target = t
                   THEN [holders[k] EXCEPT !.incarnation = d.incarnation,
                                           !.handoff_pending = FALSE]
                   ELSE holders[k]]
  /\ UNCHANGED <<epoch, restarts, policy, schedule_generation, flows,
                 authority, next_attempt>>

RemoveTarget(t) ==
  /\ t \in DOMAIN targets
  /\ targets' = [targets EXCEPT ![t].declared = TRUE, ![t].lifecycle = "NotReady"]
  /\ assignments' = WithEffect(AssignedTo(t), "Unknown")
  /\ migrations' = EndAttempts(Touching(t), "Aborted")
  /\ holders' = ReleaseHandoff(Touching(t))
  /\ UNCHANGED <<epoch, restarts, policy, schedule_generation,
                 topology_generation, flows, authority, next_attempt>>

SetPolicy(p) ==
  /\ p.generation > policy.generation
  /\ policy' = p
  /\ UNCHANGED <<epoch, restarts, topology_generation, flows, targets,
                 decisions, authority, attempts>>

SetTopologyGeneration(g) ==
  /\ g > topology_generation
  /\ topology_generation' = g
  /\ targets' = Withdraw(targets, g, {})
  /\ UNCHANGED <<epoch, restarts, policy, flows, decisions, authority, attempts>>

-----------------------------------------------------------------------------
(* Placement.  Ranking, policy and capacity only narrow which usable target *)
(* is chosen; the model leaves that choice open.                            *)

FaultyExclusiveStateFree(f) ==
  \A k \in DOMAIN holders : k = flows[f].key =>
    holders[k].flow_generation = flows[f].generation
\* No other flow, and no other generation of this one, holds the flow's state.
ExclusiveStateFree(f) ==
  \A k \in DOMAIN holders : k = flows[f].key =>
    /\ holders[k].flow = f
    /\ holders[k].flow_generation = flows[f].generation

Retained(f, t) ==
  /\ policy.sticky
  /\ f \in DOMAIN assignments
  /\ assignments[f].target = t
  /\ assignments[f].incarnation = targets[t].incarnation

\* The commit loop runs in flow order: of several flows with one key the last
\* is left as the holder.
LastByKey(fs, last) ==
  \A k \in DOMAIN last :
    /\ flows[last[k]].key = k
    /\ \A f \in fs : flows[f].key = k => f <= last[k]
FaultyKeysOf(fs) == {flows[f].key : f \in fs}
KeysOf(fs) == {flows[f].key : f \in fs} \ {Stateless}

\* What place() does with the flows it accepts, the domain of plan, each on its
\* planned target.
Changed(plan) == {f \in DOMAIN plan : ~Retained(f, plan[f])}
FaultyPublished(plan) == schedule_generation
Published(plan) == IF Changed(plan) = {} THEN schedule_generation
                                        ELSE schedule_generation + 1

\* How many accepted flows come before f.
Before(f, plan) == Cardinality({g \in DOMAIN plan : g < f})

RecommendationFor(f, plan) ==
  [id |-> next_recommendation + Before(f, plan),
   flow |-> f, flow_generation |-> flows[f].generation,
   target |-> plan[f], incarnation |-> targets[plan[f]].incarnation,
   capability_generation |-> targets[plan[f]].capability_generation,
   policy_generation |-> policy.generation,
   schedule_generation |-> Published(plan),
   topology_generation |-> topology_generation, epoch |-> epoch]

AssignmentFor(f, plan) ==
  [flow_generation |-> flows[f].generation, target |-> plan[f],
   incarnation |-> targets[plan[f]].incarnation,
   capability_generation |-> targets[plan[f]].capability_generation,
   effect |-> "Unknown"]

PlacedHolder(f, plan) ==
  [flow |-> f, flow_generation |-> flows[f].generation, target |-> plan[f],
   incarnation |-> targets[plan[f]].incarnation,
   handoff_pending |-> FALSE, pending_attempt |-> 0]

Place(plan) ==
  LET changed == Changed(plan)
      keys == KeysOf(changed)
  IN
  /\ policy.generation # 0
  /\ \A f \in DOMAIN plan : /\ f \in DOMAIN flows
                            /\ ExclusiveStateFree(f)
                            /\ Usable(plan[f])
  /\ Published(plan) <= MaxSchedule
  /\ next_recommendation + Cardinality(DOMAIN plan) <= MaxRecommendations + 1
  /\ schedule_generation' = Published(plan)
  /\ assignments' =
       [f \in DOMAIN assignments \cup changed |->
          IF f \in changed THEN AssignmentFor(f, plan) ELSE assignments[f]]
  /\ \E last \in [keys -> changed] :
       /\ LastByKey(changed, last)
       /\ holders' = [k \in DOMAIN holders \cup keys |->
                        IF k \in keys THEN PlacedHolder(last[k], plan)
                                      ELSE holders[k]]
  /\ recommendations' = Newest(recommendations \cup
                                {RecommendationFor(f, plan) : f \in DOMAIN plan})
  /\ next_recommendation' = next_recommendation + Cardinality(DOMAIN plan)
  /\ UNCHANGED <<epoch, restarts, policy, topology_generation, flows, targets,
                 authorizations, next_authorization, attempts>>

-----------------------------------------------------------------------------
(* Authority. *)

\* Every generation the recommendation was derived from is still current.
RecommendationCurrent(r) ==
  /\ r.epoch = epoch
  /\ r.schedule_generation = schedule_generation
  /\ r.policy_generation = policy.generation
  /\ r.topology_generation = topology_generation
  /\ Usable(r.target)
  /\ targets[r.target].incarnation = r.incarnation
  /\ targets[r.target].capability_generation = r.capability_generation
  /\ r.flow \in DOMAIN flows
  /\ flows[r.flow].generation = r.flow_generation
  /\ r.flow \in DOMAIN assignments
  /\ assignments[r.flow].target = r.target

Grant(r) ==
  [id |-> next_authorization, flow |-> r.flow,
   flow_generation |-> r.flow_generation, target |-> r.target,
   policy_generation |-> policy.generation,
   schedule_generation |-> schedule_generation, epoch |-> epoch,
   granted |-> TRUE]

Authorize(r) ==
  /\ RecommendationCurrent(r)
  /\ next_authorization <= MaxAuthorizations
  /\ authorizations' = Newest(authorizations \cup {Grant(r)})
  /\ next_authorization' = next_authorization + 1
  /\ UNCHANGED <<epoch, restarts, policy, topology_generation, flows, targets,
                 decisions, recommendations, next_recommendation, attempts>>

RevokeAuthorization(z) ==
  /\ z.granted
  /\ authorizations' = (authorizations \ {z}) \cup {[z EXCEPT !.granted = FALSE]}
  /\ UNCHANGED <<epoch, restarts, policy, topology_generation, flows, targets,
                 decisions, recommendations, next_recommendation,
                 next_authorization, attempts>>

-----------------------------------------------------------------------------
(* The effect lifecycle. *)

\* The checks of issue_intent on the authorization z, and on the flow.
AuthorizationCurrent(z) ==
  /\ z.granted
  /\ z.epoch = epoch
  /\ z.policy_generation = policy.generation
  /\ z.schedule_generation = schedule_generation
  /\ z.flow \in DOMAIN flows
  /\ flows[z.flow].generation = z.flow_generation
  /\ z.flow \in DOMAIN assignments

MayMigrate(f, t) ==
  LET source == assignments[f] IN
  /\ ~(t = source.target /\ targets[t].incarnation = source.incarnation)
  /\ source.target \in DOMAIN targets => targets[source.target].supports_migration
  /\ flows[f].allow_migration \/ policy.allow_migration
  /\ Cardinality(InFlight) < MaxMigrations
  /\ \A k \in DOMAIN holders : k = flows[f].key =>
       ~holders[k].handoff_pending /\ holders[k].flow = f

\* The record of an intent to move flow f to target t, and the holder of the
\* flow's exclusive state while the attempt is in flight.
Intent(f, t) ==
  [flow |-> f, flow_generation |-> flows[f].generation,
   source_target |-> assignments[f].target,
   source_incarnation |-> assignments[f].incarnation,
   destination_target |-> t, destination_incarnation |-> targets[t].incarnation,
   destination_capability_generation |-> targets[t].capability_generation,
   epoch |-> epoch, phase |-> "IntentIssued", source_acknowledged |-> FALSE,
   destination_acknowledged |-> FALSE, effect_applied |-> FALSE]

HandingOver(f) ==
  [flow |-> f, flow_generation |-> flows[f].generation,
   target |-> assignments[f].target, incarnation |-> assignments[f].incarnation,
   handoff_pending |-> TRUE, pending_attempt |-> next_attempt]

\* An intent on authorization z, which names the flow to move.
IssueIntent(z, t) ==
  LET f == z.flow IN
  /\ AuthorizationCurrent(z)
  /\ Usable(t)
  /\ MayMigrate(f, t)
  /\ next_attempt <= MaxAttempts
  /\ migrations' = Insert(migrations, next_attempt, Intent(f, t))
  /\ next_attempt' = next_attempt + 1
  /\ assignments' = WithEffect({f}, "IntentIssued")
  /\ holders' = IF Stateful(f) THEN Insert(holders, flows[f].key, HandingOver(f))
                              ELSE holders
  /\ UNCHANGED <<epoch, restarts, policy, schedule_generation,
                 topology_generation, flows, targets, authority>>

FaultyAcknowledgementDue(a, actor) ==
  /\ migrations[a].epoch = epoch
  /\ \/ actor = "Source" /\ ~migrations[a].source_acknowledged
     \/ actor = "Destination" /\ ~migrations[a].destination_acknowledged
  /\ migrations[a].phase \in {"IntentIssued", "SourceAcknowledged"}
\* An acknowledgement is taken only from the actor whose turn it is.
AcknowledgementDue(a, actor) ==
  /\ migrations[a].epoch = epoch
  /\ \/ /\ actor = "Source"
        /\ ~migrations[a].source_acknowledged
        /\ migrations[a].phase = "IntentIssued"
     \/ /\ actor = "Destination"
        /\ ~migrations[a].destination_acknowledged
        /\ migrations[a].phase = "SourceAcknowledged"

\* The record of an attempt once the actor has answered.
Acknowledged(m, actor, phase) ==
  [m EXCEPT !.phase = phase,
            !.source_acknowledged = @ \/ actor = "Source",
            !.destination_acknowledged = @ \/ actor = "Destination"]

Acknowledge(a, actor) ==
  /\ AcknowledgementDue(a, actor)
  /\ migrations' = [migrations EXCEPT
       ![a] = Acknowledged(migrations[a], actor,
                           IF actor = "Source" THEN "SourceAcknowledged"
                                               ELSE "DestinationAcknowledged")]
  /\ assignments' = WithEffect({migrations[a].flow}, "Acknowledged")
  /\ UNCHANGED <<epoch, restarts, policy, schedule_generation,
                 topology_generation, flows, targets, holders, authority,
                 next_attempt>>

\* A negative acknowledgement aborts the attempt.
Decline(a, actor) ==
  /\ AcknowledgementDue(a, actor)
  /\ migrations' = [migrations EXCEPT
       ![a] = Acknowledged(migrations[a], actor, "Aborted")]
  /\ holders' = ReleaseHandoff({a})
  /\ UNCHANGED <<epoch, restarts, policy, schedule_generation,
                 topology_generation, flows, targets, assignments, authority,
                 next_attempt>>

ReportApplied(a) ==
  /\ ~migrations[a].effect_applied
  /\ migrations[a].phase = "DestinationAcknowledged"
  /\ migrations[a].epoch = epoch
  /\ migrations' = [migrations EXCEPT
       ![a] = [migrations[a] EXCEPT !.effect_applied = TRUE,
                                    !.phase = "EffectApplied"]]
  /\ assignments' = WithEffect({migrations[a].flow}, "Applied")
  /\ UNCHANGED <<epoch, restarts, policy, schedule_generation,
                 topology_generation, flows, targets, holders, authority,
                 next_attempt>>

FaultyVerifiedAssignment(previous, m) == [previous EXCEPT !.effect = "Verified"]
\* The assignment and the holder once attempt m has been verified.
VerifiedAssignment(previous, m) ==
  [previous EXCEPT
     !.target = m.destination_target,
     !.incarnation = m.destination_incarnation,
     !.capability_generation = m.destination_capability_generation,
     !.effect = "Verified"]

VerifiedHolder(m) ==
  [flow |-> m.flow, flow_generation |-> m.flow_generation,
   target |-> m.destination_target, incarnation |-> m.destination_incarnation,
   handoff_pending |-> FALSE, pending_attempt |-> 0]

\* An observation of flow f that matches the effect its only attempt in flight
\* applied: the attempt is complete and the assignment moves.
Observe(f, a) ==
  /\ InFlightOf(f) = {a}
  /\ migrations[a].effect_applied
  /\ migrations' = EndAttempts({a}, "Completed")
  /\ assignments' = [g \in DOMAIN assignments |->
                       IF g = f THEN VerifiedAssignment(assignments[f], migrations[a])
                                ELSE assignments[g]]
  /\ holders' = IF f \in DOMAIN assignments \cap DOMAIN flows /\ Stateful(f)
                THEN Insert(holders, flows[f].key, VerifiedHolder(migrations[a]))
                ELSE holders
  /\ UNCHANGED <<epoch, restarts, policy, schedule_generation,
                 topology_generation, flows, targets, authority, next_attempt>>

FaultyAbortMigration(a) ==
  /\ migrations' = EndAttempts({a}, "Aborted")
  /\ holders' = ReleaseHandoff({a})
  /\ assignments' = WithEffect({migrations[a].flow}, "Unknown")
  /\ UNCHANGED <<epoch, restarts, policy, schedule_generation,
                 topology_generation, flows, targets, authority, next_attempt>>
AbortMigration(a) ==
  /\ a \in InFlight
  /\ migrations' = EndAttempts({a}, "Aborted")
  /\ holders' = ReleaseHandoff({a})
  /\ assignments' = WithEffect({migrations[a].flow}, "Unknown")
  /\ UNCHANGED <<epoch, restarts, policy, schedule_generation,
                 topology_generation, flows, targets, authority, next_attempt>>

-----------------------------------------------------------------------------
(* Restart.  Every operation but authorize and revoke persists before it    *)
(* returns, and what those two change is dropped here, so a crash and a     *)
(* shutdown lead to the same reopened coordinator.                          *)

RestoredHolder(f) ==
  [flow |-> f, flow_generation |-> assignments[f].flow_generation,
   target |-> assignments[f].target, incarnation |-> assignments[f].incarnation,
   handoff_pending |-> FALSE, pending_attempt |-> 0]

Restart ==
  LET kept == DOMAIN assignments \cap DOMAIN flows IN
  /\ Persistent
  /\ restarts < MaxRestarts
  /\ epoch' = epoch + 1 /\ restarts' = restarts + 1
  /\ targets' = [t \in DOMAIN targets |->
                   [targets[t] EXCEPT !.declared = FALSE, !.lifecycle = "NotReady"]]
  /\ assignments' = WithEffect({f \in DOMAIN assignments :
                                   assignments[f].effect # "Verified"}, "Unknown")
  /\ \E last \in [KeysOf(kept) -> kept] :
       /\ LastByKey(kept, last)
       /\ holders' = [k \in KeysOf(kept) |-> RestoredHolder(last[k])]
  /\ migrations' = EndAttempts(InFlight, "Fenced")
  /\ recommendations' = {} /\ authorizations' = {}
  /\ next_recommendation' = 1 /\ next_authorization' = 1
  /\ UNCHANGED <<policy, schedule_generation, topology_generation, flows,
                 next_attempt>>

\* Without persistence, shutdown and open keep every table, and the previous
\* epoch is taken to be 0.
ReopenInMemory ==
  /\ ~Persistent
  /\ restarts < MaxRestarts
  /\ epoch' = 1 /\ restarts' = restarts + 1
  /\ UNCHANGED <<policy, topology_generation, flows, targets, decisions,
                 authority, attempts>>

Next ==
  \/ \E f \in Flow, d \in FlowDescriptors :
       RegisterNewFlow(f, d) \/ RegisterNewGeneration(f, d)
  \/ \E f \in Flow : RemoveFlow(f)
  \/ \E t \in Target, d \in Declarations :
       \/ DeclareNewTarget(t, d) \/ RedeclareTarget(t, d)
       \/ AdvanceCapability(t, d) \/ NewIncarnation(t, d)
  \/ \E t \in Target : RemoveTarget(t)
  \/ \E p \in Policies : SetPolicy(p)
  \/ \E g \in 1..MaxTopology : SetTopologyGeneration(g)
  \/ \E fs \in (SUBSET Flow) \ {{}} :
       /\ Cardinality(fs) <= MaxBatch
       /\ \E plan \in [fs -> Target] : Place(plan)
  \/ \E r \in recommendations : Authorize(r)
  \/ \E z \in authorizations : RevokeAuthorization(z)
  \/ \E z \in authorizations, t \in Target : IssueIntent(z, t)
  \/ \E a \in DOMAIN migrations, actor \in {"Source", "Destination"} :
       Acknowledge(a, actor) \/ Decline(a, actor)
  \/ \E a \in DOMAIN migrations : ReportApplied(a) \/ AbortMigration(a)
  \/ \E f \in Flow, a \in DOMAIN migrations : Observe(f, a)
  \/ Restart
  \/ ReopenInMemory

Spec == Init /\ [][Next]_vars

-----------------------------------------------------------------------------
(* Properties. *)

\* Type correctness of the coordinator's tables; attempt ids are dense.
TypeOK ==
  /\ epoch \in Generation /\ restarts \in Generation
  /\ policy \in Policy
  /\ schedule_generation \in Nat /\ topology_generation \in Nat
  /\ DOMAIN flows \subseteq Flow /\ flows \in [DOMAIN flows -> FlowDescriptor]
  /\ DOMAIN targets \subseteq Target
  /\ targets \in [DOMAIN targets -> TargetState]
  /\ DOMAIN assignments \subseteq Flow
  /\ assignments \in [DOMAIN assignments -> Assignment]
  /\ DOMAIN holders \subseteq Key
  /\ holders \in [DOMAIN holders -> StateHolder]
  /\ recommendations \subseteq Recommendation
  /\ authorizations \subseteq Authorization
  /\ next_recommendation \in Nat /\ next_authorization \in Nat
  /\ next_attempt \in Generation
  /\ migrations \in [1..(next_attempt - 1) -> MigrationRecord]

\* Every assignment was decided for the generation its flow is registered with
\* now: redefining or removing a flow releases what was decided for it.
AssignedIsRegistered ==
  \A f \in DOMAIN assignments :
    /\ f \in DOMAIN flows
    /\ assignments[f].flow_generation = flows[f].generation

\* No effect is recorded as applied before both executors have agreed to act,
\* in whatever order their messages and repetitions of them arrive
\* (acknowledge, report_applied).
EffectsAreAcknowledged ==
  \A a \in DOMAIN migrations :
    LET m == migrations[a] IN
    /\ m.phase = "SourceAcknowledged" => m.source_acknowledged
    /\ m.phase = "DestinationAcknowledged" \/ m.effect_applied =>
         m.source_acknowledged /\ m.destination_acknowledged

\* An attempt in flight is never stale: it belongs to the running epoch, its
\* flow is registered with the attempt's generation and still assigned, and its
\* destination still runs the incarnation the intent named.  Late messages for
\* an attempt are refused by phase alone, so this is what keeps an
\* acknowledgement or an observation from acting on a superseded decision
\* (register_flow, remove_flow, declare_target, restore).
InFlightIsCurrent ==
  \A a \in InFlight :
    LET m == migrations[a] IN
    /\ m.epoch = epoch
    /\ m.flow \in DOMAIN flows
    /\ flows[m.flow].generation = m.flow_generation
    /\ m.flow \in DOMAIN assignments
    /\ m.destination_target \in DOMAIN targets
    /\ targets[m.destination_target].incarnation = m.destination_incarnation

\* Attempt m is a completed one, with both acknowledgements and an applied
\* effect, that put this generation of flow f at exactly the assignment's target,
\* incarnation and capability generation.
Backs(m, f, assignment) ==
  /\ m.phase = "Completed" /\ m.flow = f
  /\ m.source_acknowledged /\ m.destination_acknowledged /\ m.effect_applied
  /\ m.flow_generation = assignment.flow_generation
  /\ m.destination_target = assignment.target
  /\ m.destination_incarnation = assignment.incarnation
  /\ m.destination_capability_generation = assignment.capability_generation

\* "Verified" is only ever said of an assignment that a completed attempt put
\* where it is (observe; the restart keeps Verified effects).
VerifiedIsBacked ==
  \A f \in DOMAIN assignments : assignments[f].effect = "Verified" =>
    \E a \in DOMAIN migrations : Backs(migrations[a], f, assignments[f])

\* A verified assignment is on the incarnation its target runs now: a new
\* incarnation demotes it, whether it was verified before or is still being
\* migrated when the incarnation arrives (declare_target, observe).
VerifiedOnCurrentIncarnation ==
  \A f \in DOMAIN assignments : assignments[f].effect = "Verified" =>
    /\ assignments[f].target \in DOMAIN targets
    /\ targets[assignments[f].target].incarnation = assignments[f].incarnation

\* Whoever holds exclusive state is registered with that key and generation and
\* is assigned to the target the holder names, through placements, migrations,
\* new generations, removals and the rebuild at restart.
HolderIsAssigned ==
  \A k \in DOMAIN holders :
    LET h == holders[k] IN
    /\ h.flow \in DOMAIN flows /\ flows[h.flow].key = k
    /\ flows[h.flow].generation = h.flow_generation
    /\ h.flow \in DOMAIN assignments
    /\ assignments[h.flow].target = h.target
    /\ assignments[h.flow].flow_generation = h.flow_generation

\* The inductive invariant behind the properties above.  Without persistence
\* the epoch never leaves 1.
LifecycleInv ==
  /\ Persistent \/ epoch = 1
  /\ AssignedIsRegistered /\ EffectsAreAcknowledged /\ InFlightIsCurrent
  /\ VerifiedIsBacked /\ VerifiedOnCurrentIncarnation /\ HolderIsAssigned

\* While an authorization would still let an intent be issued, its flow is where
\* the authorization says, or has since completed a migration in this epoch: no
\* placement moves a flow under a live authorization, because moving it
\* publishes a new schedule generation (place, authorize, issue_intent).
AuthorityFollowsAssignment ==
  \A z \in authorizations : AuthorizationCurrent(z) =>
    \/ assignments[z.flow].target = z.target
    \/ \E a \in DOMAIN migrations :
         /\ migrations[a].flow = z.flow /\ migrations[a].phase = "Completed"
         /\ migrations[a].epoch = epoch

\* A target that may be given flows was declared under the current topology,
\* although removal makes a withdrawn target trusted again and a declaration
\* itself may advance the topology (declare_target, remove_target,
\* set_topology_generation).
UsableOnCurrentTopology ==
  \A t \in Target : Usable(t) =>
    targets[t].topology_generation = topology_generation

\* Two flows that share an exclusive state key are never both assigned
\* (README.md "No double assignment of exclusive flow state").  True when each
\* placement request decides one flow; see the batch run for several.
ExclusiveState ==
  \A f, g \in DOMAIN assignments :
    f # g => flows[f].key = Stateless \/ flows[f].key # flows[g].key

\* Every assigned flow with exclusive state is the holder of that state, so that
\* place() sees it when another flow asks for the same key, also after holders
\* were released or handed over, or rebuilt from the flows by a restart with
\* persistence.  Together with HolderIsAssigned this is what ExclusiveState rests
\* on when a request decides one flow.
AssignedHoldsState ==
  \A f \in DOMAIN assignments : Stateful(f) =>
    flows[f].key \in DOMAIN holders /\ holders[flows[f].key].flow = f

\* A finished attempt stays exactly as it finished, whatever message, abort or
\* restart comes later, and no attempt is ever forgotten (states.md: a fenced
\* attempt is never resumed).
TerminalIsFinal ==
  [][\A a \in DOMAIN migrations :
       /\ a \in DOMAIN migrations'
       /\ migrations[a].phase \in Terminal => migrations'[a] = migrations[a]]_vars

=============================================================================
