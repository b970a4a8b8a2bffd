----------------------------- MODULE Placement -----------------------------
(***************************************************************************)
(* The placement decision (src/src/placement.cpp) and the capacity         *)
(* accounting it reads: how a batch of flows is evaluated against every    *)
(* target, ranked, planned and committed, and how the cached demand of     *)
(* each target ("scheduled") is refreshed by the other operations.         *)
(*                                                                         *)
(* Lifecycle.tla models what becomes of a decision; here only which target *)
(* a flow is assigned to matters, flows are stateless and the topology is  *)
(* fixed.  A capacity vector is a function on Dim.  The eligibility checks *)
(* on fixed fields are two sets over Kind, which stands for the values of  *)
(* those fields of a target: the kinds a flow runs on (capabilities,       *)
(* statefulness, cost bound) and the kinds the policy permits each flow    *)
(* (domains, hosts, devices, functions, capabilities, cost bound).  A      *)
(* refused request, a duplicate and a dry run change no modelled state.    *)
(* The caller chooses the evaluation instant, so any load evidence may be  *)
(* fresh or stale for a request.  An item with an outdated flow generation *)
(* is refused like an unknown flow.  Amounts stay below 2^32, where the    *)
(* utilisation needs no scaling.  A flow is movable if it is not pinned    *)
(* and it or the policy allows migration.                                  *)
(***************************************************************************)
EXTENDS Naturals, FiniteSets, Functions, Folds

CONSTANTS
  Flow, Target,        \* ids, compared by <
  Kind,                \* what the static checks tell apart in a target
  Dim,                 \* dimensions of a capacity vector
  MaxAmount,           \* largest value of the unsigned integer type
  NoTarget,            \* the decision on a refused flow
  MaxRanked,           \* kMaxRankedCandidates
  MaxRequests,         \* EngineConfig::max_requests
  RequestId,           \* ids callers give to placement requests
  FlowDescriptors,     \* the descriptors register_flow is called with
  Declarations,        \* the descriptors declare_target is called with
  Policies,            \* the policies set_policy is called with
  Loads,               \* the utilisations ingest_load accepts
  MaxSchedule          \* bound on published schedules, not in the code

VARIABLES
  policy, flows, targets,
  assignments,         \* by flow: the target and its incarnation
  scheduled,           \* by target: TargetState::scheduled
  schedule_generation,
  requests             \* by request id: the flows it named (its digest)

vars == <<policy, flows, targets, assignments, scheduled, schedule_generation,
          requests>>

Amount == [Dim -> 0..MaxAmount]
FlowDescriptor == [generation: Nat \ {0}, demand: Amount,
                   runs_on: SUBSET Kind, anchor: Flow \cup {0}, movable: BOOLEAN]
Declaration == [incarnation: Nat \ {0}, capability_generation: Nat, kind: Kind,
                capacity: Amount, reserved: Amount, domain: {"Host", "Offload"},
                host: Nat, cost: Nat]
Load == [state: {"Missing", "Known", "Unsupported", "Conflicting"}, used: Amount]
TargetLifecycle == {"Ready", "NotReady", "Removed", "Undeclared"}
TargetState == [descriptor: Declaration, lifecycle: TargetLifecycle, load: Load]
LoadModel == {"ObservedOnly", "ScheduledOnly", "MaximumOfBoth", "SumConservative"}
Policy == [generation: Nat, sticky: BOOLEAN, preferred: {"Host", "Offload"},
           only: BOOLEAN, fallback: BOOLEAN, load_model: LoadModel,
           without_evidence: BOOLEAN, reserve: Amount,
           permits: SUBSET (Flow \X Kind), min_improvement: Nat]

ASSUME PlacementAssumption ==
  /\ Flow \subseteq Nat \ {0} /\ IsFiniteSet(Flow)
  /\ Target \subseteq Nat \ {0} /\ IsFiniteSet(Target)
  /\ NoTarget \notin Target
  /\ Dim # {} /\ IsFiniteSet(Dim) /\ MaxAmount \in Nat /\ MaxRanked \in Nat
  /\ RequestId \subseteq Nat /\ MaxRequests \in Nat
  /\ FlowDescriptors \subseteq FlowDescriptor
  /\ Declarations \subseteq Declaration
  /\ Policies \subseteq Policy
  /\ Loads \subseteq Load

-----------------------------------------------------------------------------
(* Capacity vectors (units.hpp).  Plus is exact; Clamp is what checked_add   *)
(* with saturation leaves of a sum.                                          *)

Zero == [d \in Dim |-> 0]
Saturated == [d \in Dim |-> MaxAmount]
Plus(a, b) == [d \in Dim |-> a[d] + b[d]]
Fits(a) == \A d \in Dim : a[d] <= MaxAmount
Clamp(a) == IF Fits(a) THEN a ELSE Saturated
SaturatingSub(a, b) == [d \in Dim |-> IF a[d] > b[d] THEN a[d] - b[d] ELSE 0]
Larger(a, b) == [d \in Dim |-> IF a[d] > b[d] THEN a[d] ELSE b[d]]
Dominates(a, b) == \A d \in Dim : a[d] >= b[d]

\* Utilisation in parts per million, floored and clamped, of the dimension that
\* is used most.
PpmSaturated == 2000000
PpmOf(used, capacity) ==
  LET ppm == (used * 1000000) \div capacity
  IN  IF ppm > PpmSaturated THEN PpmSaturated ELSE ppm
UtilisationPpm(used, capacity) ==
  LET ppm == [d \in Dim |-> PpmOf(used[d], capacity[d])]
  IN  CHOOSE p \in Range(ppm) : \A q \in Range(ppm) : p >= q

\* The exact demand of a set of flows, and of the flows assigned to a target.
DemandOf(fs) == [d \in Dim |-> SumFunction([f \in fs |-> flows[f].demand[d]])]
OnTarget(as, t) == {f \in DOMAIN as : as[f].target = t}
Committed(t) == DemandOf(OnTarget(assignments, t))

\* recompute_scheduled_locked, over the flows fs and assignments as.
Recomputed(fs, ts, as) ==
  [t \in DOMAIN ts |->
     Clamp([d \in Dim |-> SumFunction(
              [f \in OnTarget(as, t) \cap DOMAIN fs |-> fs[f].demand[d]])])]

-----------------------------------------------------------------------------
\* A coordinator with no flows, targets or policy.
Init ==
  /\ policy = [generation |-> 0, sticky |-> TRUE, preferred |-> "Host",
               only |-> FALSE, fallback |-> FALSE, load_model |-> "SumConservative",
               without_evidence |-> FALSE, reserve |-> Zero, permits |-> {},
               min_improvement |-> 0]
  /\ flows = [f \in {} |-> {}] /\ targets = [t \in {} |-> {}]
  /\ assignments = [f \in {} |-> {}] /\ scheduled = [t \in {} |-> {}]
  /\ schedule_generation = 0 /\ requests = [r \in {} |-> {}]

-----------------------------------------------------------------------------
(* The operations around placement, for what placement reads.               *)

Put(m, k, v) == [x \in DOMAIN m \cup {k} |-> IF x = k THEN v ELSE m[x]]
Drop(m, S) == [x \in DOMAIN m \ S |-> m[x]]

RegisterNewFlow(f, descriptor) ==
  /\ f \notin DOMAIN flows
  /\ flows' = Put(flows, f, descriptor)
  /\ UNCHANGED <<policy, targets, assignments, scheduled, schedule_generation,
                 requests>>

\* Forgets to refresh the cache.
FaultyUnassign(f) ==
  /\ assignments' = Drop(assignments, {f})
  /\ UNCHANGED <<policy, targets, scheduled, schedule_generation, requests>>

\* Without flow f's assignment; the cache is refreshed only if it had one.
Unassign(f) ==
  /\ assignments' = Drop(assignments, {f})
  /\ scheduled' = IF f \in DOMAIN assignments
                  THEN Recomputed(flows, targets, assignments') ELSE scheduled
  /\ UNCHANGED <<policy, targets, schedule_generation, requests>>

RegisterNewGeneration(f, descriptor) ==
  /\ f \in DOMAIN flows
  /\ descriptor.generation > flows[f].generation
  /\ flows' = Put(flows, f, descriptor)
  /\ Unassign(f)

\* Forgets the assignment of the flow.
FaultyRemoveFlow(f) ==
  /\ f \in DOMAIN flows
  /\ flows' = Drop(flows, {f})
  /\ UNCHANGED <<policy, targets, assignments, scheduled, schedule_generation,
                 requests>>

RemoveFlow(f) ==
  /\ f \in DOMAIN flows
  /\ flows' = Drop(flows, {f})
  /\ Unassign(f)

NoLoad == [state |-> "Missing", used |-> Zero]

\* A first declaration, new capabilities or a new incarnation: any earlier load
\* evidence is dropped.
DeclareTarget(t, d, lifecycle) ==
  /\ Dominates(d.capacity, d.reserved)
  /\ t \in DOMAIN targets =>
       LET current == targets[t].descriptor IN
       \/ d.incarnation > current.incarnation
       \/ /\ d.incarnation = current.incarnation
          /\ d.capability_generation > current.capability_generation
  /\ targets' = Put(targets, t,
                    [descriptor |-> d, lifecycle |-> lifecycle, load |-> NoLoad])
  /\ scheduled' = Recomputed(flows, targets', assignments)
  /\ UNCHANGED <<policy, flows, assignments, schedule_generation, requests>>

\* The same declaration with another lifecycle; evidence is kept.
RedeclareTarget(t, lifecycle) ==
  /\ t \in DOMAIN targets /\ targets[t].lifecycle # lifecycle
  /\ targets' = [targets EXCEPT ![t].lifecycle = lifecycle]
  /\ scheduled' = Recomputed(flows, targets, assignments)
  /\ UNCHANGED <<policy, flows, assignments, schedule_generation, requests>>

RemoveTarget(t) ==
  /\ t \in DOMAIN targets
  /\ targets' = [targets EXCEPT ![t].lifecycle = "Removed", ![t].load = NoLoad]
  /\ scheduled' = Recomputed(flows, targets, assignments)
  /\ UNCHANGED <<policy, flows, assignments, schedule_generation, requests>>

SetPolicy(p) ==
  /\ p.generation > policy.generation
  /\ policy' = p
  /\ UNCHANGED <<flows, targets, assignments, scheduled, schedule_generation,
                 requests>>

\* ingest_load, for the evidence it leaves with the target.  A conflict is
\* between this evidence and earlier evidence.
IngestLoad(t, load) ==
  /\ t \in DOMAIN targets
  /\ load.state = "Conflicting" => targets[t].load.state # "Missing"
  /\ targets' = [targets EXCEPT ![t].load = load]
  /\ UNCHANGED <<policy, flows, assignments, scheduled, schedule_generation,
                 requests>>

\* observe: an attempt to move f to t, a target its caller chose, is verified.
\* The attempt was issued when t was ready; removing t would have ended it.
CompleteMigration(f, t) ==
  /\ f \in DOMAIN assignments /\ t \in DOMAIN targets
  /\ targets[t].lifecycle \in {"Ready", "NotReady"}
  /\ assignments' = [assignments EXCEPT ![f] =
       [target |-> t, incarnation |-> targets[t].descriptor.incarnation]]
  /\ scheduled' = Recomputed(flows, targets, assignments')
  /\ UNCHANGED <<policy, flows, targets, schedule_generation, requests>>

\* Targets are restored undeclared and without evidence.
Restart ==
  /\ targets' = [t \in DOMAIN targets |->
                   [targets[t] EXCEPT !.lifecycle = "Undeclared", !.load = NoLoad]]
  /\ scheduled' = Recomputed(flows, targets, assignments)
  /\ UNCHANGED <<policy, flows, assignments, schedule_generation, requests>>

-----------------------------------------------------------------------------
(* The decision on one flow.  "plan" is what the batch has decided so far.   *)

Retained(f, t) ==
  /\ policy.sticky
  /\ f \in DOMAIN assignments
  /\ assignments[f] = [target |-> t,
                       incarnation |-> targets[t].descriptor.incarnation]

Changed(plan) == {f \in DOMAIN plan : plan[f] # NoTarget /\ ~Retained(f, plan[f])}

\* Demand the batch has planned for t, and demand it has taken off t.
PlannedAdd(plan, t) == {f \in Changed(plan) : plan[f] = t}
\* Releases a flow from the target it is planned for.
FaultyPlannedRelease(plan, t) ==
  {f \in Changed(plan) \cap DOMAIN assignments : plan[f] = t}
PlannedRelease(plan, t) == Changed(plan) \cap OnTarget(assignments, t)

\* Evaluates every flow of the batch on the demand before the batch.
FaultyLocalScheduled(plan, t) == scheduled[t]

\* The cached demand of t, with what the batch so far adds to it and takes off.
LocalScheduled(plan, t) ==
  SaturatingSub(Clamp(Plus(scheduled[t], Clamp(DemandOf(PlannedAdd(plan, t))))),
                Clamp(DemandOf(PlannedRelease(plan, t))))

\* effective_load_locked: whether the load of t is known, and the load.  "fresh"
\* holds the targets whose evidence is fresh at the evaluation instant.
WithLoad == {t \in DOMAIN targets : targets[t].load.state = "Known"}
ObservedKnown(t, fresh) == targets[t].load.state = "Known" /\ t \in fresh
Observed(t, fresh) == IF ObservedKnown(t, fresh) THEN targets[t].load.used ELSE Zero
LoadKnown(t, sched, fresh) ==
  /\ targets[t].load.state # "Conflicting"
  /\ policy.load_model # "ScheduledOnly" => ObservedKnown(t, fresh)
  /\ policy.load_model = "SumConservative" => Fits(Plus(Observed(t, fresh), sched))
LoadUsed(t, sched, fresh) ==
  IF ~LoadKnown(t, sched, fresh) THEN Zero
  ELSE CASE policy.load_model = "ObservedOnly"    -> Observed(t, fresh)
         [] policy.load_model = "ScheduledOnly"   -> sched
         [] policy.load_model = "MaximumOfBoth"   -> Larger(Observed(t, fresh), sched)
         [] policy.load_model = "SumConservative" -> Plus(Observed(t, fresh), sched)

\* The anchor of a flow tied to another flow's host is assigned on t's host.
Local(f, t) ==
  LET anchor == flows[f].anchor IN
  anchor # 0 => /\ anchor # f /\ anchor \in DOMAIN assignments
                /\ assignments[anchor].target \in DOMAIN targets
                /\ targets[assignments[anchor].target].descriptor.host
                     = targets[t].descriptor.host

\* Room for the flow and the policy's reserve, next to the load.
HasRoom(f, t, used) ==
  LET d == targets[t].descriptor
      needed == Plus(flows[f].demand, policy.reserve)
  IN  /\ Dominates(d.capacity, used)
      /\ Fits(needed)
      /\ Dominates(SaturatingSub(SaturatingSub(d.capacity, d.reserved), used), needed)
      /\ Fits(Plus(used, flows[f].demand))
      /\ \A dim \in Dim : d.capacity[dim] # 0

\* evaluate_target_locked.
Eligible(f, t, plan, fresh) ==
  LET sched == LocalScheduled(plan, t) IN
  /\ targets[t].lifecycle = "Ready"
  /\ policy.only => targets[t].descriptor.domain = policy.preferred
  /\ <<f, targets[t].descriptor.kind>> \in policy.permits
  /\ targets[t].descriptor.kind \in flows[f].runs_on
  /\ Local(f, t)
  /\ LoadKnown(t, sched, fresh) \/ policy.without_evidence
  /\ HasRoom(f, t, LoadUsed(t, sched, fresh))

\* Leaves the flow itself out.
FaultyPpmWith(f, t, plan, fresh) ==
  UtilisationPpm(LoadUsed(t, LocalScheduled(plan, t), fresh),
                 targets[t].descriptor.capacity)
\* The utilisation of t once it carries flow f.
PpmWith(f, t, plan, fresh) ==
  UtilisationPpm(Plus(LoadUsed(t, LocalScheduled(plan, t), fresh), flows[f].demand),
                 targets[t].descriptor.capacity)

RankKey(f, t, plan, fresh) ==
  LET d == targets[t].descriptor
  IN  <<IF Retained(f, t) THEN 0 ELSE 1,
        IF d.domain = policy.preferred THEN 0 ELSE 1,
        d.cost,
        PpmWith(f, t, plan, fresh),
        t>>

\* compare_rank: the lexicographic order of rank keys.
Precedes(a, b) ==
  \E i \in 1..5 : a[i] < b[i] /\ \A j \in 1..(i - 1) : a[j] = b[j]

\* The candidates that are ranked: the list is cut before it is sorted.
Candidates(f, plan, fresh) ==
  LET eligible == {t \in DOMAIN targets : Eligible(f, t, plan, fresh)}
  IN  {t \in eligible : Cardinality({u \in eligible : u < t}) < MaxRanked}

BestOf(ranked, f, plan, fresh) ==
  CHOOSE t \in ranked : \A u \in ranked \ {t} :
    Precedes(RankKey(f, t, plan, fresh), RankKey(f, u, plan, fresh))
Best(f, plan, fresh) == BestOf(Candidates(f, plan, fresh), f, plan, fresh)

\* fallback_allowed: t is in the preferred domain, or the policy lets a flow leave it.
DomainAllowed(t) == targets[t].descriptor.domain = policy.preferred \/ policy.fallback

\* The best candidate, if its domain is allowed.
Decision(f, plan, fresh) ==
  IF f \notin DOMAIN flows \/ Candidates(f, plan, fresh) = {} THEN NoTarget
  ELSE LET best == Best(f, plan, fresh) IN
       IF DomainAllowed(best) THEN best ELSE NoTarget

\* What a batch has planned before its first flow.
NoPlan == [f \in {} |-> NoTarget]

\* The flow of a batch that is decided last.
DecidedLast(batch) == CHOOSE f \in batch : \A g \in batch : g <= f

\* The plan of a batch: flows are decided in id order, each on what the batch
\* has planned before it.
PlanOf(batch, fresh) ==
  MapThenFoldSet(LAMBDA f, plan : Put(plan, f, Decision(f, plan, fresh)),
                 NoPlan, LAMBDA f : f, DecidedLast, batch)

-----------------------------------------------------------------------------
(* Placing a batch. *)

\* The request table after request r: the lowest ids make room.
Recorded(r, batch) ==
  LET table == Put(requests, r, batch)
      kept == {q \in DOMAIN table :
                 Cardinality({p \in DOMAIN table : p > q}) < MaxRequests}
  IN  Restrict(table, kept)

\* The cached demand is refreshed before the plan's assignments are made.
Place(r, batch, fresh) ==
  LET plan == PlanOf(batch, fresh)
      changed == Changed(plan)
  IN
  /\ policy.generation # 0
  /\ r \notin DOMAIN requests
  /\ schedule_generation < MaxSchedule
  /\ schedule_generation' = IF changed = {} THEN schedule_generation
                                            ELSE schedule_generation + 1
  /\ scheduled' = IF changed = {} THEN scheduled
                                  ELSE Recomputed(flows, targets, assignments)
  /\ assignments' =
       [f \in DOMAIN assignments \cup changed |->
          IF f \in changed
          THEN [target |-> plan[f],
                incarnation |-> targets[plan[f]].descriptor.incarnation]
          ELSE assignments[f]]
  /\ requests' = Recorded(r, batch)
  /\ UNCHANGED <<policy, flows, targets>>

-----------------------------------------------------------------------------
(* Rebalancing.  rebalance_locked only reports what it would move.           *)

\* The other targets a flow could move to.  The list is not cut here.
Alternatives(f, fresh) ==
  {t \in DOMAIN targets \ {assignments[f].target} : Eligible(f, t, NoPlan, fresh)}

\* What flow f would gain by moving: its target's utilisation now, less that of
\* the best alternative with the flow on it.
CurrentPpm(f, fresh) ==
  LET t == assignments[f].target
  IN  UtilisationPpm(LoadUsed(t, scheduled[t], fresh), targets[t].descriptor.capacity)
Move(f, fresh) ==
  LET best == BestOf(Alternatives(f, fresh), f, NoPlan, fresh)
  IN  [flow |-> f, target |-> best,
       gain |-> CurrentPpm(f, fresh) - PpmWith(f, best, NoPlan, fresh)]

\* A move is proposed for a movable flow whose load is known, if it gains enough.
Proposals(fresh) ==
  LET known(t) == /\ LoadKnown(t, scheduled[t], fresh)
                  /\ \A d \in Dim : targets[t].descriptor.capacity[d] # 0
      movers == {f \in DOMAIN assignments \cap DOMAIN flows :
                   /\ flows[f].movable /\ known(assignments[f].target)
                   /\ Alternatives(f, fresh) # {}}
  IN  {m \in {Move(f, fresh) : f \in movers} :
         DomainAllowed(m.target) /\ m.gain > 0 /\ m.gain >= policy.min_improvement}

\* The report: the proposals with the largest gains, up to the smallest of the limits.
Rebalance(limit, fresh) ==
  LET proposals == Proposals(fresh)
      before(a, b) == a.gain > b.gain \/ (a.gain = b.gain /\ a.flow < b.flow)
  IN  {m \in proposals : Cardinality({n \in proposals : before(n, m)}) < limit}

-----------------------------------------------------------------------------
Next ==
  \/ \E f \in Flow, d \in FlowDescriptors :
       RegisterNewFlow(f, d) \/ RegisterNewGeneration(f, d)
  \/ \E f \in Flow : RemoveFlow(f)
  \/ \E t \in Target, l \in {"Ready", "NotReady"} :
       \/ \E d \in Declarations : DeclareTarget(t, d, l)
       \/ RedeclareTarget(t, l)
  \/ \E t \in Target : RemoveTarget(t)
  \/ \E p \in Policies : SetPolicy(p)
  \/ \E t \in Target, l \in Loads : IngestLoad(t, l)
  \/ \E f \in Flow, t \in Target : CompleteMigration(f, t)
  \/ \E r \in RequestId, batch \in (SUBSET Flow) \ {{}}, fresh \in SUBSET WithLoad :
       Place(r, batch, fresh)
  \/ Restart

Spec == Init /\ [][Next]_vars

-----------------------------------------------------------------------------
(* Properties. *)

\* Every table holds well-formed entries, and the cached demand is a saturated
\* amount for each target that the assignments could have produced.
TypeOK ==
  /\ policy \in Policy
  /\ DOMAIN flows \subseteq Flow /\ Range(flows) \subseteq FlowDescriptor
  /\ DOMAIN targets \subseteq Target /\ Range(targets) \subseteq TargetState
  /\ DOMAIN assignments \subseteq DOMAIN flows
  /\ Range(assignments) \subseteq [target: DOMAIN targets, incarnation: Nat \ {0}]
  /\ scheduled \in [DOMAIN targets -> Amount]
  /\ schedule_generation \in Nat
  /\ DOMAIN requests \subseteq RequestId /\ Range(requests) \subseteq SUBSET Flow

\* The cached demand is that of the assignments.
Accurate == scheduled = Recomputed(flows, targets, assignments)

\* The assignments a plan leads to.
Planned(plan) ==
  [f \in DOMAIN assignments \cup Changed(plan) |->
     IF f \in Changed(plan) THEN [target |-> plan[f]] ELSE assignments[f]]

\* The demand a flow of a batch is evaluated against is the demand its target
\* will have once the decisions before it are committed: place_locked's planned
\* additions and releases neither lose a flow nor count one twice, as long as the
\* cache was right when the batch began and no sum overflows.
PlannedDemandIsExact ==
  Accurate =>
    \A batch \in SUBSET Flow, fresh \in SUBSET WithLoad :
      LET plan == PlanOf(batch, fresh) IN
      \A t \in DOMAIN targets :
        Fits(Plus(Committed(t), DemandOf(PlannedAdd(plan, t)))) =>
          LocalScheduled(plan, t) = DemandOf(OnTarget(Planned(plan), t))

\* The flows a step moves to target t.
Gained(t) == {f \in OnTarget(assignments', t) :
                f \in DOMAIN assignments => assignments[f].target # t}
Room(t) == SaturatingSub(targets[t].descriptor.capacity,
                         Plus(targets[t].descriptor.reserved, policy.reserve))
CountsCommitments == policy.load_model # "ObservedOnly" /\ ~policy.without_evidence
Publishes == schedule_generation' # schedule_generation

\* A published batch overfills no target it adds flows to: all the demand then
\* committed to the target is within its capacity, and in each dimension in which
\* an added flow needs room it leaves the reserves free, when the cache was right
\* before, the policy's load model counts committed demand and no sum overflows.
BatchConservesCapacity ==
  [][Publishes /\ Accurate /\ CountsCommitments =>
       \A t \in DOMAIN targets :
         /\ Gained(t) # {}
         /\ Fits(Plus(Committed(t), DemandOf(OnTarget(assignments', t))))
         => \A d \in Dim :
              /\ Committed(t)'[d] <= targets[t].descriptor.capacity[d]
              /\ (\E f \in Gained(t) : flows[f].demand[d] + policy.reserve[d] > 0)
                 => Committed(t)'[d] <= Room(t)[d]]_vars

\* A step other than a placement that changes who is assigned where leaves the
\* cache right, whatever it was before: a flow that left is not counted any more
\* and a flow that moved is counted where it went.
ScheduleRefreshed ==
  [][~Publishes /\ assignments' # assignments => Accurate']_vars

\* Rebalancing settles: once a move that a report selected is made, and nothing else
\* changed, no report on the same evidence selects the move back.  The estimate for
\* the new target counts the flow and that for the old one does not release it
\* (rebalance_locked), so this holds in every load model while the cache is right.
NoMoveBack ==
  [][\A limit \in 1..Cardinality(Flow), fresh \in SUBSET WithLoad :
       Accurate /\ UNCHANGED <<policy, flows, targets>> =>
         \A m \in Rebalance(limit, fresh) :
           (\A f \in DOMAIN assignments : assignments'[f].target =
              IF f = m.flow THEN m.target ELSE assignments[f].target)
           => \A n \in Rebalance(limit, fresh)' :
                n.flow = m.flow => n.target # assignments[m.flow].target]_vars

=============================================================================
