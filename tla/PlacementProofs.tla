-------------------------- MODULE PlacementProofs --------------------------
(***************************************************************************)
(* Theorems about Placement, for every number of flows, targets and        *)
(* dimensions: the tables stay well formed, a batch is planned on exact    *)
(* demand, a published batch overfills no target, every other change of    *)
(* the assignments refreshes the cached demand, and rebalancing settles.   *)
(*                                                                         *)
(* The capacity theorem looks at the flow that was decided last among      *)
(* those the batch adds to a target: evaluate_target_locked found room for *)
(* it next to all the others.                                              *)
(***************************************************************************)
EXTENDS PlacementPlans

\* Each leaf is tried with SMT, then with Zenon, then with SMT and more time.
USE SMTT(30), ZenonT(90), SMTT(60), SMTT(90)

-----------------------------------------------------------------------------
(* Capacity. *)

\* A load model that counts commitments never reports less than the cached demand.
LEMMA LoadCounts ==
  ASSUME WellFormed, CountsCommitments, NEW t \in DOMAIN targets, NEW sched \in Amount,
         NEW fresh, LoadKnown(t, sched, fresh), NEW d \in Dim
  PROVE  LoadUsed(t, sched, fresh)[d] >= sched[d]
<1> DEFINE obs == Observed(t, fresh)
<1>1. obs \in [Dim -> Nat] /\ sched \in [Dim -> Nat]
  BY TargetTyped, AmountVector DEF Observed, Zero
<1>2. LoadUsed(t, sched, fresh) \in {sched, Larger(obs, sched), Plus(obs, sched)}
  BY PolicyTyped DEF LoadUsed, LoadModel, CountsCommitments
<1> HIDE DEF obs
<1>3. Larger(obs, sched)[d] >= sched[d] /\ Plus(obs, sched)[d] >= sched[d]
  BY <1>1 DEF Larger, Plus
<1> QED
  BY <1>1, <1>2, <1>3

\* What the capacity check leaves free, in one dimension.
LEMMA RoomLeft ==
  ASSUME WellFormed, NEW f \in DOMAIN flows, NEW t \in DOMAIN targets,
         NEW used \in [Dim -> Nat], HasRoom(f, t, used), NEW d \in Dim,
         NEW x \in Nat, x <= used[d] + flows[f].demand[d]
  PROVE  /\ x <= targets[t].descriptor.capacity[d]
         /\ flows[f].demand[d] + policy.reserve[d] > 0 => x <= Room(t)[d]
<1> DEFINE cap == targets[t].descriptor.capacity[d]
           rsv == targets[t].descriptor.reserved[d]
           res == policy.reserve[d]
           dem == flows[f].demand[d]
           u == used[d]
<1>1. cap \in Nat /\ rsv \in Nat /\ res \in Nat /\ dem \in Nat /\ u \in Nat
  BY TargetTyped, PolicyTyped, AmountVector, DemandTyped
<1>2. cap >= u
  BY DEF HasRoom, Dominates
<1> DEFINE free == IF cap > rsv THEN cap - rsv ELSE 0
<1>3. (IF free > u THEN free - u ELSE 0) >= dem + res
  BY DEF HasRoom, Dominates, SaturatingSub, Plus
<1>4. Room(t)[d] = IF cap > rsv + res THEN cap - (rsv + res) ELSE 0
  BY DEF Room, SaturatingSub, Plus
<1>5. x <= u + dem
  OBVIOUS
<1> HIDE DEF cap, rsv, res, dem, u
<1>6. dem + res > 0 => u + dem + res + rsv <= cap
  BY <1>1, <1>3
<1>7. x <= cap
  BY <1>1, <1>2, <1>5, <1>6
<1>8. dem + res > 0 => x <= Room(t)[d]
  BY <1>1, <1>4, <1>5, <1>6
<1> QED
  BY <1>7, <1>8 DEF cap, res, dem

\* What the batch had changed when flow k was decided: its changes before k.
LEMMA ChangedBefore ==
  ASSUME WellFormed, NEW fresh, NEW batch \in SUBSET Flow, NEW k \in batch, NEW t,
         NEW plan, plan = PlanOf(batch, fresh),
         NEW p, p = PlanOf(Before(batch, k), fresh)
  PROVE  /\ Changed(p) = Changed(plan) \cap Before(batch, k)
         /\ PlannedAdd(p, t) = PlannedAdd(plan, t) \cap Before(batch, k)
<1>1. \A g \in Before(batch, k) : p[g] = plan[g]
  BY PlanPrefix
<1>2. DOMAIN plan = batch
  BY PlanIsGood DEF GoodPlan
<1>3. Before(batch, k) \in SUBSET batch /\ Before(batch, k) \in SUBSET Flow
  BY DEF Before
<1>4. DOMAIN p = Before(batch, k)
  BY <1>3, PlanIsGood DEF GoodPlan
<1>5. Changed(p) = Changed(plan) \cap Before(batch, k)
  BY ZenonT(90), <1>1, <1>2, <1>3, <1>4 DEF Changed
<1> QED
  BY <1>1, <1>5 DEF PlannedAdd

\* Flow k was placed on t only if t had room for it next to the demand that the
\* decisions up to k leave on t.
LEMMA RoomWhenDecided ==
  ASSUME WellFormed, Accurate, CountsCommitments, NEW fresh, NEW batch \in SUBSET Flow,
         NEW t \in DOMAIN targets, NEW plan, plan = PlanOf(batch, fresh),
         Fits(Plus(Committed(t), DemandOf(OnTarget(Planned(plan), t)))),
         NEW k \in PlannedAdd(plan, t), NEW d \in Dim,
         NEW x, x = DemandOf(OnTarget(Planned(plan), t)
                             \ {z \in PlannedAdd(plan, t) : z > k})[d]
  PROVE  /\ x <= targets[t].descriptor.capacity[d]
         /\ flows[k].demand[d] + policy.reserve[d] > 0 => x <= Room(t)[d]
<1> DEFINE p == PlanOf(Before(batch, k), fresh)
           P == OnTarget(Planned(plan), t)
           A == PlannedAdd(plan, t)
           later == {z \in A : z > k}
           Q == OnTarget(Planned(p), t)
           S == OnTarget(assignments, t)
<1>1. DOMAIN plan = batch /\ Changed(plan) \subseteq DOMAIN flows
  BY PlanIsGood, GoodPlanKnown DEF GoodPlan
<1>2. k \in batch /\ plan[k] = t /\ k \in Changed(plan)
  BY <1>1 DEF PlannedAdd, Changed
<1>3. Before(batch, k) \in SUBSET Flow
  BY DEF Before
<1>4. Changed(p) \subseteq DOMAIN flows
  BY <1>3, PlanIsGood, GoodPlanKnown
<1>5. t = Decision(k, p, fresh) /\ t # NoTarget
  <2>1. plan[k] = Decision(k, p, fresh)
    BY <1>2, PlanValue
  <2>2. t # NoTarget
    BY PlacementAssumption DEF WellFormed
  <2> QED
    BY <1>2, <2>1, <2>2
<1> HIDE DEF p
<1>6. k \in DOMAIN flows /\ Eligible(k, t, p, fresh)
  BY <1>4, <1>5, DecisionIs
<1> DEFINE sched == LocalScheduled(p, t)
           used == LoadUsed(t, sched, fresh)
<1>7. sched \in Amount
  BY <1>4, LocalTyped
<1>8. LoadKnown(t, sched, fresh) /\ HasRoom(k, t, used)
  BY <1>6 DEF Eligible, CountsCommitments
<1>9. /\ Changed(p) = Changed(plan) \cap Before(batch, k)
      /\ PlannedAdd(p, t) = A \cap Before(batch, k)
  BY <1>2, ChangedBefore DEF p
<1>10. P = (S \ PlannedRelease(plan, t)) \cup A
  BY OnTargetPlanned
<1>11. Q = (S \ PlannedRelease(p, t)) \cup PlannedAdd(p, t)
  BY OnTargetPlanned
<1>12. S \in SUBSET DOMAIN flows /\ A \in SUBSET DOMAIN flows
  BY <1>1 DEF WellFormed, OnTarget, PlannedAdd
<1>13. P \in SUBSET DOMAIN flows
  BY <1>10, <1>12
<1>14. Q \in SUBSET DOMAIN flows
  BY <1>9, <1>11, <1>12
<1>15. P \ later \subseteq Q \cup {k}
  <2>1. PlannedRelease(p, t) \subseteq PlannedRelease(plan, t)
    BY <1>9 DEF PlannedRelease
  <2>2. A \ later \subseteq Before(batch, k) \cup {k}
    <3>1. SUFFICES ASSUME NEW z \in A, ~(z > k), z # k PROVE z \in Before(batch, k)
      OBVIOUS
    <3>2. z \in batch /\ z \in Nat /\ k \in Nat
      BY ZenonT(90), <1>1, <1>2, PlacementAssumption DEF PlannedAdd, Changed
    <3> QED
      BY <3>1, <3>2 DEF Before
  <2> QED
    BY <1>9, <1>10, <1>11, <2>1, <2>2
<1>16. sched = DemandOf(Q)
  <2>1. PlannedAdd(p, t) \in SUBSET P
    BY <1>9, <1>10
  <2> DEFINE C == Committed(t)
             a == DemandOf(PlannedAdd(p, t))
             b == DemandOf(P)
  <2>2. \A e \in Dim : a[e] <= b[e] /\ a[e] \in Nat /\ b[e] \in Nat
    <3>1. PlannedAdd(p, t) \in SUBSET DOMAIN flows
      BY <1>13, <2>1
    <3> HIDE DEF P
    <3> QED
      BY <1>13, <2>1, <3>1, DemandMonotone, DemandNat
  <2>3. \A e \in Dim : C[e] \in Nat
    BY <1>12, DemandNat DEF Committed
  <2>4. \A e \in Dim : C[e] + b[e] <= MaxAmount
    BY DEF Fits, Plus
  <2> HIDE DEF a, b, C
  <2>5. \A e \in Dim : C[e] + a[e] <= MaxAmount
    BY <2>2, <2>3, <2>4, PlacementAssumption
  <2>6. Fits(Plus(C, a))
    BY <2>5 DEF Fits, Plus
  <2>7. Fits(Plus(Committed(t), DemandOf(PlannedAdd(p, t))))
    BY <2>6 DEF C, a
  <2> QED
    BY <1>4, <2>7, LocalIsExact
<1>17. used[d] >= sched[d] /\ used \in [Dim -> Nat] /\ sched[d] \in Nat
  BY ZenonT(90), <1>7, <1>8, LoadCounts, LoadTyped, AmountVector
<1>18. x \in Nat /\ x <= DemandOf(Q)[d] + flows[k].demand[d]
  <2> DEFINE L == P \ later
  <2>1. L \in SUBSET DOMAIN flows /\ L \ {k} \in SUBSET Q /\ L \ {k} \in SUBSET DOMAIN flows
    BY <1>13, <1>15
  <2>2. x = DemandOf(L)[d]
    OBVIOUS
  <2> HIDE DEF L, Q
  <2>3. DemandOf(L \ {k})[d] <= DemandOf(Q)[d]
    BY ZenonT(90), <1>14, <2>1, DemandMonotone
  <2>4. /\ DemandOf(L)[d] \in Nat /\ DemandOf(L \ {k})[d] \in Nat
        /\ DemandOf(Q)[d] \in Nat /\ flows[k].demand[d] \in Nat
    BY ZenonT(90), <1>6, <1>14, <2>1, DemandNat, DemandTyped
  <2>5. CASE k \in L
    <3>1. DemandOf(L)[d] = flows[k].demand[d] + DemandOf(L \ {k})[d]
      BY ZenonT(90), <2>1, <2>5, DemandOfOne
    <3> QED
      BY <2>2, <2>3, <2>4, <3>1
  <2>6. CASE k \notin L
    <3>1. L \ {k} = L
      BY <2>6
    <3>2. DemandOf(L \ {k})[d] = DemandOf(L)[d]
      BY <3>1, ZenonT(90)
    <3> QED
      BY <2>2, <2>3, <2>4, <3>2
  <2> QED
    BY <2>5, <2>6
<1>19. x <= used[d] + flows[k].demand[d]
  <2>1. flows[k].demand[d] \in Nat /\ used[d] \in Nat
    BY ZenonT(90), <1>6, <1>17, DemandTyped
  <2> HIDE DEF used, sched
  <2> QED
    BY <1>16, <1>17, <1>18, <2>1
<1> HIDE DEF used, sched
<1> QED
  BY ZenonT(90), <1>6, <1>8, <1>17, <1>18, <1>19, RoomLeft

\* All that a batch leaves on a target it adds flows to is within its capacity, and
\* in a dimension in which one of those flows needs room, within its room.
LEMMA BatchFits ==
  ASSUME WellFormed, Accurate, CountsCommitments, NEW fresh, NEW batch \in SUBSET Flow,
         NEW t \in DOMAIN targets, NEW plan, plan = PlanOf(batch, fresh),
         Fits(Plus(Committed(t), DemandOf(OnTarget(Planned(plan), t)))),
         PlannedAdd(plan, t) # {}, NEW d \in Dim,
         NEW x, x = DemandOf(OnTarget(Planned(plan), t))[d]
  PROVE  /\ x <= targets[t].descriptor.capacity[d]
         /\ (\E f \in PlannedAdd(plan, t) : flows[f].demand[d] + policy.reserve[d] > 0)
            => x <= Room(t)[d]
<1> DEFINE P == OnTarget(Planned(plan), t)
           A == PlannedAdd(plan, t)
           Needs(f) == flows[f].demand[d] + policy.reserve[d] > 0
           Later(k) == {z \in A : z > k}
<1>1. A \in SUBSET DOMAIN flows /\ A \in SUBSET Flow /\ A \in SUBSET P
  BY PlanIsGood, GoodPlanKnown, OnTargetPlanned DEF PlannedAdd, WellFormed
<1>2. P \in SUBSET DOMAIN flows
  BY <1>1, OnTargetPlanned DEF WellFormed, OnTarget
<1>3. ASSUME NEW k \in A
      PROVE  LET y == DemandOf(P \ Later(k))[d] IN
             /\ y <= targets[t].descriptor.capacity[d]
             /\ Needs(k) => y <= Room(t)[d]
  BY RoomWhenDecided
<1>4. x <= targets[t].descriptor.capacity[d]
  <2> DEFINE m == DecidedLast(A)
  <2>1. m \in A /\ \A f \in A : f <= m
    <3> HIDE DEF A
    <3> QED
      BY <1>1, LastIn DEF A
  <2> HIDE DEF m
  <2>2. Later(m) = {}
    <3>1. \A f \in A : f \in Nat
      BY ZenonT(90), <1>1, PlacementAssumption
    <3> QED
      BY <2>1, <3>1
  <2>3. P \ Later(m) = P
    BY <2>2
  <2>4. DemandOf(P \ Later(m))[d] = x
    BY <2>3, ZenonT(90)
  <2>5. DemandOf(P \ Later(m))[d] <= targets[t].descriptor.capacity[d]
    BY ZenonT(90), <1>3, <2>1
  <2> QED
    BY <2>4, <2>5
<1>5. ASSUME NEW f \in A, Needs(f)
      PROVE  x <= Room(t)[d]
  <2> DEFINE N == {g \in A : Needs(g)}
             k == DecidedLast(N)
  <2>1. N \in SUBSET Flow /\ N # {}
    BY <1>1, <1>5
  <2>2. k \in N /\ \A g \in N : g <= k
    <3> HIDE DEF N
    <3> QED
      BY <2>1, LastIn
  <2>3. k \in A /\ Needs(k)
    BY ZenonT(90), <2>2
  <2> HIDE DEF k
  <2>4. \A z \in Later(k) : flows[z].demand[d] = 0
    <3>1. SUFFICES ASSUME NEW z \in A, z > k PROVE flows[z].demand[d] = 0
      OBVIOUS
    <3>2. z \in Nat /\ k \in Nat
      BY ZenonT(90), <1>1, <2>3, PlacementAssumption
    <3>3. ~Needs(z)
      BY <2>2, <3>1, <3>2
    <3>4. flows[z].demand[d] \in Nat /\ policy.reserve[d] \in Nat
      BY ZenonT(90), <1>1, DemandTyped, PolicyTyped, AmountVector
    <3> QED
      BY <3>3, <3>4
  <2> DEFINE L == Later(k)
  <2>5. L \in SUBSET P /\ L \in SUBSET DOMAIN flows
    BY ZenonT(90), <1>1
  <2>6. DemandOf(P \ L)[d] <= Room(t)[d]
    BY <1>3, <2>3
  <2>7. \A z \in L : flows[z].demand[d] = 0
    BY <2>4
  <2> HIDE DEF L, P
  <2>8. DemandOf(P)[d] = DemandOf(L)[d] + DemandOf(P \ L)[d]
    BY ZenonT(90), <1>2, <2>5, DemandSplit
  <2>9. DemandOf(L)[d] = 0
    BY <2>5, <2>7, DemandOfNothing
  <2>10. DemandOf(P \ L)[d] \in Nat
    BY <1>2, <2>5, DemandNat
  <2>11. x = DemandOf(P)[d]
    BY DEF P
  <2> QED
    BY <2>6, <2>8, <2>9, <2>10, <2>11
<1> QED
  BY <1>4, <1>5

-----------------------------------------------------------------------------
(* The invariant. *)

\* TypeOK holds what an evaluation rests on.
LEMMA TypeOKWellFormed == TypeOK => WellFormed
BY DEF TypeOK, WellFormed, Range

\* What recompute_scheduled_locked leaves is an amount for each target.
LEMMA RecomputedTyped ==
  ASSUME NEW fs, DOMAIN fs \subseteq Flow, \A f \in DOMAIN fs : fs[f] \in FlowDescriptor,
         NEW ts, NEW as
  PROVE  Recomputed(fs, ts, as) \in [DOMAIN ts -> Amount]
<1>1. ASSUME NEW t \in DOMAIN ts, NEW d \in Dim,
             NEW h, h = [f \in OnTarget(as, t) \cap DOMAIN fs |-> fs[f].demand[d]]
      PROVE  SumFunction(h) \in Nat
  <2> DEFINE S == OnTarget(as, t) \cap DOMAIN fs
  <2>1. S \in SUBSET Flow /\ DOMAIN h = S
    BY ZenonT(90), <1>1
  <2>2. ASSUME NEW f \in S PROVE h[f] \in Nat
    <3>1. fs[f].demand \in Amount
      BY <2>2 DEF FlowDescriptor
    <3> QED
      BY ZenonT(90), <1>1, <2>2, <3>1, AmountVector
  <2>3. IsFiniteSet(S)
    BY ZenonT(90), <2>1, BatchFinite
  <2> HIDE DEF S
  <2> QED
    BY <2>1, <2>2, <2>3, SumType DEF SumFunction
<1> DEFINE v(t) == [d \in Dim |-> SumFunction(
                      [f \in OnTarget(as, t) \cap DOMAIN fs |-> fs[f].demand[d]])]
<1>2. \A t \in DOMAIN ts : v(t) \in [Dim -> Nat]
  BY ZenonT(90), <1>1
<1>3. Recomputed(fs, ts, as) = [t \in DOMAIN ts |-> Clamp(v(t))]
  BY DEF Recomputed
<1> HIDE DEF v
<1>4. \A t \in DOMAIN ts : Clamp(v(t)) \in Amount
  BY <1>2, ClampTyped
<1> QED
  BY <1>3, <1>4

\* TypeOK, entry by entry.
FlowsTyped(fs) ==
  DOMAIN fs \subseteq Flow /\ \A f \in DOMAIN fs : fs[f] \in FlowDescriptor
TargetsTyped(ts) ==
  DOMAIN ts \subseteq Target /\ \A t \in DOMAIN ts : ts[t] \in TargetState
AssignmentsTyped(as, fs, ts) ==
  /\ DOMAIN as \subseteq DOMAIN fs
  /\ \A f \in DOMAIN as : as[f] \in [target: DOMAIN ts, incarnation: Nat \ {0}]
RequestsTyped(rs) ==
  DOMAIN rs \subseteq RequestId /\ \A r \in DOMAIN rs : rs[r] \in SUBSET Flow
Typed ==
  /\ policy \in Policy /\ FlowsTyped(flows) /\ TargetsTyped(targets)
  /\ AssignmentsTyped(assignments, flows, targets)
  /\ scheduled \in [DOMAIN targets -> Amount]
  /\ schedule_generation \in Nat /\ RequestsTyped(requests)

\* The two ways to say it.
LEMMA TypedIsTypeOK == TypeOK <=> Typed
BY DEF TypeOK, Typed, FlowsTyped, TargetsTyped, AssignmentsTyped, RequestsTyped, Range

\* Tables that are well formed hold what an evaluation rests on.
LEMMA TypedWellFormed == Typed => WellFormed
BY DEF Typed, FlowsTyped, TargetsTyped, AssignmentsTyped, WellFormed

\* A coordinator starts with well-formed tables.
LEMMA InitTyped == Init => Typed
<1>1. Zero \in Amount
  BY PlacementAssumption DEF Zero, Amount
<1>2. SUFFICES ASSUME Init PROVE Typed
  OBVIOUS
<1>3. policy \in Policy
  BY <1>1, <1>2 DEF Init, Policy, LoadModel
<1>4. FlowsTyped(flows) /\ TargetsTyped(targets) /\ RequestsTyped(requests)
  BY <1>2 DEF Init, FlowsTyped, TargetsTyped, RequestsTyped
<1>5. AssignmentsTyped(assignments, flows, targets)
  BY <1>2 DEF Init, AssignmentsTyped
<1>6. scheduled \in [DOMAIN targets -> Amount]
  BY <1>2 DEF Init
<1> QED
  BY ZenonT(90), <1>2, <1>3, <1>4, <1>5, <1>6 DEF Init, Typed

\* Entries that are put into a table of flows or targets or taken out of it.
LEMMA FlowPut ==
  ASSUME NEW fs, FlowsTyped(fs), NEW f \in Flow, NEW d \in FlowDescriptors
  PROVE  FlowsTyped(Put(fs, f, d)) /\ DOMAIN Put(fs, f, d) = DOMAIN fs \cup {f}
<1>1. d \in FlowDescriptor
  BY PlacementAssumption
<1> QED
  BY <1>1 DEF FlowsTyped, Put

\* Taking a flow out of the table of flows.
LEMMA FlowDrop ==
  ASSUME NEW fs, FlowsTyped(fs), NEW f
  PROVE  FlowsTyped(Drop(fs, {f})) /\ DOMAIN Drop(fs, {f}) = DOMAIN fs \ {f}
BY DEF FlowsTyped, Drop

\* The load of a target without evidence is a load.
LEMMA NoLoadTyped == NoLoad \in Load
<1>1. Zero \in Amount
  BY PlacementAssumption DEF Zero, Amount
<1> QED
  BY <1>1 DEF NoLoad, Load

\* The lifecycle and the load of a target may be replaced.
LEMMA TargetStateParts ==
  ASSUME NEW s \in TargetState
  PROVE  /\ s.descriptor \in Declaration /\ s.lifecycle \in TargetLifecycle
         /\ s.load \in Load
         /\ \A l \in TargetLifecycle : [s EXCEPT !.lifecycle = l] \in TargetState
         /\ \A l \in Load : [s EXCEPT !.load = l] \in TargetState
         /\ \A l \in TargetLifecycle, e \in Load :
              [s EXCEPT !.lifecycle = l, !.load = e] \in TargetState
BY ZenonT(90) DEF TargetState

\* Assignments stay well formed when flows are added, and when their own are removed.
LEMMA AssignmentsDrop ==
  ASSUME NEW as, NEW fs, NEW gs, NEW ts, NEW f, AssignmentsTyped(as, fs, ts),
         DOMAIN fs \ {f} \subseteq DOMAIN gs
  PROVE  AssignmentsTyped(Drop(as, {f}), gs, ts)
BY ZenonT(90) DEF AssignmentsTyped, Drop

\* Assignments stay well formed when flows and targets are added.
LEMMA AssignmentsKept ==
  ASSUME NEW as, NEW fs, NEW gs, NEW ts, NEW us, AssignmentsTyped(as, fs, ts),
         DOMAIN fs \subseteq DOMAIN gs, DOMAIN ts \subseteq DOMAIN us
  PROVE  AssignmentsTyped(as, gs, us)
<1>1. ASSUME NEW f \in DOMAIN as
      PROVE  as[f] \in [target: DOMAIN us, incarnation: Nat \ {0}]
  <2>1. as[f] \in [target: DOMAIN ts, incarnation: Nat \ {0}]
    BY ZenonT(90), <1>1 DEF AssignmentsTyped
  <2> QED
    BY ZenonT(90), <2>1
<1> QED
  BY ZenonT(90), <1>1 DEF AssignmentsTyped

\* recompute_scheduled_locked in a well-formed state.
LEMMA RefreshTyped ==
  ASSUME Typed, NEW ts, NEW as
  PROVE  Recomputed(flows, ts, as) \in [DOMAIN ts -> Amount]
BY ZenonT(90), RecomputedTyped DEF Typed, FlowsTyped

\* register_flow for a flow that is not known.
LEMMA RegisterNewTyped ==
  ASSUME Typed, NEW f \in Flow, NEW d \in FlowDescriptors, RegisterNewFlow(f, d)
  PROVE  Typed'
<1>1. FlowsTyped(flows) /\ flows' = Put(flows, f, d)
  BY DEF Typed, RegisterNewFlow
<1>2. FlowsTyped(flows') /\ DOMAIN flows' = DOMAIN flows \cup {f}
  BY <1>1, FlowPut, ZenonT(90)
<1>3. AssignmentsTyped(assignments, flows', targets)
  BY ZenonT(90), <1>2, AssignmentsKept DEF Typed
<1> QED
  BY <1>2, <1>3
     DEF Typed, RegisterNewFlow, TargetsTyped, AssignmentsTyped, RequestsTyped, FlowsTyped

\* Removing the assignment of a flow, refresh included.
LEMMA UnassignTyped ==
  ASSUME Typed, NEW f \in Flow, Unassign(f), FlowsTyped(flows'),
         DOMAIN flows \ {f} \subseteq DOMAIN flows'
  PROVE  Typed'
<1>1. AssignmentsTyped(assignments', flows', targets)
  BY ZenonT(90), AssignmentsDrop DEF Typed, Unassign
<1>2. scheduled' \in [DOMAIN targets -> Amount]
  BY RefreshTyped DEF Unassign, Typed
<1>3. UNCHANGED <<policy, targets, schedule_generation, requests>>
  BY DEF Unassign
<1> QED
  BY <1>1, <1>2, <1>3 DEF Typed, FlowsTyped, TargetsTyped, AssignmentsTyped, RequestsTyped

\* register_flow with a newer generation of a known flow.
LEMMA RegisterGenerationTyped ==
  ASSUME Typed, NEW f \in Flow, NEW d \in FlowDescriptors, RegisterNewGeneration(f, d)
  PROVE  Typed'
<1>1. FlowsTyped(flows) /\ flows' = Put(flows, f, d) /\ Unassign(f)
  BY DEF Typed, RegisterNewGeneration
<1>2. FlowsTyped(flows') /\ DOMAIN flows' = DOMAIN flows \cup {f}
  BY <1>1, FlowPut, ZenonT(90)
<1>3. DOMAIN flows \ {f} \subseteq DOMAIN flows'
  BY <1>2
<1> QED
  BY <1>1, <1>2, <1>3, UnassignTyped

\* remove_flow.
LEMMA RemoveFlowTyped ==
  ASSUME Typed, NEW f \in Flow, RemoveFlow(f)
  PROVE  Typed'
<1>1. FlowsTyped(flows) /\ flows' = Drop(flows, {f}) /\ Unassign(f)
  BY DEF Typed, RemoveFlow
<1>2. FlowsTyped(flows') /\ DOMAIN flows \ {f} \subseteq DOMAIN flows'
  BY ZenonT(90), <1>1, FlowDrop
<1> QED
  BY <1>1, <1>2, UnassignTyped

\* Operations on targets only change their table and the cached demand.
LEMMA TargetsChangedTyped ==
  ASSUME Typed, TargetsTyped(targets'), DOMAIN targets \subseteq DOMAIN targets',
         scheduled' \in [DOMAIN targets' -> Amount],
         UNCHANGED <<policy, flows, assignments, schedule_generation, requests>>
  PROVE  Typed'
<1>1. AssignmentsTyped(assignments, flows, targets')
  BY AssignmentsKept DEF Typed
<1> QED
  BY <1>1 DEF Typed, FlowsTyped, TargetsTyped, AssignmentsTyped, RequestsTyped

\* declare_target for a new target, incarnation or capability generation.
LEMMA DeclareTyped ==
  ASSUME Typed, NEW t \in Target, NEW d \in Declarations, NEW l \in {"Ready", "NotReady"},
         DeclareTarget(t, d, l)
  PROVE  Typed'
<1> DEFINE s == [descriptor |-> d, lifecycle |-> l, load |-> NoLoad]
<1>1. d \in Declaration
  BY PlacementAssumption
<1>2. s \in TargetState
  BY ZenonT(90), <1>1, NoLoadTyped DEF TargetState, TargetLifecycle
<1>3. targets' = Put(targets, t, s) /\ scheduled' = Recomputed(flows, targets', assignments)
  BY DEF DeclareTarget
<1> HIDE DEF s
<1>4. TargetsTyped(targets') /\ DOMAIN targets \subseteq DOMAIN targets'
  BY <1>2, <1>3 DEF Typed, TargetsTyped, Put
<1>5. scheduled' \in [DOMAIN targets' -> Amount]
  BY ZenonT(90), <1>3, RefreshTyped
<1>6. UNCHANGED <<policy, flows, assignments, schedule_generation, requests>>
  BY DEF DeclareTarget
<1> QED
  BY ZenonT(90), <1>4, <1>5, <1>6, TargetsChangedTyped

\* declare_target with another lifecycle.
LEMMA RedeclareTyped ==
  ASSUME Typed, NEW t \in Target, NEW l \in {"Ready", "NotReady"}, RedeclareTarget(t, l)
  PROVE  Typed'
<1>1. targets' = [targets EXCEPT ![t].lifecycle = l] /\ t \in DOMAIN targets
      /\ scheduled' = Recomputed(flows, targets, assignments)
  BY DEF RedeclareTarget
<1>2. l \in TargetLifecycle
  BY DEF TargetLifecycle
<1>3. \A u \in DOMAIN targets : targets[u] \in TargetState
  BY DEF Typed, TargetsTyped
<1>4. [targets[t] EXCEPT !.lifecycle = l] \in TargetState
  BY ZenonT(90), <1>1, <1>2, <1>3, TargetStateParts
<1>5. TargetsTyped(targets') /\ DOMAIN targets' = DOMAIN targets
  BY <1>1, <1>3, <1>4 DEF Typed, TargetsTyped
<1>6. scheduled' \in [DOMAIN targets' -> Amount]
  BY <1>1, <1>5, RefreshTyped
<1>7. UNCHANGED <<policy, flows, assignments, schedule_generation, requests>>
  BY DEF RedeclareTarget
<1> QED
  BY ZenonT(90), <1>5, <1>6, <1>7, TargetsChangedTyped

\* remove_target.
LEMMA RemoveTargetTyped ==
  ASSUME Typed, NEW t \in Target, RemoveTarget(t)
  PROVE  Typed'
<1>1. /\ targets' = [targets EXCEPT ![t].lifecycle = "Removed", ![t].load = NoLoad]
      /\ t \in DOMAIN targets /\ scheduled' = Recomputed(flows, targets, assignments)
  BY DEF RemoveTarget
<1>2. "Removed" \in TargetLifecycle
  BY DEF TargetLifecycle
<1>3. \A u \in DOMAIN targets : targets[u] \in TargetState
  BY DEF Typed, TargetsTyped
<1>4. [targets[t] EXCEPT !.lifecycle = "Removed", !.load = NoLoad] \in TargetState
  BY ZenonT(90), <1>1, <1>2, <1>3, TargetStateParts, NoLoadTyped
<1>5. TargetsTyped(targets') /\ DOMAIN targets' = DOMAIN targets
  BY <1>1, <1>3, <1>4 DEF Typed, TargetsTyped
<1>6. scheduled' \in [DOMAIN targets' -> Amount]
  BY <1>1, <1>5, RefreshTyped
<1>7. UNCHANGED <<policy, flows, assignments, schedule_generation, requests>>
  BY DEF RemoveTarget
<1> QED
  BY ZenonT(90), <1>5, <1>6, <1>7, TargetsChangedTyped

\* ingest_load.
LEMMA IngestTyped ==
  ASSUME Typed, NEW t \in Target, NEW l \in Loads, IngestLoad(t, l)
  PROVE  Typed'
<1>1. targets' = [targets EXCEPT ![t].load = l] /\ t \in DOMAIN targets /\ l \in Load
  BY PlacementAssumption DEF IngestLoad
<1>2. \A u \in DOMAIN targets : targets[u] \in TargetState
  BY DEF Typed, TargetsTyped
<1>3. [targets[t] EXCEPT !.load = l] \in TargetState
  BY ZenonT(90), <1>1, <1>2, TargetStateParts
<1>4. TargetsTyped(targets') /\ DOMAIN targets' = DOMAIN targets
  BY <1>1, <1>2, <1>3 DEF Typed, TargetsTyped
<1>5. scheduled' \in [DOMAIN targets' -> Amount]
  BY <1>4 DEF IngestLoad, Typed
<1>6. UNCHANGED <<policy, flows, assignments, schedule_generation, requests>>
  BY DEF IngestLoad
<1> QED
  BY <1>4, <1>5, <1>6, TargetsChangedTyped

\* A restart, which restores targets undeclared.
LEMMA RestartTyped ==
  ASSUME Typed, Restart
  PROVE  Typed'
<1>1. /\ targets' = [t \in DOMAIN targets |->
                       [targets[t] EXCEPT !.lifecycle = "Undeclared", !.load = NoLoad]]
      /\ scheduled' = Recomputed(flows, targets, assignments)
  BY ZenonT(90) DEF Restart
<1>2. "Undeclared" \in TargetLifecycle
  BY DEF TargetLifecycle
<1>3. \A u \in DOMAIN targets : targets[u] \in TargetState
  BY DEF Typed, TargetsTyped
<1>4. \A u \in DOMAIN targets :
        [targets[u] EXCEPT !.lifecycle = "Undeclared", !.load = NoLoad] \in TargetState
  BY ZenonT(90), <1>2, <1>3, TargetStateParts, NoLoadTyped
<1>5. TargetsTyped(targets') /\ DOMAIN targets' = DOMAIN targets
  BY ZenonT(90), <1>1, <1>4 DEF Typed, TargetsTyped
<1>6. scheduled' \in [DOMAIN targets' -> Amount]
  BY ZenonT(90), <1>1, <1>5, RefreshTyped
<1>7. UNCHANGED <<policy, flows, assignments, schedule_generation, requests>>
  BY ZenonT(90) DEF Restart
<1> QED
  BY <1>5, <1>6, <1>7, TargetsChangedTyped

\* set_policy.
LEMMA SetPolicyTyped ==
  ASSUME Typed, NEW p \in Policies, SetPolicy(p)
  PROVE  Typed'
<1>1. policy' \in Policy
  BY PlacementAssumption DEF SetPolicy
<1> QED
  BY <1>1 DEF SetPolicy, Typed, FlowsTyped, TargetsTyped, AssignmentsTyped, RequestsTyped

\* A migration that observe verifies.
LEMMA MigrationTyped ==
  ASSUME Typed, NEW f \in Flow, NEW t \in Target, CompleteMigration(f, t)
  PROVE  Typed'
<1> DEFINE a == [target |-> t, incarnation |-> targets[t].descriptor.incarnation]
<1>1. targets[t].descriptor.incarnation \in Nat \ {0}
  BY TypedWellFormed, TargetTyped DEF CompleteMigration
<1>2. /\ assignments' = [assignments EXCEPT ![f] = a] /\ f \in DOMAIN assignments
      /\ t \in DOMAIN targets /\ scheduled' = Recomputed(flows, targets, assignments')
      /\ UNCHANGED <<policy, flows, targets, schedule_generation, requests>>
  BY DEF CompleteMigration
<1>3. a \in [target: DOMAIN targets, incarnation: Nat \ {0}]
  BY <1>1, <1>2
<1> HIDE DEF a
<1>4. AssignmentsTyped(assignments', flows, targets)
  BY <1>2, <1>3 DEF Typed, AssignmentsTyped
<1>5. scheduled' \in [DOMAIN targets -> Amount]
  BY <1>2, RefreshTyped
<1> QED
  BY ZenonT(90), <1>2, <1>4, <1>5
     DEF Typed, FlowsTyped, TargetsTyped, AssignmentsTyped, RequestsTyped

\* place: what it publishes are assignments of registered flows to known targets.
LEMMA PlaceTyped ==
  ASSUME Typed, NEW r \in RequestId, NEW batch \in SUBSET Flow, NEW fresh,
         Place(r, batch, fresh)
  PROVE  Typed'
<1> DEFINE plan == PlanOf(batch, fresh)
           changed == Changed(plan)
           a(f) == [target |-> plan[f],
                    incarnation |-> targets[plan[f]].descriptor.incarnation]
<1>1. \A f \in changed : f \in DOMAIN flows /\ plan[f] \in DOMAIN targets
  BY ZenonT(90), TypedWellFormed, PlanIsGood DEF GoodPlan, Changed
<1>2. /\ assignments' = [f \in DOMAIN assignments \cup changed |->
                           IF f \in changed THEN a(f) ELSE assignments[f]]
      /\ scheduled' = IF changed = {} THEN scheduled
                                      ELSE Recomputed(flows, targets, assignments)
      /\ schedule_generation' = IF changed = {} THEN schedule_generation
                                                ELSE schedule_generation + 1
      /\ requests' = Recorded(r, batch)
      /\ UNCHANGED <<policy, flows, targets>>
  BY ZenonT(90) DEF Place
<1> HIDE DEF plan, changed
<1>3. \A f \in changed : a(f) \in [target: DOMAIN targets, incarnation: Nat \ {0}]
  BY <1>1, TypedWellFormed, TargetTyped
<1> HIDE DEF a
<1>4. AssignmentsTyped(assignments', flows, targets)
  BY ZenonT(90), <1>1, <1>2, <1>3 DEF Typed, AssignmentsTyped
<1>5. scheduled' \in [DOMAIN targets -> Amount]
  BY <1>2, RefreshTyped DEF Typed
<1>6. schedule_generation' \in Nat
  BY <1>2 DEF Typed
<1>7. RequestsTyped(requests')
  <2> DEFINE table == Put(requests, r, batch)
             kept == {q \in DOMAIN table :
                        Cardinality({p \in DOMAIN table : p > q}) < MaxRequests}
  <2>1. RequestsTyped(table)
    BY DEF Typed, RequestsTyped, Put
  <2>2. requests' = Restrict(table, kept)
    BY <1>2 DEF Recorded
  <2>3. kept \subseteq DOMAIN table
    OBVIOUS
  <2> HIDE DEF table, kept
  <2> QED
    BY ZenonT(90), <2>1, <2>2, <2>3 DEF Restrict, RequestsTyped
<1> QED
  BY ZenonT(90), <1>2, <1>4, <1>5, <1>6, <1>7
     DEF Typed, FlowsTyped, TargetsTyped, AssignmentsTyped, RequestsTyped

-----------------------------------------------------------------------------
(* The cache. *)

\* The assignments are a table: a placement that changes none of its entries
\* leaves the same table.
Table == assignments = [f \in DOMAIN assignments |-> assignments[f]]

\* What recompute_scheduled_locked leaves depends on the table of flows only in
\* the demands of the flows that are assigned.
LEMMA RecomputedFromAssigned ==
  ASSUME NEW fs, NEW gs, NEW ts, NEW as,
         DOMAIN as \cap DOMAIN fs = DOMAIN as \cap DOMAIN gs,
         \A f \in DOMAIN as \cap DOMAIN fs : fs[f] = gs[f]
  PROVE  Recomputed(fs, ts, as) = Recomputed(gs, ts, as)
<1> DEFINE Of(hs, t) == OnTarget(as, t) \cap DOMAIN hs
<1>1. \A t : Of(fs, t) = Of(gs, t)
  BY ZenonT(90) DEF OnTarget
<1>2. \A t : \A f \in Of(fs, t) : fs[f] = gs[f]
  BY ZenonT(90) DEF OnTarget
<1>3. ASSUME NEW t \in DOMAIN ts, NEW d \in Dim
      PROVE  [f \in Of(fs, t) |-> fs[f].demand[d]] = [f \in Of(gs, t) |-> gs[f].demand[d]]
  BY ZenonT(90), <1>1, <1>2
<1>4. ASSUME NEW t \in DOMAIN ts
      PROVE  [d \in Dim |-> SumFunction([f \in Of(fs, t) |-> fs[f].demand[d]])]
             = [d \in Dim |-> SumFunction([f \in Of(gs, t) |-> gs[f].demand[d]])]
  BY ZenonT(90), <1>3
<1>5. QED
  BY ZenonT(90), <1>4 DEF Recomputed

-----------------------------------------------------------------------------
(* The steps that change assignments.                                       *)

\* Removing the assignment of flow f, the only one whose entry changes, leaves the
\* cached demand right when there was an assignment to remove.
LEMMA UnassignRefreshes ==
  ASSUME NEW f, Table, Unassign(f), assignments' # assignments,
         DOMAIN flows' \ {f} = DOMAIN flows \ {f},
         \A g \in DOMAIN flows \ {f} : flows'[g] = flows[g]
  PROVE  Accurate'
<1>1. f \in DOMAIN assignments
  <2>1. SUFFICES ASSUME f \notin DOMAIN assignments
                 PROVE  Drop(assignments, {f}) = assignments
    BY DEF Unassign
  <2>2. DOMAIN assignments \ {f} = DOMAIN assignments
    BY <2>1
  <2>3. QED
    BY <2>2 DEF Drop, Table
<1>2. scheduled' = Recomputed(flows, targets, assignments') /\ targets' = targets
  BY <1>1 DEF Unassign
<1>3. f \notin DOMAIN assignments'
  BY DEF Unassign, Drop
<1>4. DOMAIN assignments' \cap DOMAIN flows = DOMAIN assignments' \cap DOMAIN flows'
  BY ZenonT(90), <1>3
<1>5. \A g \in DOMAIN assignments' \cap DOMAIN flows : flows[g] = flows'[g]
  BY ZenonT(90), <1>3
<1>6. Recomputed(flows, targets, assignments') = Recomputed(flows', targets, assignments')
  BY <1>4, <1>5, RecomputedFromAssigned
<1>7. QED
  BY <1>2, <1>6 DEF Accurate

\* A flow that is registered again or removed is no longer assigned and no longer
\* counted.
LEMMA RegisterRefreshes ==
  ASSUME NEW f, NEW descriptor, Table, RegisterNewGeneration(f, descriptor),
         assignments' # assignments
  PROVE  Accurate'
<1>1. Unassign(f) /\ flows' = Put(flows, f, descriptor)
  BY DEF RegisterNewGeneration
<1>2. DOMAIN flows' \ {f} = DOMAIN flows \ {f}
  BY <1>1 DEF Put
<1>3. \A g \in DOMAIN flows \ {f} : flows'[g] = flows[g]
  BY <1>1 DEF Put
<1>4. QED
  BY ZenonT(90), <1>1, <1>2, <1>3, UnassignRefreshes

\* The same for remove_flow.
LEMMA RemoveRefreshes ==
  ASSUME NEW f, Table, RemoveFlow(f), assignments' # assignments
  PROVE  Accurate'
<1>1. Unassign(f) /\ flows' = Drop(flows, {f})
  BY DEF RemoveFlow
<1>2. DOMAIN flows' \ {f} = DOMAIN flows \ {f}
  BY <1>1 DEF Drop
<1>3. \A g \in DOMAIN flows \ {f} : flows'[g] = flows[g]
  BY <1>1 DEF Drop
<1>4. QED
  BY ZenonT(90), <1>1, <1>2, <1>3, UnassignRefreshes

\* A placement that publishes no schedule changes no assignment.
LEMMA UnpublishedChangesNothing ==
  ASSUME NEW r, NEW batch, NEW fresh, Table, schedule_generation \in Nat,
         Place(r, batch, fresh), ~Publishes
  PROVE  assignments' = assignments
<1> DEFINE plan == PlanOf(batch, fresh)
<1>1. Changed(plan) = {}
  <2>1. Changed(plan) # {} => schedule_generation' = schedule_generation + 1
    BY ZenonT(90) DEF Place
  <2>2. schedule_generation + 1 # schedule_generation
    OBVIOUS
  <2> QED
    BY ZenonT(90), <2>1, <2>2 DEF Publishes
<1>2. assignments' = [f \in DOMAIN assignments |-> assignments[f]]
  BY <1>1 DEF Place
<1>3. QED
  BY <1>2 DEF Table

\* The refresh that completes a migration counts the flow where it went.
LEMMA MigrationRefreshes ==
  ASSUME NEW f, NEW t, CompleteMigration(f, t)
  PROVE  Accurate'
BY DEF CompleteMigration, Accurate

-----------------------------------------------------------------------------
(* The theorems. *)

\* The tables are well formed, and the assignments are one of them.
PlacementInv == Typed /\ Table

\* Every operation leaves a table of assignments.
LEMMA TableKept ==
  ASSUME Table, [Next]_vars
  PROVE  Table'
<1>1. ASSUME NEW f \in Flow, NEW d \in FlowDescriptors,
             RegisterNewFlow(f, d) \/ RegisterNewGeneration(f, d)
      PROVE  Table'
  BY <1>1 DEF RegisterNewFlow, RegisterNewGeneration, Unassign, Drop, Table
<1>2. ASSUME NEW f \in Flow, RemoveFlow(f)
      PROVE  Table'
  BY <1>2 DEF RemoveFlow, Unassign, Drop, Table
<1>3. ASSUME NEW t \in Target, NEW l,
             (\E d \in Declarations : DeclareTarget(t, d, l)) \/ RedeclareTarget(t, l)
      PROVE  Table'
  BY ZenonT(90), <1>3 DEF DeclareTarget, RedeclareTarget, Table
<1>4. ASSUME NEW t \in Target, RemoveTarget(t)
      PROVE  Table'
  BY <1>4 DEF RemoveTarget, Table
<1>5. ASSUME NEW p \in Policies, SetPolicy(p)
      PROVE  Table'
  BY <1>5 DEF SetPolicy, Table
<1>6. ASSUME NEW t \in Target, NEW l \in Loads, IngestLoad(t, l)
      PROVE  Table'
  BY <1>6 DEF IngestLoad, Table
<1>7. ASSUME NEW f \in Flow, NEW t \in Target, CompleteMigration(f, t)
      PROVE  Table'
  BY ZenonT(90), <1>7 DEF CompleteMigration, Table
<1>8. ASSUME NEW r, NEW batch, NEW fresh, Place(r, batch, fresh)
      PROVE  Table'
  <2> DEFINE plan == PlanOf(batch, fresh)
             changed == Changed(plan)
  <2>1. assignments' =
          [f \in DOMAIN assignments \cup changed |->
             IF f \in changed
             THEN [target |-> plan[f],
                   incarnation |-> targets[plan[f]].descriptor.incarnation]
             ELSE assignments[f]]
    BY <1>8 DEF Place
  <2> HIDE DEF plan, changed
  <2> QED
    BY ZenonT(90), <2>1 DEF Table
<1>9. CASE Restart
  BY ZenonT(90), <1>9 DEF Restart, Table
<1>10. CASE UNCHANGED vars
  BY <1>10 DEF vars, Table
<1> QED
  BY ZenonT(90), <1>1, <1>2, <1>3, <1>4, <1>5, <1>6, <1>7, <1>8, <1>9, <1>10 DEF Next

\* Every operation keeps the tables well formed.
LEMMA TypedKept ==
  ASSUME Typed, [Next]_vars
  PROVE  Typed'
<1>1. ASSUME NEW f \in Flow, NEW d \in FlowDescriptors,
             RegisterNewFlow(f, d) \/ RegisterNewGeneration(f, d)
      PROVE  Typed'
  BY ZenonT(90), <1>1, RegisterNewTyped, RegisterGenerationTyped
<1>2. ASSUME NEW f \in Flow, RemoveFlow(f)
      PROVE  Typed'
  BY <1>2, RemoveFlowTyped
<1>3. ASSUME NEW t \in Target, NEW l \in {"Ready", "NotReady"},
             (\E d \in Declarations : DeclareTarget(t, d, l)) \/ RedeclareTarget(t, l)
      PROVE  Typed'
  BY ZenonT(90), <1>3, DeclareTyped, RedeclareTyped
<1>4. ASSUME NEW t \in Target, RemoveTarget(t)
      PROVE  Typed'
  BY <1>4, RemoveTargetTyped
<1>5. ASSUME NEW p \in Policies, SetPolicy(p)
      PROVE  Typed'
  BY <1>5, SetPolicyTyped
<1>6. ASSUME NEW t \in Target, NEW l \in Loads, IngestLoad(t, l)
      PROVE  Typed'
  BY <1>6, IngestTyped
<1>7. ASSUME NEW f \in Flow, NEW t \in Target, CompleteMigration(f, t)
      PROVE  Typed'
  BY <1>7, MigrationTyped
<1>8. ASSUME NEW r \in RequestId, NEW batch \in SUBSET Flow, NEW fresh,
             Place(r, batch, fresh)
      PROVE  Typed'
  BY <1>8, PlaceTyped
<1>9. CASE Restart
  BY ZenonT(90), <1>9, RestartTyped
<1>10. CASE UNCHANGED vars
  BY <1>10 DEF vars, Typed, FlowsTyped, TargetsTyped, AssignmentsTyped, RequestsTyped
<1> QED
  BY ZenonT(90), <1>1, <1>2, <1>3, <1>4, <1>5, <1>6, <1>7, <1>8, <1>9, <1>10 DEF Next

\* In every state a coordinator reaches, its tables are well formed.
LEMMA PlacementCorrect == Spec => []PlacementInv
<1>1. Init => PlacementInv
  BY InitTyped DEF Init, PlacementInv, Table
<1>2. PlacementInv /\ [Next]_vars => PlacementInv'
  BY TypedKept, TableKept DEF PlacementInv
<1> QED
  BY <1>1, <1>2, PTL DEF Spec

\* Every operation leaves well-formed tables of flows, targets, assignments and
\* requests, every assignment is of a registered flow to a declared target, and
\* recompute_scheduled_locked leaves an amount in range for each target.
THEOREM TablesWellFormed == Spec => []TypeOK
<1>1. PlacementInv => TypeOK
  BY TypedIsTypeOK DEF PlacementInv
<1> QED
  BY <1>1, PlacementCorrect, PTL

\* The demand place_locked evaluates a flow of a batch against is the demand the
\* target will have once the decisions before it are committed, for every number of
\* flows and targets, every batch and every policy.
THEOREM PlannedDemandExact == Spec => []PlannedDemandIsExact
<1>1. ASSUME PlacementInv PROVE PlannedDemandIsExact
  <2>1. WellFormed
    BY <1>1, TypedWellFormed DEF PlacementInv
  <2>2. SUFFICES ASSUME Accurate, NEW batch \in SUBSET Flow, NEW fresh,
                        NEW t \in DOMAIN targets, NEW plan, plan = PlanOf(batch, fresh),
                        Fits(Plus(Committed(t), DemandOf(PlannedAdd(plan, t))))
                 PROVE  LocalScheduled(plan, t) = DemandOf(OnTarget(Planned(plan), t))
    BY DEF PlannedDemandIsExact
  <2>3. Changed(plan) \subseteq DOMAIN flows
    BY ZenonT(90), <2>1, <2>2, PlanIsGood, GoodPlanKnown
  <2> QED
    BY <2>1, <2>2, <2>3, LocalIsExact
<1> QED
  BY <1>1, PlacementCorrect, PTL

\* The step that publishes a schedule is a placement.
LEMMA PublishedByPlace ==
  ASSUME Next, Publishes
  PROVE  \E r \in RequestId, batch \in SUBSET Flow, fresh \in SUBSET WithLoad :
           Place(r, batch, fresh)
<1>1. ASSUME NEW f \in Flow, NEW d \in FlowDescriptors,
             RegisterNewFlow(f, d) \/ RegisterNewGeneration(f, d)
      PROVE  FALSE
  BY <1>1 DEF RegisterNewFlow, RegisterNewGeneration, Unassign, Publishes
<1>2. ASSUME NEW f \in Flow, RemoveFlow(f)
      PROVE  FALSE
  BY <1>2 DEF RemoveFlow, Unassign, Publishes
<1>3. ASSUME NEW t \in Target, NEW l,
             (\E d \in Declarations : DeclareTarget(t, d, l)) \/ RedeclareTarget(t, l)
      PROVE  FALSE
  BY ZenonT(90), <1>3 DEF DeclareTarget, RedeclareTarget, Publishes
<1>4. ASSUME NEW t \in Target, RemoveTarget(t)
      PROVE  FALSE
  BY <1>4 DEF RemoveTarget, Publishes
<1>5. ASSUME NEW p \in Policies, SetPolicy(p)
      PROVE  FALSE
  BY <1>5 DEF SetPolicy, Publishes
<1>6. ASSUME NEW t \in Target, NEW l \in Loads, IngestLoad(t, l)
      PROVE  FALSE
  BY <1>6 DEF IngestLoad, Publishes
<1>7. ASSUME NEW f \in Flow, NEW t \in Target, CompleteMigration(f, t)
      PROVE  FALSE
  BY <1>7 DEF CompleteMigration, Publishes
<1>8. ASSUME Restart
      PROVE  FALSE
  BY ZenonT(90), <1>8 DEF Restart, Publishes
<1> QED
  BY ZenonT(90), <1>1, <1>2, <1>3, <1>4, <1>5, <1>6, <1>7, <1>8 DEF Next

\* A placement leaves on each target what its plan does, and every flow a target
\* gains was added to it by the plan.
LEMMA CommitsThePlan ==
  ASSUME NEW r, NEW batch, NEW fresh, Place(r, batch, fresh), NEW t,
         NEW plan, plan = PlanOf(batch, fresh)
  PROVE  /\ OnTarget(assignments', t) = OnTarget(Planned(plan), t)
         /\ Gained(t) \subseteq PlannedAdd(plan, t)
<1> DEFINE changed == Changed(plan)
<1>1. assignments' =
        [f \in DOMAIN assignments \cup changed |->
           IF f \in changed
           THEN [target |-> plan[f],
                 incarnation |-> targets[plan[f]].descriptor.incarnation]
           ELSE assignments[f]]
  BY ZenonT(90) DEF Place
<1>2. Planned(plan) = [f \in DOMAIN assignments \cup changed |->
                         IF f \in changed THEN [target |-> plan[f]] ELSE assignments[f]]
  BY DEF Planned
<1>3. PlannedAdd(plan, t) = {f \in changed : plan[f] = t}
  BY ZenonT(90) DEF PlannedAdd
<1> HIDE DEF changed
<1>4. \A f \in DOMAIN assignments \cup changed :
        assignments'[f].target = IF f \in changed THEN plan[f] ELSE assignments[f].target
  BY <1>1
<1>5. \A f \in DOMAIN assignments \cup changed :
        Planned(plan)[f].target = IF f \in changed THEN plan[f] ELSE assignments[f].target
  BY <1>2
<1>6. DOMAIN assignments' = DOMAIN assignments \cup changed
      /\ DOMAIN Planned(plan) = DOMAIN assignments \cup changed
  BY ZenonT(90), <1>1, <1>2
<1>7. OnTarget(assignments', t) = OnTarget(Planned(plan), t)
  BY ZenonT(90), <1>4, <1>5, <1>6 DEF OnTarget
<1>8. Gained(t) \subseteq PlannedAdd(plan, t)
  BY <1>3, <1>4, <1>6 DEF Gained, OnTarget
<1> QED
  BY ZenonT(90), <1>7, <1>8

\* A placement that publishes a schedule overfills no target.
LEMMA PlaceFits ==
  ASSUME WellFormed, Accurate, CountsCommitments, NEW r, NEW batch \in SUBSET Flow,
         NEW fresh, Place(r, batch, fresh), NEW t \in DOMAIN targets, Gained(t) # {},
         Fits(Plus(Committed(t), DemandOf(OnTarget(assignments', t)))), NEW d \in Dim
  PROVE  /\ Committed(t)'[d] <= targets[t].descriptor.capacity[d]
         /\ (\E f \in Gained(t) : flows[f].demand[d] + policy.reserve[d] > 0)
            => Committed(t)'[d] <= Room(t)[d]
<1> DEFINE plan == PlanOf(batch, fresh)
           P == OnTarget(Planned(plan), t)
<1>1. OnTarget(assignments', t) = P /\ Gained(t) \subseteq PlannedAdd(plan, t)
  BY CommitsThePlan
<1>2. flows' = flows
  BY ZenonT(90) DEF Place
<1>3. Committed(t)' = DemandOf(OnTarget(assignments', t))
  BY <1>2 DEF Committed, DemandOf, OnTarget
<1>4. Committed(t)' = DemandOf(P)
  BY <1>1, <1>3, ZenonT(90)
<1>5. Fits(Plus(Committed(t), DemandOf(P)))
  BY <1>1, ZenonT(90)
<1>6. PlannedAdd(plan, t) # {}
  BY <1>1
<1>7. /\ DemandOf(P)[d] <= targets[t].descriptor.capacity[d]
      /\ (\E f \in PlannedAdd(plan, t) : flows[f].demand[d] + policy.reserve[d] > 0)
         => DemandOf(P)[d] <= Room(t)[d]
  <2> HIDE DEF plan
  <2> QED
    BY ZenonT(90), <1>5, <1>6, BatchFits DEF plan
<1> HIDE DEF plan, P
<1> QED
  BY ZenonT(90), <1>1, <1>4, <1>7

\* A batch that place_locked commits overfills no target it adds flows to: all the
\* demand then assigned to the target is within its capacity, and within what its own
\* and the policy's reserve leave in each dimension in which an added flow needs
\* room.  This holds for every number of flows, targets and dimensions.
THEOREM CapacityConserved == Spec => BatchConservesCapacity
<1> DEFINE Conserved ==
      Publishes /\ Accurate /\ CountsCommitments =>
        \A t \in DOMAIN targets :
          /\ Gained(t) # {}
          /\ Fits(Plus(Committed(t), DemandOf(OnTarget(assignments', t))))
          => \A d \in Dim :
               /\ Committed(t)'[d] <= targets[t].descriptor.capacity[d]
               /\ (\E f \in Gained(t) : flows[f].demand[d] + policy.reserve[d] > 0)
                  => Committed(t)'[d] <= Room(t)[d]
<1>1. ASSUME PlacementInv, Next PROVE Conserved
  <2>1. WellFormed
    BY <1>1, TypedWellFormed DEF PlacementInv
  <2>2. SUFFICES ASSUME Publishes, Accurate, CountsCommitments,
                        NEW t \in DOMAIN targets, Gained(t) # {},
                        Fits(Plus(Committed(t), DemandOf(OnTarget(assignments', t)))),
                        NEW d \in Dim
                 PROVE  /\ Committed(t)'[d] <= targets[t].descriptor.capacity[d]
                        /\ (\E f \in Gained(t) :
                              flows[f].demand[d] + policy.reserve[d] > 0)
                           => Committed(t)'[d] <= Room(t)[d]
    BY ZenonT(90)
  <2>3. PICK r \in RequestId, batch \in SUBSET Flow, fresh \in SUBSET WithLoad :
          Place(r, batch, fresh)
    BY ZenonT(90), <1>1, <2>2, PublishedByPlace
  <2> QED
    BY ZenonT(90), <2>1, <2>2, <2>3, PlaceFits
<1>2. PlacementInv /\ [Next]_vars => [Conserved]_vars
  BY <1>1
<1> HIDE DEF Conserved
<1>3. Spec => [][Conserved]_vars
  BY <1>2, PlacementCorrect, PTL DEF Spec
<1> QED
  BY ZenonT(90), <1>3 DEF Conserved, BatchConservesCapacity

\* A step that publishes no schedule and changes the assignments leaves the cache
\* right.
LEMMA StepRefreshes ==
  ASSUME Table, schedule_generation \in Nat, Next, ~Publishes,
         assignments' # assignments
  PROVE  Accurate'
<1>1. ASSUME NEW f \in Flow, NEW d \in FlowDescriptors,
             RegisterNewFlow(f, d) \/ RegisterNewGeneration(f, d)
      PROVE  Accurate'
  BY <1>1, RegisterRefreshes DEF RegisterNewFlow
<1>2. ASSUME NEW f \in Flow, RemoveFlow(f)
      PROVE  Accurate'
  BY <1>2, RemoveRefreshes
<1>3. ASSUME NEW t \in Target, NEW l,
             (\E d \in Declarations : DeclareTarget(t, d, l)) \/ RedeclareTarget(t, l)
      PROVE  Accurate'
  BY ZenonT(90), <1>3 DEF DeclareTarget, RedeclareTarget
<1>4. ASSUME NEW t \in Target, RemoveTarget(t)
      PROVE  Accurate'
  BY <1>4 DEF RemoveTarget
<1>5. ASSUME NEW p \in Policies, SetPolicy(p)
      PROVE  Accurate'
  BY <1>5 DEF SetPolicy
<1>6. ASSUME NEW t \in Target, NEW l \in Loads, IngestLoad(t, l)
      PROVE  Accurate'
  BY <1>6 DEF IngestLoad
<1>7. ASSUME NEW f \in Flow, NEW t \in Target, CompleteMigration(f, t)
      PROVE  Accurate'
  BY <1>7, MigrationRefreshes
<1>8. ASSUME NEW r, NEW batch, NEW fresh, Place(r, batch, fresh)
      PROVE  Accurate'
  BY <1>8, UnpublishedChangesNothing
<1>9. ASSUME Restart
      PROVE  Accurate'
  BY ZenonT(90), <1>9 DEF Restart
<1>10. QED
  BY ZenonT(90), <1>1, <1>2, <1>3, <1>4, <1>5, <1>6, <1>7, <1>8, <1>9 DEF Next

\* Every operation of the coordinator other than a placement that changes who is
\* assigned where - a new generation of a flow, its removal, a completed migration -
\* calls recompute_scheduled_locked in time: the cached demand it leaves is that of
\* the assignments it leaves, even if the cache was stale before.
THEOREM AssignmentsAreCounted == Spec => ScheduleRefreshed
<1>1. PlacementInv /\ [Next]_vars
      => [~Publishes /\ assignments' # assignments => Accurate']_vars
  BY StepRefreshes DEF PlacementInv, Typed
<1> QED
  BY <1>1, PlacementCorrect, PTL DEF Spec, ScheduleRefreshed

-----------------------------------------------------------------------------
(* Rebalancing. *)

\* Flow f gains by moving from s to t, with cached demand "sched": what a proposal of
\* rebalance_locked has found out.
Gains(f, s, t, fresh, sched) ==
  /\ LoadKnown(s, sched[s], fresh)
  /\ HasRoom(f, t, LoadUsed(t, sched[t], fresh))
  /\ UtilisationPpm(LoadUsed(s, sched[s], fresh), targets[s].descriptor.capacity)
     > UtilisationPpm(Plus(LoadUsed(t, sched[t], fresh), flows[f].demand),
                      targets[t].descriptor.capacity)

\* Each proposal moves an assigned flow to another target, where it gains.
ProposalsGain ==
  \A fresh, m : m \in Proposals(fresh) =>
    /\ m.flow \in DOMAIN assignments /\ m.target \in DOMAIN targets
    /\ \A s, sched : s = assignments[m.flow].target /\ sched = scheduled =>
         s \in DOMAIN targets /\ s # m.target /\ Gains(m.flow, s, m.target, fresh, sched)

\* Without a plan the cached demand is used as it is.
LEMMA LocalOfNoPlan ==
  ASSUME WellFormed, NEW t \in DOMAIN targets
  PROVE  Changed(NoPlan) = {} /\ LocalScheduled(NoPlan, t) = scheduled[t]
<1>1. Changed(NoPlan) = {}
  BY DEF Changed, NoPlan
<1>2. PlannedAdd(NoPlan, t) = {} /\ PlannedRelease(NoPlan, t) = {}
  BY <1>1 DEF PlannedAdd, PlannedRelease
<1>3. \A d \in Dim : DemandOf({})[d] = 0
  BY DemandOfNothing
<1>4. scheduled[t] \in Amount /\ MaxAmount \in Nat
  BY PlacementAssumption DEF WellFormed
<1>5. Clamp(DemandOf({})) = DemandOf({})
  BY <1>3, <1>4 DEF Clamp, Fits
<1>6. Plus(scheduled[t], DemandOf({})) = scheduled[t]
  BY <1>3, <1>4 DEF Plus, Amount
<1>7. Clamp(scheduled[t]) = scheduled[t]
  BY <1>4 DEF Clamp, Fits, Amount
<1>8. SaturatingSub(scheduled[t], DemandOf({})) = scheduled[t]
  BY <1>3, <1>4 DEF SaturatingSub, Amount
<1> QED
  BY <1>1, <1>2, <1>5, <1>6, <1>7, <1>8, ZenonT(90) DEF LocalScheduled

\* A positive difference of utilisations.
LEMMA PositiveGain ==
  ASSUME NEW a \in Nat, NEW b \in Nat, NEW gain, gain = a - b, gain > 0
  PROVE  a > b
OBVIOUS

\* What rebalance_locked proposes gains.
LEMMA ProposalsSound == Typed => ProposalsGain
<1>1. SUFFICES ASSUME Typed, NEW fresh, NEW m \in Proposals(fresh)
               PROVE  LET s == assignments[m.flow].target IN
                      /\ m.flow \in DOMAIN assignments /\ m.target \in DOMAIN targets
                      /\ s \in DOMAIN targets /\ s # m.target
                      /\ Gains(m.flow, s, m.target, fresh, scheduled)
  BY ZenonT(90) DEF ProposalsGain
<1> DEFINE f == m.flow
           s == assignments[f].target
           t == m.target
           A == Alternatives(f, fresh)
<1>2. WellFormed
  BY <1>1, TypedWellFormed
<1>3. PICK g \in DOMAIN assignments \cap DOMAIN flows :
        /\ m = Move(g, fresh)
        /\ LoadKnown(assignments[g].target, scheduled[assignments[g].target], fresh)
        /\ \A d \in Dim : targets[assignments[g].target].descriptor.capacity[d] # 0
        /\ Alternatives(g, fresh) # {}
  BY <1>1, ZenonT(90) DEF Proposals
<1>4. m.gain > 0
  BY <1>1, ZenonT(90) DEF Proposals
<1>5. f = g /\ t = BestOf(Alternatives(g, fresh), g, NoPlan, fresh)
      /\ m.gain = CurrentPpm(g, fresh) - PpmWith(g, t, NoPlan, fresh)
  BY <1>3 DEF Move
<1>6. s \in DOMAIN targets /\ f \in DOMAIN assignments /\ f \in DOMAIN flows
  BY ZenonT(90), <1>1, <1>3, <1>5 DEF Typed, AssignmentsTyped
<1>7. A \subseteq DOMAIN targets /\ s \notin A
      /\ \A u \in A : Eligible(f, u, NoPlan, fresh)
  BY ZenonT(90) DEF Alternatives
<1>8. Changed(NoPlan) \subseteq DOMAIN flows
  BY ZenonT(90), <1>2, <1>6, LocalOfNoPlan
<1>9. t \in A
  <2> HIDE DEF A, t, f
  <2>1. A # {} /\ t = BestOf(A, f, NoPlan, fresh)
    BY <1>3, <1>5, ZenonT(90) DEF A
  <2> QED
    BY ZenonT(90), <1>2, <1>6, <1>7, <1>8, <2>1, BestOfIn
<1>10. LocalScheduled(NoPlan, t) = scheduled[t]
  BY ZenonT(90), <1>2, <1>7, <1>9, LocalOfNoPlan
<1>11. HasRoom(f, t, LoadUsed(t, scheduled[t], fresh))
  BY <1>7, <1>9, <1>10, ZenonT(90) DEF Eligible
<1> DEFINE now == UtilisationPpm(LoadUsed(s, scheduled[s], fresh),
                                 targets[s].descriptor.capacity)
           then == UtilisationPpm(Plus(LoadUsed(t, scheduled[t], fresh), flows[f].demand),
                                  targets[t].descriptor.capacity)
<1>12. CurrentPpm(g, fresh) = now /\ PpmWith(g, t, NoPlan, fresh) = then
  BY <1>5, <1>10, ZenonT(90) DEF CurrentPpm, PpmWith
<1>13. /\ LoadUsed(s, scheduled[s], fresh) \in [Dim -> Nat]
       /\ LoadUsed(t, scheduled[t], fresh) \in [Dim -> Nat]
       /\ targets[s].descriptor.capacity \in [Dim -> Nat]
       /\ targets[t].descriptor.capacity \in [Dim -> Nat]
       /\ flows[f].demand \in [Dim -> Nat]
  <2> HIDE DEF s, t, f
  <2>1. scheduled[s] \in Amount /\ scheduled[t] \in Amount /\ t \in DOMAIN targets
    BY ZenonT(90), <1>2, <1>6, <1>7, <1>9 DEF WellFormed
  <2>2. flows[f].demand \in Amount
    BY <1>2, <1>6 DEF WellFormed, FlowDescriptor
  <2> QED
    BY <1>2, <1>6, <2>1, <2>2, LoadTyped, TargetTyped, AmountVector, ZenonT(90)
<1>14. now \in Nat
  BY ZenonT(90), <1>3, <1>5, <1>13, UtilisationTyped
<1>15. then \in Nat
  <2>1. \A d \in Dim : targets[t].descriptor.capacity[d] # 0
    BY ZenonT(90), <1>11 DEF HasRoom
  <2> QED
    BY ZenonT(90), <1>13, <2>1, UtilisationTyped, PlusTyped
<1>16. now > then
  <2> HIDE DEF now, then
  <2> QED
    BY ZenonT(90), <1>4, <1>5, <1>12, <1>14, <1>15, PositiveGain
<1>17. LoadKnown(s, scheduled[s], fresh)
  BY <1>3, <1>5, ZenonT(90)
<1> QED
  BY <1>6, <1>7, <1>9, <1>11, <1>16, <1>17, ZenonT(90) DEF Gains

\* Four utilisations cannot each be below the next all the way round.
LEMMA NoCycle ==
  ASSUME NEW a \in Nat, NEW b \in Nat, NEW c \in Nat, NEW d \in Nat,
         a > b, c > d, c <= b, a <= d
  PROVE  FALSE
OBVIOUS

\* A flow cannot gain by moving from s to t and then by moving back, when the demand
\* cached for t has grown and that for s has shrunk by no more than the flow's own.
LEMMA NoReturn ==
  ASSUME WellFormed, NEW f \in DOMAIN flows, NEW s \in DOMAIN targets,
         NEW t \in DOMAIN targets, NEW fresh,
         NEW old \in [DOMAIN targets -> Amount], NEW new \in [DOMAIN targets -> Amount],
         Gains(f, s, t, fresh, old), Gains(f, t, s, fresh, new),
         \A d \in Dim : old[t][d] <= new[t][d] /\ new[s][d] <= old[s][d],
         Fits(Plus(old[t], flows[f].demand))
           => \A d \in Dim : new[t][d] <= old[t][d] + flows[f].demand[d],
         Fits(Plus(new[s], flows[f].demand))
           => \A d \in Dim : old[s][d] <= new[s][d] + flows[f].demand[d]
  PROVE  FALSE
<1> DEFINE at(u, sched) == UtilisationPpm(LoadUsed(u, sched[u], fresh),
                                          targets[u].descriptor.capacity)
           with(u, sched) == UtilisationPpm(Plus(LoadUsed(u, sched[u], fresh),
                                                 flows[f].demand),
                                            targets[u].descriptor.capacity)
<1>1. old[s] \in Amount /\ old[t] \in Amount /\ new[s] \in Amount /\ new[t] \in Amount
  BY ZenonT(90)
<1>2. /\ LoadKnown(s, old[s], fresh) /\ HasRoom(f, t, LoadUsed(t, old[t], fresh))
      /\ LoadKnown(t, new[t], fresh) /\ HasRoom(f, s, LoadUsed(s, new[s], fresh))
      /\ at(s, old) > with(t, old) /\ at(t, new) > with(s, new)
  BY ZenonT(90) DEF Gains
<1>3. at(t, new) <= with(t, old)
  BY ZenonT(90), <1>1, <1>2, EstimateCovers
<1>4. at(s, old) <= with(s, new)
  BY ZenonT(90), <1>1, <1>2, EstimateCovers
<1>5. flows[f].demand \in [Dim -> Nat]
  <2>1. flows[f].demand \in Amount
    BY DEF WellFormed, FlowDescriptor
  <2> QED
    BY ZenonT(90), <2>1, AmountVector
<1>6. \A u \in {s, t} : /\ targets[u].descriptor.capacity \in [Dim -> Nat]
                        /\ \A d \in Dim : targets[u].descriptor.capacity[d] # 0
  BY ZenonT(90), <1>2, TargetTyped, AmountVector DEF HasRoom
<1>7. \A u \in {s, t}, sched \in {old, new} : at(u, sched) \in Nat /\ with(u, sched) \in Nat
  <2>1. SUFFICES ASSUME NEW u \in {s, t}, NEW sched \in {old, new}
                 PROVE  at(u, sched) \in Nat /\ with(u, sched) \in Nat
    BY ZenonT(90)
  <2>2. sched[u] \in Amount /\ u \in DOMAIN targets
    BY ZenonT(90), <1>1
  <2>3. LoadUsed(u, sched[u], fresh) \in [Dim -> Nat]
    BY ZenonT(90), <2>2, LoadTyped
  <2>4. Plus(LoadUsed(u, sched[u], fresh), flows[f].demand) \in [Dim -> Nat]
    BY ZenonT(90), <1>5, <2>3, PlusTyped
  <2> QED
    BY <1>6, <2>3, <2>4, UtilisationTyped
<1>8. /\ at(s, old) \in Nat /\ at(t, new) \in Nat
      /\ with(t, old) \in Nat /\ with(s, new) \in Nat
  BY ZenonT(90), <1>7
<1> HIDE DEF at, with
<1> QED
  BY ZenonT(90), <1>2, <1>3, <1>4, <1>8, NoCycle

\* One more flow adds its demand.
LEMMA DemandWithFlow ==
  ASSUME WellFormed, NEW f \in DOMAIN flows, NEW fs \in SUBSET DOMAIN flows, f \notin fs
  PROVE  DemandOf(fs \cup {f}) = Plus(DemandOf(fs), flows[f].demand)
<1> DEFINE dem == flows[f].demand
           all == fs \cup {f}
<1>1. all \in SUBSET DOMAIN flows /\ f \in all /\ all \ {f} = fs
  BY ZenonT(90)
<1>2. dem \in [Dim -> Nat]
  BY AmountVector DEF WellFormed, FlowDescriptor
<1>3. DemandOf(all) \in [Dim -> Nat] /\ DemandOf(fs) \in [Dim -> Nat]
  BY ZenonT(90), <1>1, DemandVector
<1>4. \A d \in Dim : DemandOf(all)[d] = dem[d] + DemandOf(all \ {f})[d]
  BY ZenonT(90), <1>1, DemandOfOne
<1>5. \A d \in Dim : DemandOf(all)[d] = dem[d] + DemandOf(fs)[d]
  BY ZenonT(90), <1>1, <1>4
<1> HIDE DEF dem, all
<1>6. DemandOf(all) = Plus(DemandOf(fs), dem)
  BY ZenonT(90), <1>2, <1>3, <1>5, PlusIs
<1> QED
  BY ZenonT(90), <1>6 DEF dem, all

\* Once f is assigned to t instead of s, refreshing a cache that was right moves the
\* flow's demand from s to t.
LEMMA DemandMoves ==
  ASSUME WellFormed, Accurate, NEW as, DOMAIN as = DOMAIN assignments,
         NEW f \in DOMAIN assignments, NEW s \in DOMAIN targets, NEW t \in DOMAIN targets,
         s # t, assignments[f].target = s,
         \A g \in DOMAIN assignments :
           as[g].target = IF g = f THEN t ELSE assignments[g].target,
         NEW new, new = Recomputed(flows, targets, as)
  PROVE  /\ \A d \in Dim : scheduled[t][d] <= new[t][d] /\ new[s][d] <= scheduled[s][d]
         /\ Fits(Plus(scheduled[t], flows[f].demand))
              => \A d \in Dim : new[t][d] <= scheduled[t][d] + flows[f].demand[d]
         /\ Fits(Plus(new[s], flows[f].demand))
              => \A d \in Dim : scheduled[s][d] <= new[s][d] + flows[f].demand[d]
<1> DEFINE On(u) == OnTarget(assignments, u)
           dem == flows[f].demand
<1>1. DOMAIN assignments \subseteq DOMAIN flows /\ f \in DOMAIN flows
  BY ZenonT(90) DEF WellFormed
<1>2. dem \in Amount
  BY <1>1 DEF WellFormed, FlowDescriptor
<1>3. /\ OnTarget(as, t) = On(t) \cup {f} /\ f \notin On(t)
      /\ On(s) = OnTarget(as, s) \cup {f} /\ f \notin OnTarget(as, s)
      /\ On(t) \in SUBSET DOMAIN flows /\ On(s) \in SUBSET DOMAIN flows
  BY ZenonT(90), <1>1 DEF OnTarget
<1>4. ASSUME NEW fs \in SUBSET DOMAIN flows, f \notin fs
      PROVE  DemandOf(fs \cup {f}) = Plus(DemandOf(fs), dem)
  BY ZenonT(90), <1>1, <1>4, DemandWithFlow
<1>5. ASSUME NEW fs \in SUBSET DOMAIN flows, f \notin fs,
             NEW low, low = Clamp(DemandOf(fs)),
             NEW high, high = Clamp(DemandOf(fs \cup {f}))
      PROVE  /\ \A d \in Dim : low[d] <= high[d]
             /\ Fits(Plus(low, dem)) => \A d \in Dim : high[d] <= low[d] + dem[d]
  <2>1. DemandOf(fs) \in [Dim -> Nat]
    BY ZenonT(90), DemandVector
  <2>2. high = Clamp(Plus(DemandOf(fs), dem))
    BY <1>4, <1>5
  <2> HIDE DEF dem
  <2> QED
    BY ZenonT(90), <1>2, <1>5, <2>1, <2>2, ClampWithFlow
<1>6. /\ scheduled[t] = Clamp(DemandOf(On(t))) /\ scheduled[s] = Clamp(DemandOf(On(s)))
      /\ new[t] = Clamp(DemandOf(OnTarget(as, t)))
      /\ new[s] = Clamp(DemandOf(OnTarget(as, s)))
  BY ZenonT(90), <1>1, RecomputedIs DEF Accurate
<1>7. OnTarget(as, s) \in SUBSET DOMAIN flows
  BY ZenonT(90), <1>3
<1> HIDE DEF On, dem
<1>8. /\ \A d \in Dim : scheduled[t][d] <= new[t][d]
      /\ Fits(Plus(scheduled[t], dem))
           => \A d \in Dim : new[t][d] <= scheduled[t][d] + dem[d]
  BY <1>3, <1>5, <1>6, ZenonT(90)
<1>9. /\ \A d \in Dim : new[s][d] <= scheduled[s][d]
      /\ Fits(Plus(new[s], dem))
           => \A d \in Dim : scheduled[s][d] <= new[s][d] + dem[d]
  BY <1>3, <1>5, <1>6, <1>7, ZenonT(90)
<1> QED
  BY <1>8, <1>9, ZenonT(90) DEF dem

\* A step that moves a flow and leaves flows, targets and policy alone is a placement,
\* which refreshes the cache before it assigns, or a completed migration.
LEMMA MovingStep ==
  ASSUME Accurate, Next, UNCHANGED <<policy, flows, targets>>,
         DOMAIN assignments \subseteq DOMAIN flows, NEW f \in DOMAIN assignments,
         assignments'[f].target # assignments[f].target
  PROVE  \/ scheduled' = scheduled
         \/ /\ DOMAIN assignments' = DOMAIN assignments
            /\ scheduled' = Recomputed(flows, targets, assignments')
<1>1. assignments' # assignments
  OBVIOUS
<1>2. ASSUME NEW g \in Flow, NEW d \in FlowDescriptors,
             RegisterNewFlow(g, d) \/ RegisterNewGeneration(g, d)
      PROVE  FALSE
  <2>1. ~RegisterNewFlow(g, d)
    BY ZenonT(90), <1>1 DEF RegisterNewFlow
  <2>2. g \in DOMAIN flows /\ d.generation > flows[g].generation /\ flows = Put(flows, g, d)
    BY ZenonT(90), <1>2, <2>1 DEF RegisterNewGeneration
  <2>3. flows[g] = d
    BY <2>2 DEF Put
  <2>4. d.generation \in Nat
    BY PlacementAssumption DEF FlowDescriptor
  <2> QED
    BY <2>2, <2>3, <2>4
<1>3. ASSUME NEW g \in Flow, RemoveFlow(g)
      PROVE  FALSE
  BY <1>3 DEF RemoveFlow, Drop
<1>4. ASSUME NEW t \in Target, NEW l,
             (\E d \in Declarations : DeclareTarget(t, d, l)) \/ RedeclareTarget(t, l)
      PROVE  FALSE
  BY ZenonT(90), <1>1, <1>4 DEF DeclareTarget, RedeclareTarget
<1>5. ASSUME NEW t \in Target, RemoveTarget(t)
      PROVE  FALSE
  BY <1>1, <1>5 DEF RemoveTarget
<1>6. ASSUME NEW p \in Policies, SetPolicy(p)
      PROVE  FALSE
  BY <1>1, <1>6 DEF SetPolicy
<1>7. ASSUME NEW t \in Target, NEW l \in Loads, IngestLoad(t, l)
      PROVE  FALSE
  BY ZenonT(90), <1>1, <1>7 DEF IngestLoad
<1>8. ASSUME NEW g \in Flow, NEW t \in Target, CompleteMigration(g, t)
      PROVE  /\ DOMAIN assignments' = DOMAIN assignments
             /\ scheduled' = Recomputed(flows, targets, assignments')
  BY <1>8 DEF CompleteMigration
<1>9. ASSUME NEW r, NEW batch, NEW fresh, Place(r, batch, fresh)
      PROVE  scheduled' = scheduled
  BY ZenonT(90), <1>9 DEF Place, Accurate
<1>10. ASSUME Restart
      PROVE  FALSE
  BY ZenonT(90), <1>1, <1>10 DEF Restart
<1>11. QED
  BY ZenonT(90), <1>2, <1>3, <1>4, <1>5, <1>6, <1>7, <1>8, <1>9, <1>10 DEF Next

\* What a gain says depends on nothing that a move changes.
LEMMA GainsSame ==
  ASSUME WellFormed, UNCHANGED <<policy, flows, targets>>,
         NEW f, NEW s, NEW t, NEW fresh, NEW sched, Gains(f, s, t, fresh, sched)'
  PROVE  Gains(f, s, t, fresh, sched)
<1>1. ASSUME NEW u, NEW x PROVE LoadKnown(u, x, fresh)' <=> LoadKnown(u, x, fresh)
  BY ZenonT(90) DEF LoadKnown, Observed, ObservedKnown
<1>2. ASSUME NEW u, NEW x PROVE Observed(u, fresh)' = Observed(u, fresh)
  BY DEF Observed, ObservedKnown
<1>3. ASSUME NEW u, NEW x PROVE LoadUsed(u, x, fresh)' = LoadUsed(u, x, fresh)
  <2>1. policy' = policy
    OBVIOUS
  <2>2. LoadKnown(u, x, fresh)' <=> LoadKnown(u, x, fresh)
    BY <1>1
  <2>3. Observed(u, fresh)' = Observed(u, fresh)
    BY <1>2
  <2>4. policy.load_model \in LoadModel
    BY PolicyTyped
  <2> QED
    BY ZenonT(90), <2>1, <2>2, <2>3, <2>4 DEF LoadUsed, LoadModel
<1>4. ASSUME NEW used, HasRoom(f, t, used)' PROVE HasRoom(f, t, used)
  BY ZenonT(90), <1>4 DEF HasRoom
<1>5. PICK now, then : /\ now = LoadUsed(s, sched[s], fresh)
                       /\ then = LoadUsed(t, sched[t], fresh)
  BY ZenonT(90)
<1>6. LoadUsed(s, sched[s], fresh)' = now /\ LoadUsed(t, sched[t], fresh)' = then
  BY ZenonT(90), <1>3, <1>5
<1>7. LoadKnown(s, sched[s], fresh)
  BY <1>1, ZenonT(90) DEF Gains
<1>8. HasRoom(f, t, then)'
  BY <1>6, ZenonT(90) DEF Gains
<1>9. UtilisationPpm(now, targets[s].descriptor.capacity)
      > UtilisationPpm(Plus(then, flows[f].demand), targets[t].descriptor.capacity)
  BY <1>6, ZenonT(90) DEF Gains
<1> QED
  BY <1>4, <1>5, <1>7, <1>8, <1>9, ZenonT(90) DEF Gains

\* A demand is no higher than itself, with or without another.
LEMMA SameWithin ==
  ASSUME NEW a \in [Dim -> Nat], NEW b \in [Dim -> Nat]
  PROVE  \A d \in Dim : a[d] <= a[d] /\ a[d] <= a[d] + b[d]
OBVIOUS

\* A step that makes a proposed move leaves no proposal to move back.
LEMMA StepSettles ==
  ASSUME Typed, Typed', Accurate, Next, UNCHANGED <<policy, flows, targets>>, NEW fresh,
         NEW m \in Proposals(fresh), NEW n \in Proposals(fresh)', n.flow = m.flow,
         \A f \in DOMAIN assignments : assignments'[f].target =
           IF f = m.flow THEN m.target ELSE assignments[f].target
  PROVE  n.target # assignments[m.flow].target
<1>1. SUFFICES ASSUME n.target = assignments[m.flow].target PROVE FALSE
  OBVIOUS
<1>2. WellFormed
  BY ZenonT(90), TypedWellFormed
<1>3. ProposalsGain
  BY ZenonT(90), ProposalsSound
<1>4. ProposalsGain'
  <2>1. Typed' => ProposalsGain'
    BY ProposalsSound, PTL
  <2> QED
    BY <2>1
<1>5. PICK f, s, t, old, new, as :
        /\ f = m.flow /\ s = n.target /\ t = m.target
        /\ old = scheduled /\ new = scheduled' /\ as = assignments'
  BY ZenonT(90)
<1>6. /\ f \in DOMAIN assignments /\ t \in DOMAIN targets /\ s = assignments[f].target
      /\ s \in DOMAIN targets /\ s # t /\ Gains(f, s, t, fresh, old)
  BY <1>1, <1>3, <1>5, ZenonT(90) DEF ProposalsGain
<1>7. assignments'[f].target = t
  BY ZenonT(90), <1>5, <1>6
<1>8. Gains(f, t, s, fresh, new)'
  BY <1>4, <1>5, <1>7, ZenonT(90) DEF ProposalsGain
<1>9. Gains(f, t, s, fresh, new)
  BY ZenonT(90), <1>2, <1>8, GainsSame
<1>10. DOMAIN assignments \subseteq DOMAIN flows /\ f \in DOMAIN flows
  BY ZenonT(90), <1>2, <1>6 DEF WellFormed
<1>11. old \in [DOMAIN targets -> Amount] /\ new \in [DOMAIN targets -> Amount]
  BY ZenonT(90), <1>5 DEF Typed
<1> DEFINE dem == flows[f].demand
           Moved == /\ \A d \in Dim : old[t][d] <= new[t][d] /\ new[s][d] <= old[s][d]
                    /\ Fits(Plus(old[t], dem))
                         => \A d \in Dim : new[t][d] <= old[t][d] + dem[d]
                    /\ Fits(Plus(new[s], dem))
                         => \A d \in Dim : old[s][d] <= new[s][d] + dem[d]
<1>12. ASSUME new = old PROVE Moved
  <2>1. dem \in Amount
    BY ZenonT(90), <1>2, <1>10 DEF WellFormed, FlowDescriptor
  <2>2. dem \in [Dim -> Nat] /\ old[s] \in [Dim -> Nat] /\ old[t] \in [Dim -> Nat]
    BY ZenonT(90), <1>6, <1>11, <2>1, AmountVector
  <2> HIDE DEF dem
  <2> QED
    BY ZenonT(90), <1>12, <2>2, SameWithin
<1>13. ASSUME DOMAIN as = DOMAIN assignments, new = Recomputed(flows, targets, as)
       PROVE  Moved
  <2>1. \A g \in DOMAIN assignments :
          as[g].target = IF g = f THEN t ELSE assignments[g].target
    BY ZenonT(90), <1>5
  <2>2. Moved
    BY ZenonT(90), <1>2, <1>5, <1>6, <1>13, <2>1, DemandMoves
  <2> QED
    BY ZenonT(90), <2>2
<1>14. Moved
  BY ZenonT(90), <1>5, <1>6, <1>7, <1>10, <1>12, <1>13, MovingStep
<1> QED
  BY ZenonT(90), <1>2, <1>6, <1>9, <1>10, <1>11, <1>14, NoReturn

\* Rebalancing settles, for every number of flows, targets and dimensions and every
\* load model: once a move that rebalance_locked reported is made and nothing else
\* changed, it does not report the move back.
THEOREM RebalancingSettles == Spec => NoMoveBack
<1> DEFINE Settles ==
      \A limit \in 1..Cardinality(Flow), fresh \in SUBSET WithLoad :
        Accurate /\ UNCHANGED <<policy, flows, targets>> =>
          \A m \in Rebalance(limit, fresh) :
            (\A f \in DOMAIN assignments : assignments'[f].target =
               IF f = m.flow THEN m.target ELSE assignments[f].target)
            => \A n \in Rebalance(limit, fresh)' :
                 n.flow = m.flow => n.target # assignments[m.flow].target
<1>1. ASSUME PlacementInv, PlacementInv', Next PROVE Settles
  <2>1. SUFFICES ASSUME NEW limit, NEW fresh, Accurate,
                        UNCHANGED <<policy, flows, targets>>,
                        NEW m \in Rebalance(limit, fresh),
                        \A f \in DOMAIN assignments : assignments'[f].target =
                          IF f = m.flow THEN m.target ELSE assignments[f].target,
                        NEW n \in Rebalance(limit, fresh)', n.flow = m.flow
                 PROVE  n.target # assignments[m.flow].target
    BY ZenonT(90)
  <2>2. m \in Proposals(fresh) /\ n \in Proposals(fresh)'
    BY <2>1, ZenonT(90) DEF Rebalance
  <2>3. Typed /\ Typed'
    BY ZenonT(90), <1>1 DEF PlacementInv
  <2> QED
    BY ZenonT(90), <1>1, <2>1, <2>2, <2>3, StepSettles
<1>2. PlacementInv /\ PlacementInv' /\ [Next]_vars => [Settles]_vars
  BY <1>1
<1> HIDE DEF Settles
<1>3. Spec => [][Settles]_vars
  BY <1>2, PlacementCorrect, PTL DEF Spec
<1> QED
  BY <1>3 DEF Settles, NoMoveBack

=============================================================================
