-------------------------- MODULE LifecycleProofs --------------------------
(***************************************************************************)
(* Proofs about Lifecycle, for every value of its constants: the relations *)
(* between attempts, assignments, holders and generations that every step  *)
(* keeps; what keeps a target from being used under an old topology; and   *)
(* what keeps an authorization from outliving the placement it was given   *)
(* for.                                                                    *)
(***************************************************************************)
EXTENDS Lifecycle, TLAPS

\* Each leaf is tried with SMT, then with Zenon, then with SMT and more time.
USE SMTT(30), ZenonT(90), SMTT(60), SMTT(90)

\* What the table operators return.
LEMMA EndAttemptsType ==
  ASSUME TypeOK, NEW S, NEW p \in Terminal
  PROVE  EndAttempts(S, p) \in [1..(next_attempt - 1) -> MigrationRecord]
BY DEF TypeOK, EndAttempts, MigrationRecord, Terminal, InFlightPhase

\* Forgetting an effect leaves a well-typed assignment table.
LEMMA WithEffectType ==
  ASSUME TypeOK, NEW S, NEW e \in Effect
  PROVE  /\ DOMAIN WithEffect(S, e) = DOMAIN assignments
         /\ WithEffect(S, e) \in [DOMAIN assignments -> Assignment]
BY ZenonT(90) DEF TypeOK, WithEffect, Assignment

\* Releasing pending handoffs leaves a well-typed holder table.
LEMMA ReleaseHandoffType ==
  ASSUME TypeOK, NEW S
  PROVE  /\ DOMAIN ReleaseHandoff(S) = DOMAIN holders
         /\ ReleaseHandoff(S) \in [DOMAIN holders -> StateHolder]
BY ZenonT(90) DEF TypeOK, ReleaseHandoff, StateHolder

\* Recording a declaration, and withdrawing what an advanced topology
\* supersedes, leaves a well-typed target table (declare_target).
LEMMA RecordType ==
  ASSUME TypeOK, NEW t \in Target, NEW d \in Declaration, Record(t, d)
  PROVE  /\ topology_generation' \in Nat
         /\ DOMAIN targets' = DOMAIN targets \cup {t}
         /\ targets' \in [DOMAIN targets' -> TargetState]
<1>1. Declared(d) \in TargetState
  BY DEF Declared, Declaration, TargetState
<1>2. Insert(targets, t, Declared(d)) \in [DOMAIN targets \cup {t} -> TargetState]
  BY <1>1 DEF TypeOK, Insert
<1>3. Withdraw(Insert(targets, t, Declared(d)), d.topology_generation, {t})
        \in [DOMAIN targets \cup {t} -> TargetState]
  BY ZenonT(90), <1>2 DEF Withdraw, TargetState
<1> QED
  BY <1>2, <1>3 DEF Record, Declaration

\* Each field that a message changes in an attempt keeps it a record.
LEMMA MigrationUpdate ==
  ASSUME NEW m \in MigrationRecord
  PROVE  /\ \A p \in InFlightPhase \cup Terminal :
              [m EXCEPT !.phase = p] \in MigrationRecord
         /\ \A b \in BOOLEAN :
              /\ [m EXCEPT !.source_acknowledged = b] \in MigrationRecord
              /\ [m EXCEPT !.destination_acknowledged = b] \in MigrationRecord
              /\ [m EXCEPT !.effect_applied = b] \in MigrationRecord
BY DEF MigrationRecord

\* Eviction only drops entries (evict_history).
LEMMA NewestSubset == \A S : Newest(S) \subseteq S
BY DEF Newest

-----------------------------------------------------------------------------
(* The safety invariants.  Each lemma shows that one conjunct of            *)
(* LifecycleInv is kept by every step, from the conjuncts it depends on.    *)

\* What a step does to the three kinds of table, action by action.
LEMMA AssignedIsRegisteredStep ==
  ASSUME TypeOK, LifecycleInv, [Next]_vars
  PROVE  AssignedIsRegistered'
<1> USE LifecycleAssumption
<1> USE DEF decisions, authority, attempts, AssignedIsRegistered
<1>0. AssignedIsRegistered
  BY ZenonT(90) DEF LifecycleInv
<1>1. CASE UNCHANGED vars
  BY ZenonT(90), <1>0, <1>1 DEF vars
<1>2. ASSUME NEW f \in Flow, NEW d \in FlowDescriptors, RegisterNewFlow(f, d)
      PROVE  AssignedIsRegistered'
  BY ZenonT(90), <1>0, <1>2 DEF RegisterNewFlow, Insert
<1>3. ASSUME NEW f \in Flow, NEW d \in FlowDescriptors, RegisterNewGeneration(f, d)
      PROVE  AssignedIsRegistered'
  BY ZenonT(90), <1>0, <1>3 DEF RegisterNewGeneration, Insert, Erase
<1>4. ASSUME NEW f \in Flow, RemoveFlow(f)
      PROVE  AssignedIsRegistered'
  BY <1>0, <1>4 DEF RemoveFlow, Erase
<1>5. ASSUME UNCHANGED <<assignments, flows>>
      PROVE  AssignedIsRegistered'
  BY <1>0, <1>5
<1>6. ASSUME UNCHANGED flows, NEW S, NEW e, assignments' = WithEffect(S, e)
      PROVE  AssignedIsRegistered'
  BY ZenonT(90), <1>0, <1>6 DEF WithEffect, TypeOK, Assignment
<1>7. ASSUME NEW fs \in SUBSET Flow, NEW plan \in [fs -> Target], Place(plan)
      PROVE  AssignedIsRegistered'
  BY ZenonT(90), <1>0, <1>7 DEF Place, AssignmentFor, Changed
<1>8. ASSUME NEW f \in Flow, NEW a \in DOMAIN migrations, Observe(f, a)
      PROVE  AssignedIsRegistered'
  BY ZenonT(90), <1>0, <1>8 DEF Observe, VerifiedAssignment, TypeOK, Assignment
<1> QED
  BY ZenonT(90), <1>1, <1>2, <1>3, <1>4, <1>5, <1>6, <1>7, <1>8
     DEF Next, DeclareNewTarget, RedeclareTarget, AdvanceCapability,
         NewIncarnation, RemoveTarget, SetPolicy, SetTopologyGeneration,
         Authorize, RevokeAuthorization, IssueIntent, Acknowledge, Decline,
         ReportApplied, AbortMigration, Restart, ReopenInMemory

\* No handler records an effect without both acknowledgements: only
\* report_applied does, from the phase that acknowledge reached with both.
LEMMA EffectsAreAcknowledgedStep ==
  ASSUME TypeOK, LifecycleInv, [Next]_vars
  PROVE  EffectsAreAcknowledged'
<1> USE DEF decisions, authority, attempts, EffectsAreAcknowledged
<1>0. /\ EffectsAreAcknowledged
      /\ migrations \in [1..(next_attempt - 1) -> MigrationRecord]
      /\ next_attempt \in Generation
  BY DEF LifecycleInv, TypeOK
<1>1. CASE UNCHANGED migrations
  BY <1>0, <1>1
<1>2. ASSUME NEW S, NEW p \in Terminal, migrations' = EndAttempts(S, p)
      PROVE  EffectsAreAcknowledged'
  BY <1>0, <1>2 DEF EndAttempts, MigrationRecord, Terminal
<1>3. ASSUME NEW z \in authorizations, NEW t \in Target, IssueIntent(z, t)
      PROVE  EffectsAreAcknowledged'
  BY ZenonT(90), <1>0, <1>3 DEF IssueIntent, Insert, Intent, Generation
<1>4. ASSUME NEW a \in DOMAIN migrations, NEW actor \in {"Source", "Destination"},
             Acknowledge(a, actor) \/ Decline(a, actor)
      PROVE  EffectsAreAcknowledged'
  <2> DEFINE m == migrations[a]
             n == migrations'[a]
  <2>1. PICK p : /\ n = Acknowledged(m, actor, p)
                 /\ p = "Aborted" \/ (actor = "Source" /\ p = "SourceAcknowledged")
                      \/ (actor = "Destination" /\ p = "DestinationAcknowledged")
    BY ZenonT(90), <1>0, <1>4 DEF Acknowledge, Decline
  <2>2. /\ n.phase = p /\ n.effect_applied = m.effect_applied
        /\ n.source_acknowledged = (m.source_acknowledged \/ actor = "Source")
        /\ n.destination_acknowledged =
             (m.destination_acknowledged \/ actor = "Destination")
    BY <1>0, <2>1 DEF Acknowledged, MigrationRecord
  <2>3. /\ DOMAIN migrations' = DOMAIN migrations
        /\ \A b \in DOMAIN migrations \ {a} : migrations'[b] = migrations[b]
    BY ZenonT(90), <1>0, <1>4 DEF Acknowledge, Decline
  <2>4. actor = "Destination" => m.phase = "SourceAcknowledged"
    BY <1>4 DEF Acknowledge, Decline, AcknowledgementDue
  <2>5. /\ n.phase = "SourceAcknowledged" => n.source_acknowledged
        /\ n.phase = "DestinationAcknowledged" \/ n.effect_applied =>
             n.source_acknowledged /\ n.destination_acknowledged
    BY ZenonT(90), <1>0, <2>1, <2>2, <2>4
  <2> HIDE DEF m, n
  <2> QED
    BY <1>0, <2>3, <2>5 DEF n
<1>5. ASSUME NEW a \in DOMAIN migrations, ReportApplied(a)
      PROVE  EffectsAreAcknowledged'
  BY <1>0, <1>5 DEF ReportApplied, MigrationRecord
<1> QED
  <2>1. {"Completed", "Aborted", "Fenced"} \subseteq Terminal
    BY ZenonT(90) DEF Terminal
  <2> QED
    BY ZenonT(90), <1>1, <1>2, <1>3, <1>4, <1>5, <2>1
     DEF Next, vars, RegisterNewFlow, RegisterNewGeneration, RemoveFlow,
         DeclareNewTarget, RedeclareTarget, AdvanceCapability,
         NewIncarnation, RemoveTarget, SetPolicy, SetTopologyGeneration,
         Place, Authorize, RevokeAuthorization, AbortMigration, Observe, Restart,
         ReopenInMemory

\* Declaring a target leaves every other incarnation as it is.
LEMMA RecordIncarnations ==
  ASSUME TypeOK, NEW t \in Target, NEW d \in Declaration, Record(t, d)
  PROVE  /\ targets'[t].incarnation = d.incarnation
         /\ DOMAIN targets' = DOMAIN targets \cup {t}
         /\ \A u \in DOMAIN targets \ {t} :
              targets'[u].incarnation = targets[u].incarnation
<1>0. /\ targets \in [DOMAIN targets -> TargetState]
      /\ Declared(d) \in TargetState
  BY ZenonT(90) DEF TypeOK, Declared, Declaration, TargetState
<1> DEFINE ts == Insert(targets, t, Declared(d))
<1>1. /\ ts \in [DOMAIN targets \cup {t} -> TargetState]
      /\ ts[t].incarnation = d.incarnation
      /\ \A u \in DOMAIN targets \ {t} : ts[u].incarnation = targets[u].incarnation
  BY <1>0 DEF Insert, Declared
<1> HIDE DEF ts
<1>2. LET w == Withdraw(ts, d.topology_generation, {t})
      IN  /\ DOMAIN w = DOMAIN ts
          /\ \A u \in DOMAIN ts : w[u].incarnation = ts[u].incarnation
  BY ZenonT(90), <1>1 DEF Withdraw, TargetState
<1> QED
  BY ZenonT(90), <1>1, <1>2 DEF Record, ts

\* Every handler that supersedes what an attempt rests on ends the attempt:
\* register_flow, remove_flow, declare_target, remove_target, and the restart.
LEMMA InFlightIsCurrentStep ==
  ASSUME TypeOK, LifecycleInv, [Next]_vars
  PROVE  InFlightIsCurrent'
<1> USE LifecycleAssumption
<1> USE DEF decisions, authority, attempts, InFlightIsCurrent, InFlight
<1>0. /\ InFlightIsCurrent
      /\ migrations \in [1..(next_attempt - 1) -> MigrationRecord]
      /\ next_attempt \in Generation
  BY ZenonT(90) DEF LifecycleInv, TypeOK
<1>1. CASE UNCHANGED vars
  BY ZenonT(90), <1>0, <1>1 DEF vars
<1>2. ASSUME NEW f \in Flow, NEW d \in FlowDescriptors, RegisterNewFlow(f, d)
      PROVE  InFlightIsCurrent'
  BY ZenonT(90), <1>0, <1>2 DEF RegisterNewFlow, Insert
<1>3. ASSUME NEW f \in Flow, NEW d \in FlowDescriptors, RegisterNewGeneration(f, d)
      PROVE  InFlightIsCurrent'
  BY <1>0, <1>3 DEF RegisterNewGeneration, Insert, Erase, EndAttempts, InFlightOf,
       Terminal, MigrationRecord
<1>4. ASSUME NEW f \in Flow, RemoveFlow(f)
      PROVE  InFlightIsCurrent'
  BY <1>0, <1>4 DEF RemoveFlow, Erase, EndAttempts, InFlightOf, Terminal,
       MigrationRecord
<1>5. ASSUME NEW t \in Target, NEW d \in Declarations,
             \/ DeclareNewTarget(t, d) \/ RedeclareTarget(t, d)
             \/ AdvanceCapability(t, d)
      PROVE  InFlightIsCurrent'
  <2>1. Record(t, d) /\ DOMAIN assignments' = DOMAIN assignments
    BY ZenonT(90), <1>5 DEF DeclareNewTarget, RedeclareTarget, AdvanceCapability, WithEffect
  <2>2. t \in DOMAIN targets => d.incarnation = targets[t].incarnation
    BY <1>5 DEF DeclareNewTarget, RedeclareTarget, AdvanceCapability
  <2>3. \A u \in DOMAIN targets : /\ u \in DOMAIN targets'
                                  /\ targets'[u].incarnation = targets[u].incarnation
    BY ZenonT(90), <2>1, <2>2, RecordIncarnations
  <2>4. UNCHANGED <<epoch, flows, migrations>>
    BY ZenonT(90), <1>5 DEF DeclareNewTarget, RedeclareTarget, AdvanceCapability
  <2> QED
    BY <1>0, <2>1, <2>3, <2>4
<1>6. ASSUME NEW t \in Target, NEW d \in Declarations, NewIncarnation(t, d)
      PROVE  InFlightIsCurrent'
  <2>1. Record(t, d) /\ DOMAIN assignments' = DOMAIN assignments
    BY ZenonT(90), <1>6 DEF NewIncarnation, WithEffect
  <2>2. \A u \in DOMAIN targets \ {t} :
          /\ u \in DOMAIN targets'
          /\ targets'[u].incarnation = targets[u].incarnation
    BY ZenonT(90), <2>1, RecordIncarnations
  <2>3. UNCHANGED <<epoch, flows>> /\ migrations' = EndAttempts(Touching(t), "Aborted")
    BY ZenonT(90), <1>6 DEF NewIncarnation
  <2> QED
    BY <1>0, <2>1, <2>2, <2>3 DEF EndAttempts, Touching, Terminal, MigrationRecord
<1>7. ASSUME NEW t \in Target, RemoveTarget(t)
      PROVE  InFlightIsCurrent'
  <2>1. /\ DOMAIN targets' = DOMAIN targets
        /\ \A u \in DOMAIN targets : targets'[u].incarnation = targets[u].incarnation
    BY ZenonT(90), <1>7 DEF RemoveTarget, TypeOK, TargetState
  <2> QED
    BY <1>0, <1>7, <2>1 DEF RemoveTarget, WithEffect, EndAttempts, Terminal,
         MigrationRecord
<1>8. ASSUME NEW g \in 1..MaxTopology, SetTopologyGeneration(g)
      PROVE  InFlightIsCurrent'
  <2>1. /\ DOMAIN targets' = DOMAIN targets
        /\ \A u \in DOMAIN targets : targets'[u].incarnation = targets[u].incarnation
    BY ZenonT(90), <1>8 DEF SetTopologyGeneration, Withdraw, TypeOK, TargetState
  <2> QED
    BY <1>0, <1>8, <2>1 DEF SetTopologyGeneration
<1>9. CASE \/ \E p \in Policies : SetPolicy(p)
           \/ \E r \in recommendations : Authorize(r)
           \/ \E z \in authorizations : RevokeAuthorization(z)
  <2>1. UNCHANGED <<epoch, flows, targets, assignments, migrations>>
    BY ZenonT(90), <1>9 DEF SetPolicy, Authorize, RevokeAuthorization
  <2> QED
    BY <1>0, <2>1
<1>10. ASSUME NEW fs \in SUBSET Flow, NEW plan \in [fs -> Target], Place(plan)
       PROVE  InFlightIsCurrent'
  BY <1>0, <1>10 DEF Place
<1>11. ASSUME NEW z \in authorizations, NEW t \in Target, IssueIntent(z, t)
       PROVE  InFlightIsCurrent'
  <2>1. /\ z.flow \in DOMAIN flows /\ z.flow \in DOMAIN assignments
        /\ t \in DOMAIN targets
    BY ZenonT(90), <1>11 DEF IssueIntent, AuthorizationCurrent, Usable
  <2> QED
    BY ZenonT(90), <1>0, <1>11, <2>1 DEF IssueIntent, Insert, Intent, WithEffect, Generation
<1>12. ASSUME NEW a \in DOMAIN migrations, NEW actor \in {"Source", "Destination"},
              Acknowledge(a, actor) \/ Decline(a, actor)
       PROVE  InFlightIsCurrent'
  <2>1. a \in InFlight
    BY <1>12 DEF Acknowledge, Decline, AcknowledgementDue, Terminal
  <2>2. \A p : LET m == migrations[a]
                   n == Acknowledged(m, actor, p)
               IN  /\ n.epoch = m.epoch /\ n.flow = m.flow
                   /\ n.flow_generation = m.flow_generation
                   /\ n.destination_target = m.destination_target
                   /\ n.destination_incarnation = m.destination_incarnation
    BY <1>0 DEF Acknowledged, MigrationRecord
  <2>3. /\ UNCHANGED <<epoch, flows, targets>>
        /\ DOMAIN assignments' = DOMAIN assignments
        /\ \E p : migrations' = [migrations EXCEPT
                      ![a] = Acknowledged(migrations[a], actor, p)]
    BY ZenonT(90), <1>12 DEF Acknowledge, Decline, WithEffect
  <2> QED
    BY <1>0, <2>1, <2>2, <2>3
<1>13. ASSUME NEW a \in DOMAIN migrations, ReportApplied(a)
       PROVE  InFlightIsCurrent'
  BY <1>0, <1>13 DEF ReportApplied, WithEffect, Terminal, MigrationRecord
<1>14. ASSUME NEW a \in DOMAIN migrations, AbortMigration(a)
       PROVE  InFlightIsCurrent'
  BY <1>0, <1>14 DEF AbortMigration, WithEffect, EndAttempts, Terminal, MigrationRecord
<1>15. ASSUME NEW f \in Flow, NEW a \in DOMAIN migrations, Observe(f, a)
       PROVE  InFlightIsCurrent'
  BY <1>0, <1>15 DEF Observe, EndAttempts, Terminal, MigrationRecord
<1>16. ASSUME Restart
       PROVE  InFlightIsCurrent'
  <2>1. migrations' = EndAttempts(InFlight, "Fenced")
    BY ZenonT(90), <1>16 DEF Restart
  <2> QED
    BY <1>0, <2>1 DEF EndAttempts, Terminal, MigrationRecord
<1>17. ASSUME ReopenInMemory
       PROVE  InFlightIsCurrent'
  <2>1. epoch' = epoch
    BY <1>17 DEF ReopenInMemory, LifecycleInv
  <2> QED
    BY ZenonT(90), <1>0, <1>17, <2>1 DEF ReopenInMemory
<1> HIDE DEF InFlightIsCurrent, InFlight, decisions, authority, attempts
<1> QED
  BY ZenonT(90), <1>1, <1>2, <1>3, <1>4, <1>5, <1>6, <1>7, <1>8, <1>9, <1>10, <1>11, <1>12,
     <1>13, <1>14, <1>15, <1>16, <1>17 DEF Next

\* No step touches a finished attempt or forgets one.
LEMMA TerminalStep ==
  ASSUME TypeOK, [Next]_vars, NEW a \in DOMAIN migrations
  PROVE  /\ a \in DOMAIN migrations'
         /\ migrations[a].phase \in Terminal => migrations'[a] = migrations[a]
<1> USE DEF decisions, authority, attempts
<1> DEFINE Goal == /\ a \in DOMAIN migrations'
                   /\ migrations[a].phase \in Terminal => migrations'[a] = migrations[a]
<1>0. /\ migrations \in [1..(next_attempt - 1) -> MigrationRecord]
      /\ next_attempt \in Generation
  BY DEF TypeOK
<1>1. ASSUME UNCHANGED migrations
      PROVE  Goal
  BY <1>1
<1>2. ASSUME NEW S \in SUBSET InFlight, NEW p, migrations' = EndAttempts(S, p)
      PROVE  Goal
  BY ZenonT(90), <1>0, <1>2 DEF EndAttempts, InFlight
<1> HIDE DEF Goal
<1>3. ASSUME NEW f \in Flow, NEW d \in FlowDescriptors,
             RegisterNewFlow(f, d) \/ RegisterNewGeneration(f, d)
      PROVE  Goal
  BY ZenonT(90), <1>1, <1>2, <1>3 DEF RegisterNewFlow, RegisterNewGeneration, InFlightOf
<1>4. ASSUME NEW f \in Flow, RemoveFlow(f)
      PROVE  Goal
  BY <1>2, <1>4 DEF RemoveFlow, InFlightOf
<1>5. ASSUME NEW t \in Target, NEW d \in Declarations,
             \/ DeclareNewTarget(t, d) \/ RedeclareTarget(t, d)
             \/ AdvanceCapability(t, d) \/ NewIncarnation(t, d)
      PROVE  Goal
  BY ZenonT(90), <1>1, <1>2, <1>5 DEF DeclareNewTarget, RedeclareTarget, AdvanceCapability,
       NewIncarnation, Touching
<1>6. ASSUME NEW t \in Target, RemoveTarget(t)
      PROVE  Goal
  BY <1>2, <1>6 DEF RemoveTarget, Touching
<1>7. ASSUME \/ UNCHANGED vars
             \/ \E p \in Policies : SetPolicy(p)
             \/ \E g \in 1..MaxTopology : SetTopologyGeneration(g)
             \/ \E r \in recommendations : Authorize(r)
             \/ \E z \in authorizations : RevokeAuthorization(z)
             \/ ReopenInMemory
      PROVE  Goal
  BY ZenonT(90), <1>1, <1>7 DEF vars, SetPolicy, SetTopologyGeneration, Authorize,
       RevokeAuthorization, ReopenInMemory
<1>8. ASSUME NEW fs \in SUBSET Flow, NEW plan \in [fs -> Target], Place(plan)
      PROVE  Goal
  BY ZenonT(90), <1>1, <1>8 DEF Place
<1>9. ASSUME NEW z \in authorizations, NEW t \in Target, IssueIntent(z, t)
      PROVE  Goal
  BY <1>0, <1>9 DEF Goal, IssueIntent, Insert, Generation
<1>10. ASSUME NEW b \in DOMAIN migrations, NEW actor \in {"Source", "Destination"},
              Acknowledge(b, actor) \/ Decline(b, actor)
       PROVE  Goal
  BY ZenonT(90), <1>0, <1>10 DEF Goal, Acknowledge, Decline, AcknowledgementDue, Terminal
<1>11. ASSUME NEW b \in DOMAIN migrations, ReportApplied(b) \/ AbortMigration(b)
       PROVE  Goal
  <2>1. CASE ReportApplied(b)
    BY <1>0, <2>1 DEF Goal, ReportApplied, Terminal
  <2>2. CASE AbortMigration(b)
    BY ZenonT(90), <1>2, <2>2 DEF AbortMigration
  <2> QED
    BY <1>11, <2>1, <2>2
<1>12. ASSUME NEW f \in Flow, NEW b \in DOMAIN migrations, Observe(f, b)
       PROVE  Goal
  BY <1>2, <1>12 DEF Observe, InFlightOf
<1>13. ASSUME Restart
       PROVE  Goal
  BY ZenonT(90), <1>2, <1>13 DEF Restart
<1> HIDE DEF decisions, authority, attempts
<1>14. Goal
  BY <1>3, <1>4, <1>5, <1>6, <1>7, <1>8, <1>9, <1>10, <1>11, <1>12, <1>13 DEF Next
<1> QED
  BY <1>14 DEF Goal

\* A verified assignment was verified before, or is by this very observation.
LEMMA VerifiedOnlyByObserve ==
  ASSUME TypeOK, [Next]_vars, NEW f \in DOMAIN assignments',
         assignments'[f].effect = "Verified",
         \A a \in DOMAIN migrations : ~Observe(f, a)
  PROVE  f \in DOMAIN assignments /\ assignments'[f] = assignments[f]
<1> USE DEF decisions, authority, attempts
<1> DEFINE Goal == f \in DOMAIN assignments /\ assignments'[f] = assignments[f]
<1>0. assignments \in [DOMAIN assignments -> Assignment]
  BY ZenonT(90) DEF TypeOK
<1>1. ASSUME UNCHANGED assignments
      PROVE  Goal
  BY <1>1
<1>2. ASSUME NEW S, NEW e \in Effect \ {"Verified"}, assignments' = WithEffect(S, e)
      PROVE  Goal
  BY <1>0, <1>2 DEF WithEffect, Assignment
<1>3. ASSUME NEW g, assignments' = Erase(assignments, {g})
      PROVE  Goal
  BY <1>3 DEF Erase
<1>4. {"Unknown", "IntentIssued", "Acknowledged", "Applied"} \subseteq Effect \ {"Verified"}
  BY ZenonT(90) DEF Effect
<1> HIDE DEF Goal
<1>5. ASSUME NEW g \in Flow, NEW d \in FlowDescriptors,
             RegisterNewFlow(g, d) \/ RegisterNewGeneration(g, d)
      PROVE  Goal
  BY ZenonT(90), <1>1, <1>3, <1>5 DEF RegisterNewFlow, RegisterNewGeneration
<1>6. ASSUME NEW g \in Flow, RemoveFlow(g)
      PROVE  Goal
  BY <1>3, <1>6 DEF RemoveFlow
<1>7. ASSUME NEW t \in Target, NEW d \in Declarations,
             \/ DeclareNewTarget(t, d) \/ RedeclareTarget(t, d)
             \/ AdvanceCapability(t, d) \/ NewIncarnation(t, d)
      PROVE  Goal
  BY ZenonT(90), <1>1, <1>2, <1>4, <1>7 DEF DeclareNewTarget, RedeclareTarget,
       AdvanceCapability, NewIncarnation
<1>8. ASSUME NEW t \in Target, RemoveTarget(t)
      PROVE  Goal
  BY <1>2, <1>4, <1>8 DEF RemoveTarget
<1>9. ASSUME \/ UNCHANGED vars
             \/ \E p \in Policies : SetPolicy(p)
             \/ \E g \in 1..MaxTopology : SetTopologyGeneration(g)
             \/ \E r \in recommendations : Authorize(r)
             \/ \E z \in authorizations : RevokeAuthorization(z)
             \/ ReopenInMemory
      PROVE  Goal
  BY ZenonT(90), <1>1, <1>9 DEF vars, SetPolicy, SetTopologyGeneration, Authorize,
       RevokeAuthorization, ReopenInMemory
<1>10. ASSUME NEW fs \in SUBSET Flow, NEW plan \in [fs -> Target], Place(plan)
       PROVE  Goal
  <2> DEFINE changed == Changed(plan)
  <2>1. assignments' = [g \in DOMAIN assignments \cup changed |->
                          IF g \in changed THEN AssignmentFor(g, plan)
                                           ELSE assignments[g]]
    BY ZenonT(90), <1>10 DEF Place
  <2> HIDE DEF changed
  <2>2. AssignmentFor(f, plan).effect # "Verified"
    BY DEF AssignmentFor
  <2>3. f \notin changed
    BY ZenonT(90), <2>1, <2>2
  <2> QED
    BY ZenonT(90), <2>1, <2>3 DEF Goal
<1>11. ASSUME NEW z \in authorizations, NEW t \in Target, IssueIntent(z, t)
       PROVE  Goal
  BY ZenonT(90), <1>2, <1>4, <1>11 DEF IssueIntent
<1>12. ASSUME NEW b \in DOMAIN migrations, NEW actor \in {"Source", "Destination"},
              Acknowledge(b, actor) \/ Decline(b, actor)
       PROVE  Goal
  BY <1>1, <1>2, <1>4, <1>12 DEF Acknowledge, Decline
<1>13. ASSUME NEW b \in DOMAIN migrations, ReportApplied(b) \/ AbortMigration(b)
       PROVE  Goal
  BY <1>2, <1>4, <1>13 DEF ReportApplied, AbortMigration
<1>14. ASSUME NEW g \in Flow, NEW b \in DOMAIN migrations, Observe(g, b)
       PROVE  Goal
  BY ZenonT(90), <1>14 DEF Goal, Observe
<1>15. ASSUME Restart
       PROVE  Goal
  BY ZenonT(90), <1>2, <1>4, <1>15 DEF Restart
<1> HIDE DEF decisions, authority, attempts
<1>16. Goal
  BY ZenonT(90), <1>5, <1>6, <1>7, <1>8, <1>9, <1>10, <1>11, <1>12, <1>13, <1>14, <1>15 DEF Next
<1> QED
  BY <1>16 DEF Goal

\* Only observe says Verified, of the attempt it completes, and finished
\* attempts stay as they are; every move of a flow starts from another effect.
LEMMA VerifiedIsBackedStep ==
  ASSUME TypeOK, LifecycleInv, [Next]_vars
  PROVE  VerifiedIsBacked'
<1>0. /\ migrations \in [1..(next_attempt - 1) -> MigrationRecord]
      /\ assignments \in [DOMAIN assignments -> Assignment]
      /\ AssignedIsRegistered /\ EffectsAreAcknowledged /\ InFlightIsCurrent
      /\ VerifiedIsBacked
  BY ZenonT(90) DEF TypeOK, LifecycleInv
<1> SUFFICES ASSUME NEW f \in DOMAIN assignments', assignments'[f].effect = "Verified"
             PROVE  \E a \in DOMAIN migrations' : Backs(migrations'[a], f, assignments'[f])
  BY DEF VerifiedIsBacked, Backs
<1>1. CASE \E a \in DOMAIN migrations : Observe(f, a)
  <2>0. PICK a \in DOMAIN migrations : Observe(f, a)
    BY <1>1
  <2>1. /\ a \in InFlight /\ migrations[a].flow = f /\ migrations[a].effect_applied
        /\ migrations' = EndAttempts({a}, "Completed")
        /\ f \in DOMAIN assignments
        /\ assignments'[f] = VerifiedAssignment(assignments[f], migrations[a])
    BY ZenonT(90), <2>0 DEF Observe, InFlightOf
  <2>2. /\ migrations[a].source_acknowledged /\ migrations[a].destination_acknowledged
        /\ migrations[a].flow_generation = assignments[f].flow_generation
    BY ZenonT(90), <1>0, <2>1 DEF EffectsAreAcknowledged, InFlightIsCurrent, AssignedIsRegistered
  <2>3. /\ a \in DOMAIN migrations'
        /\ migrations'[a] = [migrations[a] EXCEPT !.phase = "Completed"]
    BY <2>1 DEF EndAttempts
  <2>4. migrations[a] \in MigrationRecord /\ assignments[f] \in Assignment
    BY <1>0, <2>1
  <2>5. /\ assignments'[f].flow_generation = assignments[f].flow_generation
        /\ assignments'[f].target = migrations[a].destination_target
        /\ assignments'[f].incarnation = migrations[a].destination_incarnation
        /\ assignments'[f].capability_generation
             = migrations[a].destination_capability_generation
    BY <2>1, <2>4 DEF VerifiedAssignment, Assignment
  <2>6. /\ migrations'[a].phase = "Completed"
        /\ migrations'[a].flow = f
        /\ migrations'[a].source_acknowledged
        /\ migrations'[a].destination_acknowledged
        /\ migrations'[a].effect_applied
        /\ migrations'[a].flow_generation = migrations[a].flow_generation
        /\ migrations'[a].destination_target = migrations[a].destination_target
        /\ migrations'[a].destination_incarnation = migrations[a].destination_incarnation
        /\ migrations'[a].destination_capability_generation
             = migrations[a].destination_capability_generation
    BY ZenonT(90), <2>1, <2>2, <2>3, <2>4 DEF MigrationRecord
  <2> QED
    BY ZenonT(90), <2>2, <2>3, <2>5, <2>6 DEF Backs
<1>2. CASE \A a \in DOMAIN migrations : ~Observe(f, a)
  <2>1. f \in DOMAIN assignments /\ assignments'[f] = assignments[f]
    BY <1>2, VerifiedOnlyByObserve
  <2>2. PICK a \in DOMAIN migrations : Backs(migrations[a], f, assignments[f])
    BY ZenonT(90), <1>0, <2>1 DEF VerifiedIsBacked
  <2>3. a \in DOMAIN migrations' /\ migrations'[a] = migrations[a]
    BY <2>2, TerminalStep DEF Backs, Terminal
  <2> QED
    BY <2>1, <2>2, <2>3
<1> QED
  BY ZenonT(90), <1>1, <1>2

\* A target keeps its incarnation until it is declared with a newer one.
LEMMA IncarnationStep ==
  ASSUME TypeOK, [Next]_vars, NEW u \in DOMAIN targets,
         \A d \in Declarations : ~NewIncarnation(u, d)
  PROVE  u \in DOMAIN targets' /\ targets'[u].incarnation = targets[u].incarnation
<1> USE LifecycleAssumption
<1> DEFINE Goal == /\ u \in DOMAIN targets'
                   /\ targets'[u].incarnation = targets[u].incarnation
<1>0. targets \in [DOMAIN targets -> TargetState] /\ u \in Target
  BY DEF TypeOK
<1>1. ASSUME UNCHANGED targets
      PROVE  Goal
  BY ZenonT(90), <1>1
<1>2. ASSUME NEW t \in Target, NEW d \in Declarations,
             \/ DeclareNewTarget(t, d) \/ RedeclareTarget(t, d)
             \/ AdvanceCapability(t, d) \/ NewIncarnation(t, d)
      PROVE  Goal
  <2>1. Record(t, d) /\ d \in Declaration
    BY ZenonT(90), <1>2 DEF DeclareNewTarget, RedeclareTarget, AdvanceCapability, NewIncarnation
  <2>2. t = u => d.incarnation = targets[u].incarnation
    BY <1>2 DEF DeclareNewTarget, RedeclareTarget, AdvanceCapability
  <2> QED
    BY ZenonT(90), <2>1, <2>2, RecordIncarnations
<1>3. ASSUME NEW t \in Target, RemoveTarget(t)
      PROVE  Goal
  BY <1>0, <1>3 DEF RemoveTarget, TargetState
<1>4. ASSUME NEW g \in 1..MaxTopology, SetTopologyGeneration(g)
      PROVE  Goal
  BY <1>0, <1>4 DEF SetTopologyGeneration, Withdraw, TargetState
<1>5. ASSUME Restart
      PROVE  Goal
  BY ZenonT(90), <1>0, <1>5 DEF Restart, TargetState
<1> HIDE DEF Goal
<1>6. Goal
  BY ZenonT(90), <1>1, <1>2, <1>3, <1>4, <1>5
   DEF Next, vars, RegisterNewFlow, RegisterNewGeneration, RemoveFlow, SetPolicy,
       Place, Authorize, RevokeAuthorization, IssueIntent, Acknowledge, Decline,
       ReportApplied, AbortMigration, Observe, ReopenInMemory
<1> QED
  BY ZenonT(90), <1>6 DEF Goal

\* A new incarnation demotes the assignments on its target, and observe
\* verifies only what an attempt to the running incarnation brought about.
LEMMA VerifiedOnCurrentIncarnationStep ==
  ASSUME TypeOK, LifecycleInv, [Next]_vars
  PROVE  VerifiedOnCurrentIncarnation'
<1>0. /\ assignments \in [DOMAIN assignments -> Assignment]
      /\ InFlightIsCurrent /\ VerifiedOnCurrentIncarnation
  BY DEF TypeOK, LifecycleInv
<1> SUFFICES ASSUME NEW f \in DOMAIN assignments', assignments'[f].effect = "Verified"
             PROVE  /\ assignments'[f].target \in DOMAIN targets'
                    /\ targets'[assignments'[f].target].incarnation
                         = assignments'[f].incarnation
  BY ZenonT(90) DEF VerifiedOnCurrentIncarnation
<1>1. CASE \E a \in DOMAIN migrations : Observe(f, a)
  <2>0. PICK a \in DOMAIN migrations : Observe(f, a)
    BY <1>1
  <2>1. /\ a \in InFlight /\ UNCHANGED targets
        /\ f \in DOMAIN assignments
        /\ assignments'[f] = VerifiedAssignment(assignments[f], migrations[a])
    BY <2>0 DEF Observe, InFlightOf
  <2>2. /\ assignments'[f].target = migrations[a].destination_target
        /\ assignments'[f].incarnation = migrations[a].destination_incarnation
    BY <1>0, <2>1 DEF VerifiedAssignment, Assignment
  <2> QED
    BY ZenonT(90), <1>0, <2>1, <2>2 DEF InFlightIsCurrent
<1>2. CASE \A a \in DOMAIN migrations : ~Observe(f, a)
  <2>1. f \in DOMAIN assignments /\ assignments'[f] = assignments[f]
    BY <1>2, VerifiedOnlyByObserve
  <2>2. /\ assignments[f].target \in DOMAIN targets
        /\ targets[assignments[f].target].incarnation = assignments[f].incarnation
    BY <1>0, <2>1 DEF VerifiedOnCurrentIncarnation
  <2>3. \A d \in Declarations : ~NewIncarnation(assignments[f].target, d)
    BY ZenonT(90), <1>0, <2>1 DEF NewIncarnation, WithEffect, AssignedTo, Assignment
  <2> QED
    BY <2>1, <2>2, <2>3, IncarnationStep
<1> QED
  BY <1>1, <1>2


\* Changing what is known of effects moves no assignment; releasing a handoff,
\* or following a target's incarnation, moves no holder.
LEMMA WithEffectMovesNone ==
  ASSUME assignments \in [DOMAIN assignments -> Assignment], NEW S, NEW e
  PROVE  /\ DOMAIN WithEffect(S, e) = DOMAIN assignments
         /\ \A f \in DOMAIN assignments :
              /\ WithEffect(S, e)[f].target = assignments[f].target
              /\ WithEffect(S, e)[f].flow_generation = assignments[f].flow_generation
BY DEF WithEffect, Assignment

\* Releasing pending handoffs moves no holder.
LEMMA ReleaseHandoffMovesNone ==
  ASSUME holders \in [DOMAIN holders -> StateHolder], NEW S
  PROVE  /\ DOMAIN ReleaseHandoff(S) = DOMAIN holders
         /\ \A k \in DOMAIN holders :
              /\ ReleaseHandoff(S)[k].target = holders[k].target
              /\ ReleaseHandoff(S)[k].flow = holders[k].flow
              /\ ReleaseHandoff(S)[k].flow_generation = holders[k].flow_generation
<1>1. ASSUME NEW k \in DOMAIN holders
      PROVE  /\ ReleaseHandoff(S)[k].target = holders[k].target
             /\ ReleaseHandoff(S)[k].flow = holders[k].flow
             /\ ReleaseHandoff(S)[k].flow_generation = holders[k].flow_generation
  <2>1. holders[k] \in StateHolder
    OBVIOUS
  <2> QED
    BY <2>1 DEF ReleaseHandoff, StateHolder
<1> QED
  BY <1>1 DEF ReleaseHandoff

\* A new incarnation of a target moves no holder.
LEMMA NewIncarnationMovesNone ==
  ASSUME holders \in [DOMAIN holders -> StateHolder],
         NEW t, NEW d, NewIncarnation(t, d)
  PROVE  /\ DOMAIN holders' = DOMAIN holders
         /\ \A k \in DOMAIN holders :
              /\ holders'[k].target = holders[k].target
              /\ holders'[k].flow = holders[k].flow
              /\ holders'[k].flow_generation = holders[k].flow_generation
<1>0. holders' = [k \in DOMAIN holders |->
                    IF holders[k].target = t
                    THEN [holders[k] EXCEPT !.incarnation = d.incarnation,
                                            !.handoff_pending = FALSE]
                    ELSE holders[k]]
  BY ZenonT(90) DEF NewIncarnation
<1>1. ASSUME NEW k \in DOMAIN holders
      PROVE  /\ holders'[k].target = holders[k].target
             /\ holders'[k].flow = holders[k].flow
             /\ holders'[k].flow_generation = holders[k].flow_generation
  <2>1. holders[k] \in StateHolder
    OBVIOUS
  <2> QED
    BY ZenonT(90), <1>0, <2>1 DEF StateHolder
<1> QED
  BY ZenonT(90), <1>0, <1>1

\* The fields of the holder and of the assignment place() records agree.
LEMMA PlacedFields ==
  ASSUME NEW f, NEW plan
  PROVE  /\ PlacedHolder(f, plan).flow = f
         /\ PlacedHolder(f, plan).flow_generation = flows[f].generation
         /\ PlacedHolder(f, plan).target = plan[f]
         /\ AssignmentFor(f, plan).flow_generation = flows[f].generation
         /\ AssignmentFor(f, plan).target = plan[f]
BY ZenonT(90) DEF PlacedHolder, AssignmentFor

\* The holder a restart rebuilds repeats the assignment it is rebuilt from.
LEMMA RestoredFields ==
  ASSUME NEW f
  PROVE  /\ RestoredHolder(f).flow = f
         /\ RestoredHolder(f).flow_generation = assignments[f].flow_generation
         /\ RestoredHolder(f).target = assignments[f].target
BY ZenonT(90) DEF RestoredHolder

\* Dropping a flow, what is assigned to it and what it holds leaves the rest.
LEMMA DroppedHolds ==
  ASSUME HolderIsAssigned, NEW f,
         \A k \in DOMAIN holders' : /\ k \in DOMAIN holders /\ holders'[k] = holders[k]
                                   /\ holders'[k].flow # f,
         \A g \in DOMAIN flows : g # f => g \in DOMAIN flows' /\ flows'[g] = flows[g],
         \A g \in DOMAIN assignments : g # f => /\ g \in DOMAIN assignments'
                                               /\ assignments'[g] = assignments[g]
  PROVE  HolderIsAssigned'
BY DEF HolderIsAssigned

\* Every handler changes the holder of a key together with the assignment it
\* names: place, observe, register_flow, remove_flow and the restart.
LEMMA HolderIsAssignedStep ==
  ASSUME TypeOK, LifecycleInv, [Next]_vars
  PROVE  HolderIsAssigned'
<1> USE LifecycleAssumption
<1> USE DEF decisions, authority, attempts, HolderIsAssigned
<1>0. /\ HolderIsAssigned /\ AssignedIsRegistered /\ InFlightIsCurrent
      /\ assignments \in [DOMAIN assignments -> Assignment]
      /\ holders \in [DOMAIN holders -> StateHolder]
      /\ flows \in [DOMAIN flows -> FlowDescriptor]
  BY ZenonT(90) DEF LifecycleInv, TypeOK
<1>1. ASSUME UNCHANGED <<flows, assignments, holders>>
      PROVE  HolderIsAssigned'
  BY ZenonT(90), <1>0, <1>1
\* Neither the effect of an assignment nor a handoff matters.
<1>2. ASSUME UNCHANGED flows,
             NEW S, NEW e, assignments' = WithEffect(S, e),
             \/ UNCHANGED holders
             \/ \E A : holders' = ReleaseHandoff(A)
      PROVE  HolderIsAssigned'
  <2>1. /\ DOMAIN assignments' = DOMAIN assignments
        /\ \A f \in DOMAIN assignments :
             /\ assignments'[f].target = assignments[f].target
             /\ assignments'[f].flow_generation = assignments[f].flow_generation
    BY <1>0, <1>2, WithEffectMovesNone
  <2>2. /\ DOMAIN holders' = DOMAIN holders
        /\ \A k \in DOMAIN holders :
             /\ holders'[k].target = holders[k].target
             /\ holders'[k].flow = holders[k].flow
             /\ holders'[k].flow_generation = holders[k].flow_generation
    BY <1>0, <1>2, ReleaseHandoffMovesNone
  <2> QED
    BY <1>0, <1>2, <2>1, <2>2
<1>3. ASSUME NEW f \in Flow, NEW d \in FlowDescriptors, RegisterNewFlow(f, d)
      PROVE  HolderIsAssigned'
  BY ZenonT(90), <1>0, <1>3 DEF RegisterNewFlow, Insert
<1>4. ASSUME NEW f \in Flow, NEW d \in FlowDescriptors, RegisterNewGeneration(f, d)
      PROVE  HolderIsAssigned'
  <2>1. /\ f \in DOMAIN flows /\ flows' = Insert(flows, f, d)
        /\ holders' = Erase(holders, HeldBy(f))
        /\ assignments' = Erase(assignments, {f})
    BY <1>4 DEF RegisterNewGeneration
  <2>2. \A k \in DOMAIN holders' :
          k \in DOMAIN holders /\ holders'[k] = holders[k] /\ k \notin HeldBy(f)
    BY ZenonT(90), <2>1 DEF Erase
  <2>3. \A k \in DOMAIN holders' : holders'[k].flow # f
    BY <1>0, <2>2 DEF HeldBy
  <2>4. \A g \in DOMAIN flows : g # f => g \in DOMAIN flows' /\ flows'[g] = flows[g]
    BY <2>1 DEF Insert
  <2>5. \A g \in DOMAIN assignments : g # f => /\ g \in DOMAIN assignments'
                                              /\ assignments'[g] = assignments[g]
    BY ZenonT(90), <2>1 DEF Erase
  <2> HIDE DEF HolderIsAssigned
  <2> QED
    BY ZenonT(90), <1>0, <2>2, <2>3, <2>4, <2>5, DroppedHolds
<1>5. ASSUME NEW f \in Flow, RemoveFlow(f)
      PROVE  HolderIsAssigned'
  <2>1. /\ flows' = Erase(flows, {f}) /\ holders' = Erase(holders, HeldBy(f))
        /\ assignments' = Erase(assignments, {f})
    BY ZenonT(90), <1>5 DEF RemoveFlow
  <2>2. \A k \in DOMAIN holders' :
          k \in DOMAIN holders /\ holders'[k] = holders[k] /\ k \notin HeldBy(f)
    BY ZenonT(90), <2>1 DEF Erase
  <2>3. \A k \in DOMAIN holders' : holders'[k].flow # f
    BY <1>0, <2>2 DEF HeldBy
  <2>4. \A g \in DOMAIN flows : g # f => g \in DOMAIN flows' /\ flows'[g] = flows[g]
    BY ZenonT(90), <2>1 DEF Erase
  <2>5. \A g \in DOMAIN assignments : g # f => /\ g \in DOMAIN assignments'
                                              /\ assignments'[g] = assignments[g]
    BY ZenonT(90), <2>1 DEF Erase
  <2> HIDE DEF HolderIsAssigned
  <2> QED
    BY ZenonT(90), <1>0, <2>2, <2>3, <2>4, <2>5, DroppedHolds
<1>6. ASSUME NEW t \in Target, NEW d \in Declarations,
             \/ DeclareNewTarget(t, d) \/ RedeclareTarget(t, d)
             \/ AdvanceCapability(t, d)
      PROVE  HolderIsAssigned'
  BY ZenonT(90), <1>1, <1>2, <1>6 DEF DeclareNewTarget, RedeclareTarget, AdvanceCapability
<1>7. ASSUME NEW t \in Target, NEW d \in Declarations, NewIncarnation(t, d)
      PROVE  HolderIsAssigned'
  <2>1. /\ DOMAIN assignments' = DOMAIN assignments
        /\ \A f \in DOMAIN assignments :
             /\ assignments'[f].target = assignments[f].target
             /\ assignments'[f].flow_generation = assignments[f].flow_generation
    <3>1. assignments' = WithEffect(AssignedTo(t), "Unknown")
      BY ZenonT(90), <1>7 DEF NewIncarnation
    <3> QED
      BY <1>0, <3>1, WithEffectMovesNone
  <2>2. /\ DOMAIN holders' = DOMAIN holders
        /\ \A k \in DOMAIN holders :
             /\ holders'[k].target = holders[k].target
             /\ holders'[k].flow = holders[k].flow
             /\ holders'[k].flow_generation = holders[k].flow_generation
    BY <1>0, <1>7, NewIncarnationMovesNone
  <2>3. UNCHANGED flows
    BY ZenonT(90), <1>7 DEF NewIncarnation
  <2> QED
    BY <1>0, <2>1, <2>2, <2>3
<1>8. ASSUME NEW t \in Target, RemoveTarget(t)
      PROVE  HolderIsAssigned'
  BY <1>2, <1>8 DEF RemoveTarget
<1>9. CASE \/ UNCHANGED vars
           \/ \E p \in Policies : SetPolicy(p)
           \/ \E g \in 1..MaxTopology : SetTopologyGeneration(g)
           \/ \E r \in recommendations : Authorize(r)
           \/ \E z \in authorizations : RevokeAuthorization(z)
           \/ ReopenInMemory
  BY ZenonT(90), <1>1, <1>9 DEF vars, SetPolicy, SetTopologyGeneration, Authorize,
       RevokeAuthorization, ReopenInMemory
<1>10. ASSUME NEW fs \in SUBSET Flow, NEW plan \in [fs -> Target], Place(plan)
       PROVE  HolderIsAssigned'
  <2> DEFINE changed == Changed(plan)
             keys == KeysOf(changed)
  <2>1. /\ changed \subseteq DOMAIN plan /\ DOMAIN plan \subseteq DOMAIN flows
        /\ \A f \in DOMAIN plan : ExclusiveStateFree(f)
        /\ UNCHANGED flows
        /\ assignments' =
             [f \in DOMAIN assignments \cup changed |->
                IF f \in changed THEN AssignmentFor(f, plan) ELSE assignments[f]]
    BY ZenonT(90), <1>10 DEF Place, Changed
  <2>2. PICK last \in [keys -> changed] :
          /\ LastByKey(changed, last)
          /\ holders' = [k \in DOMAIN holders \cup keys |->
                           IF k \in keys THEN PlacedHolder(last[k], plan)
                                         ELSE holders[k]]
    BY ZenonT(90), <1>10 DEF Place
  <2> SUFFICES ASSUME NEW k \in DOMAIN holders'
               PROVE  LET h == holders'[k] IN
                      /\ h.flow \in DOMAIN flows' /\ flows'[h.flow].key = k
                      /\ flows'[h.flow].generation = h.flow_generation
                      /\ h.flow \in DOMAIN assignments'
                      /\ assignments'[h.flow].target = h.target
                      /\ assignments'[h.flow].flow_generation = h.flow_generation
    OBVIOUS
  <2>3. CASE k \in keys
    <3>1. /\ holders'[k] = PlacedHolder(last[k], plan)
          /\ last[k] \in changed /\ flows[last[k]].key = k
      BY ZenonT(90), <2>2, <2>3 DEF LastByKey
    <3> HIDE DEF changed, keys
    <3>2. assignments'[last[k]] = AssignmentFor(last[k], plan)
      BY ZenonT(90), <2>1, <3>1
    <3> DEFINE g == last[k]
    <3>3. /\ holders'[k].flow = g
          /\ holders'[k].flow_generation = flows[g].generation
          /\ holders'[k].target = plan[g]
      BY <3>1, PlacedFields
    <3>4. /\ assignments'[g].flow_generation = flows[g].generation
          /\ assignments'[g].target = plan[g]
      BY <3>2, PlacedFields
    <3>5. /\ g \in DOMAIN flows /\ flows[g].key = k
          /\ g \in DOMAIN assignments' /\ flows' = flows
      BY ZenonT(90), <2>1, <3>1
    <3> HIDE DEF g
    <3> QED
      BY ZenonT(90), <3>3, <3>4, <3>5
  <2>4. CASE k \notin keys
    <3>1. k \in DOMAIN holders /\ holders'[k] = holders[k]
      BY ZenonT(90), <2>2, <2>4
    <3>2. k # Stateless
      BY ZenonT(90), <3>1 DEF TypeOK
    <3>3. holders[k].flow \notin changed
      BY ZenonT(90), <1>0, <2>4, <3>1, <3>2 DEF KeysOf
    <3> DEFINE g == holders[k].flow
    <3>4. /\ g \in DOMAIN flows /\ flows[g].key = k
          /\ flows[g].generation = holders[k].flow_generation
          /\ g \in DOMAIN assignments
          /\ assignments[g].target = holders[k].target
          /\ assignments[g].flow_generation = holders[k].flow_generation
      BY ZenonT(90), <1>0, <3>1
    <3>5. g \in DOMAIN assignments' /\ assignments'[g] = assignments[g]
      BY <2>1, <3>3, <3>4
    <3> QED
      BY ZenonT(90), <2>1, <3>1, <3>4, <3>5
  <2> QED
    BY ZenonT(90), <2>3, <2>4
<1>11. ASSUME NEW z \in authorizations, NEW t \in Target, IssueIntent(z, t)
       PROVE  HolderIsAssigned'
  <2>1. /\ z.flow \in DOMAIN flows /\ z.flow \in DOMAIN assignments
        /\ UNCHANGED flows /\ assignments' = WithEffect({z.flow}, "IntentIssued")
    BY ZenonT(90), <1>11 DEF IssueIntent, AuthorizationCurrent
  <2>2. /\ DOMAIN assignments' = DOMAIN assignments
        /\ \A f \in DOMAIN assignments :
             /\ assignments'[f].target = assignments[f].target
             /\ assignments'[f].flow_generation = assignments[f].flow_generation
    BY <1>0, <2>1, WithEffectMovesNone
  <2>3. assignments[z.flow].flow_generation = flows[z.flow].generation
    BY ZenonT(90), <1>0, <2>1 DEF AssignedIsRegistered
  <2>4. CASE UNCHANGED holders
    BY ZenonT(90), <1>2, <2>1, <2>4
  <2>5. CASE holders' = Insert(holders, flows[z.flow].key, HandingOver(z.flow))
    <3> DEFINE f == z.flow
               key == flows[f].key
    <3>1. ASSUME NEW k \in DOMAIN holders', k # key
          PROVE  k \in DOMAIN holders /\ holders'[k] = holders[k]
      BY <2>5, <3>1 DEF Insert
    <3>2. /\ holders'[key].flow = f
          /\ holders'[key].flow_generation = flows[f].generation
          /\ holders'[key].target = assignments[f].target
      BY ZenonT(90), <2>5 DEF Insert, HandingOver
    <3>3. UNCHANGED flows /\ f \in DOMAIN flows /\ f \in DOMAIN assignments
      BY ZenonT(90), <2>1
    <3>4. assignments[f].flow_generation = flows[f].generation
      BY <2>3
    <3> HIDE DEF f, key
    <3>5. key = flows[f].key
      BY DEF key
    <3> QED
      BY <1>0, <2>2, <3>1, <3>2, <3>3, <3>4, <3>5
  <2> QED
    BY ZenonT(90), <1>11, <2>4, <2>5 DEF IssueIntent
<1>12. ASSUME NEW b \in DOMAIN migrations, NEW actor \in {"Source", "Destination"},
              Acknowledge(b, actor) \/ Decline(b, actor)
       PROVE  HolderIsAssigned'
  <2>1. CASE Acknowledge(b, actor)
    BY ZenonT(90), <1>2, <2>1 DEF Acknowledge
  <2>2. CASE Decline(b, actor)
    <3>1. assignments' = WithEffect({}, "Unknown")
      BY <1>0, <2>2 DEF Decline, WithEffect
    <3> QED
      BY ZenonT(90), <1>2, <2>2, <3>1 DEF Decline
  <2> QED
    BY ZenonT(90), <1>12, <2>1, <2>2
<1>13. ASSUME NEW b \in DOMAIN migrations, ReportApplied(b) \/ AbortMigration(b)
       PROVE  HolderIsAssigned'
  BY ZenonT(90), <1>2, <1>13 DEF ReportApplied, AbortMigration
<1>14. ASSUME NEW f \in Flow, NEW b \in DOMAIN migrations, Observe(f, b)
       PROVE  HolderIsAssigned'
  <2>1. /\ b \in InFlight /\ migrations[b].flow = f
        /\ UNCHANGED flows
        /\ assignments' = [g \in DOMAIN assignments |->
             IF g = f THEN VerifiedAssignment(assignments[f], migrations[b])
                      ELSE assignments[g]]
        /\ holders' = IF f \in DOMAIN assignments \cap DOMAIN flows /\ Stateful(f)
                      THEN Insert(holders, flows[f].key, VerifiedHolder(migrations[b]))
                      ELSE holders
    BY ZenonT(90), <1>14 DEF Observe, InFlightOf
  <2>2. /\ f \in DOMAIN flows /\ f \in DOMAIN assignments
        /\ flows[f].generation = migrations[b].flow_generation
        /\ assignments[f].flow_generation = migrations[b].flow_generation
    BY <1>0, <2>1 DEF InFlightIsCurrent, AssignedIsRegistered
  <2>3. /\ assignments'[f].target = migrations[b].destination_target
        /\ assignments'[f].flow_generation = assignments[f].flow_generation
    <3>1. /\ assignments[f] \in Assignment
          /\ assignments'[f] = VerifiedAssignment(assignments[f], migrations[b])
      BY ZenonT(90), <1>0, <2>1, <2>2
    <3> QED
      BY ZenonT(90), <3>1 DEF VerifiedAssignment, Assignment
  <2>4. CASE Stateful(f)
    <3> DEFINE key == flows[f].key
    <3>1. holders' = Insert(holders, key, VerifiedHolder(migrations[b]))
      BY ZenonT(90), <2>1, <2>2, <2>4
    <3>2. /\ holders'[key].flow = f
          /\ holders'[key].flow_generation = flows[f].generation
          /\ holders'[key].target = assignments'[f].target
      BY <2>1, <2>2, <2>3, <3>1 DEF Insert, VerifiedHolder
    <3>3. ASSUME NEW k \in DOMAIN holders', k # key
          PROVE  k \in DOMAIN holders /\ holders'[k] = holders[k]
      BY ZenonT(90), <3>1, <3>3 DEF Insert
    <3>4. \A g \in DOMAIN assignments : g # f => assignments'[g] = assignments[g]
      BY ZenonT(90), <2>1
    <3>5. DOMAIN assignments' = DOMAIN assignments /\ UNCHANGED flows
      BY ZenonT(90), <2>1
    <3> HIDE DEF key
    <3>6. key = flows[f].key
      BY ZenonT(90) DEF key
    <3>7. ASSUME NEW k \in DOMAIN holders', k # key
          PROVE  holders[k].flow # f
      BY ZenonT(90), <1>0, <3>3, <3>6, <3>7
    <3> QED
      BY <1>0, <2>2, <2>3, <3>2, <3>3, <3>4, <3>5, <3>6, <3>7
  <2>5. CASE ~Stateful(f)
    <3>1. \A k \in DOMAIN holders : holders[k].flow # f
      BY <1>0, <2>5 DEF Stateful, TypeOK
    <3> QED
      BY ZenonT(90), <1>0, <2>1, <2>5, <3>1
  <2> QED
    BY <2>4, <2>5
<1>15. ASSUME Restart
       PROVE  HolderIsAssigned'
  <2> DEFINE kept == DOMAIN assignments \cap DOMAIN flows
  <2>1. PICK last \in [KeysOf(kept) -> kept] :
          /\ LastByKey(kept, last)
          /\ holders' = [k \in KeysOf(kept) |-> RestoredHolder(last[k])]
    BY ZenonT(90), <1>15 DEF Restart
  <2>2. /\ UNCHANGED flows
        /\ DOMAIN assignments' = DOMAIN assignments
        /\ \A f \in DOMAIN assignments :
             /\ assignments'[f].target = assignments[f].target
             /\ assignments'[f].flow_generation = assignments[f].flow_generation
    <3>1. /\ UNCHANGED flows
          /\ assignments' = WithEffect({f \in DOMAIN assignments :
                                         assignments[f].effect # "Verified"}, "Unknown")
      BY ZenonT(90), <1>15 DEF Restart
    <3> QED
      BY <1>0, <3>1, WithEffectMovesNone
  <2>3. ASSUME NEW k \in DOMAIN holders'
        PROVE  /\ holders'[k] = RestoredHolder(last[k])
               /\ last[k] \in kept /\ flows[last[k]].key = k
               /\ assignments[last[k]].flow_generation = flows[last[k]].generation
    BY ZenonT(90), <1>0, <2>1 DEF LastByKey, AssignedIsRegistered
  <2>4. ASSUME NEW k \in DOMAIN holders'
        PROVE  /\ holders'[k].flow = last[k]
               /\ holders'[k].target = assignments[last[k]].target
               /\ holders'[k].flow_generation = assignments[last[k]].flow_generation
    BY ZenonT(90), <2>3, RestoredFields
  <2> SUFFICES ASSUME NEW k \in DOMAIN holders'
               PROVE  LET h == holders'[k] IN
                      /\ h.flow \in DOMAIN flows' /\ flows'[h.flow].key = k
                      /\ flows'[h.flow].generation = h.flow_generation
                      /\ h.flow \in DOMAIN assignments'
                      /\ assignments'[h.flow].target = h.target
                      /\ assignments'[h.flow].flow_generation = h.flow_generation
    BY ZenonT(90)
  <2> DEFINE g == last[k]
  <2>5. /\ g \in DOMAIN flows /\ g \in DOMAIN assignments /\ flows[g].key = k
        /\ assignments[g].flow_generation = flows[g].generation
    BY ZenonT(90), <2>3
  <2>6. /\ g \in DOMAIN assignments' /\ flows' = flows
        /\ assignments'[g].target = assignments[g].target
        /\ assignments'[g].flow_generation = assignments[g].flow_generation
    BY <2>2, <2>5
  <2>7. /\ holders'[k].flow = g
        /\ holders'[k].target = assignments[g].target
        /\ holders'[k].flow_generation = assignments[g].flow_generation
    BY ZenonT(90), <2>4
  <2> HIDE DEF g, kept
  <2> QED
    BY <2>5, <2>6, <2>7
<1> HIDE DEF HolderIsAssigned, decisions, authority, attempts
<1> QED
  BY <1>3, <1>4, <1>5, <1>6, <1>7, <1>8, <1>9, <1>10, <1>11, <1>12, <1>13, <1>14,
     <1>15 DEF Next


-----------------------------------------------------------------------------
(* Types. *)

INSTANCE FiniteSetTheorems

\* A placement keeps the tables well typed.
LEMMA PlaceType ==
  ASSUME TypeOK, NEW fs \in SUBSET Flow, NEW plan \in [fs -> Target], Place(plan)
  PROVE  TypeOK'
<1> USE LifecycleAssumption
<1>0. DOMAIN plan = fs /\ fs \subseteq DOMAIN flows /\ Changed(plan) \subseteq fs
  BY DEF Place, Changed
<1>1. \A S \in SUBSET fs : Cardinality(S) \in Nat
  BY ZenonT(90), FS_Subset, FS_CardinalityType
<1>2. \A f \in fs : /\ plan[f] \in Target
                    /\ targets[plan[f]] \in TargetState
                    /\ flows[f] \in FlowDescriptor
  BY <1>0 DEF TypeOK, Place, Usable
<1>3. Published(plan) \in Nat
  BY DEF Published, TypeOK
<1>4. /\ DOMAIN assignments' \subseteq Flow
      /\ assignments' \in [DOMAIN assignments' -> Assignment]
  <2>1. \A f \in fs : AssignmentFor(f, plan) \in Assignment
    BY ZenonT(90), <1>2 DEF AssignmentFor, Assignment, Effect, FlowDescriptor, TargetState
  <2> QED
    BY <2>1, <1>0 DEF Place, TypeOK
<1>5. /\ DOMAIN holders' \subseteq Key
      /\ holders' \in [DOMAIN holders' -> StateHolder]
  <2>1. \A f \in fs : PlacedHolder(f, plan) \in StateHolder
    BY ZenonT(90), <1>2 DEF PlacedHolder, StateHolder, FlowDescriptor, TargetState
  <2>2. KeysOf(Changed(plan)) \subseteq Key
    BY <1>0, <1>2 DEF KeysOf, FlowDescriptor
  <2>3. PICK last \in [KeysOf(Changed(plan)) -> Changed(plan)] :
          holders' = [k \in DOMAIN holders \cup KeysOf(Changed(plan)) |->
                        IF k \in KeysOf(Changed(plan))
                        THEN PlacedHolder(last[k], plan) ELSE holders[k]]
    BY ZenonT(90) DEF Place
  <2> QED
    BY ZenonT(90), <2>1, <2>2, <2>3, <1>0 DEF TypeOK
<1>6. recommendations' \subseteq Recommendation
  <2>1. \A f \in fs : RecommendationFor(f, plan) \in Recommendation
    <3> SUFFICES ASSUME NEW f \in fs
                 PROVE  RecommendationFor(f, plan) \in Recommendation
      OBVIOUS
    <3>1. Before(f, plan) \in Nat
      BY <1>0, <1>1 DEF Before
    <3>2. /\ next_recommendation + Before(f, plan) \in Nat
          /\ policy.generation \in Nat
          /\ topology_generation \in Nat /\ epoch \in Nat
      BY <3>1 DEF TypeOK, Policy, Generation
    <3>3. /\ f \in Flow /\ plan[f] \in Target
          /\ flows[f].generation \in Generation
          /\ targets[plan[f]].incarnation \in Generation
          /\ targets[plan[f]].capability_generation \in Nat
      BY <1>2 DEF FlowDescriptor, TargetState
    <3> QED
      BY ZenonT(90), <1>3, <3>2, <3>3 DEF RecommendationFor, Recommendation
  <2> QED
    BY <2>1, <1>0, NewestSubset DEF Place, TypeOK
<1>7. next_recommendation' \in Nat
  BY <1>0, <1>1 DEF Place, TypeOK
<1> QED
  BY ZenonT(90), <1>3, <1>4, <1>5, <1>6, <1>7 DEF Place, TypeOK, attempts

\* Every step keeps the tables well typed.
LEMMA TypeStep ==
  ASSUME TypeOK, [Next]_vars
  PROVE  TypeOK'
<1> USE LifecycleAssumption
<1> USE DEF decisions, authority, attempts
<1>1. CASE UNCHANGED vars
  BY <1>1 DEF TypeOK, vars
<1>2. ASSUME NEW f \in Flow, NEW d \in FlowDescriptors, RegisterNewFlow(f, d)
      PROVE  TypeOK'
  BY ZenonT(90), <1>2 DEF RegisterNewFlow, Insert, TypeOK
<1>3. ASSUME NEW f \in Flow, NEW d \in FlowDescriptors, RegisterNewGeneration(f, d)
      PROVE  TypeOK'
  BY ZenonT(90), <1>3, EndAttemptsType DEF RegisterNewGeneration, Insert, Erase, TypeOK, Terminal
<1>4. ASSUME NEW f \in Flow, RemoveFlow(f)
      PROVE  TypeOK'
  BY <1>4, EndAttemptsType DEF RemoveFlow, Erase, TypeOK, Terminal
<1>5. ASSUME NEW t \in Target, NEW d \in Declarations,
             DeclareNewTarget(t, d) \/ RedeclareTarget(t, d)
      PROVE  TypeOK'
  BY ZenonT(90), <1>5, RecordType DEF DeclareNewTarget, RedeclareTarget, TypeOK
<1>6. ASSUME NEW t \in Target, NEW d \in Declarations, AdvanceCapability(t, d)
      PROVE  TypeOK'
  BY ZenonT(90), <1>6, RecordType, WithEffectType DEF AdvanceCapability, TypeOK, Effect
<1>7. ASSUME NEW t \in Target, NEW d \in Declarations, NewIncarnation(t, d)
      PROVE  TypeOK'
  <2>0. /\ holders \in [DOMAIN holders -> StateHolder]
        /\ d.incarnation \in Generation
    BY DEF TypeOK, Declaration
  <2>1. holders' \in [DOMAIN holders -> StateHolder]
    BY ZenonT(90), <2>0, <1>7 DEF NewIncarnation, StateHolder
  <2> QED
    BY ZenonT(90), <2>1, <1>7, RecordType, WithEffectType, EndAttemptsType
       DEF NewIncarnation, TypeOK, Effect, Terminal
<1>8. ASSUME NEW t \in Target, RemoveTarget(t)
      PROVE  TypeOK'
  <2>1. targets' \in [DOMAIN targets -> TargetState]
    <3>1. /\ t \in DOMAIN targets
          /\ targets' = [targets EXCEPT
                           ![t] = [targets[t] EXCEPT !.declared = TRUE,
                                                     !.lifecycle = "NotReady"]]
      BY ZenonT(90), <1>8 DEF RemoveTarget
    <3>2. ASSUME NEW x \in TargetState
          PROVE  [x EXCEPT !.declared = TRUE, !.lifecycle = "NotReady"] \in TargetState
      BY ZenonT(90) DEF TargetState
    <3>3. targets \in [DOMAIN targets -> TargetState]
      BY DEF TypeOK
    <3> QED
      BY ZenonT(90), <3>1, <3>2, <3>3
  <2> QED
    BY ZenonT(90), <2>1, <1>8, WithEffectType, EndAttemptsType, ReleaseHandoffType
       DEF RemoveTarget, TypeOK, Effect, Terminal
<1>9. ASSUME NEW p \in Policies, SetPolicy(p)
      PROVE  TypeOK'
  BY <1>9 DEF SetPolicy, TypeOK
<1>10. ASSUME NEW g \in 1..MaxTopology, SetTopologyGeneration(g)
       PROVE  TypeOK'
  <2>1. targets' \in [DOMAIN targets -> TargetState]
    BY ZenonT(90), <1>10 DEF SetTopologyGeneration, Withdraw, TypeOK, TargetState
  <2> QED
    BY <2>1, <1>10 DEF SetTopologyGeneration, TypeOK
<1>11. ASSUME NEW fs \in SUBSET Flow, NEW plan \in [fs -> Target], Place(plan)
       PROVE  TypeOK'
  BY <1>11, PlaceType
<1>12. ASSUME NEW r \in recommendations, Authorize(r)
       PROVE  TypeOK'
  <2>1. Grant(r) \in Authorization
    BY ZenonT(90) DEF Grant, Authorization, TypeOK, Recommendation, Policy, Generation
  <2> QED
    BY <2>1, <1>12, NewestSubset DEF Authorize, TypeOK
<1>13. ASSUME NEW z \in authorizations, RevokeAuthorization(z)
       PROVE  TypeOK'
  <2>1. [z EXCEPT !.granted = FALSE] \in Authorization
    BY ZenonT(90) DEF TypeOK, Authorization
  <2> QED
    BY ZenonT(90), <2>1, <1>13 DEF RevokeAuthorization, TypeOK
<1>14. ASSUME NEW z \in authorizations, NEW t \in Target, IssueIntent(z, t)
       PROVE  TypeOK'
  <2>1. /\ z.flow \in DOMAIN flows /\ z.flow \in DOMAIN assignments
        /\ flows[z.flow] \in FlowDescriptor
        /\ assignments[z.flow] \in Assignment
        /\ targets[t] \in TargetState
    BY <1>14 DEF IssueIntent, AuthorizationCurrent, Usable, TypeOK
  <2>2. Intent(z.flow, t) \in MigrationRecord
    BY ZenonT(90), <2>1 DEF Intent, MigrationRecord, FlowDescriptor, Assignment, TargetState,
         InFlightPhase, TypeOK, Generation
  <2>3. Stateful(z.flow) => flows[z.flow].key \in Key
    BY ZenonT(90), <2>1 DEF Stateful, FlowDescriptor
  <2>4. HandingOver(z.flow) \in StateHolder
    BY ZenonT(90), <2>1 DEF HandingOver, StateHolder, FlowDescriptor, Assignment, TypeOK,
         Generation
  <2>5. migrations' \in [1..(next_attempt' - 1) -> MigrationRecord]
    BY <2>2, <1>14 DEF IssueIntent, Insert, TypeOK, Generation
  <2>6. next_attempt' \in Generation
    BY <1>14 DEF IssueIntent, TypeOK, Generation
  <2>7. /\ DOMAIN holders' \subseteq Key
        /\ holders' \in [DOMAIN holders' -> StateHolder]
    BY ZenonT(90), <2>3, <2>4, <1>14 DEF IssueIntent, Insert, TypeOK
  <2> QED
    BY ZenonT(90), <2>5, <2>6, <2>7, <1>14, WithEffectType DEF IssueIntent, TypeOK, Effect
<1>15. ASSUME NEW a \in DOMAIN migrations, NEW actor \in {"Source", "Destination"},
              Acknowledge(a, actor) \/ Decline(a, actor)
       PROVE  TypeOK'
  <2>0. migrations \in [1..(next_attempt - 1) -> MigrationRecord]
    BY DEF TypeOK
  <2>1. \A p \in InFlightPhase \cup Terminal :
          Acknowledged(migrations[a], actor, p) \in MigrationRecord
    <3> SUFFICES ASSUME NEW p \in InFlightPhase \cup Terminal
                 PROVE  Acknowledged(migrations[a], actor, p) \in MigrationRecord
      OBVIOUS
    <3> DEFINE m1 == [migrations[a] EXCEPT !.phase = p]
               m2 == [m1 EXCEPT !.source_acknowledged =
                        m1.source_acknowledged \/ actor = "Source"]
               m3 == [m2 EXCEPT !.destination_acknowledged =
                        m2.destination_acknowledged \/ actor = "Destination"]
    <3>1. m1 \in MigrationRecord
      BY ZenonT(90), <2>0, MigrationUpdate
    <3> HIDE DEF m1
    <3>2. m2 \in MigrationRecord
      BY ZenonT(90), <3>1, MigrationUpdate, (m1.source_acknowledged \/ actor = "Source") \in BOOLEAN
    <3> HIDE DEF m2
    <3>3. m3 \in MigrationRecord
      BY ZenonT(90), <3>2, MigrationUpdate,
         (m2.destination_acknowledged \/ actor = "Destination") \in BOOLEAN
    <3> QED
      BY <3>3 DEF Acknowledged, m1, m2
  <2>2. /\ {"SourceAcknowledged", "DestinationAcknowledged"} \subseteq InFlightPhase
        /\ "Aborted" \in Terminal
    BY DEF InFlightPhase, Terminal
  <2>3. migrations' \in [1..(next_attempt - 1) -> MigrationRecord]
    BY <2>0, <2>1, <2>2, <1>15 DEF Acknowledge, Decline
  <2> QED
    BY <2>3, <1>15, WithEffectType, ReleaseHandoffType
       DEF Acknowledge, Decline, TypeOK, Effect
<1>16. ASSUME NEW a \in DOMAIN migrations, ReportApplied(a)
       PROVE  TypeOK'
  <2>0. migrations \in [1..(next_attempt - 1) -> MigrationRecord]
    BY DEF TypeOK
  <2>1. migrations' \in [1..(next_attempt - 1) -> MigrationRecord]
    <3> DEFINE m1 == [migrations[a] EXCEPT !.effect_applied = TRUE]
    <3>1. m1 \in MigrationRecord
      BY ZenonT(90), <2>0, MigrationUpdate
    <3>2. [m1 EXCEPT !.phase = "EffectApplied"] \in MigrationRecord
      BY ZenonT(90), <3>1, MigrationUpdate DEF InFlightPhase
    <3> QED
      BY <2>0, <3>2, <1>16 DEF ReportApplied
  <2> QED
    BY <2>1, <1>16, WithEffectType DEF ReportApplied, TypeOK, Effect
<1>17. ASSUME NEW a \in DOMAIN migrations, AbortMigration(a)
       PROVE  TypeOK'
  BY ZenonT(90), <1>17, EndAttemptsType, WithEffectType, ReleaseHandoffType
     DEF AbortMigration, TypeOK, Effect, Terminal
<1>18. ASSUME NEW f \in Flow, NEW a \in DOMAIN migrations, Observe(f, a)
       PROVE  TypeOK'
  <2>1. /\ migrations[a] \in MigrationRecord
        /\ assignments \in [DOMAIN assignments -> Assignment]
    BY DEF TypeOK
  <2>2. assignments' \in [DOMAIN assignments -> Assignment]
    <3>1. ASSUME NEW x \in Assignment
          PROVE  VerifiedAssignment(x, migrations[a]) \in Assignment
      BY ZenonT(90), <2>1 DEF VerifiedAssignment, Assignment, MigrationRecord, Effect
    <3> QED
      BY <2>1, <3>1, <1>18 DEF Observe
  <2>3. VerifiedHolder(migrations[a]) \in StateHolder
    BY ZenonT(90), <2>1 DEF VerifiedHolder, StateHolder, MigrationRecord
  <2>4. /\ DOMAIN holders' \subseteq Key
        /\ holders' \in [DOMAIN holders' -> StateHolder]
    BY ZenonT(90), <2>3, <1>18 DEF Observe, Insert, Stateful, TypeOK, FlowDescriptor
  <2> QED
    BY <2>2, <2>4, <1>18, EndAttemptsType DEF Observe, TypeOK, Terminal
<1>19. ASSUME Restart
       PROVE  TypeOK'
  <2> DEFINE kept == DOMAIN assignments \cap DOMAIN flows
  <2>1. \A f \in kept : RestoredHolder(f) \in StateHolder
    BY DEF RestoredHolder, StateHolder, TypeOK, Assignment
  <2>2. KeysOf(kept) \subseteq Key
    BY DEF KeysOf, TypeOK, FlowDescriptor
  <2>3. PICK last \in [KeysOf(kept) -> kept] :
          holders' = [k \in KeysOf(kept) |-> RestoredHolder(last[k])]
    BY ZenonT(90), <1>19 DEF Restart
  <2>4. /\ DOMAIN holders' \subseteq Key
        /\ holders' \in [DOMAIN holders' -> StateHolder]
    BY ZenonT(90), <2>1, <2>2, <2>3
  <2>5. targets' \in [DOMAIN targets -> TargetState]
    <3>1. targets' = [t \in DOMAIN targets |->
                        [targets[t] EXCEPT !.declared = FALSE, !.lifecycle = "NotReady"]]
      BY ZenonT(90), <1>19 DEF Restart
    <3>2. ASSUME NEW x \in TargetState
          PROVE  [x EXCEPT !.declared = FALSE, !.lifecycle = "NotReady"] \in TargetState
      BY ZenonT(90) DEF TargetState
    <3>3. \A t \in DOMAIN targets : targets[t] \in TargetState
      BY DEF TypeOK
    <3> QED
      BY ZenonT(90), <3>1, <3>2, <3>3
  <2>6. epoch' = epoch + 1 /\ restarts' = restarts + 1
    BY ZenonT(90), <1>19 DEF Restart
  <2>7. epoch' \in Generation /\ restarts' \in Generation
    BY <2>6 DEF TypeOK, Generation
  <2>8. /\ recommendations' = {} /\ authorizations' = {}
        /\ next_recommendation' = 1 /\ next_authorization' = 1
        /\ migrations' = EndAttempts(InFlight, "Fenced")
        /\ assignments' = WithEffect({f \in DOMAIN assignments :
                             assignments[f].effect # "Verified"}, "Unknown")
        /\ UNCHANGED <<policy, schedule_generation, topology_generation, flows,
                       next_attempt>>
    BY ZenonT(90), <1>19 DEF Restart
  <2> QED
    BY ZenonT(90), <2>4, <2>5, <2>7, <2>8, WithEffectType, EndAttemptsType
       DEF TypeOK, Effect, Terminal
<1>20. ASSUME ReopenInMemory
       PROVE  TypeOK'
  BY <1>20 DEF ReopenInMemory, TypeOK, Generation
<1> QED
  BY ZenonT(90), <1>1, <1>2, <1>3, <1>4, <1>5, <1>6, <1>7, <1>8, <1>9, <1>10, <1>11, <1>12,
     <1>13, <1>14, <1>15, <1>16, <1>17, <1>18, <1>19, <1>20 DEF Next

\* Every reachable state of the coordinator is well typed: in particular the
\* attempt ids in use are exactly those below next_attempt (engine.cpp).
THEOREM TypeCorrect == Spec => []TypeOK
<1>1. Init => TypeOK
  BY LifecycleAssumption DEF Init, TypeOK, Generation, Policy
<1>2. TypeOK /\ [Next]_vars => TypeOK'
  BY TypeStep
<1> QED
  BY <1>1, <1>2, PTL DEF Spec

\* A finished migration attempt keeps its record for ever: no late or repeated
\* acknowledgement, effect, observation or abort, and no restart, resumes it
\* (engine.cpp, states.md "Fenced is terminal").
THEOREM TerminalFinality == Spec => TerminalIsFinal
<1>1. TypeOK /\ [Next]_vars =>
        [\A a \in DOMAIN migrations :
           /\ a \in DOMAIN migrations'
           /\ migrations[a].phase \in Terminal => migrations'[a] = migrations[a]]_vars
  BY ZenonT(90), TerminalStep
<1> QED
  BY <1>1, TypeCorrect, PTL DEF Spec, TerminalIsFinal

-----------------------------------------------------------------------------
(* The invariant and the theorems it implies. *)

\* The invariant is inductive, relative to type correctness.
LEMMA LifecycleStep ==
  ASSUME TypeOK, LifecycleInv, [Next]_vars
  PROVE  LifecycleInv'
<1>1. (Persistent \/ epoch = 1)'
  BY ZenonT(90) DEF LifecycleInv, Next, vars, RegisterNewFlow, RegisterNewGeneration, RemoveFlow,
         DeclareNewTarget, RedeclareTarget, AdvanceCapability, NewIncarnation,
         RemoveTarget, SetPolicy, SetTopologyGeneration, Place, Authorize,
         RevokeAuthorization, IssueIntent, Acknowledge, Decline, ReportApplied,
         AbortMigration, Observe, Restart, ReopenInMemory
<1>2. AssignedIsRegistered /\ EffectsAreAcknowledged
  BY DEF LifecycleInv
<1> QED
  BY ZenonT(90), <1>1, <1>2, AssignedIsRegisteredStep, EffectsAreAcknowledgedStep,
     InFlightIsCurrentStep, VerifiedIsBackedStep, VerifiedOnCurrentIncarnationStep,
     HolderIsAssignedStep DEF LifecycleInv

\* The inductive invariant holds in every state the coordinator reaches.
THEOREM LifecycleCorrect == Spec => []LifecycleInv
<1>1. Init => LifecycleInv
  BY ZenonT(90) DEF Init, LifecycleInv, AssignedIsRegistered, EffectsAreAcknowledged,
         InFlightIsCurrent, InFlight, VerifiedIsBacked, VerifiedOnCurrentIncarnation,
         HolderIsAssigned
<1>2. TypeOK /\ LifecycleInv /\ [Next]_vars => LifecycleInv'
  BY LifecycleStep
<1> QED
  BY <1>1, <1>2, TypeCorrect, PTL DEF Spec

\* Late messages meet only attempts that no newer generation, incarnation or
\* epoch has superseded: register_flow, remove_flow, declare_target and restore
\* end every attempt they make stale.
THEOREM AttemptsAreCurrent == Spec => []InFlightIsCurrent
<1>1. LifecycleInv => InFlightIsCurrent
  BY DEF LifecycleInv
<1> QED
  BY <1>1, LifecycleCorrect, PTL

\* observe is the only way to Verified: the record of the attempt that produced a
\* verified effect is there, acknowledged and applied.
THEOREM VerifiedIsTrue == Spec => []VerifiedIsBacked
<1>1. LifecycleInv => VerifiedIsBacked
  BY DEF LifecycleInv
<1> QED
  BY <1>1, LifecycleCorrect, PTL

\* What is verified was observed in the incarnation its target runs now: a new
\* incarnation leaves nothing verified behind it (declare_target, observe).
THEOREM VerifiedIsCurrent == Spec => []VerifiedOnCurrentIncarnation
<1>1. LifecycleInv => VerifiedOnCurrentIncarnation
  BY DEF LifecycleInv
<1> QED
  BY <1>1, LifecycleCorrect, PTL

\* The holder table never names a flow that is gone, redefined or elsewhere.
THEOREM HoldersAreAssigned == Spec => []HolderIsAssigned
<1>1. LifecycleInv => HolderIsAssigned
  BY ZenonT(90) DEF LifecycleInv
<1> QED
  BY <1>1, LifecycleCorrect, PTL

\* In whatever order acknowledgements and reports arrive, or arrive again, an effect
\* is applied only after both executors have agreed (acknowledge, report_applied).
THEOREM EffectsFollowAgreement == Spec => []EffectsAreAcknowledged
<1>1. LifecycleInv => EffectsAreAcknowledged
  BY DEF LifecycleInv
<1> QED
  BY <1>1, LifecycleCorrect, PTL

\* No assignment outlives the generation of the flow it was decided for
\* (register_flow, remove_flow, place).
THEOREM AssignmentsAreRegistered == Spec => []AssignedIsRegistered
<1>1. LifecycleInv => AssignedIsRegistered
  BY ZenonT(90) DEF LifecycleInv
<1> QED
  BY <1>1, LifecycleCorrect, PTL

-----------------------------------------------------------------------------
(* Exclusive state, when every placement request decides one flow. *)

\* With one flow per request, place refuses a key that another flow holds, so
\* an assigned flow never loses its key to another one.
LEMMA AssignedHoldsStateStep ==
  ASSUME MaxBatch = 1, TypeOK, LifecycleInv, AssignedHoldsState, [Next]_vars
  PROVE  AssignedHoldsState'
<1> USE LifecycleAssumption
<1> USE DEF decisions, authority, attempts
<1>0. /\ HolderIsAssigned /\ AssignedIsRegistered /\ InFlightIsCurrent
      /\ assignments \in [DOMAIN assignments -> Assignment]
      /\ holders \in [DOMAIN holders -> StateHolder]
      /\ flows \in [DOMAIN flows -> FlowDescriptor]
  BY DEF LifecycleInv, TypeOK
<1>1. ASSUME UNCHANGED flows, DOMAIN assignments' = DOMAIN assignments,
             DOMAIN holders' = DOMAIN holders,
             \A k \in DOMAIN holders : holders'[k].flow = holders[k].flow
      PROVE  AssignedHoldsState'
  BY ZenonT(90), <1>1 DEF AssignedHoldsState, Stateful
<1>2. ASSUME UNCHANGED flows, NEW S, NEW e, assignments' = WithEffect(S, e),
             \/ UNCHANGED holders
             \/ \E A : holders' = ReleaseHandoff(A)
      PROVE  AssignedHoldsState'
  <2>1. DOMAIN assignments' = DOMAIN assignments
    BY ZenonT(90), <1>2 DEF WithEffect
  <2>2. /\ DOMAIN holders' = DOMAIN holders
        /\ \A k \in DOMAIN holders : holders'[k].flow = holders[k].flow
    BY ZenonT(90), <1>0, <1>2, ReleaseHandoffMovesNone
  <2> QED
    BY ZenonT(90), <1>1, <1>2, <2>1, <2>2
\* Flow f leaves with its assignment; no other flow is registered anew.
<1>3. ASSUME NEW f \in DOMAIN flows, assignments' = Erase(assignments, {f}),
             holders' = Erase(holders, HeldBy(f)),
             \A g \in DOMAIN flows \ {f} : g \in DOMAIN flows' /\ flows'[g] = flows[g]
      PROVE  AssignedHoldsState'
  BY <1>0, <1>3 DEF AssignedHoldsState, Stateful, Erase, HeldBy, AssignedIsRegistered
<1>4. ASSUME NEW f \in Flow, NEW d \in FlowDescriptors,
             RegisterNewFlow(f, d) \/ RegisterNewGeneration(f, d)
      PROVE  AssignedHoldsState'
  <2>1. CASE RegisterNewFlow(f, d)
    BY <1>0, <2>1 DEF RegisterNewFlow, Insert, AssignedHoldsState, Stateful,
         AssignedIsRegistered
  <2>2. CASE RegisterNewGeneration(f, d)
    BY ZenonT(90), <1>3, <2>2 DEF RegisterNewGeneration, Insert
  <2> QED
    BY ZenonT(90), <1>4, <2>1, <2>2
<1>5. ASSUME NEW f \in Flow, RemoveFlow(f)
      PROVE  AssignedHoldsState'
  <2>1. \A g \in DOMAIN flows \ {f} : g \in DOMAIN flows' /\ flows'[g] = flows[g]
    BY ZenonT(90), <1>5 DEF RemoveFlow, Erase
  <2>2. /\ f \in DOMAIN flows /\ assignments' = Erase(assignments, {f})
        /\ holders' = Erase(holders, HeldBy(f))
    BY ZenonT(90), <1>5 DEF RemoveFlow
  <2> QED
    BY ZenonT(90), <1>3, <2>1, <2>2
<1>6. ASSUME NEW t \in Target, NEW d \in Declarations,
             \/ DeclareNewTarget(t, d) \/ RedeclareTarget(t, d)
             \/ AdvanceCapability(t, d) \/ NewIncarnation(t, d)
      PROVE  AssignedHoldsState'
  <2>1. CASE DeclareNewTarget(t, d) \/ RedeclareTarget(t, d)
    BY ZenonT(90), <1>1, <2>1 DEF DeclareNewTarget, RedeclareTarget
  <2>2. CASE AdvanceCapability(t, d)
    BY ZenonT(90), <1>2, <2>2 DEF AdvanceCapability
  <2>3. CASE NewIncarnation(t, d)
    <3>1. UNCHANGED flows /\ DOMAIN assignments' = DOMAIN assignments
      BY ZenonT(90), <2>3 DEF NewIncarnation, WithEffect
    <3> QED
      BY <1>0, <1>1, <2>3, <3>1, NewIncarnationMovesNone
  <2> QED
    BY <1>6, <2>1, <2>2, <2>3
<1>7. ASSUME NEW t \in Target, RemoveTarget(t)
      PROVE  AssignedHoldsState'
  BY <1>2, <1>7 DEF RemoveTarget
<1>8. CASE \/ UNCHANGED vars
           \/ \E p \in Policies : SetPolicy(p)
           \/ \E g \in 1..MaxTopology : SetTopologyGeneration(g)
           \/ \E r \in recommendations : Authorize(r)
           \/ \E z \in authorizations : RevokeAuthorization(z)
           \/ ReopenInMemory
  BY ZenonT(90), <1>1, <1>8 DEF vars, SetPolicy, SetTopologyGeneration, Authorize,
       RevokeAuthorization, ReopenInMemory
<1>9. ASSUME NEW fs \in (SUBSET Flow) \ {{}}, Cardinality(fs) <= MaxBatch,
             NEW plan \in [fs -> Target], Place(plan)
      PROVE  AssignedHoldsState'
  <2>1. PICK f \in Flow : fs = {f}
    <3>1. PICK f \in fs : TRUE
      BY <1>9
    <3>2. IsFiniteSet(fs)
      BY ZenonT(90), FS_Subset
    <3>3. Cardinality({f}) = 1 /\ {f} \subseteq fs
      BY ZenonT(90), <3>1, FS_Singleton
    <3>4. Cardinality(fs) \in Nat
      BY ZenonT(90), <3>2, FS_CardinalityType
    <3>5. Cardinality({f}) = Cardinality(fs)
      <4>1. Cardinality({f}) <= Cardinality(fs)
        BY ZenonT(90), <3>2, <3>3, FS_Subset
      <4> QED
        BY <1>9, <3>3, <3>4, <4>1
    <3> QED
      BY ZenonT(90), <3>2, <3>3, <3>5, FS_Subset
  <2> DEFINE changed == Changed(plan)
             keys == KeysOf(changed)
  <2>2. /\ changed \subseteq {f} /\ f \in DOMAIN flows /\ ExclusiveStateFree(f)
        /\ UNCHANGED flows
        /\ DOMAIN assignments' = DOMAIN assignments \cup changed
    BY ZenonT(90), <1>9, <2>1 DEF Place, Changed
  <2>3. PICK last \in [keys -> changed] :
          holders' = [k \in DOMAIN holders \cup keys |->
                        IF k \in keys THEN PlacedHolder(last[k], plan)
                                      ELSE holders[k]]
    BY <1>9 DEF Place
  <2>4. \A k \in keys : k = flows[f].key /\ last[k] = f
    BY ZenonT(90), <2>2, <2>3 DEF KeysOf
  <2> HIDE DEF changed, keys
  <2>5. ASSUME NEW g \in DOMAIN assignments', Stateful(g)'
        PROVE  /\ flows'[g].key \in DOMAIN holders'
               /\ holders'[flows'[g].key].flow = g
    <3>1. flows'[g] = flows[g] /\ Stateful(g)
      BY ZenonT(90), <2>2, <2>5 DEF Stateful
    <3>2. CASE flows[g].key \in keys
      <4>1. flows[g].key = flows[f].key
        BY ZenonT(90), <2>4, <3>2
      <4>2. g = f
        <5>1. CASE g \in changed
          BY <2>2, <5>1
        <5>2. CASE g \in DOMAIN assignments
          BY ZenonT(90), <2>2, <3>1, <4>1, <5>2 DEF AssignedHoldsState, ExclusiveStateFree
        <5> QED
          BY ZenonT(90), <2>2, <2>5, <5>1, <5>2
      <4>3. holders'[flows[g].key] = PlacedHolder(last[flows[g].key], plan)
        BY ZenonT(90), <2>3, <3>2
      <4>4. holders'[flows[g].key] = PlacedHolder(f, plan)
        BY ZenonT(90), <2>4, <3>2, <4>3
      <4>5. PlacedHolder(f, plan).flow = f
        BY PlacedFields
      <4>6. flows[g].key \in DOMAIN holders'
        BY ZenonT(90), <2>3, <3>2
      <4> QED
        BY ZenonT(90), <3>1, <4>2, <4>4, <4>5, <4>6
    <3>3. CASE flows[g].key \notin keys
      <4>1. g \notin changed
        <5>1. flows[g].key # Stateless
          BY ZenonT(90), <3>1 DEF Stateful
        <5>2. keys = {flows[x].key : x \in changed} \ {Stateless}
          BY ZenonT(90) DEF KeysOf, keys
        <5> QED
          BY ZenonT(90), <3>3, <5>1, <5>2
      <4>2. g \in DOMAIN assignments
        BY ZenonT(90), <2>2, <2>5, <4>1
      <4> QED
        BY ZenonT(90), <2>3, <3>1, <3>3, <4>2 DEF AssignedHoldsState
    <3> QED
      BY ZenonT(90), <3>2, <3>3
  <2> QED
    BY ZenonT(90), <2>5 DEF AssignedHoldsState
<1>10. ASSUME NEW z \in authorizations, NEW t \in Target, IssueIntent(z, t)
       PROVE  AssignedHoldsState'
  <2>1. /\ z.flow \in DOMAIN flows /\ z.flow \in DOMAIN assignments
        /\ UNCHANGED flows /\ DOMAIN assignments' = DOMAIN assignments
        /\ holders' = IF Stateful(z.flow)
                      THEN Insert(holders, flows[z.flow].key, HandingOver(z.flow))
                      ELSE holders
    BY ZenonT(90), <1>10 DEF IssueIntent, AuthorizationCurrent, WithEffect
  <2> QED
    BY <2>1 DEF AssignedHoldsState, Stateful, Insert, HandingOver
<1>11. ASSUME NEW b \in DOMAIN migrations, NEW actor \in {"Source", "Destination"},
              Acknowledge(b, actor) \/ Decline(b, actor)
       PROVE  AssignedHoldsState'
  <2>1. CASE Acknowledge(b, actor)
    BY ZenonT(90), <1>2, <2>1 DEF Acknowledge
  <2>2. CASE Decline(b, actor)
    BY <1>0, <1>1, <2>2, ReleaseHandoffMovesNone DEF Decline
  <2> QED
    BY ZenonT(90), <1>11, <2>1, <2>2
<1>12. ASSUME NEW b \in DOMAIN migrations, ReportApplied(b) \/ AbortMigration(b)
       PROVE  AssignedHoldsState'
  BY ZenonT(90), <1>2, <1>12 DEF ReportApplied, AbortMigration
<1>13. ASSUME NEW f \in Flow, NEW b \in DOMAIN migrations, Observe(f, b)
       PROVE  AssignedHoldsState'
  <2>1. /\ migrations[b].flow = f /\ UNCHANGED flows
        /\ DOMAIN assignments' = DOMAIN assignments
        /\ holders' = IF f \in DOMAIN assignments \cap DOMAIN flows /\ Stateful(f)
                      THEN Insert(holders, flows[f].key, VerifiedHolder(migrations[b]))
                      ELSE holders
    BY ZenonT(90), <1>13 DEF Observe, InFlightOf
  <2> QED
    BY <2>1 DEF AssignedHoldsState, Stateful, Insert, VerifiedHolder
<1>14. ASSUME Restart
       PROVE  AssignedHoldsState'
  <2> DEFINE kept == DOMAIN assignments \cap DOMAIN flows
  <2>1. PICK last \in [KeysOf(kept) -> kept] :
          /\ LastByKey(kept, last)
          /\ holders' = [k \in KeysOf(kept) |-> RestoredHolder(last[k])]
    BY ZenonT(90), <1>14 DEF Restart
  <2>2. UNCHANGED flows /\ DOMAIN assignments' = DOMAIN assignments
    BY ZenonT(90), <1>14 DEF Restart, WithEffect
  <2>3. ASSUME NEW g \in DOMAIN assignments, Stateful(g)
        PROVE  /\ flows[g].key \in DOMAIN holders'
               /\ holders'[flows[g].key].flow = g
    <3>1. g \in kept /\ flows[g].key \in KeysOf(kept)
      BY ZenonT(90), <1>0, <2>3 DEF KeysOf, Stateful, AssignedIsRegistered
    <3>2. last[flows[g].key] \in kept /\ flows[last[flows[g].key]].key = flows[g].key
      BY ZenonT(90), <2>1, <3>1 DEF LastByKey
    <3>3. last[flows[g].key] = g
      BY ZenonT(90), <2>3, <3>2 DEF AssignedHoldsState, Stateful
    <3> QED
      BY ZenonT(90), <2>1, <3>1, <3>3 DEF RestoredHolder
  <2> QED
    BY ZenonT(90), <2>2, <2>3 DEF AssignedHoldsState, Stateful
<1> HIDE DEF decisions, authority, attempts
<1> QED
  BY <1>4, <1>5, <1>6, <1>7, <1>8, <1>9, <1>10, <1>11, <1>12, <1>13, <1>14 DEF Next

\* Every assigned flow with exclusive state holds it, through placements, releases,
\* hand-overs, declines and restarts, if every placement request decides a single flow.
THEOREM StateIsHeldForSingleRequests ==
  ASSUME MaxBatch = 1
  PROVE  Spec => []AssignedHoldsState
<1>1. Init => AssignedHoldsState
  BY DEF Init, AssignedHoldsState
<1>2. TypeOK /\ LifecycleInv /\ AssignedHoldsState /\ [Next]_vars => AssignedHoldsState'
  BY ZenonT(90), AssignedHoldsStateStep
<1> QED
  BY <1>1, <1>2, TypeCorrect, LifecycleCorrect, PTL DEF Spec

\* No double assignment of exclusive flow state, for any number of flows, targets
\* and keys, if every placement request decides a single flow.
THEOREM ExclusiveStateForSingleRequests ==
  ASSUME MaxBatch = 1
  PROVE  Spec => []ExclusiveState
<1>1. AssignedHoldsState => ExclusiveState
  BY DEF AssignedHoldsState, ExclusiveState, Stateful
<1>2. Spec => []AssignedHoldsState
  BY StateIsHeldForSingleRequests
<1> QED
  BY <1>1, <1>2, PTL

-----------------------------------------------------------------------------
(* Topology. *)

\* No target is of a topology newer than the current one.  Together with
\* UsableOnCurrentTopology this is inductive: every target that an advance leaves
\* behind is one it withdraws.
NoneAhead ==
  \A t \in DOMAIN targets : targets[t].topology_generation <= topology_generation

\* Recording a declaration keeps both.
LEMMA RecordTopology ==
  ASSUME TypeOK, NoneAhead, UsableOnCurrentTopology,
         NEW t \in Target, NEW d \in Declaration, Record(t, d)
  PROVE  NoneAhead' /\ UsableOnCurrentTopology'
<1> DEFINE ts == Insert(targets, t, Declared(d))
           g  == d.topology_generation
<1>0. /\ targets \in [DOMAIN targets -> TargetState] /\ topology_generation \in Nat
      /\ g \in Nat /\ g >= topology_generation /\ topology_generation' = g
      /\ Declared(d) \in TargetState /\ Declared(d).topology_generation = g
  BY ZenonT(90) DEF TypeOK, Record, Declared, Declaration, TargetState
<1>1. /\ ts \in [DOMAIN targets \cup {t} -> TargetState]
      /\ ts[t].topology_generation = g
      /\ \A u \in DOMAIN targets \ {t} : ts[u] = targets[u]
  BY <1>0 DEF Insert
<1>2. targets' = IF g > topology_generation THEN Withdraw(ts, g, {t}) ELSE ts
  BY DEF Record
<1> HIDE DEF ts
<1>3. \A u \in DOMAIN targets : targets[u].topology_generation \in Nat
  BY <1>0 DEF TargetState
<1>4. CASE g > topology_generation
  <2>1. targets' = Withdraw(ts, g, {t})
    BY <1>2, <1>4
  <2>2. ASSUME NEW u \in DOMAIN targets \cup {t}
        PROVE  /\ targets'[u].topology_generation = ts[u].topology_generation
               /\ u # t => ~targets'[u].declared
    <3>1. ts[u] \in TargetState
      BY <1>1
    <3>2. u # t => ts[u].topology_generation < g
      BY <1>0, <1>1, <1>3, <1>4 DEF NoneAhead
    <3>3. targets'[u] = IF u \notin {t} /\ ts[u].topology_generation < g
                        THEN [ts[u] EXCEPT !.declared = FALSE] ELSE ts[u]
      BY ZenonT(90), <1>1, <2>1 DEF Withdraw
    <3>4. QED
      BY <3>1, <3>2, <3>3 DEF TargetState
  <2>3. DOMAIN targets' = DOMAIN targets \cup {t}
    BY <1>1, <2>1 DEF Withdraw
  <2>4. NoneAhead'
    BY <1>0, <1>1, <1>3, <1>4, <2>2, <2>3 DEF NoneAhead
  <2>5. UsableOnCurrentTopology'
    BY <1>0, <1>1, <2>2, <2>3 DEF UsableOnCurrentTopology, Usable
  <2>6. QED
    BY <2>4, <2>5
<1>5. CASE ~(g > topology_generation)
  <2>1. targets' = ts /\ g = topology_generation /\ topology_generation' = topology_generation
    BY <1>0, <1>2, <1>5
  <2>2. DOMAIN targets' = DOMAIN targets \cup {t}
    BY <1>1, <2>1
  <2>3. NoneAhead'
    BY ZenonT(90), <1>0, <1>1, <2>1, <2>2 DEF NoneAhead
  <2>4. UsableOnCurrentTopology'
    BY ZenonT(90), <1>1, <2>1, <2>2 DEF UsableOnCurrentTopology, Usable
  <2>5. QED
    BY <2>3, <2>4
<1>6. QED
  BY ZenonT(90), <1>4, <1>5

\* So does every other step.
LEMMA TopologyStep ==
  ASSUME TypeOK, NoneAhead, UsableOnCurrentTopology, [Next]_vars
  PROVE  NoneAhead' /\ UsableOnCurrentTopology'
<1> USE LifecycleAssumption
<1>0. targets \in [DOMAIN targets -> TargetState] /\ topology_generation \in Nat
  BY ZenonT(90) DEF TypeOK
<1>1. ASSUME UNCHANGED <<topology_generation, targets>>
      PROVE  NoneAhead' /\ UsableOnCurrentTopology'
  BY <1>1 DEF NoneAhead, UsableOnCurrentTopology, Usable
<1>2. ASSUME NEW t \in Target, NEW d \in Declarations,
             \/ DeclareNewTarget(t, d) \/ RedeclareTarget(t, d)
             \/ AdvanceCapability(t, d) \/ NewIncarnation(t, d)
      PROVE  NoneAhead' /\ UsableOnCurrentTopology'
  <2>1. Record(t, d) /\ d \in Declaration
    BY ZenonT(90), <1>2 DEF DeclareNewTarget, RedeclareTarget, AdvanceCapability, NewIncarnation
  <2>2. QED
    BY <2>1, RecordTopology
<1>3. ASSUME NEW t \in Target, RemoveTarget(t)
      PROVE  NoneAhead' /\ UsableOnCurrentTopology'
  <2>1. /\ targets' = [targets EXCEPT ![t].declared = TRUE, ![t].lifecycle = "NotReady"]
        /\ UNCHANGED topology_generation /\ t \in DOMAIN targets
    BY <1>3 DEF RemoveTarget
  <2>2. /\ DOMAIN targets' = DOMAIN targets
        /\ \A u \in DOMAIN targets :
             /\ targets'[u].topology_generation = targets[u].topology_generation
             /\ u # t => targets'[u] = targets[u]
        /\ targets'[t].lifecycle = "NotReady"
    BY ZenonT(90), <1>0, <2>1 DEF TargetState
  <2>3. QED
    BY <2>1, <2>2 DEF NoneAhead, UsableOnCurrentTopology, Usable
<1>4. ASSUME NEW g \in 1..MaxTopology, SetTopologyGeneration(g)
      PROVE  NoneAhead' /\ UsableOnCurrentTopology'
  <2>1. /\ g > topology_generation /\ topology_generation' = g
        /\ targets' = Withdraw(targets, g, {})
    BY <1>4 DEF SetTopologyGeneration
  <2>2. ASSUME NEW u \in DOMAIN targets
        PROVE  /\ targets'[u].topology_generation = targets[u].topology_generation
               /\ targets'[u].topology_generation \in Nat
               /\ targets'[u].topology_generation <= g /\ ~targets'[u].declared
    <3>1. targets[u] \in TargetState /\ targets[u].topology_generation \in Nat
      BY <1>0 DEF TargetState
    <3>2. targets[u].topology_generation < g
      BY <1>0, <2>1, <3>1 DEF NoneAhead
    <3>3. targets'[u] = [targets[u] EXCEPT !.declared = FALSE]
      BY <2>1, <3>2 DEF Withdraw
    <3>4. QED
      BY <3>1, <3>2, <3>3 DEF TargetState
  <2>3. DOMAIN targets' = DOMAIN targets
    BY <2>1 DEF Withdraw
  <2>4. QED
    BY ZenonT(90), <2>1, <2>2, <2>3 DEF NoneAhead, UsableOnCurrentTopology, Usable
<1>5. ASSUME Restart
      PROVE  NoneAhead' /\ UsableOnCurrentTopology'
  <2>1. /\ UNCHANGED topology_generation
        /\ targets' = [t \in DOMAIN targets |->
                         [targets[t] EXCEPT !.declared = FALSE, !.lifecycle = "NotReady"]]
    BY ZenonT(90), <1>5 DEF Restart
  <2>2. /\ DOMAIN targets' = DOMAIN targets
        /\ \A u \in DOMAIN targets :
             /\ targets'[u].topology_generation = targets[u].topology_generation
             /\ ~targets'[u].declared
    BY ZenonT(90), <1>0, <2>1 DEF TargetState
  <2>3. QED
    BY ZenonT(90), <2>1, <2>2 DEF NoneAhead, UsableOnCurrentTopology, Usable
<1>6. CASE \/ \E f \in Flow, d \in FlowDescriptors :
                RegisterNewFlow(f, d) \/ RegisterNewGeneration(f, d)
           \/ \E f \in Flow : RemoveFlow(f)
           \/ \E p \in Policies : SetPolicy(p)
           \/ \E fs \in SUBSET Flow : \E plan \in [fs -> Target] : Place(plan)
           \/ \E r \in recommendations : Authorize(r)
           \/ \E z \in authorizations : RevokeAuthorization(z)
           \/ \E z \in authorizations, t \in Target : IssueIntent(z, t)
  BY ZenonT(90), <1>1, <1>6 DEF RegisterNewFlow, RegisterNewGeneration, RemoveFlow, SetPolicy,
     Place, Authorize, RevokeAuthorization, IssueIntent
<1>7. CASE \/ \E a \in DOMAIN migrations, actor \in {"Source", "Destination"} :
                Acknowledge(a, actor) \/ Decline(a, actor)
           \/ \E a \in DOMAIN migrations : ReportApplied(a) \/ AbortMigration(a)
           \/ \E f \in Flow, a \in DOMAIN migrations : Observe(f, a)
           \/ ReopenInMemory
  BY ZenonT(90), <1>1, <1>7 DEF Acknowledge, Decline, ReportApplied, AbortMigration, Observe,
     ReopenInMemory
<1>8. CASE UNCHANGED vars
  BY <1>1, <1>8 DEF vars
<1>9. QED
  BY ZenonT(90), <1>2, <1>3, <1>4, <1>5, <1>6, <1>7, <1>8 DEF Next

\* Whatever is declared, removed, advanced or restarted, a target that may be given
\* flows was declared under the current topology (declare_target, remove_target,
\* set_topology_generation, restore_locked).
THEOREM UsableIsCurrent == Spec => []UsableOnCurrentTopology
<1>1. Init => NoneAhead /\ UsableOnCurrentTopology
  BY DEF Init, NoneAhead, UsableOnCurrentTopology, Usable
<1>2. TypeOK /\ (NoneAhead /\ UsableOnCurrentTopology) /\ [Next]_vars
        => (NoneAhead /\ UsableOnCurrentTopology)'
  BY ZenonT(90), TopologyStep
<1>3. QED
  BY <1>1, <1>2, TypeCorrect, PTL DEF Spec

-----------------------------------------------------------------------------
(* Authority. *)

\* No authorization is of a schedule or a policy newer than the current one, so that
\* publishing either retires every authorization there is.
NoAuthorityAhead ==
  \A z \in authorizations : /\ z.schedule_generation <= schedule_generation
                            /\ z.policy_generation <= policy.generation

\* Flow f has completed a migration in this epoch.
CompletedHere(f) ==
  \E a \in DOMAIN migrations :
    /\ migrations[a].flow = f /\ migrations[a].phase = "Completed"
    /\ migrations[a].epoch = epoch

AuthorityInv == NoAuthorityAhead /\ AuthorityFollowsAssignment

\* A step that moves flows only by completing migrations, and leaves the generations
\* and the authorizations alone, keeps authority where it belongs.
LEMMA AuthorityFramed ==
  ASSUME TypeOK, AuthorityInv, [Next]_vars,
         UNCHANGED <<epoch, policy, schedule_generation, authorizations>>,
         \A f \in DOMAIN assignments' \cap DOMAIN flows' :
           /\ f \in DOMAIN assignments \cap DOMAIN flows
           /\ flows'[f].generation = flows[f].generation
           /\ assignments'[f].target = assignments[f].target \/ CompletedHere(f)'
  PROVE  AuthorityInv'
<1>1. NoAuthorityAhead'
  BY ZenonT(90) DEF AuthorityInv, NoAuthorityAhead
<1>2. \A f : CompletedHere(f) => CompletedHere(f)'
  BY TerminalStep DEF CompletedHere, Terminal
<1>3. ASSUME NEW z \in authorizations', AuthorizationCurrent(z)'
      PROVE  assignments'[z.flow].target = z.target \/ CompletedHere(z.flow)'
  <2>1. z \in authorizations /\ z.flow \in DOMAIN assignments' \cap DOMAIN flows'
    BY ZenonT(90), <1>3 DEF AuthorizationCurrent
  <2>2. AuthorizationCurrent(z)
    BY ZenonT(90), <1>3, <2>1 DEF AuthorizationCurrent
  <2>3. assignments[z.flow].target = z.target \/ CompletedHere(z.flow)
    BY ZenonT(90), <2>1, <2>2 DEF AuthorityInv, AuthorityFollowsAssignment, CompletedHere
  <2>4. QED
    BY ZenonT(90), <1>2, <2>1, <2>3
<1>4. AuthorityFollowsAssignment'
  BY <1>3 DEF AuthorityFollowsAssignment, CompletedHere
<1>5. QED
  BY ZenonT(90), <1>1, <1>4 DEF AuthorityInv

\* A step after which no authorization is current keeps it too.
LEMMA AuthorityRetired ==
  ASSUME NoAuthorityAhead', \A z \in authorizations' : ~AuthorizationCurrent(z)'
  PROVE  AuthorityInv'
BY DEF AuthorityInv, AuthorityFollowsAssignment

\* A placement that changes an assignment publishes a schedule generation that no
\* authorization has.
LEMMA PlaceAuthority ==
  ASSUME TypeOK, AuthorityInv, [Next]_vars,
         NEW fs \in SUBSET Flow, NEW plan \in [fs -> Target], Place(plan)
  PROVE  AuthorityInv'
<1>1. /\ UNCHANGED <<epoch, policy, flows, authorizations>>
      /\ schedule_generation' = Published(plan)
      /\ assignments' = [f \in DOMAIN assignments \cup Changed(plan) |->
                           IF f \in Changed(plan) THEN AssignmentFor(f, plan)
                                                  ELSE assignments[f]]
  BY ZenonT(90) DEF Place
<1>2. CASE Changed(plan) = {}
  <2>1. UNCHANGED <<schedule_generation, assignments>>
    BY <1>1, <1>2 DEF Published, TypeOK
  <2>2. QED
    BY ZenonT(90), <1>1, <2>1, AuthorityFramed
<1>3. CASE Changed(plan) # {}
  <2>1. schedule_generation \in Nat /\ schedule_generation' = schedule_generation + 1
    BY ZenonT(90), <1>1, <1>3 DEF Published, TypeOK
  <2>2. \A z \in authorizations : z.schedule_generation \in Nat
    BY DEF TypeOK, Authorization
  <2>3. \A z \in authorizations' : /\ z.schedule_generation # schedule_generation'
                                  /\ z.schedule_generation <= schedule_generation'
    BY <1>1, <2>1, <2>2 DEF AuthorityInv, NoAuthorityAhead
  <2>4. NoAuthorityAhead'
    BY ZenonT(90), <1>1, <2>3 DEF AuthorityInv, NoAuthorityAhead
  <2>5. \A z \in authorizations' : ~AuthorizationCurrent(z)'
    BY ZenonT(90), <2>3 DEF AuthorizationCurrent
  <2>6. QED
    BY ZenonT(90), <2>4, <2>5, AuthorityRetired
<1>4. QED
  BY <1>2, <1>3

\* An authorization is granted where its recommendation says, for the current
\* generations, and history only drops authorizations.
LEMMA AuthorizeAuthority ==
  ASSUME TypeOK, AuthorityInv, [Next]_vars, NEW r \in recommendations, Authorize(r)
  PROVE  AuthorityInv'
<1>1. /\ UNCHANGED <<epoch, policy, schedule_generation, flows, assignments, migrations>>
      /\ RecommendationCurrent(r)
      /\ \A z \in authorizations' : z \in authorizations \/ z = Grant(r)
  BY ZenonT(90), NewestSubset DEF Authorize, decisions, attempts
<1>2. assignments[r.flow].target = r.target
  BY ZenonT(90), <1>1 DEF RecommendationCurrent
<1>3. /\ Grant(r).flow = r.flow /\ Grant(r).target = r.target
      /\ Grant(r).schedule_generation = schedule_generation
      /\ Grant(r).policy_generation = policy.generation
  BY DEF Grant
<1>4. schedule_generation \in Nat /\ policy.generation \in Nat
  BY ZenonT(90) DEF TypeOK, Policy
<1>5. NoAuthorityAhead'
  <2>1. schedule_generation <= schedule_generation /\ policy.generation <= policy.generation
    BY <1>4
  <2>2. QED
    BY ZenonT(90), <1>1, <1>3, <2>1 DEF AuthorityInv, NoAuthorityAhead
<1>6. ASSUME NEW z \in authorizations', AuthorizationCurrent(z)'
      PROVE  assignments'[z.flow].target = z.target \/ CompletedHere(z.flow)'
  <2>1. CASE z = Grant(r)
    BY ZenonT(90), <1>1, <1>2, <1>3, <2>1
  <2>2. CASE z \in authorizations
    BY ZenonT(90), <1>1, <1>6, <2>2
       DEF AuthorityInv, AuthorityFollowsAssignment, AuthorizationCurrent, CompletedHere
  <2>3. QED
    BY ZenonT(90), <1>1, <2>1, <2>2
<1>7. QED
  BY <1>5, <1>6 DEF AuthorityInv, AuthorityFollowsAssignment, CompletedHere

\* Every step keeps it.
LEMMA AuthorityStep ==
  ASSUME TypeOK, LifecycleInv, AuthorityInv, [Next]_vars
  PROVE  AuthorityInv'
<1> USE LifecycleAssumption
<1>0. /\ assignments \in [DOMAIN assignments -> Assignment]
      /\ AssignedIsRegistered /\ InFlightIsCurrent
  BY ZenonT(90) DEF TypeOK, LifecycleInv
<1>1. ASSUME UNCHANGED <<epoch, policy, schedule_generation, authorizations, flows>>,
             NEW S, NEW e, assignments' = WithEffect(S, e)
      PROVE  AuthorityInv'
  BY <1>0, <1>1, WithEffectMovesNone, AuthorityFramed
<1>2. ASSUME UNCHANGED <<epoch, policy, schedule_generation, authorizations, flows,
                         assignments>>
      PROVE  AuthorityInv'
  BY ZenonT(90), <1>2, AuthorityFramed
<1>3. ASSUME NEW f \in Flow, NEW d \in FlowDescriptors, RegisterNewFlow(f, d)
      PROVE  AuthorityInv'
  <2>1. /\ UNCHANGED <<epoch, policy, schedule_generation, authorizations, assignments>>
        /\ flows' = Insert(flows, f, d) /\ f \notin DOMAIN assignments
    BY ZenonT(90), <1>0, <1>3 DEF RegisterNewFlow, decisions, authority, AssignedIsRegistered
  <2>2. QED
    BY ZenonT(90), <2>1, AuthorityFramed DEF Insert
<1>4. ASSUME NEW f \in Flow, NEW d \in FlowDescriptors, RegisterNewGeneration(f, d)
      PROVE  AuthorityInv'
  <2>1. /\ UNCHANGED <<epoch, policy, schedule_generation, authorizations>>
        /\ flows' = Insert(flows, f, d) /\ assignments' = Erase(assignments, {f})
    BY ZenonT(90), <1>4 DEF RegisterNewGeneration, authority
  <2>2. QED
    BY <2>1, AuthorityFramed DEF Insert, Erase
<1>5. ASSUME NEW f \in Flow, RemoveFlow(f)
      PROVE  AuthorityInv'
  <2>1. /\ UNCHANGED <<epoch, policy, schedule_generation, authorizations>>
        /\ flows' = Erase(flows, {f}) /\ assignments' = Erase(assignments, {f})
    BY <1>5 DEF RemoveFlow, authority
  <2>2. QED
    BY ZenonT(90), <2>1, AuthorityFramed DEF Erase
<1>6. ASSUME NEW t \in Target, NEW d \in Declarations,
             \/ DeclareNewTarget(t, d) \/ RedeclareTarget(t, d)
             \/ AdvanceCapability(t, d) \/ NewIncarnation(t, d)
      PROVE  AuthorityInv'
  <2>1. CASE DeclareNewTarget(t, d) \/ RedeclareTarget(t, d)
    BY ZenonT(90), <1>2, <2>1 DEF DeclareNewTarget, RedeclareTarget, decisions, authority
  <2>2. CASE AdvanceCapability(t, d) \/ NewIncarnation(t, d)
    BY ZenonT(90), <1>1, <2>2 DEF AdvanceCapability, NewIncarnation, authority
  <2>3. QED
    BY <1>6, <2>1, <2>2
<1>7. ASSUME NEW t \in Target, RemoveTarget(t)
      PROVE  AuthorityInv'
  BY ZenonT(90), <1>1, <1>7 DEF RemoveTarget, authority
<1>8. ASSUME NEW p \in Policies, SetPolicy(p)
      PROVE  AuthorityInv'
  <2>1. /\ UNCHANGED <<epoch, schedule_generation, authorizations>>
        /\ policy' = p /\ p.generation > policy.generation
    BY ZenonT(90), <1>8 DEF SetPolicy, decisions, authority
  <2>2. policy.generation \in Nat /\ p.generation \in Nat
        /\ \A z \in authorizations : z.policy_generation \in Nat
    BY DEF TypeOK, Policy, Authorization
  <2>3. NoAuthorityAhead'
    BY <2>1, <2>2 DEF AuthorityInv, NoAuthorityAhead
  <2>4. \A z \in authorizations' : z.policy_generation # policy'.generation
    BY <2>1, <2>2 DEF AuthorityInv, NoAuthorityAhead
  <2>5. \A z \in authorizations' : ~AuthorizationCurrent(z)'
    BY <2>4 DEF AuthorizationCurrent
  <2>6. QED
    BY ZenonT(90), <2>3, <2>5, AuthorityRetired
<1>9. ASSUME NEW g \in 1..MaxTopology, SetTopologyGeneration(g)
      PROVE  AuthorityInv'
  BY ZenonT(90), <1>2, <1>9 DEF SetTopologyGeneration, decisions, authority
<1>10. ASSUME NEW z \in authorizations, RevokeAuthorization(z)
       PROVE  AuthorityInv'
  <2>1. /\ UNCHANGED <<epoch, policy, schedule_generation, flows, assignments, migrations>>
        /\ authorizations' = (authorizations \ {z}) \cup {[z EXCEPT !.granted = FALSE]}
    BY ZenonT(90), <1>10 DEF RevokeAuthorization, decisions, attempts
  <2>2. z \in Authorization
    BY DEF TypeOK
  <2>3. /\ [z EXCEPT !.granted = FALSE].granted = FALSE
        /\ [z EXCEPT !.granted = FALSE].schedule_generation = z.schedule_generation
        /\ [z EXCEPT !.granted = FALSE].policy_generation = z.policy_generation
    BY <2>2 DEF Authorization
  <2>4. NoAuthorityAhead'
    BY ZenonT(90), <2>1, <2>3 DEF AuthorityInv, NoAuthorityAhead
  <2>5. ASSUME NEW y \in authorizations', AuthorizationCurrent(y)'
        PROVE  y \in authorizations /\ AuthorizationCurrent(y)
    BY ZenonT(90), <2>1, <2>3, <2>5 DEF AuthorizationCurrent
  <2>6. QED
    BY <2>1, <2>4, <2>5 DEF AuthorityInv, AuthorityFollowsAssignment
<1>11. ASSUME NEW z \in authorizations, NEW t \in Target, IssueIntent(z, t)
       PROVE  AuthorityInv'
  BY ZenonT(90), <1>1, <1>11 DEF IssueIntent, authority
<1>12. ASSUME NEW b \in DOMAIN migrations, NEW actor \in {"Source", "Destination"},
              Acknowledge(b, actor) \/ Decline(b, actor)
       PROVE  AuthorityInv'
  BY ZenonT(90), <1>1, <1>2, <1>12 DEF Acknowledge, Decline, authority
<1>13. ASSUME NEW b \in DOMAIN migrations, ReportApplied(b) \/ AbortMigration(b)
       PROVE  AuthorityInv'
  BY ZenonT(90), <1>1, <1>13 DEF ReportApplied, AbortMigration, authority
<1>14. ASSUME NEW f \in Flow, NEW b \in DOMAIN migrations, Observe(f, b)
       PROVE  AuthorityInv'
  <2>1. /\ UNCHANGED <<epoch, policy, schedule_generation, authorizations, flows>>
        /\ migrations' = EndAttempts({b}, "Completed") /\ InFlightOf(f) = {b}
        /\ assignments' = [g \in DOMAIN assignments |->
                             IF g = f THEN VerifiedAssignment(assignments[f], migrations[b])
                                      ELSE assignments[g]]
    BY ZenonT(90), <1>14 DEF Observe, authority
  <2>2. migrations[b].flow = f /\ migrations[b].epoch = epoch
    BY ZenonT(90), <1>0, <2>1 DEF InFlightOf, InFlightIsCurrent
  <2>3. migrations[b] \in MigrationRecord
    BY DEF TypeOK
  <2>4. /\ b \in DOMAIN migrations' /\ migrations'[b].flow = f
        /\ migrations'[b].phase = "Completed" /\ migrations'[b].epoch = epoch'
    BY ZenonT(90), <2>1, <2>2, <2>3 DEF EndAttempts, MigrationRecord
  <2>5. CompletedHere(f)'
    BY <2>4 DEF CompletedHere
  <2>6. QED
    BY ZenonT(90), <2>1, <2>5, AuthorityFramed
<1>15. ASSUME Restart
       PROVE  AuthorityInv'
  <2>1. authorizations' = {}
    BY ZenonT(90), <1>15 DEF Restart
  <2>2. QED
    BY <2>1, AuthorityRetired DEF NoAuthorityAhead
<1>16. ASSUME ReopenInMemory
       PROVE  AuthorityInv'
  <2>1. epoch' = epoch
    BY <1>16 DEF ReopenInMemory, LifecycleInv
  <2>2. QED
    BY ZenonT(90), <1>2, <1>16, <2>1 DEF ReopenInMemory, decisions, authority
<1>17. CASE UNCHANGED vars
  BY ZenonT(90), <1>2, <1>17 DEF vars, decisions, authority
<1>18. ASSUME NEW fs \in SUBSET Flow, NEW plan \in [fs -> Target], Place(plan)
       PROVE  AuthorityInv'
  BY <1>18, PlaceAuthority
<1>19. ASSUME NEW r \in recommendations, Authorize(r)
       PROVE  AuthorityInv'
  BY <1>19, AuthorizeAuthority
<1>20. CASE \/ \E f \in Flow, d \in FlowDescriptors :
                 RegisterNewFlow(f, d) \/ RegisterNewGeneration(f, d)
            \/ \E f \in Flow : RemoveFlow(f)
            \/ \E t \in Target, d \in Declarations :
                 \/ DeclareNewTarget(t, d) \/ RedeclareTarget(t, d)
                 \/ AdvanceCapability(t, d) \/ NewIncarnation(t, d)
            \/ \E t \in Target : RemoveTarget(t)
            \/ \E p \in Policies : SetPolicy(p)
            \/ \E g \in 1..MaxTopology : SetTopologyGeneration(g)
  BY ZenonT(90), <1>3, <1>4, <1>5, <1>6, <1>7, <1>8, <1>9, <1>20
<1>21. CASE \/ \E fs \in (SUBSET Flow) \ {{}} :
                 /\ Cardinality(fs) <= MaxBatch
                 /\ \E plan \in [fs -> Target] : Place(plan)
            \/ \E r \in recommendations : Authorize(r)
            \/ \E z \in authorizations : RevokeAuthorization(z)
            \/ \E z \in authorizations, t \in Target : IssueIntent(z, t)
  BY ZenonT(90), <1>10, <1>11, <1>18, <1>19, <1>21
<1>22. CASE \/ \E a \in DOMAIN migrations, actor \in {"Source", "Destination"} :
                 Acknowledge(a, actor) \/ Decline(a, actor)
            \/ \E a \in DOMAIN migrations : ReportApplied(a) \/ AbortMigration(a)
            \/ \E f \in Flow, a \in DOMAIN migrations : Observe(f, a)
            \/ Restart \/ ReopenInMemory
  BY ZenonT(90), <1>12, <1>13, <1>14, <1>15, <1>16, <1>22
<1>23. QED
  BY ZenonT(90), <1>17, <1>20, <1>21, <1>22 DEF Next

\* An authorization that still lets an intent be issued names the target its flow is
\* on, unless the flow has completed a migration since: a placement, a policy or a
\* restart retires it (authorize, issue_intent, place, set_policy).
THEOREM AuthorityIsCurrent == Spec => []AuthorityFollowsAssignment
<1>1. Init => AuthorityInv
  BY DEF Init, AuthorityInv, NoAuthorityAhead, AuthorityFollowsAssignment
<1>2. TypeOK /\ LifecycleInv /\ AuthorityInv /\ [Next]_vars => AuthorityInv'
  BY AuthorityStep
<1>3. AuthorityInv => AuthorityFollowsAssignment
  BY DEF AuthorityInv
<1>4. QED
  BY <1>1, <1>2, <1>3, TypeCorrect, LifecycleCorrect, PTL DEF Spec

=============================================================================
