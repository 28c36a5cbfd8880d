--------------------- MODULE ReplicaSetControllerProofs ---------------------
(***************************************************************************)
(* Theorems about ReplicaSetController, for every value of its constants:  *)
(* any number of members and arbiters, any set of user specs, and any      *)
(* number of edits, crashes, faults and stale reads.                       *)
(***************************************************************************)
EXTENDS ReplicaSetController, TLAPS

-----------------------------------------------------------------------------
(***************************************************************************)
(* What the scalers compute.                                               *)
(***************************************************************************)
\* ReplicasThisReconciliation stays between the current and the desired count
\* and, unless it starts from zero, moves by at most one replica.
LEMMA ScalerStep ==
  ASSUME NEW c \in Counts, NEW d \in Counts, NEW f \in BOOLEAN
  PROVE  /\ ReplicasThisReconciliation(Scaler(c, d, f)) \in Counts
         /\ c > 0 => ReplicasThisReconciliation(Scaler(c, d, f)) \in c - 1 .. c + 1
         /\ c = d => ReplicasThisReconciliation(Scaler(c, d, f)) = d
  BY MaxMembersAssumption DEF ReplicasThisReconciliation, Scaler, IsScalingDown, Counts

\* The counts of one reconciliation are counts, and so are the status it
\* reports and the config it builds.
LEMMA ThisReconciliationType ==
  ASSUME NEW m \in Resources
  PROVE  /\ StatefulSetReplicasThisReconciliation(m) \in Counts
         /\ StatefulSetArbitersThisReconciliation(m) \in Counts
         /\ AutomationConfigMembersThisReconciliation(m) \in Counts
         /\ AutomationConfigArbitersThisReconciliation(m) \in Counts
         /\ NextStatus(m) \in Statuses
         /\ BuiltContent(m) \in Contents
<1>1. /\ m.status.mdbMembers \in Counts /\ m.status.mdbArbiters \in Counts
      /\ m.status.stsReplicas \in Counts /\ m.status.stsArbiters \in Counts
      /\ m.spec.members \in Counts /\ m.spec.arbiters \in Counts
      /\ m.spec.version \in Versions \cup {NoVersion} /\ m.spec.tls \in BOOLEAN
  BY DEF Resources, Statuses, Specs
<1>2. /\ StatefulSetReplicasThisReconciliation(m) \in Counts
      /\ StatefulSetArbitersThisReconciliation(m) \in Counts
      /\ AutomationConfigMembersThisReconciliation(m) \in Counts
      /\ AutomationConfigArbitersThisReconciliation(m) \in Counts
  BY <1>1, ScalerStep
     DEF StatefulSetReplicasThisReconciliation, StatefulSetArbitersThisReconciliation,
         AutomationConfigMembersThisReconciliation, MembersScaler, ArbitersScaler,
         AutomationConfigArbitersThisReconciliation
<1>3. NextStatus(m) \in Statuses
  BY <1>2 DEF NextStatus, Statuses, Phases
<1>4. BuiltContent(m) \in Contents
  BY <1>1, <1>2 DEF BuiltContent, Contents
<1>5. QED
  BY <1>2, <1>3, <1>4

\* While the two member counters of the status agree, the report recomputes
\* what buildAutomationConfig put into the config.
LEMMA ReportedCountsAreBuilt ==
  ASSUME NEW m \in Resources, m.status.mdbMembers = m.status.stsReplicas
  PROVE  /\ NextStatus(m).mdbMembers = NextStatus(m).stsReplicas
         /\ BuiltContent(m).members = NextStatus(m).mdbMembers
         /\ BuiltContent(m).arbiters = NextStatus(m).mdbArbiters
<1>1. AutomationConfigMembersThisReconciliation(m)
        = StatefulSetReplicasThisReconciliation(m)
  BY DEF AutomationConfigMembersThisReconciliation,
         StatefulSetReplicasThisReconciliation, MembersScaler
<1>2. AutomationConfigMembersThisReconciliation(m) \in Counts /\ m.spec.members \in Counts
  BY ThisReconciliationType DEF Resources, Specs
<1>3. AutomationConfigMembersThisReconciliation(m) < m.spec.members
        => AutomationConfigArbitersThisReconciliation(m) = m.status.mdbArbiters
  <2>1. SUFFICES ASSUME AutomationConfigMembersThisReconciliation(m) < m.spec.members
                 PROVE  IsStillScaling(MembersScaler(m))
    BY DEF AutomationConfigArbitersThisReconciliation
  <2>2. StatefulSetReplicasThisReconciliation(m) # m.spec.members
    BY <1>1, <1>2, <2>1, MaxMembersAssumption DEF Counts
  <2>3. MembersScaler(m).desired = m.spec.members
    BY DEF MembersScaler, Scaler
  <2>4. QED
    BY <2>2, <2>3 DEF IsStillScaling, StatefulSetReplicasThisReconciliation
<1>4. QED
  BY <1>1, <1>3 DEF NextStatus, BuiltContent

-----------------------------------------------------------------------------
(***************************************************************************)
(* Types.                                                                  *)
(***************************************************************************)
\* The parts of a resource have their types, and replacing one part of it (what
\* Store is called with) gives a resource again.
LEMMA ResourceUpdates ==
  ASSUME NEW m \in Resources
  PROVE  /\ m.spec \in Specs /\ m.status \in Statuses /\ m.lastApplied \in Specs
         /\ \A spec \in Specs : [m EXCEPT !.spec = spec] \in Resources
         /\ \A spec \in Specs : [m EXCEPT !.lastApplied = spec] \in Resources
         /\ \A st \in Statuses : [m EXCEPT !.status = st] \in Resources
         /\ \A ph \in Phases : [m EXCEPT !.status.phase = ph] \in Resources
  BY DEF Resources, Statuses

\* A resource as created is a resource, and so is the blank copy.
LEMMA NewResources ==
  /\ Blank \in Resources
  /\ \A spec \in Specs : NewResource(spec) \in Resources
<1>1. 0 \in Counts
  BY MaxMembersAssumption DEF Counts
<1>2. NewStatus \in Statuses /\ NoSpec \in Specs
  BY <1>1 DEF NewStatus, Statuses, Phases, NoSpec, Specs
<1>3. QED
  BY <1>2 DEF NewResource, Resources, Blank

\* The type of the copies of the resource and of the flags of the controller.
ControllerTypeOK ==
  /\ mdb \in Resources /\ oldMdb \in Resources /\ snap \in Resources
  /\ fresh \in BOOLEAN /\ queued \in BOOLEAN /\ inOrder \in BOOLEAN
  /\ pc \in PCs

\* Storing a resource keeps the two copies of it resources.
LEMMA StoreType ==
  ASSUME mdb \in Resources, oldMdb \in Resources, NEW m \in Resources, Store(m)
  PROVE  mdb' \in Resources /\ oldMdb' \in Resources
  BY DEF Store

\* The end of a reconciliation leaves well-typed values behind.
LEMMA EndType ==
  ASSUME TypeOK, NEW requeue \in BOOLEAN, EndReconcile(requeue)
  PROVE  /\ snap' \in Resources /\ fresh' \in BOOLEAN /\ queued' \in BOOLEAN
         /\ inOrder' \in BOOLEAN /\ pc' \in PCs
  BY NewResources DEF EndReconcile, TypeOK, PCs

\* So does ending it with a Failed or Pending phase (status.Update).
LEMMA EndWithPhaseType ==
  ASSUME TypeOK, NEW phase \in Phases, EndWithPhase(phase)
  PROVE  ControllerTypeOK'
<1>1. mdb' \in Resources /\ oldMdb' \in Resources
  BY StoreType, ResourceUpdates DEF EndWithPhase, TypeOK
<1>2. QED
  BY <1>1, EndType DEF EndWithPhase, ControllerTypeOK

\* The type of the counters of the bounds.
UsedType == [edits : 0 .. MaxEdits, crashes : 0 .. MaxCrashes,
             faults : 0 .. MaxFaults, stale : 0 .. MaxStaleReads]

\* Using up one unit of a bound that is not exhausted keeps that type.
LEMMA UsedStep ==
  ASSUME used \in UsedType
  PROVE  /\ used.edits < MaxEdits => [used EXCEPT !.edits = @ + 1] \in UsedType
         /\ used.crashes < MaxCrashes => [used EXCEPT !.crashes = @ + 1] \in UsedType
         /\ used.stale < MaxStaleReads => [used EXCEPT !.stale = @ + 1] \in UsedType
         /\ Fault => used' \in UsedType
  BY BoundsAssumption DEF UsedType, Fault

\* The types of a StatefulSet, of a pod and of the config secret, as TypeOK
\* spells them out.
StatefulSetType ==
  [exists : BOOLEAN, replicas : Counts, template : Templates,
   strategy : {"RollingUpdate", "OnDelete"}, observed : BOOLEAN]

PodType ==
  [up : BOOLEAN, template : Templates,
   probe : {"notReady", "ready", "waiting"}, annotation : Nat]

ConfigType == [version : Nat, content : Contents]

\* What createOrUpdateStatefulSet writes is a StatefulSet.
LEMMA DesiredStatefulSetType ==
  ASSUME NEW current \in StatefulSetType, NEW m \in Resources, NEW n \in Counts
  PROVE  DesiredStatefulSet(current, m, n) \in StatefulSetType
<1>1. m.spec.version \in Versions \cup {NoVersion} /\ m.spec.tls \in BOOLEAN
  BY DEF Resources, Specs
<1>2. GetUpdateStrategyType(m) \in {"RollingUpdate", "OnDelete"}
  BY DEF GetUpdateStrategyType
<1>3. QED
  BY <1>1, <1>2 DEF DesiredStatefulSet, StatefulSetType, Templates

\* What EnsureSecret stores is a config.
LEMMA EnsureSecretType ==
  ASSUME NEW c \in ConfigType, NEW m \in Resources
  PROVE  EnsureSecret(c, BuildAutomationConfig(c, m)) \in ConfigType
<1>1. [BuiltContent(m) EXCEPT !.override = m.spec.override] \in Contents
  BY ThisReconciliationType, ResourceUpdates DEF Contents, Specs
<1>2. QED
  BY <1>1 DEF EnsureSecret, BuildAutomationConfig, ConfigType

\* The empty cluster is well typed.
LEMMA ClusterInitType ==
  ASSUME ClusterInit
  PROVE  ClusterTypeOK
<1>1. 0 \in Counts
  BY MaxMembersAssumption DEF Counts
<1>2. NoTemplate \in Templates
  BY DEF NoTemplate, Templates
<1>3. QED
  BY <1>1, <1>2 DEF ClusterInit, ClusterTypeOK, NoConfig, Contents, NoStatefulSet, NoPod

\* The steps of the StatefulSet controller, the agents, the probe and the
\* hook keep the types and leave the config and the wanted StatefulSets alone.
LEMMA StatefulSetEventStep ==
  ASSUME ClusterTypeOK, StatefulSetEvent
  PROVE  /\ ClusterTypeOK'
         /\ ac' = ac
         /\ sts' = [sts EXCEPT !.observed = sts'.observed]
         /\ arbSts' = [arbSts EXCEPT !.observed = arbSts'.observed]
<1>1. CASE ObserveStatefulSet
  BY <1>1 DEF ObserveStatefulSet, ClusterTypeOK
<1>2. CASE ObserveArbiters
  BY <1>2 DEF ObserveArbiters, ClusterTypeOK
<1>3. ASSUME NEW i \in Ordinals,
             \/ CreatePod(i) \/ RemovePod(i) \/ RollPod(i) \/ ReachGoalState(i)
             \/ ProbeNotReady(i) \/ ProbeWaitStep(i) \/ VersionHookDeletesPod(i)
      PROVE  /\ pods' \in [Ordinals -> PodType]
             /\ UNCHANGED <<ac, sts, arbSts>>
  <2>1. NoTemplate \in Templates /\ sts.template \in Templates /\ ac.version \in Nat
    BY DEF NoTemplate, Templates, ClusterTypeOK
  <2>2. NoPod \in PodType /\ NewPod(sts.template) \in PodType
    BY <2>1 DEF NoPod, NewPod, PodType
  <2>3. pods \in [Ordinals -> PodType]
    BY DEF ClusterTypeOK, PodType
  <2>4. CASE \/ pods' = [pods EXCEPT ![i] = NoPod]
             \/ pods' = [pods EXCEPT ![i] = NewPod(sts.template)]
    BY <2>2, <2>3, <2>4, <1>3
       DEF CreatePod, RemovePod, RollPod, ReachGoalState, ProbeNotReady, ProbeWaitStep,
           VersionHookDeletesPod
  <2>5. CASE ReachGoalState(i) \/ ProbeNotReady(i) \/ ProbeWaitStep(i)
    BY <2>1, <2>3, <2>5 DEF ReachGoalState, ProbeNotReady, ProbeWaitStep, PodType
  <2>6. QED
    BY <2>4, <2>5, <1>3 DEF CreatePod, RemovePod, RollPod, VersionHookDeletesPod
<1>4. CASE \E i \in Ordinals :
             \/ CreatePod(i) \/ RemovePod(i) \/ RollPod(i) \/ ReachGoalState(i)
             \/ ProbeNotReady(i) \/ ProbeWaitStep(i) \/ VersionHookDeletesPod(i)
  <2>1. pods' \in [Ordinals -> PodType] /\ UNCHANGED <<ac, sts, arbSts>>
    BY <1>3, <1>4
  <2>2. QED
    BY <2>1 DEF ClusterTypeOK, PodType
<1>5. QED
  BY <1>1, <1>2, <1>4 DEF StatefulSetEvent

\* TypeOK is the types of the cluster, of the controller and of the bounds.
LEMMA TypeParts ==
  TypeOK <=> ClusterTypeOK /\ ControllerTypeOK /\ used \in UsedType
  BY DEF TypeOK, ControllerTypeOK, UsedType

\* Every step keeps the types: one case per action of Next.
LEMMA TypeStep ==
  ASSUME TypeOK, [Next]_vars
  PROVE  TypeOK'
<1> USE DEF PCs, Phases
<1>0. ClusterTypeOK /\ ControllerTypeOK /\ used \in UsedType
  BY TypeParts
<1>1. CASE StartReconcile
  <2>1. ControllerTypeOK' /\ used' \in UsedType
    BY <1>0, <1>1, UsedStep DEF StartReconcile, ControllerTypeOK
  <2>2. ClusterTypeOK'
    BY <1>0, <1>1 DEF StartReconcile, clusterVars, ClusterTypeOK
  <2>3. QED
    BY <2>1, <2>2 DEF TypeOK, ControllerTypeOK, UsedType
<1>2. CASE Prepare \/ AwaitAgents \/ AwaitStatefulSet \/ TLSConfigNotValid \/ CallFails
  <2>1. \/ \E next \in PCs : Continue(next) /\ UNCHANGED queued
        \/ \E phase \in Phases : EndWithPhase(phase)
    BY <1>2 DEF Prepare, AwaitAgents, AwaitStatefulSet, TLSConfigNotValid, CallFails
  <2>2. ControllerTypeOK'
    BY <1>0, <2>1, EndWithPhaseType DEF Continue, ControllerTypeOK
  <2>3. UNCHANGED clusterVars /\ used' \in UsedType
    BY <1>0, <1>2, UsedStep
       DEF Prepare, AwaitAgents, AwaitStatefulSet, TLSConfigNotValid, CallFails
  <2>4. QED
    BY <1>0, <2>2, <2>3 DEF TypeOK, ControllerTypeOK, UsedType, clusterVars, ClusterTypeOK
<1>3. CASE ChooseOrder
  <2>1. inOrder' \in BOOLEAN
    BY <1>3, ResourceUpdates DEF ChooseOrder, ShouldRunInOrder, IsChangingVersion,
       IsScalingUp, IsScalingDown, HasZeroReplicas
  <2>2. used' \in UsedType
    BY <1>0, <1>3, UsedStep DEF ChooseOrder
  <2>3. QED
    BY <1>0, <1>3, <2>1, <2>2
       DEF ChooseOrder, TypeOK, ControllerTypeOK, UsedType, clusterVars, ClusterTypeOK
<1>4. CASE EnsureAutomationConfig
  <2>1. ac' \in ConfigType
    BY <1>0, <1>4, EnsureSecretType
       DEF EnsureAutomationConfig, ClusterTypeOK, ConfigType, ControllerTypeOK
  <2>2. QED
    BY <1>0, <1>4, <2>1
       DEF EnsureAutomationConfig, Continue, TypeOK, ClusterTypeOK, ConfigType
<1>5. CASE CreateOrUpdateStatefulSet \/ CreateOrUpdateArbiters
  <2>1. sts' \in StatefulSetType /\ arbSts' \in StatefulSetType
    BY <1>0, <1>5, DesiredStatefulSetType, ThisReconciliationType
       DEF CreateOrUpdateStatefulSet, CreateOrUpdateArbiters, ClusterTypeOK,
           StatefulSetType, ControllerTypeOK
  <2>2. queued' \in BOOLEAN
    BY <1>0, <1>5 DEF CreateOrUpdateStatefulSet, CreateOrUpdateArbiters, ControllerTypeOK
  <2>3. QED
    BY <1>0, <1>5, <2>1, <2>2
       DEF CreateOrUpdateStatefulSet, CreateOrUpdateArbiters, Continue, TypeOK,
           ClusterTypeOK, StatefulSetType
<1>6. CASE ResetUpdateStrategy
  BY <1>6 DEF ResetUpdateStrategy, Continue, TypeOK, ClusterTypeOK
<1>7. CASE UpdateStatus
  <2>1. mdb' \in Resources /\ oldMdb' \in Resources
    <3>1. [mdb EXCEPT !.status = NextStatus(snap)] \in Resources
      BY <1>0, ResourceUpdates, ThisReconciliationType DEF ControllerTypeOK
    <3>2. QED
      BY <1>0, <1>7, <3>1, StoreType DEF UpdateStatus, ControllerTypeOK
  <2>2. /\ snap' \in Resources /\ fresh' \in BOOLEAN /\ queued' \in BOOLEAN
        /\ inOrder' \in BOOLEAN /\ pc' \in PCs
    BY <1>0, <1>7, EndType DEF UpdateStatus, ControllerTypeOK
  <2>3. QED
    BY <1>7, <2>1, <2>2 DEF UpdateStatus, TypeOK, clusterVars, ClusterTypeOK
<1>8. CASE SaveLastApplied
  <2>1. mdb' \in Resources /\ oldMdb' \in Resources
    <3>1. [mdb EXCEPT !.lastApplied = snap.spec] \in Resources
      BY <1>0, ResourceUpdates DEF ControllerTypeOK
    <3>2. QED
      BY <1>0, <1>8, <3>1, StoreType DEF SaveLastApplied, ControllerTypeOK
  <2>2. /\ snap' \in Resources /\ fresh' \in BOOLEAN /\ queued' \in BOOLEAN
        /\ inOrder' \in BOOLEAN /\ pc' \in PCs
    BY <1>8, EndType DEF SaveLastApplied
  <2>3. used' \in UsedType
    BY <1>0, <1>8, UsedStep DEF SaveLastApplied
  <2>4. QED
    BY <1>8, <2>1, <2>2, <2>3 DEF SaveLastApplied, TypeOK, UsedType, clusterVars, ClusterTypeOK
<1>9. CASE EditSpec
  <2>1. mdb' \in Resources /\ oldMdb' \in Resources
    <3>1. PICK spec \in UserSpecs : Store([mdb EXCEPT !.spec = spec])
      BY <1>9 DEF EditSpec
    <3>2. [mdb EXCEPT !.spec = spec] \in Resources
      BY <1>0, ResourceUpdates, UserSpecsAssumption DEF ControllerTypeOK
    <3>3. QED
      BY <1>0, <3>1, <3>2 DEF Store, ControllerTypeOK
  <2>2. used' \in UsedType
    BY <1>0, <1>9, UsedStep DEF EditSpec
  <2>3. /\ queued' = TRUE /\ fresh' = FALSE
        /\ UNCHANGED clusterVars /\ UNCHANGED <<snap, pc, inOrder>>
    BY <1>9 DEF EditSpec
  <2>4. ClusterTypeOK'
    BY <2>3 DEF TypeOK, clusterVars, ClusterTypeOK
  <2>5. QED
    BY <2>1, <2>2, <2>3, <2>4 DEF TypeOK, UsedType
<1>10. CASE Crash
  <2>1. used' \in UsedType
    BY <1>0, <1>10, UsedStep DEF Crash
  <2>2. QED
    BY <1>10, <2>1, EndType DEF Crash, TypeOK, UsedType, clusterVars, ClusterTypeOK
<1>11. CASE ClusterStep
  <2>1. ClusterTypeOK'
    BY <1>0, <1>11, StatefulSetEventStep DEF ClusterStep, EnqueueOwner
  <2>2. queued' \in BOOLEAN
    BY <1>0, <1>11 DEF ClusterStep, EnqueueOwner, ControllerTypeOK
  <2>3. QED
    BY <1>11, <2>1, <2>2 DEF ClusterStep, EnqueueOwner, TypeOK
<1>12. CASE UNCHANGED vars
  BY <1>12 DEF vars, clusterVars, controllerVars, TypeOK, ClusterTypeOK
<1>13. QED
  BY <1>1, <1>2, <1>3, <1>4, <1>5, <1>6, <1>7, <1>8, <1>9, <1>10, <1>11, <1>12
     DEF Next, ReconcileStep

\* Whatever the user edits and however often calls fail, the operator
\* restarts or the cache is stale, every variable keeps its type: the counters
\* that the scalers of scale.go compute never leave 0 .. MaxMembers.
THEOREM TypeCorrect == Spec => []TypeOK
<1>1. Init => TypeOK
  <2> SUFFICES ASSUME Init PROVE TypeOK
    OBVIOUS
  <2>1. ClusterTypeOK
    BY ClusterInitType DEF Init
  <2>2. mdb \in Resources /\ oldMdb \in Resources /\ snap \in Resources
    BY NewResources, UserSpecsAssumption DEF Init
  <2>3. used \in UsedType
    BY BoundsAssumption DEF Init, UsedType
  <2>4. QED
    BY <2>1, <2>2, <2>3 DEF Init, TypeOK, UsedType, PCs
<1>2. TypeOK /\ [Next]_vars => TypeOK'
  BY TypeStep
<1>3. QED
  BY <1>1, <1>2, PTL DEF Spec

-----------------------------------------------------------------------------
(***************************************************************************)
(* The inductive invariant, one conjunct at a time.                        *)
(***************************************************************************)
\* CountersAgree for one copy of the resource.
Agree(m) == m.status.mdbMembers = m.status.stsReplicas

\* Reporting a phase alone leaves the counters of the stored resource alone.
LEMMA EndWithPhaseKeeps ==
  ASSUME TypeOK, NEW phase \in Phases, EndWithPhase(phase)
  PROVE  /\ \/ mdb' = mdb
            \/ mdb' = [mdb EXCEPT !.status.phase = phase]
         /\ oldMdb' \in {oldMdb, mdb, mdb'}
         /\ snap' = Blank /\ fresh' = FALSE /\ pc' = "idle"
  BY DEF EndWithPhase, Store, EndReconcile

\* The two member counters go on agreeing: the only step that changes them,
\* UpdateStatus, computes both from counters that agreed (withMongoDBMembers
\* and withStatefulSetReplicas).
LEMMA CountersAgreeStep ==
  ASSUME TypeOK, CountersAgree, [Next]_vars
  PROVE  CountersAgree'
<1>0. Agree(mdb) /\ Agree(oldMdb) /\ Agree(snap) /\ Agree(Blank)
  BY DEF CountersAgree, Agree, Blank, NewResource, NewStatus
<1>1. mdb \in Resources /\ oldMdb \in Resources /\ snap \in Resources
  BY DEF TypeOK
<1>2. SUFFICES Agree(mdb') /\ Agree(oldMdb') /\ Agree(snap')
  BY DEF CountersAgree, Agree
<1>3. CASE StartReconcile
  BY <1>0, <1>3 DEF StartReconcile
<1>4. CASE Prepare \/ AwaitAgents \/ AwaitStatefulSet \/ TLSConfigNotValid \/ CallFails
  <2>1. CASE \E next : Continue(next)
    BY <1>0, <2>1 DEF Continue
  <2>2. CASE \E phase \in Phases : EndWithPhase(phase)
    <3>1. PICK phase \in Phases : EndWithPhase(phase)
      BY <2>2
    <3>2. Agree([mdb EXCEPT !.status.phase = phase])
      BY <1>0, <1>1 DEF Agree, Resources, Statuses
    <3>3. QED
      BY <1>0, <3>1, <3>2, EndWithPhaseKeeps
  <2>3. QED
    BY <1>4, <2>1, <2>2
       DEF Prepare, AwaitAgents, AwaitStatefulSet, TLSConfigNotValid, CallFails, Phases
<1>5. CASE UpdateStatus
  <2>1. Agree([mdb EXCEPT !.status = NextStatus(snap)])
    BY <1>0, <1>1, ReportedCountsAreBuilt DEF Agree, Resources
  <2>2. QED
    BY <1>0, <1>5, <2>1 DEF UpdateStatus, Store, EndReconcile
<1>6. CASE SaveLastApplied
  <2>1. Agree([mdb EXCEPT !.lastApplied = snap.spec])
    BY <1>0, <1>1 DEF Agree, Resources
  <2>2. QED
    BY <1>0, <1>6, <2>1 DEF SaveLastApplied, Store, EndReconcile
<1>7. CASE EditSpec
  <2>1. \A spec \in UserSpecs : Agree([mdb EXCEPT !.spec = spec])
    BY <1>0, <1>1 DEF Agree, Resources
  <2>2. QED
    BY <1>0, <1>7, <2>1 DEF EditSpec, Store
<1>8. CASE Crash
  BY <1>0, <1>8 DEF Crash, EndReconcile
<1>9. CASE \/ ChooseOrder \/ EnsureAutomationConfig \/ CreateOrUpdateStatefulSet
          \/ CreateOrUpdateArbiters \/ ResetUpdateStrategy \/ ClusterStep
          \/ UNCHANGED vars
  BY <1>0, <1>9
     DEF ChooseOrder, EnsureAutomationConfig, CreateOrUpdateStatefulSet, Continue,
         CreateOrUpdateArbiters, ResetUpdateStrategy, ClusterStep, EnqueueOwner, vars, controllerVars
<1>10. QED
  BY <1>3, <1>4, <1>5, <1>6, <1>7, <1>8, <1>9 DEF Next, ReconcileStep

\* The copy of the resource stays current: whoever writes the resource during
\* a reconciliation makes the copy stale, and only a stale read changes what
\* the copy knows of the status.
LEMMA SnapshotCurrentStep ==
  ASSUME TypeOK, SnapshotCurrent, [Next]_vars
  PROVE  SnapshotCurrent'
<1>0. mdb \in Resources /\ used.stale \in 0 .. MaxStaleReads
  BY DEF TypeOK
<1>1. CASE StartReconcile
  BY <1>0, <1>1, BoundsAssumption DEF StartReconcile, SnapshotCurrent, TypeOK
<1>2. CASE Prepare \/ AwaitAgents \/ AwaitStatefulSet \/ TLSConfigNotValid \/ CallFails
  <2>1. CASE \E next : Continue(next) /\ pc # "idle" /\ pc # "annotate" /\ next # "annotate"
                     /\ UNCHANGED used
    BY <2>1 DEF Continue, SnapshotCurrent
  <2>2. CASE \E phase \in Phases : EndWithPhase(phase)
    BY <2>2, EndWithPhaseKeeps DEF SnapshotCurrent
  <2>3. QED
    BY <1>2, <2>1, <2>2
       DEF Prepare, AwaitAgents, AwaitStatefulSet, TLSConfigNotValid, CallFails, Phases
<1>3. CASE UpdateStatus
  <2>1. CASE fresh /\ ~IsStillScalingResource(snap)
    BY <1>0, <1>3, <2>1 DEF UpdateStatus, Store, SnapshotCurrent, Resources
  <2>2. CASE ~(fresh /\ ~IsStillScalingResource(snap))
    BY <1>3, <2>2 DEF UpdateStatus, EndReconcile, SnapshotCurrent
  <2>3. QED
    BY <2>1, <2>2
<1>4. CASE SaveLastApplied \/ Crash
  BY <1>4 DEF SaveLastApplied, Crash, EndReconcile, SnapshotCurrent
<1>5. CASE EditSpec
  <2>1. PICK spec \in UserSpecs : Store([mdb EXCEPT !.spec = spec])
    BY <1>5 DEF EditSpec
  <2>2. mdb'.status = mdb.status /\ used'.stale = used.stale
    BY <1>0, <1>5, <2>1 DEF EditSpec, Store, Resources, TypeOK
  <2>3. QED
    BY <1>5, <2>2 DEF EditSpec, SnapshotCurrent, NextStatus
<1>6. CASE ChooseOrder
  <2>1. pc = "order" /\ pc' \in {"ac", "sts"} /\ UNCHANGED <<mdb, snap, fresh>>
    BY <1>6 DEF ChooseOrder
  <2>2. used'.stale = used.stale
    BY <1>6 DEF ChooseOrder, Fault, TypeOK
  <2>3. QED
    BY <2>1, <2>2 DEF SnapshotCurrent
<1>7. CASE \/ EnsureAutomationConfig \/ CreateOrUpdateStatefulSet
          \/ CreateOrUpdateArbiters \/ ResetUpdateStrategy
  BY <1>7
     DEF EnsureAutomationConfig, CreateOrUpdateStatefulSet, Continue,
         CreateOrUpdateArbiters, ResetUpdateStrategy, SnapshotCurrent
<1>8. CASE ClusterStep \/ UNCHANGED vars
  <2>1. UNCHANGED <<mdb, snap, fresh, pc, used>>
    BY <1>8 DEF ClusterStep, EnqueueOwner, vars, controllerVars
  <2>2. QED
    BY <2>1 DEF SnapshotCurrent
<1>9. QED
  BY <1>1, <1>2, <1>3, <1>4, <1>5, <1>6, <1>7, <1>8 DEF Next, ReconcileStep

\* The StatefulSet that CreateOrUpdate leaves behind has the wanted fields.
LEMMA DesiredStatefulSetFields ==
  ASSUME NEW current \in StatefulSetType, NEW m \in Resources, NEW n \in Counts
  PROVE  LET d == DesiredStatefulSet(current, m, n)
         IN  /\ d.replicas = n
             /\ d.template = [version |-> m.spec.version, tls |-> m.spec.tls]
             /\ d.strategy = GetUpdateStrategyType(m)
  BY DEF DesiredStatefulSet, StatefulSetType

\* The secret that EnsureSecret leaves behind has the wanted content.
LEMMA EnsuredContent ==
  ASSUME NEW c \in ConfigType, NEW m \in Resources
  PROVE  EnsureSecret(c, BuildAutomationConfig(c, m)).content
           = [BuiltContent(m) EXCEPT !.override = m.spec.override]
  BY DEF EnsureSecret, BuildAutomationConfig, ConfigType

\* Every step of Reconcile extends what has been written, and no step of the
\* user, the cluster or a failing call undoes it.
LEMMA DeployedSoFarStep ==
  ASSUME TypeOK, DeployedSoFar, [Next]_vars
  PROVE  DeployedSoFar'
<1> USE DEF DeployedSoFar, StatefulSetWritten, ArbitersWritten, ConfigWritten
<1>0. /\ ac \in ConfigType /\ sts \in StatefulSetType /\ arbSts \in StatefulSetType
      /\ mdb \in Resources /\ snap \in Resources
  BY DEF TypeOK, ClusterTypeOK, ConfigType, StatefulSetType
<1>1. CASE pc' \in {"idle", "prepare", "order"}
  BY <1>1
<1>2. CASE Prepare \/ TLSConfigNotValid \/ CallFails \/ StartReconcile \/ SaveLastApplied \/ Crash
  BY <1>1, <1>2
     DEF Prepare, TLSConfigNotValid, CallFails, StartReconcile, SaveLastApplied, Crash,
         Continue, EndWithPhase, EndReconcile
<1>3. CASE ChooseOrder
  BY <1>3 DEF ChooseOrder
<1>4. CASE EnsureAutomationConfig
  <2>1. ac'.content = [BuiltContent(snap) EXCEPT !.override = snap.spec.override]
    BY <1>0, <1>4, EnsuredContent DEF EnsureAutomationConfig
  <2>2. pc = "ac" /\ pc' = "agents" /\ UNCHANGED <<sts, arbSts, snap, inOrder>>
    BY <1>4 DEF EnsureAutomationConfig, Continue
  <2>3. QED
    BY <2>1, <2>2
<1>5. CASE AwaitAgents
  <2>1. CASE pc = "agents" /\ Continue(IF inOrder THEN "sts" ELSE "reset")
    <3>1. /\ pc = "agents" /\ pc' = IF inOrder THEN "sts" ELSE "reset"
          /\ UNCHANGED <<ac, sts, arbSts, snap, inOrder>>
      BY <1>5, <2>1 DEF AwaitAgents, Continue, clusterVars
    <3>2. QED
      BY <3>1
  <2>2. QED
    BY <1>1, <1>5, <2>1 DEF AwaitAgents, EndWithPhase, EndReconcile
<1>6. CASE CreateOrUpdateStatefulSet
  <2>1. /\ sts'.replicas = StatefulSetReplicasThisReconciliation(snap)
        /\ sts'.template = [version |-> snap.spec.version, tls |-> snap.spec.tls]
        /\ sts'.strategy = GetUpdateStrategyType(snap)
    BY <1>0, <1>6, DesiredStatefulSetFields, ThisReconciliationType
       DEF CreateOrUpdateStatefulSet
  <2>2. pc = "sts" /\ pc' = "arbSts" /\ UNCHANGED <<ac, snap, inOrder>>
    BY <1>6 DEF CreateOrUpdateStatefulSet, Continue
  <2>3. QED
    BY <2>1, <2>2
<1>7. CASE CreateOrUpdateArbiters
  <2>1. arbSts'.replicas = StatefulSetArbitersThisReconciliation(snap)
    BY <1>0, <1>7, DesiredStatefulSetFields, ThisReconciliationType
       DEF CreateOrUpdateArbiters
  <2>2. pc = "arbSts" /\ pc' = "stsReady" /\ UNCHANGED <<ac, sts, snap, inOrder>>
    BY <1>7 DEF CreateOrUpdateArbiters, Continue
  <2>3. QED
    BY <2>1, <2>2
<1>8. CASE AwaitStatefulSet
  <2>1. CASE pc = "stsReady" /\ Continue(IF inOrder THEN "reset" ELSE "ac")
    <3>1. /\ pc = "stsReady" /\ pc' = IF inOrder THEN "reset" ELSE "ac"
          /\ UNCHANGED <<ac, sts, arbSts, snap, inOrder>>
      BY <1>8, <2>1 DEF AwaitStatefulSet, Continue, clusterVars
    <3>2. QED
      BY <3>1
  <2>2. QED
    BY <1>1, <1>8, <2>1 DEF AwaitStatefulSet, EndWithPhase, EndReconcile
<1>9. CASE ResetUpdateStrategy
  <2>1. pc = "reset" /\ pc' = "status" /\ UNCHANGED <<ac, arbSts, snap>>
    BY <1>9 DEF ResetUpdateStrategy, Continue
  <2>2. sts'.replicas = sts.replicas /\ sts'.template = sts.template
    BY <1>0, <1>9 DEF ResetUpdateStrategy, StatefulSetType
  <2>3. sts'.strategy = "RollingUpdate"
    BY <1>0, <1>9, <2>1 DEF ResetUpdateStrategy, GetUpdateStrategyType, StatefulSetType
  <2>4. QED
    BY <2>1, <2>2, <2>3
<1>10. CASE UpdateStatus
  <2>1. CASE fresh /\ ~IsStillScalingResource(snap)
    <3>1. pc = "status" /\ pc' = "annotate" /\ UNCHANGED <<ac, sts, arbSts, snap>>
      BY <1>10, <2>1 DEF UpdateStatus, clusterVars
    <3>2. QED
      BY <2>1, <3>1
  <2>2. QED
    BY <1>1, <1>10, <2>1 DEF UpdateStatus, EndReconcile
<1>11. CASE EditSpec \/ ClusterStep \/ UNCHANGED vars
  <2>1. UNCHANGED <<snap, pc, inOrder>>
    BY <1>11 DEF EditSpec, ClusterStep, EnqueueOwner, vars, controllerVars
  <2>2. /\ ac' = ac
        /\ sts'.replicas = sts.replicas /\ sts'.template = sts.template
        /\ sts'.strategy = sts.strategy /\ arbSts'.replicas = arbSts.replicas
    <3>1. CASE ClusterStep
      <4>1. /\ ac' = ac
            /\ sts' = [sts EXCEPT !.observed = sts'.observed]
            /\ arbSts' = [arbSts EXCEPT !.observed = arbSts'.observed]
        BY <3>1, StatefulSetEventStep DEF ClusterStep, EnqueueOwner, TypeOK
      <4>2. QED
        BY <1>0, <4>1 DEF StatefulSetType
    <3>2. QED
      BY <1>11, <3>1 DEF EditSpec, vars, clusterVars
  <2>3. QED
    BY <2>1, <2>2
<1>12. QED
  BY <1>2, <1>3, <1>4, <1>5, <1>6, <1>7, <1>8, <1>9, <1>10, <1>11 DEF Next, ReconcileStep

\* What a reconciliation has written stays what its copy of the resource asks
\* for until it ends, for every interleaving with the user, with the cluster
\* and with crashes, faults and stale reads.
THEOREM ReconcileInvariantHolds == Spec => []ReconcileInvariant
<1>1. Init => ReconcileInvariant
  <2> SUFFICES ASSUME Init PROVE ReconcileInvariant
    OBVIOUS
  <2>1. CountersAgree
    <3>1. \A spec : Agree(NewResource(spec))
      BY DEF Agree, NewResource, NewStatus
    <3>2. Agree(mdb) /\ oldMdb = mdb /\ Agree(snap)
      BY <3>1 DEF Init, Blank
    <3>3. QED
      BY <3>2 DEF CountersAgree, Agree
  <2>2. SnapshotCurrent /\ DeployedSoFar
    BY DEF Init, SnapshotCurrent, DeployedSoFar, StatefulSetWritten, ArbitersWritten,
           ConfigWritten
  <2>3. QED
    BY <2>1, <2>2 DEF ReconcileInvariant
<1>2. TypeOK /\ ReconcileInvariant /\ [Next]_vars => ReconcileInvariant'
  BY CountersAgreeStep, SnapshotCurrentStep, DeployedSoFarStep DEF ReconcileInvariant
<1>3. QED
  BY <1>1, <1>2, TypeCorrect, PTL DEF Spec

-----------------------------------------------------------------------------
(***************************************************************************)
(* What follows from it.                                                   *)
(***************************************************************************)
\* The report of a reconciliation follows from what it has written.
LEMMA StatusFollows ==
  ASSUME TypeOK, ReconcileInvariant
  PROVE  StatusTellsTheTruth
<1> SUFFICES ASSUME pc = "status"
             PROVE  LET s == NextStatus(snap)
                    IN  /\ s.mdbMembers = ac.content.members
                        /\ s.mdbArbiters = ac.content.arbiters
                        /\ s.stsReplicas = sts.replicas
                        /\ s.stsArbiters = arbSts.replicas
  BY DEF StatusTellsTheTruth
<1>1. snap \in Resources /\ snap.status.mdbMembers = snap.status.stsReplicas
  BY DEF TypeOK, ReconcileInvariant, CountersAgree
<1>2. /\ ac.content = [BuiltContent(snap) EXCEPT !.override = snap.spec.override]
      /\ sts.replicas = StatefulSetReplicasThisReconciliation(snap)
      /\ arbSts.replicas = StatefulSetArbitersThisReconciliation(snap)
  BY DEF ReconcileInvariant, DeployedSoFar, StatefulSetWritten, ArbitersWritten,
         ConfigWritten
<1>3. /\ ac.content.members = BuiltContent(snap).members
      /\ ac.content.arbiters = BuiltContent(snap).arbiters
  BY <1>2 DEF BuiltContent
<1>4. QED
  BY <1>1, <1>2, <1>3, ReportedCountsAreBuilt DEF NextStatus

\* A successful reconciliation reports the counts that it deployed, although
\* the report and buildAutomationConfig compute the arbiters by two rules.
THEOREM StatusIsTrue == Spec => []StatusTellsTheTruth
<1>1. TypeOK /\ ReconcileInvariant => StatusTellsTheTruth
  BY StatusFollows
<1>2. QED
  BY <1>1, TypeCorrect, ReconcileInvariantHolds, PTL

\* When Reconcile has reported Running, the config (its arbiters excepted) and
\* both StatefulSets are those of the spec it read.
THEOREM RunningIsDeployed == Spec => []RunningMeansDeployed
<1>1. TypeOK /\ ReconcileInvariant => RunningMeansDeployed
  <2> SUFFICES ASSUME TypeOK, ReconcileInvariant, pc = "annotate"
               PROVE  RunningMeansDeployed
    BY DEF RunningMeansDeployed
  <2>1. /\ ac.content = [BuiltContent(snap) EXCEPT !.override = snap.spec.override]
        /\ sts.replicas = StatefulSetReplicasThisReconciliation(snap)
        /\ sts.template = [version |-> snap.spec.version, tls |-> snap.spec.tls]
        /\ sts.strategy = "RollingUpdate"
        /\ arbSts.replicas = StatefulSetArbitersThisReconciliation(snap)
        /\ ~IsStillScalingResource(snap)
    BY DEF ReconcileInvariant, DeployedSoFar, StatefulSetWritten, ArbitersWritten,
           ConfigWritten
  <2>2. /\ StatefulSetReplicasThisReconciliation(snap) = snap.spec.members
        /\ StatefulSetArbitersThisReconciliation(snap) = snap.spec.arbiters
    BY <2>1 DEF IsStillScalingResource, IsStillScaling, MembersScaler, ArbitersScaler,
                StatefulSetReplicasThisReconciliation, Scaler,
                StatefulSetArbitersThisReconciliation
  <2>3. AutomationConfigMembersThisReconciliation(snap)
          = StatefulSetReplicasThisReconciliation(snap)
    BY DEF ReconcileInvariant, CountersAgree, MembersScaler,
           AutomationConfigMembersThisReconciliation, StatefulSetReplicasThisReconciliation
  <2>4. /\ ac.content.members = snap.spec.members
        /\ ac.content.version = snap.spec.version /\ ac.content.tls = snap.spec.tls
    BY <2>1, <2>2, <2>3 DEF BuiltContent
  <2>5. QED
    BY <2>1, <2>2, <2>4 DEF RunningMeansDeployed
<1>2. QED
  BY <1>1, TypeCorrect, ReconcileInvariantHolds, PTL

\* Running is only reported for the spec and from the status that the API
\* server has: the optimistic lock of the status update is what ensures it.
THEOREM RunningIsCurrent == Spec => RunningReportsCurrentSpec
<1>1. /\ TypeOK /\ ReconcileInvariant /\ [Next]_vars
      => [pc = "status" /\ pc' = "annotate" =>
            snap.spec = mdb.spec /\ snap.status = mdb.status]_vars
  <2> SUFFICES ASSUME ReconcileInvariant, Next, pc = "status", pc' = "annotate"
               PROVE  snap = mdb
    OBVIOUS
  <2>1. fresh
    BY DEF Next, ReconcileStep, StartReconcile, Prepare, ChooseOrder,
           EnsureAutomationConfig, AwaitAgents, CreateOrUpdateStatefulSet,
           CreateOrUpdateArbiters, AwaitStatefulSet, ResetUpdateStrategy, UpdateStatus,
           SaveLastApplied, TLSConfigNotValid, CallFails, EditSpec, Crash, ClusterStep, EnqueueOwner,
           EndReconcile
  <2>2. QED
    BY <2>1 DEF ReconcileInvariant, SnapshotCurrent
<1>2. QED
  BY <1>1, TypeCorrect, ReconcileInvariantHolds, PTL DEF Spec, RunningReportsCurrentSpec

-----------------------------------------------------------------------------
(***************************************************************************)
(* One step at a time.                                                     *)
(***************************************************************************)
\* One step of the abstract specification keeps StatefulSet and config within
\* one member of the report.
LEMMA NeverApartStep ==
  ASSUME TypeOK, TypeOK', Scaling!NeverApart, [Scaling!Next]_Scaling!scalingVars
  PROVE  Scaling!NeverApart'
<1>1. /\ mdb.status.stsReplicas \in Nat /\ sts.replicas \in Nat /\ ac.content.members \in Nat
      /\ mdb'.status.stsReplicas \in Nat /\ sts'.replicas \in Nat /\ ac'.content.members \in Nat
  BY DEF TypeOK, ClusterTypeOK, Resources, Statuses, Contents, Counts
<1>2. QED
  BY <1>1
     DEF Scaling!NeverApart, Scaling!Next, Scaling!Resize, Scaling!Configure, Scaling!Report,
         Scaling!OneStep, Scaling!scalingVars

\* A step that did not read a stale copy either had none before it.
LEMMA StaleStep ==
  ASSUME TypeOK, [Next]_vars, used'.stale = 0
  PROVE  used.stale = 0
<1>1. used' = used \/ Fault \/ used'.stale = used.stale \/ used'.stale = used.stale + 1
  BY DEF Next, ReconcileStep, StartReconcile, Prepare, ChooseOrder,
         EnsureAutomationConfig, AwaitAgents, CreateOrUpdateStatefulSet,
         CreateOrUpdateArbiters, AwaitStatefulSet, ResetUpdateStrategy, UpdateStatus,
         SaveLastApplied, TLSConfigNotValid, CallFails, EditSpec, Crash, ClusterStep, EnqueueOwner,
         vars, controllerVars, TypeOK
<1>2. Fault => used'.stale = used.stale
  BY DEF Fault, TypeOK
<1>3. used.stale \in Nat
  BY BoundsAssumption DEF TypeOK
<1>4. QED
  BY <1>1, <1>2, <1>3

\* Every step of the controller, the cluster and the user is a step of the
\* abstract specification or leaves its variables alone: EnsureAutomationConfig
\* configures, CreateOrUpdateStatefulSet resizes, UpdateStatus reports.
LEMMA ScalingStep ==
  ASSUME TypeOK, ReconcileInvariant, used.stale = 0, [Next]_vars
  PROVE  [Scaling!Next]_Scaling!scalingVars
<1>0. /\ mdb \in Resources /\ snap \in Resources /\ ac \in ConfigType
      /\ sts \in StatefulSetType
      /\ mdb.status.mdbMembers = mdb.status.stsReplicas
      /\ Counts = 0 .. MaxMembers
  BY DEF TypeOK, ClusterTypeOK, ConfigType, StatefulSetType, ReconcileInvariant,
         CountersAgree, Counts
<1>1. CASE EnsureAutomationConfig
  <2>1. snap.status = mdb.status /\ UNCHANGED <<mdb, sts>>
    BY <1>1 DEF EnsureAutomationConfig, Continue, ReconcileInvariant, SnapshotCurrent
  <2>2. ac'.content.members = AutomationConfigMembersThisReconciliation(snap)
    <3>1. ac'.content = [BuiltContent(snap) EXCEPT !.override = snap.spec.override]
      BY <1>0, <1>1, EnsuredContent DEF EnsureAutomationConfig
    <3>2. QED
      BY <3>1 DEF BuiltContent
  <2>3. snap.status.mdbMembers \in Counts /\ snap.spec.members \in Counts
    BY <1>0 DEF Resources, Statuses, Specs
  <2>4. Scaling!OneStep(AutomationConfigMembersThisReconciliation(snap))
    BY <1>0, <2>1, <2>3, ScalerStep
       DEF AutomationConfigMembersThisReconciliation, Scaling!OneStep
  <2>5. Scaling!Configure
    BY <1>0, <2>1, <2>2, <2>4, ThisReconciliationType DEF Scaling!Configure
  <2>6. QED
    BY <2>5 DEF Scaling!Next
<1>2. CASE CreateOrUpdateStatefulSet
  <2>1. snap.status = mdb.status /\ UNCHANGED <<mdb, ac>>
    BY <1>2 DEF CreateOrUpdateStatefulSet, Continue, ReconcileInvariant, SnapshotCurrent
  <2>2. sts'.replicas = StatefulSetReplicasThisReconciliation(snap)
    BY <1>0, <1>2, DesiredStatefulSetFields, ThisReconciliationType
       DEF CreateOrUpdateStatefulSet
  <2>3. snap.status.stsReplicas \in Counts /\ snap.spec.members \in Counts
    BY <1>0 DEF Resources, Statuses, Specs
  <2>4. Scaling!OneStep(StatefulSetReplicasThisReconciliation(snap))
    BY <2>1, <2>3, ScalerStep
       DEF StatefulSetReplicasThisReconciliation, MembersScaler, Scaling!OneStep
  <2>5. Scaling!Resize
    BY <1>0, <2>1, <2>2, <2>4, ThisReconciliationType DEF Scaling!Resize
  <2>6. QED
    BY <2>5 DEF Scaling!Next
<1>3. CASE UpdateStatus
  <2>1. UNCHANGED <<ac, sts>>
    BY <1>3 DEF UpdateStatus, clusterVars
  <2>2. CASE fresh
    <3>1. mdb'.status = NextStatus(snap)
      BY <1>0, <1>3, <2>2 DEF UpdateStatus, Store, Resources
    <3>2. snap.status.mdbMembers = snap.status.stsReplicas
      BY DEF ReconcileInvariant, CountersAgree
    <3>3. /\ mdb'.status.stsReplicas = sts.replicas
          /\ ac.content.members = sts.replicas
      BY <1>0, <1>3, <3>1, <3>2, StatusFollows, ReportedCountsAreBuilt
         DEF UpdateStatus, StatusTellsTheTruth
    <3>4. QED
      BY <2>1, <3>3 DEF Scaling!Next, Scaling!Report
  <2>3. CASE ~fresh
    BY <1>3, <2>1, <2>3 DEF UpdateStatus, Scaling!scalingVars
  <2>4. QED
    BY <2>2, <2>3
<1>4. CASE ~(EnsureAutomationConfig \/ CreateOrUpdateStatefulSet \/ UpdateStatus)
  <2>1. mdb'.status.stsReplicas = mdb.status.stsReplicas
    <3>1. CASE \E phase \in Phases : EndWithPhase(phase)
      <4>1. PICK phase \in Phases : EndWithPhase(phase)
        BY <3>1
      <4>2. [mdb EXCEPT !.status.phase = phase].status.stsReplicas = mdb.status.stsReplicas
        BY <1>0 DEF Resources, Statuses
      <4>3. QED
        BY <4>1, <4>2, EndWithPhaseKeeps
    <3>2. CASE SaveLastApplied
      BY <1>0, <3>2 DEF SaveLastApplied, Store, Resources
    <3>3. CASE EditSpec
      BY <1>0, <3>3 DEF EditSpec, Store, Resources
    <3>4. CASE mdb' = mdb
      BY <3>4
    <3>5. QED
      BY <1>4, <3>1, <3>2, <3>3, <3>4
         DEF Next, ReconcileStep, StartReconcile, Prepare, ChooseOrder, AwaitAgents,
             CreateOrUpdateArbiters, AwaitStatefulSet, ResetUpdateStrategy,
             TLSConfigNotValid, CallFails, Crash, ClusterStep, EnqueueOwner, Continue, vars,
             controllerVars, Phases
  <2>2. ac' = ac /\ sts'.replicas = sts.replicas
    <3>1. CASE ClusterStep
      <4>1. ac' = ac /\ sts' = [sts EXCEPT !.observed = sts'.observed]
        BY <3>1, StatefulSetEventStep DEF ClusterStep, EnqueueOwner, TypeOK
      <4>2. QED
        BY <1>0, <4>1 DEF StatefulSetType
    <3>2. CASE ResetUpdateStrategy
      BY <1>0, <3>2 DEF ResetUpdateStrategy, StatefulSetType
    <3>3. QED
      BY <1>4, <3>1, <3>2
         DEF Next, ReconcileStep, StartReconcile, Prepare, ChooseOrder, AwaitAgents,
             CreateOrUpdateArbiters, AwaitStatefulSet, SaveLastApplied,
             TLSConfigNotValid, CallFails, EditSpec, Crash, vars, clusterVars
  <2>3. QED
    BY <2>1, <2>2 DEF Scaling!scalingVars
<1>5. QED
  BY <1>1, <1>2, <1>3, <1>4

\* Initially nothing is reported, created or configured.
LEMMA ScalingInit ==
  ASSUME Init PROVE Scaling!Init
<1>1. \A spec : NewResource(spec).status.stsReplicas = 0
  BY DEF NewResource, NewStatus
<1>2. sts.replicas = 0 /\ ac.content.members = 0
  BY DEF Init, ClusterInit, NoConfig, NoStatefulSet
<1>3. QED
  BY <1>1, <1>2 DEF Init, Scaling!Init

\* Without stale reads the reconciliation loop implements the one-step scaling
\* protocol, for any number of members, edits, crashes and API errors.
THEOREM ScalesOneByOne ==
  ASSUME MaxStaleReads = 0
  PROVE  Spec => MembersScaleOneByOne
<1>1. TypeOK => used.stale = 0
  BY DEF TypeOK
<1>2. TypeOK /\ ReconcileInvariant /\ [Next]_vars => [Scaling!Next]_Scaling!scalingVars
  BY <1>1, ScalingStep
<1>3. Init => Scaling!Init
  BY ScalingInit
<1>4. QED
  BY <1>2, <1>3, TypeCorrect, ReconcileInvariantHolds, PTL
     DEF Spec, MembersScaleOneByOne, Scaling!Spec

\* Until a stale copy of the resource is read, the StatefulSet and the config
\* never get more than one member away from the reported count.
THEOREM StaysWithinOneStep == Spec => []WithinOneStep
<1>1. Init => WithinOneStep
  BY ScalingInit DEF WithinOneStep, Scaling!Init, Scaling!NeverApart
<1>2. TypeOK /\ TypeOK' /\ ReconcileInvariant /\ WithinOneStep /\ [Next]_vars
        => WithinOneStep'
  <2> SUFFICES ASSUME TypeOK, TypeOK', ReconcileInvariant, WithinOneStep, [Next]_vars,
                      used'.stale = 0
               PROVE  Scaling!NeverApart'
    BY DEF WithinOneStep
  <2>1. used.stale = 0
    BY StaleStep
  <2>2. Scaling!NeverApart
    BY <2>1 DEF WithinOneStep
  <2>3. QED
    BY <2>1, <2>2, ScalingStep, NeverApartStep
<1>3. QED
  BY <1>1, <1>2, TypeCorrect, ReconcileInvariantHolds, PTL DEF Spec

-----------------------------------------------------------------------------
(***************************************************************************)
(* Annotations on the pods and the version of the automation config.       *)
(***************************************************************************)
\* Versions only grow, so an annotation is never ahead of the config, and a
\* config that was never given a version has no members.
AnnotationsNotAhead ==
  /\ ac.version = 0 => ac.content.members = 0
  /\ \A i \in Ordinals : pods[i].annotation <= ac.version

GoalInvariant == AnnotationsNotAhead /\ GoalStateIsOfThisConfig

\* A secret that keeps its version keeps everything the agents' goal depends
\* on: only the override may differ.
LEMMA SameVersionSameGoal ==
  ASSUME NEW c \in ConfigType, NEW m \in Resources
  PROVE  LET d == EnsureSecret(c, BuildAutomationConfig(c, m))
         IN  \/ d.version = c.version + 1
             \/ /\ d.version = c.version
                /\ d.content.members = c.content.members
                /\ d.content.version = c.content.version
                /\ d.content.tls = c.content.tls
<1> DEFINE built == BuiltContent(m)
           merged == [built EXCEPT !.override = m.spec.override]
<1>1. built \in Contents
  BY ThisReconciliationType
<1>2. /\ merged.members = built.members /\ merged.version = built.version
      /\ merged.tls = built.tls
  BY <1>1 DEF Contents
<1>3. BuildAutomationConfig(c, m)
        = [version |-> IF built = c.content THEN c.version ELSE c.version + 1,
           content |-> merged]
  BY DEF BuildAutomationConfig
<1> HIDE DEF built, merged
<1>4. QED
  BY <1>2, <1>3 DEF EnsureSecret, ConfigType

\* A step of the StatefulSet controller, an agent, the probe or the hook
\* annotates a pod only with the version of a config it has reached; a new
\* pod has no annotation.
LEMMA GoalClusterStep ==
  ASSUME TypeOK, GoalInvariant, StatefulSetEvent
  PROVE  GoalInvariant'
<1>1. /\ ac \in ConfigType /\ pods \in [Ordinals -> PodType] /\ ac' = ac
  BY StatefulSetEventStep DEF TypeOK, ClusterTypeOK, ConfigType, PodType
<1>2. ac.version \in Nat /\ ac.content.members \in Nat
  BY <1>1, MaxMembersAssumption DEF ConfigType, Contents, Counts
<1>3. ASSUME NEW j \in Ordinals
      PROVE  /\ pods'[j].annotation <= ac.version
             /\ pods'[j].up /\ InGoalState(j)' => CanReachGoal(j)'
  <2>1. /\ pods[j] \in PodType /\ pods[j].annotation <= ac.version
        /\ pods[j].up /\ InGoalState(j) => CanReachGoal(j)
    BY <1>1, <1>3 DEF GoalInvariant, AnnotationsNotAhead, GoalStateIsOfThisConfig
  <2>2. CASE pods'[j] = pods[j]
    BY <1>1, <2>1, <2>2 DEF InGoalState, CanReachGoal
  <2>3. CASE pods'[j] = NoPod \/ pods'[j] = NewPod(sts.template)
    <3>1. pods'[j].annotation = 0
      BY <2>3 DEF NoPod, NewPod
    <3>2. ac.version = 0 => ac.content.members = 0
      BY DEF GoalInvariant, AnnotationsNotAhead
    <3>3. ~(j < 0)
      BY <1>3 DEF Ordinals
    <3>4. QED
      BY <1>1, <1>2, <3>1, <3>2, <3>3 DEF InGoalState, CanReachGoal
  <2>4. CASE /\ CanReachGoal(j)
             /\ pods'[j] = [pods[j] EXCEPT !.annotation = ac.version, !.probe = "ready"]
    <3>1. pods'[j].annotation = ac.version /\ pods'[j].template = pods[j].template
      BY <2>1, <2>4 DEF PodType
    <3>2. QED
      BY <1>1, <1>2, <2>4, <3>1 DEF CanReachGoal
  <2>5. CASE \E p \in {"notReady", "waiting"} : pods'[j] = [pods[j] EXCEPT !.probe = p]
    <3>1. /\ pods'[j].annotation = pods[j].annotation
          /\ pods'[j].template = pods[j].template /\ pods'[j].up = pods[j].up
      BY <2>1, <2>5 DEF PodType
    <3>2. QED
      BY <1>1, <2>1, <3>1 DEF InGoalState, CanReachGoal
  <2>6. \/ pods'[j] = pods[j]
        \/ pods'[j] = NoPod \/ pods'[j] = NewPod(sts.template)
        \/ /\ CanReachGoal(j)
           /\ pods'[j] = [pods[j] EXCEPT !.annotation = ac.version, !.probe = "ready"]
        \/ \E p \in {"notReady", "waiting"} : pods'[j] = [pods[j] EXCEPT !.probe = p]
    <3>1. CASE ObserveStatefulSet \/ ObserveArbiters
      BY <3>1 DEF ObserveStatefulSet, ObserveArbiters
    <3>2. ASSUME NEW i \in Ordinals,
                 \/ CreatePod(i) \/ RemovePod(i) \/ RollPod(i) \/ VersionHookDeletesPod(i)
          PROVE  pods'[j] \in {pods[j], NoPod, NewPod(sts.template)}
      BY <1>1, <1>3, <3>2 DEF CreatePod, RemovePod, RollPod, VersionHookDeletesPod
    <3>3. ASSUME NEW i \in Ordinals, ProbeNotReady(i) \/ ProbeWaitStep(i)
          PROVE  \/ pods'[j] = pods[j]
                 \/ \E p \in {"notReady", "waiting"} : pods'[j] = [pods[j] EXCEPT !.probe = p]
      BY <1>1, <1>3, <3>3 DEF ProbeNotReady, ProbeWaitStep
    <3>4. ASSUME NEW i \in Ordinals, ReachGoalState(i)
          PROVE  \/ pods'[j] = pods[j]
                 \/ /\ CanReachGoal(j)
                    /\ pods'[j] = [pods[j] EXCEPT !.annotation = ac.version, !.probe = "ready"]
      BY <1>1, <1>3, <3>4 DEF ReachGoalState
    <3>5. QED
      BY <3>1, <3>2, <3>3, <3>4 DEF StatefulSetEvent
  <2>7. QED
    BY <2>2, <2>3, <2>4, <2>5, <2>6
<1>4. QED
  BY <1>1, <1>3 DEF GoalInvariant, AnnotationsNotAhead, GoalStateIsOfThisConfig

\* An agent that the operator counts as being in goal state has the mongod
\* version and the certificates that the present config asks of it, through
\* edits in flight, crashes, faults, stale reads and config overrides: a
\* config that differs in them has a version no pod is annotated with yet.
THEOREM GoalStateIsReal == Spec => []GoalStateIsOfThisConfig
<1>1. Init => GoalInvariant
  <2>1. \A i \in Ordinals : ~(i < 0)
    BY DEF Ordinals
  <2>2. QED
    BY <2>1 DEF Init, ClusterInit, NoConfig, NoPod, GoalInvariant, AnnotationsNotAhead,
                GoalStateIsOfThisConfig, CanReachGoal
<1>2. TypeOK /\ GoalInvariant /\ [Next]_vars => GoalInvariant'
  <2> SUFFICES ASSUME TypeOK, GoalInvariant, [Next]_vars
               PROVE  GoalInvariant'
    OBVIOUS
  <2>1. ac \in ConfigType /\ snap \in Resources /\ pods \in [Ordinals -> PodType]
    BY DEF TypeOK, ClusterTypeOK, ConfigType, PodType
  <2>2. CASE EnsureAutomationConfig
    <3>1. pods' = pods /\ ac' = EnsureSecret(ac, BuildAutomationConfig(ac, snap))
      BY <2>2 DEF EnsureAutomationConfig
    <3>2. \/ ac'.version = ac.version + 1
          \/ /\ ac'.version = ac.version
             /\ ac'.content.members = ac.content.members
             /\ ac'.content.version = ac.content.version
             /\ ac'.content.tls = ac.content.tls
      BY <2>1, <3>1, SameVersionSameGoal
    <3>3. ac.version \in Nat /\ \A i \in Ordinals : pods[i].annotation \in Nat
      BY <2>1 DEF ConfigType, PodType
    <3>4. QED
      BY <3>1, <3>2, <3>3
         DEF GoalInvariant, AnnotationsNotAhead, GoalStateIsOfThisConfig, InGoalState,
             CanReachGoal
  <2>3. CASE ClusterStep
    BY <2>3, GoalClusterStep DEF ClusterStep
  <2>4. CASE ~(EnsureAutomationConfig \/ ClusterStep)
    <3>1. ac' = ac /\ pods' = pods
      BY <2>4
         DEF Next, ReconcileStep, StartReconcile, Prepare, ChooseOrder,
             AwaitAgents, CreateOrUpdateStatefulSet, CreateOrUpdateArbiters,
             AwaitStatefulSet, ResetUpdateStrategy, UpdateStatus, SaveLastApplied,
             TLSConfigNotValid, CallFails, EditSpec, Crash, vars, clusterVars
    <3>2. QED
      BY <3>1 DEF GoalInvariant, AnnotationsNotAhead, GoalStateIsOfThisConfig, InGoalState,
                  CanReachGoal
  <2>5. QED
    BY <2>2, <2>3, <2>4
<1>3. GoalInvariant => GoalStateIsOfThisConfig
  BY DEF GoalInvariant
<1>4. QED
  BY <1>1, <1>2, <1>3, TypeCorrect, PTL DEF Spec

=============================================================================
