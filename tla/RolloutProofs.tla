--------------------------- MODULE RolloutProofs ---------------------------
(***************************************************************************)
(* Theorems about ReplicaSetController for a user who waits until an edit  *)
(* is deployed before making the next one, and who changes one field at a  *)
(* time: how a new version reaches the pods, in which order the pods and   *)
(* the config follow each other when members are added or removed, and     *)
(* that certificates are mounted before the config uses them.              *)
(*                                                                         *)
(* The argument has two halves.  While the version does not change, every  *)
(* pod has the template of the StatefulSet, no pod is taken away to be     *)
(* replaced, and the pods that are up are the first ones: counting them is *)
(* knowing them.  While the version changes nothing is scaled, Kubernetes  *)
(* replaces no pod by itself, and agents in the goal state tell that their *)
(* pods have the new version.                                              *)
(***************************************************************************)
EXTENDS SingleEditProofs

\* Every spec names a mongod version.
Versioned == \A spec \in UserSpecs : spec.version # NoVersion

-----------------------------------------------------------------------------
(***************************************************************************)
(* The invariant of a rollout.                                             *)
(***************************************************************************)
\* The reconciliation has waited for the StatefulSet.
StatefulSetAwaited ==
  \/ pc \in {"reset", "status", "annotate"}
  \/ pc \in {"ac", "agents"} /\ ~inOrder

\* The reconciliation has waited for the agents.
AgentsAwaited ==
  \/ pc \in {"reset", "status", "annotate"}
  \/ pc \in {"sts", "arbSts", "stsReady"} /\ inOrder

\* It has waited for both.
Awaited == pc \in {"reset", "status", "annotate"}

\* Running is being recorded, or has been, for the spec as it is.
Recorded ==
  \/ pc = "annotate"
  \/ mdb.lastApplied = mdb.spec /\ mdb.status.phase = "Running"

\* The pod template that a spec without TLS asks for.
TemplateOf(m) == [version |-> m.spec.version, tls |-> FALSE]

\* Every pod that is up has the template of the StatefulSet.
Uniform == \A i \in Ordinals : pods[i].up => pods[i].template = sts.template

\* The pods that are up are the first ones.
PodsInOrder == \A i, j \in Ordinals : i < j /\ pods[j].up => pods[i].up

\* Pods belong to a StatefulSet, members to a config, and nothing has TLS.
Plain ==
  /\ mdb.spec \in UserSpecs
  /\ ~sts.exists => sts.replicas = 0
  /\ sts.template.tls = FALSE
  /\ \A i \in Ordinals : pods[i].up => sts.exists /\ pods[i].template.tls = FALSE
  /\ ac.version = 0 => ac.content.members = 0

\* Unless the version changes, whatever is deployed has the version of the spec.
AtVersion ==
  ~IsChangingVersion(mdb) =>
    /\ sts.strategy = "RollingUpdate"
    /\ sts.exists => sts.template = TemplateOf(mdb)
    /\ \A i \in Ordinals : pods[i].up => pods[i].template = TemplateOf(mdb)
    /\ ac.content.members > 0 => ac.content.version = mdb.spec.version

\* Kubernetes is in charge of updates only when there is nothing to update.
RollsNothing == sts.strategy = "RollingUpdate" \/ pc = "reset" => Uniform

\* What is recorded, or being upgraded, has no pods beyond its members.
NoSurplus ==
  IsChangingVersion(mdb) \/ Recorded =>
    \A i \in Ordinals : pods[i].up => i < mdb.spec.members

\* Except during an upgrade, no pod is missing before another.
InOrderUnlessChanging == ~IsChangingVersion(mdb) \/ Awaited => PodsInOrder

\* Except during an upgrade, a reconciliation that has waited for the
\* StatefulSet finds exactly the pods it should.
ExactPods ==
  ~IsChangingVersion(mdb) /\ StatefulSetAwaited =>
    \A i \in Ordinals : pods[i].up <=> i < StatefulSetReplicasThisReconciliation(snap)

\* An agent in the goal state of a config that names it has the image of the
\* version in that config.
GoalMeansVersion ==
  \A i \in Ordinals :
    /\ pods[i].annotation <= ac.version
    /\ pods[i].up /\ InGoalState(i) /\ i < ac.content.members =>
         pods[i].template.version = ac.content.version

\* All of it.
RolloutInvariant ==
  /\ Plain /\ AtVersion /\ RollsNothing /\ NoSurplus
  /\ InOrderUnlessChanging /\ ExactPods /\ GoalMeansVersion

-----------------------------------------------------------------------------
(***************************************************************************)
(* How a reconciliation moves.                                             *)
(***************************************************************************)
\* How a reconciliation moves: a step that neither waits nor writes the config
\* keeps its place or goes to the next one.
LEMMA PlaceStep ==
  ASSUME [Next]_vars, pc' \notin {"idle", "prepare", "order"}
  PROVE  /\ snap' = snap
         /\ \/ pc' = pc /\ inOrder' = inOrder
            \/ ChooseOrder /\ pc' = IF inOrder' THEN "ac" ELSE "sts"
            \/ /\ inOrder' = inOrder
               /\ \/ EnsureAutomationConfig /\ pc = "ac" /\ pc' = "agents"
                  \/ AwaitAgents /\ pc = "agents" /\ pc' = IF inOrder THEN "sts" ELSE "reset"
                  \/ pc = "sts" /\ pc' = "arbSts"
                  \/ pc = "arbSts" /\ pc' = "stsReady"
                  \/ AwaitStatefulSet /\ pc = "stsReady" /\ pc' = IF inOrder THEN "reset" ELSE "ac"
                  \/ pc = "reset" /\ pc' = "status"
                  \/ pc = "status" /\ pc' = "annotate"
<1>1. CASE ClusterStep \/ UNCHANGED vars
  BY <1>1 DEF ClusterStep, EnqueueOwner, vars, controllerVars
<1>2. CASE TLSConfigNotValid \/ CallFails \/ EditSpec \/ Crash
  BY <1>2 DEF TLSConfigNotValid, CallFails, EditSpec, Crash, EndWithPhase, EndReconcile
<1>3. CASE StartReconcile \/ Prepare \/ ChooseOrder
  BY <1>3 DEF StartReconcile, Prepare, ChooseOrder, Continue, EndWithPhase, EndReconcile
<1>4. CASE EnsureAutomationConfig
  BY <1>4 DEF EnsureAutomationConfig, Continue
<1>5. CASE AwaitAgents
  BY <1>5 DEF AwaitAgents, Continue, EndWithPhase, EndReconcile
<1>6. CASE CreateOrUpdateStatefulSet
  BY <1>6 DEF CreateOrUpdateStatefulSet, Continue
<1>7. CASE CreateOrUpdateArbiters
  BY <1>7 DEF CreateOrUpdateArbiters, Continue
<1>8. CASE AwaitStatefulSet
  BY <1>8 DEF AwaitStatefulSet, Continue, EndWithPhase, EndReconcile
<1>9. CASE ResetUpdateStrategy
  BY <1>9 DEF ResetUpdateStrategy, Continue
<1>10. CASE UpdateStatus
  BY <1>10 DEF UpdateStatus, EndReconcile
<1>11. CASE SaveLastApplied
  BY <1>11 DEF SaveLastApplied, EndReconcile
<1>12. QED
  BY <1>1, <1>2, <1>3, <1>4, <1>5, <1>6, <1>7, <1>8, <1>9, <1>10, <1>11 DEF Next, ReconcileStep

\* A reconciliation that has waited for the StatefulSet did so in this step or
\* before.
LEMMA StatefulSetAwaitedStep ==
  ASSUME [Next]_vars, StatefulSetAwaited'
  PROVE  /\ snap' = snap
         /\ \/ StatefulSetAwaited
            \/ /\ AwaitStatefulSet /\ UNCHANGED <<pods, sts, ac, mdb, inOrder>>
               /\ \/ IsReady(StatefulSetReplicasThisReconciliation(snap))
                  \/ sts.strategy = "OnDelete"
<1>1. pc' \notin {"idle", "prepare", "order"}
  BY DEF StatefulSetAwaited
<1>2. AwaitStatefulSet => /\ UNCHANGED <<pods, sts, ac, mdb, inOrder>>
                          /\ \/ IsReady(StatefulSetReplicasThisReconciliation(snap))
                             \/ sts.strategy = "OnDelete"
  BY <1>1 DEF AwaitStatefulSet, Continue, EndWithPhase, EndReconcile, clusterVars
<1>3. snap' = snap
  BY <1>1, PlaceStep
<1>4. StatefulSetAwaited \/ AwaitStatefulSet
  BY <1>1, PlaceStep DEF StatefulSetAwaited
<1>5. QED
  BY <1>2, <1>3, <1>4

\* The same of the agents.
LEMMA AgentsAwaitedStep ==
  ASSUME [Next]_vars, AgentsAwaited'
  PROVE  /\ snap' = snap
         /\ \/ AgentsAwaited /\ ~EnsureAutomationConfig
            \/ /\ AwaitAgents /\ UNCHANGED <<pods, sts, ac, mdb, inOrder>>
               /\ \/ ~sts.exists
                  \/ AllReachedGoalState(StatefulSetReplicasThisReconciliation(snap))
<1>1. pc' \notin {"idle", "prepare", "order"}
  BY DEF AgentsAwaited
<1>2. AwaitAgents => /\ UNCHANGED <<pods, sts, ac, mdb, inOrder>>
                     /\ \/ ~sts.exists
                        \/ AllReachedGoalState(StatefulSetReplicasThisReconciliation(snap))
  BY <1>1 DEF AwaitAgents, Continue, EndWithPhase, EndReconcile, clusterVars
<1>3. snap' = snap
  BY <1>1, PlaceStep
<1>4. AgentsAwaited \/ AwaitAgents
  BY <1>1, PlaceStep DEF AgentsAwaited
<1>5. ~EnsureAutomationConfig
  BY DEF EnsureAutomationConfig, Continue, AgentsAwaited
<1>6. QED
  BY <1>2, <1>3, <1>4, <1>5

\* Only UpdateStatus changes the reported number of members.
LEMMA ReportStep ==
  ASSUME TypeOK, [Next]_vars
  PROVE  \/ mdb'.status.stsReplicas = mdb.status.stsReplicas
         \/ /\ UpdateStatus /\ fresh /\ pc = "status" /\ UNCHANGED clusterVars
            /\ mdb' = [mdb EXCEPT !.status = NextStatus(snap)]
<1>0. mdb \in Resources
  BY DEF TypeOK
<1>1. CASE \E phase : mdb' = [mdb EXCEPT !.status.phase = phase]
  BY <1>0, <1>1, ResourceFields
<1>2. CASE \E spec : mdb' = [mdb EXCEPT !.lastApplied = spec]
  BY <1>0, <1>2, ResourceFields
<1>3. CASE EditSpec
  <2>1. PICK spec \in UserSpecs : mdb' = [mdb EXCEPT !.spec = spec]
    BY <1>3 DEF EditSpec, Store
  <2>2. QED
    BY <1>0, <2>1, ResourceFields
<1>4. UpdateStatus => pc = "status" /\ UNCHANGED clusterVars
  BY DEF UpdateStatus
<1>5. QED
  BY <1>1, <1>2, <1>3, <1>4, ResourceStep

\* The version that is last applied changes when it is recorded, and the spec
\* when the user edits what has been recorded.
LEMMA VersionStep ==
  ASSUME Patient, TypeOK, SingleEditInvariant, [Next]_vars
  PROVE  \/ mdb'.spec = mdb.spec /\ mdb'.lastApplied = mdb.lastApplied
         \/ /\ SaveLastApplied /\ pc = "annotate" /\ pc' = "idle" /\ UNCHANGED clusterVars
            /\ mdb'.spec = mdb.spec /\ mdb'.status = mdb.status
            /\ mdb'.lastApplied = mdb.spec
         \/ /\ EditSpec /\ pc = "idle" /\ pc' = "idle" /\ UNCHANGED clusterVars
            /\ mdb'.spec \in UserSpecs \ {mdb.spec} /\ mdb'.status = mdb.status
            /\ mdb'.lastApplied = mdb.lastApplied /\ mdb.lastApplied = mdb.spec
            /\ mdb.status.phase = "Running"
<1>0. mdb \in Resources
  BY DEF TypeOK
<1>1. CASE \E phase : mdb' = [mdb EXCEPT !.status.phase = phase]
  BY <1>0, <1>1, ResourceFields
<1>2. CASE \E st : mdb' = [mdb EXCEPT !.status = st]
  BY <1>0, <1>2, ResourceFields
<1>3. CASE SaveLastApplied /\ mdb' = [mdb EXCEPT !.lastApplied = snap.spec]
  <2>1. pc = "annotate" /\ pc' = "idle" /\ UNCHANGED clusterVars /\ snap.spec = mdb.spec
    BY <1>3 DEF SaveLastApplied, EndReconcile, SingleEditInvariant, ReportStands
  <2>2. QED
    BY <1>0, <1>3, <2>1, ResourceFields
<1>4. CASE EditSpec
  <2>1. PICK spec \in UserSpecs \ {mdb.spec} : mdb' = [mdb EXCEPT !.spec = spec]
    BY <1>4 DEF EditSpec, Store
  <2>2. mdb'.spec = spec /\ mdb'.status = mdb.status /\ mdb'.lastApplied = mdb.lastApplied
    BY <1>0, <2>1, ResourceFields
  <2>3. /\ pc = "idle" /\ pc' = "idle" /\ UNCHANGED clusterVars
        /\ mdb.lastApplied = mdb.spec /\ mdb.status.phase = "Running"
    BY <1>4 DEF EditSpec, Settled, Patient
  <2>4. QED
    BY <1>4, <2>2, <2>3
<1>5. QED
  BY <1>1, <1>2, <1>3, <1>4, ResourceStep

\* An upgrade ends when it is recorded and begins with an edit.
LEMMA ChangingStep ==
  ASSUME Patient, Versioned, TypeOK, SingleEditInvariant, Plain, [Next]_vars
  PROVE  \/ /\ mdb'.spec = mdb.spec /\ mdb'.lastApplied = mdb.lastApplied
            /\ IsChangingVersion(mdb') <=> IsChangingVersion(mdb)
         \/ /\ SaveLastApplied /\ pc = "annotate" /\ pc' = "idle" /\ UNCHANGED clusterVars
            /\ mdb'.spec = mdb.spec /\ mdb'.status = mdb.status
            /\ ~IsChangingVersion(mdb')
         \/ /\ EditSpec /\ pc = "idle" /\ pc' = "idle" /\ UNCHANGED clusterVars
            /\ mdb'.status = mdb.status /\ mdb.lastApplied = mdb.spec
            /\ mdb.status.phase = "Running" /\ ~Recorded' /\ Recorded
            /\ ~IsChangingVersion(mdb)
            /\ ~IsChangingVersion(mdb') => mdb'.spec.version = mdb.spec.version
BY VersionStep DEF IsChangingVersion, Plain, Versioned, Recorded

\* While the version changes, nothing is scaled: StatefulSet and config have
\* the members of the spec, and the StatefulSet goes first.
LEMMA Upgrading ==
  ASSUME TypeOK, ReconcileInvariant, SingleEditInvariant, CarefulInvariant, MemberOrder,
         IsChangingVersion(mdb) \/ Recorded
  PROVE  /\ Reached(mdb) /\ StatefulSetReplicasThisReconciliation(mdb) = mdb.spec.members
         /\ sts.replicas = mdb.spec.members /\ ac.content.members = mdb.spec.members
         /\ IsChangingVersion(mdb) => ~ShouldRunInOrder(mdb, FALSE, FALSE)
<1>0. /\ mdb \in Resources /\ mdb.spec.tls = FALSE /\ OneThingChanges(mdb) /\ Reported(mdb)
      /\ mdb.spec.members \in Nat /\ mdb.spec.arbiters \in Nat
  <2>1. mdb \in Resources /\ mdb.spec.tls = FALSE /\ OneThingChanges(mdb) /\ Reported(mdb)
    BY MemberFacts
  <2>2. mdb.spec.members \in Nat /\ mdb.spec.arbiters \in Nat
    BY <2>1 DEF Resources, Specs, Counts
  <2>3. QED
    BY <2>1, <2>2
<1>1. Reached(mdb)
  <2>1. CASE pc = "annotate"
    BY <2>1 DEF SingleEditInvariant, ReportStands, ReconcileInvariant, DeployedSoFar,
                NextStatus, Reached, IsStillScalingResource, IsStillScaling, MembersScaler,
                ArbitersScaler, Scaler, StatefulSetReplicasThisReconciliation,
                StatefulSetArbitersThisReconciliation
  <2>2. QED
    BY <1>0, <2>1 DEF OneThingChanges, Recorded
<1>2. StatefulSetReplicasThisReconciliation(mdb) = mdb.spec.members
  BY <1>0, <1>1, NextMembers DEF Reached
<1>3. sts.replicas = mdb.spec.members /\ ac.content.members = mdb.spec.members
  BY <1>1, <1>2 DEF MemberOrder, MembersInOrder, Reached
<1>4. IsChangingVersion(mdb) => ~ShouldRunInOrder(mdb, FALSE, FALSE)
  <2>1. ~IsScalingUp(MembersScaler(mdb)) /\ ~IsScalingDown(MembersScaler(mdb))
        /\ ~(mdb.status.stsArbiters < mdb.spec.arbiters)
    BY <1>0, <1>1 DEF Reached, MembersScaler, Scaler, IsScalingUp, IsScalingDown
  <2>2. QED
    BY <1>0, <2>1 DEF ShouldRunInOrder
<1>5. QED
  BY <1>1, <1>2, <1>3, <1>4

-----------------------------------------------------------------------------
(***************************************************************************)
(* The steps of the pods.                                                  *)
(***************************************************************************)
\* The StatefulSet controller never replaces a pod by itself.
LEMMA NoRolling ==
  ASSUME RollsNothing, NEW i \in Ordinals
  PROVE  ~RollPod(i)
BY DEF RollPod, PodReady, RollsNothing, Uniform

\* Except during an upgrade the version hook deletes no pod either, and once
\* an upgrade has waited for the agents it deletes none any more.
LEMMA NoHook ==
  ASSUME TypeOK, ReconcileInvariant, Plain, AtVersion, RollsNothing,
         ~IsChangingVersion(mdb) \/ Awaited, NEW i \in Ordinals
  PROVE  ~VersionHookDeletesPod(i)
<1> SUFFICES ASSUME pods[i].up, i < ac.content.members
             PROVE  pods[i].template.version = ac.content.version
  BY DEF VersionHookDeletesPod
<1>1. CASE ~IsChangingVersion(mdb)
  <2>1. ac.content.members > 0
    BY DEF Ordinals, TypeOK, ClusterTypeOK, Contents, Counts
  <2>2. pods[i].template.version = mdb.spec.version
    BY <1>1 DEF AtVersion, TemplateOf
  <2>3. QED
    BY <1>1, <2>1, <2>2 DEF AtVersion
<1>2. CASE Awaited
  <2>1. Uniform
    BY <1>2 DEF Awaited, RollsNothing, ReconcileInvariant, DeployedSoFar, StatefulSetWritten
  <2>2. sts.template.version = snap.spec.version
    BY <1>2 DEF Awaited, ReconcileInvariant, DeployedSoFar, StatefulSetWritten
  <2>3. ac.content = [BuiltContent(snap) EXCEPT !.override = snap.spec.override]
    BY <1>2 DEF Awaited, ReconcileInvariant, DeployedSoFar, ConfigWritten
  <2>4. ac.content.version = snap.spec.version
    BY <2>3 DEF BuiltContent
  <2>5. QED
    BY <2>1, <2>2, <2>4 DEF Uniform
<1>3. QED
  BY <1>1, <1>2

\* So the pods change one at a time in the other ways.
LEMMA PodSteps ==
  ASSUME RollsNothing, [Next]_vars
  PROVE  \/ pods' = pods
         \/ /\ UNCHANGED <<ac, sts, arbSts, mdb, oldMdb, snap, fresh, pc, inOrder, used>>
            /\ \E k \in Ordinals :
                 \/ CreatePod(k) \/ RemovePod(k) \/ ReachGoalState(k)
                 \/ ProbeNotReady(k) \/ ProbeWaitStep(k) \/ VersionHookDeletesPod(k)
BY PodsStep, NoRolling

\* And without an upgrade in the other ways but one.
LEMMA CalmPodSteps ==
  ASSUME TypeOK, ReconcileInvariant, Plain, AtVersion, RollsNothing,
         ~IsChangingVersion(mdb) \/ Awaited, [Next]_vars
  PROVE  \/ pods' = pods
         \/ /\ UNCHANGED <<ac, sts, arbSts, mdb, oldMdb, snap, fresh, pc, inOrder, used>>
            /\ \E k \in Ordinals :
                 \/ CreatePod(k) \/ RemovePod(k) \/ ReachGoalState(k)
                 \/ ProbeNotReady(k) \/ ProbeWaitStep(k)
BY PodSteps, NoHook

\* A pod that comes up is made from the template of an existing StatefulSet.
LEMMA PodTemplates ==
  ASSUME TypeOK, Plain, [Next]_vars, NEW k \in Ordinals, sts' = sts,
         \/ CreatePod(k) \/ RemovePod(k) \/ ReachGoalState(k)
         \/ ProbeNotReady(k) \/ ProbeWaitStep(k) \/ VersionHookDeletesPod(k)
  PROVE  \A i \in Ordinals :
           pods'[i].up => /\ sts.exists
                          /\ \/ pods'[i].template = sts.template
                             \/ pods[i].up /\ pods'[i].template = pods[i].template
<1>1. CreatePod(k) => sts.exists
  <2>1. sts.replicas \in Nat /\ k \in Nat
    BY DEF TypeOK, ClusterTypeOK, Counts, Ordinals
  <2>2. QED
    BY <2>1, PodEffects DEF Plain
<1>2. pods'[k].up => /\ sts.exists
                     /\ \/ pods'[k].template = sts.template
                        \/ pods[k].up /\ pods'[k].template = pods[k].template
  BY <1>1, PodEffects DEF Plain
<1>3. \A j \in Ordinals : j # k => pods'[j] = pods[j]
  BY PodEffects
<1>4. QED
  BY <1>2, <1>3 DEF Plain

\* No step brings TLS, a pod without StatefulSet or a member without config.
LEMMA PlainStep ==
  ASSUME Patient, TypeOK, ReconcileInvariant, SingleEditInvariant, CarefulInvariant,
         Plain, RollsNothing, [Next]_vars
  PROVE  Plain'
<1>0. snap \in Resources /\ ac \in ConfigType /\ sts \in StatefulSetType
  BY DEF TypeOK, ClusterTypeOK, ConfigType, StatefulSetType
<1>1. mdb'.spec \in UserSpecs
  BY VersionStep DEF Plain
<1>2. /\ ~sts'.exists => sts'.replicas = 0
      /\ sts'.template.tls = FALSE
      /\ sts.exists => sts'.exists
  <2>1. CASE CreateOrUpdateStatefulSet
    <3>1. /\ sts'.exists = TRUE
          /\ sts'.template = [version |-> snap.spec.version, tls |-> snap.spec.tls]
      BY <1>0, <2>1, DesiredStatefulSetFields, DesiredExists, ThisReconciliationType
         DEF CreateOrUpdateStatefulSet
    <3>2. snap.spec.tls = FALSE
      BY DEF CarefulInvariant, NoTLS
    <3>3. QED
      BY <3>1, <3>2
  <2>2. QED
    BY <2>1, StatefulSetStep DEF Plain
<1>3. \A i \in Ordinals : pods'[i].up => sts'.exists /\ pods'[i].template.tls = FALSE
  <2>1. CASE pods' = pods
    BY <1>2, <2>1 DEF Plain
  <2>2. ASSUME sts' = sts, NEW k \in Ordinals,
               \/ CreatePod(k) \/ RemovePod(k) \/ ReachGoalState(k)
               \/ ProbeNotReady(k) \/ ProbeWaitStep(k) \/ VersionHookDeletesPod(k)
        PROVE  \A i \in Ordinals : pods'[i].up => sts'.exists /\ pods'[i].template.tls = FALSE
    BY <2>2, PodTemplates DEF Plain
  <2>3. QED
    BY <2>1, <2>2, PodSteps
<1>4. ac'.version = 0 => ac'.content.members = 0
  <2>1. CASE EnsureAutomationConfig
    <3>1. \/ ac'.version = ac.version /\ ac'.content.members = ac.content.members
          \/ ac'.version = ac.version + 1
      BY <1>0, <2>1, EnsuredConfig DEF EnsureAutomationConfig
    <3>2. ac.version \in Nat
      BY <1>0 DEF ConfigType
    <3>3. QED
      BY <3>1, <3>2 DEF Plain
  <2>2. QED
    BY <2>1, ConfigStep DEF Plain
<1>5. QED
  BY <1>1, <1>2, <1>3, <1>4 DEF Plain

\* The StatefulSet after a step, when the version of the spec stays.
LEMMA StatefulSetAtVersion ==
  ASSUME TypeOK, CarefulInvariant, AtVersion, ~IsChangingVersion(mdb), [Next]_vars
  PROVE  /\ sts'.strategy = "RollingUpdate"
         /\ sts'.exists => sts'.template = TemplateOf(mdb)
<1>1. CASE CreateOrUpdateStatefulSet
  <2>1. snap = mdb /\ mdb \in Resources /\ sts \in StatefulSetType /\ mdb.spec.tls = FALSE
    BY <1>1 DEF CreateOrUpdateStatefulSet, CarefulInvariant, CopyIsResource, NoTLS, TypeOK,
                ClusterTypeOK, StatefulSetType
  <2>2. /\ sts'.strategy = GetUpdateStrategyType(mdb)
        /\ sts'.template = [version |-> mdb.spec.version, tls |-> mdb.spec.tls]
    BY <1>1, <2>1, DesiredStatefulSetFields, ThisReconciliationType
       DEF CreateOrUpdateStatefulSet
  <2>3. QED
    BY <2>1, <2>2 DEF GetUpdateStrategyType, TemplateOf
<1>2. QED
  BY <1>1, StatefulSetStep DEF AtVersion

\* What is deployed has the version of the spec: an upgrade that is recorded
\* has waited for the last pod.
LEMMA AtVersionStep ==
  ASSUME Patient, Versioned, TypeOK, ReconcileInvariant, SingleEditInvariant, CarefulInvariant,
         Plain, AtVersion, RollsNothing, [Next]_vars
  PROVE  AtVersion'
<1>0. snap \in Resources /\ ac \in ConfigType
  BY DEF TypeOK, ClusterTypeOK, ConfigType
<1> SUFFICES ASSUME ~IsChangingVersion(mdb')
             PROVE  /\ sts'.strategy = "RollingUpdate"
                    /\ sts'.exists => sts'.template = TemplateOf(mdb')
                    /\ \A i \in Ordinals : pods'[i].up => pods'[i].template = TemplateOf(mdb')
                    /\ ac'.content.members > 0 => ac'.content.version = mdb'.spec.version
  BY DEF AtVersion, IsChangingVersion, TemplateOf
<1>1. CASE mdb'.spec = mdb.spec /\ ~IsChangingVersion(mdb)
  <2>1. TemplateOf(mdb') = TemplateOf(mdb)
    BY <1>1 DEF TemplateOf
  <2>2. sts'.strategy = "RollingUpdate" /\ (sts'.exists => sts'.template = TemplateOf(mdb))
    BY <1>1, StatefulSetAtVersion
  <2>3. \A i \in Ordinals : pods'[i].up => pods'[i].template = TemplateOf(mdb)
    <3>1. CASE pods' = pods
      BY <1>1, <3>1 DEF AtVersion
    <3>2. ASSUME sts' = sts, NEW k \in Ordinals,
                 \/ CreatePod(k) \/ RemovePod(k) \/ ReachGoalState(k)
                 \/ ProbeNotReady(k) \/ ProbeWaitStep(k) \/ VersionHookDeletesPod(k)
          PROVE  \A i \in Ordinals : pods'[i].up => pods'[i].template = TemplateOf(mdb)
      BY <1>1, <3>2, PodTemplates DEF AtVersion
    <3>3. QED
      BY <3>1, <3>2, PodSteps
  <2>4. ac'.content.members > 0 => ac'.content.version = mdb.spec.version
    <3>1. CASE EnsureAutomationConfig
      BY <1>0, <3>1, EnsuredConfig DEF EnsureAutomationConfig, CarefulInvariant, CopyIsResource
    <3>2. QED
      BY <1>1, <3>1, ConfigStep DEF AtVersion
  <2>5. QED
    BY <1>1, <2>1, <2>2, <2>3, <2>4
<1>2. CASE SaveLastApplied /\ pc = "annotate" /\ UNCHANGED clusterVars /\ mdb'.spec = mdb.spec
  <2>1. snap.spec = mdb.spec /\ snap.spec.tls = FALSE
    BY <1>2 DEF SingleEditInvariant, ReportStands, CarefulInvariant, NoTLS
  <2>2. sts.strategy = "RollingUpdate" /\ sts.template = TemplateOf(mdb')
    BY <1>2, <2>1 DEF ReconcileInvariant, DeployedSoFar, StatefulSetWritten, TemplateOf
  <2>3. ac.content = [BuiltContent(snap) EXCEPT !.override = snap.spec.override]
    BY <1>2 DEF ReconcileInvariant, DeployedSoFar, ConfigWritten
  <2>4. ac.content.version = snap.spec.version
    BY <2>3 DEF BuiltContent
  <2>5. QED
    BY <1>2, <2>1, <2>2, <2>4 DEF RollsNothing, Uniform, clusterVars
<1>3. CASE /\ UNCHANGED clusterVars /\ ~IsChangingVersion(mdb)
           /\ mdb'.spec.version = mdb.spec.version
  BY <1>3 DEF AtVersion, TemplateOf, clusterVars
<1>4. QED
  BY <1>1, <1>2, <1>3, ChangingStep

\* When an upgrade has waited for the agents, every pod has the new version:
\* no pod is beyond the members it asks about, and an agent in the goal state
\* runs the version of the config.
LEMMA UpgradeAwaited ==
  ASSUME TypeOK, ReconcileInvariant, SingleEditInvariant, CarefulInvariant, MemberOrder,
         Plain, AtVersion, NoSurplus, GoalMeansVersion, IsChangingVersion(mdb),
         ~Awaited, Awaited', [Next]_vars
  PROVE  /\ AwaitAgents /\ pc = "agents" /\ snap = mdb
         /\ UNCHANGED clusterVars /\ UNCHANGED mdb
         /\ ~sts.exists \/ AllReachedGoalState(mdb.spec.members)
         /\ Uniform
<1>1. /\ Reached(mdb) /\ StatefulSetReplicasThisReconciliation(mdb) = mdb.spec.members
      /\ ac.content.members = mdb.spec.members /\ ~ShouldRunInOrder(mdb, FALSE, FALSE)
  BY Upgrading
<1>2. pc' \notin {"idle", "prepare", "order"}
  BY DEF Awaited
<1>3. \/ AwaitAgents /\ pc = "agents"
      \/ AwaitStatefulSet /\ pc = "stsReady" /\ inOrder
  BY <1>2, PlaceStep DEF Awaited
<1>4. snap = mdb /\ ~inOrder
  BY <1>1, <1>3 DEF CarefulInvariant, CopyIsResource, Ordered
<1>5. AwaitAgents /\ pc = "agents"
  BY <1>3, <1>4
<1>6. /\ UNCHANGED clusterVars /\ UNCHANGED mdb
      /\ ~sts.exists \/ AllReachedGoalState(mdb.spec.members)
  BY <1>1, <1>2, <1>4, <1>5 DEF AwaitAgents, Continue, EndWithPhase, EndReconcile
<1>7. Uniform
  <2> SUFFICES ASSUME NEW i \in Ordinals, pods[i].up
               PROVE  pods[i].template = sts.template
    BY DEF Uniform
  <2>1. i < mdb.spec.members /\ AllReachedGoalState(mdb.spec.members)
    BY <1>6 DEF NoSurplus, Plain
  <2>2. InGoalState(i)
    BY <2>1 DEF AllReachedGoalState
  <2>3. pods[i].template.version = ac.content.version
    BY <1>1, <2>1, <2>2 DEF GoalMeansVersion
  <2>4. ac.content = [BuiltContent(mdb) EXCEPT !.override = mdb.spec.override]
    BY <1>4, <1>5 DEF ReconcileInvariant, DeployedSoFar, ConfigWritten
  <2>5. ac.content.version = mdb.spec.version
    BY <2>4 DEF BuiltContent
  <2>6. sts.template.version = mdb.spec.version
    BY <1>4, <1>5 DEF ReconcileInvariant, DeployedSoFar, StatefulSetWritten
  <2>7. pods[i].template \in Templates /\ sts.template \in Templates
    BY DEF TypeOK, ClusterTypeOK
  <2>8. pods[i].template.tls = sts.template.tls
    BY DEF Plain
  <2>9. QED
    BY <2>3, <2>5, <2>6, <2>7, <2>8 DEF Templates
<1>8. QED
  BY <1>4, <1>5, <1>6, <1>7

\* So Kubernetes is put in charge again only when nothing is left to update.
LEMMA RollsNothingStep ==
  ASSUME TypeOK, ReconcileInvariant, SingleEditInvariant, CarefulInvariant, MemberOrder,
         Plain, AtVersion, RollsNothing, NoSurplus, GoalMeansVersion, [Next]_vars
  PROVE  RollsNothing'
<1> SUFFICES ASSUME sts'.strategy = "RollingUpdate" \/ pc' = "reset"
             PROVE  Uniform'
  BY DEF RollsNothing
<1>1. CASE CreateOrUpdateStatefulSet
  <2>1. /\ snap = mdb /\ pods' = pods /\ pc' = "arbSts"
        /\ mdb \in Resources /\ sts \in StatefulSetType
    BY <1>1 DEF CreateOrUpdateStatefulSet, Continue, CarefulInvariant, CopyIsResource, TypeOK,
                ClusterTypeOK, StatefulSetType
  <2>2. sts'.strategy = GetUpdateStrategyType(mdb) /\ sts'.exists = TRUE
    BY <1>1, <2>1, DesiredStatefulSetFields, DesiredExists, ThisReconciliationType
       DEF CreateOrUpdateStatefulSet
  <2>3. ~IsChangingVersion(mdb)
    BY <2>1, <2>2 DEF GetUpdateStrategyType
  <2>4. sts'.template = TemplateOf(mdb)
    BY <2>2, <2>3, StatefulSetAtVersion
  <2>5. QED
    BY <2>1, <2>3, <2>4 DEF AtVersion, Uniform
<1>2. ASSUME UNCHANGED <<sts, pc>>, NEW k \in Ordinals,
             \/ CreatePod(k) \/ RemovePod(k) \/ ReachGoalState(k)
             \/ ProbeNotReady(k) \/ ProbeWaitStep(k) \/ VersionHookDeletesPod(k)
      PROVE  Uniform'
  <2>1. Uniform
    BY <1>2 DEF RollsNothing
  <2>2. QED
    BY <1>2, <2>1, PodTemplates DEF Uniform
<1>3. CASE pods' = pods /\ sts'.template = sts.template /\ Uniform
  BY <1>3 DEF Uniform
<1>4. CASE /\ pods' = pods /\ sts'.template = sts.template
           /\ sts'.strategy = sts.strategy \/ ResetUpdateStrategy
  <2>1. CASE sts.strategy = "RollingUpdate" \/ pc = "reset"
    BY <1>3, <1>4, <2>1 DEF RollsNothing
  <2>2. CASE ~IsChangingVersion(mdb)
    BY <2>1, <2>2 DEF AtVersion
  <2>3. CASE IsChangingVersion(mdb) /\ pc # "reset" /\ pc' = "reset"
    <3>1. ~Awaited /\ Awaited'
      BY <2>3, PlaceStep DEF Awaited
    <3>2. QED
      BY <1>3, <1>4, <2>3, <3>1, UpgradeAwaited
  <2>4. QED
    BY <1>4, <2>1, <2>2, <2>3 DEF ResetUpdateStrategy
<1>5. QED
  BY <1>1, <1>2, <1>4, PodSteps, StatefulSetStep

\* Running is recorded for the spec as it is when it has just been reported, or
\* was before.
LEMMA RecordedStep ==
  ASSUME Patient, TypeOK, SingleEditInvariant, CarefulInvariant, [Next]_vars, Recorded'
  PROVE  \/ Recorded /\ mdb'.spec = mdb.spec /\ mdb'.status = mdb.status
         \/ /\ UpdateStatus /\ fresh /\ pc = "status" /\ snap = mdb /\ UNCHANGED clusterVars
            /\ ~IsStillScalingResource(mdb)
            /\ mdb'.spec = mdb.spec /\ mdb'.status = NextStatus(mdb)
<1>0. mdb \in Resources
  BY DEF TypeOK
<1>1. CASE UpdateStatus /\ fresh /\ mdb' = [mdb EXCEPT !.status = NextStatus(snap)]
  <2>1. /\ pc = "status" /\ snap = mdb /\ UNCHANGED clusterVars
    BY <1>1 DEF UpdateStatus, CarefulInvariant, CopyIsResource
  <2>2. mdb'.status = NextStatus(mdb) /\ mdb'.spec = mdb.spec
    BY <1>0, <1>1, <2>1, ResourceFields
  <2>3. ~IsStillScalingResource(mdb)
    <3>1. CASE pc' = "annotate"
      BY <1>1, <2>1, <3>1, AnnotateStep DEF UpdateStatus, EndReconcile
    <3>2. CASE mdb'.status.phase = "Running"
      BY <2>2, <3>2 DEF NextStatus
    <3>3. QED
      BY <3>1, <3>2 DEF Recorded
  <2>4. QED
    BY <1>1, <2>1, <2>2, <2>3
<1>2. CASE EditSpec
  <2>1. pc' = "idle" /\ mdb'.lastApplied # mdb'.spec
    <3>1. PICK spec \in UserSpecs \ {mdb.spec} : mdb' = [mdb EXCEPT !.spec = spec]
      BY <1>2 DEF EditSpec, Store
    <3>2. mdb'.spec = spec /\ mdb'.lastApplied = mdb.lastApplied
      BY <1>0, <3>1, ResourceFields
    <3>3. QED
      BY <1>2, <3>1, <3>2 DEF EditSpec, Settled, Patient
  <2>2. QED
    BY <2>1 DEF Recorded
<1>3. CASE SaveLastApplied /\ mdb' = [mdb EXCEPT !.lastApplied = snap.spec]
  BY <1>0, <1>3, ResourceFields DEF SaveLastApplied, Recorded
<1>4. CASE \E phase \in {"Failed", "Pending"} :
             mdb' = [mdb EXCEPT !.status.phase = phase] /\ pc' = "idle"
  BY <1>0, <1>4, ResourceFields DEF Recorded
<1>5. CASE mdb' = mdb
           /\ ~(UpdateStatus /\ fresh /\ mdb' = [mdb EXCEPT !.status = NextStatus(snap)])
  <2>1. pc' = "annotate" => pc = "annotate"
    BY <1>5, AnnotateStep DEF UpdateStatus, Store
  <2>2. QED
    BY <1>5, <2>1 DEF Recorded
<1>6. QED
  BY <1>1, <1>2, <1>3, <1>4, <1>5, ResourceStep

\* No pod beyond the members: a report without scaling has counted the pods,
\* and no pod is created beyond the replicas.
LEMMA NoSurplusStep ==
  ASSUME Patient, Versioned, TypeOK, ReconcileInvariant, SingleEditInvariant,
         SingleEditInvariant', CarefulInvariant, MemberOrder,
         Plain, RollsNothing, NoSurplus, ExactPods, [Next]_vars
  PROVE  NoSurplus'
<1> SUFFICES ASSUME IsChangingVersion(mdb') \/ Recorded'
             PROVE  \A i \in Ordinals : pods'[i].up => i < mdb'.spec.members
  BY DEF NoSurplus, IsChangingVersion
<1>1. CASE EditSpec
  <2>1. /\ UNCHANGED clusterVars /\ mdb'.status = mdb.status /\ Recorded
        /\ ~Recorded' /\ mdb.lastApplied = mdb.spec
    <3>1. PICK spec \in UserSpecs \ {mdb.spec} : mdb' = [mdb EXCEPT !.spec = spec]
      BY <1>1 DEF EditSpec, Store
    <3>2. mdb'.spec # mdb.spec
      BY <3>1, ResourceFields DEF TypeOK
    <3>3. QED
      BY <3>2, ChangingStep
  <2>2. Reached(mdb) /\ Reached(mdb')
    BY <2>1 DEF SingleEditInvariant, OneThingChanges
  <2>3. mdb'.spec.members = mdb.spec.members
    BY <2>1, <2>2 DEF Reached
  <2>4. QED
    BY <2>1, <2>3 DEF NoSurplus, clusterVars
<1>2. CASE (IsChangingVersion(mdb) \/ Recorded) /\ mdb'.spec = mdb.spec
  <2>0. sts.replicas = mdb.spec.members
    BY <1>2, Upgrading
  <2>1. CASE pods' = pods
    BY <1>2, <2>1 DEF NoSurplus
  <2>2. ASSUME NEW k \in Ordinals,
               \/ CreatePod(k) \/ RemovePod(k) \/ ReachGoalState(k)
               \/ ProbeNotReady(k) \/ ProbeWaitStep(k) \/ VersionHookDeletesPod(k)
        PROVE  \A i \in Ordinals : pods'[i].up => i < mdb.spec.members
    <3>1. \A j \in Ordinals : j # k => pods'[j] = pods[j]
      BY <2>2, PodEffects
    <3>2. pods'[k].up => pods[k].up \/ k < sts.replicas
      BY <2>2, PodEffects
    <3>3. QED
      BY <1>2, <2>0, <3>1, <3>2 DEF NoSurplus
  <2>3. QED
    BY <1>2, <2>1, <2>2, PodSteps
<1>3. CASE /\ UpdateStatus /\ pc = "status" /\ snap = mdb /\ UNCHANGED clusterVars
           /\ ~IsStillScalingResource(mdb) /\ ~IsChangingVersion(mdb)
           /\ mdb'.spec = mdb.spec
  <2>1. \A i \in Ordinals : pods[i].up => i < StatefulSetReplicasThisReconciliation(mdb)
    BY <1>3 DEF ExactPods, StatefulSetAwaited
  <2>2. StatefulSetReplicasThisReconciliation(mdb) = mdb.spec.members
    BY <1>3 DEF IsStillScalingResource, IsStillScaling, MembersScaler, Scaler,
                StatefulSetReplicasThisReconciliation
  <2>3. QED
    BY <1>3, <2>1, <2>2 DEF clusterVars
<1>4. ~EditSpec => mdb'.spec = mdb.spec
  BY SpecStep
<1>5. CASE Recorded'
  BY <1>1, <1>2, <1>3, <1>4, <1>5, RecordedStep
<1>6. CASE IsChangingVersion(mdb')
  BY <1>1, <1>2, <1>4, <1>6, ChangingStep
<1>7. QED
  BY <1>5, <1>6

\* The pods that are up are the first ones, except while the version hook
\* deletes them one by one.
LEMMA InOrderStep ==
  ASSUME Patient, Versioned, TypeOK, ReconcileInvariant, SingleEditInvariant, CarefulInvariant,
         MemberOrder, Plain, AtVersion, RollsNothing, NoSurplus, GoalMeansVersion,
         InOrderUnlessChanging, [Next]_vars
  PROVE  InOrderUnlessChanging'
<1> SUFFICES ASSUME ~IsChangingVersion(mdb') \/ Awaited'
             PROVE  PodsInOrder'
  BY DEF InOrderUnlessChanging, IsChangingVersion
<1>1. CASE ~IsChangingVersion(mdb) \/ Awaited
  <2>0. PodsInOrder
    BY <1>1 DEF InOrderUnlessChanging
  <2>1. CASE pods' = pods
    BY <2>0, <2>1 DEF PodsInOrder
  <2>2. ASSUME NEW k \in Ordinals,
               \/ CreatePod(k) \/ RemovePod(k) \/ ReachGoalState(k)
               \/ ProbeNotReady(k) \/ ProbeWaitStep(k)
        PROVE  PodsInOrder'
    <3>1. \A j \in Ordinals : j # k => pods'[j] = pods[j]
      BY <2>2, PodEffects
    <3>2. CASE CreatePod(k)
      <4>1. pods'[k].up /\ \A j \in Ordinals : j < k => pods[j].up
        BY <3>2, PodEffects
      <4>2. QED
        BY <2>0, <3>1, <4>1 DEF PodsInOrder, Ordinals
    <3>3. CASE RemovePod(k)
      <4>1. ~pods'[k].up /\ \A j \in Ordinals : j > k => ~pods[j].up
        BY <3>3, PodEffects
      <4>2. QED
        BY <2>0, <3>1, <4>1 DEF PodsInOrder, Ordinals
    <3>4. CASE pods'[k].up = pods[k].up
      BY <2>0, <3>1, <3>4 DEF PodsInOrder
    <3>5. QED
      BY <2>2, <3>2, <3>3, <3>4, PodEffects
  <2>3. QED
    BY <1>1, <2>1, <2>2, CalmPodSteps
<1>2. CASE IsChangingVersion(mdb) /\ ~Awaited
  <2>1. Awaited'
    BY <1>2, ChangingStep DEF Awaited
  <2>2. /\ UNCHANGED clusterVars
        /\ ~sts.exists \/ AllReachedGoalState(mdb.spec.members)
    BY <1>2, <2>1, UpgradeAwaited
  <2>3. \A i \in Ordinals : pods[i].up => i < mdb.spec.members
    BY <1>2 DEF NoSurplus
  <2>4. mdb.spec.members \in Nat
    BY DEF TypeOK, Resources, Specs, Counts
  <2>5. ASSUME NEW i \in Ordinals, NEW j \in Ordinals, i < j, pods[j].up
        PROVE  pods[i].up
    <3>1. j < mdb.spec.members /\ AllReachedGoalState(mdb.spec.members)
      BY <2>2, <2>3, <2>5 DEF Plain
    <3>2. i < mdb.spec.members
      BY <2>4, <2>5, <3>1 DEF Ordinals
    <3>3. QED
      BY <2>5, <3>1, <3>2 DEF AllReachedGoalState
  <2>6. QED
    BY <2>2, <2>5 DEF PodsInOrder, clusterVars
<1>3. QED
  BY <1>1, <1>2

\* A StatefulSet that is ready with n replicas has exactly the first n pods,
\* and all of them are ready (statefulset.IsReady only counts them).
LEMMA ReadyPods ==
  ASSUME Uniform, PodsInOrder, NEW n \in Counts, IsReady(n)
  PROVE  \A i \in Ordinals : /\ pods[i].up <=> i < n
                             /\ i < n => PodReady(i)
<1> DEFINE up    == {i \in Ordinals : pods[i].up /\ pods[i].template = sts.template}
           ready == {i \in Ordinals : PodReady(i)}
<1>1. Cardinality(up) = n /\ Cardinality(ready) = n
  BY DEF IsReady
<1>2. \A i \in Ordinals : i \in up <=> pods[i].up
  BY DEF Uniform
<1>3. \A i \in Ordinals : i \in up <=> i < n
  <2>1. \A i, j \in Ordinals : i < j /\ j \in up => i \in up
    BY <1>2 DEF PodsInOrder
  <2> HIDE DEF up
  <2>2. up \in SUBSET Ordinals
    BY DEF up
  <2>3. QED
    BY <1>1, <2>1, <2>2, FirstOrdinals
<1>4. ready = up
  <2>1. ready \subseteq up
    BY <1>2 DEF PodReady
  <2>2. IsFiniteSet(up)
    <3>1. IsFiniteSet(Ordinals)
      BY MaxMembersAssumption, FS_Interval DEF Ordinals
    <3>2. QED
      BY <3>1, FS_Subset
  <2> HIDE DEF up, ready
  <2>3. QED
    BY <1>1, <2>1, <2>2, FS_Subset
<1>5. QED
  BY <1>2, <1>3, <1>4

\* IsReady, and no one, adds or removes a pod once the StatefulSet is awaited.
LEMMA ExactPodsStep ==
  ASSUME Patient, Versioned, TypeOK, ReconcileInvariant, SingleEditInvariant,
         Plain, AtVersion, RollsNothing, InOrderUnlessChanging, ExactPods, [Next]_vars
  PROVE  ExactPods'
<1> DEFINE n == StatefulSetReplicasThisReconciliation(snap)
<1> SUFFICES ASSUME ~IsChangingVersion(mdb'), StatefulSetAwaited'
             PROVE  \A i \in Ordinals : pods'[i].up <=> i < n
  <2>1. StatefulSetAwaited' => snap' = snap
    BY StatefulSetAwaitedStep
  <2>2. QED
    BY <2>1 DEF ExactPods, StatefulSetReplicasThisReconciliation, MembersScaler, Scaler,
                ReplicasThisReconciliation, IsScalingDown, IsChangingVersion
<1>0. ~IsChangingVersion(mdb)
  <2>1. pc' # "idle"
    BY DEF StatefulSetAwaited
  <2>2. QED
    BY <2>1, ChangingStep
<1>1. n \in Counts
  BY ThisReconciliationType DEF TypeOK
<1>2. CASE ~StatefulSetAwaited
  <2>1. pods' = pods /\ (IsReady(n) \/ sts.strategy = "OnDelete")
    BY <1>2, StatefulSetAwaitedStep
  <2>2. IsReady(n) /\ Uniform /\ PodsInOrder
    BY <1>0, <2>1 DEF AtVersion, RollsNothing, InOrderUnlessChanging
  <2> HIDE DEF n
  <2>3. QED
    BY <1>1, <2>1, <2>2, ReadyPods
<1>3. CASE StatefulSetAwaited
  <2>1. sts.replicas = n
    BY <1>3 DEF StatefulSetAwaited, ReconcileInvariant, DeployedSoFar, StatefulSetWritten
  <2>2. \A i \in Ordinals : pods[i].up <=> i < n
    BY <1>0, <1>3 DEF ExactPods
  <2>3. ASSUME NEW k \in Ordinals,
               \/ CreatePod(k) \/ RemovePod(k) \/ ReachGoalState(k)
               \/ ProbeNotReady(k) \/ ProbeWaitStep(k)
        PROVE  \A i \in Ordinals : pods'[i].up <=> i < n
    <3>1. \A j \in Ordinals : j # k => pods'[j] = pods[j]
      BY <2>3, PodEffects
    <3>2. ~CreatePod(k)
      BY <2>1, <2>2, PodEffects
    <3>3. RemovePod(k) => ~pods'[k].up /\ k >= n
      BY <2>1, PodEffects
    <3>4. ~RemovePod(k) => pods'[k].up = pods[k].up
      BY <2>3, <3>2, PodEffects
    <3>5. n \in Nat /\ k \in Nat
      BY <1>1, MaxMembersAssumption DEF Counts, Ordinals
    <3>6. RemovePod(k) => ~(k < n)
      BY <3>3, <3>5
    <3>7. pods'[k].up <=> k < n
      BY <2>2, <3>3, <3>4, <3>6
    <3>8. QED
      BY <2>2, <3>1, <3>7
  <2>4. QED
    BY <1>0, <2>2, <2>3, CalmPodSteps
<1>4. QED
  BY <1>2, <1>3

\* A config that names other members or another version has a new version
\* number, which no agent has reached; an agent reaches it with the image of
\* that version only.
LEMMA GoalMeansVersionStep ==
  ASSUME TypeOK, Plain, RollsNothing, GoalMeansVersion, [Next]_vars
  PROVE  GoalMeansVersion'
<1>0. /\ snap \in Resources /\ ac \in ConfigType /\ ac.version \in Nat
      /\ ac.content.members \in Nat /\ \A i \in Ordinals : pods[i].annotation \in Nat
  BY DEF TypeOK, ClusterTypeOK, ConfigType, Contents, Counts
<1> SUFFICES ASSUME NEW i \in Ordinals
             PROVE  /\ pods'[i].annotation <= ac'.version
                    /\ pods'[i].up /\ pods'[i].annotation = ac'.version
                         /\ i < ac'.content.members
                       => pods'[i].template.version = ac'.content.version
  BY DEF GoalMeansVersion, InGoalState
<1>1. CASE EnsureAutomationConfig
  <2>1. pods' = pods
    BY <1>1 DEF EnsureAutomationConfig
  <2>2. \/ /\ ac'.version = ac.version /\ ac'.content.members = ac.content.members
           /\ ac'.content.version = ac.content.version
        \/ ac'.version = ac.version + 1
    BY <1>0, <1>1, EnsuredConfig DEF EnsureAutomationConfig
  <2>3. QED
    BY <1>0, <2>1, <2>2 DEF GoalMeansVersion, InGoalState
<1>2. CASE pods' = pods /\ ac' = ac
  BY <1>2 DEF GoalMeansVersion, InGoalState
<1>3. ASSUME ac' = ac, NEW k \in Ordinals,
             \/ CreatePod(k) \/ RemovePod(k) \/ ReachGoalState(k)
             \/ ProbeNotReady(k) \/ ProbeWaitStep(k) \/ VersionHookDeletesPod(k)
      PROVE  /\ pods'[i].annotation <= ac'.version
             /\ pods'[i].up /\ pods'[i].annotation = ac'.version /\ i < ac'.content.members
                => pods'[i].template.version = ac'.content.version
  <2>1. CASE i # k
    <3>1. pods'[i] = pods[i]
      BY <1>3, <2>1, PodEffects
    <3>2. QED
      BY <1>3, <3>1 DEF GoalMeansVersion, InGoalState
  <2>2. CASE i = k /\ CreatePod(k)
    <3>1. pods'[i].annotation = 0
      BY <2>2, PodEffects
    <3>2. ac.version = 0 => ~(i < ac.content.members)
      BY <1>0 DEF Plain, Ordinals
    <3>3. QED
      BY <1>0, <1>3, <3>1, <3>2
  <2>3. CASE i = k /\ (RemovePod(k) \/ VersionHookDeletesPod(k))
    <3>1. ~pods'[i].up /\ pods'[i].annotation = 0
      BY <2>3, PodEffects
    <3>2. QED
      BY <1>0, <1>3, <3>1
  <2>4. CASE i = k /\ ReachGoalState(k)
    <3>1. /\ CanReachGoal(i) /\ pods'[i].annotation = ac.version
          /\ pods'[i].template = pods[i].template
      BY <2>4, PodEffects
    <3>2. QED
      BY <1>0, <1>3, <3>1 DEF CanReachGoal
  <2>5. CASE i = k /\ (ProbeNotReady(k) \/ ProbeWaitStep(k))
    <3>1. /\ pods'[i].annotation = pods[i].annotation /\ pods'[i].up = pods[i].up
          /\ pods'[i].template = pods[i].template
      BY <2>5, PodEffects
    <3>2. QED
      BY <1>3, <3>1 DEF GoalMeansVersion, InGoalState
  <2>6. QED
    BY <1>3, <2>1, <2>2, <2>3, <2>4, <2>5
<1>4. QED
  BY <1>1, <1>2, <1>3, ConfigStep, PodSteps

-----------------------------------------------------------------------------
(***************************************************************************)
(* Upgrades.                                                               *)
(***************************************************************************)
\* Nothing is deployed at first.
LEMMA RolloutInit ==
  ASSUME Init PROVE RolloutInvariant
<1>1. PICK spec \in UserSpecs : mdb = NewResource(spec)
  BY DEF Init
<1>2. mdb.spec = spec /\ mdb.status = NewStatus /\ mdb.lastApplied = NoSpec
  BY <1>1 DEF NewResource
<1>3. NewStatus.phase = "" /\ NoSpec.version = NoVersion
  BY DEF NewStatus, NoSpec
<1>4. /\ ac.version = 0 /\ ac.content.members = 0 /\ sts.replicas = 0 /\ sts.exists = FALSE
      /\ sts.strategy = "RollingUpdate" /\ sts.template = NoTemplate
  BY DEF Init, ClusterInit, NoConfig, NoStatefulSet
<1>5. \A i \in Ordinals : ~pods[i].up /\ pods[i].annotation = 0
  BY DEF Init, ClusterInit, NoPod
<1>6. pc = "idle"
  BY DEF Init
<1>7. NoTemplate.tls = FALSE
  BY DEF NoTemplate
<1>8. mdb.spec \in UserSpecs /\ mdb.lastApplied.version = NoVersion
  BY <1>2, <1>3
<1>9. ~(ac.content.members > 0) /\ 0 <= ac.version
  BY <1>4
<1>10. Plain
  BY <1>4, <1>5, <1>7, <1>8, Zenon DEF Plain
<1>11. AtVersion /\ RollsNothing /\ PodsInOrder
  BY <1>4, <1>5, <1>9, Zenon DEF AtVersion, RollsNothing, Uniform, PodsInOrder
<1>12. NoSurplus /\ GoalMeansVersion /\ InOrderUnlessChanging
  BY <1>5, <1>9, <1>11, Zenon DEF NoSurplus, GoalMeansVersion, InOrderUnlessChanging
<1>13. ExactPods
  BY <1>6 DEF ExactPods, StatefulSetAwaited
<1>14. QED
  BY <1>10, <1>11, <1>12, <1>13 DEF RolloutInvariant

\* A step of a system that has not used TLS keeps the invariant.
LEMMA RolloutStep ==
  ASSUME Patient, Versioned, TypeOK, ReconcileInvariant, SingleEditInvariant,
         SingleEditInvariant', CarefulInvariant, MemberOrder, RolloutInvariant, [Next]_vars
  PROVE  RolloutInvariant'
<1>1. Plain' /\ AtVersion'
  BY PlainStep, AtVersionStep DEF RolloutInvariant
<1>2. RollsNothing' /\ NoSurplus'
  BY RollsNothingStep, NoSurplusStep DEF RolloutInvariant
<1>3. InOrderUnlessChanging' /\ ExactPods' /\ GoalMeansVersion'
  BY InOrderStep, ExactPodsStep, GoalMeansVersionStep DEF RolloutInvariant
<1>4. QED
  BY <1>1, <1>2, <1>3 DEF RolloutInvariant

\* The invariant holds of every behaviour of a careful user who edits one
\* field at a time, whatever fails and wherever the operator stops.
LEMMA RolloutInvariantHolds ==
  ASSUME Careful, ~JointEdits, Versioned
  PROVE  Spec => []RolloutInvariant
<1>1. Init => RolloutInvariant
  BY RolloutInit
<1>2. TypeOK /\ ReconcileInvariant /\ SingleEditInvariant /\ SingleEditInvariant'
      /\ CarefulInvariant /\ MemberOrder /\ RolloutInvariant /\ [Next]_vars
      => RolloutInvariant'
  BY RolloutStep DEF Careful
<1>3. ~EditsInFlight
  BY DEF Careful, Patient
<1>4. QED
  BY <1>1, <1>2, <1>3, TypeCorrect, ReconcileInvariantHolds, SingleEditInvariantHolds,
     CarefulInvariantHolds, MemberOrderHolds, PTL DEF Spec

\* Kubernetes never rolls the pods of a deployed replica set over to another
\* mongod version: the strategy is OnDelete until the version hook and the
\* agents have replaced the last pod (GetUpdateStrategyType, AwaitAgents and
\* ResetUpdateStrategy), whatever calls fail and wherever the operator stops.
THEOREM NoNativeRollingTheorem ==
  ASSUME Careful, ~JointEdits, Versioned
  PROVE  Spec => []NoNativeRollingUpgrade
<1>1. RolloutInvariant => NoNativeRollingUpgrade
  BY DEF RolloutInvariant, RollsNothing, Uniform, NoNativeRollingUpgrade
<1>2. QED
  BY <1>1, RolloutInvariantHolds, PTL

\* The StatefulSet has the image of a new version before the config names it:
\* a version change runs StatefulSet first (ShouldRunInOrder), and otherwise
\* the image is the one that is already there.
THEOREM ImageBeforeConfigTheorem ==
  ASSUME Careful, ~JointEdits, Versioned
  PROVE  Spec => ImageBeforeConfig
<1>1. TypeOK /\ ReconcileInvariant /\ SingleEditInvariant /\ CarefulInvariant /\ MemberOrder
      /\ RolloutInvariant /\ [Next]_vars
      => [sts.exists /\ ac'.content.version # ac.content.version =>
            sts.template.version = ac'.content.version]_vars
  <2> SUFFICES ASSUME TypeOK, ReconcileInvariant, SingleEditInvariant, CarefulInvariant,
                      MemberOrder, RolloutInvariant, [Next]_vars,
                      sts.exists, ac'.content.version # ac.content.version
               PROVE  sts.template.version = ac'.content.version
    OBVIOUS
  <2>1. EnsureAutomationConfig
    BY ConfigStep
  <2>2. pc = "ac" /\ snap = mdb /\ snap \in Resources /\ ac \in ConfigType
    BY <2>1 DEF EnsureAutomationConfig, CarefulInvariant, CopyIsResource, TypeOK, ClusterTypeOK,
                ConfigType
  <2>3. ac'.content.version = mdb.spec.version
    BY <2>1, <2>2, EnsuredConfig DEF EnsureAutomationConfig
  <2>4. CASE ~IsChangingVersion(mdb)
    BY <2>3, <2>4 DEF RolloutInvariant, AtVersion, TemplateOf
  <2>5. CASE IsChangingVersion(mdb)
    <3>1. ~inOrder
      BY <2>2, <2>5, Upgrading DEF CarefulInvariant, Ordered
    <3>2. QED
      BY <2>2, <2>3, <3>1 DEF ReconcileInvariant, DeployedSoFar, StatefulSetWritten
  <2>6. QED
    BY <2>4, <2>5
<1>2. ~EditsInFlight
  BY DEF Careful, Patient
<1>3. QED
  BY <1>1, <1>2, TypeCorrect, ReconcileInvariantHolds, SingleEditInvariantHolds,
     CarefulInvariantHolds, MemberOrderHolds, RolloutInvariantHolds, PTL
     DEF Spec, ImageBeforeConfig

-----------------------------------------------------------------------------
(***************************************************************************)
(* Members: what the pods and the agents look like when a number changes.  *)
(***************************************************************************)
\* No pod is ready for an older config than the one in the secret: none of
\* the probes is about to fail.
Calm == \A i \in Ordinals : pods[i].up /\ pods[i].probe = "ready" => InGoalState(i)

\* During an upgrade of several members one of them is up: the version hook
\* deletes a pod only when the others are up.
OneUp ==
  IsChangingVersion(mdb) /\ mdb.spec.members > 1 =>
    \E i \in Ordinals : i < mdb.spec.members /\ pods[i].up

\* Except during an upgrade, the pods that the status and the StatefulSet agree
\* on are up.  (A single member may be reported Running while its pod is down:
\* AllReachedGoalState is content with no pod at all.)
ReportedPodsUp ==
  (~IsChangingVersion(mdb) \/ Awaited) /\ mdb.status.stsReplicas > 1 =>
    \A i \in Ordinals : i < mdb.status.stsReplicas /\ i < sts.replicas => pods[i].up

\* Having waited for the agents, no probe of their pods is about to fail.
AgentsCalm ==
  AgentsAwaited =>
    \A i \in Ordinals :
      i < StatefulSetReplicasThisReconciliation(snap) /\ pods[i].up /\ pods[i].probe = "ready"
        => InGoalState(i)

\* The config is given another number of members only when all is calm.
CalmBeforeChange ==
  ac.content.members # StatefulSetReplicasThisReconciliation(mdb) => Calm

\* What has been recorded is deployed, and all is calm.
RecordedCalm ==
  Recorded => /\ Calm
              /\ ac.content = [BuiltContent(mdb) EXCEPT !.override = mdb.spec.override]

\* Before the config is given a new member, its pods are still ready.
PodsStillReady ==
  pc = "ac" /\ ~inOrder /\ ac.content.members # StatefulSetReplicasThisReconciliation(snap) =>
    \A i \in Ordinals : i < StatefulSetReplicasThisReconciliation(snap) => PodReady(i)

\* Before a pod is taken away, the remaining agents are in the goal state.
AgentsStillInGoal ==
  pc = "sts" /\ inOrder /\ sts.replicas > StatefulSetReplicasThisReconciliation(snap) =>
    \A i \in Ordinals : i < StatefulSetReplicasThisReconciliation(snap) => InGoalState(i)

\* All of it.
MemberInvariant ==
  /\ OneUp /\ ReportedPodsUp /\ AgentsCalm
  /\ CalmBeforeChange /\ RecordedCalm
  /\ PodsStillReady /\ AgentsStillInGoal

\* A pod step keeps a pod calm as long as the config stays.
LEMMA CalmPod ==
  ASSUME TypeOK, RollsNothing, [Next]_vars, ac' = ac, NEW i \in Ordinals,
         pods[i].up /\ pods[i].probe = "ready" => InGoalState(i)
  PROVE  pods'[i].up /\ pods'[i].probe = "ready" => InGoalState(i)'
<1>1. CASE pods' = pods
  BY <1>1 DEF InGoalState
<1>2. ASSUME NEW k \in Ordinals,
             \/ CreatePod(k) \/ RemovePod(k) \/ ReachGoalState(k)
             \/ ProbeNotReady(k) \/ ProbeWaitStep(k) \/ VersionHookDeletesPod(k)
      PROVE  pods'[i].up /\ pods'[i].probe = "ready" => InGoalState(i)'
  <2>1. CASE i # k
    <3>1. pods'[i] = pods[i]
      BY <1>2, <2>1, PodEffects
    <3>2. QED
      BY <3>1 DEF InGoalState
  <2>2. CASE i = k
    <3>1. \/ ~pods'[i].up \/ pods'[i].probe # "ready" \/ pods'[i].annotation = ac.version
      BY <1>2, <2>2, PodEffects
    <3>2. QED
      BY <3>1 DEF InGoalState
  <2>3. QED
    BY <2>1, <2>2
<1>3. QED
  BY <1>1, <1>2, PodSteps

\* Having waited for the agents, the pods stay calm until the next config.
LEMMA AgentsCalmStep ==
  ASSUME TypeOK, Plain, RollsNothing, AgentsCalm, [Next]_vars
  PROVE  AgentsCalm'
<1> DEFINE n == StatefulSetReplicasThisReconciliation(snap)
<1> SUFFICES ASSUME AgentsAwaited', NEW i \in Ordinals, i < n
             PROVE  pods'[i].up /\ pods'[i].probe = "ready" => InGoalState(i)'
  <2>1. AgentsAwaited' => snap' = snap
    BY AgentsAwaitedStep
  <2>2. QED
    BY <2>1 DEF AgentsCalm, StatefulSetReplicasThisReconciliation, MembersScaler, Scaler,
                ReplicasThisReconciliation, IsScalingDown
<1>1. CASE AgentsAwaited /\ ~EnsureAutomationConfig
  BY <1>1, ConfigStep, CalmPod DEF AgentsCalm
<1>2. CASE AwaitAgents /\ UNCHANGED <<pods, ac>> /\ (~sts.exists \/ AllReachedGoalState(n))
  <2>1. pods[i].up => InGoalState(i)
    BY <1>2 DEF AllReachedGoalState, Plain
  <2>2. QED
    BY <1>2, <2>1 DEF InGoalState
<1>3. QED
  BY <1>1, <1>2, AgentsAwaitedStep

\* Calm pods stay calm until the next config.
LEMMA CalmStep ==
  ASSUME TypeOK, RollsNothing, Calm, ac' = ac, [Next]_vars
  PROVE  Calm'
<1> SUFFICES ASSUME NEW i \in Ordinals
             PROVE  pods'[i].up /\ pods'[i].probe = "ready" => InGoalState(i)'
  BY DEF Calm
<1>1. QED
  BY CalmPod DEF Calm

\* Having waited for both, a reconciliation reports a calm replica set.
LEMMA CalmReport ==
  ASSUME TypeOK, ReconcileInvariant, SingleEditInvariant, CarefulInvariant, MemberOrder,
         NoSurplus, ExactPods, AgentsCalm, pc \in {"reset", "status"}
  PROVE  Calm
<1>1. snap = mdb
  BY DEF CarefulInvariant, CopyIsResource
<1>2. \A i \in Ordinals : pods[i].up => i < StatefulSetReplicasThisReconciliation(mdb)
  <2>1. CASE ~IsChangingVersion(mdb)
    BY <1>1, <2>1 DEF ExactPods, StatefulSetAwaited
  <2>2. CASE IsChangingVersion(mdb)
    BY <2>2, Upgrading DEF NoSurplus
  <2>3. QED
    BY <2>1, <2>2
<1>3. QED
  BY <1>1, <1>2 DEF AgentsCalm, AgentsAwaited, Calm

\* The number of members of the config is wrong only after a report or an
\* edit, and both find the pods calm.
LEMMA CalmBeforeChangeStep ==
  ASSUME Patient, TypeOK, TypeOK', ReconcileInvariant, SingleEditInvariant, CarefulInvariant,
         MemberOrder, RollsNothing, NoSurplus, ExactPods, AgentsCalm, RecordedCalm,
         CalmBeforeChange, [Next]_vars
  PROVE  CalmBeforeChange'
<1>0. mdb \in Resources
  BY DEF TypeOK
<1> SUFFICES ASSUME ac'.content.members # StatefulSetReplicasThisReconciliation(mdb')
             PROVE  Calm'
  BY DEF CalmBeforeChange, StatefulSetReplicasThisReconciliation, MembersScaler, Scaler,
         ReplicasThisReconciliation, IsScalingDown
<1>1. CASE EnsureAutomationConfig
  <2>1. snap = mdb /\ mdb' = mdb
    BY <1>1 DEF EnsureAutomationConfig, Continue, CarefulInvariant, CopyIsResource
  <2>2. ac'.content.members = StatefulSetReplicasThisReconciliation(mdb)
    BY <1>1, <2>1, MemberFacts, EnsuredConfig DEF EnsureAutomationConfig
  <2>3. QED
    BY <2>1, <2>2
<1>2. CASE UpdateStatus /\ pc = "status" /\ ac' = ac
  BY <1>2, CalmReport, CalmStep
<1>3. CASE EditSpec /\ ac' = ac
  <2>1. Recorded
    BY <1>3 DEF EditSpec, Patient, Settled, Recorded
  <2>2. QED
    BY <1>3, <2>1, CalmStep DEF RecordedCalm
<1>4. CASE /\ mdb'.spec = mdb.spec /\ mdb'.status.stsReplicas = mdb.status.stsReplicas
           /\ ac' = ac
  <2>1. StatefulSetReplicasThisReconciliation(mdb') = StatefulSetReplicasThisReconciliation(mdb)
    BY <1>4 DEF StatefulSetReplicasThisReconciliation, MembersScaler
  <2>2. QED
    BY <1>4, <2>1, CalmStep DEF CalmBeforeChange
<1>5. QED
  BY <1>1, <1>2, <1>3, <1>4, ConfigStep, SpecStep, ReportStep

\* What a config is built from once the counters have reached the spec.
LEMMA BuiltOnceReached ==
  ASSUME NEW m \in Resources, Reached(m), m.status.mdbMembers = m.status.stsReplicas,
         m.status.mdbArbiters = m.status.stsArbiters
  PROVE  /\ BuiltContent(m).members = m.spec.members
         /\ BuiltContent(m) = [members  |-> m.spec.members, arbiters |-> m.spec.arbiters,
                               version  |-> m.spec.version, tls |-> m.spec.tls,
                               override |-> FALSE]
<1>1. m.spec.members \in Nat /\ m.spec.arbiters \in Nat
  BY DEF Resources, Specs, Counts
<1>2. /\ AutomationConfigMembersThisReconciliation(m) = m.spec.members
      /\ AutomationConfigArbitersThisReconciliation(m) = m.spec.arbiters
  BY <1>1 DEF Reached, AutomationConfigMembersThisReconciliation, IsStillScaling, MembersScaler,
              AutomationConfigArbitersThisReconciliation, Scaler, ReplicasThisReconciliation
<1>3. (IF m.spec.members < m.spec.members THEN m.status.mdbArbiters ELSE m.spec.arbiters)
        = m.spec.arbiters
  BY <1>1
<1>4. QED
  BY <1>2, <1>3, Zenon DEF BuiltContent

\* The reconciliation that reaches it has built the same.
LEMMA BuiltWhenReached ==
  ASSUME NEW m \in Resources, m.status.mdbMembers = m.status.stsReplicas, OneThingChanges(m),
         ~IsStillScalingResource(m)
  PROVE  BuiltContent(m) = [members  |-> m.spec.members, arbiters |-> m.spec.arbiters,
                            version  |-> m.spec.version, tls |-> m.spec.tls,
                            override |-> FALSE]
<1>1. m.spec.members \in Nat
  BY DEF Resources, Specs, Counts
<1>2. /\ NextStatus(m).stsReplicas = m.spec.members /\ NextStatus(m).stsArbiters = m.spec.arbiters
      /\ NextStatus(m).mdbArbiters = NextStatus(m).stsArbiters
  BY ReportedCounters
<1>3. /\ AutomationConfigMembersThisReconciliation(m) = m.spec.members
      /\ AutomationConfigArbitersThisReconciliation(m) = m.spec.arbiters
  BY <1>2, ReportedCountsAreBuilt DEF NextStatus
<1>4. (IF m.spec.members < m.spec.members THEN m.status.mdbArbiters ELSE m.spec.arbiters)
        = m.spec.arbiters
  BY <1>1
<1>5. QED
  BY <1>3, <1>4, Zenon DEF BuiltContent

\* Running is reported of a calm replica set whose config is the one that the
\* spec asks for; building it again changes nothing, so it stays so.
LEMMA RecordedCalmStep ==
  ASSUME Patient, TypeOK, TypeOK', ReconcileInvariant, ReconcileInvariant',
         SingleEditInvariant, SingleEditInvariant', CarefulInvariant, MemberOrder,
         Plain, RollsNothing, NoSurplus, ExactPods, AgentsCalm, RecordedCalm, [Next]_vars
  PROVE  RecordedCalm'
<1>0. /\ mdb \in Resources /\ ac \in ConfigType /\ mdb.status.mdbMembers = mdb.status.stsReplicas
      /\ OneThingChanges(mdb) /\ Reported(mdb)
  BY MemberFacts
<1> DEFINE Wanted(m) == [BuiltContent(m) EXCEPT !.override = m.spec.override]
<1> SUFFICES ASSUME Recorded'
             PROVE  Calm' /\ ac'.content = Wanted(mdb')
  BY DEF RecordedCalm, BuiltContent, AutomationConfigMembersThisReconciliation,
         AutomationConfigArbitersThisReconciliation, IsStillScaling, MembersScaler, Scaler,
         ReplicasThisReconciliation, IsScalingDown
<1>1. CASE /\ UpdateStatus /\ fresh /\ pc = "status" /\ snap = mdb /\ UNCHANGED clusterVars
           /\ ~IsStillScalingResource(mdb)
           /\ mdb'.spec = mdb.spec /\ mdb'.status = NextStatus(mdb)
  <2>1. ac.content = Wanted(mdb)
    BY <1>1 DEF ReconcileInvariant, DeployedSoFar, ConfigWritten
  <2>2. BuiltContent(mdb) = BuiltContent(mdb')
    <3>1. /\ mdb' \in Resources /\ mdb'.status.mdbMembers = mdb'.status.stsReplicas
          /\ mdb'.status.mdbArbiters = mdb'.status.stsArbiters
      BY DEF TypeOK, ReconcileInvariant, CountersAgree, SingleEditInvariant, OneThingChanges
    <3>2. Reached(mdb')
      BY <1>0, <1>1, ReportedCounters DEF Reached
    <3>3. QED
      BY <1>0, <1>1, <3>1, <3>2, BuiltOnceReached, BuiltWhenReached
  <2>3. Calm'
    BY <1>1, CalmReport, CalmStep DEF clusterVars
  <2>4. QED
    BY <1>1, <2>1, <2>2, <2>3 DEF clusterVars
<1>2. CASE Recorded /\ mdb'.spec = mdb.spec /\ mdb'.status = mdb.status
  <2>1. Calm /\ ac.content = Wanted(mdb)
    BY <1>2 DEF RecordedCalm
  <2>2. BuiltContent(mdb') = BuiltContent(mdb)
    BY <1>2 DEF BuiltContent, AutomationConfigMembersThisReconciliation,
                AutomationConfigArbitersThisReconciliation, MembersScaler
  <2>3. CASE EnsureAutomationConfig
    <3>1. snap = mdb /\ mdb.status.phase = "Running" /\ mdb.spec.members \in Nat
      BY <1>0, <1>2, <2>3 DEF EnsureAutomationConfig, CarefulInvariant, CopyIsResource, Recorded,
                              Resources, Specs, Counts
    <3>2. mdb.status.stsReplicas # 0 /\ Reached(mdb)
      BY <1>0, <1>2, <3>1, Upgrading DEF Reported
    <3>3. ac.content.members = mdb.spec.members
      BY <1>2, Upgrading
    <3>4. ac.version \in Nat /\ ac.version # 0
      BY <1>0, <3>2, <3>3 DEF Plain, Reached, ConfigType
    <3>5. ac.version > 0
      BY <3>4
    <3>6. ac' = ac
      BY <2>1, <2>3, <3>1, <3>5 DEF EnsureAutomationConfig, EnsureSecret, BuildAutomationConfig
    <3>7. QED
      BY <1>2, <2>1, <2>2, <3>6, CalmStep
  <2>4. QED
    BY <1>2, <2>1, <2>2, <2>3, ConfigStep, CalmStep
<1>3. QED
  BY <1>1, <1>2, RecordedStep

\* The version hook leaves the other pods alone.
LEMMA OneUpStep ==
  ASSUME Patient, Versioned, TypeOK, ReconcileInvariant, SingleEditInvariant,
         SingleEditInvariant', CarefulInvariant, MemberOrder, Plain, RollsNothing,
         OneUp, ReportedPodsUp, [Next]_vars
  PROVE  OneUp'
<1> SUFFICES ASSUME IsChangingVersion(mdb'), mdb'.spec.members > 1
             PROVE  \E i \in Ordinals : i < mdb'.spec.members /\ pods'[i].up
  BY DEF OneUp, IsChangingVersion
<1>0. mdb.spec.members \in Nat /\ mdb.spec.members <= MaxMembers /\ MaxMembers \in Nat
  BY MaxMembersAssumption DEF TypeOK, Resources, Specs, Counts
<1>1. CASE EditSpec
  <2>1. /\ UNCHANGED clusterVars /\ mdb'.status = mdb.status /\ Recorded
        /\ ~IsChangingVersion(mdb) /\ mdb.lastApplied = mdb.spec
    <3>1. PICK spec \in UserSpecs \ {mdb.spec} : mdb' = [mdb EXCEPT !.spec = spec]
      BY <1>1 DEF EditSpec, Store
    <3>2. mdb'.spec # mdb.spec
      BY <3>1, ResourceFields DEF TypeOK
    <3>3. QED
      BY <3>2, ChangingStep
  <2>2. Reached(mdb) /\ Reached(mdb') /\ sts.replicas = mdb.spec.members
    BY <2>1, Upgrading DEF SingleEditInvariant, OneThingChanges
  <2>3. mdb'.spec.members = mdb.spec.members /\ mdb.status.stsReplicas = mdb.spec.members
    BY <2>1, <2>2 DEF Reached
  <2>4. 0 \in Ordinals /\ 0 < mdb.spec.members
    BY <1>0, <2>3 DEF Ordinals
  <2>5. pods[0].up
    BY <2>1, <2>2, <2>3, <2>4 DEF ReportedPodsUp
  <2>6. QED
    BY <2>1, <2>3, <2>4, <2>5 DEF clusterVars
<1>2. CASE IsChangingVersion(mdb) /\ mdb'.spec = mdb.spec
  <2>0. PICK i \in Ordinals : i < mdb.spec.members /\ pods[i].up
    BY <1>2 DEF OneUp
  <2>1. sts.replicas = mdb.spec.members /\ ac.content.members = mdb.spec.members
    BY <1>2, Upgrading
  <2>2. CASE pods' = pods
    BY <1>2, <2>0, <2>2
  <2>3. ASSUME NEW k \in Ordinals,
               \/ CreatePod(k) \/ RemovePod(k) \/ ReachGoalState(k)
               \/ ProbeNotReady(k) \/ ProbeWaitStep(k) \/ VersionHookDeletesPod(k)
        PROVE  \E j \in Ordinals : j < mdb.spec.members /\ pods'[j].up
    <3>1. \A j \in Ordinals : j # k => pods'[j] = pods[j]
      BY <2>3, PodEffects
    <3>2. CASE VersionHookDeletesPod(k)
      <4>1. \A j \in Ordinals : j < mdb.spec.members /\ j # k => pods[j].up
        BY <2>1, <3>2 DEF VersionHookDeletesPod
      <4>2. PICK j \in Ordinals : j < mdb.spec.members /\ j # k
        <5>1. 0 \in Ordinals /\ 1 \in Ordinals /\ 0 < mdb.spec.members /\ 1 < mdb.spec.members
          BY <1>0, <1>2 DEF Ordinals
        <5>2. 0 # k \/ 1 # k
          OBVIOUS
        <5>3. QED
          BY <5>1, <5>2
      <4>3. QED
        BY <3>1, <4>1, <4>2
    <3>3. CASE ~VersionHookDeletesPod(k)
      <4>1. i \in Nat /\ sts.replicas \in Nat
        BY <1>0, <2>1 DEF Ordinals
      <4>2. ~RemovePod(i)
        BY <2>0, <2>1, <4>1, PodEffects
      <4>3. pods'[i].up
        BY <2>0, <2>3, <3>1, <3>3, <4>2, PodEffects
      <4>4. QED
        BY <2>0, <4>3
    <3>4. QED
      BY <3>2, <3>3
  <2>4. QED
    BY <1>2, <2>2, <2>3, PodSteps
<1>3. QED
  BY <1>1, <1>2, ChangingStep

\* A pod that has been reported stays: the StatefulSet is resized from or to
\* the reported number, only pods beyond its replicas are removed, and an
\* upgrade waits for the pods it has replaced.
LEMMA ReportedPodsUpStep ==
  ASSUME Patient, Versioned, TypeOK, ReconcileInvariant, SingleEditInvariant, CarefulInvariant,
         MemberOrder, Plain, AtVersion, RollsNothing, NoSurplus, ExactPods, GoalMeansVersion,
         OneUp, ReportedPodsUp, [Next]_vars
  PROVE  ReportedPodsUp'
<1>0. /\ mdb \in Resources /\ snap \in Resources /\ sts \in StatefulSetType
      /\ mdb.status.stsReplicas \in Nat /\ sts.replicas \in Nat
  BY DEF TypeOK, ClusterTypeOK, StatefulSetType, Resources, Statuses, Counts
<1> SUFFICES ASSUME ~IsChangingVersion(mdb') \/ Awaited', mdb'.status.stsReplicas > 1
             PROVE  \A i \in Ordinals :
                      i < mdb'.status.stsReplicas /\ i < sts'.replicas => pods'[i].up
  BY DEF ReportedPodsUp, IsChangingVersion
<1>1. CASE /\ UpdateStatus /\ fresh /\ pc = "status" /\ UNCHANGED clusterVars
           /\ mdb' = [mdb EXCEPT !.status = NextStatus(snap)]
  <2>0. snap = mdb
    BY <1>1 DEF CarefulInvariant, CopyIsResource
  <2>1. sts.replicas = StatefulSetReplicasThisReconciliation(mdb)
    BY <1>1, <2>0 DEF ReconcileInvariant, DeployedSoFar, StatefulSetWritten
  <2>2. CASE ~IsChangingVersion(mdb)
    <3>1. \A i \in Ordinals : i < sts.replicas => pods[i].up
      BY <1>1, <2>0, <2>1, <2>2 DEF ExactPods, StatefulSetAwaited
    <3>2. QED
      BY <1>1, <3>1 DEF clusterVars
  <2>3. CASE IsChangingVersion(mdb)
    <3>1. mdb'.status.stsReplicas = StatefulSetReplicasThisReconciliation(mdb)
      BY <1>0, <1>1, <2>0, ResourceFields DEF NextStatus
    <3>2. mdb'.status.stsReplicas = mdb.status.stsReplicas
      BY <2>3, <3>1, Upgrading DEF Reached
    <3>3. QED
      BY <1>1, <3>2 DEF ReportedPodsUp, Awaited, clusterVars
  <2>4. QED
    BY <2>2, <2>3
<1>2. CASE mdb'.status.stsReplicas = mdb.status.stsReplicas
           /\ (~IsChangingVersion(mdb) \/ Awaited)
  <2>0. \A i \in Ordinals : i < mdb.status.stsReplicas /\ i < sts.replicas => pods[i].up
    BY <1>2 DEF ReportedPodsUp
  <2>1. CASE CreateOrUpdateStatefulSet
    <3>1. snap = mdb /\ mdb' = mdb /\ pods' = pods
      BY <2>1 DEF CreateOrUpdateStatefulSet, Continue, CarefulInvariant, CopyIsResource
    <3>2. sts'.replicas = StatefulSetReplicasThisReconciliation(mdb)
      BY <1>0, <2>1, <3>1, DesiredStatefulSetFields, ThisReconciliationType
         DEF CreateOrUpdateStatefulSet
    <3>3. sts.replicas \in {mdb.status.stsReplicas, sts'.replicas}
      BY <3>2 DEF MemberOrder, MembersInOrder
    <3>4. QED
      BY <2>0, <3>1, <3>3
  <2>2. CASE pods' = pods /\ sts'.replicas = sts.replicas
    BY <1>2, <2>0, <2>2
  <2>3. ASSUME sts' = sts, NEW k \in Ordinals,
               \/ CreatePod(k) \/ RemovePod(k) \/ ReachGoalState(k)
               \/ ProbeNotReady(k) \/ ProbeWaitStep(k)
        PROVE  \A i \in Ordinals :
                 i < mdb'.status.stsReplicas /\ i < sts'.replicas => pods'[i].up
    <3>1. \A j \in Ordinals : j # k => pods'[j] = pods[j]
      BY <2>3, PodEffects
    <3>2. k \in Nat
      BY DEF Ordinals
    <3>3. pods[k].up /\ k < sts.replicas => pods'[k].up
      BY <1>0, <2>3, <3>2, PodEffects
    <3>4. QED
      BY <1>2, <2>0, <2>3, <3>1, <3>3
  <2>4. QED
    BY <1>2, <2>1, <2>2, <2>3, StatefulSetStep, CalmPodSteps
<1>3. CASE IsChangingVersion(mdb) /\ ~Awaited
  <2>1. Awaited'
    BY <1>3, ChangingStep DEF Awaited
  <2>2. /\ UNCHANGED clusterVars /\ mdb' = mdb
        /\ ~sts.exists \/ AllReachedGoalState(mdb.spec.members)
    BY <1>3, <2>1, UpgradeAwaited
  <2>3. mdb.status.stsReplicas = mdb.spec.members
    BY <1>3, Upgrading DEF Reached
  <2>4. PICK i \in Ordinals : i < mdb.spec.members /\ pods[i].up
    BY <1>3, <2>2, <2>3 DEF OneUp
  <2>5. AllReachedGoalState(mdb.spec.members)
    BY <2>2, <2>4 DEF Plain
  <2>6. \A j \in Ordinals : j < mdb.spec.members => pods[j].up
    BY <2>4, <2>5 DEF AllReachedGoalState
  <2>7. QED
    BY <2>2, <2>3, <2>6 DEF clusterVars
<1>4. QED
  BY <1>1, <1>2, <1>3, ReportStep

\* IsReady found the pods ready, and without a new config no probe fails.
LEMMA PodsStillReadyStep ==
  ASSUME TypeOK, ReconcileInvariant, SingleEditInvariant, CarefulInvariant, MemberOrder,
         Plain, AtVersion, RollsNothing, InOrderUnlessChanging, CalmBeforeChange,
         PodsStillReady, [Next]_vars
  PROVE  PodsStillReady'
<1> DEFINE n == StatefulSetReplicasThisReconciliation(snap)
<1> SUFFICES ASSUME pc' = "ac", ~inOrder', ac'.content.members # n, NEW i \in Ordinals, i < n
             PROVE  PodReady(i)'
  <2>1. pc' = "ac" => snap' = snap
    BY PlaceStep
  <2>2. QED
    BY <2>1 DEF PodsStillReady, StatefulSetReplicasThisReconciliation, MembersScaler, Scaler,
                ReplicasThisReconciliation, IsScalingDown
<1>1. n \in Counts
  BY ThisReconciliationType DEF TypeOK
<1>2. CASE pc = "ac" /\ inOrder' = inOrder
  <2>1. ac' = ac /\ snap = mdb
    BY <1>2, ConfigStep DEF EnsureAutomationConfig, Continue, CarefulInvariant, CopyIsResource
  <2>0. ~IsChangingVersion(mdb)
    BY <2>1, Upgrading
  <2>2. PodReady(i)
    BY <1>2, <2>1 DEF PodsStillReady
  <2>3. Calm
    BY <2>1 DEF CalmBeforeChange
  <2>4. sts.replicas = n
    BY <1>2 DEF ReconcileInvariant, DeployedSoFar, StatefulSetWritten
  <2>5. ASSUME NEW k \in Ordinals,
               \/ CreatePod(k) \/ RemovePod(k) \/ ReachGoalState(k)
               \/ ProbeNotReady(k) \/ ProbeWaitStep(k)
        PROVE  PodReady(i)'
    <3>1. CASE k # i
      BY <2>2, <2>5, <3>1, PodEffects DEF PodReady
    <3>2. CASE k = i
      <4>1. n \in Nat /\ i \in Nat
        BY <1>1, MaxMembersAssumption DEF Counts, Ordinals
      <4>2. ~RemovePod(i) /\ ~CreatePod(i)
        BY <2>2, <2>4, <4>1, PodEffects DEF PodReady
      <4>3. ~ProbeNotReady(i)
        BY <2>3, PodEffects DEF Calm, InGoalState
      <4>4. QED
        BY <2>2, <2>5, <3>2, <4>2, <4>3, PodEffects DEF PodReady
    <3>3. QED
      BY <3>1, <3>2
  <2>6. QED
    BY <2>0, <2>2, <2>5, CalmPodSteps DEF PodReady
<1>3. CASE AwaitStatefulSet /\ pc = "stsReady" /\ ~inOrder /\ inOrder' = inOrder
  <2>0. snap = mdb /\ ac' = ac
    BY <1>3 DEF AwaitStatefulSet, CarefulInvariant, CopyIsResource, clusterVars
  <2>1. ~IsChangingVersion(mdb)
    BY <2>0, Upgrading
  <2>2. pods' = pods /\ IsReady(n) /\ Uniform /\ PodsInOrder
    BY <1>3, <2>1 DEF AwaitStatefulSet, EndWithPhase, EndReconcile, clusterVars, AtVersion,
                      RollsNothing, InOrderUnlessChanging
  <2> HIDE DEF n
  <2>3. PodReady(i)
    BY <1>1, <2>2, ReadyPods
  <2>4. QED
    BY <2>2, <2>3 DEF PodReady
<1>4. QED
  BY <1>2, <1>3, PlaceStep

\* AwaitAgents found every pod that stays in the goal state, and they stay.
LEMMA AgentsStillInGoalStep ==
  ASSUME TypeOK, ReconcileInvariant, SingleEditInvariant, CarefulInvariant, MemberOrder,
         Plain, AtVersion, RollsNothing, ReportedPodsUp, AgentsStillInGoal, [Next]_vars
  PROVE  AgentsStillInGoal'
<1> DEFINE n == StatefulSetReplicasThisReconciliation(snap)
<1> SUFFICES ASSUME pc' = "sts", inOrder', sts'.replicas > n, NEW i \in Ordinals, i < n
             PROVE  InGoalState(i)'
  <2>1. pc' = "sts" => snap' = snap
    BY PlaceStep
  <2>2. QED
    BY <2>1 DEF AgentsStillInGoal, StatefulSetReplicasThisReconciliation, MembersScaler, Scaler,
                ReplicasThisReconciliation, IsScalingDown
<1>1. n \in Nat /\ i \in Nat /\ sts.replicas \in Nat
  BY ThisReconciliationType, MaxMembersAssumption
     DEF TypeOK, ClusterTypeOK, Counts, Ordinals
<1>2. sts'.replicas = sts.replicas
  BY StatefulSetStep DEF CreateOrUpdateStatefulSet, Continue
<1>3. /\ pc \in {"sts", "agents"} /\ inOrder /\ inOrder' = inOrder
      /\ pc = "agents" => AwaitAgents
  BY PlaceStep
<1>4. ac' = ac /\ snap = mdb
  BY <1>3, ConfigStep DEF EnsureAutomationConfig, CarefulInvariant, CopyIsResource
<1>5. ~IsChangingVersion(mdb) /\ pods[i].up
  <2>1. sts.replicas = mdb.status.stsReplicas
    BY <1>1, <1>2, <1>4 DEF MemberOrder, MembersInOrder
  <2>2. i < sts.replicas /\ mdb.status.stsReplicas > 1
    BY <1>1, <1>2, <2>1
  <2>3. ~IsChangingVersion(mdb)
    <3>1. IsChangingVersion(mdb) => sts.replicas = n
      BY <1>4, Upgrading
    <3>2. sts.replicas # n
      BY <1>1, <1>2
    <3>3. QED
      BY <3>1, <3>2
  <2>4. QED
    BY <2>1, <2>2, <2>3 DEF ReportedPodsUp
<1>6. CASE pc = "sts"
  <2>1. InGoalState(i)
    BY <1>2, <1>3, <1>6 DEF AgentsStillInGoal
  <2>2. ASSUME NEW k \in Ordinals,
               \/ CreatePod(k) \/ RemovePod(k) \/ ReachGoalState(k)
               \/ ProbeNotReady(k) \/ ProbeWaitStep(k)
        PROVE  InGoalState(i)'
    <3>1. CASE k # i
      BY <1>4, <2>1, <2>2, <3>1, PodEffects DEF InGoalState
    <3>2. CASE k = i
      <4>1. i < sts.replicas
        BY <1>1, <1>2
      <4>2. ~CreatePod(i) /\ ~RemovePod(i)
        BY <1>1, <1>5, <4>1, PodEffects
      <4>3. QED
        BY <1>4, <2>1, <2>2, <3>2, <4>2, PodEffects DEF InGoalState
    <3>3. QED
      BY <3>1, <3>2
  <2>3. QED
    BY <1>4, <1>5, <2>1, <2>2, CalmPodSteps DEF InGoalState
<1>7. CASE AwaitAgents
  <2>1. pods' = pods /\ (~sts.exists \/ AllReachedGoalState(n))
    BY <1>7 DEF AwaitAgents, EndWithPhase, EndReconcile, clusterVars
  <2>2. sts.exists
    BY <1>1, <1>2 DEF Plain
  <2>3. InGoalState(i)
    BY <1>5, <2>1, <2>2 DEF AllReachedGoalState
  <2>4. QED
    BY <1>4, <2>1, <2>3 DEF InGoalState
<1>8. QED
  BY <1>3, <1>6, <1>7

\* Nothing is deployed at first.
LEMMA MemberInvariantInit ==
  ASSUME Init PROVE MemberInvariant
<1>1. PICK spec \in UserSpecs : mdb = NewResource(spec)
  BY DEF Init
<1>2. mdb.status = NewStatus /\ mdb.lastApplied = NoSpec
  BY <1>1 DEF NewResource
<1>3. NewStatus.stsReplicas = 0 /\ NewStatus.phase = "" /\ NoSpec.version = NoVersion
  BY DEF NewStatus, NoSpec
<1>4. \A i \in Ordinals : ~pods[i].up
  BY DEF Init, ClusterInit, NoPod
<1>5. pc = "idle"
  BY DEF Init
<1>6. OneUp
  BY <1>2, <1>3 DEF OneUp, IsChangingVersion
<1>7. ReportedPodsUp
  <2>1. mdb.status.stsReplicas = 0
    BY <1>2, <1>3, Zenon
  <2>2. ~(mdb.status.stsReplicas > 1)
    BY <2>1
  <2>3. QED
    BY <2>2, Zenon DEF ReportedPodsUp
<1>8. CalmBeforeChange
  BY <1>4 DEF Calm, CalmBeforeChange
<1>9. RecordedCalm
  BY <1>2, <1>3, <1>5 DEF RecordedCalm, Recorded
<1>10. AgentsCalm /\ PodsStillReady /\ AgentsStillInGoal
  BY <1>5 DEF AgentsCalm, PodsStillReady, AgentsStillInGoal, AgentsAwaited
<1>11. QED
  BY <1>6, <1>7, <1>8, <1>9, <1>10 DEF MemberInvariant

\* The invariant holds of every behaviour of a careful user who edits one
\* field at a time.
LEMMA MemberInvariantHolds ==
  ASSUME Careful, ~JointEdits, Versioned
  PROVE  Spec => []MemberInvariant
<1>1. Init => MemberInvariant
  BY MemberInvariantInit
<1>2. TypeOK /\ TypeOK' /\ ReconcileInvariant /\ ReconcileInvariant'
      /\ SingleEditInvariant /\ SingleEditInvariant' /\ CarefulInvariant /\ MemberOrder
      /\ RolloutInvariant /\ MemberInvariant /\ [Next]_vars
      => MemberInvariant'
  <2> SUFFICES ASSUME TypeOK, TypeOK', ReconcileInvariant, ReconcileInvariant',
                      SingleEditInvariant, SingleEditInvariant', CarefulInvariant, MemberOrder,
                      RolloutInvariant, MemberInvariant, [Next]_vars
               PROVE  MemberInvariant'
    OBVIOUS
  <2>0. Patient
    BY DEF Careful
  <2>1. OneUp' /\ ReportedPodsUp'
    BY <2>0, OneUpStep, ReportedPodsUpStep DEF RolloutInvariant, MemberInvariant
  <2>2. AgentsCalm'
    BY AgentsCalmStep DEF RolloutInvariant, MemberInvariant
  <2>3. CalmBeforeChange' /\ RecordedCalm'
    BY <2>0, CalmBeforeChangeStep, RecordedCalmStep DEF RolloutInvariant, MemberInvariant
  <2>4. PodsStillReady' /\ AgentsStillInGoal'
    BY PodsStillReadyStep, AgentsStillInGoalStep DEF RolloutInvariant, MemberInvariant
  <2>5. QED
    BY <2>1, <2>2, <2>3, <2>4 DEF MemberInvariant
<1>3. ~EditsInFlight
  BY DEF Careful, Patient
<1>4. QED
  BY <1>1, <1>2, <1>3, TypeCorrect, ReconcileInvariantHolds, SingleEditInvariantHolds,
     CarefulInvariantHolds, MemberOrderHolds, RolloutInvariantHolds, PTL DEF Spec

\* Scaling down, the StatefulSet loses a replica only when the config has
\* dropped the member and the agents of all remaining pods are in the goal
\* state of that config: for a user who makes single edits of a deployed
\* resource, without TLS, whatever calls fail and wherever the operator stops.
THEOREM ConfigDropsMemberTheorem ==
  ASSUME Careful, ~JointEdits, Versioned
  PROVE  Spec => ConfigDropsMemberBeforePod
<1>1. /\ TypeOK /\ ReconcileInvariant /\ SingleEditInvariant /\ CarefulInvariant
      /\ MemberOrder /\ MemberInvariant /\ [Next]_vars
      => [sts'.replicas < sts.replicas =>
            /\ ac.content.members <= sts'.replicas
            /\ \A i \in Ordinals : i < sts'.replicas => InGoalState(i)]_vars
  <2> SUFFICES ASSUME TypeOK, ReconcileInvariant, SingleEditInvariant, CarefulInvariant,
                      MemberOrder, MemberInvariant, [Next]_vars, sts'.replicas < sts.replicas
               PROVE  /\ ac.content.members <= sts'.replicas
                      /\ \A i \in Ordinals : i < sts'.replicas => InGoalState(i)
    OBVIOUS
  <2> DEFINE next == StatefulSetReplicasThisReconciliation(mdb)
  <2>0. /\ AgentsStillInGoal
        /\ mdb.status.stsReplicas \in Nat /\ sts.replicas \in Nat
    BY DEF MemberInvariant, TypeOK, ClusterTypeOK, Resources, Statuses, Counts
  <2>1. /\ mdb \in Resources /\ snap \in Resources /\ mdb.spec.tls = FALSE
        /\ sts \in StatefulSetType
        /\ OneThingChanges(mdb) /\ Reported(mdb)
        /\ BuiltContent(mdb).members = next /\ next \in Nat
    BY <2>0, MemberFacts
  <2>2. CreateOrUpdateStatefulSet
    BY <2>0, StatefulSetStep
  <2>3. pc = "sts" /\ snap = mdb
    BY <2>2 DEF CreateOrUpdateStatefulSet, CarefulInvariant, CopyIsResource
  <2>4. sts'.replicas = next
    BY <2>1, <2>2, <2>3, DesiredStatefulSetFields, ThisReconciliationType
       DEF CreateOrUpdateStatefulSet
  <2>5. next < mdb.status.stsReplicas
    BY <2>0, <2>1, <2>4 DEF MemberOrder, MembersInOrder
  <2>6. mdb.status.stsReplicas # mdb.spec.members /\ mdb.status.stsReplicas # 0
    <3>1. mdb.status.stsReplicas = mdb.spec.members => next = mdb.status.stsReplicas
      BY <2>1, NextMembers
    <3>2. next # mdb.status.stsReplicas /\ mdb.status.stsReplicas # 0
      BY <2>0, <2>1, <2>5
    <3>3. QED
      BY <3>1, <3>2
  <2>7. inOrder
    <3>1. mdb.status.stsArbiters = mdb.spec.arbiters
      BY <2>1, <2>6 DEF OneThingChanges
    <3>2. ShouldRunInOrder(mdb, FALSE, FALSE)
      BY <2>1, <2>5, <3>1, NextMembers
    <3>3. QED
      BY <2>3, <3>2 DEF CarefulInvariant, Ordered
  <2>8. ac.content = [BuiltContent(mdb) EXCEPT !.override = mdb.spec.override]
    BY <2>3, <2>7 DEF ReconcileInvariant, DeployedSoFar, ConfigWritten
  <2>9. ac.content.members = next
    BY <2>1, <2>8 DEF BuiltContent
  <2>10. QED
    BY <2>0, <2>1, <2>3, <2>4, <2>7, <2>9 DEF AgentsStillInGoal
<1>2. ~EditsInFlight
  BY DEF Careful, Patient
<1>3. QED
  BY <1>1, <1>2, TypeCorrect, ReconcileInvariantHolds, SingleEditInvariantHolds,
     CarefulInvariantHolds, MemberOrderHolds, MemberInvariantHolds, PTL
     DEF Spec, ConfigDropsMemberBeforePod

\* Scaling up, the config names a new member only when every pod up to it is
\* ready: for the same user, whatever calls fail and wherever the operator
\* stops between the StatefulSet and the config.
THEOREM PodBeforeConfigTheorem ==
  ASSUME Careful, ~JointEdits, Versioned
  PROVE  Spec => PodBeforeConfigAddsMember
<1>1. /\ TypeOK /\ ReconcileInvariant /\ SingleEditInvariant /\ CarefulInvariant
      /\ MemberOrder /\ MemberInvariant /\ [Next]_vars
      => [sts.exists /\ ac'.content.members > ac.content.members =>
            \A i \in Ordinals : i < ac'.content.members => PodReady(i)]_vars
  <2> SUFFICES ASSUME TypeOK, ReconcileInvariant, SingleEditInvariant, CarefulInvariant,
                      MemberOrder, MemberInvariant, [Next]_vars,
                      sts.exists, ac'.content.members > ac.content.members
               PROVE  \A i \in Ordinals : i < ac'.content.members => PodReady(i)
    OBVIOUS
  <2> DEFINE next == StatefulSetReplicasThisReconciliation(mdb)
  <2>0. /\ PodsStillReady
        /\ mdb.status.stsReplicas \in Nat /\ ac.content.members \in Nat
    BY DEF MemberInvariant, TypeOK, ClusterTypeOK, Contents, Resources, Statuses, Counts
  <2>1. /\ mdb \in Resources /\ snap \in Resources /\ mdb.spec.tls = FALSE
        /\ ac \in ConfigType /\ OneThingChanges(mdb) /\ Reported(mdb)
        /\ BuiltContent(mdb).members = next /\ next \in Nat
    BY <2>0, MemberFacts
  <2>2. EnsureAutomationConfig
    BY <2>0, ConfigStep
  <2>3. pc = "ac" /\ snap = mdb
    BY <2>2 DEF EnsureAutomationConfig, CarefulInvariant, CopyIsResource
  <2>4. ac'.content.members = next
    BY <2>1, <2>2, <2>3, EnsuredConfig DEF EnsureAutomationConfig
  <2>5. next > mdb.status.stsReplicas /\ mdb.status.stsReplicas # 0 /\ ac.content.members # next
    BY <2>0, <2>1, <2>4 DEF MemberOrder, MembersInOrder
  <2>6. ~inOrder
    <3>1. ~ShouldRunInOrder(mdb, FALSE, FALSE)
      BY <2>1, <2>5, NextMembers
    <3>2. QED
      BY <2>3, <3>1 DEF CarefulInvariant, Ordered
  <2>7. QED
    BY <2>0, <2>3, <2>4, <2>5, <2>6 DEF PodsStillReady
<1>2. ~EditsInFlight
  BY DEF Careful, Patient
<1>3. QED
  BY <1>1, <1>2, TypeCorrect, ReconcileInvariantHolds, SingleEditInvariantHolds,
     CarefulInvariantHolds, MemberOrderHolds, MemberInvariantHolds, PTL
     DEF Spec, PodBeforeConfigAddsMember

-----------------------------------------------------------------------------
(***************************************************************************)
(* Enabling TLS.  Until TLS is asked for, the invariants above hold; when  *)
(* it is, everything is ready and stays so until the StatefulSet has the   *)
(* certificates.                                                           *)
(***************************************************************************)
\* TLS is not in the spec and has not been.
NotAsked == mdb.spec.tls = FALSE /\ mdb.lastApplied.tls = FALSE

\* There is no copy of the resource between reconciliations, and the one that
\* has been reported Running knows what was last applied.
CopyKept ==
  /\ pc = "idle" => snap = Blank
  /\ pc = "annotate" => snap.lastApplied = mdb.lastApplied

\* What holds of a user who waits, with TLS or without.
PatientInvariant == CopyIsResource /\ Validated /\ Reported(mdb) /\ CopyKept

\* What holds until TLS is asked for.
PlainUntilAsked == NotAsked => Ordered /\ MemberOrder /\ RolloutInvariant

\* Nothing has happened since the running or the last reconciliation began: it
\* finds what it waited for.
QuietPods ==
  ~queued /\ (pc = "idle" \/ (StatefulSetAwaited /\ sts.strategy = "RollingUpdate")) =>
    IsReady(sts.replicas)

\* The same of the agents.
QuietAgents ==
  ~queued /\ sts.exists =>
    /\ AgentsAwaited => AllReachedGoalState(StatefulSetReplicasThisReconciliation(snap))
    /\ pc = "idle" => AllReachedGoalState(sts.replicas)

\* Once TLS has been applied, the certificates stay mounted.
AppliedTLS == mdb.lastApplied.tls /\ sts.exists => sts.template.tls

\* TLS is asked for, and neither StatefulSet nor config know of it.
Asked == mdb.spec.tls /\ sts.exists /\ ~sts.template.tls /\ ~ac.content.tls

\* The pods are the first n, with the template of the StatefulSet, ready, and
\* their agents are in the goal state.
AllWell(n) ==
  \A i \in Ordinals :
    /\ pods[i].up <=> i < n
    /\ pods[i].up => PodReady(i) /\ InGoalState(i) /\ pods[i].template = sts.template

\* When TLS is asked for everything is deployed and ready, and so the
\* StatefulSet goes first.
Steady ==
  Asked =>
    /\ mdb.status.stsReplicas = mdb.spec.members /\ sts.replicas = mdb.spec.members
    /\ sts.observed /\ sts.template.version = ac.content.version
    /\ AllWell(sts.replicas)
    /\ pc \notin {"idle", "prepare", "order"} => ~inOrder

\* There is no copy between reconciliations.
LEMMA CopyKeptStep ==
  ASSUME Patient, TypeOK, ReconcileInvariant, CopyKept, [Next]_vars
  PROVE  CopyKept'
<1>1. Blank' = Blank
  BY DEF Blank
<1>2. pc' = "idle" => snap' = Blank
  BY DEF CopyKept, Next, ReconcileStep, StartReconcile, Prepare, ChooseOrder,
         EnsureAutomationConfig, AwaitAgents, CreateOrUpdateStatefulSet,
         CreateOrUpdateArbiters, AwaitStatefulSet, ResetUpdateStrategy, UpdateStatus,
         SaveLastApplied, TLSConfigNotValid, CallFails, EditSpec, Crash, ClusterStep,
         EnqueueOwner, vars, controllerVars, Continue, EndWithPhase, EndReconcile
<1>3. ASSUME pc' = "annotate"
      PROVE  snap'.lastApplied = mdb'.lastApplied
  <2>1. CASE UpdateStatus /\ fresh /\ snap' = snap
    <3>1. snap = mdb /\ mdb' = [mdb EXCEPT !.status = NextStatus(snap)] /\ mdb \in Resources
      BY <2>1 DEF UpdateStatus, ReconcileInvariant, SnapshotCurrent, Store, TypeOK
    <3>2. QED
      BY <2>1, <3>1, ResourceFields
  <2>2. CASE pc = "annotate" /\ snap' = snap /\ mdb' = mdb
    BY <2>2 DEF CopyKept
  <2>3. QED
    BY <1>3, <2>1, <2>2, AnnotateStep DEF EditSpec, Settled, Patient
<1>4. QED
  BY <1>1, <1>2, <1>3 DEF CopyKept

\* The invariant of a user who waits.
LEMMA PatientStep ==
  ASSUME Patient, TypeOK, ReconcileInvariant, SingleEditInvariant, PatientInvariant, [Next]_vars
  PROVE  PatientInvariant'
<1>1. CopyIsResource' /\ Validated' /\ CopyKept'
  BY CopyStep, ValidatedStep, CopyKeptStep DEF PatientInvariant
<1>2. Reported(mdb')
  BY ReportedStep DEF PatientInvariant, Patient, SingleEditInvariant
<1>3. Reported(mdb)'
  BY <1>2 DEF Reported
<1>4. QED
  BY <1>1, <1>3 DEF PatientInvariant

\* TLS that was asked for or applied is not forgotten.
LEMMA NotAskedStep ==
  ASSUME Patient, TypeOK, SingleEditInvariant, PatientInvariant, [Next]_vars, NotAsked'
  PROVE  NotAsked
<1>0. mdb.lastApplied.tls \in BOOLEAN /\ mdb.spec.tls \in BOOLEAN
  BY DEF TypeOK, Resources, Specs
<1>1. CASE mdb'.spec = mdb.spec /\ mdb'.lastApplied = mdb.lastApplied
  BY <1>1 DEF NotAsked
<1>2. CASE pc = "annotate" /\ mdb'.spec = mdb.spec
  <2>1. /\ snap.spec = mdb.spec /\ snap.lastApplied = mdb.lastApplied /\ ValidateSpec(snap)
    BY <1>2 DEF SingleEditInvariant, ReportStands, PatientInvariant, CopyKept, Validated
  <2>2. QED
    BY <1>0, <1>2, <2>1 DEF ValidateSpec, NotAsked
<1>3. CASE mdb'.lastApplied = mdb.lastApplied /\ mdb.lastApplied = mdb.spec
  BY <1>3 DEF NotAsked
<1>4. QED
  BY <1>1, <1>2, <1>3, VersionStep

\* Until TLS is asked for, the invariants of a system without TLS apply.
LEMMA PlainCareful ==
  ASSUME SingleEditInvariant, PatientInvariant, PlainUntilAsked, NotAsked
  PROVE  CarefulInvariant /\ MemberOrder /\ RolloutInvariant
<1>1. Blank.spec.tls = FALSE
  BY DEF Blank, NewResource, NoSpec
<1>2. snap.spec.tls = FALSE
  BY <1>1 DEF PatientInvariant, CopyKept, CopyIsResource, SingleEditInvariant, ReportStands,
              NotAsked
<1>3. QED
  BY <1>2 DEF CarefulInvariant, NoTLS, NotAsked, PatientInvariant, PlainUntilAsked

\* They are kept.
LEMMA PlainUntilAskedStep ==
  ASSUME Patient, Versioned, TypeOK, TypeOK', ReconcileInvariant, SingleEditInvariant,
         SingleEditInvariant', PatientInvariant, PlainUntilAsked, [Next]_vars
  PROVE  PlainUntilAsked'
<1> SUFFICES ASSUME NotAsked'
             PROVE  Ordered' /\ MemberOrder' /\ RolloutInvariant'
  BY DEF PlainUntilAsked
<1>1. NotAsked
  BY NotAskedStep
<1>2. CarefulInvariant /\ MemberOrder /\ RolloutInvariant
  BY <1>1, PlainCareful
<1>3. Ordered'
  BY <1>2, OrderedStep DEF CarefulInvariant
<1>4. QED
  BY <1>2, <1>3, MemberOrderStep, RolloutStep

\* The operator hears of every change of the StatefulSet and of the pods that
\* come, go, or turn ready or not ready.
LEMMA QuietStep ==
  ASSUME TypeOK, [Next]_vars, ~queued'
  PROVE  \/ StartReconcile
         \/ /\ ~queued /\ sts' = sts
            /\ \A i \in Ordinals :
                 /\ pods'[i].up = pods[i].up /\ pods'[i].template = pods[i].template
                 /\ (pods'[i].up /\ pods'[i].probe # "notReady") <=> PodReady(i)
                 /\ pods'[i].annotation \in {pods[i].annotation, ac.version}
<1>0. pods \in [Ordinals -> PodType]
  BY DEF TypeOK, ClusterTypeOK, PodType
<1>1. CASE ClusterStep
  <2>1. /\ ~queued /\ sts' = sts
        /\ \A i \in Ordinals : /\ pods'[i].up = pods[i].up
                               /\ (pods'[i].up /\ pods'[i].probe # "notReady") <=> PodReady(i)
    BY <1>1 DEF ClusterStep, EnqueueOwner, PodReady
  <2>2. ASSUME NEW i \in Ordinals, CreatePod(i) \/ RemovePod(i) \/ RollPod(i)
                                     \/ VersionHookDeletesPod(i)
        PROVE  pods'[i].up # pods[i].up
    <3>1. NewPod(sts.template).up = TRUE /\ NoPod.up = FALSE
      BY DEF NewPod, NoPod
    <3>2. pods[i].up \in BOOLEAN
      BY <1>0 DEF PodType
    <3>3. CASE CreatePod(i)
      BY <1>0, <3>1, <3>3 DEF CreatePod
    <3>4. CASE RemovePod(i)
      BY <1>0, <3>1, <3>4 DEF RemovePod
    <3>5. CASE VersionHookDeletesPod(i)
      BY <1>0, <3>1, <3>5 DEF VersionHookDeletesPod
    <3>6. CASE RollPod(i)
      <4>1. i < sts.replicas /\ \A j \in Ordinals : j < sts.replicas => PodReady(j)
        BY <3>6 DEF RollPod
      <4>2. pods[i].up
        BY <4>1 DEF PodReady
      <4>3. QED
        BY <1>0, <3>1, <3>6, <4>2 DEF RollPod
    <3>7. QED
      BY <2>2, <3>3, <3>4, <3>5, <3>6
  <2>3. \A i \in Ordinals : /\ pods'[i].template = pods[i].template
                            /\ pods'[i].annotation \in {pods[i].annotation, ac.version}
    <3>1. CASE pods' = pods
      BY <3>1
    <3>2. CASE \E i \in Ordinals : ReachGoalState(i) \/ ProbeNotReady(i) \/ ProbeWaitStep(i)
      BY <3>2, PodEffects
    <3>3. [Next]_vars
      OBVIOUS
    <3>4. QED
      BY <2>1, <2>2, <3>1, <3>2, <3>3, PodsStep
  <2>4. QED
    BY <2>1, <2>3
<1>2. CASE ~ClusterStep
  <2>1. pods' = pods
    BY <1>2
       DEF Next, ReconcileStep, StartReconcile, Prepare, ChooseOrder, AwaitAgents,
           EnsureAutomationConfig, CreateOrUpdateStatefulSet, CreateOrUpdateArbiters,
           AwaitStatefulSet, ResetUpdateStrategy, UpdateStatus, SaveLastApplied,
           TLSConfigNotValid, CallFails, EditSpec, Crash, vars, clusterVars
  <2>2. \/ StartReconcile
        \/ ~queued /\ sts' = sts
    BY <1>2
       DEF Next, ReconcileStep, Prepare, ChooseOrder, AwaitAgents,
           EnsureAutomationConfig, CreateOrUpdateStatefulSet, CreateOrUpdateArbiters,
           AwaitStatefulSet, ResetUpdateStrategy, UpdateStatus, SaveLastApplied,
           TLSConfigNotValid, CallFails, EditSpec, Crash, vars, controllerVars, clusterVars,
           Continue, EndWithPhase, EndReconcile
  <2>3. QED
    BY <2>1, <2>2 DEF PodReady
<1>3. QED
  BY <1>1, <1>2

\* So what it found ready is ready.
LEMMA StillReady ==
  ASSUME NEW n, sts' = sts, IsReady(n),
         \A i \in Ordinals :
           /\ pods'[i].up = pods[i].up /\ pods'[i].template = pods[i].template
           /\ (pods'[i].up /\ pods'[i].probe # "notReady") <=> PodReady(i)
  PROVE  IsReady(n)'
<1>1. {i \in Ordinals : pods'[i].up /\ pods'[i].template = sts'.template}
        = {i \in Ordinals : pods[i].up /\ pods[i].template = sts.template}
  OBVIOUS
<1>2. {i \in Ordinals : pods'[i].up /\ pods'[i].probe # "notReady"}
        = {i \in Ordinals : PodReady(i)}
  OBVIOUS
<1>3. QED
  BY <1>1, <1>2 DEF IsReady, PodReady

\* A reconciliation ends without being repeated only when it has recorded what
\* it applied.
LEMMA QuietEnd ==
  ASSUME [Next]_vars, ~queued', pc' = "idle"
  PROVE  pc = "idle" \/ SaveLastApplied
BY DEF Next, ReconcileStep, StartReconcile, Prepare, ChooseOrder,
       EnsureAutomationConfig, AwaitAgents, CreateOrUpdateStatefulSet,
       CreateOrUpdateArbiters, AwaitStatefulSet, ResetUpdateStrategy, UpdateStatus,
       SaveLastApplied, TLSConfigNotValid, CallFails, EditSpec, Crash, ClusterStep,
       EnqueueOwner, vars, controllerVars, Continue, EndWithPhase, EndReconcile

\* Quiet pods stay as they were found.
LEMMA QuietPodsStep ==
  ASSUME TypeOK, ReconcileInvariant, QuietPods, [Next]_vars
  PROVE  QuietPods'
<1> SUFFICES ASSUME ~queued',
                    pc' = "idle" \/ (StatefulSetAwaited' /\ sts'.strategy = "RollingUpdate")
             PROVE  IsReady(sts.replicas)'
  BY DEF QuietPods
<1>1. ~StartReconcile
  BY DEF StartReconcile, StatefulSetAwaited
<1>2. /\ ~queued /\ sts' = sts
      /\ \A i \in Ordinals :
           /\ pods'[i].up = pods[i].up /\ pods'[i].template = pods[i].template
           /\ (pods'[i].up /\ pods'[i].probe # "notReady") <=> PodReady(i)
  BY <1>1, QuietStep
<1>3. IsReady(sts.replicas)
  <2>1. CASE pc = "idle" \/ (StatefulSetAwaited /\ sts.strategy = "RollingUpdate")
    BY <1>2, <2>1 DEF QuietPods
  <2>2. CASE SaveLastApplied
    BY <2>1, <2>2 DEF SaveLastApplied, StatefulSetAwaited, StatefulSetWritten,
                      ReconcileInvariant, DeployedSoFar
  <2>3. CASE /\ AwaitStatefulSet /\ sts.strategy = "RollingUpdate"
             /\ IsReady(StatefulSetReplicasThisReconciliation(snap))
    BY <2>3 DEF AwaitStatefulSet, StatefulSetWritten, ReconcileInvariant, DeployedSoFar
  <2>4. QED
    BY <1>2, <2>1, <2>2, <2>3, QuietEnd, StatefulSetAwaitedStep
<1>4. QED
  BY <1>2, <1>3, StillReady

\* Agents stay in the goal state while their pods are up.
LEMMA StillInGoal ==
  ASSUME TypeOK, NEW n, ac' = ac, AllReachedGoalState(n),
         \A i \in Ordinals : /\ pods'[i].up = pods[i].up
                             /\ pods'[i].annotation \in {pods[i].annotation, ac.version}
  PROVE  AllReachedGoalState(n)'
<1> DEFINE desired == {i \in Ordinals : i < n}
<1>1. {i \in desired : pods'[i].up} = {i \in desired : pods[i].up}
  OBVIOUS
<1>2. \A i \in {j \in desired : pods[j].up} : pods'[i].annotation = ac'.version
  BY DEF AllReachedGoalState, InGoalState
<1>3. {i \in desired : pods[i].up} = {} \/ {i \in desired : pods[i].up} = desired
  BY DEF AllReachedGoalState
<1>4. QED
  BY <1>1, <1>2, <1>3 DEF AllReachedGoalState, InGoalState

\* Quiet agents stay as they were found.
LEMMA QuietAgentsStep ==
  ASSUME TypeOK, ReconcileInvariant, QuietAgents, [Next]_vars
  PROVE  QuietAgents'
<1> SUFFICES ASSUME ~queued', sts'.exists, AgentsAwaited' \/ pc' = "idle"
             PROVE  /\ AgentsAwaited' =>
                         AllReachedGoalState(StatefulSetReplicasThisReconciliation(snap))'
                    /\ pc' = "idle" => AllReachedGoalState(sts.replicas)'
  BY DEF QuietAgents
<1>1. ~StartReconcile
  BY DEF StartReconcile, AgentsAwaited
<1>2. /\ ~queued /\ sts' = sts
      /\ \A i \in Ordinals : /\ pods'[i].up = pods[i].up
                              /\ pods'[i].annotation \in {pods[i].annotation, ac.version}
  BY <1>1, QuietStep
<1>3. ac' = ac
  BY ConfigStep DEF EnsureAutomationConfig, Continue, AgentsAwaited
<1>4. ASSUME AgentsAwaited'
      PROVE  AllReachedGoalState(StatefulSetReplicasThisReconciliation(snap))'
  <2> DEFINE n == StatefulSetReplicasThisReconciliation(snap)
  <2>1. snap' = snap /\ AllReachedGoalState(n)
    BY <1>2, <1>4, AgentsAwaitedStep DEF QuietAgents
  <2>2. AllReachedGoalState(n) /\ ac' = ac
    BY <1>3, <2>1
  <2> HIDE DEF n
  <2>3. ASSUME NEW k, k = n
        PROVE  AllReachedGoalState(k)'
    BY <1>2, <2>2, <2>3, StillInGoal
  <2>4. StatefulSetReplicasThisReconciliation(snap)' = n
    BY <2>1 DEF n, StatefulSetReplicasThisReconciliation, MembersScaler
  <2>5. QED
    BY <2>3, <2>4
<1>5. ASSUME pc' = "idle"
      PROVE  AllReachedGoalState(sts.replicas)'
  <2>1. AllReachedGoalState(sts.replicas)
    <3>1. CASE pc = "idle"
      BY <1>2, <3>1 DEF QuietAgents
    <3>2. CASE SaveLastApplied
      <4>1. pc = "annotate"
        BY <3>2 DEF SaveLastApplied
      <4>2. AllReachedGoalState(StatefulSetReplicasThisReconciliation(snap))
        BY <1>2, <4>1 DEF QuietAgents, AgentsAwaited
      <4>3. sts.replicas = StatefulSetReplicasThisReconciliation(snap)
        BY <4>1 DEF StatefulSetWritten, ReconcileInvariant, DeployedSoFar
      <4>4. QED
        BY <4>2, <4>3
    <3>3. QED
      BY <1>5, <3>1, <3>2, QuietEnd
  <2>2. ASSUME NEW k, k = sts.replicas
        PROVE  AllReachedGoalState(k)'
    BY <1>2, <1>3, <2>1, <2>2, StillInGoal
  <2>3. QED
    BY <1>2, <2>2
<1>6. QED
  BY <1>4, <1>5

\* What a reconciliation writes into StatefulSet and config.
LEMMA TLSWritten ==
  ASSUME Patient, TypeOK, PatientInvariant, [Next]_vars
  PROVE  /\ CreateOrUpdateStatefulSet =>
              /\ pc = "sts" /\ snap = mdb /\ mdb' = mdb /\ ValidateSpec(mdb)
              /\ sts'.template.tls = mdb.spec.tls
         /\ EnsureAutomationConfig =>
              /\ pc = "ac" /\ snap = mdb /\ mdb' = mdb /\ ac'.content.tls = mdb.spec.tls
<1>0. snap \in Resources /\ ac \in ConfigType /\ sts \in StatefulSetType
  BY DEF TypeOK, ClusterTypeOK, ConfigType, StatefulSetType
<1>1. ASSUME CreateOrUpdateStatefulSet
      PROVE  /\ pc = "sts" /\ snap = mdb /\ mdb' = mdb /\ ValidateSpec(mdb)
             /\ sts'.template.tls = mdb.spec.tls
  <2>1. pc = "sts" /\ snap = mdb /\ mdb' = mdb /\ ValidateSpec(mdb)
    BY <1>1 DEF CreateOrUpdateStatefulSet, Continue, PatientInvariant, CopyIsResource, Validated
  <2>2. sts'.template = [version |-> snap.spec.version, tls |-> snap.spec.tls]
    BY <1>0, <1>1, DesiredStatefulSetFields, ThisReconciliationType
       DEF CreateOrUpdateStatefulSet
  <2>3. QED
    BY <2>1, <2>2
<1>2. ASSUME EnsureAutomationConfig
      PROVE  pc = "ac" /\ snap = mdb /\ mdb' = mdb /\ ac'.content.tls = mdb.spec.tls
  <2>1. pc = "ac" /\ snap = mdb /\ mdb' = mdb
    BY <1>2 DEF EnsureAutomationConfig, Continue, PatientInvariant, CopyIsResource
  <2>2. ac'.content = [BuiltContent(snap) EXCEPT !.override = snap.spec.override]
    BY <1>0, <1>2, EnsuredContent DEF EnsureAutomationConfig
  <2>3. ac'.content.tls = snap.spec.tls
    BY <2>2 DEF BuiltContent
  <2>4. QED
    BY <2>1, <2>3
<1>3. QED
  BY <1>1, <1>2

\* Certificates stay mounted: a spec that takes TLS away again is refused.
LEMMA AppliedTLSStep ==
  ASSUME Patient, TypeOK, ReconcileInvariant, SingleEditInvariant, PatientInvariant, AppliedTLS,
         [Next]_vars
  PROVE  AppliedTLS'
<1> SUFFICES ASSUME mdb'.lastApplied.tls, sts'.exists
             PROVE  sts'.template.tls
  BY DEF AppliedTLS
<1>1. CASE CreateOrUpdateStatefulSet
  BY <1>1, TLSWritten DEF ValidateSpec
<1>2. CASE sts'.exists = sts.exists /\ sts'.template = sts.template
  <2>1. CASE mdb'.lastApplied = mdb.lastApplied
    BY <1>2, <2>1 DEF AppliedTLS
  <2>2. CASE pc = "annotate" /\ mdb'.lastApplied = mdb.spec
    <3>1. snap.spec = mdb.spec
      BY <2>2 DEF SingleEditInvariant, ReportStands
    <3>2. sts.template.tls = snap.spec.tls
      BY <2>2 DEF ReconcileInvariant, DeployedSoFar, StatefulSetWritten
    <3>3. QED
      BY <1>2, <2>2, <3>1, <3>2
  <2>3. QED
    BY <2>1, <2>2, VersionStep
<1>3. QED
  BY <1>1, <1>2, StatefulSetStep

\* TLS comes to be asked for by an edit, of a resource without it.
LEMMA AskedStep ==
  ASSUME Patient, TypeOK, ReconcileInvariant, SingleEditInvariant, PatientInvariant, AppliedTLS,
         [Next]_vars, Asked'
  PROVE  /\ ac' = ac /\ ~CreateOrUpdateStatefulSet
         /\ sts'.replicas = sts.replicas /\ sts'.exists = sts.exists
         /\ sts'.template = sts.template
         /\ \/ Asked /\ mdb'.spec = mdb.spec
            \/ EditSpec /\ NotAsked /\ sts.exists /\ mdb'.spec.tls
<1>0. mdb.lastApplied.tls \in BOOLEAN /\ mdb.spec.tls \in BOOLEAN
  BY DEF TypeOK, Resources, Specs
<1>1. ac' = ac
  BY ConfigStep, TLSWritten DEF Asked
<1>2. ~CreateOrUpdateStatefulSet
  BY TLSWritten DEF Asked
<1>3. /\ sts'.replicas = sts.replicas /\ sts'.exists = sts.exists
      /\ sts'.template = sts.template
  BY <1>2, StatefulSetStep
<1>4. CASE mdb'.spec = mdb.spec
  BY <1>1, <1>2, <1>3, <1>4 DEF Asked
<1>5. CASE EditSpec /\ mdb.lastApplied = mdb.spec
  BY <1>0, <1>1, <1>2, <1>3, <1>5 DEF Asked, AppliedTLS, NotAsked
<1>6. QED
  BY <1>4, <1>5, VersionStep

\* While it is asked for, the reconciliation has not written the StatefulSet.
LEMMA AskedUnwritten ==
  ASSUME ReconcileInvariant, SingleEditInvariant, PatientInvariant, Asked
  PROVE  ~StatefulSetWritten
<1>1. CASE pc = "annotate"
  BY <1>1 DEF Asked, ReconcileInvariant, DeployedSoFar, SingleEditInvariant, ReportStands
<1>2. CASE pc \notin {"idle", "annotate"}
  BY <1>2 DEF Asked, ReconcileInvariant, DeployedSoFar, PatientInvariant, CopyIsResource
<1>3. QED
  BY <1>1, <1>2 DEF StatefulSetWritten

\* Pods that are all well are ready.
LEMMA AllWellIsReady ==
  ASSUME TypeOK, AllWell(sts.replicas), sts.observed
  PROVE  IsReady(sts.replicas)
<1> DEFINE n == sts.replicas
<1>0. n \in Nat /\ n <= MaxMembers /\ MaxMembers \in Nat
  BY MaxMembersAssumption DEF TypeOK, ClusterTypeOK, Counts
<1>1. {i \in Ordinals : pods[i].up /\ pods[i].template = sts.template} = 0 .. n - 1
  BY <1>0 DEF AllWell, Ordinals
<1>2. {i \in Ordinals : PodReady(i)} = 0 .. n - 1
  <2>1. \A i \in Ordinals : PodReady(i) <=> i < n
    BY DEF AllWell, PodReady
  <2>2. QED
    BY <1>0, <2>1 DEF Ordinals
<1>3. Cardinality(0 .. n - 1) = n
  <2>1. \A k \in Nat : Cardinality(0 .. k - 1) = k
    BY FS_Interval
  <2>2. QED
    BY <1>0, <2>1
<1>4. QED
  BY <1>1, <1>2, <1>3 DEF IsReady

\* Ready pods in order, with agents in the goal state, are well.
LEMMA ReadyIsAllWell ==
  ASSUME TypeOK, IsReady(sts.replicas), AllReachedGoalState(sts.replicas), Uniform, PodsInOrder
  PROVE  AllWell(sts.replicas)
<1> DEFINE n  == sts.replicas
           up == {i \in Ordinals : pods[i].up}
<1>0. n \in Counts /\ n \in Nat /\ n <= MaxMembers /\ MaxMembers \in Nat
  BY MaxMembersAssumption DEF TypeOK, ClusterTypeOK, Counts
<1>1. {i \in Ordinals : pods[i].up /\ pods[i].template = sts.template} = up
  BY DEF Uniform
<1>2. Cardinality(up) = n
  BY <1>1 DEF IsReady
<1>3. \A i \in Ordinals : i \in up <=> i < n
  <2>1. \A i, j \in Ordinals : i < j /\ j \in up => i \in up
    BY DEF PodsInOrder
  <2>2. QED
    BY <1>0, <1>2, <2>1, FirstOrdinals
<1>4. IsFiniteSet(up)
  <2>1. IsFiniteSet(Ordinals)
    BY <1>0, FS_Interval DEF Ordinals
  <2>2. QED
    BY <2>1, FS_Subset
<1>5. {i \in Ordinals : PodReady(i)} = up
  <2>1. {i \in Ordinals : PodReady(i)} \subseteq up
    BY DEF PodReady
  <2>2. Cardinality({i \in Ordinals : PodReady(i)}) = n
    BY DEF IsReady
  <2>3. QED
    BY <1>2, <1>4, <2>1, <2>2, FS_Subset
<1>6. \A i \in Ordinals : pods[i].up => InGoalState(i)
  BY <1>3 DEF AllReachedGoalState
<1>7. QED
  BY <1>3, <1>5, <1>6 DEF AllWell, Uniform

\* Steps of the pods leave them well.
LEMMA AllWellStep ==
  ASSUME TypeOK, [Next]_vars, AllWell(sts.replicas), sts.observed, ac' = ac, sts' = sts,
         sts.template.version = ac.content.version
  PROVE  AllWell(sts.replicas)'
<1> DEFINE n == sts.replicas
<1>0. n \in Nat
  BY DEF TypeOK, ClusterTypeOK, Counts
<1>1. SUFFICES \A i \in Ordinals :
                 /\ pods'[i].up <=> i < n
                 /\ pods'[i].up => /\ pods'[i].probe # "notReady"
                                  /\ pods'[i].annotation = ac.version
                                  /\ pods'[i].template = sts.template
  BY DEF AllWell, PodReady, InGoalState
<1>2. \A i \in Ordinals :
        /\ pods[i].up <=> i < n
        /\ pods[i].up => /\ pods[i].probe # "notReady" /\ pods[i].annotation = ac.version
                        /\ pods[i].template = sts.template
  BY DEF AllWell, PodReady, InGoalState
<1>3. CASE pods' = pods
  BY <1>2, <1>3
<1>4. ASSUME NEW k \in Ordinals,
             \/ CreatePod(k) \/ RemovePod(k) \/ RollPod(k) \/ ProbeNotReady(k)
             \/ ProbeWaitStep(k) \/ VersionHookDeletesPod(k)
      PROVE  FALSE
  <2>0. k \in Nat
    BY MaxMembersAssumption DEF Ordinals
  <2>1. ~CreatePod(k)
    BY <1>2 DEF CreatePod
  <2>2. ~RemovePod(k)
    BY <1>0, <1>2, <2>0 DEF RemovePod
  <2>3. ~RollPod(k)
    BY <1>2 DEF RollPod
  <2>4. ~ProbeNotReady(k) /\ ~ProbeWaitStep(k)
    BY <1>2 DEF ProbeNotReady, ProbeWaitStep, InGoalState
  <2>5. ~VersionHookDeletesPod(k)
    BY <1>2 DEF VersionHookDeletesPod
  <2>6. QED
    BY <1>4, <2>1, <2>2, <2>3, <2>4, <2>5
<1>5. ASSUME NEW k \in Ordinals, ReachGoalState(k)
      PROVE  \A i \in Ordinals :
               /\ pods'[i].up <=> i < n
               /\ pods'[i].up => /\ pods'[i].probe # "notReady"
                                /\ pods'[i].annotation = ac.version
                                /\ pods'[i].template = sts.template
  <2>1. /\ pods'[k].up = pods[k].up /\ pods'[k].template = pods[k].template
        /\ pods'[k].annotation = ac.version /\ pods'[k].probe = "ready"
        /\ \A j \in Ordinals : j # k => pods'[j] = pods[j]
    BY <1>5, PodEffects
  <2> HIDE DEF n
  <2>2. QED
    BY <1>2, <2>1
<1>6. QED
  BY <1>3, <1>4, <1>5, PodsStep

\* An edit is made when everything is deployed and ready.
LEMMA SteadyEdit ==
  ASSUME Patient, ~JointEdits, TypeOK, ReconcileInvariant, SingleEditInvariant,
         PatientInvariant, PlainUntilAsked, QuietPods, QuietAgents, EditSpec,
         NotAsked, sts.exists, mdb'.spec.tls
  PROVE  Steady'
<1>0. mdb \in Resources
  BY DEF TypeOK
<1>1. CarefulInvariant /\ MemberOrder /\ RolloutInvariant
  BY PlainCareful
<1>2. /\ pc = "idle" /\ pc' = "idle" /\ ~queued /\ UNCHANGED clusterVars
      /\ mdb.lastApplied = mdb.spec /\ mdb.status.phase = "Running"
  BY DEF EditSpec, Settled, Patient
<1>3. PICK spec \in UserSpecs \ {mdb.spec} :
             OneFieldChanged(mdb.spec, spec) /\ mdb' = [mdb EXCEPT !.spec = spec]
  BY DEF EditSpec, Store
<1>4. mdb'.spec = spec /\ mdb'.status = mdb.status
  BY <1>0, <1>3, ResourceFields
<1>5. spec.members = mdb.spec.members
  <2>1. mdb.spec \in Specs /\ spec \in Specs
    BY <1>0, <1>3, UserSpecsAssumption DEF Resources
  <2>2. \A f, g \in {"members", "arbiters", "version", "tls", "override"} :
          mdb.spec[f] # spec[f] /\ mdb.spec[g] # spec[g] => f = g
    BY <1>3, <2>1, OneFieldOnly
  <2>3. mdb.spec.tls # spec.tls
    BY <1>4 DEF NotAsked
  <2>4. QED
    BY <2>1, <2>2, <2>3 DEF Specs
<1>6. ~IsChangingVersion(mdb) /\ Recorded
  BY <1>2 DEF IsChangingVersion, Recorded
<1>7. /\ Reached(mdb) /\ sts.replicas = mdb.spec.members
      /\ ac.content.members = mdb.spec.members
  BY <1>1, <1>6, Upgrading
<1>8. /\ sts.template = TemplateOf(mdb) /\ Uniform /\ PodsInOrder
      /\ ac.content.members > 0 => ac.content.version = mdb.spec.version
  BY <1>1, <1>6 DEF RolloutInvariant, AtVersion, RollsNothing, InOrderUnlessChanging
<1>9. ac.content.members > 0
  <2>1. mdb.status.stsReplicas # 0 /\ ac.content.members = mdb.status.stsReplicas
    BY <1>2, <1>7 DEF PatientInvariant, Reported, Reached
  <2>2. ac.content.members \in Nat
    BY DEF TypeOK, ClusterTypeOK, Contents, Counts
  <2>3. QED
    BY <2>1, <2>2
<1>10. IsReady(sts.replicas) /\ AllReachedGoalState(sts.replicas)
  BY <1>2 DEF QuietPods, QuietAgents
<1>11. AllWell(sts.replicas) /\ sts.observed
  BY <1>8, <1>10, ReadyIsAllWell DEF IsReady
<1>12. AllWell(sts.replicas)'
  BY <1>2, <1>11 DEF AllWell, PodReady, InGoalState, clusterVars
<1>13. sts.template.version = ac.content.version
  BY <1>8, <1>9 DEF TemplateOf
<1>14. sts' = sts /\ ac' = ac
  BY <1>2 DEF clusterVars
<1>15. /\ mdb'.status.stsReplicas = mdb'.spec.members /\ sts'.replicas = mdb'.spec.members
  BY <1>4, <1>5, <1>7, <1>14 DEF Reached
<1>16. QED
  BY <1>2, <1>11, <1>12, <1>13, <1>14, <1>15 DEF Steady

\* The StatefulSet is found ready, so that it goes first.
LEMMA SteadyOrder ==
  ASSUME MaxFaults = 0, TypeOK, PatientInvariant, Asked, Steady, [Next]_vars,
         pc' \notin {"idle", "prepare", "order"}
  PROVE  ~inOrder'
<1>1. CASE ChooseOrder
  <2>1. ~(used.faults < MaxFaults)
    BY DEF TypeOK
  <2>2. snap = mdb
    BY <1>1 DEF ChooseOrder, PatientInvariant, CopyIsResource
  <2>3. StatefulSetReplicasThisReconciliation(mdb) = sts.replicas
    <3>1. mdb.spec.members \in Nat
      BY DEF TypeOK, Resources, Specs, Counts
    <3>2. QED
      BY <3>1 DEF Steady, StatefulSetReplicasThisReconciliation, MembersScaler, Scaler,
                  ReplicasThisReconciliation, IsScalingDown
  <2>4. IsReady(sts.replicas)
    BY AllWellIsReady DEF Steady
  <2>5. inOrder' = ShouldRunInOrder(mdb, IsReady(sts.replicas), sts.exists)
    BY <1>1, <2>1, <2>2, <2>3 DEF ChooseOrder, Fault
  <2>6. QED
    BY <2>4, <2>5 DEF Asked, ShouldRunInOrder
<1>2. CASE pc \notin {"idle", "prepare", "order"} /\ inOrder' = inOrder
  BY <1>2 DEF Steady
<1>3. QED
  BY <1>1, <1>2, PlaceStep

\* What is steady stays so until the StatefulSet or the config knows of TLS.
LEMMA SteadyStep ==
  ASSUME Patient, ~JointEdits, MaxFaults = 0, TypeOK, ReconcileInvariant, SingleEditInvariant,
         PatientInvariant, PlainUntilAsked, QuietPods, QuietAgents, AppliedTLS, Steady,
         [Next]_vars
  PROVE  Steady'
<1> SUFFICES ASSUME Asked' PROVE Steady'
  BY DEF Steady
<1>1. CASE EditSpec /\ NotAsked /\ sts.exists /\ mdb'.spec.tls
  BY <1>1, SteadyEdit
<1>2. CASE Asked /\ mdb'.spec = mdb.spec
  <2>1. /\ ac' = ac /\ ~CreateOrUpdateStatefulSet
        /\ sts'.replicas = sts.replicas /\ sts'.template = sts.template
    BY AskedStep
  <2>2. ~StatefulSetWritten
    BY <1>2, AskedUnwritten
  <2>3. sts' = sts
    <3>1. ~ResetUpdateStrategy
      BY <2>2 DEF ResetUpdateStrategy, StatefulSetWritten
    <3>2. CASE ClusterStep
      <4>1. sts.observed
        BY <1>2 DEF Steady
      <4>2. QED
        BY <3>2, <4>1 DEF ClusterStep, StatefulSetEvent, ObserveStatefulSet, ObserveArbiters,
                          CreatePod, RemovePod, RollPod, ReachGoalState, ProbeNotReady,
                          ProbeWaitStep, VersionHookDeletesPod
    <3>3. QED
      BY <2>1, <3>1, <3>2
         DEF Next, ReconcileStep, StartReconcile, Prepare, ChooseOrder, AwaitAgents,
             EnsureAutomationConfig, CreateOrUpdateArbiters, AwaitStatefulSet, UpdateStatus,
             SaveLastApplied, TLSConfigNotValid, CallFails, EditSpec, Crash, vars, clusterVars
  <2>4. AllWell(sts.replicas)'
    BY <1>2, <2>1, <2>3, AllWellStep DEF Steady
  <2>5. mdb'.status.stsReplicas = mdb.status.stsReplicas
    BY <2>2, ReportStep DEF StatefulSetWritten
  <2>6. pc' \notin {"idle", "prepare", "order"} => ~inOrder'
    BY <1>2, SteadyOrder
  <2>7. QED
    BY <1>2, <2>1, <2>3, <2>4, <2>5, <2>6 DEF Steady
<1>3. QED
  BY <1>1, <1>2, AskedStep

\* All of it.
CertificateInvariant ==
  PatientInvariant /\ PlainUntilAsked /\ QuietPods /\ QuietAgents /\ AppliedTLS /\ Steady

\* The invariant holds of every behaviour of a user who waits and edits one field
\* at a time, if no call fails.
LEMMA CertificateInvariantHolds ==
  ASSUME Patient, ~JointEdits, Versioned, MaxFaults = 0
  PROVE  Spec => []CertificateInvariant
<1>1. Init => CertificateInvariant
  <2> SUFFICES ASSUME Init PROVE CertificateInvariant
    OBVIOUS
  <2>1. PICK spec \in UserSpecs : mdb = NewResource(spec)
    BY DEF Init
  <2>2. mdb.status = NewStatus /\ mdb.lastApplied = NoSpec
    BY <2>1 DEF NewResource
  <2>3. /\ NewStatus.stsReplicas = 0 /\ NewStatus.stsArbiters = 0 /\ NewStatus.phase = ""
        /\ NoSpec.tls = FALSE
    BY DEF NewStatus, NoSpec
  <2>4. pc = "idle" /\ snap = Blank /\ queued = TRUE /\ sts.exists = FALSE
    BY DEF Init, ClusterInit, NoStatefulSet
  <2>5. PatientInvariant
    BY <2>2, <2>3, <2>4 DEF PatientInvariant, CopyIsResource, Validated, Reported, CopyKept
  <2>6. Ordered /\ MemberOrder /\ RolloutInvariant
    BY <2>4, MemberOrderInit, RolloutInit DEF Ordered
  <2>7. QED
    BY <2>4, <2>5, <2>6
       DEF CertificateInvariant, PlainUntilAsked, QuietPods, QuietAgents, AppliedTLS, Steady,
           Asked
<1>2. TypeOK /\ TypeOK' /\ ReconcileInvariant /\ SingleEditInvariant /\ SingleEditInvariant'
      /\ CertificateInvariant /\ [Next]_vars => CertificateInvariant'
  <2> SUFFICES ASSUME TypeOK, TypeOK', ReconcileInvariant, SingleEditInvariant,
                      SingleEditInvariant', CertificateInvariant, [Next]_vars
               PROVE  CertificateInvariant'
    OBVIOUS
  <2>1. PatientInvariant' /\ PlainUntilAsked'
    BY PatientStep, PlainUntilAskedStep DEF CertificateInvariant
  <2>2. QuietPods' /\ QuietAgents'
    BY QuietPodsStep, QuietAgentsStep DEF CertificateInvariant
  <2>3. AppliedTLS' /\ Steady'
    BY AppliedTLSStep, SteadyStep DEF CertificateInvariant
  <2>4. QED
    BY <2>1, <2>2, <2>3 DEF CertificateInvariant
<1>3. ~EditsInFlight
  BY DEF Patient
<1>4. QED
  BY <1>1, <1>2, <1>3, TypeCorrect, ReconcileInvariantHolds, SingleEditInvariantHolds, PTL
     DEF Spec

\* Enabling TLS, the StatefulSet mounts the certificates before the config makes
\* mongod use them, for a user who enables it by itself and waits for the edit
\* before: shouldRunInOrder puts the StatefulSet first because it finds it ready.
\* The operator may stop anywhere; a failed Get of the StatefulSet would make it
\* put the config first.
THEOREM CertsBeforeTLSTheorem ==
  ASSUME Patient, ~JointEdits, Versioned, MaxFaults = 0
  PROVE  Spec => CertsBeforeTLSConfig
<1>1. TypeOK /\ ReconcileInvariant /\ SingleEditInvariant /\ CertificateInvariant /\ [Next]_vars
      => [sts.exists /\ ac'.content.tls /\ ~ac.content.tls => sts.template.tls]_vars
  <2> SUFFICES ASSUME TypeOK, ReconcileInvariant, SingleEditInvariant, CertificateInvariant,
                      [Next]_vars, sts.exists, ac'.content.tls, ~ac.content.tls,
                      ~sts.template.tls
               PROVE  FALSE
    OBVIOUS
  <2>1. PatientInvariant /\ Steady
    BY DEF CertificateInvariant
  <2>2. EnsureAutomationConfig
    BY ConfigStep
  <2>3. pc = "ac" /\ Asked
    BY <2>1, <2>2, TLSWritten DEF Asked
  <2>4. ~inOrder
    BY <2>1, <2>3 DEF Steady
  <2>5. QED
    BY <2>1, <2>3, <2>4, AskedUnwritten DEF StatefulSetWritten
<1>2. ~EditsInFlight
  BY DEF Patient
<1>3. QED
  BY <1>1, <1>2, TypeCorrect, ReconcileInvariantHolds, SingleEditInvariantHolds,
     CertificateInvariantHolds, PTL DEF Spec, CertsBeforeTLSConfig
=============================================================================
