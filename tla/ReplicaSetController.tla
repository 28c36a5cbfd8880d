------------------------ MODULE ReplicaSetController ------------------------
(***************************************************************************)
(* The reconciliation loop of the operator for one MongoDBCommunity        *)
(* resource (controllers/replica_set_controller.go), step by step between  *)
(* its calls to the API server, interleaved with the user, with the        *)
(* cluster (module Cluster) and with crashes of the operator.              *)
(*                                                                         *)
(*   mdb     the resource as the API server has it;                        *)
(*   oldMdb  the version before its last change, which the informer cache  *)
(*           may still serve;                                              *)
(*   snap    the copy the running reconciliation works on;                 *)
(*   fresh   snap carries the newest resourceVersion: an update of the     *)
(*           status made from it will not be refused as a conflict;        *)
(*   queued  the work queue holds a request for the resource;              *)
(*   pc      the next call of the running reconciliation;                  *)
(*   inOrder what shouldRunInOrder decided: config before StatefulSets;    *)
(*   used    how much of each bound below has been used.                   *)
(*                                                                         *)
(* The controller runs one reconciliation per resource at a time.  Left    *)
(* out: users, certificates, ports and the Service (they do not influence  *)
(* the order of the steps below), stale cached reads of the StatefulSet,   *)
(* the secret and the pods, and deletion of the resource.                  *)
(***************************************************************************)
EXTENDS Cluster

CONSTANTS
  UserSpecs,      \* the specs the user may apply
  EditsInFlight,  \* may the user edit before the last edit is deployed?
  JointEdits,     \* may one edit change several fields of the spec?
  MaxEdits, MaxCrashes, MaxFaults, MaxStaleReads

ASSUME UserSpecsAssumption == UserSpecs \subseteq Specs
ASSUME BoundsAssumption ==
  /\ EditsInFlight \in BOOLEAN /\ JointEdits \in BOOLEAN
  /\ {MaxEdits, MaxCrashes, MaxFaults, MaxStaleReads} \subseteq Nat

VARIABLES mdb, oldMdb, snap, fresh, queued, pc, inOrder, used

controllerVars == <<mdb, oldMdb, snap, fresh, queued, pc, inOrder, used>>

vars == <<clusterVars, controllerVars>>

PCs == {"idle", "prepare", "order", "ac", "agents", "sts", "arbSts", "stsReady",
        "reset", "status", "annotate"}

Blank == NewResource(NoSpec)

Init ==
  /\ ClusterInit
  /\ \E spec \in UserSpecs : mdb = NewResource(spec)
  /\ oldMdb = mdb
  /\ snap = Blank
  /\ fresh = FALSE
  /\ queued = TRUE
  /\ pc = "idle"
  /\ inOrder = TRUE
  /\ used = [edits |-> 0, crashes |-> 0, faults |-> 0, stale |-> 0]

-----------------------------------------------------------------------------
(***************************************************************************)
(* Writing the resource.                                                   *)
(***************************************************************************)
\* The API server accepts a new value of the resource.  The old one is kept
\* as long as a cached read may return it.
Store(m) ==
  /\ mdb' = m
  /\ oldMdb' = IF used.stale = MaxStaleReads THEN m
               ELSE IF m = mdb THEN oldMdb ELSE mdb

\* The reconciliation ends and forgets its copy of the resource.
EndReconcile(requeue) ==
  /\ pc' = "idle" /\ snap' = Blank /\ fresh' = FALSE /\ inOrder' = TRUE
  /\ queued' = (queued \/ requeue)

\* status.Update with a Failed or Pending phase and nothing else to report:
\* both results requeue, and so does the error of a conflicting update.
EndWithPhase(phase) ==
  /\ IF fresh THEN Store([mdb EXCEPT !.status.phase = phase])
              ELSE UNCHANGED <<mdb, oldMdb>>
  /\ EndReconcile(TRUE)

Continue(next) ==
  /\ pc' = next
  /\ UNCHANGED <<mdb, oldMdb, snap, fresh, inOrder>>

\* One of the transient faults the bound allows: an error of an API call.
Fault ==
  /\ used.faults < MaxFaults
  /\ used' = [used EXCEPT !.faults = @ + 1]

-----------------------------------------------------------------------------
(***************************************************************************)
(* The steps of Reconcile.                                                 *)
(***************************************************************************)
\* r.client.Get reads the resource from the informer cache.
StartReconcile ==
  /\ pc = "idle" /\ queued
  /\ queued' = FALSE
  /\ \/ /\ snap' = mdb /\ fresh' = TRUE
        /\ UNCHANGED used
     \/ /\ used.stale < MaxStaleReads /\ oldMdb # mdb
        /\ snap' = oldMdb /\ fresh' = FALSE
        /\ used' = [used EXCEPT !.stale = @ + 1]
  /\ pc' = "prepare"
  /\ UNCHANGED <<clusterVars, mdb, oldMdb, inOrder>>

\* validateSpec, then the Service, TLS, Prometheus and user resources.
Prepare ==
  /\ pc = "prepare"
  /\ IF ValidateSpec(snap)
     THEN Continue("order") /\ UNCHANGED queued
     ELSE EndWithPhase("Failed")
  /\ UNCHANGED <<clusterVars, used>>

\* validateTLSConfig finds the certificates or the CA missing.
TLSConfigNotValid ==
  /\ pc = "prepare" /\ ValidateSpec(snap) /\ snap.spec.tls
  /\ Fault
  /\ EndWithPhase("Pending")
  /\ UNCHANGED clusterVars

IsReady(n) ==
  /\ Cardinality({i \in Ordinals : pods[i].up /\ pods[i].template = sts.template}) = n
  /\ Cardinality({i \in Ordinals : PodReady(i)}) = n
  /\ sts.observed

\* shouldRunInOrder: stsReady and found are what its Get of the StatefulSet
\* tells; an error reads as a StatefulSet that is not ready and not found.
\* Mutant: the StatefulSet goes first on every scaling operation.
StatefulSetFirstWhenScaling(m, stsReady, found) ==
  ~(IsScalingUp(MembersScaler(m)) \/ IsScalingDown(MembersScaler(m)))

\* Mutant: the config always goes first.
ConfigAlwaysFirst(m, stsReady, found) == TRUE

ShouldRunInOrder(m, stsReady, found) ==
  IF m.spec.tls /\ (~stsReady \/ found) THEN ~stsReady
  ELSE IF IsScalingUp(MembersScaler(m)) \/ m.status.stsArbiters < m.spec.arbiters
  THEN HasZeroReplicas(MembersScaler(m))
  ELSE IsScalingDown(MembersScaler(m)) \/ ~IsChangingVersion(m)

ChooseOrder ==
  /\ pc = "order"
  /\ \/ /\ inOrder' = ShouldRunInOrder(snap,
                        IsReady(StatefulSetReplicasThisReconciliation(snap)), sts.exists)
        /\ UNCHANGED used
     \/ /\ inOrder' = ShouldRunInOrder(snap, FALSE, FALSE)
        /\ Fault
  /\ pc' = IF inOrder' THEN "ac" ELSE "sts"
  /\ UNCHANGED <<clusterVars, mdb, oldMdb, snap, fresh, queued>>

-----------------------------------------------------------------------------
(***************************************************************************)
(* deployAutomationConfig.                                                 *)
(***************************************************************************)
\* What buildAutomationConfig asks the builder for.
BuiltContent(m) ==
  LET members == AutomationConfigMembersThisReconciliation(m)
  IN  [members  |-> members,
       arbiters |-> IF members < m.spec.members
                    THEN m.status.mdbArbiters
                    ELSE AutomationConfigArbitersThisReconciliation(m),
       version  |-> m.spec.version,
       tls      |-> m.spec.tls,
       override |-> FALSE]

\* Builder.Build: the version moves when the content differs from the
\* previous config.  The override of the spec is merged in afterwards.
\* Mutant: the version is carried over.
ConfigWithoutNewVersion(previous, m) ==
  [version |-> IF previous.version = 0 THEN 1 ELSE previous.version,
   content |-> [BuiltContent(m) EXCEPT !.override = m.spec.override]]

BuildAutomationConfig(previous, m) ==
  LET built == BuiltContent(m)
  IN  [version |-> IF built = previous.content THEN previous.version
                                               ELSE previous.version + 1,
       content |-> [built EXCEPT !.override = m.spec.override]]

\* EnsureSecret compares contents only.
EnsureSecret(existing, desired) ==
  IF existing.version > 0 /\ desired.content = existing.content
  THEN existing ELSE desired

EnsureAutomationConfig ==
  /\ pc = "ac"
  /\ ac' = EnsureSecret(ac, BuildAutomationConfig(ac, snap))
  /\ Continue("agents")
  /\ UNCHANGED <<sts, arbSts, pods, queued, used>>

\* Arbiters are not considered.
AllReachedGoalState(n) ==
  LET desired == {i \in Ordinals : i < n}
      found   == {i \in desired : pods[i].up}
  IN  /\ \A i \in found : InGoalState(i)
      /\ found = {} \/ found = desired

\* Mutant: waits for as many agents as the spec has members.
AwaitFinalAgents ==
  /\ pc = "agents"
  /\ IF ~sts.exists \/ AllReachedGoalState(snap.spec.members)
     THEN Continue(IF inOrder THEN "sts" ELSE "reset") /\ UNCHANGED queued
     ELSE EndWithPhase("Pending")
  /\ UNCHANGED <<clusterVars, used>>

\* A StatefulSet that does not exist yet has no readiness probe container,
\* and its agents are not waited for.
AwaitAgents ==
  /\ pc = "agents"
  /\ IF ~sts.exists \/ AllReachedGoalState(StatefulSetReplicasThisReconciliation(snap))
     THEN Continue(IF inOrder THEN "sts" ELSE "reset") /\ UNCHANGED queued
     ELSE EndWithPhase("Pending")
  /\ UNCHANGED <<clusterVars, used>>

-----------------------------------------------------------------------------
(***************************************************************************)
(* deployStatefulSet.  An update that changes nothing leaves the           *)
(* generation alone and causes no event.                                   *)
(***************************************************************************)
DesiredStatefulSet(current, m, replicas) ==
  LET new == [exists |-> TRUE, replicas |-> replicas,
              template |-> [version |-> m.spec.version, tls |-> m.spec.tls],
              strategy |-> GetUpdateStrategyType(m), observed |-> current.observed]
  IN  IF new = current THEN current ELSE [new EXCEPT !.observed = FALSE]

CreateOrUpdateStatefulSet ==
  /\ pc = "sts"
  /\ sts' = DesiredStatefulSet(sts, snap, StatefulSetReplicasThisReconciliation(snap))
  /\ queued' = (queued \/ sts' # sts)
  /\ Continue("arbSts")
  /\ UNCHANGED <<ac, arbSts, pods, used>>

CreateOrUpdateArbiters ==
  /\ pc = "arbSts"
  /\ arbSts' = DesiredStatefulSet(arbSts, snap, StatefulSetArbitersThisReconciliation(snap))
  /\ queued' = (queued \/ arbSts' # arbSts)
  /\ Continue("stsReady")
  /\ UNCHANGED <<ac, sts, pods, used>>

AwaitStatefulSet ==
  /\ pc = "stsReady"
  /\ IF IsReady(StatefulSetReplicasThisReconciliation(snap)) \/ sts.strategy = "OnDelete"
     THEN Continue(IF inOrder THEN "reset" ELSE "ac") /\ UNCHANGED queued
     ELSE EndWithPhase("Pending")
  /\ UNCHANGED <<clusterVars, used>>

ResetUpdateStrategy ==
  /\ pc = "reset"
  /\ sts' = IF IsChangingVersion(snap) /\ sts.strategy # "RollingUpdate"
            THEN [sts EXCEPT !.strategy = "RollingUpdate", !.observed = FALSE]
            ELSE sts
  /\ queued' = (queued \/ sts' # sts)
  /\ Continue("status")
  /\ UNCHANGED <<ac, arbSts, pods, used>>

-----------------------------------------------------------------------------
(***************************************************************************)
(* The end of a reconciliation that deployed everything it wanted.         *)
(***************************************************************************)
NextStatus(m) ==
  [mdbMembers  |-> AutomationConfigMembersThisReconciliation(m),
   mdbArbiters |-> AutomationConfigArbitersThisReconciliation(m),
   stsReplicas |-> StatefulSetReplicasThisReconciliation(m),
   stsArbiters |-> StatefulSetArbitersThisReconciliation(m),
   phase       |-> IF IsStillScalingResource(m) THEN "Pending" ELSE "Running"]

\* Mutant: the status is written without looking at the resourceVersion.
UpdateStatusUnchecked ==
  /\ pc = "status"
  /\ Store([mdb EXCEPT !.status = NextStatus(snap)])
  /\ IF IsStillScalingResource(snap)
     THEN EndReconcile(TRUE)
     ELSE /\ pc' = "annotate"
          /\ UNCHANGED <<snap, fresh, inOrder, queued>>
  /\ UNCHANGED <<clusterVars, used>>

UpdateStatus ==
  /\ pc = "status"
  /\ IF fresh
     THEN /\ Store([mdb EXCEPT !.status = NextStatus(snap)])
          /\ IF IsStillScalingResource(snap)
             THEN EndReconcile(TRUE)
             ELSE /\ pc' = "annotate"
                  /\ UNCHANGED <<snap, fresh, inOrder, queued>>
     ELSE EndReconcile(TRUE) /\ UNCHANGED <<mdb, oldMdb>>
  /\ UNCHANGED <<clusterVars, used>>

\* updateLastSuccessfulConfiguration patches the annotations without a
\* resourceVersion; a failure is only logged.
SaveLastApplied ==
  /\ pc = "annotate"
  /\ \/ Store([mdb EXCEPT !.lastApplied = snap.spec]) /\ UNCHANGED used
     \/ Fault /\ UNCHANGED <<mdb, oldMdb>>
  /\ EndReconcile(FALSE)
  /\ UNCHANGED clusterVars

\* Any other call may fail: Reconcile reports the phase Failed and requeues.
CallFails ==
  /\ pc \in {"prepare", "ac", "agents", "sts", "arbSts", "stsReady", "reset"}
  /\ Fault
  /\ EndWithPhase("Failed")
  /\ UNCHANGED clusterVars

ReconcileStep ==
  \/ StartReconcile \/ Prepare \/ ChooseOrder
  \/ EnsureAutomationConfig \/ AwaitAgents
  \/ CreateOrUpdateStatefulSet \/ CreateOrUpdateArbiters \/ AwaitStatefulSet
  \/ ResetUpdateStrategy \/ UpdateStatus \/ SaveLastApplied

-----------------------------------------------------------------------------
(***************************************************************************)
(* Everyone else.                                                          *)
(***************************************************************************)
\* The last edit has been deployed and recorded, and nothing is going on.
Settled ==
  /\ pc = "idle" /\ ~queued
  /\ mdb.status.phase = "Running"
  /\ mdb.lastApplied = mdb.spec

OneFieldChanged(old, new) == Cardinality({f \in DOMAIN old : old[f] # new[f]}) = 1

\* OnlyOnSpecChange lets the update event of a changed spec through.
EditSpec ==
  /\ used.edits < MaxEdits
  /\ EditsInFlight \/ Settled
  /\ \E spec \in UserSpecs \ {mdb.spec} :
       /\ JointEdits \/ OneFieldChanged(mdb.spec, spec)
       /\ Store([mdb EXCEPT !.spec = spec])
  /\ queued' = TRUE
  /\ fresh' = FALSE
  /\ used' = [used EXCEPT !.edits = @ + 1]
  /\ UNCHANGED <<clusterVars, snap, pc, inOrder>>

\* The operator restarts: the running reconciliation is lost, and the new
\* process reconciles every resource it lists.
Crash ==
  /\ used.crashes < MaxCrashes
  /\ used' = [used EXCEPT !.crashes = @ + 1]
  /\ EndReconcile(TRUE)
  /\ UNCHANGED <<clusterVars, mdb, oldMdb>>

\* The controller owns the StatefulSets: a change of one of them, its
\* status included, enqueues the resource.
EnqueueOwner ==
  /\ queued' = \/ queued
               \/ sts' # sts \/ arbSts' # arbSts
               \/ \E i \in Ordinals : pods'[i].up # pods[i].up \/ PodReady(i)' # PodReady(i)
  /\ UNCHANGED <<mdb, oldMdb, snap, fresh, pc, inOrder, used>>

ClusterStep == StatefulSetEvent /\ EnqueueOwner

Next ==
  \/ ReconcileStep
  \/ TLSConfigNotValid
  \/ CallFails
  \/ EditSpec
  \/ Crash
  \/ ClusterStep

Spec == Init /\ [][Next]_vars

(***************************************************************************)
(* Fairness.  Controller-runtime keeps running a worker while the queue    *)
(* is not empty; the StatefulSet controller, the agents, the probe and the *)
(* hook keep working.  An agent is only sure to reach the goal state when  *)
(* every process of the config has a pod.  Edits, crashes, faults and      *)
(* probes that turn to not ready need not happen.                          *)
(***************************************************************************)
AllMembersUp == \A i \in Ordinals : i < ac.content.members => pods[i].up

Fairness ==
  /\ WF_vars(ReconcileStep)
  /\ WF_vars((ObserveStatefulSet \/ ObserveArbiters) /\ EnqueueOwner)
  /\ \A i \in Ordinals :
       /\ WF_vars((CreatePod(i) \/ RemovePod(i) \/ RollPod(i)) /\ EnqueueOwner)
       /\ WF_vars(AllMembersUp /\ ReachGoalState(i) /\ EnqueueOwner)
       /\ WF_vars(ProbeWaitStep(i) /\ EnqueueOwner)
       /\ WF_vars(VersionHookDeletesPod(i) /\ EnqueueOwner)

FairSpec == Spec /\ Fairness

-----------------------------------------------------------------------------
(***************************************************************************)
(* Properties of every instance: edits in flight, crashes, faults.         *)
(***************************************************************************)
\* Every variable holds a value of its kind; in particular the counters that
\* the scalers compute never leave 0 .. MaxMembers.
TypeOK ==
  /\ ClusterTypeOK
  /\ mdb \in Resources /\ oldMdb \in Resources /\ snap \in Resources
  /\ fresh \in BOOLEAN /\ queued \in BOOLEAN /\ inOrder \in BOOLEAN
  /\ pc \in PCs
  /\ used \in [edits : 0 .. MaxEdits, crashes : 0 .. MaxCrashes,
               faults : 0 .. MaxFaults, stale : 0 .. MaxStaleReads]

\* The four counters a successful reconciliation is about to report are what
\* it deployed.  The report recomputes them from the status it read, and the
\* config computed its arbiters by another rule (buildAutomationConfig).
StatusTellsTheTruth ==
  pc = "status" =>
    LET s == NextStatus(snap)
    IN  /\ s.mdbMembers = ac.content.members /\ s.mdbArbiters = ac.content.arbiters
        /\ s.stsReplicas = sts.replicas /\ s.stsArbiters = arbSts.replicas

\* When Reconcile has reported Running, the config and the StatefulSets are
\* those of the spec it read, and Kubernetes is back in charge of updates.
\* (The arbiters of the config are excepted: see RunningMeansArbitersDeployed.)
RunningMeansDeployed ==
  pc = "annotate" =>
    /\ ac.content.members = snap.spec.members
    /\ ac.content.version = snap.spec.version /\ ac.content.tls = snap.spec.tls
    /\ sts.replicas = snap.spec.members /\ arbSts.replicas = snap.spec.arbiters
    /\ sts.template = [version |-> snap.spec.version, tls |-> snap.spec.tls]
    /\ sts.strategy = "RollingUpdate"

\* Running is only ever reported for the spec and from the status the API
\* server has: an edit during a reconciliation, or a stale read, makes the
\* update of the status fail instead.
RunningReportsCurrentSpec ==
  [][pc = "status" /\ pc' = "annotate" =>
       snap.spec = mdb.spec /\ snap.status = mdb.status]_vars

\* An agent the operator counts as being in goal state runs this config: its
\* annotation was written for an earlier reading of the secret, and nothing but
\* the version number says whether that was this config or another one.  Build
\* decides the version before the override is merged in; even so, whenever the
\* mongod version, TLS or the members change together with an override, or
\* while one is set, no annotation of before passes for the new config.
GoalStateIsOfThisConfig ==
  \A i \in Ordinals : pods[i].up /\ InGoalState(i) => CanReachGoal(i)

-----------------------------------------------------------------------------
(***************************************************************************)
(* What the reconciliation loop promises about the number of members.      *)
(***************************************************************************)
Scaling == INSTANCE OneStepScaling WITH
             reported   <- mdb.status.stsReplicas,
             replicas   <- sts.replicas,
             configured <- ac.content.members

\* Without stale reads, Reconcile implements OneStepScaling: whatever the user
\* edits and wherever the operator stops or fails, it moves the StatefulSet
\* and the config one step from the reported number of members, and reports
\* a new number only when both have it.
MembersScaleOneByOne == Scaling!Spec

\* Until a stale copy is read, the StatefulSet and the config stay within one
\* member of the reported count, once there is one: the status is the memory
\* that makes scaling go one by one.
WithinOneStep == used.stale = 0 => Scaling!NeverApart

-----------------------------------------------------------------------------
(***************************************************************************)
(* The invariant behind the properties above: what a reconciliation has    *)
(* done so far stays as it left it until it ends, whatever the user and    *)
(* the cluster do meanwhile.                                               *)
(***************************************************************************)
\* The two status fields that count members never disagree, in any copy of
\* the resource: the scalers of the StatefulSet and of the config are one.
CountersAgree ==
  \A m \in {mdb, oldMdb, snap} : m.status.mdbMembers = m.status.stsReplicas

\* A copy that may still be used for an update is the resource itself, and
\* without stale reads its status is the reported one even if it is not.
SnapshotCurrent ==
  /\ fresh /\ pc # "annotate" => snap = mdb
  /\ used.stale = 0 /\ pc \notin {"idle", "annotate"} => snap.status = mdb.status
  /\ used.stale = 0 /\ pc = "annotate" => mdb.status = NextStatus(snap)

StatefulSetWritten == \/ pc \in {"arbSts", "stsReady", "reset", "status", "annotate"}
                      \/ pc \in {"ac", "agents"} /\ ~inOrder

ArbitersWritten == \/ pc \in {"stsReady", "reset", "status", "annotate"}
                   \/ pc \in {"ac", "agents"} /\ ~inOrder

ConfigWritten == \/ pc \in {"agents", "reset", "status", "annotate"}
                 \/ pc \in {"sts", "arbSts", "stsReady"} /\ inOrder

DeployedSoFar ==
  /\ StatefulSetWritten =>
       /\ sts.replicas = StatefulSetReplicasThisReconciliation(snap)
       /\ sts.template = [version |-> snap.spec.version, tls |-> snap.spec.tls]
       /\ sts.strategy = IF pc \in {"status", "annotate"} THEN "RollingUpdate"
                                                         ELSE GetUpdateStrategyType(snap)
  /\ ArbitersWritten => arbSts.replicas = StatefulSetArbitersThisReconciliation(snap)
  /\ ConfigWritten => ac.content = [BuiltContent(snap) EXCEPT !.override = snap.spec.override]
  /\ pc = "annotate" => ~IsStillScalingResource(snap)

\* At every step of a reconciliation, what it has written so far is what the
\* copy of the resource it works on asks for: nobody, neither a second
\* computation of the same numbers nor another actor, undoes an earlier step.
ReconcileInvariant == CountersAgree /\ SnapshotCurrent /\ DeployedSoFar

-----------------------------------------------------------------------------
(***************************************************************************)
(* Properties of changes made one at a time to a deployed replica set.     *)
(***************************************************************************)
\* Scaling down, a member leaves the replica set config, and the agents of
\* the remaining pods confirm it, before its pod is taken away.
ConfigDropsMemberBeforePod ==
  [][sts'.replicas < sts.replicas =>
       /\ ac.content.members <= sts'.replicas
       /\ \A i \in Ordinals : i < sts'.replicas => InGoalState(i)]_vars

\* Scaling up, the pod of a new member is ready before the config names it.
PodBeforeConfigAddsMember ==
  [][sts.exists /\ ac'.content.members > ac.content.members =>
       \A i \in Ordinals : i < ac'.content.members => PodReady(i)]_vars

\* The same order for arbiters: the StatefulSet of the arbiters has a replica
\* for every arbiter that the config has or is given.
ArbiterReplicaForEveryArbiter ==
  arbSts.exists => ac.content.arbiters <= arbSts.replicas

\* IsStillScaling considers arbiters as well as members: when Running is
\* reported, the config has the arbiters of the spec.
RunningMeansArbitersDeployed ==
  pc = "annotate" => ac.content.arbiters = snap.spec.arbiters

\* Kubernetes never rolls the pods of a deployed replica set over to another
\* mongod version: while an upgrade is under way the strategy is OnDelete.
NoNativeRollingUpgrade ==
  mdb.lastApplied # NoSpec /\ sts.observed /\ sts.strategy = "RollingUpdate" =>
    \A i \in Ordinals : i < sts.replicas /\ pods[i].up =>
                          pods[i].template.version = sts.template.version

\* The StatefulSet has the new image before the agents are told to run it:
\* with the old image they could never reach the goal state.
ImageBeforeConfig ==
  [][sts.exists /\ ac'.content.version # ac.content.version =>
       sts.template.version = ac'.content.version]_vars

\* Enabling TLS, the StatefulSet mounts the certificates before the config
\* makes mongod use them.
CertsBeforeTLSConfig ==
  [][sts.exists /\ ac'.content.tls /\ ~ac.content.tls => sts.template.tls]_vars

-----------------------------------------------------------------------------
(***************************************************************************)
(* Liveness.                                                               *)
(***************************************************************************)
\* The resource is reported and recorded as deployed, and it is: the config,
\* the StatefulSets and every pod are those of the spec, the agents in goal.
Deployed ==
  /\ mdb.status.phase = "Running" /\ mdb.lastApplied = mdb.spec
  /\ ac.content = mdb.spec
  /\ sts.replicas = mdb.spec.members /\ arbSts.replicas = mdb.spec.arbiters
  /\ \A i \in Ordinals :
       IF i < mdb.spec.members
       THEN /\ pods[i].template = [version |-> mdb.spec.version, tls |-> mdb.spec.tls]
            /\ pods[i].up /\ InGoalState(i)
       ELSE ~pods[i].up

\* Once the user stops editing, a valid spec is deployed for good: nobody
\* waits for a pod, an agent or a config that will not come.
Converges == <>[](ValidateSpec(mdb) => Deployed)
=============================================================================
