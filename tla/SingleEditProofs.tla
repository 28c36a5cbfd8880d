-------------------------- MODULE SingleEditProofs --------------------------
(***************************************************************************)
(* Theorems about ReplicaSetController for a user who waits until an edit  *)
(* is deployed before making the next one, and who changes one field at a  *)
(* time: what is promised of the arbiters, and in which order config and   *)
(* StatefulSets are written.  RolloutProofs goes on to the pods.           *)
(***************************************************************************)
EXTENDS ReplicaSetControllerProofs, FiniteSetTheorems

-----------------------------------------------------------------------------
(***************************************************************************)
(* Who changes what.                                                       *)
(***************************************************************************)
\* The resource changes only when a phase is reported at the end of a
\* reconciliation, by UpdateStatus, by SaveLastApplied or by the user.
LEMMA ResourceStep ==
  ASSUME [Next]_vars
  PROVE  \/ mdb' = mdb
         \/ \E phase \in {"Failed", "Pending"} :
              mdb' = [mdb EXCEPT !.status.phase = phase] /\ pc' = "idle" /\ UNCHANGED ac
         \/ UpdateStatus /\ fresh /\ mdb' = [mdb EXCEPT !.status = NextStatus(snap)]
         \/ SaveLastApplied /\ mdb' = [mdb EXCEPT !.lastApplied = snap.spec]
         \/ EditSpec
BY DEF Next, ReconcileStep, StartReconcile, Prepare, ChooseOrder,
       EnsureAutomationConfig, AwaitAgents, CreateOrUpdateStatefulSet,
       CreateOrUpdateArbiters, AwaitStatefulSet, ResetUpdateStrategy, UpdateStatus,
       SaveLastApplied, TLSConfigNotValid, CallFails, Crash, ClusterStep, EnqueueOwner,
       vars, controllerVars, clusterVars, Continue, EndWithPhase, EndReconcile, Store

\* A running reconciliation has just read the resource or keeps its copy.
LEMMA SnapshotStep ==
  ASSUME [Next]_vars, pc' # "idle"
  PROVE  \/ StartReconcile
         \/ pc # "idle" /\ snap' = snap
BY DEF Next, ReconcileStep, StartReconcile, Prepare, ChooseOrder,
       EnsureAutomationConfig, AwaitAgents, CreateOrUpdateStatefulSet,
       CreateOrUpdateArbiters, AwaitStatefulSet, ResetUpdateStrategy, UpdateStatus,
       SaveLastApplied, TLSConfigNotValid, CallFails, EditSpec, Crash, ClusterStep, EnqueueOwner,
       vars, controllerVars, Continue, EndWithPhase, EndReconcile

\* A reconciliation is about to record what it applied when it has just
\* reported Running.
LEMMA AnnotateStep ==
  ASSUME [Next]_vars, pc' = "annotate"
  PROVE  \/ UpdateStatus /\ fresh /\ ~IsStillScalingResource(snap) /\ snap' = snap
         \/ pc = "annotate" /\ snap' = snap /\ (mdb' = mdb \/ EditSpec)
BY DEF Next, ReconcileStep, StartReconcile, Prepare, ChooseOrder,
       EnsureAutomationConfig, AwaitAgents, CreateOrUpdateStatefulSet,
       CreateOrUpdateArbiters, AwaitStatefulSet, ResetUpdateStrategy, UpdateStatus,
       SaveLastApplied, TLSConfigNotValid, CallFails, EditSpec, Crash, ClusterStep, EnqueueOwner,
       vars, controllerVars, Continue, EndWithPhase, EndReconcile

\* The fields of a resource after each of those changes.
LEMMA ResourceFields ==
  ASSUME NEW m \in Resources
  PROVE  /\ \A spec : LET n == [m EXCEPT !.spec = spec]
                      IN  n.spec = spec /\ n.status = m.status /\ n.lastApplied = m.lastApplied
         /\ \A spec : LET n == [m EXCEPT !.lastApplied = spec]
                      IN  n.spec = m.spec /\ n.status = m.status /\ n.lastApplied = spec
         /\ \A st : LET n == [m EXCEPT !.status = st]
                    IN  n.spec = m.spec /\ n.status = st /\ n.lastApplied = m.lastApplied
         /\ \A phase : LET n == [m EXCEPT !.status.phase = phase]
                       IN  /\ n.spec = m.spec /\ n.lastApplied = m.lastApplied
                           /\ n.status.mdbMembers = m.status.mdbMembers
                           /\ n.status.mdbArbiters = m.status.mdbArbiters
                           /\ n.status.stsReplicas = m.status.stsReplicas
                           /\ n.status.stsArbiters = m.status.stsArbiters
                           /\ n.status.phase = phase
BY DEF Resources, Statuses

\* Only the user changes the spec.
LEMMA SpecStep ==
  ASSUME TypeOK, [Next]_vars
  PROVE  mdb'.spec = mdb.spec \/ EditSpec
<1>0. mdb \in Resources
  BY DEF TypeOK
<1>1. CASE \E phase : mdb' = [mdb EXCEPT !.status.phase = phase]
  BY <1>0, <1>1, ResourceFields
<1>2. CASE \E st : mdb' = [mdb EXCEPT !.status = st]
  BY <1>0, <1>2, ResourceFields
<1>3. CASE \E spec : mdb' = [mdb EXCEPT !.lastApplied = spec]
  BY <1>0, <1>3, ResourceFields
<1>4. QED
  BY <1>1, <1>2, <1>3, ResourceStep

\* One edit of a single field changes the members or the arbiters or the
\* version, not two of them.
LEMMA OneFieldOnly ==
  ASSUME NEW old \in Specs, NEW new \in Specs, OneFieldChanged(old, new),
         NEW f \in {"members", "arbiters", "version", "tls", "override"},
         NEW g \in {"members", "arbiters", "version", "tls", "override"},
         old[f] # new[f], old[g] # new[g]
  PROVE  f = g
<1> DEFINE all     == {"members", "arbiters", "version", "tls", "override"}
           changed == {h \in DOMAIN old : old[h] # new[h]}
<1>1. DOMAIN old = all
  BY DEF Specs
<1>2. IsFiniteSet(all)
  <2>1. IsFiniteSet({}) /\ all = (((({} \cup {"members"}) \cup {"arbiters"}) \cup {"version"})
                                     \cup {"tls"}) \cup {"override"}
    BY FS_EmptySet
  <2>2. IsFiniteSet({} \cup {"members"})
    BY <2>1, FS_AddElement
  <2>3. IsFiniteSet(({} \cup {"members"}) \cup {"arbiters"})
    BY <2>2, FS_AddElement
  <2>4. IsFiniteSet((({} \cup {"members"}) \cup {"arbiters"}) \cup {"version"})
    BY <2>3, FS_AddElement
  <2>5. IsFiniteSet(((({} \cup {"members"}) \cup {"arbiters"}) \cup {"version"}) \cup {"tls"})
    BY <2>4, FS_AddElement
  <2>6. IsFiniteSet((((({} \cup {"members"}) \cup {"arbiters"}) \cup {"version"})
                        \cup {"tls"}) \cup {"override"})
    BY <2>5, FS_AddElement
  <2>7. QED
    BY <2>1, <2>6, Zenon
<1>3. IsFiniteSet(changed)
  BY <1>1, <1>2, FS_Subset
<1>4. Cardinality(changed) = 1
  BY DEF OneFieldChanged
<1>5. PICK x : changed = {x}
  BY <1>3, <1>4, FS_Singleton
<1>6. f \in changed /\ g \in changed
  BY <1>1
<1>7. QED
  BY <1>5, <1>6

-----------------------------------------------------------------------------
(***************************************************************************)
(* The counters of the status under single edits.                          *)
(***************************************************************************)
\* The status of m has reached the spec of m.
Reached(m) ==
  /\ m.status.stsReplicas = m.spec.members
  /\ m.status.stsArbiters = m.spec.arbiters

\* Members and arbiters are not scaled at the same time, a first deployment
\* excepted, which creates the members at once; nothing is scaled while the
\* version changes; what was last applied has been reached.
OneThingChanges(m) ==
  /\ m.status.mdbArbiters = m.status.stsArbiters
  /\ m.status.stsReplicas \in {0, m.spec.members} \/ m.status.stsArbiters = m.spec.arbiters
  /\ m.lastApplied = m.spec => Reached(m)
  /\ IsChangingVersion(m) => Reached(m)

\* What a reconciliation has reported as Running is still the status of the
\* resource, for the same spec, when it records what it applied.
ReportStands ==
  pc = "annotate" => mdb.spec = snap.spec /\ mdb.status = NextStatus(snap)

\* The report of a reconciliation moves the counters of such a resource
\* towards its spec and keeps the two counters of arbiters equal.
LEMMA ReportedCounters ==
  ASSUME NEW m \in Resources, m.status.mdbMembers = m.status.stsReplicas, OneThingChanges(m)
  PROVE  LET s == NextStatus(m)
         IN  /\ s.mdbArbiters = s.stsArbiters
             /\ s.stsReplicas \in {0, m.spec.members} \/ s.stsArbiters = m.spec.arbiters
             /\ Reached(m) => s.stsReplicas = m.spec.members /\ s.stsArbiters = m.spec.arbiters
             /\ ~IsStillScalingResource(m) =>
                  s.stsReplicas = m.spec.members /\ s.stsArbiters = m.spec.arbiters
<1>1. /\ m.status.stsReplicas \in Nat /\ m.status.stsArbiters \in Nat
      /\ m.spec.members \in Nat /\ m.spec.arbiters \in Nat
  BY DEF Resources, Statuses, Specs, Counts
<1>2. QED
  BY <1>1
     DEF OneThingChanges, Reached, NextStatus, IsStillScalingResource, IsStillScaling,
         MembersScaler, ArbitersScaler, Scaler, ReplicasThisReconciliation, IsScalingDown,
         StatefulSetReplicasThisReconciliation, StatefulSetArbitersThisReconciliation,
         AutomationConfigArbitersThisReconciliation

\* Without edits in flight the report stands until it is recorded.
LEMMA ReportStandsStep ==
  ASSUME ~EditsInFlight, TypeOK, ReconcileInvariant, ReportStands, [Next]_vars
  PROVE  ReportStands'
<1> SUFFICES ASSUME pc' = "annotate"
             PROVE  mdb'.spec = snap'.spec /\ mdb'.status = NextStatus(snap')
  BY DEF ReportStands, NextStatus
<1>1. CASE UpdateStatus /\ fresh /\ snap' = snap
  <2>1. snap = mdb
    BY <1>1 DEF UpdateStatus, ReconcileInvariant, SnapshotCurrent
  <2>2. mdb' = [mdb EXCEPT !.status = NextStatus(snap)]
    BY <1>1 DEF UpdateStatus, Store
  <2>3. QED
    BY <1>1, <2>1, <2>2, ResourceFields DEF TypeOK
<1>2. CASE pc = "annotate" /\ snap' = snap /\ mdb' = mdb
  BY <1>2 DEF ReportStands
<1>3. QED
  BY <1>1, <1>2, AnnotateStep DEF EditSpec, Settled

\* Single edits of a deployed resource, and reports, change one thing at a time.
LEMMA OneThingStep ==
  ASSUME ~EditsInFlight, ~JointEdits,
         TypeOK, ReconcileInvariant, ReportStands, OneThingChanges(mdb), [Next]_vars
  PROVE  OneThingChanges(mdb')
<1>0. mdb \in Resources /\ snap \in Resources /\ mdb.status.mdbMembers = mdb.status.stsReplicas
  BY DEF TypeOK, ReconcileInvariant, CountersAgree
<1>1. CASE mdb' = mdb
  BY <1>1
<1>2. CASE \E phase \in {"Failed", "Pending"} : mdb' = [mdb EXCEPT !.status.phase = phase]
  BY <1>0, <1>2, ResourceFields DEF OneThingChanges, Reached, IsChangingVersion
<1>3. CASE UpdateStatus /\ fresh /\ mdb' = [mdb EXCEPT !.status = NextStatus(snap)]
  <2>1. snap = mdb
    BY <1>3 DEF UpdateStatus, ReconcileInvariant, SnapshotCurrent
  <2>2. /\ mdb'.spec = mdb.spec /\ mdb'.lastApplied = mdb.lastApplied
        /\ mdb'.status = NextStatus(mdb)
    BY <1>0, <1>3, <2>1, ResourceFields
  <2>3. QED
    BY <1>0, <2>2, ReportedCounters DEF OneThingChanges, Reached, IsChangingVersion
<1>4. CASE SaveLastApplied /\ mdb' = [mdb EXCEPT !.lastApplied = snap.spec]
  <2>1. /\ mdb'.spec = mdb.spec /\ mdb'.status = mdb.status /\ mdb'.lastApplied = mdb.spec
    BY <1>0, <1>4, ResourceFields DEF ReportStands, SaveLastApplied
  <2>2. mdb.spec = snap.spec /\ mdb.status = NextStatus(snap) /\ ~IsStillScalingResource(snap)
    BY <1>4 DEF SaveLastApplied, ReportStands, ReconcileInvariant, DeployedSoFar
  <2>3. Reached(mdb)
    BY <2>2 DEF Reached, NextStatus, IsStillScalingResource, IsStillScaling, MembersScaler,
                ArbitersScaler, Scaler, StatefulSetReplicasThisReconciliation,
                StatefulSetArbitersThisReconciliation
  <2>4. QED
    BY <2>1, <2>3 DEF OneThingChanges, Reached, IsChangingVersion
<1>5. CASE EditSpec
  <2>1. PICK spec \in UserSpecs \ {mdb.spec} :
               OneFieldChanged(mdb.spec, spec) /\ mdb' = [mdb EXCEPT !.spec = spec]
    BY <1>5 DEF EditSpec, Store
  <2>2. mdb.lastApplied = mdb.spec /\ Reached(mdb)
    BY <1>5 DEF EditSpec, Settled, OneThingChanges
  <2>3. /\ mdb'.spec = spec /\ mdb'.status = mdb.status /\ mdb'.lastApplied = mdb.lastApplied
    BY <1>0, <2>1, ResourceFields
  <2>4. mdb.spec \in Specs /\ spec \in Specs
    BY <1>0, <2>1, UserSpecsAssumption DEF Resources
  <2>5. \A f, g \in {"members", "arbiters", "version", "tls", "override"} :
          mdb.spec[f] # spec[f] /\ mdb.spec[g] # spec[g] => f = g
    BY <2>1, <2>4, OneFieldOnly
  <2>6. /\ mdb.spec.members = spec.members \/ mdb.spec.arbiters = spec.arbiters
        /\ mdb.spec.version # spec.version =>
             mdb.spec.members = spec.members /\ mdb.spec.arbiters = spec.arbiters
    BY <2>4, <2>5 DEF Specs
  <2>7. QED
    BY <2>1, <2>2, <2>3, <2>6 DEF OneThingChanges, Reached, IsChangingVersion
<1>6. QED
  BY <1>1, <1>2, <1>3, <1>4, <1>5, ResourceStep

\* Both hold throughout, whatever fails and however stale the cache is.
SingleEditInvariant == ReportStands /\ OneThingChanges(mdb)

\* Both hold of every behaviour of a user who makes single edits.
LEMMA SingleEditInvariantHolds ==
  ASSUME ~EditsInFlight, ~JointEdits
  PROVE  Spec => []SingleEditInvariant
<1>1. Init => SingleEditInvariant
  <2> SUFFICES ASSUME Init PROVE SingleEditInvariant
    OBVIOUS
  <2>1. PICK spec \in UserSpecs : mdb = NewResource(spec)
    BY DEF Init
  <2>2. mdb.spec = spec /\ mdb.status = NewStatus /\ mdb.lastApplied = NoSpec
    BY <2>1 DEF NewResource
  <2>3. /\ NewStatus.stsReplicas = 0 /\ NewStatus.stsArbiters = 0 /\ NewStatus.mdbArbiters = 0
        /\ NoSpec.members = 0 /\ NoSpec.arbiters = 0 /\ NoSpec.version = NoVersion
    BY DEF NewStatus, NoSpec
  <2>4. OneThingChanges(mdb)
    BY <2>2, <2>3 DEF OneThingChanges, Reached, IsChangingVersion
  <2>5. QED
    BY <2>4 DEF SingleEditInvariant, ReportStands, Init
<1>2. TypeOK /\ ReconcileInvariant /\ SingleEditInvariant /\ [Next]_vars
        => SingleEditInvariant'
  <2> SUFFICES ASSUME TypeOK, ReconcileInvariant, SingleEditInvariant, [Next]_vars
               PROVE  SingleEditInvariant'
    OBVIOUS
  <2>1. ReportStands' /\ OneThingChanges(mdb')
    BY ReportStandsStep, OneThingStep DEF SingleEditInvariant
  <2>2. OneThingChanges(mdb)'
    BY <2>1 DEF OneThingChanges, Reached, IsChangingVersion
  <2>3. QED
    BY <2>1, <2>2 DEF SingleEditInvariant
<1>3. QED
  BY <1>1, <1>2, TypeCorrect, ReconcileInvariantHolds, PTL DEF Spec

\* When Running is reported for a resource whose user makes single edits and
\* waits for them, the config has the arbiters of the spec: isStillScaling
\* looks at the counter of the StatefulSet, and the counter of the config is
\* the same.
THEOREM RunningArbitersTheorem ==
  ASSUME ~EditsInFlight, ~JointEdits
  PROVE  Spec => []RunningMeansArbitersDeployed
<1>1. TypeOK /\ ReconcileInvariant /\ SingleEditInvariant => RunningMeansArbitersDeployed
  <2> SUFFICES ASSUME TypeOK, ReconcileInvariant, SingleEditInvariant, pc = "annotate"
               PROVE  ac.content.arbiters = snap.spec.arbiters
    BY DEF RunningMeansArbitersDeployed
  <2>1. ac.content = [BuiltContent(snap) EXCEPT !.override = snap.spec.override]
    BY DEF ReconcileInvariant, DeployedSoFar, ConfigWritten
  <2>2. ac.content.arbiters = BuiltContent(snap).arbiters
    BY <2>1 DEF BuiltContent
  <2>3. BuiltContent(snap).arbiters = NextStatus(snap).mdbArbiters
    BY ReportedCountsAreBuilt DEF TypeOK, ReconcileInvariant, CountersAgree
  <2>4. NextStatus(snap).mdbArbiters = NextStatus(snap).stsArbiters
    BY DEF SingleEditInvariant, ReportStands, OneThingChanges
  <2>5. NextStatus(snap).stsArbiters = snap.spec.arbiters
    BY DEF ReconcileInvariant, DeployedSoFar, NextStatus, IsStillScalingResource,
           IsStillScaling, ArbitersScaler, Scaler, StatefulSetArbitersThisReconciliation
  <2>6. QED
    BY <2>2, <2>3, <2>4, <2>5
<1>2. QED
  BY <1>1, TypeCorrect, ReconcileInvariantHolds, SingleEditInvariantHolds, PTL

-----------------------------------------------------------------------------
(***************************************************************************)
(* A user who waits for an edit to be deployed, and a cache that is not    *)
(* stale: the reconciliation works on the resource itself.  Without TLS    *)
(* the order that it chooses depends on the resource alone.                *)
(***************************************************************************)
\* The user waits, reads of the resource are current.
Patient == ~EditsInFlight /\ MaxStaleReads = 0

\* And TLS is not used.
Careful == Patient /\ \A spec \in UserSpecs : spec.tls = FALSE

\* The copy of the reconciliation is the resource.
CopyIsResource == pc \notin {"idle", "annotate"} => snap = mdb

\* It is valid once the reconciliation has validated it.
Validated == pc \notin {"idle", "prepare"} => ValidateSpec(snap)

\* TLS is off in every copy.
NoTLS == mdb.spec.tls = FALSE /\ snap.spec.tls = FALSE

\* The order of the reconciliation is the one that the copy calls for.
Ordered ==
  pc \notin {"idle", "prepare", "order"} => inOrder = ShouldRunInOrder(snap, FALSE, FALSE)

\* Before the first report there are no arbiters in the status and nothing has
\* been recorded; afterwards the status counts at least one member.
Reported(m) ==
  /\ m.status.stsReplicas = 0 => m.status.stsArbiters = 0 /\ m.lastApplied = NoSpec
  /\ m.status.phase = "Running" => m.status.stsReplicas # 0

\* The parts that need no assumption on the order.
CarefulInvariant == CopyIsResource /\ Validated /\ NoTLS /\ Ordered /\ Reported(mdb)

\* A reconciliation that got past the validation found the copy valid.
LEMMA ValidatedStep ==
  ASSUME Validated, [Next]_vars
  PROVE  Validated'
<1>1. pc' \notin {"idle", "prepare"} =>
        /\ snap' = snap
        /\ (Prepare /\ ValidateSpec(snap)) \/ pc \notin {"idle", "prepare"}
  BY DEF Next, ReconcileStep, StartReconcile, Prepare, ChooseOrder,
         EnsureAutomationConfig, AwaitAgents, CreateOrUpdateStatefulSet,
         CreateOrUpdateArbiters, AwaitStatefulSet, ResetUpdateStrategy, UpdateStatus,
         SaveLastApplied, TLSConfigNotValid, CallFails, EditSpec, Crash, ClusterStep,
         EnqueueOwner, vars, controllerVars, Continue, EndWithPhase, EndReconcile
<1>2. QED
  BY <1>1 DEF Validated, ValidateSpec

\* The copy is the resource: only the end of a reconciliation, and a user who
\* waits for it, change the resource.
LEMMA CopyStep ==
  ASSUME Patient, TypeOK, CopyIsResource, [Next]_vars
  PROVE  CopyIsResource'
<1> SUFFICES ASSUME pc' \notin {"idle", "annotate"}
             PROVE  snap' = mdb'
  BY DEF CopyIsResource
<1>1. CASE StartReconcile
  BY <1>1 DEF StartReconcile, Patient, TypeOK
<1>2. CASE pc # "idle" /\ snap' = snap
  <2>1. mdb' = mdb
    BY <1>2, ResourceStep
       DEF UpdateStatus, SaveLastApplied, EditSpec, Settled, Patient, EndReconcile
  <2>2. pc # "annotate"
    BY DEF Next, ReconcileStep, StartReconcile, Prepare, ChooseOrder,
           EnsureAutomationConfig, AwaitAgents, CreateOrUpdateStatefulSet,
           CreateOrUpdateArbiters, AwaitStatefulSet, ResetUpdateStrategy, UpdateStatus,
           SaveLastApplied, TLSConfigNotValid, CallFails, EditSpec, Crash, ClusterStep,
           EnqueueOwner, vars, controllerVars, Continue, EndWithPhase, EndReconcile
  <2>3. QED
    BY <1>2, <2>1, <2>2 DEF CopyIsResource
<1>3. QED
  BY <1>1, <1>2, SnapshotStep

\* TLS stays off.
LEMMA NoTLSStep ==
  ASSUME Careful, TypeOK, NoTLS, [Next]_vars
  PROVE  NoTLS'
<1>1. mdb'.spec.tls = FALSE
  <2>1. CASE EditSpec
    <3>1. PICK spec \in UserSpecs : mdb' = [mdb EXCEPT !.spec = spec]
      BY <2>1 DEF EditSpec, Store
    <3>2. QED
      BY <3>1, ResourceFields DEF TypeOK, Careful
  <2>2. CASE mdb'.spec = mdb.spec
    BY <2>2 DEF NoTLS
  <2>3. QED
    BY <2>1, <2>2, SpecStep
<1>2. snap'.spec.tls = FALSE
  <2>1. Blank.spec.tls = FALSE
    BY DEF Blank, NewResource, NoSpec
  <2>2. ~(used.stale < MaxStaleReads)
    BY DEF Careful, Patient, TypeOK
  <2>3. snap' \in {snap, mdb, Blank}
    BY <2>2
       DEF Next, ReconcileStep, StartReconcile, Prepare, ChooseOrder,
           EnsureAutomationConfig, AwaitAgents, CreateOrUpdateStatefulSet,
           CreateOrUpdateArbiters, AwaitStatefulSet, ResetUpdateStrategy, UpdateStatus,
           SaveLastApplied, TLSConfigNotValid, CallFails, EditSpec, Crash, ClusterStep,
           EnqueueOwner, vars, controllerVars, Continue, EndWithPhase, EndReconcile
  <2>4. QED
    BY <2>1, <2>3 DEF NoTLS
<1>3. QED
  BY <1>1, <1>2 DEF NoTLS

\* Without TLS the order does not depend on what the Get of the StatefulSet
\* tells, not even when that call fails.
LEMMA OrderWithoutTLS ==
  ASSUME NEW m, m.spec.tls = FALSE, NEW ready, NEW found
  PROVE  ShouldRunInOrder(m, ready, found) = ShouldRunInOrder(m, FALSE, FALSE)
BY DEF ShouldRunInOrder

\* The chosen order is kept until the reconciliation ends.
LEMMA OrderedStep ==
  ASSUME NoTLS, Ordered, [Next]_vars
  PROVE  Ordered'
<1> SUFFICES ASSUME pc' \notin {"idle", "prepare", "order"}
             PROVE  inOrder' = ShouldRunInOrder(snap', FALSE, FALSE)
  BY DEF Ordered, ShouldRunInOrder, IsScalingUp, IsScalingDown, MembersScaler, HasZeroReplicas,
         IsChangingVersion, Scaler
<1>1. /\ snap' = snap
      /\ \/ ChooseOrder
         \/ pc \notin {"idle", "prepare", "order"} /\ inOrder' = inOrder
  BY DEF Next, ReconcileStep, StartReconcile, Prepare, ChooseOrder,
         EnsureAutomationConfig, AwaitAgents, CreateOrUpdateStatefulSet,
         CreateOrUpdateArbiters, AwaitStatefulSet, ResetUpdateStrategy, UpdateStatus,
         SaveLastApplied, TLSConfigNotValid, CallFails, EditSpec, Crash, ClusterStep,
         EnqueueOwner, vars, controllerVars, Continue, EndWithPhase, EndReconcile
<1>2. CASE ChooseOrder
  <2>1. \E ready, found : inOrder' = ShouldRunInOrder(snap, ready, found)
    BY <1>2 DEF ChooseOrder
  <2>2. QED
    BY <1>1, <2>1, OrderWithoutTLS DEF NoTLS
<1>3. QED
  BY <1>1, <1>2 DEF Ordered

\* A reconciliation reports at least one member.
LEMMA ReportsMembers ==
  ASSUME NEW m \in Resources, ValidateSpec(m)
  PROVE  NextStatus(m).stsReplicas # 0
<1>1. m.spec.members \in Nat /\ m.spec.arbiters \in Nat /\ m.status.stsReplicas \in Nat
  BY DEF Resources, Specs, Statuses, Counts
<1>2. QED
  BY <1>1 DEF NextStatus, ValidateSpec, ValidateArbiterSpec, StatefulSetReplicasThisReconciliation, MembersScaler,
              Scaler, ReplicasThisReconciliation, IsScalingDown

\* The first report puts members into the status, and they stay there.
LEMMA ReportedStep ==
  ASSUME ~EditsInFlight, TypeOK, Validated, ReportStands, Reported(mdb), [Next]_vars
  PROVE  Reported(mdb')
<1>0. mdb \in Resources /\ snap \in Resources
  BY DEF TypeOK
<1>1. CASE UpdateStatus /\ fresh /\ mdb' = [mdb EXCEPT !.status = NextStatus(snap)]
  <2>1. NextStatus(snap).stsReplicas # 0
    BY <1>0, <1>1, ReportsMembers DEF UpdateStatus, Validated
  <2>2. mdb'.status = NextStatus(snap)
    BY <1>0, <1>1, ResourceFields
  <2>3. QED
    BY <2>1, <2>2 DEF Reported
<1>2. CASE SaveLastApplied /\ mdb' = [mdb EXCEPT !.lastApplied = snap.spec]
  <2>1. mdb.status = NextStatus(snap) /\ ValidateSpec(snap)
    BY <1>2 DEF SaveLastApplied, ReportStands, Validated
  <2>2. QED
    BY <1>0, <1>2, <2>1, ReportsMembers, ResourceFields DEF Reported
<1>3. CASE \E phase \in {"Failed", "Pending"} : mdb' = [mdb EXCEPT !.status.phase = phase]
  <2>1. PICK phase \in {"Failed", "Pending"} : mdb' = [mdb EXCEPT !.status.phase = phase]
    BY <1>3
  <2>2. /\ mdb'.status.stsReplicas = mdb.status.stsReplicas
        /\ mdb'.status.stsArbiters = mdb.status.stsArbiters
        /\ mdb'.status.phase = phase /\ mdb'.lastApplied = mdb.lastApplied
    BY <1>0, <2>1 DEF Resources, Statuses
  <2>3. QED
    BY <2>1, <2>2 DEF Reported
<1>4. CASE EditSpec
  BY <1>0, <1>4, ResourceFields DEF EditSpec, Store, Reported
<1>5. QED
  BY <1>1, <1>2, <1>3, <1>4, ResourceStep

\* The report stands for every user who waits.
LEMMA ReportStandsHolds ==
  ASSUME ~EditsInFlight
  PROVE  Spec => []ReportStands
<1>1. Init => ReportStands
  BY DEF Init, ReportStands
<1>2. TypeOK /\ ReconcileInvariant /\ ReportStands /\ [Next]_vars => ReportStands'
  BY ReportStandsStep
<1>3. QED
  BY <1>1, <1>2, TypeCorrect, ReconcileInvariantHolds, PTL DEF Spec

\* A reconciliation works on the resource itself, in the order it calls for.
LEMMA CarefulInvariantHolds ==
  ASSUME Careful
  PROVE  Spec => []CarefulInvariant
<1>1. Init => CarefulInvariant
  <2> SUFFICES ASSUME Init PROVE CarefulInvariant
    OBVIOUS
  <2>1. PICK spec \in UserSpecs : mdb = NewResource(spec)
    BY DEF Init
  <2>2. mdb.spec = spec /\ mdb.status = NewStatus /\ mdb.lastApplied = NoSpec
    BY <2>1 DEF NewResource
  <2>3. NewStatus.stsArbiters = 0 /\ NewStatus.phase = ""
    BY DEF NewStatus
  <2>4. Reported(mdb)
    BY <2>2, <2>3 DEF Reported
  <2>5. NoTLS
    BY <2>2 DEF NoTLS, Init, Careful, Blank, NewResource, NoSpec
  <2>6. QED
    BY <2>4, <2>5 DEF CarefulInvariant, CopyIsResource, Validated, Ordered, Init
<1>2. TypeOK /\ ReportStands /\ CarefulInvariant /\ [Next]_vars => CarefulInvariant'
  <2> SUFFICES ASSUME TypeOK, ReportStands, CarefulInvariant, [Next]_vars
               PROVE  CarefulInvariant'
    OBVIOUS
  <2>1. CopyIsResource' /\ Validated' /\ NoTLS' /\ Ordered' /\ Reported(mdb')
    BY CopyStep, ValidatedStep, NoTLSStep, OrderedStep, ReportedStep
       DEF CarefulInvariant, Careful, Patient
  <2>2. Reported(mdb)'
    BY <2>1 DEF Reported
  <2>3. QED
    BY <2>1, <2>2 DEF CarefulInvariant
<1>3. Spec => []ReportStands
  BY ReportStandsHolds DEF Careful, Patient
<1>4. QED
  BY <1>1, <1>2, <1>3, TypeCorrect, PTL DEF Spec

-----------------------------------------------------------------------------
(***************************************************************************)
(* Arbiters: the order of config and StatefulSet.                          *)
(***************************************************************************)
\* Only EnsureAutomationConfig changes the config.
LEMMA ConfigStep ==
  ASSUME TypeOK, [Next]_vars
  PROVE  ac' = ac \/ EnsureAutomationConfig
<1>1. CASE ClusterStep
  BY <1>1, StatefulSetEventStep DEF ClusterStep, TypeOK
<1>2. QED
  BY <1>1
     DEF Next, ReconcileStep, StartReconcile, Prepare, ChooseOrder, AwaitAgents,
         CreateOrUpdateStatefulSet, CreateOrUpdateArbiters, AwaitStatefulSet,
         ResetUpdateStrategy, UpdateStatus, SaveLastApplied, TLSConfigNotValid, CallFails,
         EditSpec, Crash, vars, clusterVars

\* Only CreateOrUpdateArbiters creates or resizes the StatefulSet of arbiters.
LEMMA ArbitersStep ==
  ASSUME TypeOK, [Next]_vars
  PROVE  \/ arbSts'.replicas = arbSts.replicas /\ arbSts'.exists = arbSts.exists
         \/ CreateOrUpdateArbiters
<1>1. CASE ClusterStep
  <2>1. arbSts' = [arbSts EXCEPT !.observed = arbSts'.observed]
    BY <1>1, StatefulSetEventStep DEF ClusterStep, TypeOK
  <2>2. arbSts \in StatefulSetType
    BY DEF TypeOK, ClusterTypeOK, StatefulSetType
  <2>3. QED
    BY <2>1, <2>2 DEF StatefulSetType
<1>2. QED
  BY <1>1
     DEF Next, ReconcileStep, StartReconcile, Prepare, ChooseOrder, AwaitAgents,
         EnsureAutomationConfig, CreateOrUpdateStatefulSet, AwaitStatefulSet,
         ResetUpdateStrategy, UpdateStatus, SaveLastApplied, TLSConfigNotValid, CallFails,
         EditSpec, Crash, vars, clusterVars

\* Config and StatefulSet have the reported number of arbiters or the next
\* one.  The StatefulSet goes first upwards and the config goes first
\* downwards; in a first deployment the StatefulSet is created at the new size.
ArbitersInOrder(m, configured, replicas, exists) ==
  LET reported == m.status.stsArbiters
      next     == StatefulSetArbitersThisReconciliation(m)
  IN  /\ {configured, replicas} \subseteq {reported, next}
      /\ next > reported /\ m.status.stsReplicas # 0 /\ configured = next => replicas = next
      /\ next < reported /\ replicas = next => configured = next
      /\ m.status.stsReplicas = 0 /\ exists => replicas = next

\* The same of the state.
ArbiterOrder ==
  ArbitersInOrder(mdb, ac.content.arbiters, arbSts.replicas, arbSts.exists)

\* Which way the next number of arbiters lies, and where the order comes from.
LEMMA NextArbiters ==
  ASSUME NEW m \in Resources, m.spec.tls = FALSE, OneThingChanges(m)
  PROVE  LET reported == m.status.stsArbiters
             next     == StatefulSetArbitersThisReconciliation(m)
         IN  /\ reported \in Nat /\ next \in Nat
             /\ reported = m.spec.arbiters => next = reported
             /\ next > reported => reported < m.spec.arbiters
             /\ next < reported => reported > m.spec.arbiters
             /\ next > reported /\ m.status.stsReplicas # 0
                  => ~ShouldRunInOrder(m, FALSE, FALSE)
             /\ next < reported => ShouldRunInOrder(m, FALSE, FALSE)
<1>1. /\ m.status.stsReplicas \in Nat /\ m.status.stsArbiters \in Nat
      /\ m.spec.members \in Nat /\ m.spec.arbiters \in Nat
  BY DEF Resources, Statuses, Specs, Counts
<1> DEFINE reported == m.status.stsArbiters
           next     == StatefulSetArbitersThisReconciliation(m)
<1>2. /\ next \in Nat
      /\ reported = m.spec.arbiters => next = reported
      /\ next > reported => reported < m.spec.arbiters
      /\ next < reported => reported > m.spec.arbiters
  BY <1>1 DEF StatefulSetArbitersThisReconciliation, ArbitersScaler, Scaler,
              ReplicasThisReconciliation, IsScalingDown
<1>3. reported < m.spec.arbiters /\ m.status.stsReplicas # 0
        => ~ShouldRunInOrder(m, FALSE, FALSE)
  BY DEF ShouldRunInOrder, HasZeroReplicas, MembersScaler, Scaler
<1>4. reported > m.spec.arbiters => ShouldRunInOrder(m, FALSE, FALSE)
  BY <1>1 DEF ShouldRunInOrder, HasZeroReplicas, MembersScaler, Scaler, IsScalingUp,
              OneThingChanges, Reached
<1>5. QED
  BY <1>1, <1>2, <1>3, <1>4

\* What every step of Reconcile writes for the arbiters keeps that order.
LEMMA ArbiterOrderStep ==
  ASSUME Patient, TypeOK, TypeOK', ReconcileInvariant, SingleEditInvariant, CarefulInvariant,
         ArbiterOrder, [Next]_vars
  PROVE  ArbiterOrder'
<1> DEFINE next == StatefulSetArbitersThisReconciliation(mdb)
<1>0. /\ mdb \in Resources /\ snap \in Resources /\ mdb.spec.tls = FALSE
      /\ ac \in ConfigType /\ arbSts \in StatefulSetType
      /\ mdb.status.mdbMembers = mdb.status.stsReplicas
      /\ OneThingChanges(mdb) /\ Reported(mdb)
  BY DEF TypeOK, ClusterTypeOK, ConfigType, StatefulSetType, ReconcileInvariant, CountersAgree,
         SingleEditInvariant, CarefulInvariant, NoTLS
<1>1. SUFFICES ArbitersInOrder(mdb', ac'.content.arbiters, arbSts'.replicas, arbSts'.exists)
  BY DEF ArbiterOrder, ArbitersInOrder, StatefulSetArbitersThisReconciliation, ArbitersScaler,
         Scaler, ReplicasThisReconciliation, IsScalingDown
<1>2. NextStatus(mdb).mdbArbiters = next /\ NextStatus(mdb).stsArbiters = next
  BY <1>0, ReportedCounters DEF NextStatus
<1>3. BuiltContent(mdb).arbiters = next
  BY <1>0, <1>2, ReportedCountsAreBuilt
<1>4. CASE EnsureAutomationConfig
  <2>1. pc = "ac" /\ snap = mdb /\ mdb' = mdb /\ arbSts' = arbSts
    BY <1>4 DEF EnsureAutomationConfig, Continue, CarefulInvariant, CopyIsResource
  <2>2. ac'.content.arbiters = next
    <3>1. ac'.content = [BuiltContent(snap) EXCEPT !.override = snap.spec.override]
      BY <1>0, <1>4, EnsuredContent DEF EnsureAutomationConfig
    <3>2. ac'.content.arbiters = BuiltContent(snap).arbiters
      BY <3>1 DEF BuiltContent
    <3>3. QED
      BY <1>3, <2>1, <3>2
  <2>3. ~inOrder => arbSts.replicas = next
    BY <2>1 DEF ReconcileInvariant, DeployedSoFar, ArbitersWritten
  <2>4. inOrder = ShouldRunInOrder(mdb, FALSE, FALSE)
    BY <2>1 DEF CarefulInvariant, Ordered
  <2>5. QED
    BY <1>0, <2>1, <2>2, <2>3, <2>4, NextArbiters DEF ArbiterOrder, ArbitersInOrder
<1>5. CASE CreateOrUpdateArbiters
  <2>1. pc = "arbSts" /\ snap = mdb /\ mdb' = mdb /\ ac' = ac
    BY <1>5 DEF CreateOrUpdateArbiters, Continue, CarefulInvariant, CopyIsResource
  <2>2. arbSts'.replicas = next
    BY <1>0, <1>5, <2>1, DesiredStatefulSetFields, ThisReconciliationType
       DEF CreateOrUpdateArbiters
  <2>3. inOrder => ac.content = [BuiltContent(mdb) EXCEPT !.override = mdb.spec.override]
    BY <2>1 DEF ReconcileInvariant, DeployedSoFar, ConfigWritten
  <2>4. inOrder => ac.content.arbiters = next
    BY <1>3, <2>3 DEF BuiltContent
  <2>5. inOrder = ShouldRunInOrder(mdb, FALSE, FALSE)
    BY <2>1 DEF CarefulInvariant, Ordered
  <2>6. QED
    BY <1>0, <2>1, <2>2, <2>4, <2>5, NextArbiters DEF ArbiterOrder, ArbitersInOrder
<1>6. CASE /\ UNCHANGED ac
           /\ arbSts'.replicas = arbSts.replicas /\ arbSts'.exists = arbSts.exists
  <2>1. CASE UpdateStatus /\ fresh /\ mdb' = [mdb EXCEPT !.status = NextStatus(snap)]
    <3>1. pc = "status" /\ snap = mdb /\ ValidateSpec(mdb)
      BY <2>1 DEF UpdateStatus, CarefulInvariant, CopyIsResource, Validated
    <3>2. mdb'.status = NextStatus(mdb)
      BY <1>0, <2>1, <3>1, ResourceFields
    <3>3. ac.content.arbiters = next /\ arbSts.replicas = next
      BY <1>2, <3>1, StatusFollows DEF StatusTellsTheTruth
    <3>4. mdb'.status.stsArbiters = next /\ mdb'.status.stsReplicas # 0
      BY <1>0, <1>2, <3>1, <3>2, ReportsMembers
    <3>5. StatefulSetArbitersThisReconciliation(mdb') \in Nat /\ next \in Nat
      BY <1>0, ThisReconciliationType DEF TypeOK, Counts
    <3>6. QED
      BY <1>6, <3>3, <3>4, <3>5 DEF ArbitersInOrder
  <2>2. CASE EditSpec
    <3>1. PICK spec \in UserSpecs : mdb' = [mdb EXCEPT !.spec = spec]
      BY <2>2 DEF EditSpec, Store
    <3>2. mdb'.status = mdb.status
      BY <1>0, <3>1, ResourceFields
    <3>3. Reached(mdb) /\ mdb.status.stsReplicas # 0
      BY <1>0, <2>2 DEF EditSpec, Settled, Patient, OneThingChanges, Reported
    <3>4. next = mdb.status.stsArbiters
      BY <1>0, <3>3, NextArbiters DEF Reached
    <3>5. StatefulSetArbitersThisReconciliation(mdb') \in Nat /\ next \in Nat
      BY <1>0, ThisReconciliationType DEF TypeOK, Counts
    <3>6. QED
      BY <1>6, <3>2, <3>3, <3>4, <3>5 DEF ArbiterOrder, ArbitersInOrder
  <2>3. CASE /\ mdb'.spec = mdb.spec
             /\ mdb'.status.stsArbiters = mdb.status.stsArbiters
             /\ mdb'.status.stsReplicas = mdb.status.stsReplicas
    BY <1>6, <2>3 DEF ArbiterOrder, ArbitersInOrder, StatefulSetArbitersThisReconciliation,
                      ArbitersScaler
  <2>4. CASE \E phase : mdb' = [mdb EXCEPT !.status.phase = phase]
    BY <1>0, <2>3, <2>4, ResourceFields
  <2>5. CASE \E spec : mdb' = [mdb EXCEPT !.lastApplied = spec]
    BY <1>0, <2>3, <2>5, ResourceFields
  <2>6. QED
    BY <2>1, <2>2, <2>3, <2>4, <2>5, ResourceStep
<1>7. QED
  <2>1. ~EnsureAutomationConfig => ac' = ac
    BY ConfigStep
  <2>2. ~CreateOrUpdateArbiters =>
          arbSts'.replicas = arbSts.replicas /\ arbSts'.exists = arbSts.exists
    BY ArbitersStep
  <2>3. QED
    BY <1>4, <1>5, <1>6, <2>1, <2>2

\* Nothing is deployed at first.
LEMMA ArbiterOrderInit ==
  ASSUME Init PROVE ArbiterOrder
<1>1. PICK spec \in UserSpecs : mdb = NewResource(spec)
  BY DEF Init
<1>2. mdb.status.stsArbiters = 0
  BY <1>1 DEF NewResource, NewStatus
<1>3. ac.content.arbiters = 0 /\ arbSts.replicas = 0 /\ arbSts.exists = FALSE
  BY DEF Init, ClusterInit, NoConfig, NoStatefulSet
<1>4. spec \in Specs
  BY UserSpecsAssumption
<1>5. StatefulSetArbitersThisReconciliation(mdb) \in Nat
  BY <1>1, <1>4, NewResources, ThisReconciliationType DEF Counts
<1>6. QED
  BY <1>2, <1>3, <1>5 DEF ArbiterOrder, ArbitersInOrder

\* While the user makes single edits, waits for them and does not use TLS, the
\* StatefulSet of the arbiters always has a replica for every arbiter that the
\* config has: shouldRunInOrder puts the StatefulSet first on the way up and
\* the config first on the way down.  Crashes and API errors do not matter.
THEOREM ArbiterReplicasTheorem ==
  ASSUME Careful, ~JointEdits
  PROVE  Spec => []ArbiterReplicaForEveryArbiter
<1>1. Init => ArbiterOrder
  BY ArbiterOrderInit
<1>2. TypeOK /\ TypeOK' /\ ReconcileInvariant /\ SingleEditInvariant /\ CarefulInvariant
      /\ ArbiterOrder /\ [Next]_vars => ArbiterOrder'
  BY ArbiterOrderStep DEF Careful
<1>3. TypeOK /\ SingleEditInvariant /\ CarefulInvariant /\ ArbiterOrder
        => ArbiterReplicaForEveryArbiter
  <2> SUFFICES ASSUME TypeOK, SingleEditInvariant, CarefulInvariant, ArbiterOrder,
                      arbSts.exists
               PROVE  ac.content.arbiters <= arbSts.replicas
    BY DEF ArbiterReplicaForEveryArbiter
  <2>1. /\ mdb.status.stsArbiters \in Nat
        /\ StatefulSetArbitersThisReconciliation(mdb) \in Nat
    BY ThisReconciliationType DEF TypeOK, Resources, Statuses, Counts
  <2>2. mdb.status.stsReplicas = 0 => mdb.status.stsArbiters = 0
    BY DEF CarefulInvariant, Reported
  <2>3. QED
    BY <2>1, <2>2 DEF ArbiterOrder, ArbitersInOrder
<1>4. Spec => []SingleEditInvariant
  BY SingleEditInvariantHolds DEF Careful, Patient
<1>5. Spec => []CarefulInvariant
  BY CarefulInvariantHolds
<1>6. QED
  BY <1>1, <1>2, <1>3, <1>4, <1>5, TypeCorrect, ReconcileInvariantHolds, PTL DEF Spec

-----------------------------------------------------------------------------
(***************************************************************************)
(* Pods and StatefulSet: who changes what.                                 *)
(***************************************************************************)
\* The effect of the pod steps on the pods.
LEMMA PodEffects ==
  ASSUME TypeOK, NEW i \in Ordinals
  PROVE  /\ CreatePod(i) =>
              /\ ~pods[i].up /\ i < sts.replicas /\ \A j \in Ordinals : j < i => pods[j].up
              /\ pods'[i].up /\ pods'[i].probe = "notReady" /\ pods'[i].template = sts.template
              /\ pods'[i].annotation = 0
              /\ \A j \in Ordinals : j # i => pods'[j] = pods[j]
         /\ RemovePod(i) =>
              /\ i >= sts.replicas /\ ~pods'[i].up /\ pods'[i].annotation = 0
              /\ \A j \in Ordinals : j > i => ~pods[j].up
              /\ \A j \in Ordinals : j # i => pods'[j] = pods[j]
         /\ ReachGoalState(i) =>
              /\ CanReachGoal(i)
              /\ pods'[i].up = pods[i].up /\ pods'[i].template = pods[i].template
              /\ pods'[i].annotation = ac.version /\ pods'[i].probe = "ready"
              /\ \A j \in Ordinals : j # i => pods'[j] = pods[j]
         /\ ProbeNotReady(i) =>
              /\ pods[i].up /\ pods[i].probe = "ready" /\ pods[i].annotation # ac.version
              /\ pods'[i].up = pods[i].up /\ pods'[i].template = pods[i].template
              /\ pods'[i].annotation = pods[i].annotation /\ pods'[i].probe = "notReady"
              /\ \A j \in Ordinals : j # i => pods'[j] = pods[j]
         /\ ProbeWaitStep(i) =>
              /\ pods'[i].up = pods[i].up /\ pods'[i].template = pods[i].template
              /\ pods'[i].annotation = pods[i].annotation /\ pods'[i].probe = "waiting"
              /\ \A j \in Ordinals : j # i => pods'[j] = pods[j]
         /\ VersionHookDeletesPod(i) =>
              /\ ~pods'[i].up /\ pods'[i].annotation = 0
              /\ \A j \in Ordinals : j # i => pods'[j] = pods[j]
<1>1. pods \in [Ordinals -> PodType]
  BY DEF TypeOK, ClusterTypeOK, PodType
<1>2. ASSUME NEW p, pods' = [pods EXCEPT ![i] = p]
      PROVE  pods'[i] = p /\ \A j \in Ordinals : j # i => pods'[j] = pods[j]
  BY <1>1, <1>2
<1>3. NewPod(sts.template).up /\ NewPod(sts.template).probe = "notReady"
      /\ NewPod(sts.template).template = sts.template /\ NewPod(sts.template).annotation = 0
      /\ ~NoPod.up /\ NoPod.annotation = 0
  BY DEF NewPod, NoPod
<1>4. ASSUME CreatePod(i)
      PROVE  /\ ~pods[i].up /\ i < sts.replicas /\ \A j \in Ordinals : j < i => pods[j].up
             /\ pods' = [pods EXCEPT ![i] = NewPod(sts.template)]
  BY <1>4 DEF CreatePod, PodReady
<1>5. ASSUME RemovePod(i)
      PROVE  /\ i >= sts.replicas /\ \A j \in Ordinals : j > i => ~pods[j].up
             /\ pods' = [pods EXCEPT ![i] = NoPod]
  BY <1>5 DEF RemovePod
<1>6. CreatePod(i) =>
        /\ ~pods[i].up /\ i < sts.replicas /\ \A j \in Ordinals : j < i => pods[j].up
        /\ pods'[i].up /\ pods'[i].probe = "notReady" /\ pods'[i].template = sts.template
        /\ pods'[i].annotation = 0
        /\ \A j \in Ordinals : j # i => pods'[j] = pods[j]
  <2> SUFFICES ASSUME CreatePod(i)
               PROVE  /\ ~pods[i].up /\ i < sts.replicas
                      /\ \A j \in Ordinals : j < i => pods[j].up
                      /\ pods'[i].up /\ pods'[i].probe = "notReady"
                      /\ pods'[i].template = sts.template /\ pods'[i].annotation = 0
                      /\ \A j \in Ordinals : j # i => pods'[j] = pods[j]
    OBVIOUS
  <2>1. /\ pods'[i] = NewPod(sts.template)
        /\ \A j \in Ordinals : j # i => pods'[j] = pods[j]
    BY <1>2, <1>4
  <2>2. QED
    BY <1>3, <1>4, <2>1
<1>7. RemovePod(i) =>
        /\ i >= sts.replicas /\ ~pods'[i].up /\ pods'[i].annotation = 0
        /\ \A j \in Ordinals : j > i => ~pods[j].up
        /\ \A j \in Ordinals : j # i => pods'[j] = pods[j]
  BY <1>2, <1>3, <1>5
<1>8. ReachGoalState(i) =>
        /\ CanReachGoal(i)
        /\ pods'[i].up = pods[i].up /\ pods'[i].template = pods[i].template
        /\ pods'[i].annotation = ac.version /\ pods'[i].probe = "ready"
        /\ \A j \in Ordinals : j # i => pods'[j] = pods[j]
  <2> SUFFICES ASSUME ReachGoalState(i)
               PROVE  /\ CanReachGoal(i)
                      /\ pods'[i].up = pods[i].up /\ pods'[i].template = pods[i].template
                      /\ pods'[i].annotation = ac.version /\ pods'[i].probe = "ready"
                      /\ \A j \in Ordinals : j # i => pods'[j] = pods[j]
    OBVIOUS
  <2>1. CanReachGoal(i)
    BY DEF ReachGoalState
  <2>2. pods' = [pods EXCEPT ![i].annotation = ac.version, ![i].probe = "ready"]
    BY DEF ReachGoalState
  <2>3. \A j \in Ordinals : j # i => pods'[j] = pods[j]
    BY <1>1, <2>2
  <2>4. pods'[i] = [pods[i] EXCEPT !.annotation = ac.version, !.probe = "ready"]
    BY <1>1, <2>2
  <2>5. pods[i] \in PodType
    BY <1>1
  <2>6. /\ pods'[i].up = pods[i].up /\ pods'[i].template = pods[i].template
        /\ pods'[i].annotation = ac.version /\ pods'[i].probe = "ready"
    BY <2>4, <2>5 DEF PodType
  <2>7. QED
    BY <2>1, <2>3, <2>6
<1>9. ProbeNotReady(i) =>
        /\ pods[i].up /\ pods[i].probe = "ready" /\ pods[i].annotation # ac.version
        /\ pods'[i].up = pods[i].up /\ pods'[i].template = pods[i].template
        /\ pods'[i].annotation = pods[i].annotation /\ pods'[i].probe = "notReady"
        /\ \A j \in Ordinals : j # i => pods'[j] = pods[j]
  <2> SUFFICES ASSUME ProbeNotReady(i)
               PROVE  /\ pods[i].up /\ pods[i].probe = "ready" /\ pods[i].annotation # ac.version
                      /\ pods'[i].up = pods[i].up /\ pods'[i].template = pods[i].template
                      /\ pods'[i].annotation = pods[i].annotation
                      /\ pods'[i].probe = "notReady"
                      /\ \A j \in Ordinals : j # i => pods'[j] = pods[j]
    OBVIOUS
  <2>1. /\ pods[i].up /\ pods[i].probe = "ready" /\ pods[i].annotation # ac.version
        /\ pods' = [pods EXCEPT ![i].probe = "notReady"]
    BY DEF ProbeNotReady, InGoalState
  <2>2. \A j \in Ordinals : j # i => pods'[j] = pods[j]
    BY <1>1, <2>1
  <2>3. pods'[i] = [pods[i] EXCEPT !.probe = "notReady"] /\ pods[i] \in PodType
    BY <1>1, <2>1
  <2>4. /\ pods'[i].up = pods[i].up /\ pods'[i].template = pods[i].template
        /\ pods'[i].annotation = pods[i].annotation /\ pods'[i].probe = "notReady"
    BY <2>3 DEF PodType
  <2>5. QED
    BY <2>1, <2>2, <2>4
<1>10. ProbeWaitStep(i) =>
        /\ pods'[i].up = pods[i].up /\ pods'[i].template = pods[i].template
        /\ pods'[i].annotation = pods[i].annotation /\ pods'[i].probe = "waiting"
        /\ \A j \in Ordinals : j # i => pods'[j] = pods[j]
  BY <1>1 DEF ProbeWaitStep, PodType
<1>11. VersionHookDeletesPod(i) =>
         /\ ~pods'[i].up /\ pods'[i].annotation = 0
         /\ \A j \in Ordinals : j # i => pods'[j] = pods[j]
  BY <1>2, <1>3 DEF VersionHookDeletesPod
<1>12. QED
  BY <1>6, <1>7, <1>8, <1>9, <1>10, <1>11

\* The pods change in steps of the cluster, which change nothing else.
LEMMA PodsStep ==
  ASSUME [Next]_vars
  PROVE  \/ pods' = pods
         \/ /\ UNCHANGED <<ac, sts, arbSts, mdb, oldMdb, snap, fresh, pc, inOrder, used>>
            /\ \E i \in Ordinals :
                 \/ CreatePod(i) \/ RemovePod(i) \/ RollPod(i) \/ ReachGoalState(i)
                 \/ ProbeNotReady(i) \/ ProbeWaitStep(i) \/ VersionHookDeletesPod(i)
<1>1. CASE ClusterStep
  <2>1. CASE ObserveStatefulSet \/ ObserveArbiters
    BY <2>1 DEF ObserveStatefulSet, ObserveArbiters
  <2>2. ASSUME NEW i \in Ordinals,
               \/ CreatePod(i) \/ RemovePod(i) \/ RollPod(i) \/ ReachGoalState(i)
               \/ ProbeNotReady(i) \/ ProbeWaitStep(i) \/ VersionHookDeletesPod(i)
        PROVE  UNCHANGED <<ac, sts, arbSts>>
    BY <2>2 DEF CreatePod, RemovePod, RollPod, ReachGoalState, ProbeNotReady, ProbeWaitStep,
                VersionHookDeletesPod
  <2>3. QED
    BY <1>1, <2>1, <2>2 DEF ClusterStep, StatefulSetEvent, EnqueueOwner
<1>2. QED
  BY <1>1
     DEF Next, ReconcileStep, StartReconcile, Prepare, ChooseOrder, AwaitAgents,
         EnsureAutomationConfig, CreateOrUpdateStatefulSet, CreateOrUpdateArbiters,
         AwaitStatefulSet, ResetUpdateStrategy, UpdateStatus, SaveLastApplied,
         TLSConfigNotValid, CallFails, EditSpec, Crash, vars, clusterVars

\* Only CreateOrUpdateStatefulSet creates, resizes or changes the StatefulSet
\* of the members; ResetUpdateStrategy touches the strategy alone.
LEMMA StatefulSetStep ==
  ASSUME TypeOK, [Next]_vars
  PROVE  \/ CreateOrUpdateStatefulSet
         \/ /\ sts'.replicas = sts.replicas /\ sts'.exists = sts.exists
            /\ sts'.template = sts.template
            /\ \/ sts'.strategy = sts.strategy
               \/ ResetUpdateStrategy /\ sts'.strategy = "RollingUpdate"
<1>1. sts \in StatefulSetType
  BY DEF TypeOK, ClusterTypeOK, StatefulSetType
<1>2. CASE ClusterStep
  <2>1. sts' = [sts EXCEPT !.observed = sts'.observed]
    BY <1>2, StatefulSetEventStep DEF ClusterStep, TypeOK
  <2>2. QED
    BY <1>1, <2>1 DEF StatefulSetType
<1>3. CASE ResetUpdateStrategy
  BY <1>1, <1>3 DEF ResetUpdateStrategy, StatefulSetType
<1>4. QED
  BY <1>2, <1>3
     DEF Next, ReconcileStep, StartReconcile, Prepare, ChooseOrder, AwaitAgents,
         EnsureAutomationConfig, CreateOrUpdateArbiters, AwaitStatefulSet, UpdateStatus,
         SaveLastApplied, TLSConfigNotValid, CallFails, EditSpec, Crash, vars, clusterVars

\* CreateOrUpdate leaves a StatefulSet behind.
LEMMA DesiredExists ==
  ASSUME NEW current \in StatefulSetType, NEW m, NEW n
  PROVE  DesiredStatefulSet(current, m, n).exists = TRUE
BY DEF DesiredStatefulSet, StatefulSetType

\* What EnsureAutomationConfig leaves behind: the content that the copy of the
\* resource asks for, and a version that moves with the version of mongod and
\* the number of members.
LEMMA EnsuredConfig ==
  ASSUME NEW c \in ConfigType, NEW m \in Resources
  PROVE  LET d == EnsureSecret(c, BuildAutomationConfig(c, m))
         IN  /\ d.content.members = BuiltContent(m).members
             /\ d.content.version = m.spec.version
             /\ \/ d.version = c.version /\ d.content.members = c.content.members
                                         /\ d.content.version = c.content.version
                \/ d.version = c.version + 1
<1> DEFINE d == EnsureSecret(c, BuildAutomationConfig(c, m))
<1>1. d.content = [BuiltContent(m) EXCEPT !.override = m.spec.override]
  BY EnsuredContent
<1>2. /\ d.content.members = BuiltContent(m).members
      /\ d.content.version = BuiltContent(m).version
      /\ BuiltContent(m).version = m.spec.version
  BY <1>1 DEF BuiltContent
<1>3. CASE d = c
  BY <1>2, <1>3
<1>4. CASE d = BuildAutomationConfig(c, m)
  <2>1. d.version = IF BuiltContent(m) = c.content THEN c.version ELSE c.version + 1
    BY <1>4 DEF BuildAutomationConfig
  <2>2. QED
    BY <1>2, <2>1
<1>5. QED
  BY <1>3, <1>4 DEF EnsureSecret

\* Without a gap, a set of n ordinals is the first n ordinals.
LEMMA FirstOrdinals ==
  ASSUME NEW S \in SUBSET Ordinals, NEW n \in Counts, Cardinality(S) = n,
         \A i, j \in Ordinals : i < j /\ j \in S => i \in S
  PROVE  \A i \in Ordinals : i \in S <=> i < n
<1>0. MaxMembers \in Nat /\ n \in Nat
  BY MaxMembersAssumption DEF Counts
<1>1. IsFiniteSet(Ordinals)
  BY <1>0, FS_Interval DEF Ordinals
<1>2. IsFiniteSet(S)
  BY <1>1, FS_Subset
<1>3. ASSUME NEW i \in S PROVE i < n
  <2>1. i \in Nat /\ 0 .. i \subseteq S
    BY <1>0 DEF Ordinals
  <2>2. Cardinality(0 .. i) = i + 1
    BY <2>1, FS_Interval
  <2>3. Cardinality(0 .. i) <= Cardinality(S)
    BY <1>2, <2>1, FS_Subset
  <2>4. QED
    BY <1>0, <2>1, <2>2, <2>3
<1>4. S \subseteq 0 .. n - 1
  BY <1>0, <1>3 DEF Ordinals
<1>5. IsFiniteSet(0 .. n - 1) /\ Cardinality(0 .. n - 1) = n
  BY <1>0, FS_Interval
<1>6. S = 0 .. n - 1
  BY <1>4, <1>5, FS_Subset
<1>7. QED
  BY <1>0, <1>6 DEF Ordinals

-----------------------------------------------------------------------------
(***************************************************************************)
(* Members: the order of config and StatefulSet.                           *)
(***************************************************************************)
\* Config and StatefulSet have the reported number of members or the next
\* one.  The StatefulSet goes first upwards and the config goes first
\* downwards and in a first deployment.
MembersInOrder(m, configured, replicas, exists) ==
  LET reported == m.status.stsReplicas
      next     == StatefulSetReplicasThisReconciliation(m)
  IN  /\ {configured, replicas} \subseteq {reported, next}
      /\ next > reported /\ reported # 0 /\ configured = next => replicas = next
      /\ next < reported /\ replicas = next => configured = next
      /\ reported = 0 /\ exists => configured = next /\ replicas = next

\* The same of the state.
MemberOrder == MembersInOrder(mdb, ac.content.members, sts.replicas, sts.exists)

\* Which way the next number of members lies, and where the order comes from.
LEMMA NextMembers ==
  ASSUME NEW m \in Resources, m.spec.tls = FALSE, OneThingChanges(m), Reported(m)
  PROVE  LET reported == m.status.stsReplicas
             next     == StatefulSetReplicasThisReconciliation(m)
         IN  /\ reported \in Nat /\ next \in Nat
             /\ reported = m.spec.members => next = reported
             /\ next > reported /\ reported # 0 => ~ShouldRunInOrder(m, FALSE, FALSE)
             /\ next < reported /\ m.status.stsArbiters = m.spec.arbiters
                  => ShouldRunInOrder(m, FALSE, FALSE)
             /\ reported = 0 => ShouldRunInOrder(m, FALSE, FALSE)
<1>1. /\ m.status.stsReplicas \in Nat /\ m.status.stsArbiters \in Nat
      /\ m.spec.members \in Nat /\ m.spec.arbiters \in Nat
  BY DEF Resources, Statuses, Specs, Counts
<1> DEFINE reported == m.status.stsReplicas
           next     == StatefulSetReplicasThisReconciliation(m)
<1>2. /\ next \in Nat
      /\ reported = m.spec.members => next = reported
      /\ next > reported => reported < m.spec.members
      /\ next < reported => reported > m.spec.members
  BY <1>1 DEF StatefulSetReplicasThisReconciliation, MembersScaler, Scaler,
              ReplicasThisReconciliation, IsScalingDown
<1>3. IsChangingVersion(m) => reported # 0 /\ reported = m.spec.members
  <2>1. NoSpec.version = NoVersion
    BY DEF NoSpec
  <2>2. QED
    BY <2>1 DEF IsChangingVersion, Reported, OneThingChanges, Reached
<1>4. /\ reported < m.spec.members /\ reported # 0 => ~ShouldRunInOrder(m, FALSE, FALSE)
      /\ reported > m.spec.members /\ m.status.stsArbiters = m.spec.arbiters
           => ShouldRunInOrder(m, FALSE, FALSE)
      /\ reported = 0 => ShouldRunInOrder(m, FALSE, FALSE)
  BY <1>1, <1>3 DEF ShouldRunInOrder, HasZeroReplicas, MembersScaler, Scaler, IsScalingUp,
                    IsScalingDown
<1>5. QED
  BY <1>1, <1>2, <1>4

\* The facts about the resource that the steps below share.
LEMMA MemberFacts ==
  ASSUME TypeOK, ReconcileInvariant, SingleEditInvariant, CarefulInvariant
  PROVE  /\ mdb \in Resources /\ snap \in Resources /\ mdb.spec.tls = FALSE
         /\ ac \in ConfigType /\ sts \in StatefulSetType
         /\ mdb.status.mdbMembers = mdb.status.stsReplicas
         /\ OneThingChanges(mdb) /\ Reported(mdb)
         /\ BuiltContent(mdb).members = StatefulSetReplicasThisReconciliation(mdb)
         /\ StatefulSetReplicasThisReconciliation(mdb) \in Nat
<1>1. /\ mdb \in Resources /\ snap \in Resources /\ mdb.spec.tls = FALSE
      /\ ac \in ConfigType /\ sts \in StatefulSetType
      /\ mdb.status.mdbMembers = mdb.status.stsReplicas
      /\ OneThingChanges(mdb) /\ Reported(mdb)
  BY DEF TypeOK, ClusterTypeOK, ConfigType, StatefulSetType, ReconcileInvariant, CountersAgree,
         SingleEditInvariant, CarefulInvariant, NoTLS
<1>2. BuiltContent(mdb).members = StatefulSetReplicasThisReconciliation(mdb)
  BY <1>1, ReportedCountsAreBuilt DEF NextStatus
<1>3. StatefulSetReplicasThisReconciliation(mdb) \in Nat
  BY <1>1, NextMembers
<1>4. QED
  BY <1>1, <1>2, <1>3

\* What every step of Reconcile writes for the members keeps the order.
LEMMA MemberOrderStep ==
  ASSUME Patient, TypeOK, TypeOK', ReconcileInvariant, SingleEditInvariant, CarefulInvariant,
         MemberOrder, [Next]_vars
  PROVE  MemberOrder'
<1> DEFINE next == StatefulSetReplicasThisReconciliation(mdb)
<1>0. /\ mdb \in Resources /\ snap \in Resources /\ mdb.spec.tls = FALSE
      /\ ac \in ConfigType /\ sts \in StatefulSetType
      /\ mdb.status.mdbMembers = mdb.status.stsReplicas
      /\ OneThingChanges(mdb) /\ Reported(mdb)
      /\ BuiltContent(mdb).members = next /\ next \in Nat
  BY MemberFacts
<1>1. SUFFICES MembersInOrder(mdb', ac'.content.members, sts'.replicas, sts'.exists)
  BY DEF MemberOrder, MembersInOrder, StatefulSetReplicasThisReconciliation, MembersScaler,
         Scaler, ReplicasThisReconciliation, IsScalingDown
<1>2. StatefulSetReplicasThisReconciliation(mdb') \in Nat
  BY ThisReconciliationType DEF TypeOK, Counts
<1>3. CASE EnsureAutomationConfig
  <2>1. pc = "ac" /\ snap = mdb /\ mdb' = mdb /\ sts' = sts
    BY <1>3 DEF EnsureAutomationConfig, Continue, CarefulInvariant, CopyIsResource
  <2>2. ac'.content.members = next
    BY <1>0, <1>3, <2>1, EnsuredConfig DEF EnsureAutomationConfig
  <2>3. ~inOrder => sts.replicas = next
    BY <2>1 DEF ReconcileInvariant, DeployedSoFar, StatefulSetWritten
  <2>4. inOrder = ShouldRunInOrder(mdb, FALSE, FALSE)
    BY <2>1 DEF CarefulInvariant, Ordered
  <2>5. QED
    BY <1>0, <2>1, <2>2, <2>3, <2>4, NextMembers DEF MemberOrder, MembersInOrder
<1>4. CASE CreateOrUpdateStatefulSet
  <2>1. pc = "sts" /\ snap = mdb /\ mdb' = mdb /\ ac' = ac
    BY <1>4 DEF CreateOrUpdateStatefulSet, Continue, CarefulInvariant, CopyIsResource
  <2>2. sts'.replicas = next
    BY <1>0, <1>4, <2>1, DesiredStatefulSetFields, ThisReconciliationType
       DEF CreateOrUpdateStatefulSet
  <2>3. inOrder => ac.content = [BuiltContent(mdb) EXCEPT !.override = mdb.spec.override]
    BY <2>1 DEF ReconcileInvariant, DeployedSoFar, ConfigWritten
  <2>4. inOrder => ac.content.members = next
    BY <1>0, <2>3 DEF BuiltContent
  <2>5. inOrder = ShouldRunInOrder(mdb, FALSE, FALSE)
    BY <2>1 DEF CarefulInvariant, Ordered
  <2>6. next < mdb.status.stsReplicas => mdb.status.stsArbiters = mdb.spec.arbiters
    <3>1. mdb.status.stsReplicas = mdb.spec.members => next = mdb.status.stsReplicas
      BY <1>0, NextMembers
    <3>2. next >= 0 /\ ~(next < next)
      BY <1>0
    <3>3. QED
      BY <1>0, <3>1, <3>2 DEF OneThingChanges
  <2>7. QED
    BY <1>0, <2>1, <2>2, <2>4, <2>5, <2>6, NextMembers DEF MemberOrder, MembersInOrder
<1>5. CASE /\ UNCHANGED ac
           /\ sts'.replicas = sts.replicas /\ sts'.exists = sts.exists
  <2>1. CASE UpdateStatus /\ fresh /\ mdb' = [mdb EXCEPT !.status = NextStatus(snap)]
    <3>1. pc = "status" /\ snap = mdb /\ ValidateSpec(mdb)
      BY <2>1 DEF UpdateStatus, CarefulInvariant, CopyIsResource, Validated
    <3>2. mdb'.status = NextStatus(mdb)
      BY <1>0, <2>1, <3>1, ResourceFields
    <3>3. NextStatus(mdb).mdbMembers = next /\ NextStatus(mdb).stsReplicas = next
      BY <1>0, ReportedCountsAreBuilt DEF NextStatus
    <3>4. ac.content.members = next /\ sts.replicas = next
      BY <3>1, <3>3, StatusFollows DEF StatusTellsTheTruth
    <3>5. mdb'.status.stsReplicas = next /\ next # 0
      BY <1>0, <3>1, <3>2, <3>3, ReportsMembers
    <3>6. QED
      BY <1>0, <1>2, <1>5, <3>4, <3>5 DEF MembersInOrder
  <2>2. CASE EditSpec
    <3>1. PICK spec \in UserSpecs : mdb' = [mdb EXCEPT !.spec = spec]
      BY <2>2 DEF EditSpec, Store
    <3>2. mdb'.status = mdb.status
      BY <1>0, <3>1, ResourceFields
    <3>3. Reached(mdb) /\ mdb.status.stsReplicas # 0
      BY <1>0, <2>2 DEF EditSpec, Settled, Patient, OneThingChanges, Reported
    <3>4. next = mdb.status.stsReplicas
      BY <1>0, <3>3, NextMembers DEF Reached
    <3>5. QED
      BY <1>0, <1>2, <1>5, <3>2, <3>3, <3>4 DEF MemberOrder, MembersInOrder
  <2>3. CASE /\ mdb'.spec = mdb.spec
             /\ mdb'.status.stsReplicas = mdb.status.stsReplicas
    BY <1>5, <2>3 DEF MemberOrder, MembersInOrder, StatefulSetReplicasThisReconciliation,
                      MembersScaler
  <2>4. CASE \E phase : mdb' = [mdb EXCEPT !.status.phase = phase]
    BY <1>0, <2>3, <2>4, ResourceFields
  <2>5. CASE \E spec : mdb' = [mdb EXCEPT !.lastApplied = spec]
    BY <1>0, <2>3, <2>5, ResourceFields
  <2>6. QED
    BY <2>1, <2>2, <2>3, <2>4, <2>5, ResourceStep
<1>6. QED
  <2>1. ~EnsureAutomationConfig => ac' = ac
    BY ConfigStep
  <2>2. ~CreateOrUpdateStatefulSet => sts'.replicas = sts.replicas /\ sts'.exists = sts.exists
    BY StatefulSetStep
  <2>3. QED
    BY <1>3, <1>4, <1>5, <2>1, <2>2

\* Nothing is deployed at first.
LEMMA MemberOrderInit ==
  ASSUME Init PROVE MemberOrder
<1>1. PICK spec \in UserSpecs : mdb = NewResource(spec)
  BY DEF Init
<1>2. mdb.status.stsReplicas = 0
  BY <1>1 DEF NewResource, NewStatus
<1>3. ac.content.members = 0 /\ sts.replicas = 0 /\ sts.exists = FALSE
  BY DEF Init, ClusterInit, NoConfig, NoStatefulSet
<1>4. StatefulSetReplicasThisReconciliation(mdb) \in Nat
  BY <1>1, UserSpecsAssumption, NewResources, ThisReconciliationType DEF Counts
<1>5. QED
  BY <1>2, <1>3, <1>4 DEF MemberOrder, MembersInOrder

\* The order holds of every behaviour of a careful user who edits one field at
\* a time.
LEMMA MemberOrderHolds ==
  ASSUME Careful, ~JointEdits
  PROVE  Spec => []MemberOrder
<1>1. Init => MemberOrder
  BY MemberOrderInit
<1>2. TypeOK /\ TypeOK' /\ ReconcileInvariant /\ SingleEditInvariant /\ CarefulInvariant
      /\ MemberOrder /\ [Next]_vars => MemberOrder'
  BY MemberOrderStep DEF Careful
<1>3. ~EditsInFlight
  BY DEF Careful, Patient
<1>4. QED
  BY <1>1, <1>2, <1>3, TypeCorrect, ReconcileInvariantHolds, SingleEditInvariantHolds,
     CarefulInvariantHolds, PTL DEF Spec
=============================================================================
