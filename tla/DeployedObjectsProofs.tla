----------------------- MODULE DeployedObjectsProofs -----------------------
(***************************************************************************)
(* Theorems about DeployedObjects: what stays true of the automation       *)
(* config and of the StatefulSet through every series of edits, losses and *)
(* reconciliations.                                                        *)
(***************************************************************************)
EXTENDS DeployedObjects, FiniteSetTheorems, SequenceTheorems, WellFoundedInduction, TLAPS

-----------------------------------------------------------------------------
(***************************************************************************)
(* The numbers of a reconciliation.                                        *)
(***************************************************************************)
\* The counts that have been reported are numbers.
StatusOK == spec \in UserSpecs /\ status.members \in Nat /\ status.arbiters \in Nat

\* The numbers and versions a resource is deployed with.
SoundResource(m) ==
  /\ m.acMembers \in Nat \ {0} /\ m.acArbiters \in Nat
  /\ m.version \in Nat \X Nat /\ m.fcv \in Nat
  /\ Len(m.memberConfig) \in Nat

\* One step from the reported number; an arbiter may be the first of its kind,
\* a member never the last.
LEMMA ScalerType ==
  ASSUME NEW current \in Nat, NEW desired \in Nat, NEW forced \in BOOLEAN
  PROVE  LET n == ReplicasThisReconciliation(Scaler(current, desired, forced))
         IN  /\ n \in Nat
             /\ desired > 0 => n > 0
             /\ n <= current \/ n <= desired
BY DEF ReplicasThisReconciliation, Scaler, IsScalingDown

\* A valid resource is deployed with at least one member.
LEMMA ResourceIsSound ==
  ASSUME StatusOK, ValidateSpec
  PROVE  /\ SoundResource(Resource)
         /\ Resource # NoResource
         /\ Resource.acMembers <= status.members \/ Resource.acMembers <= spec.members
<1>1. /\ spec.members \in Nat /\ spec.arbiters \in Nat /\ spec.fcv \in Nat
      /\ Len(spec.memberConfig) \in Nat /\ spec.version \in Nat \X Nat
      /\ status.members \in Nat /\ status.arbiters \in Nat
  BY UserSpecsAssumption DEF StatusOK
<1>2. spec.members > 0
  BY <1>1 DEF ValidateSpec
<1>3. Members \in Nat /\ Members > 0 /\ (Members <= status.members \/ Members <= spec.members)
  BY <1>1, <1>2, ScalerType DEF Members
<1>4. Arbiters \in Nat
  BY <1>1, ScalerType DEF Arbiters
<1>5. /\ Resource.acMembers = Members /\ Resource.acArbiters = Arbiters
      /\ Resource.version = spec.version /\ Resource.fcv = spec.fcv
      /\ Resource.memberConfig = spec.memberConfig
  BY DEF Resource
<1>6. Resource # NoResource
  <2>1. "version" \in DOMAIN Resource
    BY DEF Resource
  <2>2. DOMAIN NoResource = {}
    BY DEF NoResource, Nothing
  <2>3. QED
    BY <2>1, <2>2
<1>7. QED
  BY <1>1, <1>3, <1>4, <1>5, <1>6 DEF SoundResource

\* The reported counts stay numbers.
LEMMA StatusOKHolds == Spec => []StatusOK
<1>1. Init => StatusOK
  BY DEF Init, StatusOK
<1>2. StatusOK /\ [Next]_vars => StatusOK'
  <2> SUFFICES ASSUME StatusOK, [Next]_vars PROVE StatusOK'
    OBVIOUS
  <2>1. CASE UpdateStatus
    <3>1. SoundResource(Resource) /\ Resource.acMembers = Members /\ Resource.acArbiters = Arbiters
      BY <2>1, ResourceIsSound DEF UpdateStatus, Resource
    <3>2. spec' = spec /\ status'.members = Members /\ status'.arbiters = Arbiters
      BY <2>1 DEF UpdateStatus
    <3>3. QED
      BY <3>1, <3>2 DEF StatusOK, SoundResource
  <2>2. CASE EditSpec
    BY <2>2 DEF EditSpec, StatusOK
  <2>3. CASE UNCHANGED <<spec, status>>
    BY <2>3 DEF StatusOK
  <2>4. QED
    BY <2>1, <2>2, <2>3 DEF Next, vars, EnsureAutomationConfig, CreateOrUpdateStatefulSet,
                            LoseSecret, LoseStatefulSet
<1>3. QED
  BY <1>1, <1>2, PTL DEF Spec

-----------------------------------------------------------------------------
(***************************************************************************)
(* The automation config.                                                  *)
(***************************************************************************)
\* The number of processes of a resource.
Processes(m) == m.acMembers + m.acArbiters

\* It is a number.
LEMMA ProcessesCount ==
  ASSUME NEW m, SoundResource(m)
  PROVE  Processes(m) \in Nat
BY DEF Processes, SoundResource

\* What no modification of the content touches: the members, and the versions
\* of the processes.
ContentShape(c, m, fcv) ==
  /\ {"processes", "members", "replicaSetId", "settings", "tls", "prometheus", "roles"}
       \subseteq DOMAIN c
  /\ c.members = [i \in 1 .. Processes(m) |-> ReplicaSetMember(m, i - 1)]
  /\ DOMAIN c.processes = 1 .. Processes(m)
  /\ \A i \in 1 .. Processes(m) :
       /\ {"name", "disabled", "fcv", "version", "args", "logRotate", "auditLogRotate"}
            \subseteq DOMAIN c.processes[i]
       /\ c.processes[i].fcv = fcv
       /\ c.processes[i].version = m.version

\* A process as it is built has the versions it was given.
LEMMA ProcessShape ==
  ASSUME NEW m, NEW i, NEW fcv
  PROVE  /\ {"name", "disabled", "fcv", "version", "args", "logRotate", "auditLogRotate"}
              \subseteq DOMAIN Process(m, i, fcv)
         /\ Process(m, i, fcv).fcv = fcv
         /\ Process(m, i, fcv).version = m.version
BY DEF Process, ConfigureAgentConfiguration

\* The arguments of mongod are added.
LEMMA WithMongodConfigShape ==
  ASSUME NEW m, NEW fcv, NEW c, ContentShape(c, m, fcv)
  PROVE  ContentShape(WithMongodConfig(c, m), m, fcv)
BY DEF ContentShape, WithMongodConfig, WithArgs

\* The certificates are named.
LEMMA WithTLSShape ==
  ASSUME NEW m, NEW fcv, NEW c, ContentShape(c, m, fcv)
  PROVE  ContentShape(WithTLS(c, m), m, fcv)
<1>1. CASE ~m.tls
  BY <1>1 DEF WithTLS
<1>2. CASE m.tls
  BY <1>2 DEF ContentShape, WithTLS, WithArgs
<1>3. QED
  BY <1>1, <1>2

\* Roles and the Prometheus endpoint are added.
LEMMA WithRolesShape ==
  ASSUME NEW m, NEW fcv, NEW c, ContentShape(c, m, fcv)
  PROVE  /\ ContentShape(WithRoles(c, m), m, fcv)
         /\ ContentShape(WithPrometheus(c, m), m, fcv)
BY DEF ContentShape, WithRoles, WithPrometheus

\* What is built has the members and versions of the resource.
LEMMA BuiltContentShape ==
  ASSUME NEW m, NEW previous
  PROVE  ContentShape(BuiltContent(m, previous), m, FeatureCompatibilityVersion(m, previous))
<1> DEFINE n       == m.acMembers + m.acArbiters
           fcv     == FeatureCompatibilityVersion(m, previous)
           initial == [processes    |-> [i \in 1 .. n |-> Process(m, i - 1, fcv)],
                       members      |-> [i \in 1 .. n |-> ReplicaSetMember(m, i - 1)],
                       replicaSetId |-> IF m.acOverride.replicaSetId = "" THEN "name"
                                       ELSE m.acOverride.replicaSetId,
                       settings     |-> m.acOverride.settings,
                       tls          |-> [caFile |-> NoFile, autoPEMKeyFile |-> NoFile],
                       prometheus   |-> Nothing,
                       roles        |-> Nothing]
<1>1. ContentShape(initial, m, fcv)
  BY ProcessShape DEF ContentShape, Processes
<1>2. BuiltContent(m, previous)
        = WithPrometheus(WithRoles(WithTLS(WithMongodConfig(initial, m), m), m), m)
  BY DEF BuiltContent
<1> HIDE DEF initial, fcv
<1>3. ContentShape(WithTLS(WithMongodConfig(initial, m), m), m, fcv)
  BY <1>1, WithMongodConfigShape, WithTLSShape
<1>4. ContentShape(WithPrometheus(WithRoles(WithTLS(WithMongodConfig(initial, m), m), m), m),
                   m, fcv)
  BY <1>3, WithRolesShape
<1>5. QED
  BY <1>2, <1>4 DEF fcv

\* The user's override changes neither members nor versions.
LEMMA MergeProcessesShape ==
  ASSUME NEW m, NEW fcv, NEW processes, NEW c,
         {"version", "content"} \subseteq DOMAIN c, ContentShape(c.content, m, fcv)
  PROVE  /\ MergeProcesses(c, processes).version = c.version
         /\ ContentShape(MergeProcesses(c, processes).content, m, fcv)
BY DEF MergeProcesses, ContentShape

\* What a reconciliation wants the Secret to be: a content of the right shape,
\* with the version of the Secret or the next one.
LEMMA DesiredConfig ==
  ASSUME NEW m, NEW previous, SoundResource(m),
         \/ previous = NoConfig
         \/ previous.version \in Nat \ {0}
  PROVE  LET desired == BuildAutomationConfig(m, previous)
         IN  /\ desired.version \in Nat \ {0}
             /\ ContentShape(desired.content, m, FeatureCompatibilityVersion(m, previous))
<1> DEFINE fcv   == FeatureCompatibilityVersion(m, previous)
           built == [version |-> previous.version, content |-> BuiltContent(m, previous)]
<1>1. ContentShape(built.content, m, fcv) /\ built.version = previous.version
  BY BuiltContentShape
<1>2. Build(m, previous) = IF AreEqual(previous, built) THEN built
                           ELSE [built EXCEPT !.version = @ + 1]
  BY DEF Build
<1>3. {"version", "content"} \subseteq DOMAIN Build(m, previous)
      /\ Build(m, previous).content = built.content
  BY <1>2
<1>4. Build(m, previous).version \in Nat \ {0}
  <2>1. CASE previous = NoConfig
    <3>1. previous.version = 0 /\ previous.content.processes = Nothing
      BY <2>1 DEF NoConfig
    <3>2. 1 \in DOMAIN built.content.processes
      BY <1>1 DEF ContentShape, Processes, SoundResource
    <3>3. ~AreEqual(previous, built)
      <4>1. previous.content # built.content
        BY <3>1, <3>2 DEF Nothing
      <4>2. QED
        BY <4>1 DEF AreEqual
    <3>4. QED
      BY <1>2, <3>1, <3>3
  <2>2. CASE previous.version \in Nat \ {0}
    BY <1>2, <2>2
  <2>3. QED
    BY <2>1, <2>2
<1> HIDE DEF fcv, built
<1>5. QED
  BY <1>1, <1>3, <1>4, MergeProcessesShape DEF BuildAutomationConfig, fcv

\* The compatibility version of a config.
FCVOf(c) == c.content.processes[1].fcv

\* A config is there with the members and versions of the resource it was
\* ensured for, or it is not there.
ConfigInvariant ==
  \/ config = NoConfig /\ configFrom = NoResource
  \/ /\ configFrom # NoResource /\ SoundResource(configFrom)
     /\ config.version \in Nat \ {0}
     /\ FCVOf(config) \in Nat
     /\ ContentShape(config.content, configFrom, FCVOf(config))

\* The compatibility version of the next config: the user's, the one that is
\* there, or that of mongod, whichever is the first not to be refused.
LEMMA NextFCV ==
  ASSUME ConfigInvariant, NEW m, SoundResource(m)
  PROVE  LET fcv == FeatureCompatibilityVersion(m, config)
         IN  /\ fcv \in Nat
             /\ m.fcv = NoFCV => /\ config # NoConfig => fcv <= FCVOf(config)
                                 /\ fcv <= m.version[1]
             /\ m.fcv # NoFCV => fcv = m.fcv
<1>1. CASE config = NoConfig
  <2>1. Len(config.content.processes) = 0
    BY <1>1 DEF NoConfig, Nothing
  <2>2. FeatureCompatibilityVersion(m, config) = IF m.fcv # NoFCV THEN m.fcv ELSE m.version[1]
    BY <2>1 DEF FeatureCompatibilityVersion, CalculateFeatureCompatibilityVersion
  <2>3. QED
    BY <1>1, <2>2 DEF SoundResource
<1>2. CASE config # NoConfig
  <2>1. FCVOf(config) \in Nat
    BY <1>2 DEF ConfigInvariant
  <2>2. FeatureCompatibilityVersion(m, config) \in {m.fcv, FCVOf(config), m.version[1]}
    BY DEF FeatureCompatibilityVersion, CalculateFeatureCompatibilityVersion, FCVOf
  <2>3. Len(config.content.processes) > 0
    BY <1>2 DEF ConfigInvariant, ContentShape, Processes, SoundResource
  <2>4. m.fcv = NoFCV =>
          FeatureCompatibilityVersion(m, config)
            = IF NewerThan(m.version, FCVOf(config)) THEN FCVOf(config) ELSE m.version[1]
    BY <2>3 DEF FeatureCompatibilityVersion, CalculateFeatureCompatibilityVersion, FCVOf
  <2>5. m.fcv # NoFCV => FeatureCompatibilityVersion(m, config) = m.fcv
    BY DEF FeatureCompatibilityVersion
  <2>6. QED
    BY <2>1, <2>2, <2>4, <2>5 DEF SoundResource, NewerThan
<1>3. QED
  BY <1>1, <1>2

\* What a reconciliation leaves in the Secret has the content it wants.
LEMMA EnsuredConfig ==
  ASSUME StatusOK, ConfigInvariant, EnsureAutomationConfig
  PROVE  /\ configFrom' = Resource /\ SoundResource(Resource) /\ Resource # NoResource
         /\ config'.version \in Nat \ {0}
         /\ config'.content = BuildAutomationConfig(Resource, config).content
         /\ FCVOf(config') = FeatureCompatibilityVersion(Resource, config)
         /\ ContentShape(config'.content, Resource, FeatureCompatibilityVersion(Resource, config))
<1> DEFINE desired == BuildAutomationConfig(Resource, config)
           fcv     == FeatureCompatibilityVersion(Resource, config)
<1>1. configFrom' = Resource /\ SoundResource(Resource) /\ Resource # NoResource
  BY ResourceIsSound DEF EnsureAutomationConfig
<1>2. config = NoConfig \/ config.version \in Nat \ {0}
  BY DEF ConfigInvariant
<1>3. desired.version \in Nat \ {0} /\ ContentShape(desired.content, Resource, fcv)
  BY <1>1, <1>2, DesiredConfig
<1>4. config' = EnsureSecret(config, desired)
  BY DEF EnsureAutomationConfig
<1> HIDE DEF desired, fcv
<1>5. config'.content = desired.content /\ config'.version \in Nat \ {0}
  <2>1. CASE config.version > 0 /\ AreEqual(desired, config)
    <3>1. config' = config
      BY <1>4, <2>1 DEF EnsureSecret
    <3>2. config # NoConfig
      <4>1. NoConfig.version = 0
        BY DEF NoConfig
      <4>2. config.version # 0
        BY <2>1
      <4>3. QED
        BY <4>1, <4>2
    <3>3. QED
      BY <1>2, <2>1, <3>1, <3>2 DEF AreEqual
  <2>2. CASE ~(config.version > 0 /\ AreEqual(desired, config))
    BY <1>3, <1>4, <2>2 DEF EnsureSecret
  <2>3. QED
    BY <2>1, <2>2
<1>6. FCVOf(config') = fcv
  <2>1. 1 \in 1 .. Processes(Resource)
    BY <1>1 DEF SoundResource, Processes
  <2>2. QED
    BY <1>3, <1>5, <2>1 DEF ContentShape, FCVOf
<1>7. QED
  BY <1>1, <1>3, <1>5, <1>6 DEF fcv, desired

\* The invariant of the config holds.
LEMMA ConfigInvariantHolds == Spec => []ConfigInvariant
<1>1. Init => ConfigInvariant
  BY DEF Init, ConfigInvariant
<1>2. StatusOK /\ ConfigInvariant /\ [Next]_vars => ConfigInvariant'
  <2> SUFFICES ASSUME StatusOK, ConfigInvariant, [Next]_vars PROVE ConfigInvariant'
    OBVIOUS
  <2>1. CASE EnsureAutomationConfig
    BY <2>1, EnsuredConfig, NextFCV DEF ConfigInvariant
  <2>2. CASE LoseSecret
    BY <2>2 DEF LoseSecret, ConfigInvariant
  <2>3. CASE UNCHANGED <<config, configFrom>>
    BY <2>3 DEF ConfigInvariant
  <2>4. QED
    BY <2>1, <2>2, <2>3 DEF Next, vars, CreateOrUpdateStatefulSet, UpdateStatus, EditSpec,
                            LoseStatefulSet
<1>3. QED
  BY <1>1, <1>2, StatusOKHolds, PTL DEF Spec

-----------------------------------------------------------------------------
(***************************************************************************)
(* Compatibility version.                                                  *)
(***************************************************************************)
\* As long as there is a config, only the user raises the compatibility
\* version, and one the operator chooses is never newer than mongod: for any
\* series of upgrades, downgrades, overrides and losses of the Secret.
THEOREM FCVTheorem == Spec => FCVFollowsUser
<1>1. StatusOK /\ ConfigInvariant /\ [Next]_vars
      => [config' # config /\ config'.version > 0 /\ spec.fcv = NoFCV =>
            LET FCV(c) == c.content.processes[1].fcv
            IN  /\ ConfigExists => FCV(config') <= FCV(config)
                /\ FCV(config') <= config'.content.processes[1].version[1]]_vars
  <2> SUFFICES ASSUME StatusOK, ConfigInvariant, [Next]_vars,
                      config' # config, config'.version > 0, spec.fcv = NoFCV
               PROVE  /\ ConfigExists => FCVOf(config') <= FCVOf(config)
                      /\ FCVOf(config') <= config'.content.processes[1].version[1]
    BY DEF FCVOf
  <2>1. EnsureAutomationConfig
    <3>1. ~LoseSecret
      <4>1. NoConfig.version = 0
        BY DEF NoConfig
      <4>2. QED
        BY <4>1 DEF LoseSecret
    <3>2. QED
      BY <3>1 DEF Next, vars, CreateOrUpdateStatefulSet, UpdateStatus, EditSpec, LoseStatefulSet
  <2>2. /\ SoundResource(Resource)
        /\ FCVOf(config') = FeatureCompatibilityVersion(Resource, config)
        /\ ContentShape(config'.content, Resource,
                        FeatureCompatibilityVersion(Resource, config))
    BY <2>1, EnsuredConfig
  <2>3. Resource.fcv = NoFCV
    BY DEF Resource
  <2>4. config'.content.processes[1].version = Resource.version
    <3>1. 1 \in 1 .. Processes(Resource)
      BY <2>2 DEF SoundResource, Processes
    <3>2. QED
      BY <2>2, <3>1 DEF ContentShape
  <2>5. ConfigExists => config # NoConfig
    <3>1. NoConfig.version = 0
      BY DEF NoConfig
    <3>2. QED
      BY <3>1 DEF ConfigExists
  <2>6. QED
    BY <2>2, <2>3, <2>4, <2>5, NextFCV
<1>2. QED
  BY <1>1, StatusOKHolds, ConfigInvariantHolds, PTL DEF Spec, FCVFollowsUser

-----------------------------------------------------------------------------
(***************************************************************************)
(* Ids of the members.                                                     *)
(***************************************************************************)
\* The data-bearing nodes stay below the index of the first arbiter.
FewMembers == \A s \in UserSpecs : s.members <= ArbitersStartingIndex

\* So do those that were reported and those of the config.
FewMembersInvariant ==
  /\ status.members <= ArbitersStartingIndex
  /\ configFrom # NoResource => configFrom.acMembers <= ArbitersStartingIndex

\* The options a user gives to a member change neither its id nor its name.
LEMMA MemberFields ==
  ASSUME NEW m, NEW i
  PROVE  /\ ReplicaSetMember(m, i).id = ReplicaSetIndex(m, i)
         /\ ReplicaSetMember(m, i).host = ToProcessName(m, i)
         /\ ReplicaSetMember(m, i).arbiterOnly = IsArbiter(m, i)
BY DEF ReplicaSetMember, NewReplicaSetMember

\* The name of a process determines its id.
LEMMA NameDeterminesId ==
  ASSUME NEW m, NEW n, SoundResource(m), SoundResource(n), NEW i \in Nat, NEW j \in Nat,
         ToProcessName(m, i) = ToProcessName(n, j)
  PROVE  ReplicaSetIndex(m, i) = ReplicaSetIndex(n, j)
<1>1. IsArbiter(m, i) = IsArbiter(n, j)
  <2>1. ToProcessName(m, i)[1] = IF IsArbiter(m, i) THEN "arb" ELSE "member"
    BY DEF ToProcessName
  <2>2. ToProcessName(n, j)[1] = IF IsArbiter(n, j) THEN "arb" ELSE "member"
    BY DEF ToProcessName
  <2>3. IsArbiter(m, i) \in BOOLEAN /\ IsArbiter(n, j) \in BOOLEAN
    BY DEF IsArbiter
  <2>4. QED
    BY <2>1, <2>2, <2>3
<1>2. ToProcessName(m, i)[2] = IF IsArbiter(m, i) THEN i - m.acMembers ELSE i
  BY DEF ToProcessName
<1>3. ToProcessName(n, j)[2] = IF IsArbiter(n, j) THEN j - n.acMembers ELSE j
  BY DEF ToProcessName
<1>4. QED
  BY <1>1, <1>2, <1>3 DEF ReplicaSetIndex, SoundResource

\* No two processes of a config have the same id.
LEMMA IdsDiffer ==
  ASSUME NEW m, SoundResource(m), m.acMembers <= ArbitersStartingIndex,
         NEW i \in Nat, NEW j \in Nat, ReplicaSetIndex(m, i) = ReplicaSetIndex(m, j)
  PROVE  i = j
BY IndexAssumption DEF ReplicaSetIndex, IsArbiter, SoundResource

\* The number of data-bearing nodes stays within the numbers of the specs.
LEMMA FewMembersHolds ==
  ASSUME FewMembers
  PROVE  Spec => []FewMembersInvariant
<1>1. Init => FewMembersInvariant
  BY IndexAssumption DEF Init, FewMembersInvariant
<1>2. StatusOK /\ FewMembersInvariant /\ [Next]_vars => FewMembersInvariant'
  <2> SUFFICES ASSUME StatusOK, FewMembersInvariant, [Next]_vars PROVE FewMembersInvariant'
    OBVIOUS
  <2>1. ASSUME ValidateSpec PROVE Resource.acMembers <= ArbitersStartingIndex
    <3>1. spec.members <= ArbitersStartingIndex
      BY DEF FewMembers, StatusOK
    <3>2. spec.members \in Nat /\ status.members \in Nat
      BY UserSpecsAssumption DEF StatusOK
    <3>3. QED
      BY <2>1, <3>1, <3>2, ResourceIsSound, IndexAssumption
         DEF FewMembersInvariant, SoundResource
  <2>2. CASE EnsureAutomationConfig
    BY <2>1, <2>2 DEF EnsureAutomationConfig, FewMembersInvariant
  <2>3. CASE UpdateStatus
    <3>1. status'.members = Resource.acMembers /\ configFrom' = configFrom
      BY <2>3 DEF UpdateStatus, Resource
    <3>2. QED
      BY <2>1, <2>3, <3>1 DEF UpdateStatus, FewMembersInvariant
  <2>4. CASE LoseSecret
    BY <2>4 DEF LoseSecret, FewMembersInvariant
  <2>5. CASE UNCHANGED <<status, configFrom>>
    BY <2>5 DEF FewMembersInvariant
  <2>6. QED
    BY <2>2, <2>3, <2>4, <2>5 DEF Next, vars, CreateOrUpdateStatefulSet, EditSpec,
                                  LoseStatefulSet
<1>3. QED
  BY <1>1, <1>2, StatusOKHolds, PTL DEF Spec

\* A process that stays in the replica set keeps its id through every change
\* of the config, whatever is scaled or overridden, and no id is used twice:
\* as long as no spec has more members than there are ids below those of the
\* arbiters.
THEOREM MemberIdsTheorem ==
  ASSUME FewMembers
  PROVE  Spec => MemberIdsKept
<1>1. ConfigInvariant /\ ConfigInvariant' /\ FewMembersInvariant'
      => LET old == config.content.members
             new == config'.content.members
         IN  /\ \A i \in DOMAIN old, j \in DOMAIN new :
                  old[i].host = new[j].host => old[i].id = new[j].id
             /\ \A i, j \in DOMAIN new : i # j => new[i].id # new[j].id
  <2> SUFFICES ASSUME ConfigInvariant, ConfigInvariant', FewMembersInvariant'
               PROVE  LET old == config.content.members
                          new == config'.content.members
                      IN  /\ \A i \in DOMAIN old, j \in DOMAIN new :
                               old[i].host = new[j].host => old[i].id = new[j].id
                          /\ \A i, j \in DOMAIN new : i # j => new[i].id # new[j].id
    OBVIOUS
  <2> DEFINE old == config.content.members
             new == config'.content.members
  <2>0. DOMAIN NoConfig.content.members = {}
    <3>1. NoConfig.content.members = Nothing
      BY DEF NoConfig
    <3>2. DOMAIN Nothing = {}
      BY DEF Nothing
    <3>3. QED
      BY <3>1, <3>2
  <2>1. DOMAIN old # {} =>
          /\ SoundResource(configFrom)
          /\ old = [i \in 1 .. Processes(configFrom) |-> ReplicaSetMember(configFrom, i - 1)]
    BY <2>0 DEF ConfigInvariant, ContentShape
  <2>2. DOMAIN new # {} =>
          /\ configFrom' # NoResource /\ SoundResource(configFrom')
          /\ new = [i \in 1 .. Processes(configFrom') |-> ReplicaSetMember(configFrom', i - 1)]
    BY <2>0 DEF ConfigInvariant, ContentShape
  <2> HIDE DEF old, new
  <2>3. ASSUME NEW i \in DOMAIN old, NEW j \in DOMAIN new, old[i].host = new[j].host
        PROVE  old[i].id = new[j].id
    <3>1. SoundResource(configFrom) /\ SoundResource(configFrom')
      BY <2>1, <2>2, <2>3
    <3>2. i - 1 \in Nat /\ j - 1 \in Nat
      <4>1. i \in 1 .. Processes(configFrom) /\ j \in 1 .. Processes(configFrom')
        BY <2>1, <2>2, <2>3
      <4>2. Processes(configFrom) \in Nat /\ Processes(configFrom') \in Nat
        BY <3>1, ProcessesCount
      <4>3. QED
        BY <4>1, <4>2
    <3>3. /\ old[i] = ReplicaSetMember(configFrom, i - 1)
          /\ new[j] = ReplicaSetMember(configFrom', j - 1)
      BY <2>1, <2>2, <2>3
    <3>4. ToProcessName(configFrom, i - 1) = ToProcessName(configFrom', j - 1)
      BY <2>3, <3>3, MemberFields
    <3>5. ReplicaSetIndex(configFrom, i - 1) = ReplicaSetIndex(configFrom', j - 1)
      BY <3>1, <3>2, <3>4, NameDeterminesId
    <3>6. QED
      BY <3>3, <3>5, MemberFields
  <2>4. ASSUME NEW i \in DOMAIN new, NEW j \in DOMAIN new, new[i].id = new[j].id
        PROVE  i = j
    <3>1. SoundResource(configFrom') /\ configFrom'.acMembers <= ArbitersStartingIndex
      BY <2>2, <2>4 DEF FewMembersInvariant
    <3>2. i \in Nat /\ j \in Nat /\ i - 1 \in Nat /\ j - 1 \in Nat
      <4>1. i \in 1 .. Processes(configFrom') /\ j \in 1 .. Processes(configFrom')
        BY <2>2, <2>4
      <4>2. Processes(configFrom') \in Nat
        BY <3>1, ProcessesCount
      <4>3. QED
        BY <4>1, <4>2
    <3>3. ReplicaSetIndex(configFrom', i - 1) = ReplicaSetIndex(configFrom', j - 1)
      BY <2>2, <2>4, MemberFields
    <3>4. i - 1 = j - 1
      BY <3>1, <3>2, <3>3, IdsDiffer
    <3>5. QED
      BY <3>2, <3>4
  <2>5. QED
    BY <2>3, <2>4 DEF old, new
<1>2. QED
  BY <1>1, ConfigInvariantHolds, FewMembersHolds, PTL DEF Spec, MemberIdsKept

-----------------------------------------------------------------------------
(***************************************************************************)
(* Votes.                                                                  *)
(***************************************************************************)
\* Without options of the user, the arbiters and the first members vote.
LEMMA MemberVotes ==
  ASSUME NEW m, m.memberConfig = Nothing, NEW i \in Nat
  PROVE  /\ ReplicaSetMember(m, i).votes = IF IsVotingMember(m, i) THEN 1 ELSE 0
         /\ ReplicaSetMember(m, i).priority = IF IsVotingMember(m, i) THEN 1 ELSE 0
<1>1. Len(m.memberConfig) = 0
  BY DEF Nothing
<1>2. ~(i < Len(m.memberConfig))
  BY <1>1
<1>3. ReplicaSetMember(m, i) = NewReplicaSetMember(m, i)
  BY <1>2, Zenon DEF ReplicaSetMember
<1>4. /\ NewReplicaSetMember(m, i).votes = IF IsVotingMember(m, i) THEN 1 ELSE 0
      /\ NewReplicaSetMember(m, i).priority = IF IsVotingMember(m, i) THEN 1 ELSE 0
  BY Zenon DEF NewReplicaSetMember
<1>5. QED
  BY <1>3, <1>4, Zenon

\* Unless the user sets votes, members and arbiters together stay within the
\* limit of votes, every arbiter votes, and so does a member that can become
\* primary: for any number of members, any limit, and while either is scaled.
THEOREM VotesTheorem == Spec => []VotesWithinLimit
<1>1. ConfigInvariant => VotesWithinLimit
  <2> SUFFICES ASSUME ConfigInvariant, ConfigExists, configFrom # NoResource,
                      configFrom.memberConfig = Nothing,
                      configFrom.acArbiters < MaxVotingMembers
               PROVE  LET members == config.content.members
                          voters  == {i \in DOMAIN members : members[i].votes = 1}
                      IN  /\ Cardinality(voters) <= MaxVotingMembers
                          /\ \A i \in DOMAIN members : members[i].arbiterOnly => i \in voters
                          /\ \E i \in voters : ~members[i].arbiterOnly /\ members[i].priority > 0
    BY DEF VotesWithinLimit
  <2> DEFINE members == config.content.members
             voters  == {i \in DOMAIN members : members[i].votes = 1}
             data    == configFrom.acMembers
             arbs    == configFrom.acArbiters
  <2>0. arbs < MaxVotingMembers
    OBVIOUS
  <2>1. /\ SoundResource(configFrom)
        /\ members = [i \in 1 .. data + arbs |-> ReplicaSetMember(configFrom, i - 1)]
    BY DEF ConfigInvariant, ContentShape, Processes
  <2>2. data \in Nat \ {0} /\ arbs \in Nat /\ MaxVotingMembers \in Nat \ {0}
    BY <2>1, VotingAssumption DEF SoundResource
  <2>3. DOMAIN members = 1 .. data + arbs
    BY <2>1
  <2>4. ASSUME NEW i \in 1 .. data + arbs
        PROVE  /\ members[i].votes = 1 <=> (i > data \/ i <= MaxVotingMembers - arbs)
               /\ members[i].priority = members[i].votes
               /\ members[i].arbiterOnly <=> i > data
    <3>1. i - 1 \in Nat /\ members[i] = ReplicaSetMember(configFrom, i - 1)
      BY <2>1, <2>2
    <3>2. IsVotingMember(configFrom, i - 1) <=> (i > data \/ i <= MaxVotingMembers - arbs)
      BY <2>2 DEF IsVotingMember, IsArbiter
    <3>3. IsArbiter(configFrom, i - 1) <=> i > data
      BY <2>2 DEF IsArbiter
    <3>4. QED
      BY <3>1, <3>2, <3>3, MemberVotes, MemberFields
  <2> HIDE DEF members, data, arbs
  <2>5. Cardinality(voters) <= MaxVotingMembers
    <3> DEFINE first == 1 .. MaxVotingMembers - arbs
               last  == data + 1 .. data + arbs
    <3>1. voters \subseteq first \cup last
      BY <2>2, <2>3, <2>4
    <3>2. /\ IsFiniteSet(first) /\ Cardinality(first) = MaxVotingMembers - arbs
          /\ IsFiniteSet(last) /\ Cardinality(last) = arbs
      <4>1. MaxVotingMembers - arbs \in Int /\ 1 <= MaxVotingMembers - arbs
        BY <2>0, <2>2
      <4>2. IsFiniteSet(first) /\ Cardinality(first) = MaxVotingMembers - arbs
        BY <4>1, FS_Interval
      <4>3. data + 1 \in Int /\ data + arbs \in Int
        BY <2>2
      <4>4. /\ IsFiniteSet(last)
            /\ Cardinality(last) = IF data + 1 > data + arbs THEN 0
                                   ELSE (data + arbs) - (data + 1) + 1
        BY <4>3, FS_Interval
      <4>5. Cardinality(last) = arbs
        BY <2>2, <4>4
      <4>6. QED
        BY <4>2, <4>4, <4>5
    <3> HIDE DEF first, last, voters
    <3>3. /\ IsFiniteSet(first \cup last)
          /\ Cardinality(first \cup last)
               = Cardinality(first) + Cardinality(last) - Cardinality(first \cap last)
          /\ Cardinality(first \cap last) \in Nat
      BY <3>2, FS_Union, FS_Intersection, FS_CardinalityType
    <3>4. Cardinality(voters) <= Cardinality(first \cup last) /\ Cardinality(voters) \in Nat
      BY <3>1, <3>3, FS_Subset, FS_CardinalityType
    <3>5. QED
      BY <2>2, <3>2, <3>3, <3>4
  <2>6. \A i \in DOMAIN members : members[i].arbiterOnly => i \in voters
    BY <2>3, <2>4
  <2>7. 1 \in voters /\ ~members[1].arbiterOnly /\ members[1].priority > 0
    <3>1. 1 \in 1 .. data + arbs /\ ~(1 > data) /\ 1 <= MaxVotingMembers - arbs
      BY <2>0, <2>2
    <3>2. members[1].votes = 1 /\ members[1].priority = 1 /\ ~members[1].arbiterOnly
      BY <2>4, <3>1
    <3>3. 1 \in voters
      BY <2>3, <3>1, <3>2
    <3>4. QED
      BY <3>2, <3>3
  <2>8. QED
    BY <2>5, <2>6, <2>7 DEF members
<1>2. QED
  BY <1>1, ConfigInvariantHolds, PTL

-----------------------------------------------------------------------------
(***************************************************************************)
(* Merging.                                                                *)
(***************************************************************************)
\* A list with a single entry.
LEMMA NamedEntry ==
  ASSUME NEW name, NEW entry
  PROVE  DOMAIN Named(name, entry) = {name} /\ Named(name, entry)[name] = entry
BY DEF Named

\* A merged volume has the source of the second, and its fields where the
\* second sets them.
LEMMA MergedVolume ==
  ASSUME NEW a, NEW b, {"source", "fields"} \subseteq DOMAIN a,
         {"source", "fields"} \subseteq DOMAIN b
  PROVE  /\ {"source", "fields"} \subseteq DOMAIN Volume(a, b)
         /\ Volume(a, b).source = b.source
         /\ \A k \in DOMAIN b.fields : Volume(a, b).fields[k] = b.fields[k]
<1> DEFINE merged == StringToStringMap(a.fields, b.fields)
<1>1. \A k \in DOMAIN b.fields : merged[k] = b.fields[k]
  BY DEF StringToStringMap
<1>2. \/ /\ a.source = b.source
         /\ Volume(a, b) = [a EXCEPT !.fields = merged]
      \/ Volume(a, b) = b
  BY DEF Volume
<1> HIDE DEF merged
<1>3. CASE Volume(a, b) = b
  BY <1>3
<1>4. CASE a.source = b.source /\ Volume(a, b) = [a EXCEPT !.fields = merged]
  BY <1>1, <1>4
<1>5. QED
  BY <1>2, <1>3, <1>4

-----------------------------------------------------------------------------
(***************************************************************************)
(* The pod template.                                                       *)
(***************************************************************************)
\* The volumes and the claims a StatefulSet always has.
OperatorVolumes ==
  {"healthstatus", "hooks", "tmp", "keyfile", "agent-scripts", "automation-config"}
OperatorClaims == {"data-volume", "logs-volume"}
OperatorContainers == {AgentName, MongodbName}
OperatorInit == {HookName, ProbeName}

\* A pod template, with volumes that have a source.
TemplateShape(t) ==
  /\ {"settings", "labels", "volumes", "containers", "initContainers", "hostAliases", "topology"}
       \subseteq DOMAIN t
  /\ \A v \in DOMAIN t.volumes : {"source", "fields"} \subseteq DOMAIN t.volumes[v]

\* One that has the operator's containers and volumes.
OperatorShape(t) ==
  /\ TemplateShape(t)
  /\ OperatorVolumes \subseteq DOMAIN t.volumes
  /\ OperatorContainers \subseteq DOMAIN t.containers
  /\ \A c \in OperatorContainers :
       {"settings", "resources", "securityContext", "mounts"} \subseteq DOMAIN t.containers[c]

\* u differs from t in further volumes, and in the mounts of the operator's
\* containers.
SameButMounts(u, t) ==
  /\ u.settings = t.settings /\ u.labels = t.labels /\ u.initContainers = t.initContainers
  /\ \A v \in OperatorVolumes : u.volumes[v] = t.volumes[v]
  /\ DOMAIN u.containers = DOMAIN t.containers
  /\ \A c \in DOMAIN t.containers \ OperatorContainers : u.containers[c] = t.containers[c]
  /\ \A c \in OperatorContainers :
       /\ u.containers[c].settings = t.containers[c].settings
       /\ u.containers[c].resources = t.containers[c].resources
       /\ u.containers[c].securityContext = t.containers[c].securityContext

\* The mounts of a container.
MountsOf(t, c) == DOMAIN t.containers[c].mounts

\* Mounts are added to one of the operator's containers.
LEMMA WithVolumeMountsEffect ==
  ASSUME NEW t, OperatorShape(t), NEW name \in OperatorContainers, NEW mounts
  PROVE  LET u == WithVolumeMounts(t, name, mounts)
         IN  /\ OperatorShape(u) /\ SameButMounts(u, t) /\ u.volumes = t.volumes
             /\ MountsOf(u, name) = MountsOf(t, name) \cup DOMAIN mounts
             /\ \A c \in OperatorContainers \ {name} : MountsOf(u, c) = MountsOf(t, c)
<1> DEFINE u == WithVolumeMounts(t, name, mounts)
<1>1. DOMAIN u = DOMAIN t
  BY DEF WithVolumeMounts
<1>2. /\ u.settings = t.settings /\ u.labels = t.labels /\ u.initContainers = t.initContainers
      /\ u.volumes = t.volumes
  BY DEF WithVolumeMounts, OperatorShape, TemplateShape
<1>3. u.containers = [t.containers EXCEPT ![name].mounts = StringToStringMap(@, mounts)]
  BY DEF WithVolumeMounts, OperatorShape, TemplateShape
<1>4. /\ DOMAIN u.containers = DOMAIN t.containers
      /\ \A c \in DOMAIN t.containers \ {name} : u.containers[c] = t.containers[c]
      /\ name \in DOMAIN t.containers
      /\ u.containers[name] = [t.containers[name] EXCEPT !.mounts = StringToStringMap(@, mounts)]
  BY <1>3 DEF OperatorShape
<1>5. /\ DOMAIN u.containers[name] = DOMAIN t.containers[name]
      /\ u.containers[name].settings = t.containers[name].settings
      /\ u.containers[name].resources = t.containers[name].resources
      /\ u.containers[name].securityContext = t.containers[name].securityContext
      /\ u.containers[name].mounts = StringToStringMap(t.containers[name].mounts, mounts)
  BY <1>4 DEF OperatorShape
<1> HIDE DEF u
<1>6. OperatorShape(u)
  BY <1>1, <1>2, <1>4, <1>5 DEF OperatorShape, TemplateShape
<1>7. SameButMounts(u, t)
  BY <1>2, <1>4, <1>5 DEF SameButMounts, OperatorShape
<1>8. /\ MountsOf(u, name) = MountsOf(t, name) \cup DOMAIN mounts
      /\ \A c \in OperatorContainers \ {name} : MountsOf(u, c) = MountsOf(t, c)
  <2>1. MountsOf(u, name) = MountsOf(t, name) \cup DOMAIN mounts
    BY <1>5 DEF MountsOf, StringToStringMap
  <2>2. \A c \in OperatorContainers \ {name} : MountsOf(u, c) = MountsOf(t, c)
    BY <1>4 DEF MountsOf, OperatorShape
  <2>3. QED
    BY <2>1, <2>2
<1>9. QED
  BY <1>2, <1>6, <1>7, <1>8 DEF u

\* A volume that is not one of those every StatefulSet has is added.
LEMMA WithVolumeEffect ==
  ASSUME NEW t, OperatorShape(t), NEW name, name \notin OperatorVolumes,
         NEW volume, {"source", "fields"} \subseteq DOMAIN volume
  PROVE  LET u == WithVolume(t, name, volume)
         IN  /\ OperatorShape(u) /\ SameButMounts(u, t) /\ u.containers = t.containers
             /\ DOMAIN u.volumes = DOMAIN t.volumes \cup {name}
<1> DEFINE u == WithVolume(t, name, volume)
<1>1. DOMAIN u = DOMAIN t
  BY DEF WithVolume, WithVolumes
<1>2. /\ u.settings = t.settings /\ u.labels = t.labels /\ u.initContainers = t.initContainers
      /\ u.containers = t.containers /\ u.volumes = Volumes(t.volumes, Named(name, volume))
  BY DEF WithVolume, WithVolumes, OperatorShape, TemplateShape
<1> HIDE DEF u
<1> DEFINE old   == t.volumes
           added == Named(name, volume)
<1>a. DOMAIN added = {name} /\ added[name] = volume
  BY NamedEntry
<1> HIDE DEF added, old
<1>b. /\ DOMAIN Volumes(old, added) = DOMAIN old \cup DOMAIN added
      /\ \A k \in DOMAIN added \ DOMAIN old : Volumes(old, added)[k] = added[k]
      /\ \A k \in DOMAIN old \ DOMAIN added : Volumes(old, added)[k] = old[k]
      /\ \A k \in DOMAIN old \cap DOMAIN added :
           Volumes(old, added)[k] = Volume(old[k], added[k])
  BY DEF Volumes, MergeByName
<1>c. u.volumes = Volumes(old, added)
  BY <1>2 DEF added, old
<1>3. DOMAIN u.volumes = DOMAIN t.volumes \cup {name}
  BY <1>a, <1>b, <1>c DEF old
<1>4. \A v \in DOMAIN t.volumes \ {name} : u.volumes[v] = t.volumes[v]
  BY <1>a, <1>b, <1>c DEF old
<1>5. \/ u.volumes[name] = volume
      \/ name \in DOMAIN t.volumes /\ u.volumes[name] = Volume(t.volumes[name], volume)
  BY <1>a, <1>b, <1>c DEF old
<1>6. \A v \in DOMAIN u.volumes : {"source", "fields"} \subseteq DOMAIN u.volumes[v]
  <2>1. {"source", "fields"} \subseteq DOMAIN u.volumes[name]
    <3>1. CASE u.volumes[name] = volume
      BY <3>1
    <3>2. CASE name \in DOMAIN t.volumes /\ u.volumes[name] = Volume(t.volumes[name], volume)
      <4>1. {"source", "fields"} \subseteq DOMAIN t.volumes[name]
        BY <3>2 DEF OperatorShape, TemplateShape
      <4>2. QED
        BY <3>2, <4>1, MergedVolume
    <3>3. QED
      BY <1>5, <3>1, <3>2
  <2>2. QED
    BY <1>3, <1>4, <2>1 DEF OperatorShape, TemplateShape
<1>7. OperatorShape(u)
  BY <1>1, <1>2, <1>3, <1>6 DEF OperatorShape, TemplateShape
<1>8. SameButMounts(u, t)
  BY <1>2, <1>4 DEF SameButMounts, OperatorShape
<1>9. QED
  BY <1>2, <1>3, <1>7, <1>8 DEF u

\* The same difference twice.
LEMMA SameButMountsTransitive ==
  ASSUME NEW t, NEW u, NEW v, SameButMounts(u, t), SameButMounts(v, u),
         OperatorShape(t), OperatorShape(u)
  PROVE  SameButMounts(v, t)
<1>1. DOMAIN v.containers = DOMAIN t.containers
  BY DEF SameButMounts
<1>2. \A c \in DOMAIN t.containers \ OperatorContainers : v.containers[c] = t.containers[c]
  BY DEF SameButMounts
<1>3. \A w \in OperatorVolumes : v.volumes[w] = t.volumes[w]
  BY DEF SameButMounts
<1>4. v.settings = t.settings /\ v.labels = t.labels /\ v.initContainers = t.initContainers
  BY DEF SameButMounts
<1>5. \A c \in OperatorContainers :
        /\ v.containers[c].settings = t.containers[c].settings
        /\ v.containers[c].resources = t.containers[c].resources
        /\ v.containers[c].securityContext = t.containers[c].securityContext
  BY DEF SameButMounts
<1>6. QED
  BY <1>1, <1>2, <1>3, <1>4, <1>5 DEF SameButMounts

\* Agent and mongod are given the same mounts.
LEMMA MountBoth ==
  ASSUME NEW t, OperatorShape(t), NEW mounts
  PROVE  LET u == WithVolumeMounts(WithVolumeMounts(t, AgentName, mounts), MongodbName, mounts)
         IN  /\ OperatorShape(u) /\ SameButMounts(u, t) /\ u.volumes = t.volumes
             /\ \A c \in OperatorContainers : MountsOf(u, c) = MountsOf(t, c) \cup DOMAIN mounts
<1> DEFINE a == WithVolumeMounts(t, AgentName, mounts)
           u == WithVolumeMounts(a, MongodbName, mounts)
<1>0. AgentName \in OperatorContainers /\ MongodbName \in OperatorContainers
      /\ AgentName # MongodbName /\ OperatorContainers = {AgentName, MongodbName}
  BY DEF OperatorContainers, AgentName, MongodbName
<1>1. /\ OperatorShape(a) /\ SameButMounts(a, t) /\ a.volumes = t.volumes
      /\ MountsOf(a, AgentName) = MountsOf(t, AgentName) \cup DOMAIN mounts
      /\ MountsOf(a, MongodbName) = MountsOf(t, MongodbName)
  BY <1>0, WithVolumeMountsEffect
<1> HIDE DEF a
<1>2. /\ OperatorShape(u) /\ SameButMounts(u, a) /\ u.volumes = a.volumes
      /\ MountsOf(u, MongodbName) = MountsOf(a, MongodbName) \cup DOMAIN mounts
      /\ MountsOf(u, AgentName) = MountsOf(a, AgentName)
  BY <1>0, <1>1, WithVolumeMountsEffect
<1> HIDE DEF u
<1>3. SameButMounts(u, t)
  BY <1>1, <1>2, SameButMountsTransitive
<1>4. QED
  BY <1>0, <1>1, <1>2, <1>3 DEF a, u

\* Where the certificates are mounted.
TLSVolumes(m) == IF m.tls THEN {"tls-ca", "tls-secret"} ELSE {}
TLSMounts(m) ==
  IF m.tls THEN {<<"tls-ca", "/tls/ca">>, <<"tls-secret", "/tls/server">>} ELSE {}
PrometheusVolumes(m) == IF m.prometheus = "https" THEN {"prom-tls-secret"} ELSE {}
PrometheusMounts(m) ==
  IF m.prometheus = "https" THEN {<<"prom-tls-secret", "/tls/prometheus">>} ELSE {}
AgentMount == <<AgentPemFile, "/agent-certs">>

\* The volume of a Secret has a source and fields.
LEMMA FromSecretShape ==
  ASSUME NEW secret
  PROVE  /\ {"source", "fields"} \subseteq DOMAIN FromSecret(secret)
         /\ FromSecret(secret).source = "secret"
         /\ FromSecret(secret).fields.secretName = secret
         /\ "secretName" \in DOMAIN FromSecret(secret).fields
BY DEF FromSecret

\* The server's certificates.
LEMMA BuildTLSPodSpecEffect ==
  ASSUME NEW t, OperatorShape(t), NEW m
  PROVE  LET u == BuildTLSPodSpec(t, m)
         IN  /\ OperatorShape(u) /\ SameButMounts(u, t)
             /\ DOMAIN u.volumes = DOMAIN t.volumes \cup TLSVolumes(m)
             /\ \A c \in OperatorContainers : MountsOf(u, c) = MountsOf(t, c) \cup TLSMounts(m)
<1>1. CASE ~m.tls
  <2>1. BuildTLSPodSpec(t, m) = t /\ TLSVolumes(m) = {} /\ TLSMounts(m) = {}
    BY <1>1 DEF BuildTLSPodSpec, TLSVolumes, TLSMounts
  <2>2. SameButMounts(t, t)
    BY DEF SameButMounts
  <2>3. QED
    BY <2>1, <2>2
<1>2. CASE m.tls
  <2> DEFINE mounts == StringToStringMap(Mount("tls-ca", "/tls/ca", TRUE),
                                         Mount("tls-secret", "/tls/server", TRUE))
             a == WithVolume(t, "tls-ca", FromSecret("ca"))
             b == WithVolume(a, "tls-secret", FromSecret("server"))
             u == WithVolumeMounts(WithVolumeMounts(b, AgentName, mounts), MongodbName, mounts)
  <2>1. BuildTLSPodSpec(t, m) = u
    BY <1>2 DEF BuildTLSPodSpec
  <2>2. DOMAIN mounts = TLSMounts(m)
    BY <1>2 DEF StringToStringMap, Mount, Named, TLSMounts
  <2>3. "tls-ca" \notin OperatorVolumes /\ "tls-secret" \notin OperatorVolumes
    BY DEF OperatorVolumes
  <2>4. /\ OperatorShape(a) /\ SameButMounts(a, t) /\ a.containers = t.containers
        /\ DOMAIN a.volumes = DOMAIN t.volumes \cup {"tls-ca"}
    BY <2>3, FromSecretShape, WithVolumeEffect
  <2> HIDE DEF a, mounts
  <2>5. /\ OperatorShape(b) /\ SameButMounts(b, a) /\ b.containers = a.containers
        /\ DOMAIN b.volumes = DOMAIN a.volumes \cup {"tls-secret"}
    BY <2>3, <2>4, FromSecretShape, WithVolumeEffect
  <2> HIDE DEF b
  <2>6. /\ OperatorShape(u) /\ SameButMounts(u, b) /\ u.volumes = b.volumes
        /\ \A c \in OperatorContainers : MountsOf(u, c) = MountsOf(b, c) \cup DOMAIN mounts
    BY <2>5, MountBoth
  <2> HIDE DEF u
  <2>7. SameButMounts(u, t)
    <3>1. SameButMounts(b, t)
      BY <2>4, <2>5, SameButMountsTransitive
    <3>2. QED
      BY <2>5, <2>6, <3>1, SameButMountsTransitive
  <2>8. DOMAIN u.volumes = DOMAIN t.volumes \cup TLSVolumes(m)
    BY <1>2, <2>4, <2>5, <2>6 DEF TLSVolumes
  <2>9. \A c \in OperatorContainers : MountsOf(u, c) = MountsOf(t, c) \cup TLSMounts(m)
    BY <2>2, <2>4, <2>5, <2>6 DEF MountsOf
  <2>10. QED
    BY <2>1, <2>6, <2>7, <2>8, <2>9
<1>3. QED
  BY <1>1, <1>2

\* The certificate of the Prometheus endpoint.
LEMMA BuildTLSPrometheusEffect ==
  ASSUME NEW t, OperatorShape(t), NEW m
  PROVE  LET u == BuildTLSPrometheus(t, m)
         IN  /\ OperatorShape(u) /\ SameButMounts(u, t)
             /\ DOMAIN u.volumes = DOMAIN t.volumes \cup PrometheusVolumes(m)
             /\ \A c \in OperatorContainers :
                  MountsOf(u, c) = MountsOf(t, c) \cup PrometheusMounts(m)
<1>1. CASE m.prometheus # "https"
  <2>1. /\ BuildTLSPrometheus(t, m) = t
        /\ PrometheusVolumes(m) = {} /\ PrometheusMounts(m) = {}
    BY <1>1 DEF BuildTLSPrometheus, PrometheusVolumes, PrometheusMounts
  <2>2. SameButMounts(t, t)
    BY DEF SameButMounts
  <2>3. QED
    BY <2>1, <2>2
<1>2. CASE m.prometheus = "https"
  <2> DEFINE mounts == Mount("prom-tls-secret", "/tls/prometheus", TRUE)
             b == WithVolume(t, "prom-tls-secret", FromSecret("prometheus"))
             u == WithVolumeMounts(WithVolumeMounts(b, AgentName, mounts), MongodbName, mounts)
  <2>1. BuildTLSPrometheus(t, m) = u
    BY <1>2 DEF BuildTLSPrometheus
  <2>2. DOMAIN mounts = PrometheusMounts(m)
    BY <1>2 DEF Mount, Named, PrometheusMounts
  <2>3. "prom-tls-secret" \notin OperatorVolumes
    BY DEF OperatorVolumes
  <2> HIDE DEF mounts
  <2>5. /\ OperatorShape(b) /\ SameButMounts(b, t) /\ b.containers = t.containers
        /\ DOMAIN b.volumes = DOMAIN t.volumes \cup {"prom-tls-secret"}
    BY <2>3, FromSecretShape, WithVolumeEffect
  <2> HIDE DEF b
  <2>6. /\ OperatorShape(u) /\ SameButMounts(u, b) /\ u.volumes = b.volumes
        /\ \A c \in OperatorContainers : MountsOf(u, c) = MountsOf(b, c) \cup DOMAIN mounts
    BY <2>5, MountBoth
  <2> HIDE DEF u
  <2>7. SameButMounts(u, t)
    BY <2>5, <2>6, SameButMountsTransitive
  <2>8. DOMAIN u.volumes = DOMAIN t.volumes \cup PrometheusVolumes(m)
    BY <1>2, <2>5, <2>6 DEF PrometheusVolumes
  <2>9. \A c \in OperatorContainers : MountsOf(u, c) = MountsOf(t, c) \cup PrometheusMounts(m)
    BY <2>2, <2>5, <2>6 DEF MountsOf
  <2>10. QED
    BY <2>1, <2>6, <2>7, <2>8, <2>9
<1>3. QED
  BY <1>1, <1>2

\* The volume of the agent's certificate is taken away.
LEMMA RemoveVolumeEffect ==
  ASSUME NEW t, OperatorShape(t), NEW name, name \notin OperatorVolumes
  PROVE  LET u == RemoveVolume(t, name)
         IN  /\ OperatorShape(u) /\ SameButMounts(u, t) /\ u.containers = t.containers
             /\ DOMAIN u.volumes = DOMAIN t.volumes \ {name}
<1> DEFINE u == RemoveVolume(t, name)
<1>1. DOMAIN u = DOMAIN t
  BY DEF RemoveVolume
<1>2. /\ u.settings = t.settings /\ u.labels = t.labels /\ u.initContainers = t.initContainers
      /\ u.containers = t.containers
      /\ u.volumes = [n \in DOMAIN t.volumes \ {name} |-> t.volumes[n]]
  BY DEF RemoveVolume, OperatorShape, TemplateShape
<1> HIDE DEF u
<1>3. DOMAIN u.volumes = DOMAIN t.volumes \ {name}
  BY <1>2
<1>4. \A v \in DOMAIN t.volumes \ {name} : u.volumes[v] = t.volumes[v]
  BY <1>2
<1>5. OperatorShape(u)
  BY <1>1, <1>2, <1>3, <1>4 DEF OperatorShape, TemplateShape
<1>6. SameButMounts(u, t)
  BY <1>2, <1>4 DEF SameButMounts, OperatorShape
<1>7. QED
  BY <1>2, <1>3, <1>5, <1>6 DEF u

\* One mount of a volume is taken away; if it is the only one, none is left.
LEMMA RemoveVolumeMountEffect ==
  ASSUME NEW t, OperatorShape(t), NEW name \in OperatorContainers, NEW volume
  PROVE  LET u == RemoveVolumeMount(t, name, volume)
         IN  /\ OperatorShape(u) /\ SameButMounts(u, t) /\ u.volumes = t.volumes
             /\ (\A k, l \in MountsOf(t, name) : k[1] = volume /\ l[1] = volume => k = l)
                => MountsOf(u, name) = {k \in MountsOf(t, name) : k[1] # volume}
             /\ \A c \in OperatorContainers \ {name} : MountsOf(u, c) = MountsOf(t, c)
<1> DEFINE u      == RemoveVolumeMount(t, name, volume)
           mounts == t.containers[name].mounts
           found  == {k \in DOMAIN mounts : k[1] = volume}
           last   == CHOOSE k \in found : TRUE
           rest   == [k \in DOMAIN mounts \ {last} |-> mounts[k]]
<1>1. CASE found = {}
  <2>1. u = t
    BY <1>1 DEF RemoveVolumeMount
  <2>2. SameButMounts(t, t)
    BY DEF SameButMounts
  <2>3. MountsOf(t, name) = {k \in MountsOf(t, name) : k[1] # volume}
    BY <1>1 DEF MountsOf
  <2> HIDE DEF u
  <2>4. QED
    BY <2>1, <2>2, <2>3 DEF u
<1>2. CASE found # {}
  <2>1. last \in found
    BY <1>2
  <2>3. ASSUME \A k, l \in MountsOf(t, name) : k[1] = volume /\ l[1] = volume => k = l
        PROVE  DOMAIN rest = {k \in DOMAIN mounts : k[1] # volume}
    <3>0. \A k, l \in found : k = l
      BY <2>3 DEF MountsOf
    <3>1. \A k \in DOMAIN mounts : k = last <=> k[1] = volume
      BY <2>1, <3>0
    <3> HIDE DEF last
    <3>2. DOMAIN rest = DOMAIN mounts \ {last}
      OBVIOUS
    <3> HIDE DEF rest, mounts
    <3>3. QED
      BY <3>1, <3>2
  <2>4. u = [t EXCEPT !.containers[name].mounts = rest]
    BY <1>2 DEF RemoveVolumeMount
  <2> HIDE DEF u, rest, last, found, mounts
  <2>5. DOMAIN u = DOMAIN t
    BY <2>4
  <2>6. /\ u.settings = t.settings /\ u.labels = t.labels /\ u.initContainers = t.initContainers
        /\ u.volumes = t.volumes /\ u.containers = [t.containers EXCEPT ![name].mounts = rest]
    BY <2>4 DEF OperatorShape, TemplateShape
  <2>7. /\ DOMAIN u.containers = DOMAIN t.containers
        /\ \A c \in DOMAIN t.containers \ {name} : u.containers[c] = t.containers[c]
        /\ name \in DOMAIN t.containers
        /\ u.containers[name] = [t.containers[name] EXCEPT !.mounts = rest]
    BY <2>6 DEF OperatorShape
  <2>8. /\ DOMAIN u.containers[name] = DOMAIN t.containers[name]
        /\ u.containers[name].settings = t.containers[name].settings
        /\ u.containers[name].resources = t.containers[name].resources
        /\ u.containers[name].securityContext = t.containers[name].securityContext
        /\ u.containers[name].mounts = rest
    BY <2>7 DEF OperatorShape
  <2>9. OperatorShape(u)
    BY <2>5, <2>6, <2>7, <2>8 DEF OperatorShape, TemplateShape
  <2>10. SameButMounts(u, t)
    BY <2>6, <2>7, <2>8 DEF SameButMounts, OperatorShape
  <2>11. ASSUME \A k, l \in MountsOf(t, name) : k[1] = volume /\ l[1] = volume => k = l
         PROVE  MountsOf(u, name) = {k \in MountsOf(t, name) : k[1] # volume}
    BY <2>3, <2>8, <2>11 DEF MountsOf, mounts
  <2>12. \A c \in OperatorContainers \ {name} : MountsOf(u, c) = MountsOf(t, c)
    BY <2>7 DEF MountsOf, OperatorShape
  <2>13. QED
    BY <2>6, <2>9, <2>10, <2>11, <2>12 DEF u
<1>3. QED
  BY <1>1, <1>2

\* The agent's certificate is there when the agents authenticate with it, and
\* nothing is left of it otherwise.
LEMMA BuildAgentX509Effect ==
  ASSUME NEW t, OperatorShape(t), NEW m
  PROVE  LET u == BuildAgentX509(t, m)
         IN  /\ OperatorShape(u) /\ SameButMounts(u, t)
             /\ MountsOf(u, MongodbName) = MountsOf(t, MongodbName)
             /\ m.x509 => /\ DOMAIN u.volumes = DOMAIN t.volumes \cup {AgentPemFile}
                          /\ MountsOf(u, AgentName) = MountsOf(t, AgentName) \cup {AgentMount}
             /\ ~m.x509 => DOMAIN u.volumes = DOMAIN t.volumes \ {AgentPemFile}
             /\ ~m.x509 /\ (\A k \in MountsOf(t, AgentName) :
                              k[1] = AgentPemFile => k = AgentMount)
                => MountsOf(u, AgentName) = {k \in MountsOf(t, AgentName) : k[1] # AgentPemFile}
<1>0. /\ AgentName \in OperatorContainers /\ MongodbName \in OperatorContainers \ {AgentName}
      /\ AgentPemFile \notin OperatorVolumes
  BY DEF OperatorContainers, AgentName, MongodbName, OperatorVolumes, AgentPemFile
<1>1. CASE m.x509
  <2> DEFINE a == WithVolume(t, AgentPemFile, FromSecret("agent"))
             mounts == Mount(AgentPemFile, "/agent-certs", TRUE)
             u == WithVolumeMounts(a, AgentName, mounts)
  <2>1. BuildAgentX509(t, m) = u
    BY <1>1 DEF BuildAgentX509
  <2>2. DOMAIN mounts = {AgentMount}
    BY DEF Mount, Named, AgentMount
  <2>3. /\ OperatorShape(a) /\ SameButMounts(a, t) /\ a.containers = t.containers
        /\ DOMAIN a.volumes = DOMAIN t.volumes \cup {AgentPemFile}
    BY <1>0, FromSecretShape, WithVolumeEffect
  <2> HIDE DEF a, mounts
  <2>4. /\ OperatorShape(u) /\ SameButMounts(u, a) /\ u.volumes = a.volumes
        /\ MountsOf(u, AgentName) = MountsOf(a, AgentName) \cup DOMAIN mounts
        /\ MountsOf(u, MongodbName) = MountsOf(a, MongodbName)
    BY <1>0, <2>3, WithVolumeMountsEffect
  <2> HIDE DEF u
  <2>5. SameButMounts(u, t)
    BY <2>3, <2>4, SameButMountsTransitive
  <2>6. \A c : MountsOf(a, c) = MountsOf(t, c)
    BY <2>3 DEF MountsOf
  <2>7. QED
    BY <1>1, <2>1, <2>2, <2>3, <2>4, <2>5, <2>6
<1>2. CASE ~m.x509
  <2> DEFINE a == RemoveVolume(t, AgentPemFile)
             u == RemoveVolumeMount(a, AgentName, AgentPemFile)
  <2>1. BuildAgentX509(t, m) = u
    BY <1>2 DEF BuildAgentX509
  <2>2. /\ OperatorShape(a) /\ SameButMounts(a, t) /\ a.containers = t.containers
        /\ DOMAIN a.volumes = DOMAIN t.volumes \ {AgentPemFile}
    BY <1>0, RemoveVolumeEffect
  <2>3. \A c : MountsOf(a, c) = MountsOf(t, c)
    BY <2>2 DEF MountsOf
  <2> HIDE DEF a
  <2>4. (\A k \in MountsOf(t, AgentName) : k[1] = AgentPemFile => k = AgentMount)
        => \A k, l \in MountsOf(a, AgentName) :
             k[1] = AgentPemFile /\ l[1] = AgentPemFile => k = l
    BY <2>3
  <2>5. /\ OperatorShape(u) /\ SameButMounts(u, a) /\ u.volumes = a.volumes
        /\ (\A k, l \in MountsOf(a, AgentName) :
             k[1] = AgentPemFile /\ l[1] = AgentPemFile => k = l)
           => MountsOf(u, AgentName) = {k \in MountsOf(a, AgentName) : k[1] # AgentPemFile}
        /\ MountsOf(u, MongodbName) = MountsOf(a, MongodbName)
    BY <1>0, <2>2, RemoveVolumeMountEffect
  <2> HIDE DEF u
  <2>6. SameButMounts(u, t)
    BY <2>2, <2>5, SameButMountsTransitive
  <2>7. QED
    BY <1>2, <2>1, <2>2, <2>3, <2>4, <2>5, <2>6
<1>3. QED
  BY <1>1, <1>2

\* The mounts of a container that may not be there, and of an init container.
OldMounts(containers, c) == IF c \in DOMAIN containers THEN DOMAIN containers[c].mounts ELSE {}

\* What is there of a container, or nothing.
LEMMA ExistingMounts ==
  ASSUME NEW containers, NEW c
  PROVE  DOMAIN Existing(containers, c).mounts = OldMounts(containers, c)
<1>1. DOMAIN NewContainer.mounts = {}
  <2>1. NewContainer.mounts = Nothing
    BY DEF NewContainer
  <2>2. DOMAIN Nothing = {}
    BY DEF Nothing
  <2>3. QED
    BY <2>1, <2>2
<1>2. QED
  BY <1>1 DEF Existing, OldMounts

\* What is mounted comes from the volumes and claims every StatefulSet has.
OperatorMount(k) == k[1] \in OperatorVolumes \cup OperatorClaims

\* The mounts agent and mongod have in common.
LEMMA CommonMountsDomain ==
  ASSUME NEW m
  PROVE  /\ DOMAIN CommonMounts(m)
           = {<<"keyfile", "/authentication">>, <<"tmp", "/tmp">>,
              <<"data-volume", GetDBDataDir(m)>>, <<"logs-volume", "/var/log">>}
         /\ \A k \in DOMAIN CommonMounts(m) : OperatorMount(k)
<1>1. DOMAIN CommonMounts(m)
        = {<<"keyfile", "/authentication">>, <<"tmp", "/tmp">>,
           <<"data-volume", GetDBDataDir(m)>>, <<"logs-volume", "/var/log">>}
  BY DEF CommonMounts, StringToStringMap, Mount, Named
<1>2. /\ OperatorMount(<<"keyfile", "/authentication">>) /\ OperatorMount(<<"tmp", "/tmp">>)
      /\ OperatorMount(<<"data-volume", GetDBDataDir(m)>>)
      /\ OperatorMount(<<"logs-volume", "/var/log">>)
  BY DEF OperatorMount, OperatorVolumes, OperatorClaims
<1>3. QED
  BY <1>1, <1>2

\* The container of the agent.
LEMMA AgentContainerFields ==
  ASSUME NEW c, NEW m
  PROVE  LET d == MongodbAgentContainer(c, m)
         IN  /\ {"settings", "resources", "securityContext", "mounts"} \subseteq DOMAIN d
             /\ \A k \in DOMAIN d.mounts : k \in DOMAIN c.mounts \/ OperatorMount(k)
             /\ <<"data-volume", GetDBDataDir(m)>> \in DOMAIN d.mounts
             /\ d.settings.image = "agent" /\ d.settings.command = m.agentLogFile
             /\ d.resources = [requests |-> "operator", limits |-> "operator"]
             /\ d.securityContext = [readOnlyRootFilesystem |-> "operator"]
<1> DEFINE d        == MongodbAgentContainer(c, m)
           settings == [image |-> "agent", imagePullPolicy |-> "Always",
                        command |-> m.agentLogFile]
           mounts   == StringToStringMap(CommonMounts(m),
                       StringToStringMap(Mount("healthstatus", "/var/log/healthstatus", FALSE),
                       StringToStringMap(Mount("automation-config", "/config", TRUE),
                                         Mount("agent-scripts", "/opt/scripts", FALSE))))
<1>1. DOMAIN mounts = DOMAIN CommonMounts(m) \cup
        {<<"healthstatus", "/var/log/healthstatus">>, <<"automation-config", "/config">>,
         <<"agent-scripts", "/opt/scripts">>}
  BY DEF StringToStringMap, Mount, Named
<1>2. \A k \in DOMAIN mounts : OperatorMount(k)
  <2> HIDE DEF mounts
  <2>1. \A k \in {<<"healthstatus", "/var/log/healthstatus">>, <<"automation-config", "/config">>,
                 <<"agent-scripts", "/opt/scripts">>} :
          OperatorMount(k)
    BY DEF OperatorMount, OperatorVolumes, OperatorClaims
  <2>2. \A k \in DOMAIN CommonMounts(m) : OperatorMount(k)
    BY CommonMountsDomain
  <2>3. QED
    BY <1>1, <2>1, <2>2
<1>3. <<"data-volume", GetDBDataDir(m)>> \in DOMAIN mounts
  BY <1>1, CommonMountsDomain
<1>4. /\ {"settings", "resources", "securityContext", "mounts"} \subseteq DOMAIN d
      /\ DOMAIN d.mounts = DOMAIN c.mounts \cup DOMAIN mounts
      /\ d.settings = StringToStringMap(c.settings, settings)
      /\ d.resources = [requests |-> "operator", limits |-> "operator"]
      /\ d.securityContext = [readOnlyRootFilesystem |-> "operator"]
  <2>1. /\ d.mounts = StringToStringMap(c.mounts, mounts)
        /\ d.settings = StringToStringMap(c.settings, settings)
        /\ d.resources = [requests |-> "operator", limits |-> "operator"]
        /\ d.securityContext = [readOnlyRootFilesystem |-> "operator"]
        /\ {"settings", "resources", "securityContext", "mounts"} \subseteq DOMAIN d
    BY DEF MongodbAgentContainer, Modified
  <2> HIDE DEF mounts, settings, d
  <2>2. DOMAIN d.mounts = DOMAIN c.mounts \cup DOMAIN mounts
    BY <2>1 DEF StringToStringMap
  <2>3. QED
    BY <2>1, <2>2
<1>5. d.settings.image = "agent" /\ d.settings.command = m.agentLogFile
  <2> HIDE DEF d
  <2>1. QED
    BY <1>4 DEF StringToStringMap
<1> HIDE DEF d, mounts
<1>6. QED
  BY <1>2, <1>3, <1>4, <1>5 DEF d

\* The container of mongod.
LEMMA MongodbContainerFields ==
  ASSUME NEW c, NEW m
  PROVE  LET d == MongodbContainer(c, m)
         IN  /\ {"settings", "resources", "securityContext", "mounts"} \subseteq DOMAIN d
             /\ \A k \in DOMAIN d.mounts : k \in DOMAIN c.mounts \/ OperatorMount(k)
             /\ <<"data-volume", GetDBDataDir(m)>> \in DOMAIN d.mounts
             /\ d.settings.image = m.version /\ d.settings.command = GetDBDataDir(m)
             /\ d.resources = [requests |-> "operator", limits |-> "operator"]
             /\ d.securityContext = [readOnlyRootFilesystem |-> "operator"]
<1> DEFINE d        == MongodbContainer(c, m)
           settings == [image |-> m.version, command |-> GetDBDataDir(m), args |-> "operator"]
           mounts   == StringToStringMap(CommonMounts(m),
                       StringToStringMap(Mount("healthstatus", "/healthstatus", FALSE),
                                         Mount("hooks", "/hooks", FALSE)))
<1>1. DOMAIN mounts = DOMAIN CommonMounts(m) \cup
        {<<"healthstatus", "/healthstatus">>, <<"hooks", "/hooks">>}
  BY DEF StringToStringMap, Mount, Named
<1>2. \A k \in DOMAIN mounts : OperatorMount(k)
  <2> HIDE DEF mounts
  <2>1. \A k \in {<<"healthstatus", "/healthstatus">>, <<"hooks", "/hooks">>} :
          OperatorMount(k)
    BY DEF OperatorMount, OperatorVolumes, OperatorClaims
  <2>2. \A k \in DOMAIN CommonMounts(m) : OperatorMount(k)
    BY CommonMountsDomain
  <2>3. QED
    BY <1>1, <2>1, <2>2
<1>3. <<"data-volume", GetDBDataDir(m)>> \in DOMAIN mounts
  BY <1>1, CommonMountsDomain
<1>4. /\ {"settings", "resources", "securityContext", "mounts"} \subseteq DOMAIN d
      /\ DOMAIN d.mounts = DOMAIN c.mounts \cup DOMAIN mounts
      /\ d.settings = StringToStringMap(c.settings, settings)
      /\ d.resources = [requests |-> "operator", limits |-> "operator"]
      /\ d.securityContext = [readOnlyRootFilesystem |-> "operator"]
  <2>1. /\ d.mounts = StringToStringMap(c.mounts, mounts)
        /\ d.settings = StringToStringMap(c.settings, settings)
        /\ d.resources = [requests |-> "operator", limits |-> "operator"]
        /\ d.securityContext = [readOnlyRootFilesystem |-> "operator"]
        /\ {"settings", "resources", "securityContext", "mounts"} \subseteq DOMAIN d
    BY DEF MongodbContainer, Modified
  <2> HIDE DEF mounts, settings, d
  <2>2. DOMAIN d.mounts = DOMAIN c.mounts \cup DOMAIN mounts
    BY <2>1 DEF StringToStringMap
  <2>3. QED
    BY <2>1, <2>2
<1>5. d.settings.image = m.version /\ d.settings.command = GetDBDataDir(m)
  <2> HIDE DEF d
  <2>1. QED
    BY <1>4 DEF StringToStringMap
<1> HIDE DEF d, mounts
<1>6. QED
  BY <1>2, <1>3, <1>4, <1>5 DEF d

\* The init containers.
LEMMA InitContainerFields ==
  ASSUME NEW c, NEW image, NEW volume \in OperatorVolumes, NEW path
  PROVE  LET d == InitContainer(c, image, volume, path)
         IN  /\ \A k \in DOMAIN d.mounts : k \in DOMAIN c.mounts \/ OperatorMount(k)
             /\ d.settings.image = image
<1> DEFINE d        == InitContainer(c, image, volume, path)
           settings == [image |-> image, imagePullPolicy |-> "Always", command |-> "cp"]
           mounts   == Mount(volume, path, FALSE)
<1>1. DOMAIN mounts = {<<volume, path>>}
  BY DEF Mount, Named
<1>2. /\ DOMAIN d.mounts = DOMAIN c.mounts \cup DOMAIN mounts
      /\ d.settings = StringToStringMap(c.settings, settings)
  <2>1. /\ d.mounts = StringToStringMap(c.mounts, mounts)
        /\ d.settings = StringToStringMap(c.settings, settings)
    BY DEF InitContainer, Modified
  <2> HIDE DEF mounts, settings, d
  <2>2. QED
    BY <2>1 DEF StringToStringMap
<1>3. d.settings.image = image
  <2> HIDE DEF d
  <2>1. QED
    BY <1>2 DEF StringToStringMap
<1> HIDE DEF d, mounts
<1>4. QED
  BY <1>1, <1>2, <1>3 DEF OperatorMount, d

\* The operator's part of a template: what it writes whatever was there.
OperatorWrites(u, m) ==
  /\ {"serviceAccountName", "securityContext"} \subseteq DOMAIN u.settings
  /\ OperatorInit \subseteq DOMAIN u.initContainers
  /\ u.settings.serviceAccountName = "operator" /\ u.settings.securityContext = "operator"
  /\ u.labels = [app |-> "svc"]
  /\ \A v \in OperatorVolumes :
       u.volumes[v].source = IF v = "automation-config" THEN "secret" ELSE "emptyDir"
  /\ u.volumes["automation-config"].fields.secretName = "config"
  /\ u.containers[AgentName].settings.image = "agent"
  /\ u.containers[AgentName].settings.command = m.agentLogFile
  /\ u.containers[MongodbName].settings.image = m.version
  /\ u.containers[MongodbName].settings.command = GetDBDataDir(m)
  /\ \A c \in OperatorContainers :
       /\ u.containers[c].resources = [requests |-> "operator", limits |-> "operator"]
       /\ u.containers[c].securityContext = [readOnlyRootFilesystem |-> "operator"]
  /\ u.initContainers[HookName].settings.image = "version-upgrade-hook"
  /\ u.initContainers[ProbeName].settings.image = "readinessprobe"

\* The operator's volumes are merged into those that are there.
LEMMA OperatorVolumesEffect ==
  ASSUME NEW t, TemplateShape(t)
  PROVE  LET volumes == [v \in OperatorVolumes |->
                           IF v = "automation-config" THEN FromSecret("config") ELSE EmptyDir]
             merged  == Volumes(t.volumes, volumes)
         IN  /\ DOMAIN merged = DOMAIN t.volumes \cup OperatorVolumes
             /\ \A v \in DOMAIN merged : {"source", "fields"} \subseteq DOMAIN merged[v]
             /\ \A v \in OperatorVolumes :
                  merged[v].source = IF v = "automation-config" THEN "secret" ELSE "emptyDir"
             /\ merged["automation-config"].fields.secretName = "config"
<1> DEFINE volumes == [v \in OperatorVolumes |->
                         IF v = "automation-config" THEN FromSecret("config") ELSE EmptyDir]
           old     == t.volumes
           merged  == Volumes(old, volumes)
<1>1. DOMAIN volumes = OperatorVolumes
  OBVIOUS
<1>2. \A v \in OperatorVolumes :
        /\ {"source", "fields"} \subseteq DOMAIN volumes[v]
        /\ volumes[v].source = IF v = "automation-config" THEN "secret" ELSE "emptyDir"
  BY FromSecretShape DEF EmptyDir
<1>3. /\ "automation-config" \in OperatorVolumes
      /\ volumes["automation-config"] = FromSecret("config")
  BY DEF OperatorVolumes
<1>4. \A v \in DOMAIN old : {"source", "fields"} \subseteq DOMAIN old[v]
  BY DEF TemplateShape
<1> HIDE DEF volumes, old
<1>5. /\ DOMAIN merged = DOMAIN old \cup DOMAIN volumes
      /\ \A v \in DOMAIN volumes \ DOMAIN old : merged[v] = volumes[v]
      /\ \A v \in DOMAIN old \ DOMAIN volumes : merged[v] = old[v]
      /\ \A v \in DOMAIN old \cap DOMAIN volumes : merged[v] = Volume(old[v], volumes[v])
  BY DEF Volumes, MergeByName
<1> HIDE DEF merged
<1>6. ASSUME NEW v \in OperatorVolumes
      PROVE  /\ {"source", "fields"} \subseteq DOMAIN merged[v]
             /\ merged[v].source = volumes[v].source
             /\ \A k \in DOMAIN volumes[v].fields : merged[v].fields[k] = volumes[v].fields[k]
  <2>1. CASE v \in DOMAIN old
    <3>1. merged[v] = Volume(old[v], volumes[v])
      BY <1>1, <1>5, <2>1
    <3>2. {"source", "fields"} \subseteq DOMAIN old[v]
          /\ {"source", "fields"} \subseteq DOMAIN volumes[v]
      BY <1>2, <1>4, <2>1
    <3>3. QED
      BY <3>1, <3>2, MergedVolume
  <2>2. CASE v \notin DOMAIN old
    <3>1. merged[v] = volumes[v]
      BY <1>1, <1>5, <2>2
    <3>2. QED
      BY <1>2, <3>1
  <2>3. QED
    BY <2>1, <2>2
<1>7. \A v \in DOMAIN merged : {"source", "fields"} \subseteq DOMAIN merged[v]
  BY <1>1, <1>4, <1>5, <1>6
<1>8. merged["automation-config"].fields.secretName = "config"
  <2>1. "secretName" \in DOMAIN volumes["automation-config"].fields
        /\ volumes["automation-config"].fields.secretName = "config"
    BY <1>3, FromSecretShape
  <2>2. QED
    BY <1>3, <1>6, <2>1
<1>9. DOMAIN merged = DOMAIN t.volumes \cup OperatorVolumes
  BY <1>1, <1>5 DEF old
<1>10. \A v \in OperatorVolumes :
         merged[v].source = IF v = "automation-config" THEN "secret" ELSE "emptyDir"
  BY <1>2, <1>6
<1>11. QED
  BY <1>7, <1>8, <1>9, <1>10 DEF merged, old, volumes

\* The template of the operator.
LEMMA OperatorTemplateEffect ==
  ASSUME NEW t, TemplateShape(t), NEW m
  PROVE  LET u == OperatorTemplate(t, m)
         IN  /\ OperatorShape(u) /\ OperatorWrites(u, m)
             /\ DOMAIN u.volumes = DOMAIN t.volumes \cup OperatorVolumes
             /\ DOMAIN u.containers = DOMAIN t.containers \cup OperatorContainers
             /\ \A c \in DOMAIN t.containers \ OperatorContainers :
                  u.containers[c] = t.containers[c]
             /\ \A c \in OperatorContainers :
                  /\ <<"data-volume", GetDBDataDir(m)>> \in MountsOf(u, c)
                  /\ \A k \in MountsOf(u, c) : k \in OldMounts(t.containers, c) \/ OperatorMount(k)
             /\ DOMAIN u.initContainers = DOMAIN t.initContainers \cup OperatorInit
             /\ \A c \in DOMAIN t.initContainers \ OperatorInit :
                  u.initContainers[c] = t.initContainers[c]
             /\ \A c \in OperatorInit : \A k \in DOMAIN u.initContainers[c].mounts :
                  k \in OldMounts(t.initContainers, c) \/ OperatorMount(k)
<1> DEFINE u       == OperatorTemplate(t, m)
           volumes == [v \in OperatorVolumes |->
                         IF v = "automation-config" THEN FromSecret("config") ELSE EmptyDir]
           merged  == Volumes(t.volumes, volumes)
           agent   == MongodbAgentContainer(Existing(t.containers, AgentName), m)
           mongod  == MongodbContainer(Existing(t.containers, MongodbName), m)
           hook    == InitContainer(Existing(t.initContainers, HookName),
                                    "version-upgrade-hook", "hooks", "/hooks")
           probe   == InitContainer(Existing(t.initContainers, ProbeName),
                                    "readinessprobe", "agent-scripts", "/opt/scripts")
           chosen  == [serviceAccountName |-> "operator", securityContext |-> "operator"]
           both    == StringToStringMap(t.containers,
                        StringToStringMap(Named(AgentName, agent), Named(MongodbName, mongod)))
           inits   == StringToStringMap(t.initContainers,
                        StringToStringMap(Named(HookName, hook), Named(ProbeName, probe)))
<1>1. u = [[t EXCEPT !.volumes = merged] EXCEPT
             !.settings = StringToStringMap(t.settings, chosen), !.labels = [app |-> "svc"],
             !.containers = both, !.initContainers = inits]
  BY DEF OperatorTemplate, WithVolumes, OperatorVolumes, TemplateShape
<1>2. /\ DOMAIN merged = DOMAIN t.volumes \cup OperatorVolumes
      /\ \A v \in DOMAIN merged : {"source", "fields"} \subseteq DOMAIN merged[v]
      /\ \A v \in OperatorVolumes :
           merged[v].source = IF v = "automation-config" THEN "secret" ELSE "emptyDir"
      /\ merged["automation-config"].fields.secretName = "config"
  BY OperatorVolumesEffect
<1>3. /\ DOMAIN both = DOMAIN t.containers \cup {AgentName, MongodbName}
      /\ both[AgentName] = agent /\ both[MongodbName] = mongod
      /\ \A c \in DOMAIN t.containers \ {AgentName, MongodbName} : both[c] = t.containers[c]
  <2>1. AgentName # MongodbName
    BY DEF AgentName, MongodbName
  <2> HIDE DEF agent, mongod
  <2>2. QED
    BY <2>1 DEF StringToStringMap, Named
<1>4. /\ DOMAIN inits = DOMAIN t.initContainers \cup {HookName, ProbeName}
      /\ inits[HookName] = hook /\ inits[ProbeName] = probe
      /\ \A c \in DOMAIN t.initContainers \ {HookName, ProbeName} : inits[c] = t.initContainers[c]
  <2>1. HookName # ProbeName
    BY DEF HookName, ProbeName
  <2> HIDE DEF hook, probe
  <2>2. QED
    BY <2>1 DEF StringToStringMap, Named
<1>5. /\ {"settings", "resources", "securityContext", "mounts"} \subseteq DOMAIN agent
      /\ \A k \in DOMAIN agent.mounts : k \in OldMounts(t.containers, AgentName) \/ OperatorMount(k)
      /\ <<"data-volume", GetDBDataDir(m)>> \in DOMAIN agent.mounts
      /\ agent.settings.image = "agent" /\ agent.settings.command = m.agentLogFile
      /\ agent.resources = [requests |-> "operator", limits |-> "operator"]
      /\ agent.securityContext = [readOnlyRootFilesystem |-> "operator"]
  BY AgentContainerFields, ExistingMounts
<1>6. /\ {"settings", "resources", "securityContext", "mounts"} \subseteq DOMAIN mongod
      /\ \A k \in DOMAIN mongod.mounts :
           k \in OldMounts(t.containers, MongodbName) \/ OperatorMount(k)
      /\ <<"data-volume", GetDBDataDir(m)>> \in DOMAIN mongod.mounts
      /\ mongod.settings.image = m.version /\ mongod.settings.command = GetDBDataDir(m)
      /\ mongod.resources = [requests |-> "operator", limits |-> "operator"]
      /\ mongod.securityContext = [readOnlyRootFilesystem |-> "operator"]
  BY MongodbContainerFields, ExistingMounts
<1>7. /\ \A k \in DOMAIN hook.mounts :
           k \in OldMounts(t.initContainers, HookName) \/ OperatorMount(k)
      /\ hook.settings.image = "version-upgrade-hook"
  <2>1. "hooks" \in OperatorVolumes
    BY DEF OperatorVolumes
  <2>2. QED
    BY <2>1, InitContainerFields, ExistingMounts
<1>8. /\ \A k \in DOMAIN probe.mounts :
           k \in OldMounts(t.initContainers, ProbeName) \/ OperatorMount(k)
      /\ probe.settings.image = "readinessprobe"
  <2>1. "agent-scripts" \in OperatorVolumes
    BY DEF OperatorVolumes
  <2>2. QED
    BY <2>1, InitContainerFields, ExistingMounts
<1> HIDE DEF u, merged, agent, mongod, hook, probe, both, inits, volumes
<1>9. /\ DOMAIN u = DOMAIN t /\ u.volumes = merged /\ u.labels = [app |-> "svc"]
      /\ u.settings = StringToStringMap(t.settings, chosen)
      /\ u.containers = both /\ u.initContainers = inits
  BY <1>1 DEF TemplateShape
<1>10. /\ {"serviceAccountName", "securityContext"} \subseteq DOMAIN u.settings
       /\ u.settings.serviceAccountName = "operator" /\ u.settings.securityContext = "operator"
  BY <1>9 DEF StringToStringMap
<1> HIDE DEF chosen
<1>11. OperatorShape(u)
  BY <1>2, <1>3, <1>5, <1>6, <1>9 DEF OperatorShape, TemplateShape, OperatorContainers
<1>12. OperatorWrites(u, m)
  BY <1>2, <1>3, <1>4, <1>5, <1>6, <1>7, <1>8, <1>9, <1>10
     DEF OperatorWrites, OperatorContainers, OperatorInit
<1>13. \A c \in OperatorContainers :
         /\ <<"data-volume", GetDBDataDir(m)>> \in MountsOf(u, c)
         /\ \A k \in MountsOf(u, c) : k \in OldMounts(t.containers, c) \/ OperatorMount(k)
  BY <1>3, <1>5, <1>6, <1>9 DEF OperatorContainers, MountsOf
<1>14. \A c \in OperatorInit : \A k \in DOMAIN u.initContainers[c].mounts :
         k \in OldMounts(t.initContainers, c) \/ OperatorMount(k)
  BY <1>4, <1>7, <1>8, <1>9 DEF OperatorInit
<1>15. /\ DOMAIN u.volumes = DOMAIN t.volumes \cup OperatorVolumes
       /\ DOMAIN u.containers = DOMAIN t.containers \cup OperatorContainers
       /\ \A c \in DOMAIN t.containers \ OperatorContainers : u.containers[c] = t.containers[c]
       /\ DOMAIN u.initContainers = DOMAIN t.initContainers \cup OperatorInit
       /\ \A c \in DOMAIN t.initContainers \ OperatorInit :
            u.initContainers[c] = t.initContainers[c]
  BY <1>2, <1>3, <1>4, <1>9 DEF OperatorContainers, OperatorInit
<1>16. QED
  BY <1>11, <1>12, <1>13, <1>14, <1>15 DEF u

-----------------------------------------------------------------------------
(***************************************************************************)
(* What is mounted.                                                        *)
(***************************************************************************)
\* Every mount of a template names one of its volumes or a claim.
Backed(t, claims) ==
  /\ \A c \in DOMAIN t.containers : \A k \in MountsOf(t, c) : k[1] \in DOMAIN t.volumes \cup claims
  /\ \A c \in DOMAIN t.initContainers : \A k \in DOMAIN t.initContainers[c].mounts :
       k[1] \in DOMAIN t.volumes \cup claims

\* Only the agent mounts the certificate of the agent, and once.
OneAgentMount(t) ==
  /\ \A c \in DOMAIN t.containers : \A k \in MountsOf(t, c) :
       k[1] = AgentPemFile => c = AgentName /\ k = AgentMount
  /\ \A c \in DOMAIN t.initContainers : \A k \in DOMAIN t.initContainers[c].mounts :
       k[1] # AgentPemFile

\* The mounts that the files the config names are read from.
Required(m, c) ==
  {<<"data-volume", GetDBDataDir(m)>>} \cup TLSMounts(m) \cup PrometheusMounts(m)
    \cup (IF c = AgentName /\ m.x509 THEN {AgentMount} ELSE {})

\* The template with the operator's containers and the certificates.
BuiltTemplate(t, m) ==
  BuildAgentX509(BuildTLSPrometheus(BuildTLSPodSpec(OperatorTemplate(t, m), m), m), m)

\* Whatever was there, the operator's part is written.
LEMMA BuiltTemplateWrites ==
  ASSUME NEW t, TemplateShape(t), NEW m
  PROVE  OperatorShape(BuiltTemplate(t, m)) /\ OperatorWrites(BuiltTemplate(t, m), m)
<1> DEFINE a == OperatorTemplate(t, m)
           b == BuildTLSPodSpec(a, m)
           d == BuildTLSPrometheus(b, m)
           u == BuildAgentX509(d, m)
<1>1. OperatorShape(a) /\ OperatorWrites(a, m)
  BY OperatorTemplateEffect
<1> HIDE DEF a
<1>2. OperatorShape(b) /\ SameButMounts(b, a)
  BY <1>1, BuildTLSPodSpecEffect
<1> HIDE DEF b
<1>3. OperatorShape(d) /\ SameButMounts(d, b)
  BY <1>2, BuildTLSPrometheusEffect
<1> HIDE DEF d
<1>4. OperatorShape(u) /\ SameButMounts(u, d)
  BY <1>3, BuildAgentX509Effect
<1> HIDE DEF u
<1>5. SameButMounts(u, a)
  <2>1. SameButMounts(d, a)
    BY <1>1, <1>2, <1>3, SameButMountsTransitive
  <2>2. QED
    BY <1>1, <1>3, <1>4, <2>1, SameButMountsTransitive
<1>6. OperatorWrites(u, m)
  BY <1>1, <1>5 DEF OperatorWrites, SameButMounts, OperatorVolumes, OperatorContainers
<1>7. QED
  BY <1>4, <1>6 DEF BuiltTemplate, u, d, b, a

\* What the operator builds from a template mounts what it should, and nothing
\* that is not there.
LEMMA BuiltTemplateEffect ==
  ASSUME NEW t, TemplateShape(t), NEW claims, OperatorClaims \subseteq claims,
         Backed(t, claims), OneAgentMount(t), NEW m
  PROVE  LET u == BuiltTemplate(t, m)
         IN  /\ Backed(u, claims) /\ OneAgentMount(u)
             /\ \A c \in OperatorContainers : Required(m, c) \subseteq MountsOf(u, c)
<1> DEFINE a == OperatorTemplate(t, m)
           b == BuildTLSPodSpec(a, m)
           d == BuildTLSPrometheus(b, m)
           u == BuildAgentX509(d, m)
<1>0. /\ OperatorContainers = {AgentName, MongodbName} /\ AgentName # MongodbName
      /\ \A k : OperatorMount(k) => k[1] # AgentPemFile
      /\ \A k \in TLSMounts(m) : k[1] \in TLSVolumes(m) /\ k[1] # AgentPemFile
      /\ \A k \in PrometheusMounts(m) : k[1] \in PrometheusVolumes(m) /\ k[1] # AgentPemFile
      /\ AgentMount[1] = AgentPemFile
  <2>1. /\ OperatorContainers = {AgentName, MongodbName} /\ AgentName # MongodbName
        /\ AgentMount[1] = AgentPemFile
    BY DEF OperatorContainers, AgentName, MongodbName, AgentMount
  <2>2. \A k : OperatorMount(k) => k[1] # AgentPemFile
    BY DEF OperatorMount, OperatorVolumes, OperatorClaims, AgentPemFile
  <2>3. \A k \in TLSMounts(m) : k[1] \in TLSVolumes(m) /\ k[1] # AgentPemFile
    BY DEF TLSMounts, TLSVolumes, AgentPemFile
  <2>4. \A k \in PrometheusMounts(m) : k[1] \in PrometheusVolumes(m) /\ k[1] # AgentPemFile
    BY DEF PrometheusMounts, PrometheusVolumes, AgentPemFile
  <2>5. QED
    BY <2>1, <2>2, <2>3, <2>4
<1>1. /\ OperatorShape(a) /\ OperatorWrites(a, m)
      /\ DOMAIN a.volumes = DOMAIN t.volumes \cup OperatorVolumes
      /\ DOMAIN a.containers = DOMAIN t.containers \cup OperatorContainers
      /\ \A c \in DOMAIN t.containers \ OperatorContainers : a.containers[c] = t.containers[c]
      /\ \A c \in OperatorContainers :
           /\ <<"data-volume", GetDBDataDir(m)>> \in MountsOf(a, c)
           /\ \A k \in MountsOf(a, c) : k \in OldMounts(t.containers, c) \/ OperatorMount(k)
      /\ DOMAIN a.initContainers = DOMAIN t.initContainers \cup OperatorInit
      /\ \A c \in DOMAIN t.initContainers \ OperatorInit :
           a.initContainers[c] = t.initContainers[c]
      /\ \A c \in OperatorInit : \A k \in DOMAIN a.initContainers[c].mounts :
           k \in OldMounts(t.initContainers, c) \/ OperatorMount(k)
  BY OperatorTemplateEffect
<1> HIDE DEF a
<1>2. /\ OperatorShape(b) /\ SameButMounts(b, a)
      /\ DOMAIN b.volumes = DOMAIN a.volumes \cup TLSVolumes(m)
      /\ \A c \in OperatorContainers : MountsOf(b, c) = MountsOf(a, c) \cup TLSMounts(m)
  BY <1>1, BuildTLSPodSpecEffect
<1> HIDE DEF b
<1>3. /\ OperatorShape(d) /\ SameButMounts(d, b)
      /\ DOMAIN d.volumes = DOMAIN b.volumes \cup PrometheusVolumes(m)
      /\ \A c \in OperatorContainers : MountsOf(d, c) = MountsOf(b, c) \cup PrometheusMounts(m)
  BY <1>2, BuildTLSPrometheusEffect
<1> HIDE DEF d
<1>4. SameButMounts(d, a)
  BY <1>1, <1>2, <1>3, SameButMountsTransitive
<1>5. ASSUME NEW c \in OperatorContainers, NEW k \in MountsOf(d, c)
      PROVE  /\ k[1] \in DOMAIN d.volumes \cup claims
             /\ k[1] = AgentPemFile => c = AgentName /\ k = AgentMount
  <2>1. CASE k \in TLSMounts(m) \cup PrometheusMounts(m)
    BY <1>0, <1>2, <1>3, <2>1
  <2>2. CASE k \in MountsOf(a, c) /\ OperatorMount(k)
    BY <1>0, <1>1, <1>2, <1>3, <2>2 DEF OperatorMount
  <2>3. CASE k \in OldMounts(t.containers, c)
    <3>1. c \in DOMAIN t.containers /\ k \in MountsOf(t, c)
      BY <2>3 DEF OldMounts, MountsOf
    <3>2. /\ k[1] \in DOMAIN t.volumes \cup claims
          /\ k[1] = AgentPemFile => c = AgentName /\ k = AgentMount
      BY <3>1 DEF Backed, OneAgentMount
    <3>3. QED
      BY <1>1, <1>2, <1>3, <3>2
  <2>4. QED
    BY <1>1, <1>2, <1>3, <1>5, <2>1, <2>2, <2>3
<1>6. \A k \in MountsOf(d, AgentName) : k[1] = AgentPemFile => k = AgentMount
  BY <1>0, <1>5
<1>7. /\ OperatorShape(u) /\ SameButMounts(u, d)
      /\ MountsOf(u, MongodbName) = MountsOf(d, MongodbName)
      /\ m.x509 => /\ DOMAIN u.volumes = DOMAIN d.volumes \cup {AgentPemFile}
                   /\ MountsOf(u, AgentName) = MountsOf(d, AgentName) \cup {AgentMount}
      /\ ~m.x509 => /\ DOMAIN u.volumes = DOMAIN d.volumes \ {AgentPemFile}
                    /\ MountsOf(u, AgentName)
                         = {k \in MountsOf(d, AgentName) : k[1] # AgentPemFile}
  BY <1>3, <1>6, BuildAgentX509Effect
<1> HIDE DEF u
<1>8. SameButMounts(u, a)
  BY <1>1, <1>3, <1>4, <1>7, SameButMountsTransitive
<1>10. ASSUME NEW c \in OperatorContainers, NEW k \in MountsOf(u, c)
       PROVE  /\ k[1] \in DOMAIN u.volumes \cup claims
              /\ k[1] = AgentPemFile => c = AgentName /\ k = AgentMount
  <2>1. CASE m.x509
    BY <1>0, <1>5, <1>7, <1>10, <2>1
  <2>2. CASE ~m.x509
    BY <1>0, <1>5, <1>7, <1>10, <2>2
  <2>3. QED
    BY <2>1, <2>2
<1>11. \A v \in DOMAIN t.volumes \ {AgentPemFile} : v \in DOMAIN u.volumes
  BY <1>1, <1>2, <1>3, <1>7
<1>12. ASSUME NEW c \in DOMAIN u.containers, NEW k \in MountsOf(u, c)
       PROVE  /\ k[1] \in DOMAIN u.volumes \cup claims
              /\ k[1] = AgentPemFile => c = AgentName /\ k = AgentMount
  <2>1. CASE c \in OperatorContainers
    BY <1>10, <1>12, <2>1
  <2>2. CASE c \notin OperatorContainers
    <3>1. c \in DOMAIN t.containers /\ MountsOf(u, c) = MountsOf(t, c) /\ c # AgentName
      BY <1>0, <1>1, <1>8, <1>12, <2>2 DEF SameButMounts, MountsOf
    <3>2. k[1] \in DOMAIN t.volumes \cup claims /\ k[1] # AgentPemFile
      BY <1>12, <3>1 DEF Backed, OneAgentMount
    <3>3. QED
      BY <1>11, <3>2
  <2>3. QED
    BY <2>1, <2>2
<1>13. ASSUME NEW c \in DOMAIN u.initContainers, NEW k \in DOMAIN u.initContainers[c].mounts
       PROVE  k[1] \in DOMAIN u.volumes \cup claims /\ k[1] # AgentPemFile
  <2>1. u.initContainers = a.initContainers
    BY <1>8 DEF SameButMounts
  <2>2. CASE OperatorMount(k)
    <3>1. k[1] # AgentPemFile
      BY <1>0, <2>2
    <3>2. k[1] \in OperatorVolumes \/ k[1] \in claims
      BY <2>2 DEF OperatorMount
    <3>3. QED
      BY <1>7, <3>1, <3>2 DEF OperatorShape
  <2>3. CASE c \in DOMAIN t.initContainers /\ k \in DOMAIN t.initContainers[c].mounts
    <3>1. k[1] \in DOMAIN t.volumes \cup claims /\ k[1] # AgentPemFile
      BY <2>3 DEF Backed, OneAgentMount
    <3>2. QED
      BY <1>11, <3>1
  <2>4. QED
    BY <1>1, <1>13, <2>1, <2>2, <2>3 DEF OldMounts
<1>14. Backed(u, claims) /\ OneAgentMount(u)
  BY <1>12, <1>13 DEF Backed, OneAgentMount
<1>15. ASSUME NEW c \in OperatorContainers PROVE Required(m, c) \subseteq MountsOf(u, c)
  <2>1. {<<"data-volume", GetDBDataDir(m)>>} \cup TLSMounts(m) \cup PrometheusMounts(m)
          \subseteq MountsOf(d, c)
    BY <1>1, <1>2, <1>3, <1>15
  <2>2. <<"data-volume", GetDBDataDir(m)>>[1] # AgentPemFile
    BY DEF AgentPemFile
  <2>3. \A k \in {<<"data-volume", GetDBDataDir(m)>>} \cup TLSMounts(m) \cup PrometheusMounts(m) :
          k[1] # AgentPemFile
    BY <1>0, <2>2
  <2>4. \A k \in MountsOf(d, c) : k[1] # AgentPemFile => k \in MountsOf(u, c)
    BY <1>0, <1>7, <1>15
  <2>5. c = AgentName /\ m.x509 => AgentMount \in MountsOf(u, c)
    BY <1>7
  <2>6. QED
    BY <2>1, <2>3, <2>4, <2>5 DEF Required
<1>16. QED
  BY <1>14, <1>15 DEF BuiltTemplate, u, d, b, a

\* An override mounts its own volumes and claims, or those every StatefulSet
\* has, and not the certificate of the agent.
ProvidesItsMounts(o) ==
  LET Provided(k) == /\ k[1] \in DOMAIN o.template.volumes \cup DOMAIN o.claims
                                   \cup OperatorVolumes \cup OperatorClaims
                     /\ k[1] # AgentPemFile
  IN  /\ \A c \in DOMAIN o.template.containers :
           \A k \in DOMAIN o.template.containers[c].mounts : Provided(k)
      /\ \A c \in DOMAIN o.template.initContainers :
           \A k \in DOMAIN o.template.initContainers[c].mounts : Provided(k)

\* Every override a user may apply is of that kind.
OverridesProvide == \A s \in UserSpecs : ProvidesItsMounts(s.stsOverride)

\* A merged list of containers has the mounts of both.
MountsMerged(w, a, b) ==
  /\ DOMAIN w = DOMAIN a \cup DOMAIN b
  /\ \A c \in DOMAIN w : DOMAIN w[c].mounts = OldMounts(a, c) \cup OldMounts(b, c)

\* It does.
LEMMA MergedContainerMounts ==
  ASSUME NEW a, NEW b
  PROVE  MountsMerged(Containers(a, b), a, b)
<1>1. DOMAIN Containers(a, b) = DOMAIN a \cup DOMAIN b
  BY DEF Containers, MergeByName
<1>2. ASSUME NEW c \in DOMAIN a \cup DOMAIN b
      PROVE  DOMAIN Containers(a, b)[c].mounts = OldMounts(a, c) \cup OldMounts(b, c)
  <2>1. CASE c \notin DOMAIN b
    <3>1. Containers(a, b)[c] = a[c]
      BY <2>1, <1>2 DEF Containers, MergeByName
    <3>2. QED
      BY <2>1, <1>2, <3>1 DEF OldMounts
  <2>2. CASE c \notin DOMAIN a
    <3>1. Containers(a, b)[c] = b[c]
      BY <2>2, <1>2 DEF Containers, MergeByName
    <3>2. QED
      BY <2>2, <1>2, <3>1 DEF OldMounts
  <2>3. CASE c \in DOMAIN a /\ c \in DOMAIN b
    <3>1. Containers(a, b)[c] = Container(a[c], b[c])
      BY <2>3 DEF Containers, MergeByName
    <3>2. Container(a[c], b[c]).mounts = VolumeMounts(a[c].mounts, b[c].mounts)
      BY DEF Container
    <3>3. DOMAIN VolumeMounts(a[c].mounts, b[c].mounts) = DOMAIN a[c].mounts \cup DOMAIN b[c].mounts
      BY DEF VolumeMounts, MergeByName
    <3>4. QED
      BY <2>3, <3>1, <3>2, <3>3 DEF OldMounts
  <2>4. QED
    BY <2>1, <2>2, <2>3
<1>3. QED
  BY <1>1, <1>2 DEF MountsMerged

\* The override leaves a template with volumes that have a source.
LEMMA OverriddenShape ==
  ASSUME NEW b, OperatorShape(b), NEW o, NEW topology,
         \A v \in DOMAIN o.template.volumes :
           {"source", "fields"} \subseteq DOMAIN o.template.volumes[v]
  PROVE  TemplateShape(PodTemplateSpecs(b, o.template, topology))
<1> DEFINE u == PodTemplateSpecs(b, o.template, topology)
           p == o.template
<1>1. /\ u.volumes = Volumes(b.volumes, p.volumes)
      /\ {"settings", "labels", "volumes", "containers", "initContainers", "hostAliases",
          "topology"} \subseteq DOMAIN u
  BY DEF PodTemplateSpecs
<1> HIDE DEF u
<1>2. DOMAIN u.volumes = DOMAIN b.volumes \cup DOMAIN p.volumes
  BY <1>1 DEF Volumes, MergeByName
<1>3. \A v \in DOMAIN u.volumes : {"source", "fields"} \subseteq DOMAIN u.volumes[v]
  <2> SUFFICES ASSUME NEW v \in DOMAIN u.volumes
               PROVE  {"source", "fields"} \subseteq DOMAIN u.volumes[v]
    OBVIOUS
  <2>1. CASE v \notin DOMAIN p.volumes
    <3>1. v \in DOMAIN b.volumes /\ u.volumes[v] = b.volumes[v]
      BY <1>1, <1>2, <2>1 DEF Volumes, MergeByName
    <3>2. QED
      BY <3>1 DEF OperatorShape, TemplateShape
  <2>2. CASE v \in DOMAIN p.volumes /\ v \notin DOMAIN b.volumes
    <3>1. u.volumes[v] = p.volumes[v]
      BY <1>1, <1>2, <2>2 DEF Volumes, MergeByName
    <3>2. QED
      BY <2>2, <3>1
  <2>3. CASE v \in DOMAIN p.volumes /\ v \in DOMAIN b.volumes
    <3>1. u.volumes[v] = Volume(b.volumes[v], p.volumes[v])
      BY <1>1, <1>2, <2>3 DEF Volumes, MergeByName
    <3>2. {"source", "fields"} \subseteq DOMAIN b.volumes[v]
          /\ {"source", "fields"} \subseteq DOMAIN p.volumes[v]
      BY <2>3 DEF OperatorShape, TemplateShape
    <3>3. QED
      BY <3>1, <3>2, MergedVolume
  <2>4. QED
    BY <2>1, <2>2, <2>3
<1>4. TemplateShape(u)
  BY <1>1, <1>3 DEF TemplateShape
<1>5. QED
  BY <1>4 DEF u

\* What the user's override makes of the template.
LEMMA OverriddenTemplate ==
  ASSUME NEW b, OperatorShape(b), NEW claims, NEW o, NEW topology,
         Backed(b, claims), OneAgentMount(b), OperatorClaims \subseteq claims,
         ProvidesItsMounts(o)
  PROVE  LET u == PodTemplateSpecs(b, o.template, topology)
         IN  /\ Backed(u, claims \cup DOMAIN o.claims) /\ OneAgentMount(u)
             /\ OperatorContainers \subseteq DOMAIN u.containers
             /\ \A c \in OperatorContainers : MountsOf(b, c) \subseteq MountsOf(u, c)
<1> DEFINE u == PodTemplateSpecs(b, o.template, topology)
           p == o.template
<1>1. /\ u.volumes = Volumes(b.volumes, p.volumes)
      /\ u.containers = Containers(b.containers, p.containers)
      /\ u.initContainers = Containers(b.initContainers, p.initContainers)
  BY DEF PodTemplateSpecs
<1> HIDE DEF u
<1>2. DOMAIN u.volumes = DOMAIN b.volumes \cup DOMAIN p.volumes
  BY <1>1 DEF Volumes, MergeByName
<1>5. /\ DOMAIN u.containers = DOMAIN b.containers \cup DOMAIN p.containers
      /\ \A c \in DOMAIN u.containers :
           DOMAIN u.containers[c].mounts
             = OldMounts(b.containers, c) \cup OldMounts(p.containers, c)
  <2>1. MountsMerged(u.containers, b.containers, p.containers)
    BY <1>1, MergedContainerMounts
  <2>2. QED
    BY <2>1 DEF MountsMerged
<1>6. /\ DOMAIN u.initContainers = DOMAIN b.initContainers \cup DOMAIN p.initContainers
      /\ \A c \in DOMAIN u.initContainers :
           DOMAIN u.initContainers[c].mounts
             = OldMounts(b.initContainers, c) \cup OldMounts(p.initContainers, c)
  <2>1. MountsMerged(u.initContainers, b.initContainers, p.initContainers)
    BY <1>1, MergedContainerMounts
  <2>2. QED
    BY <2>1 DEF MountsMerged
<1>7. OperatorVolumes \subseteq DOMAIN b.volumes
  BY DEF OperatorShape
<1>8. ASSUME NEW c \in DOMAIN u.containers, NEW k \in MountsOf(u, c)
      PROVE  /\ k[1] \in DOMAIN u.volumes \cup (claims \cup DOMAIN o.claims)
             /\ k[1] = AgentPemFile => c = AgentName /\ k = AgentMount
  <2>1. CASE k \in OldMounts(b.containers, c)
    <3>1. c \in DOMAIN b.containers /\ k \in MountsOf(b, c)
      BY <2>1 DEF OldMounts, MountsOf
    <3>2. QED
      BY <1>2, <3>1 DEF Backed, OneAgentMount
  <2>2. CASE k \in OldMounts(p.containers, c)
    <3>1. c \in DOMAIN p.containers /\ k \in DOMAIN p.containers[c].mounts
      BY <2>2 DEF OldMounts
    <3>2. /\ k[1] \in DOMAIN p.volumes \cup DOMAIN o.claims \cup OperatorVolumes \cup OperatorClaims
          /\ k[1] # AgentPemFile
      BY <3>1 DEF ProvidesItsMounts
    <3>3. QED
      BY <1>2, <1>7, <3>2
  <2>3. QED
    BY <1>5, <1>8, <2>1, <2>2 DEF MountsOf
<1>9. ASSUME NEW c \in DOMAIN u.initContainers, NEW k \in DOMAIN u.initContainers[c].mounts
      PROVE  /\ k[1] \in DOMAIN u.volumes \cup (claims \cup DOMAIN o.claims)
             /\ k[1] # AgentPemFile
  <2>1. CASE k \in OldMounts(b.initContainers, c)
    <3>1. c \in DOMAIN b.initContainers /\ k \in DOMAIN b.initContainers[c].mounts
      BY <2>1 DEF OldMounts
    <3>2. QED
      BY <1>2, <3>1 DEF Backed, OneAgentMount
  <2>2. CASE k \in OldMounts(p.initContainers, c)
    <3>1. c \in DOMAIN p.initContainers /\ k \in DOMAIN p.initContainers[c].mounts
      BY <2>2 DEF OldMounts
    <3>2. /\ k[1] \in DOMAIN p.volumes \cup DOMAIN o.claims \cup OperatorVolumes \cup OperatorClaims
          /\ k[1] # AgentPemFile
      BY <3>1 DEF ProvidesItsMounts
    <3>3. QED
      BY <1>2, <1>7, <3>2
  <2>3. QED
    BY <1>6, <1>9, <2>1, <2>2
<1>10. Backed(u, claims \cup DOMAIN o.claims) /\ OneAgentMount(u)
  BY <1>8, <1>9 DEF Backed, OneAgentMount
<1>11. /\ OperatorContainers \subseteq DOMAIN u.containers
       /\ \A c \in OperatorContainers : MountsOf(b, c) \subseteq MountsOf(u, c)
  <2>1. OperatorContainers \subseteq DOMAIN b.containers
    BY DEF OperatorShape
  <2>2. \A c \in OperatorContainers : MountsOf(b, c) = OldMounts(b.containers, c)
    BY <2>1 DEF MountsOf, OldMounts
  <2>3. QED
    BY <1>5, <2>1, <2>2 DEF MountsOf
<1>12. QED
  BY <1>10, <1>11 DEF u

\* Without an override the operator's part of the template stays as it wrote it.
LEMMA TemplateNotOverridden ==
  ASSUME NEW b, OperatorShape(b), NEW m, OperatorWrites(b, m), NEW topology
  PROVE  OperatorWrites(PodTemplateSpecs(b, NewPodTemplate, topology), m)
<1> DEFINE u == PodTemplateSpecs(b, NewPodTemplate, topology)
<1>1. /\ u.volumes = Volumes(b.volumes, Nothing)
      /\ u.containers = Containers(b.containers, Nothing)
      /\ u.initContainers = Containers(b.initContainers, Nothing)
      /\ u.settings = StringToStringMap(b.settings, Nothing)
      /\ u.labels = StringToStringMap(b.labels, Nothing)
  BY DEF PodTemplateSpecs, NewPodTemplate
<1>2. DOMAIN Nothing = {}
  BY DEF Nothing
<1> HIDE DEF u
<1>3. \A v \in DOMAIN b.volumes : u.volumes[v] = b.volumes[v]
  BY <1>1, <1>2 DEF Volumes, MergeByName
<1>4. \A c \in DOMAIN b.containers : u.containers[c] = b.containers[c]
  BY <1>1, <1>2 DEF Containers, MergeByName
<1>5. \A c \in DOMAIN b.initContainers : u.initContainers[c] = b.initContainers[c]
  BY <1>1, <1>2 DEF Containers, MergeByName
<1>6. \A k \in DOMAIN b.settings : u.settings[k] = b.settings[k]
  BY <1>1, <1>2 DEF StringToStringMap
<1>7. u.labels = [app |-> "svc"]
  BY <1>1, <1>2 DEF StringToStringMap, OperatorWrites
<1>8. /\ OperatorVolumes \subseteq DOMAIN b.volumes
      /\ OperatorContainers \subseteq DOMAIN b.containers
      /\ OperatorInit \subseteq DOMAIN b.initContainers
      /\ {"serviceAccountName", "securityContext"} \subseteq DOMAIN b.settings
  BY DEF OperatorShape, OperatorWrites
<1>9. /\ OperatorInit \subseteq DOMAIN u.initContainers
      /\ {"serviceAccountName", "securityContext"} \subseteq DOMAIN u.settings
  BY <1>1, <1>8 DEF Containers, MergeByName, StringToStringMap
<1>10. /\ "automation-config" \in OperatorVolumes
       /\ AgentName \in OperatorContainers /\ MongodbName \in OperatorContainers
       /\ HookName \in OperatorInit /\ ProbeName \in OperatorInit
  BY DEF OperatorVolumes, OperatorContainers, OperatorInit
<1>11. /\ \A v \in OperatorVolumes : u.volumes[v] = b.volumes[v]
       /\ \A c \in OperatorContainers : u.containers[c] = b.containers[c]
       /\ \A c \in OperatorInit : u.initContainers[c] = b.initContainers[c]
       /\ u.settings.serviceAccountName = b.settings.serviceAccountName
       /\ u.settings.securityContext = b.settings.securityContext
  BY <1>3, <1>4, <1>5, <1>6, <1>8
<1>12. OperatorWrites(u, m)
  BY <1>7, <1>9, <1>10, <1>11 DEF OperatorWrites
<1>13. QED
  BY <1>12 DEF u

-----------------------------------------------------------------------------
(***************************************************************************)
(* The StatefulSet.                                                        *)
(***************************************************************************)
\* What the operator writes next to the template, whatever was there.
SettingsWritten(s, m) ==
  /\ {"serviceName", "replicas", "updateStrategy"} \subseteq DOMAIN s.settings
  /\ s.settings.serviceName = "svc" /\ s.settings.replicas = m.stsReplicas
  /\ s.settings.updateStrategy = m.strategy
  /\ s.selector = [app |-> "svc"]
  /\ OperatorClaims \subseteq DOMAIN s.claims
  /\ \A v \in OperatorClaims : s.claims[v].accessModes = <<"ReadWriteOnce">>

\* A claim is there with its access mode; the other claims stay.
ClaimAdded(w, list, name) ==
  /\ DOMAIN w = DOMAIN list \cup {name}
  /\ w[name].accessModes = <<"ReadWriteOnce">>
  /\ \A v \in DOMAIN list \ {name} : w[v] = list[v]

\* That is what the modification does.
LEMMA WithVolumeClaimEffect ==
  ASSUME NEW list, NEW name, NEW storage
  PROVE  ClaimAdded(WithVolumeClaim(list, name, storage), list, name)
<1> DEFINE claim == IF name \in DOMAIN list THEN list[name]
                    ELSE [fields |-> Nothing, accessModes |-> Nothing]
           pvc   == Pvc(claim, storage)
           added == Named(name, pvc)
<1>1. pvc.accessModes = <<"ReadWriteOnce">>
  BY DEF Pvc
<1>2. WithVolumeClaim(list, name, storage) = StringToStringMap(list, added)
  BY DEF WithVolumeClaim
<1> HIDE DEF pvc
<1>3. DOMAIN added = {name} /\ added[name] = pvc
  BY NamedEntry
<1> HIDE DEF added
<1>4. QED
  BY <1>1, <1>2, <1>3 DEF StringToStringMap, ClaimAdded

\* The StatefulSet of the operator.
LEMMA OperatorStatefulSetEffect ==
  ASSUME NEW s, NEW m
  PROVE  LET b == OperatorStatefulSet(s, m)
         IN  /\ b.template = BuiltTemplate(s.template, m)
             /\ DOMAIN b.claims = DOMAIN s.claims \cup OperatorClaims
             /\ SettingsWritten(b, m)
<1> DEFINE b      == OperatorStatefulSet(s, m)
           chosen == [serviceName |-> "svc", replicas |-> m.stsReplicas,
                      updateStrategy |-> m.strategy]
<1>1. /\ b.template = BuiltTemplate(s.template, m)
      /\ b.claims = WithVolumeClaim(WithVolumeClaim(s.claims, "data-volume", "10G"),
                                    "logs-volume", "2G")
      /\ b.selector = [app |-> "svc"]
      /\ b.settings = StringToStringMap(s.settings, chosen)
  BY DEF OperatorStatefulSet, BuiltTemplate
<1> DEFINE data == WithVolumeClaim(s.claims, "data-volume", "10G")
<1> HIDE DEF b
<1>2. ClaimAdded(data, s.claims, "data-volume")
  BY WithVolumeClaimEffect
<1>3. ClaimAdded(b.claims, data, "logs-volume")
  BY <1>1, WithVolumeClaimEffect
<1> HIDE DEF data
<1>4. DOMAIN b.claims = DOMAIN s.claims \cup OperatorClaims
  BY <1>2, <1>3 DEF OperatorClaims, ClaimAdded
<1>5. \A v \in OperatorClaims : b.claims[v].accessModes = <<"ReadWriteOnce">>
  BY <1>2, <1>3 DEF OperatorClaims, ClaimAdded
<1>6. /\ {"serviceName", "replicas", "updateStrategy"} \subseteq DOMAIN b.settings
      /\ b.settings.serviceName = "svc" /\ b.settings.replicas = m.stsReplicas
      /\ b.settings.updateStrategy = m.strategy
  BY <1>1 DEF StringToStringMap
<1>7. SettingsWritten(b, m)
  BY <1>1, <1>4, <1>5, <1>6 DEF SettingsWritten
<1>8. QED
  BY <1>1, <1>4, <1>7 DEF b

\* What an update makes of the StatefulSet.
LEMMA UpdatedStatefulSet ==
  ASSUME NEW s, NEW m, NEW u \in DesiredStatefulSet(s, m), TemplateShape(s.template),
         \A v \in DOMAIN m.stsOverride.template.volumes :
           {"source", "fields"} \subseteq DOMAIN m.stsOverride.template.volumes[v]
  PROVE  /\ TemplateShape(u.template)
         /\ m.stsOverride = NewStatefulSetSpec =>
              SettingsWritten(u, m) /\ OperatorWrites(u.template, m)
         /\ /\ ProvidesItsMounts(m.stsOverride)
            /\ Backed(s.template, DOMAIN s.claims) /\ OneAgentMount(s.template)
            => /\ Backed(u.template, DOMAIN u.claims) /\ OneAgentMount(u.template)
               /\ \A c \in OperatorContainers : Required(m, c) \subseteq MountsOf(u.template, c)
<1> DEFINE b == OperatorStatefulSet(s, m)
           o == m.stsOverride
<1>1. PICK topology : u = StatefulSetSpecs(b, o, topology)
  BY DEF DesiredStatefulSet
<1>2. /\ b.template = BuiltTemplate(s.template, m)
      /\ DOMAIN b.claims = DOMAIN s.claims \cup OperatorClaims
      /\ SettingsWritten(b, m)
  BY OperatorStatefulSetEffect
<1> HIDE DEF b
<1>3. OperatorShape(b.template) /\ OperatorWrites(b.template, m)
  <2> DEFINE t == s.template
  <2>1. TemplateShape(t)
    OBVIOUS
  <2> HIDE DEF t
  <2>2. OperatorShape(BuiltTemplate(t, m)) /\ OperatorWrites(BuiltTemplate(t, m), m)
    BY <2>1, BuiltTemplateWrites
  <2>3. QED
    BY <1>2, <2>2 DEF t
<1>4. /\ u.template = PodTemplateSpecs(b.template, o.template, topology)
      /\ u.claims = VolumeClaimTemplates(b.claims, o.claims)
      /\ u.settings = StringToStringMap(b.settings, o.settings)
      /\ u.selector = StringToStringMap(b.selector, o.selector)
  BY <1>1 DEF StatefulSetSpecs
<1>5. DOMAIN u.claims = DOMAIN b.claims \cup DOMAIN o.claims
  BY <1>4 DEF VolumeClaimTemplates, MergeByName
<1> DEFINE t == b.template
<1>6. OperatorShape(t) /\ OperatorWrites(t, m)
  BY <1>3
<1> HIDE DEF t
<1>7. TemplateShape(u.template)
  <2>1. TemplateShape(PodTemplateSpecs(t, o.template, topology))
    BY <1>6, OverriddenShape
  <2>2. QED
    BY <1>4, <2>1 DEF t
<1>8. ASSUME m.stsOverride = NewStatefulSetSpec
      PROVE  SettingsWritten(u, m) /\ OperatorWrites(u.template, m)
  <2>1. /\ o.template = NewPodTemplate /\ o.claims = Nothing /\ o.settings = Nothing
        /\ o.selector = Nothing
    BY <1>8 DEF NewStatefulSetSpec
  <2>2. DOMAIN Nothing = {}
    BY DEF Nothing
  <2>3. OperatorWrites(u.template, m)
    <3>1. OperatorWrites(PodTemplateSpecs(t, NewPodTemplate, topology), m)
      BY <1>6, TemplateNotOverridden
    <3>2. QED
      BY <1>4, <2>1, <3>1 DEF t
  <2>4. /\ \A k \in DOMAIN b.settings : u.settings[k] = b.settings[k]
        /\ DOMAIN u.settings = DOMAIN b.settings
    BY <1>4, <2>1, <2>2 DEF StringToStringMap
  <2>5. u.selector = [app |-> "svc"]
    BY <1>2, <1>4, <2>1, <2>2 DEF StringToStringMap, SettingsWritten
  <2>6. \A v \in DOMAIN b.claims : u.claims[v] = b.claims[v]
    BY <1>4, <2>1, <2>2 DEF VolumeClaimTemplates, MergeByName
  <2>7. SettingsWritten(u, m)
    BY <1>2, <1>5, <2>4, <2>5, <2>6 DEF SettingsWritten
  <2>8. QED
    BY <2>3, <2>7
<1>9. ASSUME ProvidesItsMounts(m.stsOverride), Backed(s.template, DOMAIN s.claims),
             OneAgentMount(s.template)
      PROVE  /\ Backed(u.template, DOMAIN u.claims) /\ OneAgentMount(u.template)
             /\ \A c \in OperatorContainers : Required(m, c) \subseteq MountsOf(u.template, c)
  <2> DEFINE before == s.template
             claims == DOMAIN b.claims
  <2>1. TemplateShape(before) /\ OneAgentMount(before) /\ OperatorClaims \subseteq claims
    BY <1>2, <1>9
  <2>2. Backed(before, claims)
    BY <1>2, <1>9 DEF Backed
  <2>3. t = BuiltTemplate(before, m)
    BY <1>2 DEF t
  <2> HIDE DEF before, claims
  <2>4. /\ Backed(BuiltTemplate(before, m), claims) /\ OneAgentMount(BuiltTemplate(before, m))
        /\ \A c \in OperatorContainers :
             Required(m, c) \subseteq MountsOf(BuiltTemplate(before, m), c)
    BY <2>1, <2>2, BuiltTemplateEffect
  <2>5. LET v == PodTemplateSpecs(t, o.template, topology)
        IN  /\ Backed(v, claims \cup DOMAIN o.claims) /\ OneAgentMount(v)
            /\ OperatorContainers \subseteq DOMAIN v.containers
            /\ \A c \in OperatorContainers : MountsOf(t, c) \subseteq MountsOf(v, c)
    BY <1>6, <1>9, <2>1, <2>3, <2>4, OverriddenTemplate
  <2>6. u.template = PodTemplateSpecs(t, o.template, topology)
        /\ DOMAIN u.claims = claims \cup DOMAIN o.claims
    BY <1>4, <1>5 DEF t, claims
  <2>7. QED
    BY <2>3, <2>4, <2>5, <2>6
<1>10. QED
  BY <1>7, <1>8, <1>9

\* The StatefulSet has a template with sound volumes; if the spec it was last
\* updated for has no override, it has what the operator writes.
StatefulSetInvariant ==
  /\ TemplateShape(sts.template)
  /\ stsFrom # NoResource /\ stsFrom.stsOverride = NewStatefulSetSpec =>
       SettingsWritten(sts, stsFrom) /\ OperatorWrites(sts.template, stsFrom)

\* Its mounts have volumes, those of the agent's certificate are the agent's
\* only, and those the last update needs are there.
MountsInvariant ==
  /\ Backed(sts.template, DOMAIN sts.claims) /\ OneAgentMount(sts.template)
  /\ stsFrom # NoResource =>
       \A c \in OperatorContainers : Required(stsFrom, c) \subseteq MountsOf(sts.template, c)

\* A StatefulSet that does not exist.
LEMMA NewStatefulSet ==
  /\ TemplateShape(NewStatefulSetSpec.template)
  /\ Backed(NewStatefulSetSpec.template, DOMAIN NewStatefulSetSpec.claims)
  /\ OneAgentMount(NewStatefulSetSpec.template)
<1>1. NewStatefulSetSpec.template = NewPodTemplate
  BY DEF NewStatefulSetSpec
<1>2. /\ NewPodTemplate.volumes = Nothing /\ NewPodTemplate.containers = Nothing
      /\ NewPodTemplate.initContainers = Nothing
      /\ {"settings", "labels", "volumes", "containers", "initContainers", "hostAliases",
          "topology"} \subseteq DOMAIN NewPodTemplate
  BY DEF NewPodTemplate
<1>3. DOMAIN Nothing = {}
  BY DEF Nothing
<1>4. QED
  BY <1>1, <1>2, <1>3 DEF TemplateShape, Backed, OneAgentMount

\* The user's override is one of the specs'.
LEMMA ResourceOverride ==
  ASSUME StatusOK
  PROVE  /\ Resource.stsOverride = spec.stsOverride
         /\ \A v \in DOMAIN Resource.stsOverride.template.volumes :
              {"source", "fields"} \subseteq DOMAIN Resource.stsOverride.template.volumes[v]
         /\ OverridesProvide => ProvidesItsMounts(Resource.stsOverride)
<1>1. Resource.stsOverride = spec.stsOverride
  BY DEF Resource
<1>2. \A v \in DOMAIN spec.stsOverride.template.volumes :
        {"source", "fields"} \subseteq DOMAIN spec.stsOverride.template.volumes[v]
  BY UserSpecsAssumption DEF StatusOK, IsOverride, IsVolume
<1>3. OverridesProvide => ProvidesItsMounts(spec.stsOverride)
  BY DEF StatusOK, OverridesProvide
<1>4. QED
  BY <1>1, <1>2, <1>3

\* The invariant of the StatefulSet holds.
LEMMA StatefulSetInvariantHolds == Spec => []StatefulSetInvariant
<1>1. Init => StatefulSetInvariant
  BY NewStatefulSet DEF Init, StatefulSetInvariant
<1>2. StatusOK /\ StatefulSetInvariant /\ [Next]_vars => StatefulSetInvariant'
  <2> SUFFICES ASSUME StatusOK, StatefulSetInvariant, [Next]_vars PROVE StatefulSetInvariant'
    OBVIOUS
  <2>1. CASE CreateOrUpdateStatefulSet
    <3>1. sts' \in DesiredStatefulSet(sts, Resource) /\ stsFrom' = Resource
      BY <2>1 DEF CreateOrUpdateStatefulSet
    <3> DEFINE m == Resource
    <3>2. \A v \in DOMAIN m.stsOverride.template.volumes :
            {"source", "fields"} \subseteq DOMAIN m.stsOverride.template.volumes[v]
      BY ResourceOverride
    <3>3. sts' \in DesiredStatefulSet(sts, m) /\ stsFrom' = m
      BY <3>1
    <3> HIDE DEF m
    <3>4. TemplateShape(sts.template)
      BY DEF StatefulSetInvariant
    <3>5. /\ TemplateShape(sts'.template)
          /\ m.stsOverride = NewStatefulSetSpec =>
               SettingsWritten(sts', m) /\ OperatorWrites(sts'.template, m)
      BY <3>2, <3>3, <3>4, UpdatedStatefulSet
    <3>6. QED
      BY <3>3, <3>5 DEF StatefulSetInvariant
  <2>2. CASE LoseStatefulSet
    <3>1. sts' = NewStatefulSetSpec /\ stsFrom' = NoResource
      BY <2>2 DEF LoseStatefulSet
    <3>2. QED
      BY <3>1, NewStatefulSet DEF StatefulSetInvariant
  <2>3. CASE UNCHANGED <<sts, stsFrom>>
    BY <2>3 DEF StatefulSetInvariant
  <2>4. QED
    BY <2>1, <2>2, <2>3 DEF Next, vars, EnsureAutomationConfig, UpdateStatus, EditSpec,
                            LoseSecret
<1>3. QED
  BY <1>1, <1>2, StatusOKHolds, PTL DEF Spec

\* The invariant of the mounts holds.
LEMMA MountsInvariantHolds ==
  ASSUME OverridesProvide
  PROVE  Spec => []MountsInvariant
<1>1. Init => MountsInvariant
  BY NewStatefulSet DEF Init, MountsInvariant
<1>2. StatusOK /\ StatefulSetInvariant /\ MountsInvariant /\ [Next]_vars => MountsInvariant'
  <2> SUFFICES ASSUME StatusOK, StatefulSetInvariant, MountsInvariant, [Next]_vars
               PROVE  MountsInvariant'
    OBVIOUS
  <2>1. CASE CreateOrUpdateStatefulSet
    <3>1. sts' \in DesiredStatefulSet(sts, Resource) /\ stsFrom' = Resource
      BY <2>1 DEF CreateOrUpdateStatefulSet
    <3> DEFINE m == Resource
    <3>2. /\ \A v \in DOMAIN m.stsOverride.template.volumes :
               {"source", "fields"} \subseteq DOMAIN m.stsOverride.template.volumes[v]
          /\ ProvidesItsMounts(m.stsOverride)
      BY ResourceOverride
    <3>3. sts' \in DesiredStatefulSet(sts, m) /\ stsFrom' = m
      BY <3>1
    <3> HIDE DEF m
    <3>4. /\ TemplateShape(sts.template)
          /\ Backed(sts.template, DOMAIN sts.claims) /\ OneAgentMount(sts.template)
      BY DEF StatefulSetInvariant, MountsInvariant
    <3>5. /\ Backed(sts'.template, DOMAIN sts'.claims) /\ OneAgentMount(sts'.template)
          /\ \A c \in OperatorContainers : Required(m, c) \subseteq MountsOf(sts'.template, c)
      BY <3>2, <3>3, <3>4, UpdatedStatefulSet
    <3>6. QED
      BY <3>3, <3>5 DEF MountsInvariant
  <2>2. CASE LoseStatefulSet
    <3>1. sts' = NewStatefulSetSpec /\ stsFrom' = NoResource
      BY <2>2 DEF LoseStatefulSet
    <3>2. QED
      BY <3>1, NewStatefulSet DEF MountsInvariant
  <2>3. CASE UNCHANGED <<sts, stsFrom>>
    BY <2>3 DEF MountsInvariant
  <2>4. QED
    BY <2>1, <2>2, <2>3 DEF Next, vars, EnsureAutomationConfig, UpdateStatus, EditSpec,
                            LoseSecret
<1>3. QED
  BY <1>1, <1>2, StatusOKHolds, StatefulSetInvariantHolds, PTL DEF Spec

\* Every mount names a volume or a claim of the StatefulSet through every
\* change of certificates and overrides, if no override mounts what neither it
\* nor the operator provides.
THEOREM MountsTheorem ==
  ASSUME OverridesProvide
  PROVE  Spec => []MountsHaveVolumes
<1>1. MountsInvariant => MountsHaveVolumes
  BY DEF MountsInvariant, Backed, MountsOf, MountsHaveVolumes
<1>2. QED
  BY <1>1, MountsInvariantHolds, PTL

\* When the user withdraws an override, every value the operator chooses is
\* back after the next update, whatever overrides there have been.
THEOREM OverrideRemovalTheorem == Spec => []OverrideRemovalRestores
<1>1. StatefulSetInvariant /\ StatusOK => OverrideRemovalRestores
  <2> DEFINE names == {AgentName, MongodbName}
             init  == {HookName, ProbeName}
             m     == Resource
             none  == NewStatefulSetSpec
             fresh == OperatorStatefulSet(none, m)
  <2> SUFFICES ASSUME StatefulSetInvariant, StatusOK, stsFrom = Resource,
                      spec.stsOverride = NewStatefulSetSpec
               PROVE  Written(sts, names, init) = Written(fresh, names, init)
    BY DEF OverrideRemovalRestores
  <2>1. Resource # NoResource /\ Resource.stsOverride = NewStatefulSetSpec
    <3>1. "version" \in DOMAIN Resource
      BY DEF Resource
    <3>2. DOMAIN NoResource = {}
      BY DEF NoResource, Nothing
    <3>3. QED
      BY <3>1, <3>2, ResourceOverride
  <2>2. SettingsWritten(sts, m) /\ OperatorWrites(sts.template, m)
    BY <2>1 DEF StatefulSetInvariant
  <2> HIDE DEF m, none
  <2>3. SettingsWritten(fresh, m) /\ fresh.template = BuiltTemplate(none.template, m)
    BY OperatorStatefulSetEffect
  <2>4. OperatorWrites(fresh.template, m)
    <3> DEFINE t == none.template
    <3>1. TemplateShape(t)
      BY NewStatefulSet DEF none
    <3> HIDE DEF t
    <3>2. OperatorWrites(BuiltTemplate(t, m), m)
      BY <3>1, BuiltTemplateWrites
    <3>3. QED
      BY <2>3, <3>2 DEF t
  <2> HIDE DEF fresh
  <2>5. ASSUME NEW s, SettingsWritten(s, m), OperatorWrites(s.template, m)
        PROVE  Written(s, names, init) =
          [settings |-> [k \in {"serviceName", "replicas", "updateStrategy"} |->
                           IF k = "serviceName" THEN "svc"
                           ELSE IF k = "replicas" THEN m.stsReplicas ELSE m.strategy],
           selector |-> [app |-> "svc"],
           labels   |-> [app |-> "svc"],
           podSettings |-> [k \in {"serviceAccountName", "securityContext"} |-> "operator"],
           volumes  |-> [v \in {"healthstatus", "hooks", "tmp", "keyfile", "agent-scripts",
                                "automation-config"} |->
                           IF v = "automation-config" THEN "secret" ELSE "emptyDir"],
           config   |-> "config",
           containers |-> [c \in names |->
              [image     |-> IF c = AgentName THEN "agent" ELSE m.version,
               command   |-> IF c = AgentName THEN m.agentLogFile ELSE GetDBDataDir(m),
               resources |-> [requests |-> "operator", limits |-> "operator"],
               security  |-> [readOnlyRootFilesystem |-> "operator"]]],
           init     |-> [c \in init |->
              IF c = HookName THEN "version-upgrade-hook" ELSE "readinessprobe"],
           modes    |-> [v \in {"data-volume", "logs-volume"} |-> <<"ReadWriteOnce">>]]
    <3> USE <2>5
    <3>1. [k \in {"serviceName", "replicas", "updateStrategy"} |-> s.settings[k]]
          = [k \in {"serviceName", "replicas", "updateStrategy"} |->
               IF k = "serviceName" THEN "svc"
               ELSE IF k = "replicas" THEN m.stsReplicas ELSE m.strategy]
      BY DEF SettingsWritten
    <3>2. [k \in {"serviceAccountName", "securityContext"} |-> s.template.settings[k]]
          = [k \in {"serviceAccountName", "securityContext"} |-> "operator"]
      BY DEF OperatorWrites
    <3>3. [v \in {"healthstatus", "hooks", "tmp", "keyfile", "agent-scripts",
                  "automation-config"} |-> s.template.volumes[v].source]
          = [v \in {"healthstatus", "hooks", "tmp", "keyfile", "agent-scripts",
                    "automation-config"} |->
               IF v = "automation-config" THEN "secret" ELSE "emptyDir"]
      BY DEF OperatorWrites, OperatorVolumes
    <3>4. [c \in names |->
             LET d == s.template.containers[c]
             IN  [image |-> d.settings.image, command |-> d.settings.command,
                  resources |-> d.resources, security |-> d.securityContext]]
          = [c \in names |->
              [image     |-> IF c = AgentName THEN "agent" ELSE m.version,
               command   |-> IF c = AgentName THEN m.agentLogFile ELSE GetDBDataDir(m),
               resources |-> [requests |-> "operator", limits |-> "operator"],
               security  |-> [readOnlyRootFilesystem |-> "operator"]]]
      <4>1. AgentName # MongodbName
        BY DEF AgentName, MongodbName
      <4>2. QED
        BY <4>1 DEF OperatorWrites, OperatorContainers
    <3>5. [c \in init |-> s.template.initContainers[c].settings.image]
          = [c \in init |-> IF c = HookName THEN "version-upgrade-hook" ELSE "readinessprobe"]
      <4>1. HookName # ProbeName
        BY DEF HookName, ProbeName
      <4>2. QED
        BY <4>1 DEF OperatorWrites
    <3>6. [v \in {"data-volume", "logs-volume"} |-> s.claims[v].accessModes]
          = [v \in {"data-volume", "logs-volume"} |-> <<"ReadWriteOnce">>]
      BY DEF SettingsWritten, OperatorClaims
    <3>7. /\ s.selector = [app |-> "svc"] /\ s.template.labels = [app |-> "svc"]
          /\ s.template.volumes["automation-config"].fields.secretName = "config"
      BY DEF SettingsWritten, OperatorWrites
    <3>8. QED
      BY <3>1, <3>2, <3>3, <3>4, <3>5, <3>6, <3>7, Zenon DEF Written
  <2>6. QED
    BY <2>2, <2>3, <2>4, <2>5
<1>2. QED
  BY <1>1, StatusOKHolds, StatefulSetInvariantHolds, PTL

-----------------------------------------------------------------------------
(***************************************************************************)
(* The files the config names.                                             *)
(***************************************************************************)
\* Without TLS the user names no certificates either.
NoOwnCertificates ==
  \A s \in UserSpecs : s.tls \/ {"caFile", "certificateKeyFile"} \cap DOMAIN s.mongodConfig = {}

\* The files in the arguments of a mongod.
ArgsName(args, m) ==
  /\ args.dbPath = GetDBDataDir(m)
  /\ m.tls => args.caFile = "/tls/ca" /\ args.certificateKeyFile = "/tls/server"
  /\ ~m.tls => {"caFile", "certificateKeyFile"} \cap DOMAIN args = {}

\* The files in a config.
ContentNames(c, m) ==
  /\ ~m.tls => c.tls.caFile = NoFile /\ c.tls.autoPEMKeyFile = NoFile
  /\ m.tls => /\ c.tls.caFile = "/tls/ca"
              /\ c.tls.autoPEMKeyFile = IF m.x509 THEN "/agent-certs" ELSE NoFile
  /\ m.prometheus # NoPrometheus =>
       c.prometheus.tlsPemPath = IF m.prometheus = "https" THEN "/tls/prometheus" ELSE NoFile
  /\ \A i \in DOMAIN c.processes : ArgsName(c.processes[i].args, m)

\* The arguments of a process, once those of the user and the certificates are
\* merged into them.
LEMMA MergedArgs ==
  ASSUME NEW m, m.tls \/ {"caFile", "certificateKeyFile"} \cap DOMAIN m.mongodConfig = {}
  PROVE  LET first  == StringToStringMap([dbPath |-> "/data", replSetName |-> "name"],
                                         m.mongodConfig)
             second == StringToStringMap(first, [caFile |-> "/tls/ca",
                                                 certificateKeyFile |-> "/tls/server"])
         IN  /\ m.tls => ArgsName(second, m)
             /\ ~m.tls => ArgsName(first, m)
<1> DEFINE own    == m.mongodConfig
           first  == StringToStringMap([dbPath |-> "/data", replSetName |-> "name"], own)
           second == StringToStringMap(first, [caFile |-> "/tls/ca",
                                               certificateKeyFile |-> "/tls/server"])
<1>1. /\ DOMAIN first = {"dbPath", "replSetName"} \cup DOMAIN own
      /\ first.dbPath = IF "dbPath" \in DOMAIN own THEN own.dbPath ELSE "/data"
  BY DEF StringToStringMap
<1>2. first.dbPath = GetDBDataDir(m)
  BY <1>1 DEF GetDBDataDir
<1> HIDE DEF first
<1>3. /\ second.dbPath = first.dbPath
      /\ second.caFile = "/tls/ca" /\ second.certificateKeyFile = "/tls/server"
  BY <1>1 DEF StringToStringMap
<1> HIDE DEF second
<1>4. m.tls => ArgsName(second, m)
  BY <1>2, <1>3 DEF ArgsName
<1>5. ~m.tls => ArgsName(first, m)
  BY <1>1, <1>2 DEF ArgsName
<1>6. QED
  BY <1>4, <1>5 DEF first, second

\* The files in what is built.
LEMMA BuiltContentNames ==
  ASSUME NEW m, NEW previous,
         m.tls \/ {"caFile", "certificateKeyFile"} \cap DOMAIN m.mongodConfig = {}
  PROVE  ContentNames(BuiltContent(m, previous), m)
<1> DEFINE n       == m.acMembers + m.acArbiters
           fcv     == FeatureCompatibilityVersion(m, previous)
           initial == [processes    |-> [i \in 1 .. n |-> Process(m, i - 1, fcv)],
                       members      |-> [i \in 1 .. n |-> ReplicaSetMember(m, i - 1)],
                       replicaSetId |-> IF m.acOverride.replicaSetId = "" THEN "name"
                                       ELSE m.acOverride.replicaSetId,
                       settings     |-> m.acOverride.settings,
                       tls          |-> [caFile |-> NoFile, autoPEMKeyFile |-> NoFile],
                       prometheus   |-> Nothing,
                       roles        |-> Nothing]
           base    == [dbPath |-> "/data", replSetName |-> "name"]
           certs   == [caFile |-> "/tls/ca", certificateKeyFile |-> "/tls/server"]
           first   == StringToStringMap(base, m.mongodConfig)
           second  == StringToStringMap(first, certs)
           a       == WithMongodConfig(initial, m)
           b       == WithTLS(a, m)
           c       == WithRoles(b, m)
           d       == WithPrometheus(c, m)
<1>1. ContentShape(initial, m, fcv)
  BY ProcessShape DEF ContentShape, Processes
<1>2. BuiltContent(m, previous) = d
  BY DEF BuiltContent
<1>3. /\ DOMAIN initial.processes = 1 .. n
      /\ initial.tls = [caFile |-> NoFile, autoPEMKeyFile |-> NoFile]
      /\ \A i \in 1 .. n : initial.processes[i].args = base
  <2>1. \A i : Process(m, i, fcv).args = base
    BY DEF Process, ConfigureAgentConfiguration
  <2>2. QED
    BY <2>1
<1> HIDE DEF initial, fcv, base, certs
<1>4. /\ ContentShape(a, m, fcv) /\ a.tls = initial.tls
      /\ DOMAIN a.processes = 1 .. n /\ \A i \in 1 .. n : a.processes[i].args = first
  <2>1. ContentShape(a, m, fcv)
    BY <1>1, WithMongodConfigShape
  <2>2. {"tls", "processes"} \subseteq DOMAIN initial
    BY <1>1 DEF ContentShape
  <2> DEFINE old == initial.processes
             own == m.mongodConfig
  <2>3. a.tls = initial.tls /\ a.processes = [i \in DOMAIN old |-> WithArgs(old[i], own)]
    BY <2>2 DEF WithMongodConfig
  <2>4. \A i \in 1 .. n : "args" \in DOMAIN old[i] /\ old[i].args = base
    BY <1>1, <1>3 DEF ContentShape, Processes
  <2>5. DOMAIN old = 1 .. n
    BY <1>3
  <2> HIDE DEF a, old, own, n
  <2>6. \A i \in 1 .. n : WithArgs(old[i], own).args = StringToStringMap(base, own)
    BY <2>4 DEF WithArgs
  <2>7. QED
    BY <2>1, <2>3, <2>5, <2>6 DEF own
<1> HIDE DEF a, first
<1>5. /\ ContentShape(b, m, fcv) /\ DOMAIN b.processes = 1 .. n
      /\ ~m.tls => /\ b.tls.caFile = NoFile /\ b.tls.autoPEMKeyFile = NoFile
                   /\ \A i \in 1 .. n : b.processes[i].args = first
      /\ m.tls => /\ b.tls.caFile = "/tls/ca"
                  /\ b.tls.autoPEMKeyFile = IF m.x509 THEN "/agent-certs" ELSE NoFile
                  /\ \A i \in 1 .. n : b.processes[i].args = second
  <2>1. ContentShape(b, m, fcv)
    BY <1>4, WithTLSShape
  <2>2. CASE ~m.tls
    <3>1. b = a
      BY <2>2 DEF WithTLS
    <3> HIDE DEF b, second, n
    <3>2. b.tls.caFile = NoFile /\ b.tls.autoPEMKeyFile = NoFile
      <4>1. b.tls = [caFile |-> NoFile, autoPEMKeyFile |-> NoFile]
        BY <1>3, <1>4, <3>1
      <4>2. QED
        BY <4>1
    <3>3. DOMAIN b.processes = 1 .. n /\ \A i \in 1 .. n : b.processes[i].args = first
      BY <1>4, <3>1
    <3>4. QED
      BY <2>1, <2>2, <3>2, <3>3
  <2>3. CASE m.tls
    <3>1. {"tls", "processes"} \subseteq DOMAIN a
      BY <1>4 DEF ContentShape
    <3> DEFINE old == a.processes
    <3>2. /\ b.tls = [caFile |-> "/tls/ca",
                      autoPEMKeyFile |-> IF m.x509 THEN "/agent-certs" ELSE NoFile]
          /\ b.processes = [i \in DOMAIN old |-> WithArgs(old[i], certs)]
      BY <2>3, <3>1 DEF WithTLS, certs
    <3>3. \A i \in 1 .. n : "args" \in DOMAIN old[i] /\ old[i].args = first
      BY <1>4 DEF ContentShape, Processes
    <3>4. DOMAIN old = 1 .. n
      BY <1>4
    <3> HIDE DEF b, old, n
    <3>5. \A i \in 1 .. n : WithArgs(old[i], certs).args = second
      BY <3>3 DEF WithArgs
    <3>6. DOMAIN b.processes = 1 .. n /\ \A i \in 1 .. n : b.processes[i].args = second
      BY <3>2, <3>4, <3>5
    <3>7. b.tls.caFile = "/tls/ca"
          /\ b.tls.autoPEMKeyFile = IF m.x509 THEN "/agent-certs" ELSE NoFile
      BY <3>2
    <3> HIDE DEF second
    <3>8. QED
      BY <2>1, <2>3, <3>6, <3>7
  <2>4. QED
    BY <2>2, <2>3
<1> HIDE DEF b, second
<1>6. /\ c.tls = b.tls /\ c.processes = b.processes /\ ContentShape(c, m, fcv)
  BY <1>5, WithRolesShape DEF WithRoles, ContentShape
<1> HIDE DEF c
<1>7. /\ d.tls = c.tls /\ d.processes = c.processes
      /\ m.prometheus # NoPrometheus =>
           d.prometheus.tlsPemPath = IF m.prometheus = "https" THEN "/tls/prometheus" ELSE NoFile
  BY <1>6 DEF WithPrometheus, ContentShape
<1> HIDE DEF d
<1>8. /\ m.tls => ArgsName(second, m)
      /\ ~m.tls => ArgsName(first, m)
  BY MergedArgs DEF second, first, base, certs
<1>9. \A i \in DOMAIN d.processes : ArgsName(d.processes[i].args, m)
  BY <1>5, <1>6, <1>7, <1>8
<1>10. ContentNames(d, m)
  BY <1>5, <1>6, <1>7, <1>9 DEF ContentNames
<1>11. QED
  BY <1>2, <1>10

\* The override changes no file names.
LEMMA DesiredContentNames ==
  ASSUME NEW m, NEW previous,
         m.tls \/ {"caFile", "certificateKeyFile"} \cap DOMAIN m.mongodConfig = {}
  PROVE  ContentNames(BuildAutomationConfig(m, previous).content, m)
<1> DEFINE fcv       == FeatureCompatibilityVersion(m, previous)
           built     == Build(m, previous)
           processes == OverrideToAutomationConfig(m.acOverride.processes)
           merged    == MergeProcesses(built, processes)
<1>1. built.content = BuiltContent(m, previous) /\ {"version", "content"} \subseteq DOMAIN built
  BY DEF Build
<1>2. ContentShape(built.content, m, fcv) /\ ContentNames(built.content, m)
  BY <1>1, BuiltContentShape, BuiltContentNames
<1> HIDE DEF built, processes, fcv
<1>3. /\ merged.content.tls = built.content.tls
      /\ merged.content.prometheus = built.content.prometheus
      /\ DOMAIN merged.content.processes = DOMAIN built.content.processes
      /\ \A i \in DOMAIN built.content.processes :
           merged.content.processes[i].args = built.content.processes[i].args
  BY <1>1, <1>2 DEF MergeProcesses, ContentShape
<1>4. BuildAutomationConfig(m, previous) = merged
  BY DEF BuildAutomationConfig, built, processes
<1> HIDE DEF merged
<1>5. QED
  BY <1>2, <1>3, <1>4 DEF ContentNames

\* The config names the files of the resource it was ensured for.
NamesInvariant == configFrom # NoResource => ContentNames(config.content, configFrom)

\* The invariant of the file names holds.
LEMMA NamesInvariantHolds ==
  ASSUME NoOwnCertificates
  PROVE  Spec => []NamesInvariant
<1>1. Init => NamesInvariant
  BY DEF Init, NamesInvariant
<1>2. StatusOK /\ ConfigInvariant /\ NamesInvariant /\ [Next]_vars => NamesInvariant'
  <2> SUFFICES ASSUME StatusOK, ConfigInvariant, NamesInvariant, [Next]_vars
               PROVE  NamesInvariant'
    OBVIOUS
  <2>1. CASE EnsureAutomationConfig
    <3> DEFINE m == Resource
    <3>1. configFrom' = m /\ config'.content = BuildAutomationConfig(m, config).content
      BY <2>1, EnsuredConfig
    <3>2. m.tls \/ {"caFile", "certificateKeyFile"} \cap DOMAIN m.mongodConfig = {}
      <4>1. m.tls = spec.tls /\ m.mongodConfig = spec.mongodConfig
        BY DEF Resource
      <4>2. spec.tls \/ {"caFile", "certificateKeyFile"} \cap DOMAIN spec.mongodConfig = {}
        BY DEF StatusOK, NoOwnCertificates
      <4> HIDE DEF m
      <4>3. QED
        BY <4>1, <4>2
    <3> HIDE DEF m
    <3>3. ContentNames(BuildAutomationConfig(m, config).content, m)
      BY <3>2, DesiredContentNames
    <3>4. QED
      BY <3>1, <3>3 DEF NamesInvariant
  <2>2. CASE LoseSecret
    BY <2>2 DEF LoseSecret, NamesInvariant
  <2>3. CASE UNCHANGED <<config, configFrom>>
    BY <2>3 DEF NamesInvariant
  <2>4. QED
    BY <2>1, <2>2, <2>3 DEF Next, vars, CreateOrUpdateStatefulSet, UpdateStatus, EditSpec,
                            LoseStatefulSet
<1>3. QED
  BY <1>1, <1>2, StatusOKHolds, ConfigInvariantHolds, PTL DEF Spec

\* When both objects are deployed, every file the config names is in a
\* directory that is mounted where it is read, for every override that
\* provides what it mounts and any data directory: as long as certificates are
\* not named by hand without TLS.
THEOREM NamedFilesTheorem ==
  ASSUME OverridesProvide, NoOwnCertificates
  PROVE  Spec => []NamedFilesMounted
<1>1. NamesInvariant /\ MountsInvariant => NamedFilesMounted
  <2> DEFINE Paths(c) == {k[2] : k \in DOMAIN sts.template.containers[c].mounts}
             content  == config.content
             files    == {"dbPath", "caFile", "certificateKeyFile"}
             endpoint == IF spec.prometheus # NoPrometheus
                         THEN {content.prometheus.tlsPemPath} ELSE {}
             used1    == UNION {{p.args[a] : a \in DOMAIN p.args \cap files} :
                                  p \in {content.processes[i] : i \in DOMAIN content.processes}}
             named    == endpoint \cup {content.tls.caFile} \cup used1
  <2> SUFFICES ASSUME NamesInvariant, MountsInvariant, Deployed, ConfigExists
               PROVE  /\ named \ {NoFile} \subseteq Paths(AgentName) \cap Paths(MongodbName)
                      /\ {content.tls.autoPEMKeyFile} \ {NoFile} \subseteq Paths(AgentName)
    BY DEF NamedFilesMounted
  <2> DEFINE m == Resource
  <2>1. m # NoResource /\ configFrom = m /\ stsFrom = m /\ m.prometheus = spec.prometheus
    <3>1. "version" \in DOMAIN Resource
      BY DEF Resource
    <3>2. DOMAIN NoResource = {}
      BY DEF NoResource, Nothing
    <3>3. Resource.prometheus = spec.prometheus
      BY DEF Resource
    <3>4. QED
      BY <3>1, <3>2, <3>3 DEF Deployed
  <2> HIDE DEF m, content
  <2>2. ContentNames(content, m)
    BY <2>1 DEF NamesInvariant, content
  <2>3. /\ \A c \in OperatorContainers : Required(m, c) \subseteq MountsOf(sts.template, c)
        /\ AgentName \in OperatorContainers /\ MongodbName \in OperatorContainers
    BY <2>1 DEF MountsInvariant, OperatorContainers
  <2>4. ASSUME NEW c \in OperatorContainers
        PROVE  /\ GetDBDataDir(m) \in Paths(c)
               /\ m.tls => "/tls/ca" \in Paths(c) /\ "/tls/server" \in Paths(c)
               /\ m.prometheus = "https" => "/tls/prometheus" \in Paths(c)
               /\ c = AgentName /\ m.x509 => "/agent-certs" \in Paths(c)
    <3>1. ASSUME NEW k \in Required(m, c) PROVE k[2] \in Paths(c)
      BY <2>3, <2>4, <3>1 DEF MountsOf
    <3>2. <<"data-volume", GetDBDataDir(m)>> \in Required(m, c)
      BY DEF Required
    <3>3. m.tls => /\ <<"tls-ca", "/tls/ca">> \in Required(m, c)
                   /\ <<"tls-secret", "/tls/server">> \in Required(m, c)
      BY DEF Required, TLSMounts
    <3>4. m.prometheus = "https" => <<"prom-tls-secret", "/tls/prometheus">> \in Required(m, c)
      BY DEF Required, PrometheusMounts
    <3>5. c = AgentName /\ m.x509 => <<AgentPemFile, "/agent-certs">> \in Required(m, c)
      BY DEF Required, AgentMount
    <3> HIDE DEF Paths
    <3>6. /\ \A x, y : <<x, y>>[2] = y
      OBVIOUS
    <3>7. QED
      BY <3>1, <3>2, <3>3, <3>4, <3>5, <3>6
  <2>5. ASSUME NEW i \in DOMAIN content.processes,
               NEW a \in DOMAIN content.processes[i].args \cap files
        PROVE  content.processes[i].args[a] \in Paths(AgentName) \cap Paths(MongodbName)
    <3>1. ArgsName(content.processes[i].args, m)
      BY <2>2, <2>5 DEF ContentNames
    <3> HIDE DEF Paths
    <3>2. CASE a = "dbPath"
      BY <2>3, <2>4, <3>1, <3>2 DEF ArgsName
    <3>3. CASE a \in {"caFile", "certificateKeyFile"}
      <4>1. m.tls
        BY <2>5, <3>1, <3>3 DEF ArgsName
      <4>2. QED
        BY <2>3, <2>4, <3>1, <3>3, <4>1 DEF ArgsName
    <3>4. QED
      BY <2>5, <3>2, <3>3
  <2>6. used1 \subseteq Paths(AgentName) \cap Paths(MongodbName)
    <3> HIDE DEF Paths, files
    <3>1. QED
      BY <2>5
  <2>7. endpoint \ {NoFile} \subseteq Paths(AgentName) \cap Paths(MongodbName)
    <3> HIDE DEF Paths
    <3>1. QED
      BY <2>1, <2>2, <2>3, <2>4 DEF ContentNames
  <2>8. {content.tls.caFile} \ {NoFile} \subseteq Paths(AgentName) \cap Paths(MongodbName)
    <3> HIDE DEF Paths
    <3>1. QED
      BY <2>2, <2>3, <2>4 DEF ContentNames
  <2>9. {content.tls.autoPEMKeyFile} \ {NoFile} \subseteq Paths(AgentName)
    <3> HIDE DEF Paths
    <3>1. QED
      BY <2>2, <2>3, <2>4 DEF ContentNames
  <2> HIDE DEF Paths, endpoint, used1
  <2>10. QED
    BY <2>6, <2>7, <2>8, <2>9
<1>2. QED
  BY <1>1, NamesInvariantHolds, MountsInvariantHolds, PTL

-----------------------------------------------------------------------------
(***************************************************************************)
(* Reconciling again: the config.                                          *)
(***************************************************************************)
\* The compatibility version is all that is taken over from the config that is
\* there.
LEMMA ContentOfFCV ==
  ASSUME NEW m, NEW p, NEW q,
         FeatureCompatibilityVersion(m, p) = FeatureCompatibilityVersion(m, q)
  PROVE  BuildAutomationConfig(m, p).content = BuildAutomationConfig(m, q).content
<1> DEFINE processes == OverrideToAutomationConfig(m.acOverride.processes)
           MergeProcess(r, o) == [r EXCEPT !.disabled = o.disabled, !.logRotate = o.logRotate]
           Merged(content) == [content EXCEPT !.processes =
             [i \in DOMAIN @ |-> IF @[i].name \in DOMAIN processes
                                 THEN MergeProcess(@[i], processes[@[i].name])
                                 ELSE @[i]]]
<1>1. BuiltContent(m, p) = BuiltContent(m, q)
  BY DEF BuiltContent
<1>2. ASSUME NEW previous
      PROVE  BuildAutomationConfig(m, previous).content = Merged(BuiltContent(m, previous))
  <2> DEFINE c == Build(m, previous)
  <2>1. "content" \in DOMAIN c /\ c.content = BuiltContent(m, previous)
    BY DEF Build
  <2>2. BuildAutomationConfig(m, previous) = MergeProcesses(c, processes)
    BY DEF BuildAutomationConfig
  <2> HIDE DEF c, processes
  <2>3. MergeProcesses(c, processes).content = Merged(c.content)
    BY <2>1 DEF MergeProcesses
  <2>4. QED
    BY <2>1, <2>2, <2>3
<1> HIDE DEF Merged
<1>3. QED
  BY <1>1, <1>2

\* The content is the one wanted for the resource it was written for.
SettledConfig ==
  configFrom # NoResource =>
    config.content = BuildAutomationConfig(configFrom, config).content

\* A compatibility version that was chosen is chosen again.
LEMMA FCVChosenAgain ==
  ASSUME StatusOK, ConfigInvariant, ConfigInvariant', EnsureAutomationConfig
  PROVE  FeatureCompatibilityVersion(Resource, config')
           = FeatureCompatibilityVersion(Resource, config)
<1> DEFINE m   == Resource
           fcv == FeatureCompatibilityVersion(m, config)
<1>1. /\ configFrom' = m /\ SoundResource(m) /\ m # NoResource
      /\ FCVOf(config') = fcv
  BY EnsuredConfig
<1>2. Len(config'.content.processes) > 0
  <2> HIDE DEF m, fcv
  <2>1. Processes(m) \in Nat /\ Processes(m) > 0
    BY <1>1 DEF Processes, SoundResource
  <2>2. Len(config'.content.processes) = Processes(m)
    BY <1>1, <2>1 DEF ConfigInvariant, ContentShape
  <2>3. QED
    BY <2>1, <2>2
<1>3. FeatureCompatibilityVersion(m, config')
        = IF m.fcv # NoFCV THEN m.fcv
          ELSE IF NewerThan(m.version, FCVOf(config')) THEN FCVOf(config') ELSE m.version[1]
  BY <1>2 DEF FeatureCompatibilityVersion, CalculateFeatureCompatibilityVersion, FCVOf
<1>4. \/ fcv = m.fcv /\ m.fcv # NoFCV
      \/ m.fcv = NoFCV /\ NewerThan(m.version, fcv)
      \/ m.fcv = NoFCV /\ fcv = m.version[1]
  BY DEF FeatureCompatibilityVersion, CalculateFeatureCompatibilityVersion
<1> HIDE DEF m, fcv
<1>5. FeatureCompatibilityVersion(m, config') = fcv
  BY <1>1, <1>3, <1>4
<1>6. QED
  BY <1>5 DEF m, fcv

\* The invariant holds.
LEMMA SettledConfigHolds == Spec => []SettledConfig
<1>1. Init => SettledConfig
  BY DEF Init, SettledConfig
<1>2. /\ StatusOK /\ ConfigInvariant /\ ConfigInvariant' /\ SettledConfig /\ [Next]_vars
      => SettledConfig'
  <2> SUFFICES ASSUME StatusOK, ConfigInvariant, ConfigInvariant', SettledConfig, [Next]_vars
               PROVE  SettledConfig'
    OBVIOUS
  <2>1. CASE EnsureAutomationConfig
    <3>1. /\ configFrom' = Resource
          /\ config'.content = BuildAutomationConfig(Resource, config).content
      BY <2>1, EnsuredConfig
    <3>2. BuildAutomationConfig(Resource, config').content
            = BuildAutomationConfig(Resource, config).content
      BY <2>1, FCVChosenAgain, ContentOfFCV
    <3>3. QED
      BY <3>1, <3>2 DEF SettledConfig
  <2>2. CASE LoseSecret
    BY <2>2 DEF LoseSecret, SettledConfig
  <2>3. CASE UNCHANGED <<config, configFrom>>
    BY <2>3 DEF SettledConfig
  <2>4. QED
    BY <2>1, <2>2, <2>3 DEF Next, vars, CreateOrUpdateStatefulSet, UpdateStatus, EditSpec,
                            LoseStatefulSet
<1>3. QED
  BY <1>1, <1>2, ConfigInvariantHolds, StatusOKHolds, PTL DEF Spec

\* A settled config is left alone.
LEMMA ConfigLeftAlone ==
  ASSUME ConfigInvariant, SettledConfig, configFrom = Resource, Resource # NoResource
  PROVE  EnsureSecret(config, BuildAutomationConfig(Resource, config)) = config
<1> DEFINE desired == BuildAutomationConfig(Resource, config)
<1>1. config.content = desired.content
  BY DEF SettledConfig
<1>2. config.version > 0
  BY DEF ConfigInvariant
<1> HIDE DEF desired
<1>3. EnsureSecret(config, desired) = config
  BY <1>1, <1>2 DEF EnsureSecret, AreEqual
<1>4. QED
  BY <1>3 DEF desired

\* A resource is there.
LEMMA ResourceIsThere == Resource # NoResource
<1>1. "version" \in DOMAIN Resource
  BY DEF Resource
<1>2. DOMAIN NoResource = {}
  BY DEF NoResource, Nothing
<1>3. QED
  BY <1>1, <1>2

-----------------------------------------------------------------------------
(***************************************************************************)
(* Reconciling again: lists of strings.                                    *)
(***************************************************************************)
\* The positions before i.
Before(S, i) == {j \in S : j < i}

\* Two members of a finite set of numbers with as many smaller members are the
\* same one, and there are fewer smaller members than members.
LEMMA RankDetermines ==
  ASSUME NEW S, IsFiniteSet(S), S \subseteq Nat, NEW i \in S
  PROVE  /\ Cardinality(Before(S, i)) \in Nat
         /\ Cardinality(Before(S, i)) < Cardinality(S)
         /\ \A k \in S : Cardinality(Before(S, k)) = Cardinality(Before(S, i)) => k = i
<1>1. \A k \in S : /\ IsFiniteSet(Before(S, k)) /\ Cardinality(Before(S, k)) \in Nat
                   /\ Before(S, k) \subseteq S
  BY FS_Subset, FS_CardinalityType DEF Before
<1>2. ASSUME NEW k \in S, NEW l \in S, k < l
      PROVE  Cardinality(Before(S, k)) # Cardinality(Before(S, l))
  <2>0. k \in Nat /\ l \in Nat
    OBVIOUS
  <2>1. Before(S, k) \subseteq Before(S, l) /\ k \in Before(S, l) /\ k \notin Before(S, k)
    <3>1. \A j \in S : j < k => j < l
      BY <1>2, <2>0
    <3>2. ~(k < k)
      BY <2>0
    <3>3. \A x, j : j \in Before(S, x) <=> j \in S /\ j < x
      BY DEF Before
    <3>4. QED
      BY <1>2, <3>1, <3>2, <3>3
  <2>2. IsFiniteSet(Before(S, l))
    BY <1>1
  <2>3. QED
    BY <2>1, <2>2, FS_Subset
<1>3. Cardinality(Before(S, i)) < Cardinality(S)
  <2>1. Before(S, i) \subseteq S /\ i \notin Before(S, i)
    BY DEF Before
  <2>2. Cardinality(S) \in Nat /\ Cardinality(Before(S, i)) \in Nat
    BY <1>1, FS_CardinalityType
  <2>3. Cardinality(Before(S, i)) <= Cardinality(S) /\ Cardinality(Before(S, i)) # Cardinality(S)
    BY <2>1, FS_Subset
  <2>4. QED
    BY <2>2, <2>3
<1>4. ASSUME NEW k \in S, Cardinality(Before(S, k)) = Cardinality(Before(S, i))
      PROVE  k = i
  <2>1. k \in Nat /\ i \in Nat
    OBVIOUS
  <2>2. ~(k < i) /\ ~(i < k)
    BY <1>2, <1>4
  <2>3. QED
    BY <2>1, <2>2
<1>5. QED
  BY <1>1, <1>3, <1>4

\* The strings a list has.
Strings(s) == {s[i] : i \in DOMAIN s}

\* Merging lists of strings gives one that has those of the second list.
LEMMA SlicesOfSet ==
  ASSUME NEW S, NEW a \in Seq(S), NEW b \in Seq(S)
  PROVE  /\ StringSlices(a, b) \in Seq(S)
         /\ Strings(b) \subseteq Strings(StringSlices(a, b))
         /\ Strings(b) \subseteq Strings(a) => StringSlices(a, b) = a
<1> DEFINE new    == NewStrings(a, b)
           Nth(n) == CHOOSE i \in new : Cardinality({j \in new : j < i}) = n - 1
           added  == [n \in 1 .. Cardinality(new) |-> b[Nth(n)]]
<1>1. StringSlices(a, b) = a \o added
  BY DEF StringSlices
<1>2. /\ DOMAIN b = 1 .. Len(b) /\ Len(b) \in Nat /\ DOMAIN a = 1 .. Len(a) /\ Len(a) \in Nat
      /\ \A i \in DOMAIN b : b[i] \in S
  OBVIOUS
<1>3. new \subseteq 1 .. Len(b) /\ new \subseteq Nat /\ IsFiniteSet(new) /\ Cardinality(new) \in Nat
  <2>1. new \subseteq 1 .. Len(b)
    BY <1>2 DEF NewStrings
  <2>2. IsFiniteSet(1 .. Len(b))
    BY <1>2, FS_Interval
  <2>3. new \subseteq Nat
    BY <1>2, <2>1
  <2>4. IsFiniteSet(new)
    BY <2>1, <2>2, FS_Subset
  <2>5. QED
    BY <2>1, <2>3, <2>4, FS_CardinalityType
<1> DEFINE rank == [i \in new |-> Cardinality(Before(new, i)) + 1]
<1>4. ASSUME NEW i \in new
      PROVE  /\ rank[i] \in 1 .. Cardinality(new)
             /\ Nth(rank[i]) = i
  <2> HIDE DEF new
  <2>1. /\ Cardinality(Before(new, i)) \in Nat
        /\ Cardinality(Before(new, i)) < Cardinality(new)
        /\ \A k \in new : Cardinality(Before(new, k)) = Cardinality(Before(new, i)) => k = i
    BY <1>3, RankDetermines
  <2>2. rank[i] = Cardinality(Before(new, i)) + 1
    OBVIOUS
  <2>3. rank[i] \in 1 .. Cardinality(new) /\ rank[i] - 1 = Cardinality(Before(new, i))
    BY <1>3, <2>1, <2>2
  <2>4. \A k \in new : Cardinality({j \in new : j < k}) = rank[i] - 1 <=> k = i
    BY <2>1, <2>3 DEF Before
  <2> HIDE DEF rank
  <2>5. QED
    BY <2>3, <2>4
<1>5. ASSUME NEW n \in 1 .. Cardinality(new)
      PROVE  Nth(n) \in new
  <2> DEFINE T == 1 .. Cardinality(new)
  <2>1. IsFiniteSet(T) /\ Cardinality(T) = Cardinality(new)
    BY <1>3, FS_Interval
  <2>2. rank \in Injection(new, T)
    <3>1. rank \in [new -> T]
      BY <1>4
    <3>2. \A i, j \in new : rank[i] = rank[j] => i = j
      <4> HIDE DEF rank, Nth, T
      <4>1. QED
        BY <1>4
    <3>3. QED
      BY <3>1, <3>2 DEF Injection, IsInjective
  <2> HIDE DEF rank, T, new
  <2>3. rank \in Surjection(new, T)
    BY <2>1, <2>2, FS_Injection
  <2>4. PICK i \in new : rank[i] = n
    <3>1. n \in T
      BY DEF T
    <3>2. QED
      BY <2>3, <3>1 DEF Surjection
  <2>5. QED
    BY <1>4, <2>4
<1>6. ASSUME NEW i \in DOMAIN b, b[i] \notin Strings(a)
      PROVE  \E k \in new : b[k] = b[i]
  <2> DEFINE T == {k \in 1 .. Len(b) : b[k] = b[i]}
  <2>1. PICK k \in T : \A l \in T : ~(l < k)
    <3>1. T \subseteq Nat /\ T # {}
      BY <1>2, <1>6
    <3> HIDE DEF T
    <3>2. \E k \in T : \A l \in T : <<l, k>> \notin OpToRel(<, Nat)
      BY <3>1, NatLessThanWellFounded, WFMin
    <3>3. QED
      BY <3>1, <3>2 DEF OpToRel
  <2>2. k \in DOMAIN b /\ b[k] = b[i] /\ k \in 1 .. Len(b)
    BY <1>2
  <2>3. \A j \in 1 .. k - 1 : b[j] # b[k]
    BY <1>2, <2>1, <2>2
  <2>4. \A j \in DOMAIN a : a[j] # b[k]
    BY <1>6, <2>2 DEF Strings
  <2>5. k \in new
    BY <2>2, <2>3, <2>4 DEF NewStrings
  <2>6. QED
    BY <2>2, <2>5
<1> HIDE DEF new, Nth
<1>7. /\ added \in Seq(S) /\ DOMAIN added = 1 .. Cardinality(new)
      /\ Len(added) = Cardinality(new)
  <2>1. \A n \in 1 .. Cardinality(new) : b[Nth(n)] \in S
    BY <1>2, <1>3, <1>5
  <2>2. added \in [1 .. Cardinality(new) -> S]
    BY <2>1
  <2> HIDE DEF added
  <2>3. added \in Seq(S)
    BY <1>3, <2>2
  <2>4. QED
    BY <1>3, <2>2, <2>3
<1>8. /\ a \o added \in Seq(S) /\ Len(a \o added) = Len(a) + Len(added)
      /\ \A i \in 1 .. Len(a) + Len(added) :
           (a \o added)[i] = IF i <= Len(a) THEN a[i] ELSE added[i - Len(a)]
  <2> HIDE DEF added
  <2>1. QED
    BY <1>7, ConcatProperties
<1> DEFINE merged == a \o added
<1>9. DOMAIN merged = 1 .. Len(a) + Len(added)
  <2> HIDE DEF added
  <2>1. merged \in Seq(S) /\ Len(merged) = Len(a) + Len(added)
    BY <1>8
  <2> HIDE DEF merged
  <2>2. QED
    BY <2>1
<1>10. ASSUME NEW i \in DOMAIN b
       PROVE  b[i] \in Strings(merged)
  <2>1. CASE b[i] \in Strings(a)
    <3>1. PICK j \in DOMAIN a : a[j] = b[i]
      BY <2>1 DEF Strings
    <3>2. j \in DOMAIN merged /\ merged[j] = a[j]
      BY <1>2, <1>3, <1>7, <1>8, <1>9
    <3> HIDE DEF merged
    <3>3. QED
      BY <3>1, <3>2 DEF Strings
  <2>2. CASE b[i] \notin Strings(a)
    <3>1. PICK k \in new : b[k] = b[i]
      BY <1>6, <2>2
    <3> DEFINE n == rank[k]
    <3>2. n \in 1 .. Cardinality(new) /\ Nth(n) = k
      BY <1>4
    <3> HIDE DEF n, rank
    <3>3. added[n] = b[i]
      BY <3>1, <3>2
    <3> HIDE DEF added
    <3>4. /\ Len(a) + n \in 1 .. Len(a) + Len(added)
          /\ ~(Len(a) + n <= Len(a)) /\ (Len(a) + n) - Len(a) = n
      BY <1>2, <1>3, <1>7, <3>2
    <3>5. Len(a) + n \in DOMAIN merged /\ merged[Len(a) + n] = added[n]
      BY <1>8, <1>9, <3>4
    <3> HIDE DEF merged
    <3>6. QED
      BY <3>3, <3>5 DEF Strings
  <2>3. QED
    BY <2>1, <2>2
<1>11. ASSUME Strings(b) \subseteq Strings(a)
       PROVE  merged = a
  <2>1. new = {}
    BY <1>11 DEF new, NewStrings, Strings
  <2>2. Cardinality(new) = 0
    BY <2>1, FS_EmptySet
  <2> HIDE DEF added
  <2>3. added = << >>
    BY <1>7, <2>2, EmptySeq
  <2>4. QED
    BY <2>3, ConcatEmptySeq
<1>12. Strings(b) \subseteq Strings(merged)
  <2> HIDE DEF merged
  <2>1. QED
    BY <1>10 DEF Strings
<1>13. QED
  BY <1>1, <1>8, <1>11, <1>12

\* The same for any two lists.
LEMMA SlicesMerged ==
  ASSUME NEW a, IsList(a), NEW b, IsList(b)
  PROVE  /\ IsList(StringSlices(a, b))
         /\ Strings(b) \subseteq Strings(StringSlices(a, b))
         /\ Strings(b) \subseteq Strings(a) => StringSlices(a, b) = a
<1> DEFINE S == Strings(a) \cup Strings(b)
<1>1. a \in Seq(Strings(a)) /\ b \in Seq(Strings(b))
  BY DEF IsList, Strings
<1>2. a \in Seq(S) /\ b \in Seq(S)
  <2>1. ASSUME NEW T, NEW U, NEW c \in Seq(T), T \subseteq U
        PROVE  c \in Seq(U)
    BY <2>1
  <2> DEFINE T == Strings(a)
             U == Strings(b)
  <2>2. T \subseteq S /\ U \subseteq S
    OBVIOUS
  <2>3. a \in Seq(T) /\ b \in Seq(U)
    BY <1>1
  <2> HIDE DEF S, T, U
  <2>4. QED
    BY <2>1, <2>2, <2>3
<1> HIDE DEF S
<1> DEFINE c == StringSlices(a, b)
<1>3. /\ c \in Seq(S) /\ Strings(b) \subseteq Strings(c)
      /\ Strings(b) \subseteq Strings(a) => c = a
  BY <1>2, SlicesOfSet
<1> HIDE DEF c
<1>4. IsList(c)
  <2> DEFINE T == Strings(c)
  <2>1. Len(c) \in Nat /\ DOMAIN c = 1 .. Len(c)
    BY <1>3
  <2>2. \A i \in DOMAIN c : c[i] \in T
    BY DEF Strings
  <2> HIDE DEF T
  <2>3. c \in Seq(T)
    BY <1>3, <2>1, <2>2
  <2>4. QED
    BY <2>3 DEF IsList, T, Strings
<1>5. QED
  BY <1>3, <1>4 DEF c

\* A list that is merged once has nothing to add.
LEMMA SlicesMergedAgain ==
  ASSUME NEW a, IsList(a), NEW b, IsList(b)
  PROVE  /\ StringSlices(StringSlices(a, b), b) = StringSlices(a, b)
         /\ StringSlices(b, b) = b
<1> DEFINE c == StringSlices(a, b)
<1>1. IsList(c) /\ Strings(b) \subseteq Strings(c)
  BY SlicesMerged
<1> HIDE DEF c
<1>2. StringSlices(c, b) = c
  BY <1>1, SlicesMerged
<1>3. StringSlices(b, b) = b
  BY SlicesMerged
<1>4. QED
  BY <1>2, <1>3 DEF c

-----------------------------------------------------------------------------
(***************************************************************************)
(* Reconciling again: what is merged by name.                              *)
(***************************************************************************)
\* What is written over a map twice is written once.
LEMMA MapMergedTwice ==
  ASSUME NEW x, NEW a, NEW o
  PROVE  StringToStringMap(StringToStringMap(StringToStringMap(StringToStringMap(x, a), o), a), o)
           = StringToStringMap(StringToStringMap(x, a), o)
BY DEF StringToStringMap

\* The same for what is written over nothing.
LEMMA MapWrittenTwice ==
  ASSUME NEW a, NEW o
  PROVE  StringToStringMap(StringToStringMap(StringToStringMap(a, o), a), o)
           = StringToStringMap(a, o)
BY DEF StringToStringMap

\* A map that is merged twice is merged once.
LEMMA MapMergedAgain ==
  ASSUME NEW x, NEW o
  PROVE  StringToStringMap(StringToStringMap(x, o), o) = StringToStringMap(x, o)
BY DEF StringToStringMap

\* A map adds nothing to itself.
LEMMA MapMergedIntoItself ==
  ASSUME NEW o, IsMap(o)
  PROVE  StringToStringMap(o, o) = o
BY DEF StringToStringMap, IsMap

\* What is written over it one after the other may be written together.
LEMMA MapsMergedTogether ==
  ASSUME NEW x, NEW a, NEW o
  PROVE  StringToStringMap(StringToStringMap(x, a), o) = StringToStringMap(x, StringToStringMap(a, o))
BY DEF StringToStringMap

\* So are environment variables, with or without a value.
LEMMA EnvsMergedTwice ==
  ASSUME NEW x, NEW a, NEW o
  PROVE  Envs(StringToStringMap(Envs(StringToStringMap(x, a), o), a), o)
           = Envs(StringToStringMap(x, a), o)
BY DEF StringToStringMap, Envs, MergeByName

\* Or overridden only.
LEMMA EnvsMergedAgain ==
  ASSUME NEW x, NEW o
  PROVE  Envs(Envs(x, o), o) = Envs(x, o)
BY DEF Envs, MergeByName

\* Variables add nothing to themselves.
LEMMA EnvsMergedIntoThemselves ==
  ASSUME NEW o, IsMap(o)
  PROVE  Envs(o, o) = o
BY DEF Envs, MergeByName, IsMap

\* And mounts.
LEMMA MountsMergedTwice ==
  ASSUME NEW x, NEW a, NEW o, \A k \in DOMAIN o : o[k] \in BOOLEAN
  PROVE  VolumeMounts(StringToStringMap(VolumeMounts(StringToStringMap(x, a), o), a), o)
           = VolumeMounts(StringToStringMap(x, a), o)
BY DEF StringToStringMap, VolumeMounts, MergeByName

\* Or overridden only.
LEMMA MountsMergedAgain ==
  ASSUME NEW x, NEW o, \A k \in DOMAIN o : o[k] \in BOOLEAN
  PROVE  VolumeMounts(VolumeMounts(x, o), o) = VolumeMounts(x, o)
BY DEF VolumeMounts, MergeByName

\* Mounts add nothing to themselves.
LEMMA MountsMergedIntoThemselves ==
  ASSUME NEW o, IsMap(o), \A k \in DOMAIN o : o[k] \in BOOLEAN
  PROVE  VolumeMounts(o, o) = o
BY DEF VolumeMounts, MergeByName, IsMap

\* A container that is written twice is written once.
LEMMA WrittenAgain ==
  ASSUME NEW c, NEW settings, NEW probe, NEW env, NEW mounts
  PROVE  LET W(d) == Modified(d, settings, probe, env, mounts)
         IN  W(W(c)) = W(c)
<1> DEFINE d == Modified(c, settings, probe, env, mounts)
<1>1. /\ d.settings = StringToStringMap(c.settings, settings)
      /\ d.readinessProbe = StringToStringMap(c.readinessProbe, probe)
      /\ d.env = StringToStringMap(c.env, env)
      /\ d.mounts = StringToStringMap(c.mounts, mounts)
  BY DEF Modified
<1> HIDE DEF d
<1>2. /\ StringToStringMap(d.settings, settings) = StringToStringMap(c.settings, settings)
      /\ StringToStringMap(d.readinessProbe, probe) = StringToStringMap(c.readinessProbe, probe)
      /\ StringToStringMap(d.env, env) = StringToStringMap(c.env, env)
      /\ StringToStringMap(d.mounts, mounts) = StringToStringMap(c.mounts, mounts)
  BY <1>1, MapMergedAgain
<1>3. Modified(d, settings, probe, env, mounts) = Modified(c, settings, probe, env, mounts)
  BY <1>2 DEF Modified
<1>4. QED
  BY <1>3 DEF d

\* The fields of an override.
LEMMA ContainerFields ==
  ASSUME NEW o, IsContainer(o)
  PROVE  /\ IsMap(o.settings) /\ IsMap(o.resources) /\ IsMap(o.readinessProbe)
         /\ IsMap(o.securityContext) /\ IsMap(o.env) /\ IsMap(o.mounts)
         /\ \A k \in DOMAIN o.mounts : o.mounts[k] \in BOOLEAN
         /\ o = [settings |-> o.settings, resources |-> o.resources,
                 readinessProbe |-> o.readinessProbe, securityContext |-> o.securityContext,
                 env |-> o.env, mounts |-> o.mounts]
<1>1. DOMAIN o = {"settings", "resources", "readinessProbe", "securityContext", "env", "mounts"}
  BY DEF IsContainer
<1>2. QED
  BY <1>1 DEF IsContainer

\* The fields of a container that is overridden.
LEMMA MergedFields ==
  ASSUME NEW d, NEW o
  PROVE  /\ Container(d, o).settings = StringToStringMap(d.settings, o.settings)
         /\ Container(d, o).resources = StringToStringMap(d.resources, o.resources)
         /\ Container(d, o).readinessProbe = StringToStringMap(d.readinessProbe, o.readinessProbe)
         /\ Container(d, o).securityContext = StringToStringMap(d.securityContext, o.securityContext)
         /\ Container(d, o).env = Envs(d.env, o.env)
         /\ Container(d, o).mounts = VolumeMounts(d.mounts, o.mounts)
BY DEF Container, ResourceRequirements, Probe

\* A container that is overridden twice is so once.
LEMMA ContainerMergedAgain ==
  ASSUME NEW c, NEW o, IsContainer(o)
  PROVE  Container(Container(c, o), o) = Container(c, o)
<1> DEFINE d == Container(c, o)
<1>1. /\ d.settings = StringToStringMap(c.settings, o.settings)
      /\ d.resources = StringToStringMap(c.resources, o.resources)
      /\ d.readinessProbe = StringToStringMap(c.readinessProbe, o.readinessProbe)
      /\ d.securityContext = StringToStringMap(c.securityContext, o.securityContext)
      /\ d.env = Envs(c.env, o.env) /\ d.mounts = VolumeMounts(c.mounts, o.mounts)
  BY MergedFields
<1> HIDE DEF d
<1>2. /\ StringToStringMap(d.settings, o.settings) = StringToStringMap(c.settings, o.settings)
      /\ StringToStringMap(d.resources, o.resources) = StringToStringMap(c.resources, o.resources)
      /\ StringToStringMap(d.readinessProbe, o.readinessProbe)
           = StringToStringMap(c.readinessProbe, o.readinessProbe)
      /\ StringToStringMap(d.securityContext, o.securityContext)
           = StringToStringMap(c.securityContext, o.securityContext)
  BY <1>1, MapMergedAgain
<1>3. Envs(d.env, o.env) = Envs(c.env, o.env)
  BY <1>1, EnvsMergedAgain
<1>4. VolumeMounts(d.mounts, o.mounts) = VolumeMounts(c.mounts, o.mounts)
  BY <1>1, ContainerFields, MountsMergedAgain
<1>5. Container(d, o) = Container(c, o)
  BY <1>2, <1>3, <1>4 DEF Container, ResourceRequirements, Probe
<1>6. QED
  BY <1>5 DEF d

\* A container adds nothing to itself.
LEMMA ContainerMergedIntoItself ==
  ASSUME NEW o, IsContainer(o)
  PROVE  Container(o, o) = o
<1>1. /\ StringToStringMap(o.settings, o.settings) = o.settings
      /\ StringToStringMap(o.resources, o.resources) = o.resources
      /\ StringToStringMap(o.readinessProbe, o.readinessProbe) = o.readinessProbe
      /\ StringToStringMap(o.securityContext, o.securityContext) = o.securityContext
  BY ContainerFields, MapMergedIntoItself
<1>2. Envs(o.env, o.env) = o.env
  BY ContainerFields, EnvsMergedIntoThemselves
<1>3. VolumeMounts(o.mounts, o.mounts) = o.mounts
  BY ContainerFields, MountsMergedIntoThemselves
<1>4. QED
  BY <1>1, <1>2, <1>3, ContainerFields DEF Container, ResourceRequirements, Probe

\* A container that is written and overridden twice is so once.
LEMMA ContainerMergedTwice ==
  ASSUME NEW c, NEW o, IsContainer(o), NEW settings, NEW probe, NEW env, NEW mounts
  PROVE  LET W(d) == Modified(d, settings, probe, env, mounts)
         IN  Container(W(Container(W(c), o)), o) = Container(W(c), o)
<1> DEFINE W(d) == Modified(d, settings, probe, env, mounts)
           e == W(c)
           f == Container(e, o)
           g == W(f)
<1>1. /\ e.settings = StringToStringMap(c.settings, settings)
      /\ e.readinessProbe = StringToStringMap(c.readinessProbe, probe)
      /\ e.env = StringToStringMap(c.env, env)
      /\ e.mounts = StringToStringMap(c.mounts, mounts)
      /\ e.resources = [requests |-> "operator", limits |-> "operator"]
      /\ e.securityContext = [readOnlyRootFilesystem |-> "operator"]
  BY DEF Modified
<1> HIDE DEF e
<1>2. /\ f.settings = StringToStringMap(e.settings, o.settings)
      /\ f.readinessProbe = StringToStringMap(e.readinessProbe, o.readinessProbe)
      /\ f.env = Envs(e.env, o.env) /\ f.mounts = VolumeMounts(e.mounts, o.mounts)
  BY MergedFields
<1> HIDE DEF f
<1>3. /\ g.settings = StringToStringMap(f.settings, settings)
      /\ g.readinessProbe = StringToStringMap(f.readinessProbe, probe)
      /\ g.env = StringToStringMap(f.env, env)
      /\ g.mounts = StringToStringMap(f.mounts, mounts)
      /\ g.resources = [requests |-> "operator", limits |-> "operator"]
      /\ g.securityContext = [readOnlyRootFilesystem |-> "operator"]
  BY DEF Modified
<1> HIDE DEF g
<1>4. /\ StringToStringMap(g.settings, o.settings) = StringToStringMap(e.settings, o.settings)
      /\ StringToStringMap(g.readinessProbe, o.readinessProbe)
           = StringToStringMap(e.readinessProbe, o.readinessProbe)
      /\ g.resources = e.resources /\ g.securityContext = e.securityContext
  BY <1>1, <1>2, <1>3, MapMergedTwice
<1>5. Envs(g.env, o.env) = Envs(e.env, o.env)
  BY <1>1, <1>2, <1>3, EnvsMergedTwice
<1>6. VolumeMounts(g.mounts, o.mounts) = VolumeMounts(e.mounts, o.mounts)
  BY <1>1, <1>2, <1>3, ContainerFields, MountsMergedTwice
<1>7. Container(g, o) = Container(e, o)
  BY <1>4, <1>5, <1>6 DEF Container, ResourceRequirements, Probe
<1>8. QED
  BY <1>7 DEF g, f, e

\* What the operator writes into some containers: w.settings, w.probe, w.env and
\* w.mounts are lists by name.
Rewritten(u, w) ==
  [c \in DOMAIN u \cup DOMAIN w.settings |->
     IF c \in DOMAIN w.settings
     THEN Modified(Existing(u, c), w.settings[c], w.probe[c], w.env[c], w.mounts[c])
     ELSE u[c]]

\* Containers that are written and overridden twice are so once.
LEMMA ContainersMergedAgain ==
  ASSUME NEW u, NEW w, NEW o, \A c \in DOMAIN o : IsContainer(o[c])
  PROVE  Containers(Rewritten(Containers(Rewritten(u, w), o), w), o) = Containers(Rewritten(u, w), o)
<1> DEFINE first  == Rewritten(u, w)
           once   == Containers(first, o)
           second == Rewritten(once, w)
           twice  == Containers(second, o)
           names  == DOMAIN u \cup DOMAIN w.settings \cup DOMAIN o
           W(c, d) == Modified(d, w.settings[c], w.probe[c], w.env[c], w.mounts[c])
<1>1. /\ DOMAIN first = DOMAIN u \cup DOMAIN w.settings
      /\ \A c \in DOMAIN w.settings : first[c] = W(c, Existing(u, c))
      /\ \A c \in DOMAIN u \ DOMAIN w.settings : first[c] = u[c]
  BY DEF Rewritten
<1>2. /\ DOMAIN once = names
      /\ once = [c \in names |-> once[c]]
      /\ \A c \in DOMAIN first \ DOMAIN o : once[c] = first[c]
      /\ \A c \in DOMAIN o \ DOMAIN first : once[c] = o[c]
      /\ \A c \in DOMAIN first \cap DOMAIN o : once[c] = Container(first[c], o[c])
  <2>1. DOMAIN first \cup DOMAIN o = names
    BY <1>1
  <2> HIDE DEF first, names
  <2>2. QED
    BY <2>1 DEF Containers, MergeByName
<1> HIDE DEF first, once
<1>3. /\ DOMAIN second = names
      /\ \A c \in DOMAIN w.settings : second[c] = W(c, once[c])
      /\ \A c \in DOMAIN once \ DOMAIN w.settings : second[c] = once[c]
  <2>1. \A c \in DOMAIN w.settings : Existing(once, c) = once[c]
    BY <1>2 DEF Existing
  <2>2. QED
    BY <1>2, <2>1 DEF Rewritten
<1> HIDE DEF second
<1>4. /\ DOMAIN twice = names
      /\ twice = [c \in names |-> twice[c]]
      /\ \A c \in names \ DOMAIN o : twice[c] = second[c]
      /\ \A c \in DOMAIN o : twice[c] = Container(second[c], o[c])
  <2>1. DOMAIN second \cup DOMAIN o = names /\ DOMAIN o \subseteq DOMAIN second
    BY <1>3
  <2> HIDE DEF names
  <2>2. QED
    BY <1>3, <2>1 DEF Containers, MergeByName
<1> HIDE DEF twice, names
<1>5. ASSUME NEW c \in names
      PROVE  twice[c] = once[c]
  <2> DEFINE d == Existing(u, c)
             V(e) == W(c, e)
  <2>0. c \in DOMAIN u \/ c \in DOMAIN w.settings \/ c \in DOMAIN o
    BY DEF names
  <2>1. CASE c \in DOMAIN w.settings /\ c \in DOMAIN o
    <3>1. /\ once[c] = Container(V(d), o[c]) /\ twice[c] = Container(V(once[c]), o[c])
      BY <1>1, <1>2, <1>3, <1>4, <2>1
    <3>2. IsContainer(o[c])
      BY <2>1
    <3> HIDE DEF d
    <3>3. Container(V(Container(V(d), o[c])), o[c]) = Container(V(d), o[c])
      BY <3>2, ContainerMergedTwice
    <3>4. QED
      BY <3>1, <3>3
  <2>2. CASE c \in DOMAIN w.settings /\ c \notin DOMAIN o
    <3>1. /\ once[c] = V(d) /\ twice[c] = V(once[c])
      BY <1>1, <1>2, <1>3, <1>4, <2>2
    <3> HIDE DEF d
    <3>2. V(V(d)) = V(d)
      BY WrittenAgain
    <3>3. QED
      BY <3>1, <3>2
  <2>3. CASE c \notin DOMAIN w.settings /\ c \in DOMAIN o
    <3>1. twice[c] = Container(once[c], o[c])
      BY <1>2, <1>3, <1>4, <2>3
    <3>2. once[c] = o[c] \/ once[c] = Container(first[c], o[c])
      BY <1>2, <2>3
    <3>3. IsContainer(o[c])
      BY <2>3
    <3>4. Container(o[c], o[c]) = o[c]
          /\ Container(Container(first[c], o[c]), o[c]) = Container(first[c], o[c])
      BY <3>3, ContainerMergedAgain, ContainerMergedIntoItself
    <3>5. QED
      BY <3>1, <3>2, <3>4
  <2>4. CASE c \notin DOMAIN w.settings /\ c \notin DOMAIN o
    BY <1>1, <1>2, <1>3, <1>4, <2>4
  <2>5. QED
    BY <2>0, <2>1, <2>2, <2>3, <2>4
<1>6. twice = once
  BY <1>2, <1>4, <1>5
<1>7. QED
  BY <1>6 DEF twice, second, once, first

\* A volume that is merged twice is merged once: with one that has the same
\* source its fields are, and otherwise it is replaced.
LEMMA VolumeMergedAgain ==
  ASSUME NEW x, NEW o, IsVolume(o), {"source", "fields"} \subseteq DOMAIN x
  PROVE  Volume(Volume(x, o), o) = Volume(x, o)
<1>1. StringToStringMap(StringToStringMap(x.fields, o.fields), o.fields)
        = StringToStringMap(x.fields, o.fields)
      /\ StringToStringMap(o.fields, o.fields) = o.fields
  BY MapMergedAgain, MapMergedIntoItself DEF IsVolume
<1> DEFINE both == StringToStringMap(x.fields, o.fields)
           merged == x.source = o.source /\ x.source \in MergedSources
<1>2. CASE merged
  <2>1. Volume(x, o) = [x EXCEPT !.fields = both]
    BY <1>2 DEF Volume
  <2> DEFINE y == Volume(x, o)
  <2>2. y.source = x.source /\ y.fields = both /\ [y EXCEPT !.fields = both] = y
    BY <2>1
  <2> HIDE DEF y
  <2>3. Volume(y, o) = [y EXCEPT !.fields = StringToStringMap(both, o.fields)]
    BY <1>2, <2>2 DEF Volume
  <2>4. QED
    BY <1>1, <2>2, <2>3 DEF y
<1>3. CASE ~merged
  <2>1. Volume(x, o) = o
    BY <1>3 DEF Volume
  <2>2. Volume(o, o) = o
    BY <1>1 DEF Volume, IsVolume
  <2>3. QED
    BY <2>1, <2>2
<1>4. QED
  BY <1>2, <1>3

\* A volume merged with itself is itself.
LEMMA VolumeMergedIntoItself ==
  ASSUME NEW o, IsVolume(o)
  PROVE  Volume(o, o) = o
<1>1. StringToStringMap(o.fields, o.fields) = o.fields
  BY MapMergedIntoItself DEF IsVolume
<1>2. QED
  BY <1>1 DEF Volume, IsVolume

\* A volume that is written and overridden twice is so once.
LEMMA VolumeMergedTwice ==
  ASSUME NEW x, NEW a, NEW o, IsVolume(a), IsVolume(o), {"source", "fields"} \subseteq DOMAIN x
  PROVE  Volume(Volume(Volume(Volume(x, a), o), a), o) = Volume(Volume(x, a), o)
<1> DEFINE p == Volume(x, a)
           q == Volume(p, o)
<1>0. {"source", "fields"} \subseteq DOMAIN a /\ {"source", "fields"} \subseteq DOMAIN o
  BY DEF IsVolume
<1>1. {"source", "fields"} \subseteq DOMAIN p /\ p.source = a.source
  BY <1>0, MergedVolume
<1>2. p = a \/ p.fields = StringToStringMap(x.fields, a.fields)
  BY DEF Volume
<1> HIDE DEF p
<1>3. CASE a.source = o.source /\ a.source \in MergedSources
  <2>1. q = [p EXCEPT !.fields = StringToStringMap(p.fields, o.fields)]
    BY <1>1, <1>3 DEF Volume
  <2>2. /\ q.source = a.source /\ q.fields = StringToStringMap(p.fields, o.fields)
        /\ {"source", "fields"} \subseteq DOMAIN q
    BY <1>1, <2>1
  <2>a. /\ \A f, g : [[q EXCEPT !.fields = f] EXCEPT !.fields = g] = [q EXCEPT !.fields = g]
        /\ [q EXCEPT !.fields = q.fields] = q
    BY <1>1, <2>1
  <2> HIDE DEF q
  <2> DEFINE r == Volume(q, a)
             f == StringToStringMap(q.fields, a.fields)
             g == StringToStringMap(f, o.fields)
  <2>3. r = [q EXCEPT !.fields = f]
    BY <1>3, <2>2 DEF Volume
  <2>4. r.source = a.source /\ r.fields = f
    BY <2>2, <2>3
  <2> HIDE DEF r
  <2>5. Volume(r, o) = [r EXCEPT !.fields = g]
    BY <1>3, <2>4 DEF Volume
  <2> HIDE DEF r, p
  <2>6. g = q.fields
    <3>1. CASE p = a
      BY <2>2, <3>1, MapWrittenTwice
    <3>2. CASE p.fields = StringToStringMap(x.fields, a.fields)
      BY <2>2, <3>2, MapMergedTwice
    <3>3. QED
      BY <1>2, <3>1, <3>2
  <2> HIDE DEF g, f
  <2>7. QED
    BY <2>a, <2>3, <2>5, <2>6 DEF r, q, p
<1>4. CASE ~(a.source = o.source /\ a.source \in MergedSources)
  <2>1. q = o
    BY <1>1, <1>4 DEF Volume
  <2>2. Volume(o, a) = a
    BY <1>4 DEF Volume
  <2>3. Volume(a, o) = o
    BY <1>4 DEF Volume
  <2>4. QED
    BY <2>1, <2>2, <2>3 DEF q, p
<1>5. QED
  BY <1>3, <1>4

\* The same for a volume that is not there at first.
LEMMA NewVolumeMergedTwice ==
  ASSUME NEW a, NEW o, IsVolume(a), IsVolume(o)
  PROVE  Volume(Volume(Volume(a, o), a), o) = Volume(a, o)
<1>1. Volume(a, a) = a
  BY VolumeMergedIntoItself
<1>2. {"source", "fields"} \subseteq DOMAIN a
  BY DEF IsVolume
<1>3. Volume(Volume(Volume(Volume(a, a), o), a), o) = Volume(Volume(a, a), o)
  BY <1>2, VolumeMergedTwice
<1>4. QED
  BY <1>1, <1>3

\* What the operator makes of a list of volumes: some are merged into it, one
\* may be taken away.
WrittenVolumes(u, added, gone) ==
  [v \in (DOMAIN u \cup DOMAIN added) \ gone |-> Volumes(u, added)[v]]

\* Volumes that are written and overridden twice are so once.
LEMMA VolumesMergedTwice ==
  ASSUME NEW u, NEW added, NEW gone, NEW o,
         \A v \in DOMAIN u : {"source", "fields"} \subseteq DOMAIN u[v],
         \A v \in DOMAIN added : IsVolume(added[v]), DOMAIN added \cap gone = {},
         \A v \in DOMAIN o : IsVolume(o[v])
  PROVE  LET W(l) == WrittenVolumes(l, added, gone)
         IN  Volumes(W(Volumes(W(u), o)), o) = Volumes(W(u), o)
<1> DEFINE W(l)   == WrittenVolumes(l, added, gone)
           first  == W(u)
           once   == Volumes(first, o)
           second == W(once)
           twice  == Volumes(second, o)
           names  == ((DOMAIN u \cup DOMAIN added) \ gone) \cup DOMAIN o
<1>0. ASSUME NEW l
      PROVE  /\ DOMAIN W(l) = (DOMAIN l \cup DOMAIN added) \ gone
             /\ \A v \in DOMAIN W(l) :
                  W(l)[v] = IF v \notin DOMAIN added THEN l[v]
                            ELSE IF v \notin DOMAIN l THEN added[v] ELSE Volume(l[v], added[v])
  BY DEF WrittenVolumes, Volumes, MergeByName
<1>a. ASSUME NEW l
      PROVE  /\ DOMAIN Volumes(l, o) = DOMAIN l \cup DOMAIN o
             /\ Volumes(l, o) = [v \in DOMAIN l \cup DOMAIN o |-> Volumes(l, o)[v]]
             /\ \A v \in DOMAIN l \cup DOMAIN o :
                  Volumes(l, o)[v] = IF v \notin DOMAIN o THEN l[v]
                                     ELSE IF v \notin DOMAIN l THEN o[v] ELSE Volume(l[v], o[v])
  BY DEF Volumes, MergeByName
<1> HIDE DEF W
<1>1. DOMAIN once = names /\ DOMAIN twice = names
  <2>1. DOMAIN first = (DOMAIN u \cup DOMAIN added) \ gone
    BY <1>0
  <2>2. DOMAIN once = names
    BY <1>a, <2>1
  <2>3. DOMAIN second = (DOMAIN once \cup DOMAIN added) \ gone
    BY <1>0
  <2>4. DOMAIN twice = DOMAIN second \cup DOMAIN o
    BY <1>a
  <2> HIDE DEF first, once, second, twice
  <2>5. QED
    BY <2>2, <2>3, <2>4
<1>2. ASSUME NEW v \in names
      PROVE  twice[v] = once[v]
  <2>0. v \in DOMAIN u => {"source", "fields"} \subseteq DOMAIN u[v]
    OBVIOUS
  <2>1. CASE v \in DOMAIN added
    <3>1. v \notin gone /\ IsVolume(added[v])
      BY <2>1
    <3>2. first[v] = (IF v \in DOMAIN u THEN Volume(u[v], added[v]) ELSE added[v])
          /\ v \in DOMAIN first
      BY <1>0, <2>1, <3>1
    <3>3. second[v] = Volume(once[v], added[v]) /\ v \in DOMAIN second
      BY <1>0, <1>1, <2>1, <3>1
    <3>4. CASE v \in DOMAIN o
      <4>1. once[v] = Volume(first[v], o[v]) /\ twice[v] = Volume(second[v], o[v])
        BY <1>a, <3>2, <3>3, <3>4
      <4>2. IsVolume(o[v])
        BY <3>4
      <4> HIDE DEF first, once, second, twice
      <4>3. QED
        BY <2>0, <3>1, <3>2, <3>3, <4>1, <4>2, VolumeMergedTwice, NewVolumeMergedTwice
    <3>5. CASE v \notin DOMAIN o
      <4>1. once[v] = first[v] /\ twice[v] = second[v]
        BY <1>a, <3>2, <3>3, <3>5
      <4> HIDE DEF first, once, second, twice
      <4>2. QED
        BY <2>0, <3>1, <3>2, <3>3, <4>1, VolumeMergedAgain, VolumeMergedIntoItself
    <3>6. QED
      BY <3>4, <3>5
  <2>2. CASE v \notin DOMAIN added /\ v \in gone
    <3>1. v \notin DOMAIN first /\ v \notin DOMAIN second /\ v \in DOMAIN o
      BY <1>0, <2>2
    <3>2. QED
      BY <1>a, <3>1
  <2>3. CASE v \notin DOMAIN added /\ v \notin gone
    <3>1. v \in DOMAIN second /\ second[v] = once[v]
      BY <1>0, <1>1, <2>3
    <3>2. v \in DOMAIN first <=> v \in DOMAIN u
      BY <1>0, <2>3
    <3>3. v \in DOMAIN u => first[v] = u[v]
      BY <1>0, <2>3
    <3>4. once[v] = IF v \notin DOMAIN o THEN first[v]
                    ELSE IF v \notin DOMAIN first THEN o[v] ELSE Volume(first[v], o[v])
      BY <1>0, <1>a
    <3>5. twice[v] = IF v \notin DOMAIN o THEN second[v] ELSE Volume(second[v], o[v])
      BY <1>a, <3>1
    <3> HIDE DEF first, once, second, twice
    <3>6. CASE v \in DOMAIN o
      <4>1. IsVolume(o[v])
        BY <3>6
      <4>2. QED
        BY <2>0, <3>1, <3>2, <3>3, <3>4, <3>5, <3>6, <4>1, VolumeMergedAgain,
           VolumeMergedIntoItself
    <3>7. CASE v \notin DOMAIN o
      BY <3>1, <3>4, <3>5, <3>7
    <3>8. QED
      BY <3>6, <3>7
  <2>4. QED
    BY <2>1, <2>2, <2>3
<1>3. /\ once = [v \in DOMAIN once |-> once[v]] /\ twice = [v \in DOMAIN twice |-> twice[v]]
  <2> HIDE DEF first, second
  <2>1. \A l : Volumes(l, o) = [v \in DOMAIN Volumes(l, o) |-> Volumes(l, o)[v]]
    BY DEF Volumes, MergeByName
  <2>2. once = [v \in DOMAIN once |-> once[v]]
    BY <2>1
  <2> HIDE DEF once
  <2>3. QED
    BY <2>1, <2>2
<1> HIDE DEF first, once, second, twice, names
<1>4. twice = once
  BY <1>1, <1>2, <1>3
<1>5. QED
  BY <1>4 DEF twice, second, once, first, W

-----------------------------------------------------------------------------
(***************************************************************************)
(* What the operator makes of a template, in full.                         *)
(***************************************************************************)
\* What it writes into its containers, with the given mounts.
ContainerWrites(m, mounts) ==
  [settings |-> [c \in OperatorContainers |->
                   IF c = AgentName
                   THEN [image |-> "agent", imagePullPolicy |-> "Always", command |-> m.agentLogFile]
                   ELSE [image |-> m.version, command |-> GetDBDataDir(m), args |-> "operator"]],
   probe    |-> [c \in OperatorContainers |->
                   IF c = AgentName
                   THEN [exec |-> "readinessprobe", failureThreshold |-> "operator",
                         initialDelaySeconds |-> "operator"]
                   ELSE Nothing],
   env      |-> [c \in OperatorContainers |->
                   IF c = AgentName
                   THEN [AGENT_STATUS_FILEPATH |-> "operator", AUTOMATION_CONFIG_MAP |-> "operator",
                         HEADLESS_AGENT |-> "operator", POD_NAMESPACE |-> "operator"]
                   ELSE [AGENT_STATUS_FILEPATH |-> "operator"]],
   mounts   |-> mounts]

\* What it writes into its init containers.
InitWrites ==
  [settings |-> [c \in OperatorInit |->
                   IF c = HookName
                   THEN [image |-> "version-upgrade-hook", imagePullPolicy |-> "Always", command |-> "cp"]
                   ELSE [image |-> "readinessprobe", imagePullPolicy |-> "Always", command |-> "cp"]],
   probe    |-> [c \in OperatorInit |-> Nothing],
   env      |-> [c \in OperatorInit |-> Nothing],
   mounts   |-> [c \in OperatorInit |->
                   IF c = HookName THEN Mount("hooks", "/hooks", FALSE)
                   ELSE Mount("agent-scripts", "/opt/scripts", FALSE)]]

\* The mounts without certificates.
PlainMounts(m) ==
  [c \in OperatorContainers |->
     IF c = AgentName
     THEN StringToStringMap(CommonMounts(m),
          StringToStringMap(Mount("healthstatus", "/var/log/healthstatus", FALSE),
          StringToStringMap(Mount("automation-config", "/config", TRUE),
                            Mount("agent-scripts", "/opt/scripts", FALSE))))
     ELSE StringToStringMap(CommonMounts(m),
          StringToStringMap(Mount("healthstatus", "/healthstatus", FALSE),
                            Mount("hooks", "/hooks", FALSE)))]

\* The volumes without certificates.
PlainVolumes ==
  [v \in OperatorVolumes |-> IF v = "automation-config" THEN FromSecret("config") ELSE EmptyDir]

\* What it writes into the settings of a pod.
PodSettings == [serviceAccountName |-> "operator", securityContext |-> "operator"]

\* What it makes of a template without certificates.
PlainFrom(u, t, m) ==
  /\ u.settings = StringToStringMap(t.settings, PodSettings)
  /\ u.labels = [app |-> "svc"]
  /\ u.hostAliases = t.hostAliases /\ u.topology = t.topology
  /\ u.volumes = Volumes(t.volumes, PlainVolumes)
  /\ u.containers = Rewritten(t.containers, ContainerWrites(m, PlainMounts(m)))
  /\ u.initContainers = Rewritten(t.initContainers, InitWrites)

\* It does.
LEMMA OperatorTemplateValue ==
  ASSUME NEW t, TemplateShape(t), NEW m
  PROVE  PlainFrom(OperatorTemplate(t, m), t, m)
<1> DEFINE u       == OperatorTemplate(t, m)
           agent   == MongodbAgentContainer(Existing(t.containers, AgentName), m)
           mongod  == MongodbContainer(Existing(t.containers, MongodbName), m)
           hook    == InitContainer(Existing(t.initContainers, HookName),
                                    "version-upgrade-hook", "hooks", "/hooks")
           probe   == InitContainer(Existing(t.initContainers, ProbeName),
                                    "readinessprobe", "agent-scripts", "/opt/scripts")
           chosen  == [serviceAccountName |-> "operator", securityContext |-> "operator"]
           both    == StringToStringMap(t.containers,
                        StringToStringMap(Named(AgentName, agent), Named(MongodbName, mongod)))
           inits   == StringToStringMap(t.initContainers,
                        StringToStringMap(Named(HookName, hook), Named(ProbeName, probe)))
           merged  == Volumes(t.volumes, PlainVolumes)
<1>1. u = [[t EXCEPT !.volumes = merged] EXCEPT
             !.settings = StringToStringMap(t.settings, chosen), !.labels = [app |-> "svc"],
             !.containers = both, !.initContainers = inits]
  BY DEF OperatorTemplate, WithVolumes, OperatorVolumes, TemplateShape, PlainVolumes
<1>2. both = Rewritten(t.containers, ContainerWrites(m, PlainMounts(m)))
  <2> DEFINE w == ContainerWrites(m, PlainMounts(m))
             W(c) == Modified(Existing(t.containers, c), w.settings[c], w.probe[c], w.env[c],
                              w.mounts[c])
  <2>1. AgentName # MongodbName /\ OperatorContainers = {AgentName, MongodbName}
    BY DEF AgentName, MongodbName, OperatorContainers
  <2>2. DOMAIN w.settings = {AgentName, MongodbName}
    BY <2>1 DEF ContainerWrites
  <2>3. agent = W(AgentName)
    BY <2>1 DEF ContainerWrites, MongodbAgentContainer, PlainMounts
  <2>4. mongod = W(MongodbName)
    BY <2>1 DEF ContainerWrites, MongodbContainer, PlainMounts
  <2> HIDE DEF agent, mongod, w
  <2>5. both = [c \in DOMAIN t.containers \cup {AgentName, MongodbName} |->
                 IF c = AgentName THEN agent ELSE IF c = MongodbName THEN mongod
                 ELSE t.containers[c]]
    BY <2>1 DEF StringToStringMap, Named
  <2>6. Rewritten(t.containers, w) = [c \in DOMAIN t.containers \cup {AgentName, MongodbName} |->
                 IF c = AgentName THEN agent ELSE IF c = MongodbName THEN mongod
                 ELSE t.containers[c]]
    BY <2>1, <2>2, <2>3, <2>4 DEF Rewritten
  <2>7. QED
    BY <2>5, <2>6 DEF w
<1>3. inits = Rewritten(t.initContainers, InitWrites)
  <2> DEFINE w == InitWrites
             W(c) == Modified(Existing(t.initContainers, c), w.settings[c], w.probe[c], w.env[c],
                              w.mounts[c])
  <2>1. HookName # ProbeName /\ OperatorInit = {HookName, ProbeName}
    BY DEF HookName, ProbeName, OperatorInit
  <2>2. DOMAIN w.settings = {HookName, ProbeName}
    BY <2>1 DEF InitWrites
  <2>3. hook = W(HookName)
    BY <2>1 DEF InitWrites, InitContainer
  <2>4. probe = W(ProbeName)
    BY <2>1 DEF InitWrites, InitContainer
  <2> HIDE DEF hook, probe, w
  <2>5. inits = [c \in DOMAIN t.initContainers \cup {HookName, ProbeName} |->
                  IF c = HookName THEN hook ELSE IF c = ProbeName THEN probe
                  ELSE t.initContainers[c]]
    BY <2>1 DEF StringToStringMap, Named
  <2>6. Rewritten(t.initContainers, w)
          = [c \in DOMAIN t.initContainers \cup {HookName, ProbeName} |->
               IF c = HookName THEN hook ELSE IF c = ProbeName THEN probe
               ELSE t.initContainers[c]]
    BY <2>1, <2>2, <2>3, <2>4 DEF Rewritten
  <2>7. QED
    BY <2>5, <2>6 DEF w
<1> HIDE DEF u, both, inits, merged
<1>4. /\ u.volumes = merged /\ u.labels = [app |-> "svc"]
      /\ u.settings = StringToStringMap(t.settings, chosen)
      /\ u.hostAliases = t.hostAliases /\ u.topology = t.topology
      /\ u.containers = both /\ u.initContainers = inits
  BY <1>1 DEF TemplateShape
<1>5. QED
  BY <1>2, <1>3, <1>4 DEF u, merged, PodSettings, PlainFrom

\* The parts of a template the certificates leave alone.
SameRest(u, t) ==
  /\ DOMAIN u = DOMAIN t
  /\ u.settings = t.settings /\ u.labels = t.labels /\ u.initContainers = t.initContainers
  /\ u.hostAliases = t.hostAliases /\ u.topology = t.topology

\* A template has all its fields.
AllFields(t) ==
  {"settings", "labels", "volumes", "containers", "initContainers", "hostAliases", "topology"}
    \subseteq DOMAIN t

\* Only the containers are other ones.
WrittenInto(u, t, containers) ==
  SameRest(u, t) /\ u.volumes = t.volumes /\ u.containers = containers

\* Written containers are given further mounts.
LEMMA MountsWritten ==
  ASSUME NEW t, AllFields(t), NEW list, NEW m, NEW mounts,
         t.containers = Rewritten(list, ContainerWrites(m, mounts)),
         DOMAIN mounts = OperatorContainers,
         NEW name \in OperatorContainers, NEW more,
         NEW both, both = [mounts EXCEPT ![name] = StringToStringMap(@, more)]
  PROVE  WrittenInto(WithVolumeMounts(t, name, more), t, Rewritten(list, ContainerWrites(m, both)))
<1> DEFINE u    == WithVolumeMounts(t, name, more)
           old  == ContainerWrites(m, mounts)
           new  == ContainerWrites(m, both)
<1>1. /\ SameRest(u, t) /\ u.volumes = t.volumes
      /\ u.containers = [t.containers EXCEPT ![name].mounts = StringToStringMap(@, more)]
  BY DEF WithVolumeMounts, SameRest, AllFields
<1>2. /\ DOMAIN old.settings = OperatorContainers /\ DOMAIN new.settings = OperatorContainers
      /\ new.settings = old.settings /\ new.probe = old.probe /\ new.env = old.env
      /\ old.mounts = mounts /\ new.mounts = both
  BY DEF ContainerWrites
<1>3. /\ both[name] = StringToStringMap(mounts[name], more)
      /\ \A c \in OperatorContainers \ {name} : both[c] = mounts[c]
  OBVIOUS
<1> HIDE DEF u, old, new
<1>4. Modified(Existing(list, name), new.settings[name], new.probe[name], new.env[name],
               new.mounts[name])
        = [Modified(Existing(list, name), old.settings[name], old.probe[name], old.env[name],
                    old.mounts[name]) EXCEPT !.mounts = StringToStringMap(@, more)]
  <2> DEFINE d == Existing(list, name)
  <2> HIDE DEF d
  <2>1. StringToStringMap(StringToStringMap(d.mounts, mounts[name]), more)
          = StringToStringMap(d.mounts, both[name])
    BY <1>3, MapsMergedTogether
  <2>2. Modified(d, new.settings[name], new.probe[name], new.env[name], new.mounts[name])
        = [Modified(d, old.settings[name], old.probe[name], old.env[name],
                    old.mounts[name]) EXCEPT !.mounts = StringToStringMap(@, more)]
    BY <1>2, <2>1 DEF Modified
  <2>3. QED
    BY <2>2 DEF d
<1>5. [Rewritten(list, old) EXCEPT ![name].mounts = StringToStringMap(@, more)] = Rewritten(list, new)
  <2>1. /\ DOMAIN Rewritten(list, old) = DOMAIN list \cup OperatorContainers
        /\ DOMAIN Rewritten(list, new) = DOMAIN list \cup OperatorContainers
        /\ name \in DOMAIN list \cup OperatorContainers
    BY <1>2 DEF Rewritten
  <2>2. /\ Rewritten(list, old)[name]
             = Modified(Existing(list, name), old.settings[name], old.probe[name], old.env[name],
                        old.mounts[name])
        /\ Rewritten(list, new)[name]
             = Modified(Existing(list, name), new.settings[name], new.probe[name], new.env[name],
                        new.mounts[name])
    BY <1>2 DEF Rewritten
  <2>3. \A c \in (DOMAIN list \cup OperatorContainers) \ {name} :
          Rewritten(list, old)[c] = Rewritten(list, new)[c]
    BY <1>2, <1>3 DEF Rewritten
  <2>4. Rewritten(list, new) = [c \in DOMAIN list \cup OperatorContainers |-> Rewritten(list, new)[c]]
    BY <1>2 DEF Rewritten
  <2> DEFINE a == Rewritten(list, old)
             b == Rewritten(list, new)
  <2>5. /\ DOMAIN a = DOMAIN b /\ b = [c \in DOMAIN b |-> b[c]] /\ name \in DOMAIN a
        /\ \A c \in DOMAIN a \ {name} : a[c] = b[c]
        /\ b[name] = [a[name] EXCEPT !.mounts = StringToStringMap(@, more)]
    BY <1>4, <2>1, <2>2, <2>3, <2>4
  <2> HIDE DEF a, b
  <2>6. [a EXCEPT ![name].mounts = StringToStringMap(@, more)] = b
    BY <2>5
  <2>7. QED
    BY <2>6 DEF a, b
<1>6. u.containers = Rewritten(list, new)
  BY <1>1, <1>5 DEF old
<1>7. QED
  BY <1>1, <1>6 DEF u, new, WrittenInto

\* A further volume is merged.
LEMMA VolumesWritten ==
  ASSUME NEW t, AllFields(t), NEW list, NEW added, t.volumes = Volumes(list, added),
         NEW name, name \notin DOMAIN added, NEW volume
  PROVE  LET u == WithVolume(t, name, volume)
         IN  /\ SameRest(u, t) /\ u.containers = t.containers
             /\ u.volumes = Volumes(list, StringToStringMap(added, Named(name, volume)))
<1> DEFINE u   == WithVolume(t, name, volume)
           one == Named(name, volume)
           all == StringToStringMap(added, one)
<1>1. /\ SameRest(u, t) /\ u.containers = t.containers
      /\ u.volumes = Volumes(t.volumes, one)
  BY DEF WithVolume, WithVolumes, SameRest, AllFields
<1>2. DOMAIN one = {name} /\ one[name] = volume
  BY NamedEntry
<1> HIDE DEF u, one
<1>3. /\ DOMAIN all = DOMAIN added \cup {name} /\ all[name] = volume
      /\ \A v \in DOMAIN added : all[v] = added[v]
  BY <1>2 DEF StringToStringMap
<1> HIDE DEF all
<1>4. Volumes(Volumes(list, added), one) = Volumes(list, all)
  BY <1>2, <1>3 DEF Volumes, MergeByName
<1>5. QED
  BY <1>1, <1>4 DEF u, all, one

\* The volumes with the server's certificates.
TLSVolumesOf(m) ==
  IF m.tls THEN StringToStringMap(StringToStringMap(PlainVolumes,
                                    Named("tls-ca", FromSecret("ca"))),
                                  Named("tls-secret", FromSecret("server")))
  ELSE PlainVolumes

\* With that of the Prometheus endpoint.
PrometheusVolumesOf(m) ==
  IF m.prometheus = "https"
  THEN StringToStringMap(TLSVolumesOf(m), Named("prom-tls-secret", FromSecret("prometheus")))
  ELSE TLSVolumesOf(m)

\* With the agent's.
AllVolumes(m) ==
  IF m.x509 THEN StringToStringMap(PrometheusVolumesOf(m), Named(AgentPemFile, FromSecret("agent")))
  ELSE PrometheusVolumesOf(m)

\* Both containers are given further mounts.
ToBoth(mounts, more) == [c \in OperatorContainers |-> StringToStringMap(mounts[c], more)]

\* The mounts with the server's certificates.
TLSMountsOf(m) ==
  IF m.tls THEN ToBoth(PlainMounts(m), StringToStringMap(Mount("tls-ca", "/tls/ca", TRUE),
                                                         Mount("tls-secret", "/tls/server", TRUE)))
  ELSE PlainMounts(m)

\* With that of the Prometheus endpoint.
PrometheusMountsOf(m) ==
  IF m.prometheus = "https"
  THEN ToBoth(TLSMountsOf(m), Mount("prom-tls-secret", "/tls/prometheus", TRUE))
  ELSE TLSMountsOf(m)

\* With the agent's.
AllMounts(m) ==
  IF m.x509 THEN [PrometheusMountsOf(m) EXCEPT ![AgentName] =
                    StringToStringMap(@, Mount(AgentPemFile, "/agent-certs", TRUE))]
  ELSE PrometheusMountsOf(m)

\* What is there of a template at some stage: the rest of t, written volumes
\* and written containers.
Stage(u, t, m, volumes, mounts) ==
  /\ SameRest(u, t) /\ AllFields(u)
  /\ u.volumes = Volumes(t.volumes, volumes)
  /\ u.containers = Rewritten(t.containers, ContainerWrites(m, mounts))

\* The volumes and mounts of each stage.
LEMMA StageDomains ==
  ASSUME NEW m
  PROVE  /\ DOMAIN PlainVolumes = OperatorVolumes
         /\ DOMAIN TLSVolumesOf(m) = OperatorVolumes \cup TLSVolumes(m)
         /\ DOMAIN PrometheusVolumesOf(m)
              = OperatorVolumes \cup TLSVolumes(m) \cup PrometheusVolumes(m)
         /\ DOMAIN PlainMounts(m) = OperatorContainers
         /\ DOMAIN TLSMountsOf(m) = OperatorContainers
         /\ DOMAIN PrometheusMountsOf(m) = OperatorContainers
<1>1. DOMAIN PlainVolumes = OperatorVolumes
  BY DEF PlainVolumes
<1>2. DOMAIN TLSVolumesOf(m) = OperatorVolumes \cup TLSVolumes(m)
  BY <1>1 DEF TLSVolumesOf, TLSVolumes, StringToStringMap, Named
<1>3. DOMAIN PrometheusVolumesOf(m) = OperatorVolumes \cup TLSVolumes(m) \cup PrometheusVolumes(m)
  BY <1>2 DEF PrometheusVolumesOf, PrometheusVolumes, StringToStringMap, Named
<1>4. DOMAIN PlainMounts(m) = OperatorContainers
  BY DEF PlainMounts
<1>5. DOMAIN TLSMountsOf(m) = OperatorContainers
  BY <1>4 DEF TLSMountsOf, ToBoth
<1>6. DOMAIN PrometheusMountsOf(m) = OperatorContainers
  BY <1>5 DEF PrometheusMountsOf, ToBoth
<1>7. QED
  BY <1>1, <1>2, <1>3, <1>4, <1>5, <1>6

\* A stage that adds mounts to one of the containers.
LEMMA MountedInOne ==
  ASSUME NEW u, NEW t, NEW m, NEW volumes, NEW mounts, Stage(u, t, m, volumes, mounts),
         DOMAIN mounts = OperatorContainers, NEW name \in OperatorContainers, NEW more,
         NEW both, both = [mounts EXCEPT ![name] = StringToStringMap(@, more)]
  PROVE  Stage(WithVolumeMounts(u, name, more), t, m, volumes, both)
<1> DEFINE a    == WithVolumeMounts(u, name, more)
           list == t.containers
<1>1. /\ AllFields(u) /\ SameRest(u, t) /\ u.volumes = Volumes(t.volumes, volumes)
      /\ u.containers = Rewritten(list, ContainerWrites(m, mounts))
  BY DEF Stage
<1> HIDE DEF list
<1>2. WrittenInto(a, u, Rewritten(list, ContainerWrites(m, both)))
  BY <1>1, MountsWritten
<1> HIDE DEF a
<1>3. /\ SameRest(a, u) /\ a.volumes = u.volumes
      /\ a.containers = Rewritten(list, ContainerWrites(m, both))
  BY <1>2 DEF WrittenInto
<1>4. SameRest(a, t) /\ AllFields(a)
  BY <1>1, <1>3 DEF SameRest, AllFields
<1>5. QED
  BY <1>1, <1>3, <1>4 DEF Stage, a, list

\* A stage that adds the same mounts to both containers.
LEMMA MountedInBoth ==
  ASSUME NEW u, NEW t, NEW m, NEW volumes, NEW mounts, Stage(u, t, m, volumes, mounts),
         DOMAIN mounts = OperatorContainers, NEW more
  PROVE  Stage(WithVolumeMounts(WithVolumeMounts(u, AgentName, more), MongodbName, more),
               t, m, volumes, ToBoth(mounts, more))
<1> DEFINE a     == WithVolumeMounts(u, AgentName, more)
           b     == WithVolumeMounts(a, MongodbName, more)
           once  == [mounts EXCEPT ![AgentName] = StringToStringMap(@, more)]
           twice == [once EXCEPT ![MongodbName] = StringToStringMap(@, more)]
<1>0. /\ AgentName \in OperatorContainers /\ MongodbName \in OperatorContainers
      /\ AgentName # MongodbName /\ OperatorContainers = {AgentName, MongodbName}
  BY DEF OperatorContainers, AgentName, MongodbName
<1>1. DOMAIN once = OperatorContainers
  OBVIOUS
<1>2. Stage(a, t, m, volumes, once)
  <2>1. once = [mounts EXCEPT ![AgentName] = StringToStringMap(@, more)]
    OBVIOUS
  <2> HIDE DEF once
  <2>2. QED
    BY <1>0, <2>1, MountedInOne
<1>3. twice = [once EXCEPT ![MongodbName] = StringToStringMap(@, more)]
  OBVIOUS
<1>a. twice = ToBoth(mounts, more)
  <2>1. \A c \in OperatorContainers : twice[c] = StringToStringMap(mounts[c], more)
    BY <1>0, <1>1
  <2>2. twice = [c \in OperatorContainers |-> twice[c]]
    OBVIOUS
  <2> HIDE DEF twice
  <2>3. QED
    BY <2>1, <2>2 DEF ToBoth
<1> HIDE DEF a, once, twice
<1>4. Stage(b, t, m, volumes, twice)
  BY <1>0, <1>1, <1>2, <1>3, MountedInOne
<1>5. QED
  BY <1>4, <1>a DEF b, a

\* A stage that adds a volume.
LEMMA VolumeStage ==
  ASSUME NEW u, NEW t, NEW m, NEW volumes, NEW mounts, Stage(u, t, m, volumes, mounts),
         NEW name, name \notin DOMAIN volumes, NEW volume
  PROVE  Stage(WithVolume(u, name, volume), t, m,
               StringToStringMap(volumes, Named(name, volume)), mounts)
<1> DEFINE a    == WithVolume(u, name, volume)
           list == t.volumes
<1>1. /\ AllFields(u) /\ SameRest(u, t) /\ u.volumes = Volumes(list, volumes)
      /\ u.containers = Rewritten(t.containers, ContainerWrites(m, mounts))
  BY DEF Stage
<1> HIDE DEF list
<1>2. /\ SameRest(a, u) /\ a.containers = u.containers
      /\ a.volumes = Volumes(list, StringToStringMap(volumes, Named(name, volume)))
  BY <1>1, VolumesWritten
<1> HIDE DEF a
<1>3. SameRest(a, t) /\ AllFields(a)
  BY <1>1, <1>2 DEF SameRest, AllFields
<1>4. QED
  BY <1>1, <1>2, <1>3 DEF Stage, a, list

\* The server's certificates.
LEMMA TLSStage ==
  ASSUME NEW u, NEW t, NEW m, Stage(u, t, m, PlainVolumes, PlainMounts(m))
  PROVE  Stage(BuildTLSPodSpec(u, m), t, m, TLSVolumesOf(m), TLSMountsOf(m))
<1>1. CASE ~m.tls
  BY <1>1 DEF BuildTLSPodSpec, TLSVolumesOf, TLSMountsOf
<1>2. CASE m.tls
  <2> DEFINE mounts == StringToStringMap(Mount("tls-ca", "/tls/ca", TRUE),
                                         Mount("tls-secret", "/tls/server", TRUE))
             ca  == StringToStringMap(PlainVolumes, Named("tls-ca", FromSecret("ca")))
             all == StringToStringMap(ca, Named("tls-secret", FromSecret("server")))
             a   == WithVolume(u, "tls-ca", FromSecret("ca"))
             b   == WithVolume(a, "tls-secret", FromSecret("server"))
  <2>1. BuildTLSPodSpec(u, m)
          = WithVolumeMounts(WithVolumeMounts(b, AgentName, mounts), MongodbName, mounts)
    BY <1>2 DEF BuildTLSPodSpec
  <2>2. TLSVolumesOf(m) = all /\ TLSMountsOf(m) = ToBoth(PlainMounts(m), mounts)
    BY <1>2 DEF TLSVolumesOf, TLSMountsOf
  <2>3. /\ "tls-ca" \notin DOMAIN PlainVolumes /\ "tls-secret" \notin DOMAIN ca
        /\ DOMAIN PlainMounts(m) = OperatorContainers
    <3>1. DOMAIN PlainVolumes = OperatorVolumes /\ DOMAIN PlainMounts(m) = OperatorContainers
      BY StageDomains
    <3>2. DOMAIN ca = OperatorVolumes \cup {"tls-ca"}
      BY <3>1 DEF StringToStringMap, Named
    <3> HIDE DEF ca
    <3>3. QED
      BY <3>1, <3>2 DEF OperatorVolumes
  <2> HIDE DEF mounts
  <2>4. Stage(a, t, m, ca, PlainMounts(m))
    BY <2>3, VolumeStage
  <2> HIDE DEF a, ca
  <2>5. Stage(b, t, m, all, PlainMounts(m))
    BY <2>3, <2>4, VolumeStage
  <2> HIDE DEF b, all
  <2>6. QED
    BY <2>1, <2>2, <2>3, <2>5, MountedInBoth
<1>3. QED
  BY <1>1, <1>2

\* That of the Prometheus endpoint.
LEMMA PrometheusStage ==
  ASSUME NEW u, NEW t, NEW m, Stage(u, t, m, TLSVolumesOf(m), TLSMountsOf(m))
  PROVE  Stage(BuildTLSPrometheus(u, m), t, m, PrometheusVolumesOf(m), PrometheusMountsOf(m))
<1>1. CASE m.prometheus # "https"
  BY <1>1 DEF BuildTLSPrometheus, PrometheusVolumesOf, PrometheusMountsOf
<1>2. CASE m.prometheus = "https"
  <2> DEFINE mounts == Mount("prom-tls-secret", "/tls/prometheus", TRUE)
             all == StringToStringMap(TLSVolumesOf(m),
                                      Named("prom-tls-secret", FromSecret("prometheus")))
             b   == WithVolume(u, "prom-tls-secret", FromSecret("prometheus"))
  <2>1. BuildTLSPrometheus(u, m)
          = WithVolumeMounts(WithVolumeMounts(b, AgentName, mounts), MongodbName, mounts)
    BY <1>2 DEF BuildTLSPrometheus
  <2>2. PrometheusVolumesOf(m) = all /\ PrometheusMountsOf(m) = ToBoth(TLSMountsOf(m), mounts)
    BY <1>2 DEF PrometheusVolumesOf, PrometheusMountsOf
  <2>3. /\ "prom-tls-secret" \notin DOMAIN TLSVolumesOf(m)
        /\ DOMAIN TLSMountsOf(m) = OperatorContainers
    <3>1. /\ DOMAIN TLSVolumesOf(m) = OperatorVolumes \cup TLSVolumes(m)
          /\ DOMAIN TLSMountsOf(m) = OperatorContainers
      BY StageDomains
    <3>2. QED
      BY <3>1 DEF OperatorVolumes, TLSVolumes
  <2> HIDE DEF mounts
  <2>5. Stage(b, t, m, all, TLSMountsOf(m))
    BY <2>3, VolumeStage
  <2> HIDE DEF b, all
  <2>6. QED
    BY <2>1, <2>2, <2>3, <2>5, MountedInBoth
<1>3. QED
  BY <1>1, <1>2

\* Mounts without those of the agent's certificate.
KeptMounts(mounts) == [k \in {k \in DOMAIN mounts : k[1] # AgentPemFile} |-> mounts[k]]

\* A container with other mounts.
WithMounts(c, mounts) ==
  [settings |-> c.settings, resources |-> c.resources, readinessProbe |-> c.readinessProbe,
   securityContext |-> c.securityContext, env |-> c.env, mounts |-> mounts]

\* The containers as the operator finds them, less the mount of a certificate
\* that is no longer used.
Cleaned(list, m) ==
  [c \in DOMAIN list |->
     IF c = AgentName /\ ~m.x509 THEN WithMounts(list[c], KeptMounts(list[c].mounts))
     ELSE list[c]]

\* The volume that is taken away.
Gone(m) == IF m.x509 THEN {} ELSE {AgentPemFile}

\* Nothing else than the agent's certificate has its name.
LEMMA OtherMounts ==
  ASSUME NEW m
  PROVE  \A c \in OperatorContainers : \A k \in DOMAIN PrometheusMountsOf(m)[c] :
           k[1] # AgentPemFile
<1>1. ASSUME NEW c \in OperatorContainers
      PROVE  \A k \in DOMAIN PlainMounts(m)[c] : k[1] # AgentPemFile
  <2>1. \A k : OperatorMount(k) => k[1] # AgentPemFile
    BY DEF OperatorMount, OperatorVolumes, OperatorClaims, AgentPemFile
  <2>2. \A k \in {<<"healthstatus", "/var/log/healthstatus">>, <<"automation-config", "/config">>,
                 <<"agent-scripts", "/opt/scripts">>, <<"healthstatus", "/healthstatus">>,
                 <<"hooks", "/hooks">>} : OperatorMount(k)
    BY DEF OperatorMount, OperatorVolumes, OperatorClaims
  <2>3. DOMAIN PlainMounts(m)[c] \subseteq DOMAIN CommonMounts(m) \cup
          {<<"healthstatus", "/var/log/healthstatus">>, <<"automation-config", "/config">>,
           <<"agent-scripts", "/opt/scripts">>, <<"healthstatus", "/healthstatus">>,
           <<"hooks", "/hooks">>}
    BY DEF PlainMounts, StringToStringMap, Mount, Named
  <2>4. \A k \in DOMAIN CommonMounts(m) : OperatorMount(k)
    BY CommonMountsDomain
  <2>5. QED
    BY <2>1, <2>2, <2>3, <2>4
<1>2. ASSUME NEW c \in OperatorContainers
      PROVE  \A k \in DOMAIN TLSMountsOf(m)[c] : k[1] # AgentPemFile
  <2> DEFINE more == StringToStringMap(Mount("tls-ca", "/tls/ca", TRUE),
                                       Mount("tls-secret", "/tls/server", TRUE))
  <2>1. \A k \in DOMAIN more : k[1] # AgentPemFile
    <3>1. DOMAIN more = {<<"tls-ca", "/tls/ca">>, <<"tls-secret", "/tls/server">>}
      BY DEF StringToStringMap, Mount, Named
    <3> HIDE DEF more
    <3>2. QED
      BY <3>1 DEF AgentPemFile
  <2>2. TLSMountsOf(m)[c] \in {PlainMounts(m)[c], StringToStringMap(PlainMounts(m)[c], more)}
    BY DEF TLSMountsOf, ToBoth
  <2> HIDE DEF more
  <2>3. DOMAIN TLSMountsOf(m)[c] \subseteq DOMAIN PlainMounts(m)[c] \cup DOMAIN more
    BY <2>2 DEF StringToStringMap
  <2>4. QED
    BY <1>1, <2>1, <2>3
<1>3. ASSUME NEW c \in OperatorContainers
      PROVE  \A k \in DOMAIN PrometheusMountsOf(m)[c] : k[1] # AgentPemFile
  <2> DEFINE more == Mount("prom-tls-secret", "/tls/prometheus", TRUE)
  <2>1. \A k \in DOMAIN more : k[1] # AgentPemFile
    <3>1. DOMAIN more = {<<"prom-tls-secret", "/tls/prometheus">>}
      BY DEF Mount, Named
    <3> HIDE DEF more
    <3>2. QED
      BY <3>1 DEF AgentPemFile
  <2>2. PrometheusMountsOf(m)[c] \in {TLSMountsOf(m)[c], StringToStringMap(TLSMountsOf(m)[c], more)}
    BY DEF PrometheusMountsOf, ToBoth
  <2> HIDE DEF more
  <2>3. DOMAIN PrometheusMountsOf(m)[c] \subseteq DOMAIN TLSMountsOf(m)[c] \cup DOMAIN more
    BY <2>2 DEF StringToStringMap
  <2>4. QED
    BY <1>2, <2>1, <2>3
<1>4. QED
  BY <1>3

\* Writing cleaned containers.
LEMMA CleanedWritten ==
  ASSUME NEW list, NEW m, NEW mounts
  PROVE  LET w == ContainerWrites(m, mounts)
             new == Rewritten(Cleaned(list, m), w)
             old == Rewritten(list, w)
         IN  /\ m.x509 => new = old
             /\ ~m.x509 =>
                  /\ DOMAIN new = DOMAIN old /\ new = [c \in DOMAIN new |-> new[c]]
                  /\ \A c \in DOMAIN old \ {AgentName} : new[c] = old[c]
                  /\ new[AgentName] = [old[AgentName] EXCEPT !.mounts =
                       StringToStringMap(KeptMounts(Existing(list, AgentName).mounts),
                                         mounts[AgentName])]
<1> DEFINE w   == ContainerWrites(m, mounts)
           all == Cleaned(list, m)
           new == Rewritten(all, w)
           old == Rewritten(list, w)
           W(c, d) == Modified(d, w.settings[c], w.probe[c], w.env[c], w.mounts[c])
<1>0. DOMAIN w.settings = OperatorContainers /\ w.mounts = mounts /\ AgentName \in OperatorContainers
  BY DEF ContainerWrites, OperatorContainers
<1>1. DOMAIN all = DOMAIN list /\ \A c \in DOMAIN list \ {AgentName} : all[c] = list[c]
  BY DEF Cleaned
<1>2. \A c : c # AgentName => Existing(all, c) = Existing(list, c)
  BY <1>1 DEF Existing
<1>3. m.x509 => \A c \in DOMAIN list : all[c] = list[c]
  BY DEF Cleaned
<1>4. m.x509 => Existing(all, AgentName) = Existing(list, AgentName)
  BY <1>1, <1>3 DEF Existing
<1>5. ASSUME ~m.x509
      PROVE  W(AgentName, Existing(all, AgentName))
               = [W(AgentName, Existing(list, AgentName)) EXCEPT !.mounts =
                    StringToStringMap(KeptMounts(Existing(list, AgentName).mounts),
                                      mounts[AgentName])]
  <2> DEFINE d == Existing(list, AgentName)
             e == Existing(all, AgentName)
             kept == StringToStringMap(KeptMounts(d.mounts), mounts[AgentName])
  <2>1. /\ e.settings = d.settings /\ e.readinessProbe = d.readinessProbe /\ e.env = d.env
        /\ StringToStringMap(e.mounts, mounts[AgentName]) = kept
    <3>1. CASE AgentName \in DOMAIN list
      <4>1. d = list[AgentName] /\ e = WithMounts(d, KeptMounts(d.mounts))
        BY <1>1, <1>5, <3>1 DEF Existing, Cleaned
      <4> HIDE DEF d, e
      <4>2. e.settings = d.settings /\ e.readinessProbe = d.readinessProbe /\ e.env = d.env
            /\ e.mounts = KeptMounts(d.mounts)
        BY <4>1 DEF WithMounts
      <4>3. QED
        BY <4>2
    <3>2. CASE AgentName \notin DOMAIN list
      <4>1. d = NewContainer /\ e = NewContainer
        BY <1>1, <3>2 DEF Existing
      <4>2. DOMAIN NewContainer.mounts = {}
        BY ExistingMounts DEF NewContainer, Nothing
      <4> HIDE DEF d, e
      <4>3. StringToStringMap(d.mounts, mounts[AgentName]) = kept
        BY <4>1, <4>2 DEF StringToStringMap, KeptMounts
      <4>4. QED
        BY <4>1, <4>3
    <3>3. QED
      BY <3>1, <3>2
  <2> HIDE DEF d, e, kept
  <2>2. W(AgentName, e) = [W(AgentName, d) EXCEPT !.mounts = kept]
    BY <1>0, <2>1 DEF Modified
  <2>3. QED
    BY <2>2 DEF d, e, kept
<1> HIDE DEF all, w
<1>6. /\ DOMAIN new = DOMAIN list \cup OperatorContainers /\ DOMAIN old = DOMAIN new
      /\ new = [c \in DOMAIN new |-> new[c]] /\ old = [c \in DOMAIN old |-> old[c]]
  BY <1>0, <1>1 DEF Rewritten
<1>7. \A c \in DOMAIN old \ {AgentName} : new[c] = old[c]
  BY <1>0, <1>1, <1>2 DEF Rewritten
<1>8. /\ new[AgentName] = W(AgentName, Existing(all, AgentName))
      /\ old[AgentName] = W(AgentName, Existing(list, AgentName))
  BY <1>0 DEF Rewritten
<1>9. m.x509 => new = old
  <2>1. m.x509 => new[AgentName] = old[AgentName]
    BY <1>4, <1>8
  <2> HIDE DEF new, old
  <2>2. QED
    BY <1>6, <1>7, <2>1
<1> HIDE DEF new, old
<1>10. QED
  BY <1>5, <1>6, <1>7, <1>8, <1>9 DEF new, old, all, w

\* With the agent's certificate nothing is taken away.
LEMMA NothingCleaned ==
  ASSUME NEW list, NEW m, m.x509, NEW w
  PROVE  Rewritten(Cleaned(list, m), w) = Rewritten(list, w)
<1>1. DOMAIN Cleaned(list, m) = DOMAIN list /\ \A c \in DOMAIN list : Cleaned(list, m)[c] = list[c]
  BY DEF Cleaned
<1>2. \A c : Existing(Cleaned(list, m), c) = Existing(list, c)
  BY <1>1 DEF Existing
<1>3. QED
  BY <1>1, <1>2 DEF Rewritten

\* The only mount of a volume is taken away.
LEMMA OneMountRemoved ==
  ASSUME NEW t, AllFields(t), AgentName \in DOMAIN t.containers,
         "mounts" \in DOMAIN t.containers[AgentName],
         \A k \in DOMAIN t.containers[AgentName].mounts : k[1] = AgentPemFile => k = AgentMount,
         IsMap(t.containers), IsMap(t.containers[AgentName]), IsMap(t.containers[AgentName].mounts)
  PROVE  WrittenInto(RemoveVolumeMount(t, AgentName, AgentPemFile), t,
                     [t.containers EXCEPT ![AgentName].mounts = KeptMounts(@)])
<1> DEFINE mounts == t.containers[AgentName].mounts
           found  == {k \in DOMAIN mounts : k[1] = AgentPemFile}
           last   == CHOOSE k \in found : TRUE
           rest   == [k \in DOMAIN mounts \ {last} |-> mounts[k]]
<1>1. CASE found = {}
  <2>1. KeptMounts(mounts) = mounts
    BY <1>1 DEF KeptMounts, IsMap
  <2>2. RemoveVolumeMount(t, AgentName, AgentPemFile) = t
    BY <1>1 DEF RemoveVolumeMount
  <2> HIDE DEF found
  <2>3. [t.containers EXCEPT ![AgentName].mounts = mounts] = t.containers
    <3>1. [t.containers[AgentName] EXCEPT !.mounts = mounts] = t.containers[AgentName]
      BY DEF IsMap
    <3>2. [t.containers EXCEPT ![AgentName] = t.containers[AgentName]] = t.containers
      BY DEF IsMap
    <3>3. QED
      BY <3>1, <3>2
  <2>4. QED
    BY <2>1, <2>2, <2>3 DEF WrittenInto, SameRest
<1>2. CASE found # {}
  <2>1. last \in found
    BY <1>2
  <2>2. RemoveVolumeMount(t, AgentName, AgentPemFile) = [t EXCEPT !.containers[AgentName].mounts = rest]
    BY <1>2 DEF RemoveVolumeMount
  <2>3. \A k \in DOMAIN mounts : k = last <=> k[1] = AgentPemFile
    BY <2>1
  <2> HIDE DEF last, found
  <2>4. rest = KeptMounts(mounts)
    BY <2>3 DEF KeptMounts
  <2> HIDE DEF rest
  <2>5. QED
    BY <2>2, <2>4 DEF WrittenInto, SameRest, AllFields
<1>3. QED
  BY <1>1, <1>2

\* What the operator has made of a template when all is written.
Final(u, r, m) ==
  /\ SameRest(u, r) /\ AllFields(u)
  /\ u.volumes = WrittenVolumes(r.volumes, AllVolumes(m), Gone(m))
  /\ u.containers = Rewritten(Cleaned(r.containers, m), ContainerWrites(m, AllMounts(m)))

\* The agent's certificate.
LEMMA AgentStage ==
  ASSUME NEW u, NEW r, NEW m, Stage(u, r, m, PrometheusVolumesOf(m), PrometheusMountsOf(m)),
         \A k \in DOMAIN Existing(r.containers, AgentName).mounts :
           k[1] = AgentPemFile => k = AgentMount
  PROVE  Final(BuildAgentX509(u, m), r, m)
<1> DEFINE volumes == PrometheusVolumesOf(m)
           mounts  == PrometheusMountsOf(m)
<1>0. /\ AgentName \in OperatorContainers /\ DOMAIN mounts = OperatorContainers
      /\ AgentPemFile \notin DOMAIN volumes
  <2>1. /\ DOMAIN mounts = OperatorContainers
        /\ DOMAIN volumes = OperatorVolumes \cup TLSVolumes(m) \cup PrometheusVolumes(m)
    BY StageDomains
  <2>2. QED
    BY <2>1 DEF OperatorContainers, AgentPemFile, OperatorVolumes, TLSVolumes, PrometheusVolumes
<1>1. CASE m.x509
  <2> DEFINE one  == Mount(AgentPemFile, "/agent-certs", TRUE)
             a    == WithVolume(u, AgentPemFile, FromSecret("agent"))
             b    == WithVolumeMounts(a, AgentName, one)
             both == [mounts EXCEPT ![AgentName] = StringToStringMap(@, one)]
             all  == StringToStringMap(volumes, Named(AgentPemFile, FromSecret("agent")))
  <2>1. BuildAgentX509(u, m) = b /\ AllVolumes(m) = all /\ AllMounts(m) = both /\ Gone(m) = {}
    BY <1>1 DEF BuildAgentX509, AllVolumes, AllMounts, Gone
  <2> HIDE DEF volumes, mounts, one
  <2>2. Stage(a, r, m, all, mounts)
    BY <1>0, VolumeStage DEF volumes, mounts
  <2>3. both = [mounts EXCEPT ![AgentName] = StringToStringMap(@, one)]
    OBVIOUS
  <2> HIDE DEF a, all, both
  <2>4. Stage(b, r, m, all, both)
    BY <1>0, <2>2, <2>3, MountedInOne
  <2> HIDE DEF b
  <2>5. Volumes(r.volumes, all) = WrittenVolumes(r.volumes, all, {})
    BY DEF WrittenVolumes, Volumes, MergeByName
  <2> DEFINE list == r.containers
  <2> HIDE DEF list
  <2>6. Rewritten(list, ContainerWrites(m, both)) = Rewritten(Cleaned(list, m), ContainerWrites(m, both))
    BY <1>1, NothingCleaned
  <2>7. QED
    BY <2>1, <2>4, <2>5, <2>6 DEF Stage, Final, list
<1>2. CASE ~m.x509
  <2> DEFINE a   == RemoveVolume(u, AgentPemFile)
             b   == RemoveVolumeMount(a, AgentName, AgentPemFile)
             list == r.containers
             w   == ContainerWrites(m, mounts)
             old == Rewritten(list, w)
             new == Rewritten(Cleaned(list, m), w)
             d   == Existing(list, AgentName)
  <2>1. /\ BuildAgentX509(u, m) = b /\ AllVolumes(m) = volumes /\ AllMounts(m) = mounts
        /\ Gone(m) = {AgentPemFile}
    BY <1>2 DEF BuildAgentX509, AllVolumes, AllMounts, Gone
  <2>2. /\ SameRest(u, r) /\ AllFields(u) /\ u.volumes = Volumes(r.volumes, volumes)
        /\ u.containers = old
    BY DEF Stage
  <2>a. \A k \in DOMAIN mounts[AgentName] : k[1] # AgentPemFile
    BY <1>0, OtherMounts
  <2> HIDE DEF volumes, mounts
  <2>3. /\ SameRest(a, r) /\ AllFields(a) /\ a.containers = old
        /\ a.volumes = WrittenVolumes(r.volumes, volumes, {AgentPemFile})
    <3>1. /\ SameRest(a, u) /\ AllFields(a) /\ a.containers = u.containers
          /\ a.volumes = [n \in DOMAIN u.volumes \ {AgentPemFile} |-> u.volumes[n]]
      BY <2>2 DEF RemoveVolume, SameRest, AllFields
    <3>2. DOMAIN u.volumes = DOMAIN r.volumes \cup DOMAIN volumes
      BY <2>2 DEF Volumes, MergeByName
    <3> HIDE DEF a
    <3>3. SameRest(a, r)
      BY <2>2, <3>1 DEF SameRest
    <3>4. QED
      BY <2>2, <3>1, <3>2, <3>3 DEF WrittenVolumes
  <2> HIDE DEF a
  <2>4. /\ AgentName \in DOMAIN old /\ IsMap(old) /\ IsMap(old[AgentName])
        /\ "mounts" \in DOMAIN old[AgentName]
        /\ old[AgentName].mounts = StringToStringMap(d.mounts, mounts[AgentName])
    <3>1. DOMAIN w.settings = OperatorContainers /\ w.mounts = mounts
      BY DEF ContainerWrites
    <3>2. AgentName \in DOMAIN old /\ IsMap(old)
      BY <1>0, <3>1 DEF Rewritten, IsMap
    <3>3. old[AgentName] = Modified(d, w.settings[AgentName], w.probe[AgentName], w.env[AgentName],
                                    mounts[AgentName])
      BY <1>0, <3>1 DEF Rewritten
    <3> HIDE DEF old, w, d
    <3>4. QED
      BY <3>2, <3>3 DEF Modified, IsMap
  <2>5. /\ \A k \in DOMAIN old[AgentName].mounts : k[1] = AgentPemFile => k = AgentMount
        /\ IsMap(old[AgentName].mounts)
        /\ KeptMounts(old[AgentName].mounts)
             = StringToStringMap(KeptMounts(d.mounts), mounts[AgentName])
    <3>1. \A k \in DOMAIN d.mounts : k[1] = AgentPemFile => k = AgentMount
      OBVIOUS
    <3> DEFINE x == d.mounts
               y == mounts[AgentName]
               z == old[AgentName].mounts
    <3>2. z = StringToStringMap(x, y)
      BY <2>4
    <3> HIDE DEF x, y, z
    <3>3. IsMap(z) /\ DOMAIN z = DOMAIN x \cup DOMAIN y
      BY <3>2 DEF StringToStringMap, IsMap
    <3>4. KeptMounts(z) = StringToStringMap(KeptMounts(x), y)
      <4>1. \A k \in DOMAIN y : k[1] # AgentPemFile
        BY <2>a DEF y
      <4>2. QED
        BY <3>2, <4>1 DEF KeptMounts, StringToStringMap
    <3>5. \A k \in DOMAIN z : k[1] = AgentPemFile => k = AgentMount
      BY <2>a, <3>1, <3>3 DEF x, y
    <3>6. QED
      BY <3>3, <3>4, <3>5 DEF x, y, z
  <2>6. /\ DOMAIN new = DOMAIN old /\ new = [c \in DOMAIN new |-> new[c]]
        /\ \A c \in DOMAIN old \ {AgentName} : new[c] = old[c]
        /\ new[AgentName] = [old[AgentName] EXCEPT !.mounts =
             StringToStringMap(KeptMounts(d.mounts), mounts[AgentName])]
    <3> HIDE DEF list
    <3>1. QED
      BY <1>2, CleanedWritten
  <2> HIDE DEF new, old, d, w, list
  <2>7. [old EXCEPT ![AgentName].mounts = KeptMounts(@)] = new
    BY <2>4, <2>5, <2>6 DEF IsMap
  <2>8. WrittenInto(b, a, new)
    <3>1. WrittenInto(b, a, [a.containers EXCEPT ![AgentName].mounts = KeptMounts(@)])
      BY <2>3, <2>4, <2>5, OneMountRemoved
    <3>2. QED
      BY <2>3, <2>7, <3>1
  <2> HIDE DEF b
  <2>9. SameRest(b, r) /\ AllFields(b) /\ b.volumes = a.volumes /\ b.containers = new
    BY <2>3, <2>8 DEF WrittenInto, SameRest, AllFields
  <2>10. QED
    BY <2>1, <2>3, <2>9 DEF Final, new, list, w
<1>3. QED
  BY <1>1, <1>2

\* What it makes of a template, in full.
BuiltFrom(u, t, m) ==
  /\ AllFields(u)
  /\ u.settings = StringToStringMap(t.settings, PodSettings)
  /\ u.labels = [app |-> "svc"]
  /\ u.hostAliases = t.hostAliases /\ u.topology = t.topology
  /\ u.volumes = WrittenVolumes(t.volumes, AllVolumes(m), Gone(m))
  /\ u.containers = Rewritten(Cleaned(t.containers, m), ContainerWrites(m, AllMounts(m)))
  /\ u.initContainers = Rewritten(t.initContainers, InitWrites)

\* It does.
LEMMA BuiltTemplateValue ==
  ASSUME NEW t, TemplateShape(t), OneAgentMount(t), NEW m
  PROVE  BuiltFrom(BuiltTemplate(t, m), t, m)
<1> DEFINE a == OperatorTemplate(t, m)
           r == [a EXCEPT !.volumes = t.volumes, !.containers = t.containers]
           b == BuildTLSPodSpec(a, m)
           d == BuildTLSPrometheus(b, m)
           u == BuildAgentX509(d, m)
<1>1. PlainFrom(a, t, m)
  BY OperatorTemplateValue
<1>2. AllFields(a)
  <2>1. OperatorShape(a)
    BY OperatorTemplateEffect
  <2> HIDE DEF a
  <2>2. QED
    BY <2>1 DEF OperatorShape, TemplateShape, AllFields
<1> HIDE DEF a
<1>3. SameRest(a, r) /\ r.volumes = t.volumes /\ r.containers = t.containers
  BY <1>2 DEF SameRest, AllFields
<1> HIDE DEF r
<1>4. Stage(a, r, m, PlainVolumes, PlainMounts(m))
  BY <1>1, <1>2, <1>3 DEF Stage, PlainFrom
<1>5. Stage(b, r, m, TLSVolumesOf(m), TLSMountsOf(m))
  BY <1>4, TLSStage
<1> HIDE DEF b
<1>6. Stage(d, r, m, PrometheusVolumesOf(m), PrometheusMountsOf(m))
  BY <1>5, PrometheusStage
<1> HIDE DEF d
<1>7. \A k \in DOMAIN Existing(r.containers, AgentName).mounts : k[1] = AgentPemFile => k = AgentMount
  <2>1. CASE AgentName \in DOMAIN t.containers
    BY <1>3, <2>1 DEF Existing, OneAgentMount, MountsOf
  <2>2. CASE AgentName \notin DOMAIN t.containers
    <3>1. Existing(r.containers, AgentName) = NewContainer
      BY <1>3, <2>2 DEF Existing
    <3>2. DOMAIN NewContainer.mounts = {}
      BY DEF NewContainer, Nothing
    <3>3. QED
      BY <3>1, <3>2
  <2>3. QED
    BY <2>1, <2>2
<1>8. Final(u, r, m)
  BY <1>6, <1>7, AgentStage
<1> HIDE DEF u
<1>9. BuiltFrom(u, t, m)
  BY <1>1, <1>3, <1>8 DEF Final, SameRest, BuiltFrom, PlainFrom
<1>10. QED
  BY <1>9 DEF BuiltTemplate, u, d, b, a

\* The operator's volumes.
LEMMA AllVolumesShape ==
  ASSUME NEW m
  PROVE  /\ \A v \in DOMAIN AllVolumes(m) : IsVolume(AllVolumes(m)[v])
         /\ DOMAIN AllVolumes(m) \cap Gone(m) = {}
<1>0. \A x : IsVolume(FromSecret(x)) /\ IsVolume(EmptyDir)
  BY DEF IsVolume, IsMap, FromSecret, EmptyDir, Nothing
<1>a. ASSUME NEW list, \A v \in DOMAIN list : IsVolume(list[v]), NEW name, NEW x
      PROVE  LET all == StringToStringMap(list, Named(name, FromSecret(x)))
             IN  \A v \in DOMAIN all : IsVolume(all[v])
  <2> DEFINE y == FromSecret(x)
  <2>1. IsVolume(y)
    BY <1>0
  <2> HIDE DEF y
  <2>2. LET all == StringToStringMap(list, Named(name, y))
        IN  \A v \in DOMAIN all : IsVolume(all[v])
    BY <1>a, <2>1 DEF StringToStringMap, Named
  <2>3. QED
    BY <2>2 DEF y
<1>1. \A v \in DOMAIN PlainVolumes : IsVolume(PlainVolumes[v])
  BY <1>0 DEF PlainVolumes
<1> DEFINE Sound(list) == \A v \in DOMAIN list : IsVolume(list[v])
           Plus(list, name, x) == StringToStringMap(list, Named(name, FromSecret(x)))
<1>b. \A list, name, x : Sound(list) => Sound(Plus(list, name, x))
  BY <1>a
<1>c. Sound(PlainVolumes)
  BY <1>1
<1>d. /\ TLSVolumesOf(m) \in {PlainVolumes, Plus(Plus(PlainVolumes, "tls-ca", "ca"), "tls-secret", "server")}
      /\ PrometheusVolumesOf(m) \in {TLSVolumesOf(m), Plus(TLSVolumesOf(m), "prom-tls-secret", "prometheus")}
      /\ AllVolumes(m) \in {PrometheusVolumesOf(m), Plus(PrometheusVolumesOf(m), AgentPemFile, "agent")}
  BY DEF TLSVolumesOf, PrometheusVolumesOf, AllVolumes
<1> HIDE DEF Sound, Plus
<1>2. Sound(AllVolumes(m))
  BY <1>b, <1>c, <1>d
<1>3. DOMAIN AllVolumes(m) \cap Gone(m) = {}
  <2>1. CASE m.x509
    BY <2>1 DEF Gone
  <2>2. CASE ~m.x509
    <3>1. AllVolumes(m) = PrometheusVolumesOf(m) /\ Gone(m) = {AgentPemFile}
      BY <2>2 DEF AllVolumes, Gone
    <3>2. DOMAIN PrometheusVolumesOf(m) = OperatorVolumes \cup TLSVolumes(m) \cup PrometheusVolumes(m)
      BY StageDomains
    <3>3. QED
      BY <3>1, <3>2 DEF AgentPemFile, OperatorVolumes, TLSVolumes, PrometheusVolumes
  <2>3. QED
    BY <2>1, <2>2
<1>4. QED
  BY <1>2, <1>3 DEF Sound

\* Where the agent's certificate is not mounted nothing is taken away.
LEMMA NothingToClean ==
  ASSUME NEW list, NEW m, NEW w, AgentName \in DOMAIN list, IsMap(list[AgentName].mounts),
         AgentName \in DOMAIN w.settings,
         \A k \in DOMAIN list[AgentName].mounts : k[1] # AgentPemFile
  PROVE  Rewritten(Cleaned(list, m), w) = Rewritten(list, w)
<1> DEFINE all == Cleaned(list, m)
           d   == list[AgentName]
           e   == all[AgentName]
           W(c, x) == Modified(x, w.settings[c], w.probe[c], w.env[c], w.mounts[c])
<1>1. DOMAIN all = DOMAIN list /\ \A c \in DOMAIN list \ {AgentName} : all[c] = list[c]
  BY DEF Cleaned
<1>2. \A c : c # AgentName => Existing(all, c) = Existing(list, c)
  BY <1>1 DEF Existing
<1>3. KeptMounts(d.mounts) = d.mounts
  BY DEF KeptMounts, IsMap
<1>4. e = d \/ e = WithMounts(d, d.mounts)
  BY <1>3 DEF Cleaned
<1>5. Existing(all, AgentName) = e /\ Existing(list, AgentName) = d
  BY <1>1 DEF Existing
<1> HIDE DEF all, d, e
<1>6. /\ e.settings = d.settings /\ e.readinessProbe = d.readinessProbe /\ e.env = d.env
      /\ e.mounts = d.mounts
  BY <1>4 DEF WithMounts
<1>7. \A c : W(c, e) = W(c, d)
  BY <1>6 DEF Modified
<1>8. \A c \in DOMAIN w.settings : W(c, Existing(all, c)) = W(c, Existing(list, c))
  BY <1>2, <1>5, <1>7
<1> DEFINE names == DOMAIN w.settings
<1>9. \A c \in DOMAIN list \ names : all[c] = list[c]
  BY <1>1
<1> HIDE DEF W
<1>10. Rewritten(all, w) = Rewritten(list, w)
  <2>1. /\ Rewritten(all, w) = [c \in DOMAIN list \cup names |->
              IF c \in names THEN W(c, Existing(all, c)) ELSE all[c]]
        /\ Rewritten(list, w) = [c \in DOMAIN list \cup names |->
              IF c \in names THEN W(c, Existing(list, c)) ELSE list[c]]
    BY <1>1 DEF Rewritten, W
  <2>2. QED
    BY <1>8, <1>9, <2>1
<1>11. QED
  BY <1>10 DEF all

\* Without the agent's certificate, what the operator and the user make of the
\* containers does not mount it.
LEMMA CertificateNotMounted ==
  ASSUME NEW list, NEW m, ~m.x509, NEW o,
         \A c \in DOMAIN o : \A k \in DOMAIN o[c].mounts : k[1] # AgentPemFile,
         NEW w, w = ContainerWrites(m, AllMounts(m)),
         NEW once, once = Containers(Rewritten(Cleaned(list, m), w), o)
  PROVE  /\ AgentName \in DOMAIN once /\ IsMap(once[AgentName].mounts)
         /\ \A k \in DOMAIN once[AgentName].mounts : k[1] # AgentPemFile
<1> DEFINE all   == Cleaned(list, m)
           first == Rewritten(all, w)
           d     == Existing(all, AgentName)
           mine  == AllMounts(m)[AgentName]
<1>1. \A k \in DOMAIN mine : k[1] # AgentPemFile
  <2>1. AllMounts(m) = PrometheusMountsOf(m) /\ AgentName \in OperatorContainers
    BY DEF AllMounts, OperatorContainers
  <2>2. QED
    BY <2>1, OtherMounts
<1>2. \A k \in DOMAIN d.mounts : k[1] # AgentPemFile
  <2>1. CASE AgentName \in DOMAIN list
    <3>1. d = WithMounts(list[AgentName], KeptMounts(list[AgentName].mounts))
      BY <2>1 DEF Existing, Cleaned
    <3>2. d.mounts = KeptMounts(list[AgentName].mounts)
      BY <3>1 DEF WithMounts
    <3> HIDE DEF d
    <3>3. QED
      BY <3>2 DEF KeptMounts
  <2>2. CASE AgentName \notin DOMAIN list
    <3>1. d = NewContainer
      BY <2>2 DEF Existing, Cleaned
    <3>2. DOMAIN NewContainer.mounts = {}
      BY DEF NewContainer, Nothing
    <3>3. QED
      BY <3>1, <3>2
  <2>3. QED
    BY <2>1, <2>2
<1>3. AgentName \in DOMAIN w.settings /\ w.mounts[AgentName] = mine
  BY DEF ContainerWrites, OperatorContainers
<1> HIDE DEF all, mine
<1>4. /\ AgentName \in DOMAIN first
      /\ first[AgentName] = Modified(d, w.settings[AgentName], w.probe[AgentName],
                                     w.env[AgentName], mine)
  BY <1>3 DEF Rewritten
<1> HIDE DEF d, first
<1>5. first[AgentName].mounts = StringToStringMap(d.mounts, mine)
  BY <1>4 DEF Modified
<1>6. /\ IsMap(first[AgentName].mounts)
      /\ \A k \in DOMAIN first[AgentName].mounts : k[1] # AgentPemFile
  BY <1>1, <1>2, <1>5 DEF StringToStringMap, IsMap
<1>7. once = Containers(first, o)
  BY DEF first, all
<1>8. AgentName \in DOMAIN once
  BY <1>4, <1>7 DEF Containers, MergeByName
<1>9. CASE AgentName \notin DOMAIN o
  <2>1. once[AgentName] = first[AgentName]
    BY <1>4, <1>7, <1>9 DEF Containers, MergeByName
  <2>2. QED
    BY <1>6, <1>8, <2>1
<1>10. CASE AgentName \in DOMAIN o
  <2>1. once[AgentName] = Container(first[AgentName], o[AgentName])
    BY <1>4, <1>7, <1>10 DEF Containers, MergeByName
  <2> DEFINE x == first[AgentName]
             y == o[AgentName]
  <2>2. \A k \in DOMAIN y.mounts : k[1] # AgentPemFile
    BY <1>10
  <2>3. \A k \in DOMAIN x.mounts : k[1] # AgentPemFile
    BY <1>6
  <2> HIDE DEF x, y
  <2>4. Container(x, y).mounts = VolumeMounts(x.mounts, y.mounts)
    BY MergedFields
  <2>5. /\ IsMap(VolumeMounts(x.mounts, y.mounts))
        /\ DOMAIN VolumeMounts(x.mounts, y.mounts) = DOMAIN x.mounts \cup DOMAIN y.mounts
    BY DEF VolumeMounts, MergeByName, IsMap
  <2>6. QED
    BY <1>8, <2>1, <2>2, <2>3, <2>4, <2>5 DEF x, y
<1>11. QED
  BY <1>9, <1>10

\* The containers of the operator, overridden, are not changed by doing so again.
LEMMA ContainersSettled ==
  ASSUME NEW list, NEW m, NEW o, \A c \in DOMAIN o : IsContainer(o[c]),
         \A c \in DOMAIN o : \A k \in DOMAIN o[c].mounts : k[1] # AgentPemFile,
         NEW w, w = ContainerWrites(m, AllMounts(m)),
         NEW once, once = Containers(Rewritten(Cleaned(list, m), w), o)
  PROVE  Containers(Rewritten(Cleaned(once, m), w), o) = once
<1>1. Rewritten(Cleaned(once, m), w) = Rewritten(once, w)
  <2>1. CASE m.x509
    BY <2>1, NothingCleaned
  <2>2. CASE ~m.x509
    <3>1. /\ AgentName \in DOMAIN once /\ IsMap(once[AgentName].mounts)
          /\ \A k \in DOMAIN once[AgentName].mounts : k[1] # AgentPemFile
      BY <2>2, CertificateNotMounted
    <3>2. AgentName \in DOMAIN w.settings
      BY DEF ContainerWrites, OperatorContainers
    <3>3. QED
      BY <3>1, <3>2, NothingToClean
  <2>3. QED
    BY <2>1, <2>2
<1> DEFINE all == Cleaned(list, m)
<1> HIDE DEF all
<1>2. Containers(Rewritten(Containers(Rewritten(all, w), o), w), o) = Containers(Rewritten(all, w), o)
  BY ContainersMergedAgain
<1>3. QED
  BY <1>1, <1>2 DEF all

\* The lists of a map are lists of strings.
HasLists(f) == \A k \in DOMAIN f : IsList(f[k])

\* Host aliases that are merged twice are merged once.
LEMMA HostAliasesSettled ==
  ASSUME NEW x, HasLists(x), NEW o, HasLists(o)
  PROVE  /\ HasLists(HostAliases(x, o))
         /\ HostAliases(HostAliases(x, o), o) = HostAliases(x, o)
<1> DEFINE once  == HostAliases(x, o)
           twice == HostAliases(once, o)
           names == DOMAIN x \cup DOMAIN o
<1>1. /\ DOMAIN once = names /\ once = [k \in names |-> once[k]]
      /\ \A k \in names : once[k] = IF k \notin DOMAIN o THEN x[k]
                                    ELSE IF k \notin DOMAIN x THEN o[k]
                                    ELSE StringSlices(x[k], o[k])
  BY DEF HostAliases, MergeByName
<1> HIDE DEF once
<1>2. /\ DOMAIN twice = names /\ twice = [k \in names |-> twice[k]]
      /\ \A k \in names : twice[k] = IF k \notin DOMAIN o THEN once[k]
                                     ELSE StringSlices(once[k], o[k])
  BY <1>1 DEF HostAliases, MergeByName
<1> HIDE DEF twice
<1>3. ASSUME NEW k \in names
      PROVE  IsList(once[k]) /\ twice[k] = once[k]
  <2>1. CASE k \notin DOMAIN o
    BY <1>1, <1>2, <2>1 DEF HasLists
  <2>2. CASE k \in DOMAIN o
    <3> DEFINE a == x[k]
               b == o[k]
    <3>1. IsList(b) /\ (k \in DOMAIN x => IsList(a))
      BY <2>2 DEF HasLists
    <3> HIDE DEF a, b
    <3>2. StringSlices(b, b) = b
      BY <3>1, SlicesMergedAgain
    <3>3. k \in DOMAIN x => /\ IsList(StringSlices(a, b))
                            /\ StringSlices(StringSlices(a, b), b) = StringSlices(a, b)
      BY <3>1, SlicesMerged, SlicesMergedAgain
    <3>4. once[k] = (IF k \notin DOMAIN x THEN b ELSE StringSlices(a, b))
          /\ twice[k] = StringSlices(once[k], b)
      BY <1>1, <1>2, <2>2 DEF a, b
    <3>5. QED
      BY <3>1, <3>2, <3>3, <3>4
  <2>3. QED
    BY <2>1, <2>2
<1>4. HasLists(once) /\ twice = once
  BY <1>1, <1>2, <1>3 DEF HasLists
<1>5. QED
  BY <1>4 DEF once, twice

-----------------------------------------------------------------------------
\* The access modes of claims are lists of strings.
HasModes(list) == \A c \in DOMAIN list : IsList(list[c].accessModes)

\* A claim without anything.
NoClaim == [fields |-> Nothing, accessModes |-> Nothing]

\* The claim of a name, if there is one.
ExistingClaim(list, name) == IF name \in DOMAIN list THEN list[name] ELSE NoClaim

\* The claims the operator writes.
WrittenClaims(list) ==
  [c \in DOMAIN list \cup OperatorClaims |->
     IF c = "data-volume" THEN Pvc(ExistingClaim(list, c), "10G")
     ELSE IF c = "logs-volume" THEN Pvc(ExistingClaim(list, c), "2G")
     ELSE list[c]]

\* It does.
LEMMA ClaimsWritten ==
  ASSUME NEW list
  PROVE  WithVolumeClaim(WithVolumeClaim(list, "data-volume", "10G"), "logs-volume", "2G")
           = WrittenClaims(list)
<1>1. ASSUME NEW l, NEW name, NEW storage
      PROVE  WithVolumeClaim(l, name, storage)
               = [c \in DOMAIN l \cup {name} |->
                    IF c = name THEN Pvc(ExistingClaim(l, name), storage) ELSE l[c]]
  <2> DEFINE pvc == Pvc(ExistingClaim(l, name), storage)
  <2>1. WithVolumeClaim(l, name, storage) = StringToStringMap(l, Named(name, pvc))
    BY DEF WithVolumeClaim, ExistingClaim, NoClaim
  <2> HIDE DEF pvc
  <2>2. StringToStringMap(l, Named(name, pvc))
          = [c \in DOMAIN l \cup {name} |-> IF c = name THEN pvc ELSE l[c]]
    BY DEF StringToStringMap, Named
  <2>3. QED
    BY <2>1, <2>2 DEF pvc
<1> DEFINE data == WithVolumeClaim(list, "data-volume", "10G")
           all  == WithVolumeClaim(data, "logs-volume", "2G")
<1>2. data = [c \in DOMAIN list \cup {"data-volume"} |->
                IF c = "data-volume" THEN Pvc(ExistingClaim(list, "data-volume"), "10G") ELSE list[c]]
  BY <1>1
<1>3. all = [c \in DOMAIN data \cup {"logs-volume"} |->
               IF c = "logs-volume" THEN Pvc(ExistingClaim(data, "logs-volume"), "2G") ELSE data[c]]
  BY <1>1
<1> HIDE DEF data, all
<1>4. ExistingClaim(data, "logs-volume") = ExistingClaim(list, "logs-volume")
  BY <1>2 DEF ExistingClaim
<1>5. all = WrittenClaims(list)
  BY <1>2, <1>3, <1>4 DEF WrittenClaims, OperatorClaims
<1>6. QED
  BY <1>5 DEF all, data

\* A claim of the operator, overridden, is not changed by doing so again.
LEMMA ClaimMergedTwice ==
  ASSUME NEW x, NEW storage, NEW o
  PROVE  LET P(c) == PersistentVolumeClaim(Pvc(c, storage), o)
         IN  P(P(x)) = P(x)
<1> DEFINE r == [requests |-> storage]
<1> HIDE DEF r
<1>1. StringToStringMap(StringToStringMap(StringToStringMap(StringToStringMap(x.fields, r), o.fields), r), o.fields)
        = StringToStringMap(StringToStringMap(x.fields, r), o.fields)
  <2> DEFINE f == x.fields
             g == o.fields
  <2> HIDE DEF f, g
  <2>1. StringToStringMap(StringToStringMap(StringToStringMap(StringToStringMap(f, r), g), r), g)
          = StringToStringMap(StringToStringMap(f, r), g)
    BY MapMergedTwice
  <2>2. QED
    BY <2>1 DEF f, g
<1> DEFINE modes == <<"ReadWriteOnce">>
<1> HIDE DEF modes
<1>3. ASSUME NEW c
      PROVE  PersistentVolumeClaim(Pvc(c, storage), o)
               = [fields |-> StringToStringMap(StringToStringMap(c.fields, r), o.fields),
                  accessModes |-> StringSlices(modes, o.accessModes)]
  <2> DEFINE p == Pvc(c, storage)
  <2>1. p.fields = StringToStringMap(c.fields, r) /\ p.accessModes = modes
    BY DEF Pvc, r, modes
  <2> HIDE DEF p
  <2>2. QED
    BY <2>1 DEF PersistentVolumeClaim, p
<1> DEFINE once == PersistentVolumeClaim(Pvc(x, storage), o)
<1>4. once.fields = StringToStringMap(StringToStringMap(x.fields, r), o.fields)
  BY <1>3
<1> HIDE DEF once
<1>5. PersistentVolumeClaim(Pvc(once, storage), o)
        = [fields |-> StringToStringMap(StringToStringMap(once.fields, r), o.fields),
           accessModes |-> StringSlices(modes, o.accessModes)]
  BY <1>3
<1>6. once = [fields |-> StringToStringMap(StringToStringMap(x.fields, r), o.fields),
              accessModes |-> StringSlices(modes, o.accessModes)]
  BY <1>3 DEF once
<1>7. PersistentVolumeClaim(Pvc(once, storage), o) = once
  BY <1>1, <1>4, <1>5, <1>6
<1>8. QED
  BY <1>7 DEF once

\* Without an override.
LEMMA PvcWrittenAgain ==
  ASSUME NEW x, NEW storage
  PROVE  Pvc(Pvc(x, storage), storage) = Pvc(x, storage)
<1> DEFINE r == [requests |-> storage]
           once == Pvc(x, storage)
<1> HIDE DEF r
<1>1. StringToStringMap(StringToStringMap(x.fields, r), r) = StringToStringMap(x.fields, r)
  BY MapMergedAgain
<1>2. \A c : Pvc(c, storage) = [fields |-> StringToStringMap(c.fields, r), accessModes |-> <<"ReadWriteOnce">>]
  BY DEF Pvc, r
<1>3. once = [fields |-> StringToStringMap(x.fields, r), accessModes |-> <<"ReadWriteOnce">>]
      /\ once.fields = StringToStringMap(x.fields, r)
  BY <1>2
<1> HIDE DEF once
<1>4. Pvc(once, storage) = once
  BY <1>1, <1>2, <1>3
<1>5. QED
  BY <1>4 DEF once

\* A claim of the user.
LEMMA ClaimMergedAgain ==
  ASSUME NEW x, IsList(x.accessModes), NEW o, IsClaim(o)
  PROVE  /\ PersistentVolumeClaim(PersistentVolumeClaim(x, o), o) = PersistentVolumeClaim(x, o)
         /\ IsList(PersistentVolumeClaim(x, o).accessModes)
<1> DEFINE once == PersistentVolumeClaim(x, o)
           a == x.accessModes
           b == o.accessModes
<1>1. once.fields = StringToStringMap(x.fields, o.fields) /\ once.accessModes = StringSlices(a, b)
      /\ once = [fields |-> once.fields, accessModes |-> once.accessModes]
  BY DEF PersistentVolumeClaim
<1>2. IsList(a) /\ IsList(b)
  BY DEF IsClaim
<1> HIDE DEF once, a
<1>3. StringSlices(StringSlices(a, b), b) = StringSlices(a, b) /\ IsList(StringSlices(a, b))
  <2> HIDE DEF b
  <2>1. QED
    BY <1>2, SlicesMerged, SlicesMergedAgain
<1>4. StringToStringMap(once.fields, o.fields) = once.fields
  BY <1>1, MapMergedAgain
<1>5. PersistentVolumeClaim(once, o) = once
  BY <1>1, <1>3, <1>4 DEF PersistentVolumeClaim
<1>6. QED
  BY <1>1, <1>3, <1>5 DEF once

\* A claim adds nothing to itself.
LEMMA ClaimMergedIntoItself ==
  ASSUME NEW o, IsClaim(o)
  PROVE  PersistentVolumeClaim(o, o) = o
<1>1. StringToStringMap(o.fields, o.fields) = o.fields
  BY MapMergedIntoItself DEF IsClaim
<1> DEFINE b == o.accessModes
<1>2. IsList(b)
  BY DEF IsClaim
<1>3. StringSlices(b, b) = b
  <2> HIDE DEF b
  <2>1. QED
    BY <1>2, SlicesMergedAgain
<1>4. QED
  BY <1>1, <1>3 DEF PersistentVolumeClaim, IsClaim

\* The access mode the operator chooses.
LEMMA PvcModes ==
  ASSUME NEW x, NEW storage
  PROVE  IsList(Pvc(x, storage).accessModes)
<1>1. Pvc(x, storage).accessModes = <<"ReadWriteOnce">>
  BY DEF Pvc
<1>2. \A x1 : IsList(<<x1>>)
  <2>1. ASSUME NEW x1 PROVE IsList(<<x1>>)
    <3>1. DOMAIN <<x1>> = 1 .. 1 /\ <<x1>>[1] = x1
      OBVIOUS
    <3>2. {<<x1>>[i] : i \in DOMAIN <<x1>>} = {x1}
      BY <3>1
    <3>3. <<x1>> \in Seq({x1})
      OBVIOUS
    <3>4. QED
      BY <3>2, <3>3 DEF IsList
  <2>2. QED
    BY <2>1
<1>3. QED
  BY <1>1, <1>2

\* Claims that are written and overridden twice are so once.
LEMMA ClaimsSettled ==
  ASSUME NEW list, HasModes(list), NEW o, \A c \in DOMAIN o : IsClaim(o[c]),
         NEW once, once = VolumeClaimTemplates(WrittenClaims(list), o)
  PROVE  HasModes(once) /\ VolumeClaimTemplates(WrittenClaims(once), o) = once
<1> DEFINE first  == WrittenClaims(list)
           second == WrittenClaims(once)
           twice  == VolumeClaimTemplates(second, o)
           names  == DOMAIN list \cup OperatorClaims \cup DOMAIN o
           Storage(c) == IF c = "data-volume" THEN "10G" ELSE "2G"
<1>0. OperatorClaims = {"data-volume", "logs-volume"}
  BY DEF OperatorClaims
<1>1. ASSUME NEW l
      PROVE  /\ DOMAIN WrittenClaims(l) = DOMAIN l \cup OperatorClaims
             /\ \A c \in OperatorClaims : WrittenClaims(l)[c] = Pvc(ExistingClaim(l, c), Storage(c))
             /\ \A c \in DOMAIN l \ OperatorClaims : WrittenClaims(l)[c] = l[c]
  BY <1>0 DEF WrittenClaims
<1>2. ASSUME NEW l
      PROVE  /\ DOMAIN VolumeClaimTemplates(l, o) = DOMAIN l \cup DOMAIN o
             /\ VolumeClaimTemplates(l, o)
                  = [c \in DOMAIN l \cup DOMAIN o |-> VolumeClaimTemplates(l, o)[c]]
             /\ \A c \in DOMAIN l \ DOMAIN o : VolumeClaimTemplates(l, o)[c] = l[c]
             /\ \A c \in DOMAIN o \ DOMAIN l : VolumeClaimTemplates(l, o)[c] = o[c]
             /\ \A c \in DOMAIN l \cap DOMAIN o :
                  VolumeClaimTemplates(l, o)[c] = PersistentVolumeClaim(l[c], o[c])
  BY DEF VolumeClaimTemplates, MergeByName
<1> HIDE DEF Storage
<1>3. /\ DOMAIN first = DOMAIN list \cup OperatorClaims
      /\ \A c \in OperatorClaims : first[c] = Pvc(ExistingClaim(list, c), Storage(c))
      /\ \A c \in DOMAIN list \ OperatorClaims : first[c] = list[c]
  BY <1>1
<1> HIDE DEF first
<1>4. /\ DOMAIN once = names /\ once = [c \in names |-> once[c]]
      /\ \A c \in DOMAIN first \ DOMAIN o : once[c] = first[c]
      /\ \A c \in DOMAIN o \ DOMAIN first : once[c] = o[c]
      /\ \A c \in DOMAIN first \cap DOMAIN o : once[c] = PersistentVolumeClaim(first[c], o[c])
  <2>1. once = VolumeClaimTemplates(first, o)
    BY DEF first
  <2>2. names = DOMAIN first \cup DOMAIN o
    BY <1>3
  <2> HIDE DEF names
  <2>3. QED
    BY <1>2, <2>1, <2>2
<1>5. /\ DOMAIN second = names
      /\ \A c \in OperatorClaims : second[c] = Pvc(once[c], Storage(c))
      /\ \A c \in names \ OperatorClaims : second[c] = once[c]
  <2>1. \A c \in OperatorClaims : ExistingClaim(once, c) = once[c]
    BY <1>4 DEF ExistingClaim
  <2>2. /\ DOMAIN second = DOMAIN once \cup OperatorClaims
        /\ \A c \in OperatorClaims : second[c] = Pvc(ExistingClaim(once, c), Storage(c))
        /\ \A c \in DOMAIN once \ OperatorClaims : second[c] = once[c]
    BY <1>1
  <2>3. DOMAIN once = names /\ names \cup OperatorClaims = names
    BY <1>4
  <2> HIDE DEF second, names
  <2>4. QED
    BY <2>1, <2>2, <2>3
<1> HIDE DEF second
<1>6. /\ DOMAIN twice = names /\ twice = [c \in names |-> twice[c]]
      /\ \A c \in names \ DOMAIN o : twice[c] = second[c]
      /\ \A c \in DOMAIN o : twice[c] = PersistentVolumeClaim(second[c], o[c])
  <2>1. names = DOMAIN second \cup DOMAIN o /\ DOMAIN o \subseteq DOMAIN second
    BY <1>5
  <2> HIDE DEF names
  <2>2. QED
    BY <1>2, <1>5, <2>1
<1> HIDE DEF twice, names
<1>7. ASSUME NEW c \in names
      PROVE  IsList(once[c].accessModes) /\ twice[c] = once[c]
  <2> DEFINE x == ExistingClaim(list, c)
             s == Storage(c)
             p == o[c]
  <2>0. c \in DOMAIN list \/ c \in OperatorClaims \/ c \in DOMAIN o
    BY DEF names
  <2>1. CASE c \in OperatorClaims /\ c \in DOMAIN o
    <3>1. /\ once[c] = PersistentVolumeClaim(Pvc(x, s), p)
          /\ twice[c] = PersistentVolumeClaim(Pvc(once[c], s), p)
      BY <1>3, <1>4, <1>5, <1>6, <2>1
    <3>2. IsClaim(p)
      BY <2>1
    <3> HIDE DEF x, s, p
    <3>3. LET P(d) == PersistentVolumeClaim(Pvc(d, s), p)
          IN  P(P(x)) = P(x)
      BY ClaimMergedTwice
    <3>4. IsList(Pvc(x, s).accessModes)
      BY PvcModes
    <3> DEFINE y == Pvc(x, s)
    <3> HIDE DEF y
    <3>5. IsList(PersistentVolumeClaim(y, p).accessModes)
      BY <3>2, <3>4, ClaimMergedAgain DEF y
    <3>6. QED
      BY <3>1, <3>3, <3>5 DEF y
  <2>2. CASE c \in OperatorClaims /\ c \notin DOMAIN o
    <3>1. once[c] = Pvc(x, s) /\ twice[c] = Pvc(once[c], s)
      BY <1>3, <1>4, <1>5, <1>6, <2>2
    <3> HIDE DEF x, s
    <3>2. Pvc(Pvc(x, s), s) = Pvc(x, s)
      BY PvcWrittenAgain
    <3>3. IsList(Pvc(x, s).accessModes)
      BY PvcModes
    <3>4. QED
      BY <3>1, <3>2, <3>3
  <2>3. CASE c \notin OperatorClaims /\ c \in DOMAIN o
    <3>1. twice[c] = PersistentVolumeClaim(once[c], p)
      BY <1>5, <1>6, <2>3
    <3>2. \/ once[c] = p
          \/ c \in DOMAIN list /\ once[c] = PersistentVolumeClaim(list[c], p)
      BY <1>3, <1>4, <2>3
    <3>3. IsClaim(p) /\ (c \in DOMAIN list => IsList(list[c].accessModes))
      BY <2>3 DEF HasModes
    <3> DEFINE y == list[c]
    <3> HIDE DEF y, p
    <3>4. PersistentVolumeClaim(p, p) = p /\ IsList(p.accessModes)
      BY <3>3, ClaimMergedIntoItself DEF IsClaim
    <3>5. c \in DOMAIN list =>
            /\ PersistentVolumeClaim(PersistentVolumeClaim(y, p), p) = PersistentVolumeClaim(y, p)
            /\ IsList(PersistentVolumeClaim(y, p).accessModes)
      BY <3>3, ClaimMergedAgain DEF y
    <3>6. QED
      BY <3>1, <3>2, <3>4, <3>5 DEF y
  <2>4. CASE c \notin OperatorClaims /\ c \notin DOMAIN o
    <3>1. c \in DOMAIN list /\ once[c] = list[c] /\ twice[c] = once[c]
      BY <1>3, <1>4, <1>5, <1>6, <2>0, <2>4
    <3>2. QED
      BY <3>1 DEF HasModes
  <2>5. QED
    BY <2>1, <2>2, <2>3, <2>4
<1>8. HasModes(once) /\ twice = once
  BY <1>4, <1>6, <1>7 DEF HasModes
<1>9. QED
  BY <1>8 DEF twice, second

-----------------------------------------------------------------------------
\* The constraints of a list by their topology keys: the last one of a key
\* counts.
ByKey(s) ==
  [k \in {s[i][1] : i \in DOMAIN s} |->
     s[CHOOSE i \in DOMAIN s : s[i][1] = k /\ \A j \in DOMAIN s : s[j][1] = k => j <= i][2]]

\* Two lists of constraints, merged by key.
MergedByKey(a, b) == MergeByName(ByKey(a), ByKey(b), StringToStringMap)

\* A list with a constraint.
OneConstraint(key, fields) == [i \in 1 .. 1 |-> <<key, fields>>]

\* The only key of a list.
OnlyKey(s, key) == \A i \in DOMAIN s : s[i][1] = key

\* The last constraint of a key is there.
LEMMA LastConstraint ==
  ASSUME NEW s, IsList(s), \A i \in DOMAIN s : IsMap(s[i][2]), NEW k \in DOMAIN ByKey(s)
  PROVE  IsMap(ByKey(s)[k])
<1> DEFINE T == {d \in Nat : \E i \in DOMAIN s : s[i][1] = k /\ d = Len(s) - i}
<1>1. DOMAIN s = 1 .. Len(s) /\ Len(s) \in Nat
  BY DEF IsList
<1>2. PICK i \in DOMAIN s : s[i][1] = k
  BY DEF ByKey
<1>3. PICK d \in T : \A e \in T : ~(e < d)
  <2>1. T \subseteq Nat /\ T # {}
    <3>1. Len(s) - i \in Nat
      BY <1>1
    <3>2. QED
      BY <1>2, <3>1
  <2> HIDE DEF T
  <2>2. \E d \in T : \A e \in T : <<e, d>> \notin OpToRel(<, Nat)
    BY <2>1, NatLessThanWellFounded, WFMin
  <2>3. QED
    BY <2>1, <2>2 DEF OpToRel
<1>4. PICK l \in DOMAIN s : s[l][1] = k /\ d = Len(s) - l
  BY <1>3
<1>5. \A j \in DOMAIN s : s[j][1] = k => j <= l
  <2> SUFFICES ASSUME NEW j \in DOMAIN s, s[j][1] = k PROVE j <= l
    OBVIOUS
  <2>1. Len(s) - j \in T
    <3>1. Len(s) - j \in Nat
      BY <1>1
    <3>2. QED
      BY <3>1
  <2>2. ~(Len(s) - j < Len(s) - l)
    BY <1>3, <1>4, <2>1
  <2>3. QED
    BY <1>1, <2>2
<1> DEFINE last == CHOOSE n \in DOMAIN s : s[n][1] = k /\ \A j \in DOMAIN s : s[j][1] = k => j <= n
<1>6. last \in DOMAIN s
  BY <1>4, <1>5
<1>7. ByKey(s)[k] = s[last][2]
  BY DEF ByKey
<1> HIDE DEF last
<1>8. QED
  BY <1>6, <1>7

\* The list with a constraint has it.
LEMMA KeyOfOne ==
  ASSUME NEW key, NEW fields
  PROVE  /\ DOMAIN ByKey(OneConstraint(key, fields)) = {key}
         /\ ByKey(OneConstraint(key, fields))[key] = fields
         /\ OnlyKey(OneConstraint(key, fields), key)
<1> DEFINE s == OneConstraint(key, fields)
<1>1. DOMAIN s = {1} /\ s[1][1] = key /\ s[1][2] = fields
  BY DEF OneConstraint
<1> HIDE DEF s
<1>2. {s[i][1] : i \in DOMAIN s} = {key}
  BY <1>1
<1>3. (CHOOSE i \in DOMAIN s : s[i][1] = key /\ \A j \in DOMAIN s : s[j][1] = key => j <= i) = 1
  BY <1>1
<1>4. DOMAIN ByKey(s) = {key}
  BY <1>2 DEF ByKey
<1>5. ByKey(s)[key] = s[1][2]
  BY <1>2, <1>3 DEF ByKey
<1>6. OnlyKey(s, key)
  BY <1>1 DEF OnlyKey
<1>7. QED
  BY <1>1, <1>4, <1>5, <1>6 DEF s

\* There is one order in which a constraint may be listed.
LEMMA OneOrder ==
  ASSUME NEW f, NEW key, DOMAIN f = {key}
  PROVE  {[i \in DOMAIN s |-> <<s[i], f[s[i]]>>] : s \in SetToSeqs(DOMAIN f)}
           = {OneConstraint(key, f[key])}
<1> DEFINE L(s) == [i \in DOMAIN s |-> <<s[i], f[s[i]]>>]
           one  == [i \in 1 .. 1 |-> key]
<1>1. Cardinality({key}) = 1
  BY FS_Singleton
<1>2. SetToSeqs({key}) = {one}
  BY <1>1 DEF SetToSeqs
<1>3. L(one) = OneConstraint(key, f[key])
  BY DEF OneConstraint
<1> HIDE DEF one, L
<1>4. {L(s) : s \in SetToSeqs(DOMAIN f)} = {OneConstraint(key, f[key])}
  BY <1>2, <1>3
<1>5. QED
  BY <1>4 DEF L

\* And one for none.
LEMMA NoOrder ==
  ASSUME NEW f, DOMAIN f = {}
  PROVE  {[i \in DOMAIN s |-> <<s[i], f[s[i]]>>] : s \in SetToSeqs(DOMAIN f)} = {<<>>}
<1> DEFINE L(s) == [i \in DOMAIN s |-> <<s[i], f[s[i]]>>]
<1>1. Cardinality({}) = 0
  BY FS_EmptySet
<1>2. SetToSeqs({}) = {<<>>}
  <2>1. 1 .. 0 = {}
    OBVIOUS
  <2>2. SetToSeqs({}) = {g \in [{} -> {}] : \A i, j \in {} : i # j => g[i] # g[j]}
    BY <1>1, <2>1 DEF SetToSeqs
  <2>3. SetToSeqs({}) = [{} -> {}]
    BY <2>2
  <2>4. <<>> \in [{} -> {}] /\ \A g \in [{} -> {}] : g = <<>>
    OBVIOUS
  <2>5. QED
    BY <2>3, <2>4
<1>3. L(<<>>) = <<>>
  OBVIOUS
<1> HIDE DEF L
<1>4. {L(s) : s \in SetToSeqs(DOMAIN f)} = {<<>>}
  BY <1>2, <1>3
<1>5. QED
  BY <1>4 DEF L

\* The constraints, spelled out.
LEMMA ConstraintsListed ==
  ASSUME NEW x, NEW o, o # Nothing, NEW f, f = MergedByKey(x, o)
  PROVE  TopologySpreadConstraints(x, o)
           = {[i \in DOMAIN s |-> <<s[i], f[s[i]]>>] : s \in SetToSeqs(DOMAIN f)}
<1> DEFINE Listed(g) == {[i \in DOMAIN s |-> <<s[i], g[s[i]]>>] : s \in SetToSeqs(DOMAIN g)}
<1>1. TopologySpreadConstraints(x, o) = Listed(MergedByKey(x, o))
  BY DEF TopologySpreadConstraints, MergedByKey, ByKey, MergeByName
<1> HIDE DEF Listed
<1>2. TopologySpreadConstraints(x, o) = Listed(f)
  BY <1>1
<1>3. QED
  BY <1>2 DEF Listed

\* Constraints of a single key that are merged twice are merged once, and there
\* is only one order in which they can be listed.
LEMMA TopologySettled ==
  ASSUME NEW key, NEW x, OnlyKey(x, key), NEW o, OnlyKey(o, key), IsList(o),
         \A i \in DOMAIN o : IsMap(o[i][2]), NEW t \in TopologySpreadConstraints(x, o)
  PROVE  OnlyKey(t, key) /\ TopologySpreadConstraints(t, o) = {t}
<1>1. CASE o = Nothing
  BY <1>1 DEF TopologySpreadConstraints
<1>2. CASE o # Nothing
  <2> DEFINE f == MergedByKey(x, o)
             g == MergedByKey(t, o)
             a == ByKey(x)
             b == ByKey(o)
             d == ByKey(t)
  <2>1. DOMAIN a \subseteq {key} /\ DOMAIN b \subseteq {key}
    BY DEF ByKey, OnlyKey
  <2>2. \A k \in DOMAIN b : IsMap(b[k])
    BY LastConstraint
  <2>3. /\ DOMAIN f = DOMAIN a \cup DOMAIN b
        /\ \A k \in DOMAIN f : f[k] = IF k \notin DOMAIN b THEN a[k]
                                      ELSE IF k \notin DOMAIN a THEN b[k]
                                      ELSE StringToStringMap(a[k], b[k])
    BY DEF MergedByKey, MergeByName
  <2>4. /\ DOMAIN g = DOMAIN d \cup DOMAIN b
        /\ \A k \in DOMAIN g : g[k] = IF k \notin DOMAIN b THEN d[k]
                                      ELSE IF k \notin DOMAIN d THEN b[k]
                                      ELSE StringToStringMap(d[k], b[k])
    BY DEF MergedByKey, MergeByName
  <2>5. TopologySpreadConstraints(x, o)
          = {[i \in DOMAIN s |-> <<s[i], f[s[i]]>>] : s \in SetToSeqs(DOMAIN f)}
    BY <1>2, ConstraintsListed
  <2>6. TopologySpreadConstraints(t, o)
          = {[i \in DOMAIN s |-> <<s[i], g[s[i]]>>] : s \in SetToSeqs(DOMAIN g)}
    BY <1>2, ConstraintsListed
  <2> HIDE DEF f, g, a, b, d
  <2>7. CASE DOMAIN f = {key}
    <3>1. TopologySpreadConstraints(x, o) = {OneConstraint(key, f[key])}
      BY <2>5, <2>7, OneOrder
    <3>2. t = OneConstraint(key, f[key])
      BY <3>1
    <3>3. DOMAIN d = {key} /\ d[key] = f[key] /\ OnlyKey(t, key)
      BY <3>2, KeyOfOne DEF d
    <3>4. DOMAIN g = {key}
      BY <2>1, <2>4, <3>3
    <3>5. g[key] = f[key]
      <4>1. CASE key \notin DOMAIN b
        BY <2>4, <3>3, <3>4, <4>1
      <4>2. CASE key \in DOMAIN b
        <5>1. g[key] = StringToStringMap(f[key], b[key])
          BY <2>4, <3>3, <3>4, <4>2
        <5>2. f[key] = b[key] \/ f[key] = StringToStringMap(a[key], b[key])
          BY <2>3, <2>7, <4>2
        <5>3. StringToStringMap(b[key], b[key]) = b[key]
          BY <2>2, <4>2, MapMergedIntoItself
        <5> DEFINE v == a[key]
                   w == b[key]
        <5> HIDE DEF v, w
        <5>4. StringToStringMap(StringToStringMap(v, w), w) = StringToStringMap(v, w)
          BY MapMergedAgain
        <5>5. QED
          BY <5>1, <5>2, <5>3, <5>4 DEF v, w
      <4>3. QED
        BY <4>1, <4>2
    <3>6. TopologySpreadConstraints(t, o) = {OneConstraint(key, g[key])}
      BY <2>6, <3>4, OneOrder
    <3>7. QED
      BY <3>2, <3>3, <3>5, <3>6
  <2>8. CASE DOMAIN f = {}
    <3>1. TopologySpreadConstraints(x, o) = {<<>>}
      BY <2>5, <2>8, NoOrder
    <3>2. t = <<>>
      BY <3>1
    <3>3. DOMAIN d = {} /\ OnlyKey(t, key)
      BY <3>2 DEF d, ByKey, OnlyKey
    <3>4. DOMAIN g = {}
      BY <2>3, <2>4, <2>8, <3>3
    <3>5. TopologySpreadConstraints(t, o) = {<<>>}
      BY <2>6, <3>4, NoOrder
    <3>6. QED
      BY <3>2, <3>3, <3>5
  <2>9. DOMAIN f = {key} \/ DOMAIN f = {}
    BY <2>1, <2>3
  <2>10. QED
    BY <2>7, <2>8, <2>9
<1>3. QED
  BY <1>1, <1>2

\* What a user's template for the pods has to be.
SoundTemplate(p) ==
  /\ \A v \in DOMAIN p.volumes : IsVolume(p.volumes[v])
  /\ \A c \in DOMAIN p.containers : IsContainer(p.containers[c])
  /\ \A c \in DOMAIN p.initContainers : IsContainer(p.initContainers[c])
  /\ HasLists(p.hostAliases)
  /\ \A c \in DOMAIN p.containers : \A k \in DOMAIN p.containers[c].mounts : k[1] # AgentPemFile

\* A template that is built and overridden twice is so once.
LEMMA TemplateSettled ==
  ASSUME NEW t, TemplateShape(t), OneAgentMount(t), HasLists(t.hostAliases), NEW m,
         NEW p, SoundTemplate(p), NEW topology,
         NEW u, u = PodTemplateSpecs(BuiltTemplate(t, m), p, topology),
         TemplateShape(u), OneAgentMount(u)
  PROVE  /\ HasLists(u.hostAliases) /\ u.topology = topology
         /\ BuiltTemplate(u, m).topology = topology
         /\ PodTemplateSpecs(BuiltTemplate(u, m), p, topology) = u
<1> DEFINE b == BuiltTemplate(t, m)
           d == BuiltTemplate(u, m)
           w == ContainerWrites(m, AllMounts(m))
<1>1. BuiltFrom(b, t, m)
  BY BuiltTemplateValue
<1>2. BuiltFrom(d, u, m)
  BY BuiltTemplateValue
<1> HIDE DEF b, d, w
<1>3. u = PodTemplateSpecs(b, p, topology)
  BY DEF b
<1>4. /\ u.settings = StringToStringMap(b.settings, p.settings)
      /\ u.labels = StringToStringMap(b.labels, p.labels)
      /\ u.volumes = Volumes(b.volumes, p.volumes)
      /\ u.containers = Containers(b.containers, p.containers)
      /\ u.initContainers = Containers(b.initContainers, p.initContainers)
      /\ u.hostAliases = HostAliases(b.hostAliases, p.hostAliases)
      /\ u.topology = topology
      /\ u = [settings |-> u.settings, labels |-> u.labels, volumes |-> u.volumes,
              containers |-> u.containers, initContainers |-> u.initContainers,
              hostAliases |-> u.hostAliases, topology |-> u.topology]
  BY <1>3 DEF PodTemplateSpecs
<1>5. StringToStringMap(d.settings, p.settings) = u.settings
  <2> DEFINE x == t.settings
             y == PodSettings
             z == p.settings
  <2>1. u.settings = StringToStringMap(StringToStringMap(x, y), z)
        /\ d.settings = StringToStringMap(u.settings, y)
    BY <1>1, <1>2, <1>4 DEF BuiltFrom
  <2> HIDE DEF x, y, z
  <2>2. StringToStringMap(StringToStringMap(StringToStringMap(StringToStringMap(x, y), z), y), z)
          = StringToStringMap(StringToStringMap(x, y), z)
    BY MapMergedTwice
  <2>3. QED
    BY <2>1, <2>2 DEF z
<1>6. StringToStringMap(d.labels, p.labels) = u.labels
  <2>1. d.labels = b.labels
    BY <1>1, <1>2 DEF BuiltFrom
  <2>2. QED
    BY <1>4, <2>1
<1>7. Volumes(d.volumes, p.volumes) = u.volumes
  <2> DEFINE x == t.volumes
             y == AllVolumes(m)
             z == p.volumes
             g == Gone(m)
             once == Volumes(WrittenVolumes(x, y, g), z)
  <2>1. u.volumes = once /\ d.volumes = WrittenVolumes(u.volumes, y, g)
    BY <1>1, <1>2, <1>4 DEF BuiltFrom
  <2>2. /\ \A v \in DOMAIN x : {"source", "fields"} \subseteq DOMAIN x[v]
        /\ \A v \in DOMAIN z : IsVolume(z[v])
    BY DEF TemplateShape, SoundTemplate
  <2>3. DOMAIN y \cap g = {} /\ \A v \in DOMAIN y : IsVolume(y[v])
    BY AllVolumesShape
  <2> HIDE DEF x, y, z, g
  <2>4. Volumes(WrittenVolumes(once, y, g), z) = once
    BY <2>2, <2>3, VolumesMergedTwice
  <2> HIDE DEF once
  <2>5. QED
    BY <2>1, <2>4 DEF z
<1>8. Containers(d.containers, p.containers) = u.containers
  <2> DEFINE x == t.containers
             z == p.containers
             once == Containers(Rewritten(Cleaned(x, m), w), z)
  <2>1. u.containers = once /\ d.containers = Rewritten(Cleaned(u.containers, m), w)
    BY <1>1, <1>2, <1>4 DEF BuiltFrom, w
  <2>2. /\ \A c \in DOMAIN z : IsContainer(z[c])
        /\ \A c \in DOMAIN z : \A k \in DOMAIN z[c].mounts : k[1] # AgentPemFile
    BY DEF SoundTemplate
  <2>3. w = ContainerWrites(m, AllMounts(m))
    BY DEF w
  <2>4. once = Containers(Rewritten(Cleaned(x, m), w), z)
    OBVIOUS
  <2> HIDE DEF x, z, once
  <2>5. Containers(Rewritten(Cleaned(once, m), w), z) = once
    BY <2>2, <2>3, <2>4, ContainersSettled
  <2>6. QED
    BY <2>1, <2>5 DEF z
<1>9. Containers(d.initContainers, p.initContainers) = u.initContainers
  <2> DEFINE x == t.initContainers
             y == InitWrites
             z == p.initContainers
  <2>1. /\ u.initContainers = Containers(Rewritten(x, y), z)
        /\ d.initContainers = Rewritten(u.initContainers, y)
    BY <1>1, <1>2, <1>4 DEF BuiltFrom
  <2>2. \A c \in DOMAIN z : IsContainer(z[c])
    BY DEF SoundTemplate
  <2> HIDE DEF x, y, z
  <2>3. Containers(Rewritten(Containers(Rewritten(x, y), z), y), z) = Containers(Rewritten(x, y), z)
    BY <2>2, ContainersMergedAgain
  <2>4. QED
    BY <2>1, <2>3 DEF z
<1>10. HostAliases(d.hostAliases, p.hostAliases) = u.hostAliases /\ HasLists(u.hostAliases)
  <2> DEFINE x == t.hostAliases
             z == p.hostAliases
  <2>1. u.hostAliases = HostAliases(x, z) /\ d.hostAliases = u.hostAliases
    BY <1>1, <1>2, <1>4 DEF BuiltFrom
  <2>2. HasLists(x) /\ HasLists(z)
    BY DEF SoundTemplate
  <2> HIDE DEF x, z
  <2>3. HasLists(HostAliases(x, z)) /\ HostAliases(HostAliases(x, z), z) = HostAliases(x, z)
    BY <2>2, HostAliasesSettled
  <2>4. QED
    BY <2>1, <2>3 DEF z
<1>11. d.topology = topology
  BY <1>2, <1>4 DEF BuiltFrom
<1>12. PodTemplateSpecs(d, p, topology) = u
  BY <1>4, <1>5, <1>6, <1>7, <1>8, <1>9, <1>10 DEF PodTemplateSpecs
<1>13. QED
  BY <1>4, <1>10, <1>11, <1>12 DEF d

\* What is known of the lists of a StatefulSet.
ListsSound(s, key) ==
  HasLists(s.template.hostAliases) /\ HasModes(s.claims) /\ OnlyKey(s.template.topology, key)

\* What the operator writes into the settings of a StatefulSet.
StatefulSetSettings(m) ==
  [serviceName |-> "svc", replicas |-> m.stsReplicas, updateStrategy |-> m.strategy]

\* The StatefulSet of the operator, in full.
LEMMA OperatorStatefulSetValue ==
  ASSUME NEW s, NEW m, NEW b, b = OperatorStatefulSet(s, m)
  PROVE  /\ b.settings = StringToStringMap(s.settings, StatefulSetSettings(m))
         /\ b.selector = [app |-> "svc"]
         /\ b.template = BuiltTemplate(s.template, m)
         /\ b.claims = WrittenClaims(s.claims)
<1> DEFINE claims == WithVolumeClaim(WithVolumeClaim(s.claims, "data-volume", "10G"),
                                     "logs-volume", "2G")
<1>1. claims = WrittenClaims(s.claims)
  BY ClaimsWritten
<1> HIDE DEF claims
<1>2. b.claims = claims
  BY DEF OperatorStatefulSet, claims
<1>3. QED
  BY <1>1, <1>2 DEF OperatorStatefulSet, StatefulSetSettings, BuiltTemplate

\* A StatefulSet that was updated for a resource is not changed by another update
\* for it.
LEMMA StatefulSetSettled ==
  ASSUME NEW s, NEW m, NEW key, IsOverride(m.stsOverride), ProvidesItsMounts(m.stsOverride),
         OnlyKey(m.stsOverride.template.topology, key), ListsSound(s, key),
         TemplateShape(s.template), OneAgentMount(s.template),
         Backed(s.template, DOMAIN s.claims), NEW u \in DesiredStatefulSet(s, m)
  PROVE  ListsSound(u, key) /\ DesiredStatefulSet(u, m) = {u}
<1> DEFINE o == m.stsOverride
           p == o.template
           b == OperatorStatefulSet(s, m)
           d == OperatorStatefulSet(u, m)
<1>1. /\ TemplateShape(u.template) /\ OneAgentMount(u.template)
  <2>1. \A v \in DOMAIN m.stsOverride.template.volumes :
          {"source", "fields"} \subseteq DOMAIN m.stsOverride.template.volumes[v]
    BY DEF IsOverride, IsVolume
  <2>2. QED
    BY <2>1, UpdatedStatefulSet
<1>2. PICK topology \in TopologySpreadConstraints(b.template.topology, p.topology) :
        u = StatefulSetSpecs(b, o, topology)
  BY DEF DesiredStatefulSet
<1>3. /\ b.settings = StringToStringMap(s.settings, StatefulSetSettings(m))
      /\ b.selector = [app |-> "svc"]
      /\ b.template = BuiltTemplate(s.template, m)
      /\ b.claims = WrittenClaims(s.claims)
  <2>1. b = OperatorStatefulSet(s, m)
    OBVIOUS
  <2> HIDE DEF b
  <2>2. QED
    BY <2>1, OperatorStatefulSetValue
<1>4. /\ d.settings = StringToStringMap(u.settings, StatefulSetSettings(m))
      /\ d.selector = [app |-> "svc"]
      /\ d.template = BuiltTemplate(u.template, m)
      /\ d.claims = WrittenClaims(u.claims)
  <2>1. d = OperatorStatefulSet(u, m)
    OBVIOUS
  <2> HIDE DEF d
  <2>2. QED
    BY <2>1, OperatorStatefulSetValue
<1>5. DesiredStatefulSet(u, m) = {StatefulSetSpecs(d, o, top) :
        top \in TopologySpreadConstraints(d.template.topology, p.topology)}
  BY DEF DesiredStatefulSet
<1> HIDE DEF b, d
<1>6. /\ u.settings = StringToStringMap(b.settings, o.settings)
      /\ u.selector = StringToStringMap(b.selector, o.selector)
      /\ u.template = PodTemplateSpecs(b.template, p, topology)
      /\ u.claims = VolumeClaimTemplates(b.claims, o.claims)
      /\ u = [settings |-> u.settings, selector |-> u.selector, template |-> u.template,
              claims |-> u.claims]
  BY <1>2 DEF StatefulSetSpecs
<1>7. SoundTemplate(p)
  <2>1. HasLists(p.hostAliases)
    BY DEF IsOverride, HasLists
  <2>2. \A c \in DOMAIN p.containers : \A k \in DOMAIN p.containers[c].mounts : k[1] # AgentPemFile
    BY DEF ProvidesItsMounts
  <2>3. QED
    BY <2>1, <2>2 DEF IsOverride, SoundTemplate
<1> DEFINE t == s.template
           v == u.template
<1>8. /\ HasLists(v.hostAliases) /\ v.topology = topology
      /\ BuiltTemplate(v, m).topology = topology
      /\ PodTemplateSpecs(BuiltTemplate(v, m), p, topology) = v
  <2>1. v = PodTemplateSpecs(BuiltTemplate(t, m), p, topology)
    BY <1>3, <1>6
  <2>2. TemplateShape(t) /\ OneAgentMount(t) /\ HasLists(t.hostAliases)
    BY DEF ListsSound
  <2>3. TemplateShape(v) /\ OneAgentMount(v)
    BY <1>1
  <2> HIDE DEF t, v, p
  <2>4. QED
    BY <1>7, <2>1, <2>2, <2>3, TemplateSettled
<1>9. StringToStringMap(d.settings, o.settings) = u.settings
  <2> DEFINE x == s.settings
             y == StatefulSetSettings(m)
             z == o.settings
  <2>1. u.settings = StringToStringMap(StringToStringMap(x, y), z)
        /\ d.settings = StringToStringMap(u.settings, y)
    BY <1>3, <1>4, <1>6
  <2> HIDE DEF x, y, z
  <2>2. StringToStringMap(StringToStringMap(StringToStringMap(StringToStringMap(x, y), z), y), z)
          = StringToStringMap(StringToStringMap(x, y), z)
    BY MapMergedTwice
  <2>3. QED
    BY <2>1, <2>2 DEF z
<1>10. StringToStringMap(d.selector, o.selector) = u.selector
  BY <1>3, <1>4, <1>6
<1>11. VolumeClaimTemplates(d.claims, o.claims) = u.claims /\ HasModes(u.claims)
  <2> DEFINE x == s.claims
             y == u.claims
             z == o.claims
  <2>1. y = VolumeClaimTemplates(WrittenClaims(x), z) /\ d.claims = WrittenClaims(y)
    BY <1>3, <1>4, <1>6
  <2>2. HasModes(x) /\ \A c \in DOMAIN z : IsClaim(z[c])
    BY DEF ListsSound, IsOverride
  <2> HIDE DEF x, y, z
  <2>3. HasModes(y) /\ VolumeClaimTemplates(WrittenClaims(y), z) = y
    BY <2>1, <2>2, ClaimsSettled
  <2>4. QED
    BY <2>1, <2>3 DEF y, z
<1>12. /\ OnlyKey(topology, key)
       /\ TopologySpreadConstraints(topology, p.topology) = {topology}
  <2> DEFINE x == b.template.topology
             z == p.topology
  <2>1. OnlyKey(x, key)
    <3>1. BuiltFrom(BuiltTemplate(t, m), t, m)
      <4>1. TemplateShape(t) /\ OneAgentMount(t)
        OBVIOUS
      <4> HIDE DEF t
      <4>2. QED
        BY <4>1, BuiltTemplateValue
    <3>2. x = t.topology
      BY <1>3, <3>1 DEF BuiltFrom
    <3>3. QED
      BY <3>2 DEF ListsSound
  <2>2. OnlyKey(z, key) /\ IsList(z) /\ \A i \in DOMAIN z : IsMap(z[i][2])
    BY DEF IsOverride
  <2>3. topology \in TopologySpreadConstraints(x, z)
    BY <1>2
  <2> HIDE DEF x, z
  <2>4. QED
    BY <2>1, <2>2, <2>3, TopologySettled DEF z
<1>13. d.template.topology = topology
  BY <1>4, <1>8
<1>14. DesiredStatefulSet(u, m) = {StatefulSetSpecs(d, o, topology)}
  BY <1>5, <1>12, <1>13
<1>15. StatefulSetSpecs(d, o, topology) = u
  BY <1>4, <1>6, <1>8, <1>9, <1>10, <1>11 DEF StatefulSetSpecs
<1>16. ListsSound(u, key)
  BY <1>8, <1>11, <1>12 DEF ListsSound
<1>17. QED
  BY <1>14, <1>15, <1>16

\* No two topology keys are used in the overrides: the operator lists the
\* constraints of several in the order in which Go iterates over a map.
OneTopologyKey ==
  LET Constraints(s) == s.stsOverride.template.topology
  IN  \A s, r \in UserSpecs : \A i \in DOMAIN Constraints(s), j \in DOMAIN Constraints(r) :
        Constraints(s)[i][1] = Constraints(r)[j][1]

\* There is one.
LEMMA KeyOfOverrides ==
  ASSUME OneTopologyKey
  PROVE  \E key : \A s \in UserSpecs : OnlyKey(s.stsOverride.template.topology, key)
<1>1. CASE \E r \in UserSpecs : DOMAIN r.stsOverride.template.topology # {}
  <2>1. PICK r \in UserSpecs : DOMAIN r.stsOverride.template.topology # {}
    BY <1>1
  <2>2. PICK j \in DOMAIN r.stsOverride.template.topology : TRUE
    BY <2>1
  <2> DEFINE key == r.stsOverride.template.topology[j][1]
  <2>3. \A s \in UserSpecs : OnlyKey(s.stsOverride.template.topology, key)
    BY <2>1, <2>2 DEF OneTopologyKey, OnlyKey
  <2> HIDE DEF key
  <2>4. QED
    BY <2>3
<1>2. CASE \A r \in UserSpecs : DOMAIN r.stsOverride.template.topology = {}
  BY <1>2 DEF OnlyKey
<1>3. QED
  BY <1>1, <1>2

\* The StatefulSet is a fixpoint of updates for the resource it was last updated
\* for.
SettledStatefulSet == stsFrom # NoResource => DesiredStatefulSet(sts, stsFrom) = {sts}

\* The invariant holds.
LEMMA SettledStatefulSetHolds ==
  ASSUME OverridesProvide, NEW key,
         \A s \in UserSpecs : OnlyKey(s.stsOverride.template.topology, key)
  PROVE  Spec => [](ListsSound(sts, key) /\ SettledStatefulSet)
<1> DEFINE Inv == ListsSound(sts, key) /\ SettledStatefulSet
<1>0. ListsSound(NewStatefulSetSpec, key)
  <2>1. DOMAIN Nothing = {}
    BY DEF Nothing
  <2>2. /\ NewStatefulSetSpec.template.hostAliases = Nothing
        /\ NewStatefulSetSpec.template.topology = Nothing
        /\ NewStatefulSetSpec.claims = Nothing
    BY DEF NewStatefulSetSpec, NewPodTemplate
  <2>3. QED
    BY <2>1, <2>2 DEF ListsSound, HasLists, HasModes, OnlyKey
<1>1. Init => Inv
  BY <1>0 DEF Init, SettledStatefulSet
<1>2. StatusOK /\ StatefulSetInvariant /\ MountsInvariant /\ Inv /\ [Next]_vars => Inv'
  <2> SUFFICES ASSUME StatusOK, StatefulSetInvariant, MountsInvariant, Inv, [Next]_vars
               PROVE  Inv'
    OBVIOUS
  <2>1. CASE CreateOrUpdateStatefulSet
    <3> DEFINE m == Resource
    <3>1. sts' \in DesiredStatefulSet(sts, m) /\ stsFrom' = m
      BY <2>1 DEF CreateOrUpdateStatefulSet
    <3>2. m.stsOverride = spec.stsOverride /\ ProvidesItsMounts(m.stsOverride)
      BY ResourceOverride
    <3>3. IsOverride(m.stsOverride) /\ OnlyKey(m.stsOverride.template.topology, key)
      BY <3>2, UserSpecsAssumption DEF StatusOK
    <3> HIDE DEF m
    <3>4. /\ TemplateShape(sts.template) /\ OneAgentMount(sts.template)
          /\ Backed(sts.template, DOMAIN sts.claims)
      BY DEF StatefulSetInvariant, MountsInvariant
    <3>5. ListsSound(sts', key) /\ DesiredStatefulSet(sts', m) = {sts'}
      BY <3>1, <3>2, <3>3, <3>4, StatefulSetSettled
    <3>6. QED
      BY <3>1, <3>5 DEF SettledStatefulSet
  <2>2. CASE LoseStatefulSet
    BY <1>0, <2>2 DEF LoseStatefulSet, SettledStatefulSet
  <2>3. CASE UNCHANGED <<sts, stsFrom>>
    BY <2>3 DEF SettledStatefulSet, ListsSound
  <2>4. QED
    BY <2>1, <2>2, <2>3 DEF Next, vars, EnsureAutomationConfig, UpdateStatus, EditSpec,
                            LoseSecret
<1>3. QED
  BY <1>1, <1>2, StatusOKHolds, StatefulSetInvariantHolds, MountsInvariantHolds, PTL DEF Spec

\* A reconciliation that follows one of the same resource changes neither the
\* config nor the StatefulSet, whatever edits, losses and overrides came before,
\* if the overrides mount what there is and use one topology key.
THEOREM IdempotentTheorem ==
  ASSUME OverridesProvide, OneTopologyKey
  PROVE  Spec => []ReconcileIsIdempotent
<1>1. PICK key : \A s \in UserSpecs : OnlyKey(s.stsOverride.template.topology, key)
  BY KeyOfOverrides
<1>2. Spec => [](ListsSound(sts, key) /\ SettledStatefulSet)
  BY <1>1, SettledStatefulSetHolds
<1>3. ConfigInvariant /\ SettledConfig /\ SettledStatefulSet => ReconcileIsIdempotent
  <2> SUFFICES ASSUME ConfigInvariant, SettledConfig, SettledStatefulSet
               PROVE  ReconcileIsIdempotent
    OBVIOUS
  <2> DEFINE m == Resource
  <2>1. m # NoResource
    BY ResourceIsThere
  <2>2. configFrom = m => EnsureSecret(config, BuildAutomationConfig(m, config)) = config
    BY <2>1, ConfigLeftAlone
  <2> HIDE DEF m
  <2>3. stsFrom = m => DesiredStatefulSet(sts, m) = {sts}
    BY <2>1 DEF SettledStatefulSet
  <2>4. QED
    BY <2>2, <2>3 DEF ReconcileIsIdempotent, m
<1>4. QED
  BY <1>2, <1>3, ConfigInvariantHolds, SettledConfigHolds, PTL
=============================================================================
