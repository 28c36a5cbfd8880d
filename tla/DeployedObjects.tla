-------------------------- MODULE DeployedObjects --------------------------
(***************************************************************************)
(* The two objects the operator derives from a resource over the life of a *)
(* replica set: the automation config Secret, built from the config that   *)
(* is in it (module AutomationConfigBuilder), and the StatefulSet,         *)
(* modified in place (module StatefulSetTemplate).  Both carry something   *)
(* from one reconciliation to the next, so what they are is a matter of    *)
(* history and not of the spec alone.                                      *)
(*                                                                         *)
(*   spec        the spec of the resource, as the user last edited it;     *)
(*   status      members and arbiters of the last finished reconciliation, *)
(*               and whether the last applied spec has TLS;                *)
(*   config      the Secret;                                               *)
(*   sts         the StatefulSet;                                          *)
(*   configFrom  the resource the config was last ensured for (history);   *)
(*   stsFrom     the resource the StatefulSet was last updated for;        *)
(*   used        how much of each bound has been used.                     *)
(*                                                                         *)
(* The config and the StatefulSet are written in any order and any number  *)
(* of times: module ReplicaSetController has the order.                    *)
(***************************************************************************)
EXTENDS AutomationConfigBuilder, StatefulSetTemplate, Scale

CONSTANTS
  UserSpecs,          \* the specs the user may apply
  MaxEdits, MaxLosses

\* The types of an override's parts: a struct or map is a function, a container,
\* a volume or a claim has all its fields.
IsMap(f) == f = [k \in DOMAIN f |-> f[k]]

IsList(s) == s \in Seq({s[i] : i \in DOMAIN s})

IsContainer(c) ==
  /\ c = [settings |-> c.settings, resources |-> c.resources,
          readinessProbe |-> c.readinessProbe, securityContext |-> c.securityContext,
          env |-> c.env, mounts |-> c.mounts]
  /\ \A field \in DOMAIN c : IsMap(c[field])
  /\ \A k \in DOMAIN c.mounts : c.mounts[k] \in BOOLEAN

IsVolume(v) == v = [source |-> v.source, fields |-> v.fields] /\ IsMap(v.fields)

IsClaim(c) ==
  /\ c = [fields |-> c.fields, accessModes |-> c.accessModes]
  /\ IsMap(c.fields) /\ IsList(c.accessModes)

IsOverride(o) ==
  LET t == o.template
  IN  /\ \A v \in DOMAIN t.volumes : IsVolume(t.volumes[v])
      /\ \A c \in DOMAIN t.containers : IsContainer(t.containers[c])
      /\ \A c \in DOMAIN t.initContainers : IsContainer(t.initContainers[c])
      /\ \A ip \in DOMAIN t.hostAliases : IsList(t.hostAliases[ip])
      /\ IsList(t.topology) /\ \A i \in DOMAIN t.topology : IsMap(t.topology[i][2])
      /\ \A c \in DOMAIN o.claims : IsClaim(o.claims[c])

\* Numbers of processes, a mongod version, a compatibility version that may be
\* left out, options for some of the processes, and an override.
ASSUME UserSpecsAssumption ==
  \A s \in UserSpecs :
    /\ {s.members, s.arbiters, s.fcv, Len(s.memberConfig)} \subseteq Nat
    /\ s.version \in Nat \X Nat
    /\ IsOverride(s.stsOverride)

ASSUME BoundsAssumption == {MaxEdits, MaxLosses} \subseteq Nat

VARIABLES spec, status, config, sts, configFrom, stsFrom, used

vars == <<spec, status, config, sts, configFrom, stsFrom, used>>

\* ValidateInitialSpec and ValidateUpdate, as far as the fields kept here go:
\* a spec that is not valid is not deployed.
ValidateSpec ==
  /\ spec.arbiters < spec.members
  /\ spec.x509 => spec.tls
  /\ "replicas" \in DOMAIN spec.stsOverride.settings =>
       spec.stsOverride.settings.replicas = spec.members
  /\ status.tls => spec.tls

\* The members and arbiters of this reconciliation.  Arbiters wait for the
\* members.
Members == ReplicasThisReconciliation(Scaler(status.members, spec.members, FALSE))

Arbiters ==
  IF Members # spec.members THEN status.arbiters
  ELSE ReplicasThisReconciliation(Scaler(status.arbiters, spec.arbiters, TRUE))

\* The arbiters of the StatefulSet do not wait.
StatefulSetArbiters == Scaler(status.stsArbiters, spec.arbiters, TRUE)

\* What a reconciliation of the resource starts from.  The strategy is the one
\* between version changes: OnDelete and its reset are in ReplicaSetController.
Resource ==
  [acMembers |-> Members, acArbiters |-> Arbiters, stsReplicas |-> Members,
   strategy |-> "RollingUpdate", version |-> spec.version, fcv |-> spec.fcv,
   tls |-> spec.tls, x509 |-> spec.x509, prometheus |-> spec.prometheus,
   roles |-> spec.roles, mongodConfig |-> spec.mongodConfig,
   logRotate |-> spec.logRotate, agentLogFile |-> spec.agentLogFile,
   memberConfig |-> spec.memberConfig, horizons |-> spec.horizons,
   acOverride |-> spec.acOverride, stsOverride |-> spec.stsOverride]

NoResource == Nothing

Init ==
  /\ spec \in UserSpecs
  /\ status = [members |-> 0, arbiters |-> 0, stsArbiters |-> 0, tls |-> FALSE]
  /\ config = NoConfig /\ configFrom = NoResource
  /\ sts = NewStatefulSetSpec /\ stsFrom = NoResource
  /\ used = [edits |-> 0, losses |-> 0]

-----------------------------------------------------------------------------
\* ensureAutomationConfig.
EnsureAutomationConfig ==
  /\ ValidateSpec
  /\ config' = EnsureSecret(config, BuildAutomationConfig(Resource, config))
  /\ configFrom' = Resource
  /\ UNCHANGED <<spec, status, sts, stsFrom, used>>

StatefulSetExists == stsFrom # NoResource

\* The API server refuses an update that changes the selector, the Service or
\* the claims of a StatefulSet.
UpdateAccepted(from, to) ==
  StatefulSetExists =>
    /\ to.selector = from.selector /\ to.claims = from.claims
    /\ to.settings["serviceName"] = from.settings["serviceName"]

\* createOrUpdateStatefulSet.  An update that is refused changes nothing and
\* fails the reconciliation.
CreateOrUpdateStatefulSet ==
  /\ ValidateSpec
  /\ sts' \in DesiredStatefulSet(sts, Resource)
  /\ UpdateAccepted(sts, sts')
  /\ stsFrom' = Resource
  /\ UNCHANGED <<spec, status, config, configFrom, used>>

\* The config and the StatefulSet were written for the resource as it is.
Deployed == configFrom = Resource /\ stsFrom = Resource

\* Reconcile reports the counts it deployed and, when the resource is no
\* longer scaling, records the spec as applied.
UpdateStatus ==
  /\ ValidateSpec /\ Deployed
  /\ LET scaling == Members # spec.members \/ IsStillScaling(StatefulSetArbiters)
     IN  status' = [members |-> Members, arbiters |-> Arbiters,
                    stsArbiters |-> ReplicasThisReconciliation(StatefulSetArbiters),
                    tls |-> IF scaling THEN status.tls ELSE spec.tls]
  /\ UNCHANGED <<spec, config, sts, configFrom, stsFrom, used>>

EditSpec ==
  /\ used.edits < MaxEdits
  /\ spec' \in UserSpecs \ {spec}
  /\ used' = [used EXCEPT !.edits = @ + 1]
  /\ UNCHANGED <<status, config, sts, configFrom, stsFrom>>

Lose == used.losses < MaxLosses /\ used' = [used EXCEPT !.losses = @ + 1]

\* Someone deletes the Secret: the next config starts from nothing.
LoseSecret ==
  /\ Lose
  /\ config' = NoConfig /\ configFrom' = NoResource
  /\ UNCHANGED <<spec, status, sts, stsFrom>>

\* Someone deletes the StatefulSet.
LoseStatefulSet ==
  /\ Lose
  /\ sts' = NewStatefulSetSpec /\ stsFrom' = NoResource
  /\ UNCHANGED <<spec, status, config, configFrom>>

Next ==
  \/ EnsureAutomationConfig
  \/ CreateOrUpdateStatefulSet
  \/ UpdateStatus
  \/ EditSpec
  \/ LoseSecret
  \/ LoseStatefulSet

Spec == Init /\ [][Next]_vars

-----------------------------------------------------------------------------
(***************************************************************************)
(* Properties.                                                             *)
(***************************************************************************)
ConfigExists == config.version > 0

\* Reconciling again without a change of the resource changes nothing: the
\* config that is read back, with the compatibility version it carries and
\* the override merged into it, and the StatefulSet that is modified in place
\* are fixpoints.  Otherwise every reconciliation would restart processes or
\* pods, without end.
ReconcileIsIdempotent ==
  /\ configFrom = Resource =>
       EnsureSecret(config, BuildAutomationConfig(Resource, config)) = config
  /\ stsFrom = Resource => DesiredStatefulSet(sts, Resource) = {sts}

\* "These ids must be kept constant if the data-bearing nodes change indexes"
\* (automation_config_builder.go:308): a process that stays in the replica set
\* keeps its id through every change of the config, and no id is used twice.
MemberIdsKept ==
  [][LET old == config.content.members
         new == config'.content.members
     IN  /\ \A i \in DOMAIN old, j \in DOMAIN new :
              old[i].host = new[j].host => old[i].id = new[j].id
         /\ \A i, j \in DOMAIN new : i # j => new[i].id # new[j].id]_vars

\* "If we are upgrading, we can't increase featureCompatibilityVersion as that
\* will make the agent never reach goal state": as long as there is a config,
\* only the user raises the compatibility version, whatever sequence of
\* upgrades, downgrades and settings led here; and the one the operator
\* chooses is never newer than mongod, which would not start.
FCVFollowsUser ==
  [][config' # config /\ config'.version > 0 /\ spec.fcv = NoFCV =>
       LET FCV(c) == c.content.processes[1].fcv
       IN  /\ ConfigExists => FCV(config') <= FCV(config)
           /\ FCV(config') <= config'.content.processes[1].version[1]]_vars

\* "ensure that the number of voting members in the replica set is not more
\* than 7" (automation_config.go:294): unless the user sets votes, members and
\* arbiters together stay within the limit, every arbiter votes, and so does a
\* member that can become primary, as long as the arbiters leave a vote.
VotesWithinLimit ==
  ConfigExists /\ configFrom # NoResource /\ configFrom.memberConfig = Nothing
               /\ configFrom.acArbiters < MaxVotingMembers =>
    LET members == config.content.members
        voters  == {i \in DOMAIN members : members[i].votes = 1}
    IN  /\ Cardinality(voters) <= MaxVotingMembers
        /\ \A i \in DOMAIN members : members[i].arbiterOnly => i \in voters
        /\ \E i \in voters : ~members[i].arbiterOnly /\ members[i].priority > 0

\* What the operator itself writes into a StatefulSet.
Written(s, names, init) ==
  [settings   |-> [k \in {"serviceName", "replicas", "updateStrategy"} |-> s.settings[k]],
   selector   |-> s.selector,
   labels     |-> s.template.labels,
   podSettings |-> [k \in {"serviceAccountName", "securityContext"} |-> s.template.settings[k]],
   volumes    |-> [v \in {"healthstatus", "hooks", "tmp", "keyfile", "agent-scripts",
                          "automation-config"} |-> s.template.volumes[v].source],
   config     |-> s.template.volumes["automation-config"].fields.secretName,
   containers |-> [c \in names |->
                     LET d == s.template.containers[c]
                     IN  [image |-> d.settings.image, command |-> d.settings.command,
                          resources |-> d.resources, security |-> d.securityContext]],
   init       |-> [c \in init |-> s.template.initContainers[c].settings.image],
   modes      |-> [v \in {"data-volume", "logs-volume"} |-> s.claims[v].accessModes]]

\* When the user withdraws an override, every value the operator chooses is
\* back after the next update that is accepted, whatever overrides there have
\* been: the StatefulSet that is modified in place remembers nothing of them
\* there.  (Additions of the user stay: see the README.)
OverrideRemovalRestores ==
  stsFrom = Resource /\ spec.stsOverride = NewStatefulSetSpec =>
    LET names == {AgentName, MongodbName}
        init  == {HookName, ProbeName}
        fresh == OperatorStatefulSet(NewStatefulSetSpec, Resource)
    IN  Written(sts, names, init) = Written(fresh, names, init)

\* Every mount names a volume or a claim of the StatefulSet, through every
\* change of certificates and overrides: the API server refuses the update
\* otherwise, and all those that follow.
MountsHaveVolumes ==
  LET t == sts.template
      provided == DOMAIN t.volumes \cup DOMAIN sts.claims
  IN  /\ \A c \in DOMAIN t.containers :
           \A k \in DOMAIN t.containers[c].mounts : k[1] \in provided
      /\ \A c \in DOMAIN t.initContainers :
           \A k \in DOMAIN t.initContainers[c].mounts : k[1] \in provided

\* When both objects are deployed, every file the config names is in a
\* directory that is mounted where it is read: the data, the server
\* certificate and the CA by agent and mongod, the agent's certificate by the
\* agent, that of the Prometheus endpoint by both.
NamedFilesMounted ==
  Deployed /\ ConfigExists =>
    LET Paths(c) == {k[2] : k \in DOMAIN sts.template.containers[c].mounts}
        named    == (IF spec.prometheus # NoPrometheus
                     THEN {config.content.prometheus.tlsPemPath} ELSE {})
                    \cup {config.content.tls.caFile}
                    \cup UNION {{p.args[a] : a \in DOMAIN p.args \cap {"dbPath", "caFile", "certificateKeyFile"}} :
                                 p \in {config.content.processes[i] : i \in DOMAIN config.content.processes}}
    IN  /\ named \ {NoFile} \subseteq Paths(AgentName) \cap Paths(MongodbName)
        /\ {config.content.tls.autoPEMKeyFile} \ {NoFile} \subseteq Paths(AgentName)

\* "Arbiters can't be non-voting members" (automation_config_builder.go:349).
ArbitersVote ==
  \A i \in DOMAIN config.content.members :
    config.content.members[i].arbiterOnly => config.content.members[i].votes # 0

\* "scale up and down a replicaset a single member at a time" (scale.go:3):
\* the StatefulSet stays within one replica of the number that was reported.
ReplicasWithinOneStep ==
  StatefulSetExists /\ status.members > 0 =>
    sts.settings.replicas - status.members \in -1 .. 1
=============================================================================
