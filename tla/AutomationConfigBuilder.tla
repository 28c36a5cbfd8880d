---------------------- MODULE AutomationConfigBuilder ----------------------
(***************************************************************************)
(* The automation config the operator builds from a resource and from the  *)
(* config that is in the Secret (pkg/automationconfig, buildAutomation-    *)
(* Config and the modifications of controllers/).                          *)
(*                                                                         *)
(* A config is a version and a content; version 0 stands for a Secret that *)
(* does not exist.  A resource m is given by the fields of its spec that   *)
(* matter here and by the numbers of members and arbiters of this          *)
(* reconciliation (m.acMembers, m.acArbiters).  A mongod version x.y.z is  *)
(* the pair <<n, z>> where n is the rank of x.y, and a feature             *)
(* compatibility version x.y is n; all versions are at least 3.4.  Left    *)
(* out: users (module UserSecrets), ports (module PortChange), host names  *)
(* and the list of mongod builds, which are functions of the fields kept.  *)
(***************************************************************************)
EXTENDS Merge, Integers

CONSTANTS
  MaxVotingMembers,      \* 7 in the code
  ArbitersStartingIndex  \* 100 in the code

ASSUME VotingAssumption == MaxVotingMembers \in Nat \ {0}
ASSUME IndexAssumption == ArbitersStartingIndex \in Nat

NoFCV == 0   \* the empty feature compatibility version
NotSet == -1 \* votes that are nil
NoFile == "" \* no file is named
NoPrometheus == "" \* no endpoint

\* Log rotation that is nil, and the zero value a conversion of nil yields.
NoLogRotate == "nil"
ZeroLogRotate == "zero"

NoConfig ==
  [version |-> 0,
   content |-> [processes |-> Nothing, members |-> Nothing, replicaSetId |-> "",
                settings |-> Nothing, tls |-> Nothing, prometheus |-> Nothing, roles |-> Nothing]]

-----------------------------------------------------------------------------
(***************************************************************************)
(* Feature compatibility version.                                          *)
(***************************************************************************)
CalculateFeatureCompatibilityVersion(version) == version[1]

\* Is mongod newer than the first release of the given compatibility version?
NewerThan(version, fcv) == version[1] > fcv \/ (version[1] = fcv /\ version[2] > 0)

\* Mutant: the compatibility version follows the mongod version.
FollowMongodVersion(m, previous) ==
  IF m.fcv # NoFCV THEN m.fcv ELSE CalculateFeatureCompatibilityVersion(m.version)

FeatureCompatibilityVersion(m, previous) ==
  LET processes == previous.content.processes
  IN  IF m.fcv # NoFCV THEN m.fcv
      ELSE IF Len(processes) > 0 /\ NewerThan(m.version, processes[1].fcv)
      THEN processes[1].fcv
      ELSE CalculateFeatureCompatibilityVersion(m.version)

-----------------------------------------------------------------------------
(***************************************************************************)
(* Processes and members of the replica set: the data-bearing nodes, then  *)
(* the arbiters.  i counts from 0.                                         *)
(***************************************************************************)
IsArbiter(m, i) == i >= m.acMembers

ToProcessName(m, i) ==
  IF IsArbiter(m, i) THEN <<"arb", i - m.acMembers>> ELSE <<"member", i>>

\* ConvertCrdLogRotateToAC.
ConvertLogRotate(lr) == IF lr = NoLogRotate THEN ZeroLogRotate ELSE lr

\* The audit log rotation comes along with the log rotation, set or not.
ConfigureAgentConfiguration(p, m) ==
  IF m.logRotate = NoLogRotate THEN p
  ELSE [p EXCEPT !.logRotate = ConvertLogRotate(m.logRotate),
                 !.auditLogRotate = ConvertLogRotate(NoLogRotate)]

Process(m, i, fcv) ==
  ConfigureAgentConfiguration(
    [name |-> ToProcessName(m, i), disabled |-> FALSE, fcv |-> fcv, version |-> m.version,
     args |-> [dbPath |-> "/data", replSetName |-> "name"],
     logRotate |-> NoLogRotate, auditLogRotate |-> NoLogRotate], m)

\* Mutant: arbiters are numbered after the data-bearing nodes.
ConsecutiveIndex(m, i) == i

ReplicaSetIndex(m, i) ==
  IF IsArbiter(m, i) THEN ArbitersStartingIndex + (i - m.acMembers) ELSE i

\* Mutant: the arbiters' votes are not counted.
FirstMembersVote(m, i) == IsArbiter(m, i) \/ i < MaxVotingMembers

IsVotingMember(m, i) == IsArbiter(m, i) \/ i < MaxVotingMembers - m.acArbiters

NewReplicaSetMember(m, i) ==
  LET vote == IF IsVotingMember(m, i) THEN 1 ELSE 0
  IN  [id          |-> ReplicaSetIndex(m, i),
       host        |-> ToProcessName(m, i),
       arbiterOnly |-> IsArbiter(m, i),
       horizons    |-> IF i < Len(m.horizons) THEN m.horizons[i + 1] ELSE "",
       votes       |-> vote,
       priority    |-> vote]

\* Options given for the index of a process replace its votes and priority,
\* whether it is a data-bearing node or an arbiter.
ReplicaSetMember(m, i) ==
  IF i < Len(m.memberConfig)
  THEN [NewReplicaSetMember(m, i) EXCEPT !.votes = m.memberConfig[i + 1].votes,
                                         !.priority = m.memberConfig[i + 1].priority]
  ELSE NewReplicaSetMember(m, i)

-----------------------------------------------------------------------------
(***************************************************************************)
(* Modifications, in the order in which they are applied.                  *)
(***************************************************************************)
\* Arguments are added to a process, or written over those it has.
WithArgs(p, args) == [p EXCEPT !.args = StringToStringMap(@, args)]

\* getMongodConfigModification: the user's arguments win.
WithMongodConfig(content, m) ==
  [content EXCEPT !.processes = [i \in DOMAIN @ |-> WithArgs(@[i], m.mongodConfig)]]

\* tlsConfigModification.  Files are named by the directory they are in.
WithTLS(content, m) ==
  IF ~m.tls THEN content
  ELSE [content EXCEPT
          !.tls = [caFile |-> "/tls/ca",
                   autoPEMKeyFile |-> IF m.x509 THEN "/agent-certs" ELSE NoFile],
          !.processes = [i \in DOMAIN @ |-> WithArgs(@[i],
             [caFile |-> "/tls/ca", certificateKeyFile |-> "/tls/server"])]]

\* getCustomRolesModification.
WithRoles(content, m) ==
  IF m.roles = Nothing THEN content ELSE [content EXCEPT !.roles = m.roles]

\* getPrometheusModification.
WithPrometheus(content, m) ==
  IF m.prometheus = NoPrometheus THEN content
  ELSE [content EXCEPT !.prometheus =
          [scheme |-> m.prometheus,
           tlsPemPath |-> IF m.prometheus = "https" THEN "/tls/prometheus" ELSE NoFile]]

BuiltContent(m, previous) ==
  LET n       == m.acMembers + m.acArbiters
      fcv     == FeatureCompatibilityVersion(m, previous)
      initial == [processes    |-> [i \in 1 .. n |-> Process(m, i - 1, fcv)],
                  members      |-> [i \in 1 .. n |-> ReplicaSetMember(m, i - 1)],
                  replicaSetId |-> IF m.acOverride.replicaSetId = "" THEN "name"
                                  ELSE m.acOverride.replicaSetId,
                  settings     |-> m.acOverride.settings,
                  tls          |-> [caFile |-> NoFile, autoPEMKeyFile |-> NoFile],
                  prometheus   |-> Nothing,
                  roles        |-> Nothing]
  IN  WithPrometheus(WithRoles(WithTLS(WithMongodConfig(initial, m), m), m), m)

AreEqual(c0, c1) == c0.content = c1.content

\* The version moves when the content differs from that of the Secret.
Build(m, previous) ==
  LET built == [version |-> previous.version, content |-> BuiltContent(m, previous)]
  IN  IF AreEqual(previous, built) THEN built ELSE [built EXCEPT !.version = @ + 1]

\* The processes of an override have both fields, even when one was given.
OverrideToAutomationConfig(processes) ==
  [name \in DOMAIN processes |->
     [processes[name] EXCEPT !.logRotate = ConvertLogRotate(@)]]

\* merge.AutomationConfigs: processes are found by name.
MergeProcesses(config, processes) ==
  LET MergeProcess(p, o) == [p EXCEPT !.disabled = o.disabled, !.logRotate = o.logRotate]
  IN  [config EXCEPT !.content.processes =
         [i \in DOMAIN @ |-> IF @[i].name \in DOMAIN processes
                             THEN MergeProcess(@[i], processes[@[i].name])
                             ELSE @[i]]]

BuildAutomationConfig(m, previous) ==
  MergeProcesses(Build(m, previous), OverrideToAutomationConfig(m.acOverride.processes))

\* Mutant: the versions are compared along with the contents.
EnsureExactSecret(existing, desired) ==
  IF existing = desired THEN existing ELSE desired

\* A Secret whose content is the desired one is left alone.
EnsureSecret(existing, desired) ==
  IF existing.version > 0 /\ AreEqual(desired, existing) THEN existing ELSE desired
=============================================================================
