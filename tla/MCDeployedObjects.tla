------------------------- MODULE MCDeployedObjects -------------------------
(***************************************************************************)
(* The instances of DeployedObjects that TLC checks: a base spec and       *)
(* variants of it, between which the user moves in any order.              *)
(***************************************************************************)
EXTENDS DeployedObjects

Base ==
  [members |-> 3, arbiters |-> 0, version |-> <<1, 0>>, fcv |-> NoFCV,
   tls |-> FALSE, x509 |-> FALSE, prometheus |-> NoPrometheus, roles |-> Nothing,
   mongodConfig |-> Nothing, logRotate |-> NoLogRotate, agentLogFile |-> "default",
   memberConfig |-> Nothing, horizons |-> Nothing,
   acOverride |-> [processes |-> Nothing, replicaSetId |-> "", settings |-> Nothing],
   stsOverride |-> NewStatefulSetSpec]

\* Scaling around the limit of voting members, and options of members.
ScalingSpecs ==
  {Base, [Base EXCEPT !.members = 4, !.arbiters = 2],
   [Base EXCEPT !.arbiters = 1, !.horizons = <<"h0", "h1", "h2">>]}

\* Upgrades, downgrades and compatibility versions.
VersionSpecs ==
  {[Base EXCEPT !.version = <<2, 1>>],
   [Base EXCEPT !.version = <<2, 0>>, !.fcv = 2],
   [Base EXCEPT !.version = <<1, 1>>]}

\* Settings and overrides of the automation config.
ConfigSpecs ==
  {[Base EXCEPT !.logRotate = "lr", !.mongodConfig = [dbPath |-> "/other"],
                !.roles = [role |-> "r"], !.acOverride =
                  [processes    |-> <<"member", 0>> :> [disabled |-> TRUE, logRotate |-> NoLogRotate],
                   replicaSetId |-> "rs",
                   settings     |-> [electionTimeoutMillis |-> "20"]]]}

\* Certificates.
TLSSpecs ==
  {[Base EXCEPT !.tls = TRUE], [Base EXCEPT !.prometheus = "http"],
   [Base EXCEPT !.tls = TRUE, !.x509 = TRUE, !.prometheus = "https"]}

\* Overrides of the StatefulSet: a sidecar with a volume of its own; another
\* mongod image, a slower probe and a persistent /tmp; another Secret for the
\* config and another strategy; another selector and other claims, which only
\* a new StatefulSet can get.
Sidecar ==
  [NewStatefulSetSpec EXCEPT
     !.template.containers = "sidecar" :> [NewContainer EXCEPT
        !.settings = [image |-> "sidecar"], !.mounts = Mount("extra", "/extra", FALSE)],
     !.template.volumes = [extra |-> EmptyDir],
     !.template.topology = << <<"zone", [maxSkew |-> "1"]>> >>,
     !.template.hostAliases = "ip" :> <<"a", "b">>]

Adjusted ==
  [NewStatefulSetSpec EXCEPT
     !.template.containers =
        MongodbName :> [NewContainer EXCEPT !.settings = [image |-> <<1, 9>>],
                                            !.resources = [limits |-> "user"]] @@
        AgentName :> [NewContainer EXCEPT !.readinessProbe = [timeoutSeconds |-> "user"],
                                          !.env = [HEADLESS_AGENT |-> "user"]],
     !.template.volumes = [tmp |-> [source |-> "claim", fields |-> Nothing]],
     !.template.settings = [securityContext |-> "user", affinity |-> "user"]]

Redirected ==
  [NewStatefulSetSpec EXCEPT
     !.settings = [updateStrategy |-> "OnDelete"],
     !.template.volumes = "automation-config" :> FromSecret("user"),
     !.template.labels = [team |-> "user"]]

Claiming ==
  [NewStatefulSetSpec EXCEPT
     !.selector = [tier |-> "user"],
     !.template.labels = [tier |-> "user"],
     !.claims = "data-volume" :> [fields |-> [storageClass |-> "user"],
                                  accessModes |-> <<"ReadWriteMany">>]]

OverrideSpecs == {[Base EXCEPT !.stsOverride = o] : o \in {Sidecar, Adjusted, Redirected, Claiming}}

AllSpecs == ScalingSpecs \cup VersionSpecs \cup ConfigSpecs \cup TLSSpecs \cup OverrideSpecs

\* Five members are given options, the last one without a vote.
Voting == [votes |-> 1, priority |-> 1]
Hidden == [votes |-> 0, priority |-> 0]

MemberConfigSpecs ==
  {[Base EXCEPT !.arbiters = 1],
   [Base EXCEPT !.members = 5, !.arbiters = 1,
                !.memberConfig = <<Voting, Voting, Voting, Hidden, Hidden>>]}

\* The number of replicas is repeated in the StatefulSet, as validation asks.
ReplicasSpecs ==
  {[Base EXCEPT !.members = n,
                !.stsOverride.settings = [replicas |-> n]] : n \in {3, 5}}
=============================================================================
