------------------------ MODULE StatefulSetTemplate ------------------------
(***************************************************************************)
(* The StatefulSet of the members as the operator modifies it in place,    *)
(* starting from the one in the cluster (construct/mongodbstatefulset.go,  *)
(* mongodb_tls.go, buildStatefulSetModificationFunction; pkg/kube/         *)
(* statefulset, podtemplatespec and container).                            *)
(*                                                                         *)
(* A StatefulSet has the shape of module Merge; NewStatefulSetSpec stands  *)
(* for one that does not exist.  Values the operator never varies are      *)
(* "operator"; images are named by what they run.  m.stsReplicas and       *)
(* m.strategy are what the scaler and GetUpdateStrategyType return.        *)
(***************************************************************************)
EXTENDS Merge

AgentName == "mongodb-agent"
MongodbName == "mongod"
HookName == "mongod-posthook"
ProbeName == "mongodb-agent-readinessprobe"
AgentPemFile == "agent-certs-pem"

EmptyDir == [source |-> "emptyDir", fields |-> Nothing]

FromSecret(secret) ==
  [source |-> "secret", fields |-> [secretName |-> secret, defaultMode |-> "operator"]]

\* A list with a single entry.
Named(name, entry) == [n \in {name} |-> entry]

Mount(volume, path, readOnly) == Named(<<volume, path>>, readOnly)

-----------------------------------------------------------------------------
(***************************************************************************)
(* Modifications of a pod template.                                        *)
(***************************************************************************)
\* Mutant: a volume that is there is kept.
KeepVolumes(t, volumes) ==
  [t EXCEPT !.volumes = StringToStringMap(volumes, @)]

\* Each volume is merged into the one of the same name.
WithVolumes(t, volumes) ==
  [t EXCEPT !.volumes = Volumes(@, volumes)]

WithVolume(t, name, volume) == WithVolumes(t, Named(name, volume))

RemoveVolume(t, name) ==
  [t EXCEPT !.volumes = [n \in DOMAIN @ \ {name} |-> @[n]]]

\* Mounts of the same volume and path are replaced, the others stay.
WithVolumeMounts(t, name, mounts) ==
  [t EXCEPT !.containers[name].mounts = StringToStringMap(@, mounts)]

\* Removes one mount of the volume.  The code takes the last in the list;
\* there is one, unless an override mounts the volume once more, and then
\* this may be another.
RemoveVolumeMount(t, name, volume) ==
  LET mounts == t.containers[name].mounts
      found  == {k \in DOMAIN mounts : k[1] = volume}
      mount  == CHOOSE k \in found : TRUE
  IN  IF found = {} THEN t
      ELSE [t EXCEPT !.containers[name].mounts = [k \in DOMAIN mounts \ {mount} |-> mounts[k]]]

\* What container.Apply makes of the container c: settings, environment,
\* probe and mounts are written over the ones that are there, resources and
\* security context replace them.  (The operator runs without
\* MANAGED_SECURITY_CONTEXT, which leaves the security contexts alone.)
Modified(c, settings, probe, env, mounts) ==
  [settings        |-> StringToStringMap(c.settings, settings),
   resources       |-> [requests |-> "operator", limits |-> "operator"],
   readinessProbe  |-> StringToStringMap(c.readinessProbe, probe),
   securityContext |-> [readOnlyRootFilesystem |-> "operator"],
   env             |-> StringToStringMap(c.env, env),
   mounts          |-> StringToStringMap(c.mounts, mounts)]

Existing(containers, name) ==
  IF name \in DOMAIN containers THEN containers[name] ELSE NewContainer

-----------------------------------------------------------------------------
(***************************************************************************)
(* The operator's containers.                                              *)
(***************************************************************************)
\* Where mongod keeps its data, unless the user says otherwise.
GetDBDataDir(m) ==
  IF "dbPath" \in DOMAIN m.mongodConfig THEN m.mongodConfig.dbPath ELSE "/data"

CommonMounts(m) ==
  StringToStringMap(Mount("keyfile", "/authentication", FALSE),
  StringToStringMap(Mount("tmp", "/tmp", FALSE),
  StringToStringMap(Mount("data-volume", GetDBDataDir(m), FALSE),
                    Mount("logs-volume", "/var/log", FALSE))))

MongodbAgentContainer(c, m) ==
  Modified(c,
    [image |-> "agent", imagePullPolicy |-> "Always", command |-> m.agentLogFile],
    [exec |-> "readinessprobe", failureThreshold |-> "operator", initialDelaySeconds |-> "operator"],
    [AGENT_STATUS_FILEPATH |-> "operator", AUTOMATION_CONFIG_MAP |-> "operator",
     HEADLESS_AGENT |-> "operator", POD_NAMESPACE |-> "operator"],
    StringToStringMap(CommonMounts(m),
    StringToStringMap(Mount("healthstatus", "/var/log/healthstatus", FALSE),
    StringToStringMap(Mount("automation-config", "/config", TRUE),
                      Mount("agent-scripts", "/opt/scripts", FALSE)))))

\* The command runs the version hook, waits for the config file in the data
\* directory and starts mongod with it.
MongodbContainer(c, m) ==
  Modified(c,
    [image |-> m.version, command |-> GetDBDataDir(m), args |-> "operator"],
    Nothing,
    [AGENT_STATUS_FILEPATH |-> "operator"],
    StringToStringMap(CommonMounts(m),
    StringToStringMap(Mount("healthstatus", "/healthstatus", FALSE),
                      Mount("hooks", "/hooks", FALSE))))

\* The init containers copy the hook and the probe into their volumes.
InitContainer(c, image, volume, path) ==
  Modified(c, [image |-> image, imagePullPolicy |-> "Always", command |-> "cp"],
           Nothing, Nothing, Mount(volume, path, FALSE))

\* The template of BuildMongoDBReplicaSetStatefulSetModificationFunction.
OperatorTemplate(t, m) ==
  LET volumes == [v \in {"healthstatus", "hooks", "tmp", "keyfile", "agent-scripts",
                         "automation-config"} |->
                    IF v = "automation-config" THEN FromSecret("config") ELSE EmptyDir]
  IN  [WithVolumes(t, volumes) EXCEPT
         !.settings = StringToStringMap(@, [serviceAccountName |-> "operator",
                                            securityContext |-> "operator"]),
         !.labels = [app |-> "svc"],
         !.containers = StringToStringMap(@, StringToStringMap(
            Named(AgentName, MongodbAgentContainer(Existing(@, AgentName), m)),
            Named(MongodbName, MongodbContainer(Existing(@, MongodbName), m)))),
         !.initContainers = StringToStringMap(@, StringToStringMap(
            Named(HookName, InitContainer(Existing(@, HookName), "version-upgrade-hook",
                                          "hooks", "/hooks")),
            Named(ProbeName, InitContainer(Existing(@, ProbeName), "readinessprobe",
                                           "agent-scripts", "/opt/scripts"))))]

-----------------------------------------------------------------------------
(***************************************************************************)
(* Certificates.                                                           *)
(***************************************************************************)
BuildTLSPodSpec(t, m) ==
  LET mounts == StringToStringMap(Mount("tls-ca", "/tls/ca", TRUE),
                                  Mount("tls-secret", "/tls/server", TRUE))
      withVolumes == WithVolume(WithVolume(t, "tls-ca", FromSecret("ca")),
                                "tls-secret", FromSecret("server"))
  IN  IF ~m.tls THEN t
      ELSE WithVolumeMounts(WithVolumeMounts(withVolumes, AgentName, mounts),
                            MongodbName, mounts)

BuildTLSPrometheus(t, m) ==
  LET mounts == Mount("prom-tls-secret", "/tls/prometheus", TRUE)
      withVolume1 == WithVolume(t, "prom-tls-secret", FromSecret("prometheus"))
  IN  IF m.prometheus # "https" THEN t
      ELSE WithVolumeMounts(WithVolumeMounts(withVolume1, AgentName, mounts),
                            MongodbName, mounts)

\* Mutant: the mount stays when the volume goes.
ForgetAgentMount(t, m) ==
  IF m.x509
  THEN WithVolumeMounts(WithVolume(t, AgentPemFile, FromSecret("agent")),
                        AgentName, Mount(AgentPemFile, "/agent-certs", TRUE))
  ELSE RemoveVolume(t, AgentPemFile)

BuildAgentX509(t, m) ==
  IF m.x509
  THEN WithVolumeMounts(WithVolume(t, AgentPemFile, FromSecret("agent")),
                        AgentName, Mount(AgentPemFile, "/agent-certs", TRUE))
  ELSE RemoveVolumeMount(RemoveVolume(t, AgentPemFile), AgentName, AgentPemFile)

-----------------------------------------------------------------------------
(***************************************************************************)
(* The StatefulSet.                                                        *)
(***************************************************************************)
\* dataPvc and logsPvc: a claim is given its access mode and its request again.
Pvc(claim, storage) ==
  [fields |-> StringToStringMap(claim.fields, [requests |-> storage]),
   accessModes |-> <<"ReadWriteOnce">>]

WithVolumeClaim(claims, name, storage) ==
  LET claim == IF name \in DOMAIN claims THEN claims[name]
               ELSE [fields |-> Nothing, accessModes |-> Nothing]
  IN  StringToStringMap(claims, Named(name, Pvc(claim, storage)))

OperatorStatefulSet(sts, m) ==
  [settings |-> StringToStringMap(sts.settings,
                  [serviceName |-> "svc", replicas |-> m.stsReplicas,
                   updateStrategy |-> m.strategy]),
   selector |-> [app |-> "svc"],
   template |-> BuildAgentX509(BuildTLSPrometheus(BuildTLSPodSpec(
                  OperatorTemplate(sts.template, m), m), m), m),
   claims   |-> WithVolumeClaim(WithVolumeClaim(sts.claims, "data-volume", "10G"),
                                "logs-volume", "2G")]

\* Mutant: the user's StatefulSet is merged into the one in the cluster, and
\* what the operator wants is only written when there is none.
OperatorOnlyCreates(sts, m) ==
  LET built == IF sts = NewStatefulSetSpec THEN OperatorStatefulSet(sts, m) ELSE sts
  IN  {StatefulSetSpecs(built, m.stsOverride, topology) :
         topology \in TopologySpreadConstraints(built.template.topology,
                                                m.stsOverride.template.topology)}

\* What the update sends, for every order of the constraints: the operator's
\* modifications of the StatefulSet in the cluster, then the user's.
DesiredStatefulSet(sts, m) ==
  LET built == OperatorStatefulSet(sts, m)
  IN  {StatefulSetSpecs(built, m.stsOverride, topology) :
         topology \in TopologySpreadConstraints(built.template.topology,
                                                m.stsOverride.template.topology)}
=============================================================================
