------------------------------ MODULE Cluster ------------------------------
(***************************************************************************)
(* The Kubernetes objects the operator drives for one MongoDBCommunity     *)
(* resource, and what the parties outside the operator do with them: the   *)
(* StatefulSet controller, the MongoDB agent with its readiness probe      *)
(* (cmd/readiness), and the version upgrade hook (cmd/versionhook).        *)
(*                                                                         *)
(*   ac      the automation config secret: a version number (0 while the   *)
(*           secret does not exist) and the content the operator decides.  *)
(*   sts     the StatefulSet of the members; observed says that            *)
(*           status.observedGeneration has caught up with its generation.  *)
(*   arbSts  the StatefulSet of the arbiters.                              *)
(*   pods    the member pods by ordinal.  annotation is the agent version  *)
(*           the probe wrote on the pod (0 for none); probe is the last    *)
(*           verdict of the readiness probe: "waiting" is ready because    *)
(*           the agent has been on a wait step for 15 seconds.             *)
(*                                                                         *)
(* Arbiter pods are not represented: no decision of the reconciler that is *)
(* modelled here reads them.                                               *)
(***************************************************************************)
EXTENDS MongoDBCommunity, FiniteSets

VARIABLES ac, sts, arbSts, pods

clusterVars == <<ac, sts, arbSts, pods>>

Ordinals == 0 .. MaxMembers - 1

Contents == [members : Counts, arbiters : Counts, version : Versions \cup {NoVersion},
             tls : BOOLEAN, override : BOOLEAN]

NoConfig == [version |-> 0,
             content |-> [members |-> 0, arbiters |-> 0, version |-> NoVersion,
                          tls |-> FALSE, override |-> FALSE]]

\* The part of the pod template that matters: the mongod image tag and
\* whether the TLS certificates are mounted.
Templates == [version : Versions \cup {NoVersion}, tls : BOOLEAN]

NoTemplate == [version |-> NoVersion, tls |-> FALSE]

NoStatefulSet == [exists |-> FALSE, replicas |-> 0, template |-> NoTemplate,
                  strategy |-> "RollingUpdate", observed |-> TRUE]

NoPod == [up |-> FALSE, template |-> NoTemplate, probe |-> "notReady", annotation |-> 0]

NewPod(template) == [up |-> TRUE, template |-> template, probe |-> "notReady", annotation |-> 0]

ClusterTypeOK ==
  /\ ac \in [version : Nat, content : Contents]
  /\ sts \in [exists : BOOLEAN, replicas : Counts, template : Templates,
              strategy : {"RollingUpdate", "OnDelete"}, observed : BOOLEAN]
  /\ arbSts \in [exists : BOOLEAN, replicas : Counts, template : Templates,
                 strategy : {"RollingUpdate", "OnDelete"}, observed : BOOLEAN]
  /\ pods \in [Ordinals -> [up : BOOLEAN, template : Templates,
                            probe : {"notReady", "ready", "waiting"}, annotation : Nat]]

ClusterInit ==
  /\ ac = NoConfig
  /\ sts = NoStatefulSet
  /\ arbSts = NoStatefulSet
  /\ pods = [i \in Ordinals |-> NoPod]

PodReady(i) == pods[i].up /\ pods[i].probe # "notReady"

-----------------------------------------------------------------------------
(***************************************************************************)
(* The StatefulSet controller, with the default OrderedReady policy (the   *)
(* operator sets none): pods are created in order, each once its           *)
(* predecessors are ready, and removed from the last, with the others      *)
(* ready.  A rolling update replaces the last outdated pod once all are    *)
(* ready; with OnDelete only a deleted pod gets the new template.          *)
(***************************************************************************)
ObserveStatefulSet ==
  /\ ~sts.observed
  /\ sts' = [sts EXCEPT !.observed = TRUE]
  /\ UNCHANGED <<ac, arbSts, pods>>

ObserveArbiters ==
  /\ ~arbSts.observed
  /\ arbSts' = [arbSts EXCEPT !.observed = TRUE]
  /\ UNCHANGED <<ac, sts, pods>>

CreatePod(i) ==
  /\ sts.observed /\ i < sts.replicas /\ ~pods[i].up
  /\ \A j \in Ordinals : j < i => PodReady(j)
  /\ pods' = [pods EXCEPT ![i] = NewPod(sts.template)]
  /\ UNCHANGED <<ac, sts, arbSts>>

RemovePod(i) ==
  /\ sts.observed /\ i >= sts.replicas /\ pods[i].up
  /\ \A j \in Ordinals : IF j > i THEN ~pods[j].up ELSE j < sts.replicas => PodReady(j)
  /\ pods' = [pods EXCEPT ![i] = NoPod]
  /\ UNCHANGED <<ac, sts, arbSts>>

RollPod(i) ==
  /\ sts.observed /\ sts.strategy = "RollingUpdate"
  /\ i < sts.replicas /\ pods[i].template # sts.template
  /\ \A j \in Ordinals : IF j < sts.replicas THEN PodReady(j) ELSE ~pods[j].up
  /\ \A j \in Ordinals : i < j /\ j < sts.replicas => pods[j].template = sts.template
  /\ pods' = [pods EXCEPT ![i] = NoPod]
  /\ UNCHANGED <<ac, sts, arbSts>>

-----------------------------------------------------------------------------
(***************************************************************************)
(* The agent in pod i and the readiness probe beside it.  An agent whose   *)
(* process is not in the config has no plan and counts as being at the     *)
(* target version (readCurrentAgentInfo); one whose process is in the      *)
(* config reaches the goal only with the mongod version of its image and,  *)
(* for a TLS config, with the certificates mounted.                        *)
(***************************************************************************)
InGoalState(i) == pods[i].annotation = ac.version

CanReachGoal(i) ==
  i < ac.content.members =>
     /\ pods[i].template.version = ac.content.version
     /\ ac.content.tls => pods[i].template.tls

\* The agent reaches the goal state; the probe annotates the pod with the
\* version and reports it ready.
ReachGoalState(i) ==
  /\ pods[i].up /\ ac.version > 0 /\ CanReachGoal(i)
  /\ ~InGoalState(i) \/ pods[i].probe # "ready"
  /\ pods' = [pods EXCEPT ![i].annotation = ac.version, ![i].probe = "ready"]
  /\ UNCHANGED <<ac, sts, arbSts>>

\* A newer config makes the probe of a pod that was ready fail.
ProbeNotReady(i) ==
  /\ pods[i].up /\ pods[i].probe = "ready" /\ ~InGoalState(i)
  /\ pods' = [pods EXCEPT ![i].probe = "notReady"]
  /\ UNCHANGED <<ac, sts, arbSts>>

\* Mutant: waiting for others is never good enough.
ProbeNeverWaits(i) == FALSE /\ UNCHANGED clusterVars

\* The agent is on a wait step for 15 seconds: the probe reports ready.
ProbeWaitStep(i) ==
  /\ pods[i].up /\ pods[i].probe = "notReady"
  /\ ac.version > 0 /\ i < ac.content.members /\ ~InGoalState(i)
  /\ pods' = [pods EXCEPT ![i].probe = "waiting"]
  /\ UNCHANGED <<ac, sts, arbSts>>

\* The agents upgrade one process at a time: the agent of a pod with the
\* wrong mongod version stops it, and the version upgrade hook deletes the
\* pod, which the StatefulSet controller creates again from the template.
VersionHookDeletesPod(i) ==
  /\ pods[i].up /\ i < ac.content.members
  /\ pods[i].template.version # ac.content.version
  /\ \A j \in Ordinals : j < ac.content.members /\ j # i =>
        /\ pods[j].up
        /\ pods[j].template.version = ac.content.version => InGoalState(j)
  /\ pods' = [pods EXCEPT ![i] = NoPod]
  /\ UNCHANGED <<ac, sts, arbSts>>

-----------------------------------------------------------------------------
\* Steps that change the status of an owned StatefulSet.
StatefulSetEvent ==
  \/ ObserveStatefulSet
  \/ ObserveArbiters
  \/ \E i \in Ordinals :
       \/ CreatePod(i)
       \/ RemovePod(i)
       \/ RollPod(i)
       \/ ReachGoalState(i)
       \/ ProbeNotReady(i)
       \/ ProbeWaitStep(i)
       \/ VersionHookDeletesPod(i)
=============================================================================
