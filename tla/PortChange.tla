----------------------------- MODULE PortChange -----------------------------
(***************************************************************************)
(* Changing the port of a running replica set: the reconciler moves one    *)
(* process at a time through the automation config, and waits for the      *)
(* agents between two moves (ensureService, buildAutomationConfig,         *)
(* deployAutomationConfig, deployStatefulSet and the status update of      *)
(* replica_set_controller.go, with the ReplicaSetPortManager).             *)
(*                                                                         *)
(* The replica set is deployed and keeps its size.  The variables:         *)
(*   port      the port of the spec;                                       *)
(*   phase     the reported phase;                                         *)
(*   config    the automation config: its version and the port of each     *)
(*             process;                                                    *)
(*   service   the mongod ports that the Service exposes;                  *)
(*   pods      for each process: whether its pod exists, whether it is     *)
(*             Ready, the config version its agent has applied, the port   *)
(*             its mongod listens on (0 for none), and the version the     *)
(*             readiness probe wrote on the pod (0 for none);              *)
(*   pc, snap  the running reconciliation and the port it read;            *)
(*   states    the pod states it has read for the config: whether each     *)
(*             agent was in goal state, or that the pod is still unread;   *)
(*   fresh     the copy of the resource it read is still the newest;       *)
(*   queued    the work queue holds a request for the resource;            *)
(*   used      how much of each bound has been used.                       *)
(***************************************************************************)
EXTENDS ReplicaSetPortManager, FiniteSets

CONSTANTS
  Members, Arbiters,  \* how many of each the replica set has
  Ports,              \* the ports the user chooses from
  EditsInFlight,      \* may the user edit before the last edit is deployed?
  MaxEdits, MaxRestarts, MaxFaults

ASSUME PortsAssumption ==
  /\ Members \in Nat \ {0} /\ Arbiters \in Nat
  /\ Ports \subseteq Nat \ {0}
  /\ EditsInFlight \in BOOLEAN
  /\ {MaxEdits, MaxRestarts, MaxFaults} \subseteq Nat

VARIABLES port, phase, config, service, pods, pc, snap, states, fresh, queued, used

reconcileVars == <<phase, config, service, pc, snap, states>>

vars == <<port, reconcileVars, pods, fresh, queued, used>>

Processes == 1 .. Members + Arbiters

MemberProcesses == 1 .. Members

Unread == [p \in Processes |-> "unread"]

\* A replica set that was deployed with port p and is Running.
Init ==
  /\ port \in Ports
  /\ phase = "Running"
  /\ config = [version |-> 1, ports |-> [p \in Processes |-> port]]
  /\ service = {port}
  /\ pods = [p \in Processes |-> [up |-> TRUE, ready |-> TRUE, applied |-> 1,
                                  port |-> port, annotation |-> 1]]
  /\ pc = "idle" /\ snap = 0 /\ states = Unread /\ fresh = FALSE /\ queued = FALSE
  /\ used = [edits |-> 0, restarts |-> 0, faults |-> 0]

-----------------------------------------------------------------------------
(***************************************************************************)
(* The reconciliation.                                                     *)
(***************************************************************************)
InGoalState(p) == pods[p].up /\ pods[p].annotation = config.version

\* What GetAllDesiredMembersAndArbitersPodState would find now, arbiters
\* included.
Reached == [p \in Processes |-> InGoalState(p)]

Fault ==
  /\ used.faults < MaxFaults
  /\ used' = [used EXCEPT !.faults = @ + 1]

\* status.Update: a conflict, after an edit, is an error that requeues.
EndWithPhase(ph, requeue) ==
  /\ phase' = IF fresh THEN ph ELSE phase
  /\ queued' = (queued \/ requeue \/ ~fresh)
  /\ pc' = "idle" /\ snap' = 0 /\ states' = Unread /\ fresh' = FALSE

StartReconcile ==
  /\ pc = "idle" /\ queued
  /\ pc' = "service" /\ snap' = port /\ fresh' = TRUE /\ queued' = FALSE
  /\ UNCHANGED <<port, phase, config, service, pods, states, used>>

\* The ports of the Service do not depend on the pod states that are read for
\* them.  An error of its update is only logged.
EnsureService ==
  /\ pc = "service"
  /\ \/ /\ service' \in GetServicePorts(snap, Reached, config.ports)
        /\ UNCHANGED used
     \/ Fault /\ UNCHANGED service
  /\ pc' = "config"
  /\ UNCHANGED <<port, phase, config, pods, snap, states, fresh, queued>>

\* createProcessPortManager: the pods are read again, one after the other.
ReadPodState(p) ==
  /\ pc = "config"
  /\ states[p] = "unread" /\ \A q \in Processes : q < p => states[q] # "unread"
  /\ states' = [states EXCEPT ![p] = IF InGoalState(p) THEN "reached" ELSE "behind"]
  /\ UNCHANGED <<port, phase, config, service, pods, pc, snap, fresh, queued, used>>

ReachedWhenRead == [p \in Processes |-> states[p] = "reached"]

\* The config is built from the pod states as they were read, and written.
EnsureAutomationConfig ==
  /\ pc = "config"
  /\ \A p \in Processes : states[p] # "unread"
  /\ LET ports == CalculateExpectedPorts(snap, ReachedWhenRead, config.ports)
     IN  config' = IF ports = config.ports THEN config
                   ELSE [version |-> config.version + 1, ports |-> ports]
  /\ pc' = "agents" /\ states' = Unread
  /\ UNCHANGED <<port, phase, service, pods, snap, fresh, queued, used>>

\* AllReachedGoalState: the pods are read once more, those of the members
\* only; if none exists they are not waited for.
AwaitAgents ==
  /\ pc = "agents"
  /\ LET found == {p \in MemberProcesses : pods[p].up}
     IN  IF (\A p \in found : InGoalState(p)) /\ (found = {} \/ found = MemberProcesses)
         THEN pc' = "stsReady" /\ UNCHANGED <<phase, snap, states, fresh, queued>>
         ELSE EndWithPhase("Pending", TRUE)
  /\ UNCHANGED <<port, config, service, pods, used>>

\* The StatefulSets do not change; that of the members must be ready.
AwaitStatefulSet ==
  /\ pc = "stsReady"
  /\ IF \A p \in MemberProcesses : pods[p].up /\ pods[p].ready
     THEN pc' = "status" /\ UNCHANGED <<phase, snap, states, fresh, queued>>
     ELSE EndWithPhase("Pending", TRUE)
  /\ UNCHANGED <<port, config, service, pods, used>>

UpdateStatus ==
  /\ pc = "status"
  /\ EndWithPhase("Running", FALSE)
  /\ UNCHANGED <<port, config, service, pods, used>>

\* An error of any other call fails the reconciliation.
CallFails ==
  /\ pc \in {"service", "config", "agents", "stsReady"}
  /\ Fault
  /\ EndWithPhase("Failed", TRUE)
  /\ UNCHANGED <<port, config, service, pods>>

ReconcileStep ==
  \/ StartReconcile \/ EnsureService
  \/ \E p \in Processes : ReadPodState(p)
  \/ EnsureAutomationConfig
  \/ AwaitAgents \/ AwaitStatefulSet \/ UpdateStatus

-----------------------------------------------------------------------------
(***************************************************************************)
(* Everyone else.  The resource is enqueued when the spec changes and when *)
(* the status of a StatefulSet does, that is when a pod appears,           *)
(* disappears, or changes its readiness; an annotation alone is no event.  *)
(***************************************************************************)
PodStep(p, pod) ==
  /\ pods' = [pods EXCEPT ![p] = pod]
  /\ queued' = (queued \/ pod.up # pods[p].up \/ pod.ready # pods[p].ready)
  /\ UNCHANGED <<port, reconcileVars, fresh>>

\* The agent restarts mongod on the port of the config.
ApplyConfig(p) ==
  /\ pods[p].up /\ pods[p].applied # config.version
  /\ PodStep(p, [pods[p] EXCEPT !.applied = config.version, !.port = config.ports[p]])
  /\ UNCHANGED used

\* The probe writes the version on the pod; the agent is in goal state.
ProbeReady(p) ==
  /\ pods[p].up /\ pods[p].applied = config.version
  /\ ~InGoalState(p) \/ ~pods[p].ready
  /\ PodStep(p, [pods[p] EXCEPT !.annotation = config.version, !.ready = TRUE])
  /\ UNCHANGED used

\* The probe has failed often enough while the agent is behind.
ProbeNotReady(p) ==
  /\ pods[p].up /\ pods[p].ready /\ pods[p].applied # config.version
  /\ PodStep(p, [pods[p] EXCEPT !.ready = FALSE])
  /\ UNCHANGED used

\* The pod is evicted; the StatefulSet controller will replace it.
LosePod(p) ==
  /\ pods[p].up /\ used.restarts < MaxRestarts
  /\ used' = [used EXCEPT !.restarts = @ + 1]
  /\ PodStep(p, [up |-> FALSE, ready |-> FALSE, applied |-> 0, port |-> 0, annotation |-> 0])

RecreatePod(p) ==
  /\ ~pods[p].up
  /\ PodStep(p, [pods[p] EXCEPT !.up = TRUE])
  /\ UNCHANGED used

\* The port change is over.
Settled ==
  /\ pc = "idle" /\ ~queued /\ phase = "Running" /\ service = {port}
  /\ \A p \in Processes : config.ports[p] = port /\ InGoalState(p) /\ pods[p].ready

EditPort ==
  /\ used.edits < MaxEdits
  /\ EditsInFlight \/ Settled
  /\ port' \in Ports \ {port}
  /\ used' = [used EXCEPT !.edits = @ + 1]
  /\ queued' = TRUE /\ fresh' = FALSE
  /\ UNCHANGED <<reconcileVars, pods>>

\* The informers deliver every StatefulSet again, every ten hours by default.
Resync ==
  /\ pc = "idle" /\ ~queued
  /\ queued' = TRUE
  /\ UNCHANGED <<port, reconcileVars, pods, fresh, used>>

Next ==
  \/ ReconcileStep
  \/ CallFails
  \/ \E p \in Processes : \/ ApplyConfig(p) \/ ProbeReady(p) \/ ProbeNotReady(p)
                          \/ LosePod(p) \/ RecreatePod(p)
  \/ EditPort
  \/ Resync

Spec == Init /\ [][Next]_vars

(***************************************************************************)
(* The workers of the controller, the agents, the probes, the StatefulSet  *)
(* controller and the resync of the informers keep going.                  *)
(***************************************************************************)
Fairness ==
  /\ WF_vars(ReconcileStep)
  /\ WF_vars(Resync)
  /\ \A p \in Processes :
       WF_vars(ApplyConfig(p)) /\ WF_vars(ProbeReady(p)) /\ WF_vars(RecreatePod(p))

FairSpec == Spec /\ Fairness

-----------------------------------------------------------------------------
(***************************************************************************)
(* Properties.                                                             *)
(***************************************************************************)
\* Every variable holds a value of its kind; in particular every process of
\* the config has one of the ports of the spec, never an unset one.
TypeOK ==
  /\ port \in Ports /\ snap \in Ports \cup {0}
  /\ phase \in {"Pending", "Running", "Failed"}
  /\ config.version \in Nat \ {0} /\ config.ports \in [Processes -> Ports]
  /\ service \in SUBSET Ports
  /\ pods \in [Processes -> [up : BOOLEAN, ready : BOOLEAN, applied : 0 .. config.version,
                             port : Ports \cup {0}, annotation : 0 .. config.version]]
  /\ pc \in {"idle", "service", "config", "agents", "stsReady", "status"}
  /\ states \in [Processes -> {"unread", "reached", "behind"}]
  /\ fresh \in BOOLEAN /\ queued \in BOOLEAN
  /\ used \in [edits : 0 .. MaxEdits, restarts : 0 .. MaxRestarts, faults : 0 .. MaxFaults]

\* The agents cannot change the port of several processes at a time: however
\* the user edits and whichever pods are lost, at most one mongod listens on
\* a port other than the one the config gives it.
OnePortInFlight ==
  Cardinality({p \in Processes : pods[p].port \notin {0, config.ports[p]}}) <= 1

\* The Service exposes every port that the config gives to some process,
\* unless an update of it failed.
ServiceExposesConfigPorts ==
  used.faults = 0 => {config.ports[p] : p \in Processes} \subseteq service

\* The port change that was asked for last is carried out: every process and
\* the Service end up on the port of the spec, and Running is reported.
PortChangeCompletes ==
  <>[](/\ phase = "Running" /\ service = {port}
       /\ \A p \in Processes : config.ports[p] = port /\ pods[p].port = port)
=============================================================================
