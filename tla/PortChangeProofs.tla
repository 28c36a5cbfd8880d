-------------------------- MODULE PortChangeProofs --------------------------
(***************************************************************************)
(* Proofs about the change of the port of a replica set, for any number of *)
(* members and arbiters, any ports, and any number of edits, lost pods and *)
(* failed calls.                                                           *)
(***************************************************************************)
EXTENDS PortChange, FiniteSetTheorems, TLAPS

\* A reconciliation works for a port of the spec.
SnapIsPort == pc # "idle" => snap \in Ports

\* What the readiness probe writes was applied by the agent, a mongod whose
\* agent has applied the config listens on the port that the config gives it,
\* and there is nothing left of a pod that was lost.
AppliedConfig ==
  \A p \in Processes :
    /\ pods[p].annotation <= pods[p].applied
    /\ pods[p].up /\ pods[p].applied = config.version => pods[p].port = config.ports[p]
    /\ ~pods[p].up => pods[p].applied = 0 /\ pods[p].annotation = 0 /\ pods[p].port = 0

InFlight(p) == pods[p].port \notin {0, config.ports[p]}

AloneInFlight == \A p, q \in Processes : InFlight(p) /\ InFlight(q) => p = q

\* An agent that was found in goal state is not behind now: the config has not
\* changed since, and what may have happened is that its pod was lost.
StatesHold == \A p \in Processes : states[p] = "reached" => ~InFlight(p)

PortInvariant == TypeOK /\ SnapIsPort /\ AppliedConfig /\ AloneInFlight /\ StatesHold

Pods == [up : BOOLEAN, ready : BOOLEAN, applied : 0 .. config.version,
         port : Ports \cup {0}, annotation : 0 .. config.version]

-----------------------------------------------------------------------------
(***************************************************************************)
(* The port manager.                                                       *)
(***************************************************************************)
\* Every process of the config has a port, so that none is defaulted.
LEMMA CurrentPortsAreConfigPorts ==
  ASSUME NEW e \in Ports, NEW reached \in [Processes -> BOOLEAN],
         NEW ports \in [Processes -> Ports]
  PROVE  CurrentPorts(e, reached, ports) = ports
BY PortsAssumption DEF CurrentPorts

\* From one map of ports to the next, no process but one gets another port.
MovesAtMostOne(e, before, after) ==
  \E k : \A p \in Processes : after[p] = IF p = k THEN e ELSE before[p]

\* calculateExpectedPorts moves at most one process, to the expected port, and
\* only when every pod is in goal state.
LEMMA MovesOneProcess ==
  ASSUME NEW e \in Ports, NEW reached \in [Processes -> BOOLEAN],
         NEW ports \in [Processes -> Ports]
  PROVE  /\ CalculateExpectedPorts(e, reached, ports) \in [Processes -> Ports]
         /\ MovesAtMostOne(e, ports, CalculateExpectedPorts(e, reached, ports))
         /\ CalculateExpectedPorts(e, reached, ports) # ports => \A p \in Processes : reached[p]
<1> DEFINE wrong == {p \in Processes : ports[p] # e}
<1>a. DOMAIN reached = Processes /\ CurrentPorts(e, reached, ports) = ports
  BY CurrentPortsAreConfigPorts
<1>1. PICK k : CalculateExpectedPorts(e, reached, ports) =
                 IF wrong # {} /\ \A p \in Processes : reached[p]
                 THEN [ports EXCEPT ![k] = e] ELSE ports
  BY <1>a, Zenon DEF CalculateExpectedPorts
<1>2. CASE wrong # {} /\ \A p \in Processes : reached[p]
  <2>1. CalculateExpectedPorts(e, reached, ports) = [ports EXCEPT ![k] = e]
    BY <1>1, <1>2
  <2>2. \A p \in Processes : [ports EXCEPT ![k] = e][p] = IF p = k THEN e ELSE ports[p]
    OBVIOUS
  <2> QED
    BY <1>2, <2>1, <2>2 DEF MovesAtMostOne
<1>3. CASE ~(wrong # {} /\ \A p \in Processes : reached[p])
  <2>1. CalculateExpectedPorts(e, reached, ports) = ports
    BY <1>1, <1>3
  <2>2. \E j : j \notin Processes
    <3>1. Members + Arbiters \in Nat
      BY PortsAssumption
    <3> QED
      BY <3>1 DEF Processes
  <2> QED
    BY <2>1, <2>2 DEF MovesAtMostOne
<1> QED
  BY <1>2, <1>3

\* The goal states of the pods are a function on the processes.
LEMMA ReachedIsFunction ==
  ASSUME TypeOK
  PROVE  Reached \in [Processes -> BOOLEAN] /\ ReachedWhenRead \in [Processes -> BOOLEAN]
BY DEF Reached, ReachedWhenRead, InGoalState, TypeOK

-----------------------------------------------------------------------------
(***************************************************************************)
(* Types.                                                                  *)
(***************************************************************************)
\* A pod that changes leaves the other pods as they were.
LEMMA PodStepTypes ==
  ASSUME TypeOK, NEW p \in Processes, NEW pod \in Pods, PodStep(p, pod),
         used' \in [edits : 0 .. MaxEdits, restarts : 0 .. MaxRestarts, faults : 0 .. MaxFaults]
  PROVE  TypeOK'
<1>1. pods' \in [Processes -> Pods]
  BY DEF PodStep, TypeOK, Pods
<1>2. queued' \in BOOLEAN
  BY DEF PodStep, TypeOK
<1> QED
  BY <1>1, <1>2 DEF PodStep, TypeOK, Pods, reconcileVars

\* The probe's verdict, its annotation and a pod that comes back.
LEMMA PodRecord ==
  ASSUME NEW pod \in Pods, NEW b \in BOOLEAN, NEW v \in 0 .. config.version,
         NEW n \in Ports
  PROVE  /\ [pod EXCEPT !.applied = v, !.port = n] \in Pods
         /\ [pod EXCEPT !.annotation = v, !.ready = b] \in Pods
         /\ [pod EXCEPT !.ready = b] \in Pods
         /\ [pod EXCEPT !.up = b] \in Pods
<1>1. [pod EXCEPT !.annotation = v, !.ready = b] \in Pods
  BY DEF Pods
<1>2. [pod EXCEPT !.ready = b] \in Pods
  BY DEF Pods
<1>3. [pod EXCEPT !.up = b] \in Pods
  BY DEF Pods
<1>4. [pod EXCEPT !.applied = v, !.port = n] \in Pods
  BY DEF Pods
<1> QED
  BY <1>1, <1>2, <1>3, <1>4

\* A new version of the config leaves the pods what they are.
LEMMA PodsOfNewVersion ==
  ASSUME NEW v \in Nat, NEW w \in Nat, v <= w, NEW n,
         NEW f \in [Processes -> [up : BOOLEAN, ready : BOOLEAN, applied : 0 .. v,
                                  port : n, annotation : 0 .. v]]
  PROVE  f \in [Processes -> [up : BOOLEAN, ready : BOOLEAN, applied : 0 .. w,
                              port : n, annotation : 0 .. w]]
BY DEF Processes

\* An edit, a lost pod and a failed call are counted.
LEMMA UsedTypes ==
  ASSUME NEW u \in [edits : 0 .. MaxEdits, restarts : 0 .. MaxRestarts, faults : 0 .. MaxFaults]
  PROVE  /\ u.edits < MaxEdits =>
              [u EXCEPT !.edits = @ + 1] \in
                 [edits : 0 .. MaxEdits, restarts : 0 .. MaxRestarts, faults : 0 .. MaxFaults]
         /\ u.restarts < MaxRestarts =>
              [u EXCEPT !.restarts = @ + 1] \in
                 [edits : 0 .. MaxEdits, restarts : 0 .. MaxRestarts, faults : 0 .. MaxFaults]
         /\ u.faults < MaxFaults =>
              [u EXCEPT !.faults = @ + 1] \in
                 [edits : 0 .. MaxEdits, restarts : 0 .. MaxRestarts, faults : 0 .. MaxFaults]
<1> USE PortsAssumption
<1>1. ASSUME u.edits < MaxEdits
      PROVE  [u EXCEPT !.edits = @ + 1] \in
                [edits : 0 .. MaxEdits, restarts : 0 .. MaxRestarts, faults : 0 .. MaxFaults]
  BY <1>1
<1>2. ASSUME u.restarts < MaxRestarts
      PROVE  [u EXCEPT !.restarts = @ + 1] \in
                [edits : 0 .. MaxEdits, restarts : 0 .. MaxRestarts, faults : 0 .. MaxFaults]
  BY <1>2
<1>3. ASSUME u.faults < MaxFaults
      PROVE  [u EXCEPT !.faults = @ + 1] \in
                [edits : 0 .. MaxEdits, restarts : 0 .. MaxRestarts, faults : 0 .. MaxFaults]
  BY <1>3
<1> QED
  BY <1>1, <1>2, <1>3

\* The end of a reconciliation, with a phase of the code.
LEMMA EndTypes ==
  ASSUME TypeOK, NEW ph \in {"Pending", "Running", "Failed"}, NEW b \in BOOLEAN,
         EndWithPhase(ph, b), UNCHANGED <<port, config, service, pods>>,
         used' \in [edits : 0 .. MaxEdits, restarts : 0 .. MaxRestarts, faults : 0 .. MaxFaults]
  PROVE  TypeOK' /\ SnapIsPort'
<1>1. phase' \in {"Pending", "Running", "Failed"}
  BY DEF EndWithPhase, TypeOK
<1>2. queued' \in BOOLEAN /\ fresh' \in BOOLEAN
  BY DEF EndWithPhase, TypeOK
<1>3. pc' = "idle" /\ snap' = 0 /\ states' \in [Processes -> {"unread", "reached", "behind"}]
  BY DEF EndWithPhase, Unread
<1> QED
  BY <1>1, <1>2, <1>3 DEF TypeOK, SnapIsPort

\* The replica set that is Running on one port.
LEMMA InitPorts == Init => PortInvariant
<1> SUFFICES ASSUME Init PROVE PortInvariant
  OBVIOUS
<1> USE PortsAssumption
<1>1. config.version = 1 /\ config.ports = [p \in Processes |-> port]
  BY DEF Init
<1>2. pods \in [Processes -> Pods]
  BY <1>1 DEF Init, Pods
<1>3. TypeOK
  <2>1. used \in [edits : 0 .. MaxEdits, restarts : 0 .. MaxRestarts, faults : 0 .. MaxFaults]
    BY DEF Init
  <2>2. fresh \in BOOLEAN /\ queued \in BOOLEAN
    BY DEF Init
  <2>3. /\ port \in Ports /\ snap \in Ports \cup {0}
        /\ phase \in {"Pending", "Running", "Failed"}
        /\ service \in SUBSET Ports
        /\ pc \in {"idle", "service", "config", "agents", "stsReady", "status"}
        /\ states \in [Processes -> {"unread", "reached", "behind"}]
    BY DEF Init, Unread
  <2> QED
    BY <1>1, <1>2, <2>1, <2>2, <2>3 DEF TypeOK, Pods
<1>4. SnapIsPort /\ AppliedConfig /\ AloneInFlight /\ StatesHold
  BY DEF Init, SnapIsPort, AppliedConfig, AloneInFlight, InFlight, StatesHold
<1> QED
  BY <1>3, <1>4 DEF PortInvariant

\* Every step keeps the types.
LEMMA TypesStep == TypeOK /\ SnapIsPort /\ [Next]_vars => TypeOK' /\ SnapIsPort'
<1> SUFFICES ASSUME TypeOK, SnapIsPort, [Next]_vars PROVE TypeOK' /\ SnapIsPort'
  OBVIOUS
<1> USE PortsAssumption
<1> DEFINE Counts == [edits : 0 .. MaxEdits, restarts : 0 .. MaxRestarts, faults : 0 .. MaxFaults]
<1>f. Fault => used' \in Counts
  BY UsedTypes DEF Fault, TypeOK
<1>u. used \in Counts
  BY DEF TypeOK
<1> HIDE DEF Counts
<1>1. CASE StartReconcile
  BY <1>1 DEF StartReconcile, TypeOK, SnapIsPort
<1>2. CASE EnsureService
  <2>1. service' \in SUBSET Ports
    <3>1. CASE Fault /\ UNCHANGED service
      BY <3>1 DEF TypeOK
    <3>2. CASE service' \in GetServicePorts(snap, Reached, config.ports)
      <4>1. snap \in Ports /\ Reached \in [Processes -> BOOLEAN] /\ config.ports \in [Processes -> Ports]
        BY <1>2, ReachedIsFunction DEF EnsureService, SnapIsPort, TypeOK
      <4>2. CurrentPorts(snap, Reached, config.ports) = config.ports
        BY <4>1, CurrentPortsAreConfigPorts
      <4>3. OldPorts(snap, Reached, config.ports) \subseteq Ports
        BY <4>1, <4>2 DEF OldPorts
      <4> QED
        BY <3>2, <4>1, <4>3 DEF GetServicePorts
    <3> QED
      BY <1>2, <3>1, <3>2 DEF EnsureService
  <2>2. used' \in Counts
    BY <1>2, <1>f, <1>u DEF EnsureService
  <2> QED
    BY <1>2, <2>1, <2>2 DEF EnsureService, TypeOK, SnapIsPort, Counts
<1>3. CASE EnsureAutomationConfig
  <2> DEFINE ports == CalculateExpectedPorts(snap, ReachedWhenRead, config.ports)
  <2>1. ports \in [Processes -> Ports]
    BY <1>3, ReachedIsFunction, MovesOneProcess DEF EnsureAutomationConfig, SnapIsPort, TypeOK
  <2> HIDE DEF ports
  <2>2. \/ config' = config
        \/ config'.version = config.version + 1 /\ config'.ports = ports
    BY <1>3 DEF EnsureAutomationConfig, ports
  <2>3. config'.version \in Nat \ {0} /\ config.version <= config'.version
    BY <2>2 DEF TypeOK
  <2>4. pods' \in [Processes -> Pods']
    BY <1>3, <2>3, PodsOfNewVersion DEF EnsureAutomationConfig, TypeOK, Pods
  <2>5. states' \in [Processes -> {"unread", "reached", "behind"}]
    BY <1>3 DEF EnsureAutomationConfig, Unread
  <2> QED
    BY <1>3, <2>1, <2>2, <2>3, <2>4, <2>5 DEF EnsureAutomationConfig, TypeOK, SnapIsPort, Pods
<1>r. ASSUME NEW p \in Processes, ReadPodState(p) PROVE TypeOK' /\ SnapIsPort'
  BY <1>r DEF ReadPodState, TypeOK, SnapIsPort
<1>4. CASE AwaitAgents
  <2>1. CASE EndWithPhase("Pending", TRUE)
    BY <1>4, <1>u, <2>1, EndTypes DEF AwaitAgents, Counts
  <2>2. CASE pc' = "stsReady" /\ UNCHANGED <<phase, snap, states, fresh, queued>>
    BY <1>4, <2>2 DEF AwaitAgents, TypeOK, SnapIsPort
  <2> QED
    BY <1>4, <2>1, <2>2 DEF AwaitAgents
<1>5. CASE AwaitStatefulSet
  <2>1. CASE EndWithPhase("Pending", TRUE)
    BY <1>5, <1>u, <2>1, EndTypes DEF AwaitStatefulSet, Counts
  <2>2. CASE pc' = "status" /\ UNCHANGED <<phase, snap, states, fresh, queued>>
    BY <1>5, <2>2 DEF AwaitStatefulSet, TypeOK, SnapIsPort
  <2> QED
    BY <1>5, <2>1, <2>2 DEF AwaitStatefulSet
<1>6. CASE UpdateStatus
  BY <1>6, <1>u, EndTypes DEF UpdateStatus, Counts
<1>7. CASE CallFails
  BY <1>7, <1>f, EndTypes DEF CallFails, Counts
<1>8. ASSUME NEW p \in Processes,
             ApplyConfig(p) \/ ProbeReady(p) \/ ProbeNotReady(p) \/ LosePod(p) \/ RecreatePod(p)
      PROVE  TypeOK' /\ SnapIsPort'
  <2>0. pods[p] \in Pods /\ config.version \in 0 .. config.version /\ config.ports[p] \in Ports
    BY DEF TypeOK, Pods
  <2>1. CASE ApplyConfig(p)
    <3>1. [pods[p] EXCEPT !.applied = config.version, !.port = config.ports[p]] \in Pods
      BY <2>0, PodRecord
    <3> QED
      BY <1>u, <2>1, <3>1, PodStepTypes DEF ApplyConfig, Counts, PodStep, reconcileVars, SnapIsPort
  <2>2. CASE ProbeReady(p)
    <3>1. [pods[p] EXCEPT !.annotation = config.version, !.ready = TRUE] \in Pods
      BY <2>0, PodRecord
    <3> QED
      BY <1>u, <2>2, <3>1, PodStepTypes DEF ProbeReady, Counts, PodStep, reconcileVars, SnapIsPort
  <2>3. CASE ProbeNotReady(p)
    <3>1. [pods[p] EXCEPT !.ready = FALSE] \in Pods
      BY <2>0, PodRecord
    <3> QED
      BY <1>u, <2>3, <3>1, PodStepTypes DEF ProbeNotReady, Counts, PodStep, reconcileVars, SnapIsPort
  <2>4. CASE LosePod(p)
    <3>1. [up |-> FALSE, ready |-> FALSE, applied |-> 0, port |-> 0, annotation |-> 0] \in Pods
      BY <2>0 DEF Pods
    <3>2. used' \in Counts
      BY <1>u, <2>4, UsedTypes DEF LosePod, Counts
    <3> QED
      BY <2>4, <3>1, <3>2, PodStepTypes DEF LosePod, Counts, PodStep, reconcileVars, SnapIsPort
  <2>5. CASE RecreatePod(p)
    <3>1. [pods[p] EXCEPT !.up = TRUE] \in Pods
      BY <2>0, PodRecord
    <3> QED
      BY <1>u, <2>5, <3>1, PodStepTypes DEF RecreatePod, Counts, PodStep, reconcileVars, SnapIsPort
  <2> QED
    BY <1>8, <2>1, <2>2, <2>3, <2>4, <2>5
<1>9. CASE EditPort
  <2>1. used' \in Counts
    BY <1>u, <1>9, UsedTypes DEF EditPort, Counts
  <2> QED
    BY <1>9, <2>1 DEF EditPort, TypeOK, SnapIsPort, reconcileVars, Counts
<1>10. CASE Resync
  BY <1>10 DEF Resync, TypeOK, SnapIsPort, reconcileVars
<1>11. CASE UNCHANGED vars
  BY <1>11 DEF vars, reconcileVars, TypeOK, SnapIsPort
<1> QED
  BY <1>1, <1>2, <1>3, <1>r, <1>4, <1>5, <1>6, <1>7, <1>8, <1>9, <1>10, <1>11 DEF Next, ReconcileStep

\* In every reachable state every variable holds a value of its kind: each
\* process of the config and each mongod has a port of the spec, and the
\* Service exposes such ports only.
THEOREM PortTypeCorrect == Spec => []TypeOK
<1>1. Init => TypeOK /\ SnapIsPort
  BY InitPorts DEF PortInvariant
<1> QED
  BY <1>1, TypesStep, PTL DEF Spec

-----------------------------------------------------------------------------
(***************************************************************************)
(* One port in flight.  The port manager reads the annotations of the pods *)
(* and not the ports of the processes: what it needs is that a pod with    *)
(* the version of the config has its mongod on the port of the config.     *)
(***************************************************************************)
\* A process in goal state listens where the config says.
LEMMA ReachedHasPort ==
  ASSUME TypeOK, AppliedConfig, NEW p \in Processes, InGoalState(p)
  PROVE  ~InFlight(p)
<1>1. /\ pods[p].annotation \in 0 .. config.version /\ pods[p].applied \in 0 .. config.version
      /\ config.version \in Nat
  BY DEF TypeOK
<1>2. pods[p].applied = config.version
  BY <1>1 DEF AppliedConfig, InGoalState
<1> QED
  BY <1>2 DEF AppliedConfig, InGoalState, InFlight

\* A step of one pod, when what it does to that pod is right.
LEMMA PodStepInFlight ==
  ASSUME TypeOK, AppliedConfig, AloneInFlight, StatesHold,
         NEW p \in Processes, NEW pod, PodStep(p, pod),
         pod.annotation <= pod.applied,
         pod.up /\ pod.applied = config.version => pod.port = config.ports[p],
         ~pod.up => pod.applied = 0 /\ pod.annotation = 0 /\ pod.port = 0,
         pod.port \in {0, config.ports[p], pods[p].port}
  PROVE  AppliedConfig' /\ AloneInFlight' /\ StatesHold'
<1>1. config' = config /\ states' = states
  BY DEF PodStep, reconcileVars
<1>2. \A q \in Processes : pods'[q] = IF q = p THEN pod ELSE pods[q]
  BY DEF PodStep, TypeOK
<1>3. AppliedConfig'
  BY <1>1, <1>2 DEF AppliedConfig
<1>4. \A q \in Processes : InFlight(q)' => InFlight(q)
  BY <1>1, <1>2 DEF InFlight
<1> QED
  BY <1>1, <1>3, <1>4 DEF AloneInFlight, StatesHold

\* The steps of the reconciler, of the pods and of the user.
LEMMA InFlightStep ==
  ASSUME TypeOK, SnapIsPort, AppliedConfig, AloneInFlight, StatesHold, [Next]_vars
  PROVE  AppliedConfig' /\ AloneInFlight' /\ StatesHold'
<1> USE PortsAssumption
<1>1. CASE UNCHANGED <<config, pods>> /\ states' \in {states, Unread}
  BY <1>1 DEF AppliedConfig, AloneInFlight, InFlight, StatesHold, Unread
<1>2. CASE EnsureAutomationConfig
  <2> DEFINE ports == CalculateExpectedPorts(snap, ReachedWhenRead, config.ports)
  <2>1. snap \in Ports /\ ReachedWhenRead \in [Processes -> BOOLEAN] /\ config.ports \in [Processes -> Ports]
    BY <1>2, ReachedIsFunction DEF EnsureAutomationConfig, SnapIsPort, TypeOK
  <2>2. pods' = pods
    BY <1>2 DEF EnsureAutomationConfig
  <2>3. CASE ports = config.ports
    BY <1>2, <2>3, <1>1 DEF EnsureAutomationConfig
  <2>4. CASE ports # config.ports
    <3>1. \A p \in Processes : ReachedWhenRead[p]
      BY <2>1, <2>4, MovesOneProcess
    <3>2. \A p \in Processes : ~InFlight(p)
      BY <3>1 DEF ReachedWhenRead, StatesHold
    <3>3. PICK k : \A p \in Processes : ports[p] = IF p = k THEN snap ELSE config.ports[p]
      <4>1. MovesAtMostOne(snap, config.ports, ports)
        BY <2>1, MovesOneProcess
      <4> QED
        BY <4>1 DEF MovesAtMostOne
    <3> HIDE DEF ports
    <3>4. config'.version = config.version + 1 /\ config'.ports = ports
      BY <1>2, <2>4 DEF EnsureAutomationConfig, ports
    <3>5. \A p \in Processes : InFlight(p)' => p = k
      BY <2>2, <3>2, <3>3, <3>4 DEF InFlight
    <3>6. \A p \in Processes : pods[p].applied # config'.version
      BY <3>4 DEF TypeOK
    <3>7. AppliedConfig'
      BY <2>2, <3>6 DEF AppliedConfig
    <3>8. StatesHold'
      BY <1>2 DEF EnsureAutomationConfig, StatesHold, Unread
    <3> QED
      BY <3>5, <3>7, <3>8 DEF AloneInFlight
  <2> QED
    BY <2>3, <2>4
<1>r. ASSUME NEW p \in Processes, ReadPodState(p)
      PROVE  AppliedConfig' /\ AloneInFlight' /\ StatesHold'
  <2>1. UNCHANGED <<config, pods>>
    BY <1>r DEF ReadPodState
  <2>2. \A q \in Processes : states'[q] = "reached" => states[q] = "reached" \/ InGoalState(q)
    BY <1>r DEF ReadPodState, TypeOK
  <2>3. StatesHold'
    BY <2>1, <2>2, ReachedHasPort DEF StatesHold, InFlight
  <2> QED
    BY <2>1, <2>3 DEF AppliedConfig, AloneInFlight, InFlight
<1>3. ASSUME NEW p \in Processes,
             ApplyConfig(p) \/ ProbeReady(p) \/ ProbeNotReady(p) \/ LosePod(p) \/ RecreatePod(p)
      PROVE  AppliedConfig' /\ AloneInFlight' /\ StatesHold'
  <2>0. pods[p] \in Pods /\ config.version \in Nat \ {0}
    BY DEF TypeOK, Pods
  <2>a. /\ pods[p].annotation <= pods[p].applied
        /\ pods[p].up /\ pods[p].applied = config.version => pods[p].port = config.ports[p]
        /\ ~pods[p].up => pods[p].applied = 0 /\ pods[p].annotation = 0 /\ pods[p].port = 0
    BY DEF AppliedConfig
  <2>1. CASE ApplyConfig(p)
    <3> DEFINE pod == [pods[p] EXCEPT !.applied = config.version, !.port = config.ports[p]]
    <3>1. /\ pod.up = pods[p].up /\ pod.applied = config.version /\ pod.port = config.ports[p]
          /\ pod.annotation = pods[p].annotation
      BY <2>0 DEF Pods
    <3>2. pod.annotation <= config.version /\ pods[p].up
      BY <2>0, <2>1, <3>1 DEF ApplyConfig, Pods
    <3>3. PodStep(p, pod)
      BY <2>1 DEF ApplyConfig
    <3> HIDE DEF pod
    <3> QED
      BY <3>1, <3>2, <3>3, PodStepInFlight
  <2>2. CASE ProbeReady(p)
    <3> DEFINE pod == [pods[p] EXCEPT !.annotation = config.version, !.ready = TRUE]
    <3>1. /\ pod.up = pods[p].up /\ pod.applied = pods[p].applied /\ pod.port = pods[p].port
          /\ pod.annotation = config.version
      BY <2>0 DEF Pods
    <3>2. pods[p].up /\ pods[p].applied = config.version
      BY <2>2 DEF ProbeReady
    <3>3. PodStep(p, pod)
      BY <2>2 DEF ProbeReady
    <3> HIDE DEF pod
    <3>4. pod.annotation <= pod.applied
      BY <2>0, <3>1, <3>2
    <3>5. pod.up /\ pod.port = config.ports[p]
      BY <2>a, <3>1, <3>2
    <3> QED
      BY <3>3, <3>4, <3>5, PodStepInFlight
  <2>3. CASE ProbeNotReady(p)
    <3> DEFINE pod == [pods[p] EXCEPT !.ready = FALSE]
    <3>1. /\ pod.applied = pods[p].applied /\ pod.port = pods[p].port
          /\ pod.annotation = pods[p].annotation
          /\ pod.up = pods[p].up
      BY <2>0, Zenon DEF Pods
    <3>2. PodStep(p, pod)
      BY <2>3 DEF ProbeNotReady
    <3> HIDE DEF pod
    <3> QED
      BY <2>a, <3>1, <3>2, PodStepInFlight
  <2>4. CASE LosePod(p)
    <3> DEFINE pod == [up |-> FALSE, ready |-> FALSE, applied |-> 0, port |-> 0, annotation |-> 0]
    <3>1. ~pod.up /\ pod.applied = 0 /\ pod.port = 0 /\ pod.annotation = 0
      OBVIOUS
    <3>2. PodStep(p, pod)
      BY <2>4 DEF LosePod
    <3> HIDE DEF pod
    <3> QED
      BY <3>1, <3>2, PodStepInFlight
  <2>5. CASE RecreatePod(p)
    <3> DEFINE pod == [pods[p] EXCEPT !.up = TRUE]
    <3>1. /\ pod.applied = pods[p].applied /\ pod.port = pods[p].port
          /\ pod.annotation = pods[p].annotation /\ pod.up
      BY <2>0 DEF Pods
    <3>2. pods[p].applied = 0 /\ pods[p].port = 0 /\ pods[p].annotation = 0
      BY <2>5, <2>a DEF RecreatePod
    <3>3. PodStep(p, pod)
      BY <2>5 DEF RecreatePod
    <3> HIDE DEF pod
    <3> QED
      BY <2>0, <3>1, <3>2, <3>3, PodStepInFlight
  <2> QED
    BY <1>3, <2>1, <2>2, <2>3, <2>4, <2>5
<1>4. CASE ReconcileStep
  BY <1>1, <1>2, <1>r, <1>4
     DEF ReconcileStep, StartReconcile, EnsureService, AwaitAgents, AwaitStatefulSet, UpdateStatus,
         EndWithPhase
<1> QED
  BY <1>1, <1>2, <1>3, <1>4
     DEF Next, CallFails, EditPort, Resync, vars, reconcileVars, EndWithPhase

\* A set in which any two elements are equal has one element at most.
LEMMA AtMostOne ==
  ASSUME NEW S, \A p, q \in S : p = q
  PROVE  Cardinality(S) <= 1
<1>1. CASE S = {}
  BY <1>1, FS_EmptySet
<1>2. CASE S # {}
  <2>1. PICK p \in S : TRUE
    BY <1>2
  <2>2. S = {p}
    BY <2>1
  <2> QED
    <3>1. Cardinality({p}) = 1
      BY FS_Singleton
    <3> QED
      BY <2>2, <3>1
<1> QED
  BY <1>1, <1>2

\* The agents are never asked to change the port of a second process while one
\* is still on its way, whatever the user edits, whichever pods are lost and
\* wherever calls fail.
THEOREM OnePortInFlightTheorem == Spec => []OnePortInFlight
<1>1. Init => PortInvariant
  BY InitPorts
<1>2. PortInvariant /\ [Next]_vars => PortInvariant'
  BY TypesStep, InFlightStep DEF PortInvariant
<1>3. PortInvariant => OnePortInFlight
  BY AtMostOne DEF PortInvariant, AloneInFlight, InFlight, OnePortInFlight
<1> QED
  BY <1>1, <1>2, <1>3, PTL DEF Spec

-----------------------------------------------------------------------------
(***************************************************************************)
(* The ports of the Service.  GetServicePorts exposes the expected port    *)
(* and one other: all the ports of the config, when there are at most two. *)
(* That is so when the user chooses from two ports, or waits for a change  *)
(* to be deployed before making the next.                                  *)
(***************************************************************************)
TwoPorts == \A a, b, c \in Ports : a = b \/ b = c \/ a = c

\* The port that a process is about to be moved to is exposed.
NewPortExposed == used.faults = 0 /\ pc = "config" => snap \in service

\* Without edits in flight, a reconciliation has read the port of the spec and
\* the processes that are not on it are on the same one.
OneOldPort ==
  /\ pc # "idle" => snap = port
  /\ \A p, q \in Processes :
       config.ports[p] # port /\ config.ports[q] # port => config.ports[p] = config.ports[q]

ServiceInvariant ==
  /\ NewPortExposed
  /\ ServiceExposesConfigPorts
  /\ ~EditsInFlight => OneOldPort

\* One old port stays one old port, for a user who waits.
LEMMA OneOldPortStep ==
  ASSUME ~EditsInFlight, TypeOK, SnapIsPort, OneOldPort, [Next]_vars
  PROVE  OneOldPort'
<1>1. CASE EditPort
  <2>1. pc = "idle" /\ \A p \in Processes : config.ports[p] = port
    BY <1>1 DEF EditPort, Settled
  <2>2. pc' = pc /\ config' = config
    BY <1>1 DEF EditPort, reconcileVars
  <2> QED
    BY <2>1, <2>2 DEF OneOldPort
<1>2. CASE EnsureAutomationConfig
  <2> DEFINE ports == CalculateExpectedPorts(snap, ReachedWhenRead, config.ports)
  <2>1. snap \in Ports /\ ReachedWhenRead \in [Processes -> BOOLEAN] /\ config.ports \in [Processes -> Ports]
    BY <1>2, ReachedIsFunction DEF EnsureAutomationConfig, SnapIsPort, TypeOK
  <2>2. PICK k : \A p \in Processes : ports[p] = IF p = k THEN snap ELSE config.ports[p]
    BY <2>1, MovesOneProcess DEF MovesAtMostOne
  <2> HIDE DEF ports
  <2>3. config'.ports = ports \/ config'.ports = config.ports
    BY <1>2 DEF EnsureAutomationConfig, ports
  <2>4. snap = port /\ snap' = snap /\ port' = port
    BY <1>2 DEF EnsureAutomationConfig, OneOldPort
  <2> QED
    BY <2>2, <2>3, <2>4 DEF OneOldPort
<1>3. CASE StartReconcile
  BY <1>3 DEF StartReconcile, OneOldPort
<1>4. CASE EnsureService \/ \E p \in Processes : ReadPodState(p)
  BY <1>4 DEF EnsureService, ReadPodState, OneOldPort
<1>5. CASE AwaitAgents \/ AwaitStatefulSet \/ UpdateStatus \/ CallFails
  BY <1>5 DEF AwaitAgents, AwaitStatefulSet, UpdateStatus, CallFails, EndWithPhase, OneOldPort
<1>6. ASSUME NEW p \in Processes, NEW pod, PodStep(p, pod) PROVE OneOldPort'
  BY <1>6 DEF PodStep, reconcileVars, OneOldPort
<1>7. CASE Resync \/ UNCHANGED vars
  BY <1>7 DEF Resync, vars, reconcileVars, OneOldPort
<1> QED
  BY <1>1, <1>2, <1>3, <1>4, <1>5, <1>6, <1>7
     DEF Next, ReconcileStep, ApplyConfig, ProbeReady, ProbeNotReady, LosePod, RecreatePod

\* A reconciliation finds at most one port that it does not work for.
LEMMA OneOtherPort ==
  ASSUME TwoPorts \/ ~EditsInFlight, TypeOK, SnapIsPort, pc # "idle",
         ~EditsInFlight => OneOldPort,
         NEW p \in Processes, NEW q \in Processes,
         config.ports[p] # snap, config.ports[q] # snap
  PROVE  config.ports[p] = config.ports[q]
<1>1. CASE TwoPorts
  BY <1>1 DEF TwoPorts, TypeOK, SnapIsPort
<1>2. CASE ~EditsInFlight
  BY <1>2 DEF OneOldPort
<1> QED
  BY <1>1, <1>2

\* A call that fails is counted for good, so that the faults of the next state
\* bound those of this one.
LEMMA FaultsCounted ==
  ASSUME TypeOK, [Next]_vars, used'.faults = 0
  PROVE  used.faults = 0 /\ ~Fault
<1>1. used.faults \in Nat /\ used \in [edits : 0 .. MaxEdits, restarts : 0 .. MaxRestarts, faults : 0 .. MaxFaults]
  BY PortsAssumption DEF TypeOK
<1>2. Fault => used'.faults = used.faults + 1
  BY <1>1 DEF Fault
<1>3. Fault \/ used'.faults = used.faults
  <2>1. CASE EditPort
    BY <1>1, <2>1 DEF EditPort
  <2>2. ASSUME NEW p \in Processes, LosePod(p) PROVE used'.faults = used.faults
    BY <1>1, <2>2 DEF LosePod
  <2>3. CASE UNCHANGED used
    BY <2>3
  <2> QED
    BY <2>1, <2>2, <2>3
       DEF Next, ReconcileStep, StartReconcile, EnsureService, ReadPodState, EnsureAutomationConfig, AwaitAgents,
           AwaitStatefulSet, UpdateStatus, CallFails, ApplyConfig, ProbeReady, ProbeNotReady,
           RecreatePod, Resync, vars
<1> QED
  BY <1>1, <1>2, <1>3

\* Every step keeps the ports of the config exposed.
LEMMA ServiceStep ==
  ASSUME TwoPorts \/ ~EditsInFlight, TypeOK, SnapIsPort, ServiceInvariant, [Next]_vars
  PROVE  ServiceInvariant'
<1>1. (~EditsInFlight => OneOldPort)'
  BY OneOldPortStep DEF ServiceInvariant
<1> SUFFICES ASSUME used'.faults = 0
             PROVE  /\ pc' = "config" => snap' \in service'
                    /\ \A p \in Processes : config'.ports[p] \in service'
  BY <1>1 DEF ServiceInvariant, NewPortExposed, ServiceExposesConfigPorts
<1>2. used.faults = 0 /\ ~Fault
  BY FaultsCounted
<1>3. \A p \in Processes : config.ports[p] \in service
  BY <1>2 DEF ServiceInvariant, ServiceExposesConfigPorts
<1>4. CASE EnsureService
  <2>0. /\ snap \in Ports /\ Reached \in [Processes -> BOOLEAN] /\ config.ports \in [Processes -> Ports]
        /\ pc # "idle"
    BY <1>4, ReachedIsFunction DEF EnsureService, SnapIsPort, TypeOK
  <2>1. service' \in GetServicePorts(snap, Reached, config.ports) /\ snap' = snap /\ config' = config
    BY <1>2, <1>4 DEF EnsureService
  <2>2. OldPorts(snap, Reached, config.ports) = {config.ports[p] : p \in Processes} \ {snap}
    BY <2>0, CurrentPortsAreConfigPorts DEF OldPorts
  <2>3. CASE OldPorts(snap, Reached, config.ports) = {}
    BY <2>1, <2>2, <2>3 DEF GetServicePorts
  <2>4. CASE OldPorts(snap, Reached, config.ports) # {}
    <3>1. PICK old \in OldPorts(snap, Reached, config.ports) : service' = {snap, old}
      BY <2>1, <2>4 DEF GetServicePorts
    <3>2. PICK q \in Processes : config.ports[q] = old /\ old # snap
      BY <2>2, <3>1
    <3>3. \A p \in Processes : config.ports[p] \in {snap, old}
      BY <2>0, <3>2, OneOtherPort DEF ServiceInvariant
    <3> QED
      BY <2>1, <3>1, <3>3
  <2> QED
    BY <2>3, <2>4
<1>5. CASE EnsureAutomationConfig
  <2> DEFINE ports == CalculateExpectedPorts(snap, ReachedWhenRead, config.ports)
  <2>1. snap \in Ports /\ ReachedWhenRead \in [Processes -> BOOLEAN] /\ config.ports \in [Processes -> Ports]
    BY <1>5, ReachedIsFunction DEF EnsureAutomationConfig, SnapIsPort, TypeOK
  <2>2. PICK k : \A p \in Processes : ports[p] = IF p = k THEN snap ELSE config.ports[p]
    BY <2>1, MovesOneProcess DEF MovesAtMostOne
  <2> HIDE DEF ports
  <2>3. config'.ports = ports \/ config'.ports = config.ports
    BY <1>5 DEF EnsureAutomationConfig, ports
  <2>4. snap \in service /\ service' = service /\ pc' = "agents"
    BY <1>2, <1>5 DEF EnsureAutomationConfig, ServiceInvariant, NewPortExposed
  <2> QED
    BY <1>3, <2>2, <2>3, <2>4
<1>6. CASE StartReconcile
  BY <1>3, <1>6 DEF StartReconcile
<1>7. CASE AwaitAgents \/ AwaitStatefulSet \/ UpdateStatus \/ CallFails
  BY <1>3, <1>7 DEF AwaitAgents, AwaitStatefulSet, UpdateStatus, CallFails, EndWithPhase
<1>8. CASE UNCHANGED <<pc, snap, config, service>>
  BY <1>2, <1>3, <1>8 DEF ServiceInvariant, NewPortExposed
<1> QED
  BY <1>4, <1>5, <1>6, <1>7, <1>8
     DEF Next, ReconcileStep, ReadPodState, ApplyConfig, ProbeReady, ProbeNotReady, LosePod, RecreatePod,
         PodStep, EditPort, Resync, vars, reconcileVars

\* As long as no call has failed, the Service exposes every port that the config
\* gives to a process, at every moment of a port change: clients that use the
\* Service reach the moved processes and those still to be moved.
THEOREM ServiceExposesTheorem ==
  ASSUME TwoPorts \/ ~EditsInFlight
  PROVE  Spec => []ServiceExposesConfigPorts
<1>1. Init => TypeOK /\ SnapIsPort /\ ServiceInvariant
  <2> SUFFICES ASSUME Init PROVE ServiceInvariant
    BY InitPorts DEF PortInvariant
  <2>1. config.ports = [p \in Processes |-> port] /\ pc = "idle" /\ service = {port}
    BY DEF Init
  <2> QED
    BY <2>1 DEF ServiceInvariant, NewPortExposed, ServiceExposesConfigPorts, OneOldPort
<1>2. TypeOK /\ SnapIsPort /\ ServiceInvariant /\ [Next]_vars
        => TypeOK' /\ SnapIsPort' /\ ServiceInvariant'
  BY TypesStep, ServiceStep
<1>3. ServiceInvariant => ServiceExposesConfigPorts
  BY DEF ServiceInvariant
<1> QED
  BY <1>1, <1>2, <1>3, PTL DEF Spec
=============================================================================
