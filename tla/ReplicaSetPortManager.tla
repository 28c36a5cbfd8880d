----------------------- MODULE ReplicaSetPortManager -----------------------
(***************************************************************************)
(* Which port each mongod process and the Service get in a reconciliation  *)
(* (pkg/agent/replica_set_port_manager.go).                                *)
(*                                                                         *)
(* Processes are numbered in the order of their pod states: the members,   *)
(* then the arbiters.  The arguments are the fields of the Go struct:      *)
(*   expected   the port the spec asks for;                                *)
(*   reached    for each desired pod, whether it exists with its agent in  *)
(*              goal state;                                                *)
(*   processes  the port of each process of the current config, a function *)
(*              on the processes that are in it; 0 is an unset port.       *)
(***************************************************************************)
EXTENDS Integers

\* Mutant: a process without a pod in goal state has no entry in the map.
PortsOfReachedPods(expected, reached, processes) ==
  [p \in DOMAIN reached |->
     IF ~reached[p] THEN 0
     ELSE IF p \notin DOMAIN processes THEN expected ELSE processes[p]]

CurrentPorts(expected, reached, processes) ==
  [p \in DOMAIN reached |->
     IF p \notin DOMAIN processes \/ processes[p] = 0 THEN expected ELSE processes[p]]

\* The ports that differ from the expected one; oldPort is one of them, the
\* first in the iteration order of a Go map.
OldPorts(expected, reached, processes) ==
  {CurrentPorts(expected, reached, processes)[p] : p \in DOMAIN reached} \ {expected}

\* Mutant: does not look at the goal states.
PortsWithoutWaiting(expected, reached, processes) ==
  LET current == CurrentPorts(expected, reached, processes)
      wrong   == {p \in DOMAIN reached : current[p] # expected}
  IN  IF wrong # {}
      THEN [current EXCEPT ![CHOOSE p \in wrong : \A q \in wrong : p <= q] = expected]
      ELSE current

\* Mutant: the first process is the one that changes, whatever its port.
FirstPortOnly(expected, reached, processes) ==
  LET current == CurrentPorts(expected, reached, processes)
  IN  IF \A p \in DOMAIN reached : reached[p]
      THEN [current EXCEPT ![1] = expected]
      ELSE current

\* calculateExpectedPorts: with every agent in goal state, the first process
\* that has another port gets the expected one.
CalculateExpectedPorts(expected, reached, processes) ==
  LET current == CurrentPorts(expected, reached, processes)
      wrong   == {p \in DOMAIN reached : current[p] # expected}
  IN  IF wrong # {} /\ \A p \in DOMAIN reached : reached[p]
      THEN [current EXCEPT ![CHOOSE p \in wrong : \A q \in wrong : p <= q] = expected]
      ELSE current

\* Mutant: only the new port.
NewServicePort(expected, reached, processes) == {{expected}}

\* The sets of ports the Service may get.
GetServicePorts(expected, reached, processes) ==
  IF OldPorts(expected, reached, processes) = {}
  THEN {{expected}}
  ELSE {{expected, old} : old \in OldPorts(expected, reached, processes)}
=============================================================================
