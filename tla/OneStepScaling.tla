-------------------------- MODULE OneStepScaling ---------------------------
(***************************************************************************)
(* What the operator promises about the number of members, without saying  *)
(* how: "As of MongoDB 4.4 we can only scale members up / down 1 at a      *)
(* time" (pkg/util/scale/scale.go:12).                                     *)
(*                                                                         *)
(*   reported    the number of members in the status of the resource;      *)
(*   replicas    the replicas of the StatefulSet;                          *)
(*   configured  the members in the automation config.                     *)
(*                                                                         *)
(* There is no reconciliation here, no user and no fault: the StatefulSet  *)
(* and the config may be written at any time and in any order, but only    *)
(* one step away from the number that was reported, and a new number is    *)
(* only reported when both agree on it.  Nothing is reported yet while     *)
(* reported is 0: the first deployment is not limited.                     *)
(***************************************************************************)
EXTENDS Integers

CONSTANT MaxMembers

VARIABLES reported, replicas, configured

scalingVars == <<reported, replicas, configured>>

Init == reported = 0 /\ replicas = 0 /\ configured = 0

OneStep(n) == reported > 0 => n \in reported - 1 .. reported + 1

Resize ==
  /\ \E n \in 0 .. MaxMembers : OneStep(n) /\ replicas' = n
  /\ UNCHANGED <<reported, configured>>

Configure ==
  /\ \E n \in 0 .. MaxMembers : OneStep(n) /\ configured' = n
  /\ UNCHANGED <<reported, replicas>>

Report ==
  /\ replicas = configured
  /\ reported' = replicas
  /\ UNCHANGED <<replicas, configured>>

Next == Resize \/ Configure \/ Report

Spec == Init /\ [][Next]_scalingVars

\* Whatever is written, the StatefulSet and the config differ by at most two
\* members, and neither is further than one from the report.
NeverApart ==
  reported > 0 =>
    /\ replicas \in reported - 1 .. reported + 1
    /\ configured \in reported - 1 .. reported + 1
=============================================================================
