------------------------------- MODULE Scale -------------------------------
(***************************************************************************)
(* How far a replica set is scaled in one reconciliation                   *)
(* (pkg/util/scale/scale.go).                                              *)
(*                                                                         *)
(* A scaler stands for a value of the Go interface ReplicaSetScaler: the   *)
(* current and the desired number of replicas, and whether scaling from    *)
(* zero must also go one replica at a time (ForcedIndividualScaling).      *)
(***************************************************************************)
EXTENDS Integers

Scaler(current, desired, forced) ==
  [current |-> current, desired |-> desired, forced |-> forced]

IsScalingDown(s) == s.desired < s.current

IsScalingUp(s) == s.desired > s.current /\ s.current # 0

HasZeroReplicas(s) == s.current = 0

\* Mutant: straight to the desired number of replicas.
ReplicasAtOnce(s) == s.desired

\* Mutant: the early return for a count that is already right is missing.
ReplicasKeepMoving(s) ==
  IF ~s.forced /\ s.current = 0
  THEN s.desired
  ELSE IF IsScalingDown(s) THEN s.current - 1 ELSE s.current + 1

ReplicasThisReconciliation(s) ==
  IF s.current = s.desired \/ (~s.forced /\ s.current = 0)
  THEN s.desired
  ELSE IF IsScalingDown(s) THEN s.current - 1 ELSE s.current + 1

IsStillScaling(s) == ReplicasThisReconciliation(s) # s.desired
=============================================================================
