----------------------- MODULE MCReplicaSetController -----------------------
(***************************************************************************)
(* The instances of ReplicaSetController that TLC checks: the specs the    *)
(* user may apply are all the combinations of the given field values.      *)
(***************************************************************************)
EXTENDS ReplicaSetController

CONSTANTS MemberCounts, ArbiterCounts, TLSValues, OverrideValues

MCUserSpecs ==
  [members : MemberCounts, arbiters : ArbiterCounts, version : Versions,
   tls : TLSValues, override : OverrideValues]

\* One member, with or without TLS and a config override, or three members
\* and an arbiter.
InFlightSpecs ==
  {spec \in MCUserSpecs : /\ spec.arbiters = 1 <=> spec.members = 3
                          /\ spec.tls \/ spec.override => spec.members = 1}
=============================================================================
