-------------------------- MODULE MongoDBCommunity --------------------------
(***************************************************************************)
(* The MongoDBCommunity custom resource (api/v1/mongodbcommunity_types.go, *)
(* controllers/validation) and what the operator derives from it.          *)
(*                                                                         *)
(* A resource is a record with three parts:                                *)
(*   spec        what the user asks for: members, arbiters, the mongod     *)
(*               version, whether TLS is enabled, whether an automation    *)
(*               config override is given;                                 *)
(*   status      what the operator last reported: the four counters that   *)
(*               drive scaling, and the phase;                             *)
(*   lastApplied the two annotations that updateLastSuccessfulConfiguration*)
(*               writes in one patch: the spec of the last successful      *)
(*               reconciliation (its version is lastAppliedMongoDBVersion).*)
(*               NoSpec while they have never been written.                *)
(***************************************************************************)
EXTENDS Scale

CONSTANTS
  MaxMembers,   \* largest number of members and of arbiters a spec names
  Versions,     \* mongod versions
  NoVersion     \* the empty version string

ASSUME MaxMembersAssumption == MaxMembers \in Nat \ {0}
ASSUME VersionsAssumption == NoVersion \notin Versions

Phases == {"", "Pending", "Running", "Failed"}

Counts == 0 .. MaxMembers

Specs == [members : Counts, arbiters : Counts, version : Versions \cup {NoVersion},
          tls : BOOLEAN, override : BOOLEAN]

NoSpec == [members |-> 0, arbiters |-> 0, version |-> NoVersion,
           tls |-> FALSE, override |-> FALSE]

Statuses == [mdbMembers : Counts, mdbArbiters : Counts,
             stsReplicas : Counts, stsArbiters : Counts, phase : Phases]

NewStatus == [mdbMembers |-> 0, mdbArbiters |-> 0,
              stsReplicas |-> 0, stsArbiters |-> 0, phase |-> ""]

Resources == [spec : Specs, status : Statuses, lastApplied : Specs]

NewResource(spec) == [spec |-> spec, status |-> NewStatus, lastApplied |-> NoSpec]

-----------------------------------------------------------------------------
(***************************************************************************)
(* Scaling.  Members are counted by two status fields that feed the same   *)
(* scaler: stsReplicas for the StatefulSet and mdbMembers for the          *)
(* automation config.  Arbiters always move one at a time.                 *)
(***************************************************************************)
MembersScaler(m) == Scaler(m.status.stsReplicas, m.spec.members, FALSE)

ArbitersScaler(m) == Scaler(m.status.stsArbiters, m.spec.arbiters, TRUE)

StatefulSetReplicasThisReconciliation(m) ==
  ReplicasThisReconciliation(MembersScaler(m))

StatefulSetArbitersThisReconciliation(m) ==
  ReplicasThisReconciliation(ArbitersScaler(m))

AutomationConfigMembersThisReconciliation(m) ==
  ReplicasThisReconciliation(Scaler(m.status.mdbMembers, m.spec.members, FALSE))

\* Mutant: arbiters do not wait for the members.
ArbitersAlongsideMembers(m) ==
  ReplicasThisReconciliation(Scaler(m.status.mdbArbiters, m.spec.arbiters, TRUE))

AutomationConfigArbitersThisReconciliation(m) ==
  IF IsStillScaling(MembersScaler(m))
  THEN m.status.mdbArbiters
  ELSE ReplicasThisReconciliation(Scaler(m.status.mdbArbiters, m.spec.arbiters, TRUE))

\* Mutant: the arbiters are forgotten.
OnlyMembersStillScaling(m) == IsStillScaling(MembersScaler(m))

\* Mutant: the members are forgotten.
OnlyArbitersStillScaling(m) == IsStillScaling(ArbitersScaler(m))

IsStillScalingResource(m) ==
  IsStillScaling(MembersScaler(m)) \/ IsStillScaling(ArbitersScaler(m))

-----------------------------------------------------------------------------
(***************************************************************************)
(* Version changes and spec validation.                                    *)
(***************************************************************************)
IsChangingVersion(m) ==
  m.lastApplied.version # NoVersion /\ m.lastApplied.version # m.spec.version

\* Mutant: Kubernetes rolls out version changes.
AlwaysRollingUpdate(m) == "RollingUpdate"

GetUpdateStrategyType(m) ==
  IF IsChangingVersion(m) THEN "OnDelete" ELSE "RollingUpdate"

\* At least one member is not an arbiter.
ValidateArbiterSpec(m) == m.spec.arbiters < m.spec.members

\* ValidateInitialSpec and ValidateUpdate; NoSpec has TLS off, so the check
\* against the last applied spec is vacuous when there is none.  The checks
\* of users and authentication modes do not depend on the state kept here.
ValidateSpec(m) ==
  /\ ~(m.lastApplied.tls /\ ~m.spec.tls)
  /\ ValidateArbiterSpec(m)
=============================================================================
