------------------------ MODULE CertificateRotation ------------------------
(***************************************************************************)
(* How a rotated certificate reaches the automation config: the reconciler *)
(* reads the user's TLS Secret several times (validateTLSConfig,           *)
(* ensureTLSSecret, getTLSConfigModification), registers the resource with *)
(* the ResourceWatcher in between, and is run again when the Secret        *)
(* changes.  Several resources are reconciled concurrently and may name    *)
(* the same Secret.                                                        *)
(*                                                                         *)
(* A Secret holds tls.crt and tls.key, and no tls.pem.  The two are issued *)
(* together, and numbered; they are read one after the other.              *)
(*   secret          the number of the certificate in each Secret, 0 while *)
(*                   the Secret is missing; it is not deleted again;       *)
(*   events          Secrets with an event the informer has not handled;   *)
(*   queue           resources to reconcile;                               *)
(*   rec             the running reconciliation of each resource: its next *)
(*                   step, what Watch read, and the certificate and key it *)
(*                   has read for that step, 0 for neither;                *)
(*   operatorSecret  the pair the operator copied for the pods;            *)
(*   config          the pair the automation config refers to, by the hash *)
(*                   in its file name;                                     *)
(*   used            how much of each bound has been used.                 *)
(***************************************************************************)
EXTENDS ResourceWatcher, Integers, FiniteSets

CONSTANTS
  Resources, Secrets,
  TLSSecret,                \* the Secret each resource names
  MaxConcurrentReconciles,
  MaxRotations, MaxCrashes, MaxFaults

ASSUME RotationAssumption ==
  /\ TLSSecret \in [Resources -> Secrets]
  /\ MaxConcurrentReconciles \in Nat \ {0}
  /\ {MaxRotations, MaxCrashes, MaxFaults} \subseteq Nat

VARIABLES secret, events, queue, rec, operatorSecret, config, used

vars == <<watched, secret, events, queue, rec, operatorSecret, config, used>>

\* A reconciliation before step pc, which has read nothing for it.
At(pc) == [pc |-> pc, existing |-> {}, crt |-> 0, key |-> 0]

Idle == At("idle")

\* tls.crt and tls.key of the n-th certificate.
Issued(n) == [crt |-> n, key |-> n]

Init ==
  /\ watched = NewWatcher(Secrets)
  /\ secret = [s \in Secrets |-> 0]
  /\ events = {}
  /\ queue = Resources
  /\ rec = [r \in Resources |-> Idle]
  /\ operatorSecret = [r \in Resources |-> Issued(0)]
  /\ config = [r \in Resources |-> Issued(0)]
  /\ used = [rotations |-> 0, crashes |-> 0, faults |-> 0]

-----------------------------------------------------------------------------
(***************************************************************************)
(* The reconciliation of resource r.                                       *)
(***************************************************************************)
Goto(r, pc) == rec' = [rec EXCEPT ![r] = At(pc)]

StartReconcile(r) ==
  /\ r \in queue /\ rec[r] = Idle
  /\ Cardinality({q \in Resources : rec[q] # Idle}) < MaxConcurrentReconciles
  /\ queue' = queue \ {r}
  /\ Goto(r, "validate")
  /\ UNCHANGED <<watched, secret, events, operatorSecret, config, used>>

\* A missing Secret is retried in ten seconds, and not watched yet.
ValidateTLSConfig(r) ==
  /\ rec[r].pc = "validate"
  /\ IF secret[TLSSecret[r]] = 0
     THEN Goto(r, "idle") /\ queue' = queue \cup {r}
     ELSE Goto(r, "load") /\ UNCHANGED queue
  /\ UNCHANGED <<watched, secret, events, operatorSecret, config, used>>

WatchLoad(r) ==
  /\ rec[r].pc = "load"
  /\ rec' = [rec EXCEPT ![r] = [At("store") EXCEPT !.existing = watched[TLSSecret[r]]]]
  /\ UNCHANGED <<watched, secret, events, queue, operatorSecret, config, used>>

WatchStore(r) ==
  /\ rec[r].pc = "store"
  /\ Watch(TLSSecret[r], r, rec[r].existing)
  /\ Goto(r, "copy")
  /\ UNCHANGED <<secret, events, queue, operatorSecret, config, used>>

\* getCertAndKey, for the copy and again for the config: the Secret is read
\* once for tls.crt and once for tls.key.  (getPem reads it a third time and
\* finds no tls.pem.)
ReadCrt(r) ==
  /\ rec[r].pc \in {"copy", "config"} /\ rec[r].crt = 0
  /\ rec' = [rec EXCEPT ![r].crt = secret[TLSSecret[r]]]
  /\ UNCHANGED <<watched, secret, events, queue, operatorSecret, config, used>>

ReadKey(r) ==
  /\ rec[r].crt # 0 /\ rec[r].key = 0
  /\ rec' = [rec EXCEPT ![r].key = secret[TLSSecret[r]]]
  /\ UNCHANGED <<watched, secret, events, queue, operatorSecret, config, used>>

PairRead(r) == [crt |-> rec[r].crt, key |-> rec[r].key]

\* Mutant: the copy is made once.
CreateTLSSecret(r) ==
  /\ rec[r].pc = "copy" /\ rec[r].key # 0
  /\ operatorSecret' = [operatorSecret EXCEPT ![r] = IF @.crt = 0 THEN PairRead(r) ELSE @]
  /\ Goto(r, "config")
  /\ UNCHANGED <<watched, secret, events, queue, config, used>>

\* What was read is written, also when the Secret has changed meanwhile, and
\* also when it changed between the two reads.
EnsureTLSSecret(r) ==
  /\ rec[r].pc = "copy" /\ rec[r].key # 0
  /\ operatorSecret' = [operatorSecret EXCEPT ![r] = PairRead(r)]
  /\ Goto(r, "config")
  /\ UNCHANGED <<watched, secret, events, queue, config, used>>

BuildAutomationConfig(r) ==
  /\ rec[r].pc = "config" /\ rec[r].key # 0
  /\ config' = [config EXCEPT ![r] = PairRead(r)]
  /\ Goto(r, "deploy")
  /\ UNCHANGED <<watched, secret, events, queue, operatorSecret, used>>

\* The agents reach the goal state, or are waited for in another
\* reconciliation; they cannot reach it with a certificate they do not have.
Deploy(r) ==
  /\ rec[r].pc = "deploy"
  /\ \/ config[r] = operatorSecret[r] /\ UNCHANGED queue
     \/ queue' = queue \cup {r}
  /\ Goto(r, "idle")
  /\ UNCHANGED <<watched, secret, events, operatorSecret, config, used>>

\* An error of any read or write: the phase is Failed and the reconciliation
\* is repeated.
CallFails(r) ==
  /\ rec[r].pc \in {"validate", "copy", "config", "deploy"}
  /\ used.faults < MaxFaults
  /\ used' = [used EXCEPT !.faults = @ + 1]
  /\ Goto(r, "idle") /\ queue' = queue \cup {r}
  /\ UNCHANGED <<watched, secret, events, operatorSecret, config>>

ReconcileStep(r) ==
  \/ StartReconcile(r) \/ ValidateTLSConfig(r) \/ WatchLoad(r) \/ WatchStore(r)
  \/ ReadCrt(r) \/ ReadKey(r)
  \/ EnsureTLSSecret(r) \/ BuildAutomationConfig(r) \/ Deploy(r)

-----------------------------------------------------------------------------
(***************************************************************************)
(* The user, the informer, and crashes.                                    *)
(***************************************************************************)
Rotate(s) ==
  /\ used.rotations < MaxRotations
  /\ used' = [used EXCEPT !.rotations = @ + 1]
  /\ secret' = [secret EXCEPT ![s] = @ + 1]
  /\ events' = events \cup {s}
  /\ UNCHANGED <<watched, queue, rec, operatorSecret, config>>

Notify(s) ==
  /\ s \in events
  /\ events' = events \ {s}
  /\ HandleEvent(s, queue, queue')
  /\ UNCHANGED <<secret, rec, operatorSecret, config, used>>

\* The new process has an empty watcher; its informers list everything.
Crash ==
  /\ used.crashes < MaxCrashes
  /\ used' = [used EXCEPT !.crashes = @ + 1]
  /\ watched' = NewWatcher(Secrets)
  /\ events' = {s \in Secrets : secret[s] # 0}
  /\ queue' = Resources
  /\ rec' = [r \in Resources |-> Idle]
  /\ UNCHANGED <<secret, operatorSecret, config>>

Next ==
  \/ \E r \in Resources : ReconcileStep(r) \/ CallFails(r)
  \/ \E s \in Secrets : Rotate(s) \/ Notify(s)
  \/ Crash

Spec == Init /\ [][Next]_vars

\* Every request in the queue is worked on, the users provide every Secret,
\* and the informer delivers every event.
Fairness ==
  /\ \A r \in Resources : SF_vars(StartReconcile(r)) /\ WF_vars(ReconcileStep(r))
  /\ \A s \in Secrets : WF_vars(secret[s] = 0 /\ Rotate(s)) /\ WF_vars(Notify(s))

FairSpec == Spec /\ Fairness

-----------------------------------------------------------------------------
(***************************************************************************)
(* Properties.                                                             *)
(***************************************************************************)
\* Every variable holds a value of its kind.
TypeOK ==
  /\ watched \in [Secrets -> SUBSET Resources]
  /\ secret \in [Secrets -> 0 .. MaxRotations]
  /\ events \in SUBSET Secrets /\ queue \in SUBSET Resources
  /\ rec \in [Resources -> [pc : {"idle", "validate", "load", "store", "copy",
                                  "config", "deploy"},
                            existing : SUBSET Resources,
                            crt : 0 .. MaxRotations, key : 0 .. MaxRotations]]
  /\ operatorSecret \in [Resources -> [crt : 0 .. MaxRotations, key : 0 .. MaxRotations]]
  /\ config \in [Resources -> [crt : 0 .. MaxRotations, key : 0 .. MaxRotations]]
  /\ used \in [rotations : 0 .. MaxRotations, crashes : 0 .. MaxCrashes,
               faults : 0 .. MaxFaults]

\* Once the certificates stay as they are, what the operator copied and what
\* the config refers to become and stay the certificate in the Secret: no
\* rotation is missed between a read, the registration and an event.
RotationsReachConfig ==
  <>[](\A r \in Resources : secret[TLSSecret[r]] # 0 =>
         /\ operatorSecret[r] = Issued(secret[TLSSecret[r]])
         /\ config[r] = Issued(secret[TLSSecret[r]]))

\* The operator uses a certificate only while it is told of its rotation.
WatchedWhenUsed ==
  \A r \in Resources :
    rec[r].pc \in {"copy", "config", "deploy"} => r \in watched[TLSSecret[r]]

\* When no reconciliation is running or due and no event is on its way, the
\* copy and the config have the certificate of the Secret: whichever of the
\* reads of a reconciliation a rotation comes between, it is seen by a later
\* read or leaves an event that asks for another reconciliation.
NoRotationMissed ==
  \A r \in Resources :
    rec[r] = Idle /\ r \notin queue /\ TLSSecret[r] \notin events =>
      /\ operatorSecret[r] = Issued(secret[TLSSecret[r]])
      /\ config[r] = Issued(secret[TLSSecret[r]])

-----------------------------------------------------------------------------
(***************************************************************************)
(* The inductive invariant, for Secrets that are not shared.               *)
(***************************************************************************)
SecretsNotShared ==
  \A q, r \in Resources : TLSSecret[q] = TLSSecret[r] => q = r

\* A Secret has been rotated as often as its certificate says, at most.
RotationsCounted == \A s \in Secrets : secret[s] <= used.rotations

\* What Watch has read is still stored, and a resource that nobody will
\* reconcile is registered.
Registered ==
  \A r \in Resources :
    /\ rec[r].pc = "store" /\ r \in rec[r].existing => r \in watched[TLSSecret[r]]
    /\ rec[r] = Idle /\ r \notin queue => r \in watched[TLSSecret[r]]

\* What a reconciliation has read so far is current, or another one is due.
ReadOrDue ==
  \A r \in Resources :
    LET s == TLSSecret[r]
    IN  r \in queue \/ s \in events \/
          /\ {rec[r].crt, rec[r].key} \subseteq {0, secret[s]}
          /\ rec[r].pc \in {"idle", "config", "deploy"} => operatorSecret[r] = Issued(secret[s])
          /\ rec[r].pc \in {"idle", "deploy"} => config[r] = Issued(secret[s])

\* A reconciliation keeps what it has read for the step it reads it for, and
\* a step that follows the validation finds the Secret.
ReadForStep ==
  \A r \in Resources :
    /\ rec[r].pc # "store" => rec[r].existing = {}
    /\ rec[r].pc \notin {"copy", "config"} => rec[r].crt = 0
    /\ rec[r].crt = 0 => rec[r].key = 0
    /\ rec[r].pc \in {"load", "store", "copy", "config", "deploy"} => secret[TLSSecret[r]] # 0
=============================================================================
