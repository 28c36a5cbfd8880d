--------------------- MODULE CertificateRotationProofs ----------------------
(***************************************************************************)
(* Proofs about the watching and the rotation of certificates, for any     *)
(* resources and Secrets, any number of workers, rotations and restarts.   *)
(***************************************************************************)
EXTENDS CertificateRotation, TLAPS

RotationTypes == TypeOK /\ RotationsCounted

\* What the resources of a reconciliation look like.
Recs == [pc : {"idle", "validate", "load", "store", "copy", "config", "deploy"},
         existing : SUBSET Resources,
         crt : 0 .. MaxRotations, key : 0 .. MaxRotations]

-----------------------------------------------------------------------------
(***************************************************************************)
(* Types.                                                                  *)
(***************************************************************************)
\* No certificate has been issued and nobody is registered at the start.
LEMMA InitTypes == Init => RotationTypes
BY RotationAssumption
   DEF Init, RotationTypes, TypeOK, RotationsCounted, NewWatcher, Idle, At, Issued

\* A reconciliation goes to its next step and forgets what it has read.
LEMMA GotoTypes ==
  ASSUME TypeOK, NEW r \in Resources,
         NEW pc \in {"idle", "validate", "load", "store", "copy", "config", "deploy"},
         Goto(r, pc)
  PROVE  rec' \in [Resources -> Recs]
BY RotationAssumption DEF TypeOK, Goto, At, Recs

\* A reconciliation is replaced as a whole.
LEMMA RecTypes ==
  ASSUME TypeOK, NEW r \in Resources, NEW c \in Recs, rec' = [rec EXCEPT ![r] = c]
  PROVE  rec' \in [Resources -> Recs]
BY DEF TypeOK, Recs

\* Every step keeps the types; no Secret holds more certificates than were
\* issued.
LEMMA TypesStep == RotationTypes /\ [Next]_vars => RotationTypes'
<1> SUFFICES ASSUME RotationTypes, [Next]_vars PROVE RotationTypes'
  OBVIOUS
<1> USE RotationAssumption DEF RotationTypes, RotationsCounted
<1>0. TypeOK
  OBVIOUS
<1>s. \A r \in Resources : TLSSecret[r] \in Secrets
  OBVIOUS
<1>u. used \in [rotations : 0 .. MaxRotations, crashes : 0 .. MaxCrashes,
               faults : 0 .. MaxFaults]
  BY DEF TypeOK
<1>v. \A r \in Resources : rec[r] \in Recs
  BY DEF TypeOK, Recs
<1>a. Idle \in Recs
  BY DEF Idle, At, Recs
<1>1. ASSUME NEW r \in Resources, StartReconcile(r) PROVE RotationTypes'
  <2>1. rec' \in [Resources -> Recs]
    BY <1>0, <1>1, GotoTypes DEF StartReconcile
  <2> QED
    BY <1>1, <2>1 DEF StartReconcile, TypeOK, Recs
<1>2. ASSUME NEW r \in Resources, ValidateTLSConfig(r) PROVE RotationTypes'
  <2>1. rec' \in [Resources -> Recs]
    BY <1>0, <1>2, GotoTypes DEF ValidateTLSConfig
  <2> QED
    BY <1>2, <2>1 DEF ValidateTLSConfig, TypeOK, Recs
<1>3. ASSUME NEW r \in Resources, WatchLoad(r) PROVE RotationTypes'
  <2>1. watched[TLSSecret[r]] \in SUBSET Resources
    BY <1>s DEF TypeOK
  <2>2. rec' \in [Resources -> Recs]
    <3>1. [At("store") EXCEPT !.existing = watched[TLSSecret[r]]] \in Recs
      BY <2>1 DEF At, Recs
    <3> QED
      BY <1>0, <1>3, <3>1, RecTypes DEF WatchLoad
  <2> QED
    BY <1>3, <2>2 DEF WatchLoad, TypeOK, Recs
<1>4. ASSUME NEW r \in Resources, WatchStore(r) PROVE RotationTypes'
  <2>2. rec' \in [Resources -> Recs]
    BY <1>0, <1>4, GotoTypes DEF WatchStore
  <2>3. watched' \in [Secrets -> SUBSET Resources]
    BY <1>4 DEF WatchStore, Watch, TypeOK
  <2> QED
    BY <1>4, <2>2, <2>3 DEF WatchStore, TypeOK, Recs
<1>5. ASSUME NEW r \in Resources, EnsureTLSSecret(r) PROVE RotationTypes'
  <2>1. rec' \in [Resources -> Recs]
    BY <1>0, <1>5, GotoTypes DEF EnsureTLSSecret
  <2> QED
    BY <1>5, <2>1 DEF EnsureTLSSecret, PairRead, TypeOK, Recs
<1>c. ASSUME NEW r \in Resources, ReadCrt(r) PROVE RotationTypes'
  <2>1. secret[TLSSecret[r]] \in 0 .. MaxRotations
    BY <1>s DEF TypeOK
  <2>2. rec' \in [Resources -> Recs]
    <3>1. [rec[r] EXCEPT !.crt = secret[TLSSecret[r]]] \in Recs
      BY <1>v, <2>1 DEF Recs
    <3> QED
      BY <1>0, <1>c, <3>1, RecTypes DEF ReadCrt
  <2> QED
    BY <1>c, <2>2 DEF ReadCrt, TypeOK, Recs
<1>k. ASSUME NEW r \in Resources, ReadKey(r) PROVE RotationTypes'
  <2>1. secret[TLSSecret[r]] \in 0 .. MaxRotations
    BY <1>s DEF TypeOK
  <2>2. rec' \in [Resources -> Recs]
    <3>1. [rec[r] EXCEPT !.key = secret[TLSSecret[r]]] \in Recs
      BY <1>v, <2>1 DEF Recs
    <3> QED
      BY <1>0, <1>k, <3>1, RecTypes DEF ReadKey
  <2> QED
    BY <1>k, <2>2 DEF ReadKey, TypeOK, Recs
<1>f. ASSUME NEW r \in Resources, CallFails(r) PROVE RotationTypes'
  <2>1. rec' \in [Resources -> Recs]
    BY <1>0, <1>f, GotoTypes DEF CallFails
  <2>2. used' \in [rotations : 0 .. MaxRotations, crashes : 0 .. MaxCrashes,
                  faults : 0 .. MaxFaults]
    BY <1>u, <1>f DEF CallFails
  <2>3. RotationsCounted'
    BY <1>f DEF CallFails, TypeOK
  <2> QED
    BY <1>f, <2>1, <2>2, <2>3 DEF CallFails, TypeOK, Recs
<1>6. ASSUME NEW r \in Resources, BuildAutomationConfig(r) PROVE RotationTypes'
  <2>1. rec' \in [Resources -> Recs]
    BY <1>0, <1>6, GotoTypes DEF BuildAutomationConfig
  <2> QED
    BY <1>6, <2>1 DEF BuildAutomationConfig, PairRead, TypeOK, Recs
<1>7. ASSUME NEW r \in Resources, Deploy(r) PROVE RotationTypes'
  <2>1. rec' \in [Resources -> Recs]
    BY <1>0, <1>7, GotoTypes DEF Deploy
  <2> QED
    BY <1>7, <2>1 DEF Deploy, TypeOK, Recs
<1>8. ASSUME NEW s \in Secrets, Rotate(s) PROVE RotationTypes'
  <2>1. secret' \in [Secrets -> 0 .. MaxRotations]
    BY <1>8 DEF Rotate, TypeOK
  <2>2. used' \in [rotations : 0 .. MaxRotations, crashes : 0 .. MaxCrashes,
                  faults : 0 .. MaxFaults]
    BY <1>u, <1>8 DEF Rotate
  <2>3. RotationsCounted'
    BY <1>8 DEF Rotate, TypeOK
  <2> QED
    BY <1>8, <2>1, <2>2, <2>3 DEF Rotate, TypeOK
<1>9. ASSUME NEW s \in Secrets, Notify(s) PROVE RotationTypes'
  BY <1>9 DEF Notify, HandleEvent, TypeOK
<1>10. CASE Crash
  <2>1. used' \in [rotations : 0 .. MaxRotations, crashes : 0 .. MaxCrashes,
                  faults : 0 .. MaxFaults]
    BY <1>u, <1>10 DEF Crash
  <2>2. rec' \in [Resources -> Recs]
    BY <1>a, <1>10 DEF Crash
  <2>3. watched' \in [Secrets -> SUBSET Resources]
    BY <1>10 DEF Crash, NewWatcher
  <2>4. RotationsCounted'
    BY <1>10 DEF Crash, TypeOK
  <2> QED
    BY <1>10, <2>1, <2>2, <2>3, <2>4 DEF Crash, TypeOK, Recs
<1>11. CASE UNCHANGED vars
  BY <1>11 DEF vars, TypeOK
<1> QED
  BY <1>1, <1>2, <1>3, <1>4, <1>c, <1>k, <1>f, <1>5, <1>6, <1>7, <1>8, <1>9, <1>10, <1>11
     DEF Next, ReconcileStep

\* Every variable holds a value of its kind, and a certificate that was
\* issued, in every reachable state.
THEOREM RotationTypeCorrect == Spec => []TypeOK
<1>1. RotationTypes => TypeOK
  BY DEF RotationTypes
<1> QED
  BY <1>1, InitTypes, TypesStep, PTL DEF Spec

-----------------------------------------------------------------------------
(***************************************************************************)
(* Registration and rotation, when no two resources name the same Secret.  *)
(* A worker that comes between the read and the write of Watch would drop  *)
(* the registration of another worker's resource; it cannot drop one of a  *)
(* resource that names another Secret.                                     *)
(***************************************************************************)
Registration == WatchedWhenUsed /\ Registered /\ ReadForStep

\* The state before anything happened.
LEMMA InitRotation == Init => Registration /\ ReadOrDue
BY RotationAssumption
   DEF Init, Registration, WatchedWhenUsed, Registered, ReadOrDue, ReadForStep,
       NewWatcher, Idle, At, Issued

\* A step of the reconciliation of one resource leaves those of the others
\* and, with no Secret shared, what is watched for them as they were.
LEMMA OthersKept ==
  ASSUME SecretsNotShared, TypeOK, NEW r \in Resources, ReconcileStep(r) \/ CallFails(r),
         NEW q \in Resources, q # r
  PROVE  /\ rec'[q] = rec[q]
         /\ watched'[TLSSecret[q]] = watched[TLSSecret[q]]
         /\ q \in queue' <=> q \in queue
         /\ operatorSecret'[q] = operatorSecret[q]
         /\ config'[q] = config[q]
         /\ secret' = secret /\ events' = events
<1>0. TLSSecret[q] # TLSSecret[r] /\ TLSSecret[q] \in Secrets /\ TLSSecret[r] \in Secrets
  BY RotationAssumption DEF SecretsNotShared
<1> USE DEF TypeOK
<1>1. CASE StartReconcile(r)
  BY <1>1 DEF StartReconcile, Goto
<1>2. CASE ValidateTLSConfig(r)
  BY <1>2 DEF ValidateTLSConfig, Goto
<1>3. CASE WatchLoad(r)
  BY <1>3 DEF WatchLoad
<1>4. CASE WatchStore(r)
  BY <1>0, <1>4 DEF WatchStore, Watch, Goto
<1>5. CASE EnsureTLSSecret(r)
  BY <1>5 DEF EnsureTLSSecret, Goto
<1>6. CASE BuildAutomationConfig(r)
  BY <1>6 DEF BuildAutomationConfig, Goto
<1>7. CASE Deploy(r)
  BY <1>7 DEF Deploy, Goto
<1>8. CASE ReadCrt(r) \/ ReadKey(r)
  BY <1>8 DEF ReadCrt, ReadKey
<1>9. CASE CallFails(r)
  BY <1>9 DEF CallFails, Goto
<1> QED
  BY <1>1, <1>2, <1>3, <1>4, <1>5, <1>6, <1>7, <1>8, <1>9 DEF ReconcileStep

\* What the invariant says of one resource.
Good(r) ==
  LET s == TLSSecret[r]
  IN  /\ rec[r].pc \in {"copy", "config", "deploy"} => r \in watched[s]
      /\ rec[r].pc = "store" /\ r \in rec[r].existing => r \in watched[s]
      /\ rec[r] = Idle /\ r \notin queue => r \in watched[s]
      /\ rec[r].pc # "store" => rec[r].existing = {}
      /\ rec[r].pc \notin {"copy", "config"} => rec[r].crt = 0
      /\ rec[r].crt = 0 => rec[r].key = 0
      /\ rec[r].pc \in {"load", "store", "copy", "config", "deploy"} => secret[s] # 0
      /\ r \in queue \/ s \in events \/
           /\ {rec[r].crt, rec[r].key} \subseteq {0, secret[s]}
           /\ rec[r].pc \in {"idle", "config", "deploy"} => operatorSecret[r] = Issued(secret[s])
           /\ rec[r].pc \in {"idle", "deploy"} => config[r] = Issued(secret[s])

\* The invariant says it of every resource.
LEMMA GoodIsInvariant ==
  Registration /\ ReadOrDue <=> \A r \in Resources : Good(r)
BY DEF Registration, WatchedWhenUsed, Registered, ReadForStep, ReadOrDue, Good

\* A resource that is not reconciled by a step keeps what is true of it.
LEMMA OthersStayGood ==
  ASSUME SecretsNotShared, TypeOK, NEW r \in Resources, ReconcileStep(r) \/ CallFails(r),
         NEW q \in Resources, q # r, Good(q)
  PROVE  Good(q)'
BY OthersKept DEF Good

\* Each step of a reconciliation, for the resource it reconciles.
LEMMA OwnStepGood ==
  ASSUME TypeOK, NEW r \in Resources, ReconcileStep(r) \/ CallFails(r), Good(r)
  PROVE  Good(r)'
<1>0. TLSSecret[r] \in Secrets
  BY RotationAssumption
<1>g. ASSUME NEW pc, Goto(r, pc)
      PROVE  rec'[r] = [pc |-> pc, existing |-> {}, crt |-> 0, key |-> 0]
  BY <1>g DEF Goto, At, TypeOK
<1>i. Idle = [pc |-> "idle", existing |-> {}, crt |-> 0, key |-> 0]
  BY DEF Idle, At
<1>1. CASE StartReconcile(r)
  <2>1. rec'[r] = [pc |-> "validate", existing |-> {}, crt |-> 0, key |-> 0]
    BY <1>1, <1>g DEF StartReconcile
  <2> QED
    BY <1>1, <1>i, <2>1 DEF StartReconcile, Good
<1>2. CASE ValidateTLSConfig(r)
  <2>1. CASE secret[TLSSecret[r]] = 0
    <3>1. rec'[r] = [pc |-> "idle", existing |-> {}, crt |-> 0, key |-> 0] /\ r \in queue'
      BY <1>2, <2>1, <1>g DEF ValidateTLSConfig
    <3> QED
      BY <1>2, <1>i, <3>1 DEF ValidateTLSConfig, Good
  <2>2. CASE secret[TLSSecret[r]] # 0
    <3>1. rec'[r] = [pc |-> "load", existing |-> {}, crt |-> 0, key |-> 0]
      BY <1>2, <2>2, <1>g DEF ValidateTLSConfig
    <3> QED
      BY <1>2, <1>i, <2>2, <3>1 DEF ValidateTLSConfig, Good
  <2> QED
    BY <2>1, <2>2
<1>3. CASE WatchLoad(r)
  <2>1. rec'[r] = [pc |-> "store", existing |-> watched[TLSSecret[r]], crt |-> 0, key |-> 0]
    BY <1>3 DEF WatchLoad, TypeOK, At
  <2> QED
    <3>1. rec[r].pc = "load" /\ rec'[r] # Idle
      BY <1>3, <1>i, <2>1 DEF WatchLoad
    <3>2. UNCHANGED <<watched, secret, events, queue, operatorSecret, config>>
      BY <1>3 DEF WatchLoad
    <3> QED
      BY <2>1, <3>1, <3>2 DEF Good
<1>4. CASE WatchStore(r)
  <2>1. rec'[r] = [pc |-> "copy", existing |-> {}, crt |-> 0, key |-> 0]
    BY <1>4, <1>g DEF WatchStore
  <2>2. r \in watched'[TLSSecret[r]]
    BY <1>0, <1>4 DEF WatchStore, Watch, Good, TypeOK
  <2> QED
    BY <1>4, <1>i, <2>1, <2>2 DEF WatchStore, Good
<1>5. CASE EnsureTLSSecret(r)
  <2>1. rec'[r] = [pc |-> "config", existing |-> {}, crt |-> 0, key |-> 0]
    BY <1>5, <1>g DEF EnsureTLSSecret
  <2>2. operatorSecret'[r] = [crt |-> rec[r].crt, key |-> rec[r].key]
    BY <1>5 DEF EnsureTLSSecret, PairRead, TypeOK
  <2>3. rec[r].crt # 0 /\ rec[r].key # 0
    BY <1>5 DEF EnsureTLSSecret, Good
  <2> QED
    BY <1>5, <1>i, <2>1, <2>2, <2>3 DEF EnsureTLSSecret, Good, Issued
<1>6. CASE BuildAutomationConfig(r)
  <2>1. rec'[r] = [pc |-> "deploy", existing |-> {}, crt |-> 0, key |-> 0]
    BY <1>6, <1>g DEF BuildAutomationConfig
  <2>2. config'[r] = [crt |-> rec[r].crt, key |-> rec[r].key]
    BY <1>6 DEF BuildAutomationConfig, PairRead, TypeOK
  <2>3. rec[r].crt # 0 /\ rec[r].key # 0
    BY <1>6 DEF BuildAutomationConfig, Good
  <2> QED
    BY <1>6, <1>i, <2>1, <2>2, <2>3 DEF BuildAutomationConfig, Good, Issued
<1>7. CASE Deploy(r)
  <2>1. rec'[r] = [pc |-> "idle", existing |-> {}, crt |-> 0, key |-> 0]
    BY <1>7, <1>g DEF Deploy
  <2> QED
    BY <1>7, <1>i, <2>1 DEF Deploy, Good
<1>8. CASE ReadCrt(r)
  <2>1. rec'[r].crt = secret[TLSSecret[r]]
    BY <1>8 DEF ReadCrt, TypeOK
  <2>2. /\ rec'[r].pc = rec[r].pc /\ rec'[r].existing = rec[r].existing
        /\ rec'[r].key = rec[r].key /\ rec'[r].pc # "idle"
    BY <1>8 DEF ReadCrt, TypeOK
  <2> QED
    BY <1>8, <1>i, <2>1, <2>2 DEF ReadCrt, Good
<1>9. CASE ReadKey(r)
  <2>1. rec'[r].key = secret[TLSSecret[r]]
    BY <1>9 DEF ReadKey, TypeOK
  <2>2. /\ rec'[r].pc = rec[r].pc /\ rec'[r].existing = rec[r].existing
        /\ rec'[r].crt = rec[r].crt /\ rec'[r].crt # 0
    BY <1>9 DEF ReadKey, TypeOK
  <2> QED
    BY <1>9, <1>i, <2>1, <2>2 DEF ReadKey, Good
<1>10. CASE CallFails(r)
  <2>1. rec'[r] = [pc |-> "idle", existing |-> {}, crt |-> 0, key |-> 0] /\ r \in queue'
    BY <1>10, <1>g DEF CallFails
  <2> QED
    BY <1>10, <1>i, <2>1 DEF CallFails, Good
<1> QED
  BY <1>1, <1>2, <1>3, <1>4, <1>5, <1>6, <1>7, <1>8, <1>9, <1>10 DEF ReconcileStep

\* Every step of a worker, a user, the informer, and a restart.
LEMMA RotationStep ==
  ASSUME SecretsNotShared, TypeOK, TypeOK', \A q \in Resources : Good(q), [Next]_vars
  PROVE  \A q \in Resources : Good(q)'
<1> SUFFICES ASSUME NEW q \in Resources PROVE Good(q)'
  OBVIOUS
<1>0. TLSSecret[q] \in Secrets
  BY RotationAssumption
<1>1. ASSUME NEW r \in Resources, ReconcileStep(r) \/ CallFails(r) PROVE Good(q)'
  <2>1. CASE q = r
    BY <1>1, <2>1, OwnStepGood
  <2>2. CASE q # r
    BY <1>1, <2>2, OthersStayGood
  <2> QED
    BY <2>1, <2>2
<1>2. ASSUME NEW s \in Secrets, Rotate(s) PROVE Good(q)'
  <2>1. CASE TLSSecret[q] = s
    <3>1. secret'[s] # 0 /\ s \in events'
      BY <1>2 DEF Rotate, TypeOK
    <3>2. UNCHANGED <<watched, queue, rec, operatorSecret, config>>
      BY <1>2 DEF Rotate
    <3> QED
      BY <2>1, <3>1, <3>2 DEF Good
  <2>2. CASE TLSSecret[q] # s
    BY <1>0, <1>2, <2>2 DEF Rotate, Good, TypeOK
  <2> QED
    BY <2>1, <2>2
<1>3. ASSUME NEW s \in Secrets, Notify(s) PROVE Good(q)'
  <2>1. CASE TLSSecret[q] = s
    <3>1. rec[q].pc = "idle" => rec[q] = Idle
      BY DEF Good, Idle, At, TypeOK
    <3> QED
      BY <1>0, <1>3, <2>1, <3>1 DEF Notify, HandleEvent, Good, TypeOK
  <2>2. CASE TLSSecret[q] # s
    BY <1>0, <1>3, <2>2 DEF Notify, HandleEvent, Good, TypeOK
  <2> QED
    BY <2>1, <2>2
<1>4. CASE Crash
  BY <1>0, <1>4 DEF Crash, Good, Idle, At, NewWatcher
<1>5. CASE UNCHANGED vars
  BY <1>5 DEF vars, Good
<1> QED
  BY <1>1, <1>2, <1>3, <1>4, <1>5 DEF Next

\* So every resource is registered in time, and has read the last certificate
\* or will read it.
LEMMA RotationInvariant ==
  ASSUME SecretsNotShared
  PROVE  Spec => [](\A r \in Resources : Good(r))
<1>1. Init => TypeOK /\ \A r \in Resources : Good(r)
  BY InitTypes, InitRotation, GoodIsInvariant DEF RotationTypes
<1>2. TypeOK /\ TypeOK' /\ (\A r \in Resources : Good(r)) /\ [Next]_vars
        => (\A r \in Resources : Good(r))'
  BY RotationStep, SecretsNotShared
<1> QED
  BY <1>1, <1>2, RotationTypeCorrect, PTL DEF Spec

\* Certificates are used only while their rotation is watched: whatever the
\* workers, the informer and restarts do, a reconciliation that copies a
\* certificate or puts it in the config has its resource registered.
THEOREM WatchedTheorem ==
  ASSUME SecretsNotShared
  PROVE  Spec => []WatchedWhenUsed
<1>1. (\A r \in Resources : Good(r)) => WatchedWhenUsed
  BY GoodIsInvariant DEF Registration
<1> QED
  BY <1>1, SecretsNotShared, RotationInvariant, PTL

\* No rotation is missed: when a resource is neither reconciled nor queued and
\* no event of its Secret is on its way, the copy the pods mount and the hash
\* in the config are those of the certificate in the Secret.
THEOREM NoRotationMissedTheorem ==
  ASSUME SecretsNotShared
  PROVE  Spec => []NoRotationMissed
<1>1. (\A r \in Resources : Good(r)) => NoRotationMissed
  BY DEF Good, NoRotationMissed, Idle, At
<1> QED
  BY <1>1, SecretsNotShared, RotationInvariant, PTL
=============================================================================
