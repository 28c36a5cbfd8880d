---------------------------- MODULE UserSecrets ----------------------------
(***************************************************************************)
(* Database users and the Secrets kept for them: the password the user     *)
(* provides, the SCRAM credentials the operator derives from it, and the   *)
(* connection string it publishes.  The reconciler reads and writes them   *)
(* user by user (ensureUserResources, ensureScramCredentials,              *)
(* updateConnectionStringSecrets), deletes what the last applied spec      *)
(* named and the present one does not (mongodb_cleanup.go), and tells the  *)
(* agents which users to delete (AddRemovedUsers).                         *)
(*                                                                         *)
(* A list of users is a sequence of [name, scram, conn]: the user, the     *)
(* Secret of the credentials and that of the connection string.  Users of  *)
(* External authenticate by X.509 and have neither password nor            *)
(* credentials.  Credentials are [user, password]: SHA-1 takes the user    *)
(* name in, so that two users never have equal ones; a new salt for the    *)
(* same pair is not told apart.                                            *)
(*                                                                         *)
(*   spec, phase        the resource: spec.users and status.phase;         *)
(*   lastApplied        the users of the last-successful-configuration     *)
(*                      annotation;                                        *)
(*   password           the Secret with each user's password;              *)
(*   scramSecret,                                                          *)
(*   connSecret         the Secrets the operator writes;                   *)
(*   config             the users of the automation config, and those to   *)
(*                      be deleted;                                        *)
(*   inGoal, db         whether the agents have carried the config out,    *)
(*                      and the users of the database;                     *)
(*   queue, events      the requests, and the unhandled events of Secrets; *)
(*   rec                the running reconciliation: its next step, the     *)
(*                      resource it has read, the users it has still to    *)
(*                      look at and those it has converted.                *)
(***************************************************************************)
EXTENDS ResourceWatcher, Naturals, Sequences, FiniteSets

CONSTANTS
  Users, External,
  Passwords, FirstPassword,
  SecretNames, ConnNames,
  UserLists,              \* the values of spec.users the user may choose
  ForeignSecrets,         \* the names of ConnNames taken by somebody else
  mdb, None, Foreign,
  EditsInFlight,          \* edits before the last one is deployed
  MaxChanges,             \* edits of the spec and changes of passwords
  MaxDisturbances         \* deletions, restarts and faults together

UserRecords == [name : Users, scram : SecretNames \cup {None}, conn : ConnNames]

\* validateUsers rejects a SCRAM user without the name of a Secret for the
\* credentials; only X.509 users have none.
ASSUME UserSecretsAssumption ==
  /\ External \subseteq Users /\ ForeignSecrets \subseteq ConnNames
  /\ UserLists \subseteq Seq(UserRecords)
  /\ \A list \in UserLists : \A i \in 1 .. Len(list) :
       list[i].name \notin External => list[i].scram \in SecretNames
  /\ None \notin UserLists \cup [user : Users, password : Passwords \cup {None}]
  /\ Foreign \notin {None} \cup [user : Users, password : Passwords \cup {None}]
  /\ FirstPassword \in Passwords /\ None \notin Passwords
  /\ EditsInFlight \in BOOLEAN
  /\ MaxChanges \in Nat /\ MaxDisturbances \in Nat

VARIABLES spec, phase, lastApplied, password, scramSecret, connSecret,
          config, inGoal, db, queue, events, rec, used

resource == <<spec, phase, lastApplied>>
secrets == <<password, scramSecret, connSecret>>
deployment == <<config, inGoal, db>>
vars == <<resource, secrets, deployment, watched, queue, events, rec, used>>

PasswordOf(u) == <<"password", u>>
ConnOf(c) == <<"conn", c>>
Objects == {PasswordOf(u) : u \in Users} \cup {ConnOf(c) : c \in ConnNames}

Elements(list) == {list[i] : i \in 1 .. Len(list)}
NamesOf(list) == {u.name : u \in Elements(list)}

IsScram(u) == u.name \notin External
Creds(name, pwd) == [user |-> name, password |-> pwd]

Idle == [pc |-> "idle", users |-> <<>>, last |-> None, todo |-> <<>>, converted |-> {}]

Init ==
  /\ spec \in UserLists /\ phase = "" /\ lastApplied = None
  /\ password = [u \in Users |-> FirstPassword]
  /\ scramSecret = [n \in SecretNames |-> None]
  /\ connSecret = [c \in ConnNames |-> IF c \in ForeignSecrets THEN Foreign ELSE None]
  /\ config = [users |-> {}, deleted |-> {}] /\ inGoal = TRUE /\ db = {}
  /\ watched = NewWatcher(Objects) /\ queue = {mdb} /\ events = {}
  /\ rec = Idle
  /\ used = [changes |-> 0, deletions |-> 0, restarts |-> 0, faults |-> 0]

Disturb(kind) ==
  /\ used.deletions + used.restarts + used.faults < MaxDisturbances
  /\ used' = [used EXCEPT ![kind] = @ + 1]

-----------------------------------------------------------------------------
(***************************************************************************)
(* The reconciliation.                                                     *)
(***************************************************************************)
\* The update of the status is a conflict once the resource was edited.  (An
\* edit that was taken back in the meantime is not told apart here.)
Fresh == rec = Idle \/ rec.users = spec

\* Failed and Pending are retried, and so is an update in conflict.
EndWithPhase(p) ==
  /\ phase' = IF Fresh THEN p ELSE phase
  /\ rec' = Idle /\ queue' = queue \cup {mdb}
  /\ UNCHANGED <<spec, lastApplied>>

\* On to a step that goes through the users of the resource.
ForEachUser(pc) == rec' = [rec EXCEPT !.pc = pc, !.todo = rec.users]

\* The head of the list has been dealt with.
UserEnsured ==
  /\ IF Len(rec.todo) = 1 THEN ForEachUser("enable") ELSE rec' = [rec EXCEPT !.todo = Tail(@)]
  /\ UNCHANGED <<resource, queue>>

\* What CreateOrUpdate leaves in a Secret.  The mutant leaves an existing
\* Secret as it is.
CreateIfMissing(existing, new) == IF existing = None THEN new ELSE existing

CreateOrUpdate(existing, new) == new

\* Mutant: the collision check is dropped.
ValidateNothing(list) == TRUE

\* The names of the Secrets must be unique.  An X.509 user has no Secret of
\* credentials; the empty name takes part in the comparison.
ValidateUsers(list) ==
  \A i, j \in 1 .. Len(list) : i # j =>
    /\ list[i].conn # list[j].conn
    /\ IsScram(list[i]) /\ IsScram(list[j]) => list[i].scram # list[j].scram
    /\ IsScram(list[i]) \/ IsScram(list[j])

InvalidUsers ==
  /\ mdb \in queue /\ rec = Idle
  /\ ~ValidateUsers(spec)
  /\ EndWithPhase("Failed")
  /\ UNCHANGED <<secrets, deployment, watched, events, used>>

StartReconcile ==
  /\ mdb \in queue /\ rec = Idle
  /\ ValidateUsers(spec)
  /\ queue' = queue \ {mdb}
  /\ rec' = [Idle EXCEPT !.pc = IF spec = <<>> THEN "enable" ELSE "ensure",
                            !.users = spec, !.last = lastApplied, !.todo = spec]
  /\ UNCHANGED <<resource, secrets, deployment, watched, events, used>>

\* A missing password is an error only when no credentials are stored, and
\* is not watched.
EnsureUserResources ==
  /\ rec.pc = "ensure"
  /\ LET u == Head(rec.todo)
     IN  \/ ~IsScram(u) /\ UserEnsured /\ UNCHANGED watched
         \/ /\ IsScram(u) /\ password[u.name] # None
            /\ Watch(PasswordOf(u.name), mdb, watched[PasswordOf(u.name)])
            /\ UserEnsured
         \/ /\ IsScram(u) /\ password[u.name] = None
            /\ IF scramSecret[u.scram] = None THEN EndWithPhase("Failed") ELSE UserEnsured
            /\ UNCHANGED watched
  /\ UNCHANGED <<secrets, deployment, events, used>>

Convert(u, creds) ==
  /\ rec' = [rec EXCEPT !.todo = Tail(@),
                        !.converted = @ \cup {[name |-> u.name, creds |-> creds]}]
  /\ UNCHANGED <<resource, queue>>

\* Whatever is stored under the name of the user's Secret.
ReadExistingCredentials(u) ==
  IF scramSecret[u.scram] = None THEN EndWithPhase("Failed")
  ELSE Convert(u, scramSecret[u.scram])

\* Mutant: credentials are generated once.
NoCredentials(u, pwd) == scramSecret[u.scram] = None

NeedToGenerateNewCredentials(u, pwd) == scramSecret[u.scram] # Creds(u.name, pwd)

EnsureScramCredentials(u) ==
  LET pwd == password[u.name]
  IN  \/ /\ pwd = None \/ ~NeedToGenerateNewCredentials(u, pwd)
         /\ ReadExistingCredentials(u) /\ UNCHANGED scramSecret
      \/ /\ pwd # None /\ NeedToGenerateNewCredentials(u, pwd)
         /\ scramSecret' = [scramSecret EXCEPT ![u.scram] = CreateOrUpdate(@, Creds(u.name, pwd))]
         /\ Convert(u, Creds(u.name, pwd))

ConvertX509(u) == Convert(u, None) /\ UNCHANGED scramSecret

Enable ==
  /\ rec.pc = "enable" /\ rec.todo # <<>>
  /\ LET u == Head(rec.todo)
     IN  IF IsScram(u) THEN EnsureScramCredentials(u) ELSE ConvertX509(u)
  /\ UNCHANGED <<password, connSecret, deployment, watched, events, used>>

\* Mutants: X.509 users too, and the operands swapped.
RemovedUsersAll(users, last) ==
  IF last = None THEN {} ELSE NamesOf(last) \ NamesOf(users)

AddedUsers(users, last) ==
  IF last = None THEN {} ELSE (NamesOf(users) \ NamesOf(last)) \ External

RemovedUsers(users, last) ==
  IF last = None THEN {} ELSE (NamesOf(last) \ NamesOf(users)) \ External

\* The config is written if it differs from the one before.
EnsureAutomationConfig ==
  /\ rec.pc = "enable" /\ rec.todo = <<>>
  /\ config' = [users |-> rec.converted, deleted |-> RemovedUsers(rec.users, rec.last)]
  /\ inGoal' = (inGoal /\ config' = config)
  /\ rec' = [rec EXCEPT !.pc = "await"]
  /\ UNCHANGED <<resource, secrets, db, watched, queue, events, used>>

\* Running is reported before the Secrets for the users are written; they are
\* not written when the report is refused.
AwaitAgents ==
  /\ rec.pc = "await"
  /\ IF inGoal /\ Fresh
     THEN /\ phase' = "Running" /\ ForEachUser("publish")
          /\ UNCHANGED <<spec, lastApplied, queue>>
     ELSE EndWithPhase("Pending")
  /\ UNCHANGED <<secrets, deployment, watched, events, used>>

\* The first user whose Secret cannot be written ends the loop; the error is
\* logged, and the reconciliation goes on.  (The Secret is written and then
\* watched, in one step here: a deletion in between would go unnoticed.)
UpdateConnectionStringSecrets ==
  /\ rec.pc = "publish" /\ rec.todo # <<>>
  /\ LET u == Head(rec.todo)
         new == Creds(u.name, IF IsScram(u) THEN password[u.name] ELSE None)
         unreadable == connSecret[u.conn] = Foreign \/ (IsScram(u) /\ new.password = None)
     IN  \/ /\ unreadable
            /\ rec' = [rec EXCEPT !.todo = <<>>]
            /\ UNCHANGED <<connSecret, watched, events>>
         \/ /\ ~unreadable
            /\ connSecret' = [connSecret EXCEPT ![u.conn] = CreateOrUpdate(@, new)]
            /\ events' = IF connSecret' = connSecret THEN events ELSE events \cup {ConnOf(u.conn)}
            /\ Watch(ConnOf(u.conn), mdb, watched[ConnOf(u.conn)])
            /\ rec' = [rec EXCEPT !.todo = Tail(@)]
  /\ UNCHANGED <<resource, password, scramSecret, deployment, queue, used>>

\* Mutants: names that have changed are forgotten, and those that have not
\* are deleted.
SecretsOfRemovedUsers(users, last, field) ==
  {u[field] : u \in {v \in Elements(last) : IsScram(v) /\ v.name \notin NamesOf(users)}}

SecretsStillUsed(users, last, field) ==
  {u[field] : u \in {v \in Elements(last) : IsScram(v) /\
                      \E w \in Elements(users) : w.name = v.name /\ w[field] = v[field]}}

\* The Secrets of the SCRAM users before that are gone, or have another name
\* now: field is "scram" or "conn".
SecretsToDelete(users, last, field) ==
  {u[field] : u \in {v \in Elements(last) : IsScram(v) /\
                      ~\E w \in Elements(users) : w.name = v.name /\ w[field] = v[field]}}

\* What cannot be deleted is logged and left.
Delete(secret, names, kept) ==
  /\ kept \subseteq names
  /\ IF kept = {} THEN UNCHANGED used ELSE Disturb("faults")
  /\ secret' = [n \in DOMAIN secret |-> IF n \in names \ kept THEN None ELSE secret[n]]

CleanupScramSecrets ==
  /\ rec.pc = "publish" /\ rec.todo = <<>> /\ rec.last # None
  /\ \E kept \in SUBSET SecretNames :
       Delete(scramSecret, SecretsToDelete(rec.users, rec.last, "scram"), kept)
  /\ rec' = [rec EXCEPT !.pc = "cleanConn"]
  /\ UNCHANGED <<resource, password, connSecret, deployment, watched, queue, events>>

CleanupConnectionStringSecrets ==
  /\ rec.pc = "cleanConn"
  /\ \E kept \in SUBSET ConnNames :
       Delete(connSecret, SecretsToDelete(rec.users, rec.last, "conn"), kept)
  /\ events' = events \cup {ConnOf(c) : c \in {d \in ConnNames : connSecret'[d] # connSecret[d]}}
  /\ rec' = [rec EXCEPT !.pc = "save"]
  /\ UNCHANGED <<resource, password, scramSecret, deployment, watched, queue>>

\* An annotation that cannot be written is logged, and not tried again.
UpdateLastSuccessfulConfiguration ==
  /\ rec.pc = "save" \/ (rec.pc = "publish" /\ rec.todo = <<>> /\ rec.last = None)
  /\ \/ lastApplied' = rec.users /\ UNCHANGED used
     \/ UNCHANGED lastApplied /\ Disturb("faults")
  /\ rec' = Idle
  /\ UNCHANGED <<spec, phase, secrets, deployment, watched, queue, events>>

\* A request to the API server fails: up to the deployment the reconciliation
\* is tried again, after it the remaining connection strings are skipped.
RequestFails ==
  /\ Disturb("faults")
  /\ \/ rec.pc \in {"ensure", "enable", "await"} /\ EndWithPhase("Failed")
     \/ /\ rec.pc = "publish" /\ rec.todo # <<>>
        /\ rec' = [rec EXCEPT !.todo = <<>>]
        /\ UNCHANGED <<resource, queue>>
  /\ UNCHANGED <<secrets, deployment, watched, events>>

Reconcile ==
  \/ StartReconcile \/ InvalidUsers
  \/ EnsureUserResources
  \/ Enable \/ EnsureAutomationConfig \/ AwaitAgents
  \/ UpdateConnectionStringSecrets
  \/ CleanupScramSecrets \/ CleanupConnectionStringSecrets
  \/ UpdateLastSuccessfulConfiguration

-----------------------------------------------------------------------------
(***************************************************************************)
(* The agents, the user, the informer, and restarts of the operator.       *)
(***************************************************************************)
\* Users the config does not mention stay: AuthoritativeSet is FALSE unless
\* ignoreUnknownUsers is set to false.
AgentsReachGoal ==
  /\ ~inGoal
  /\ inGoal' = TRUE
  /\ db' = config.users \cup
            {u \in db : u.name \notin config.deleted \cup {v.name : v \in config.users}}
  /\ UNCHANGED <<resource, secrets, config, watched, queue, events, rec, used>>

Settled == phase = "Running" /\ lastApplied = spec

EditUsers(list) ==
  /\ used.changes < MaxChanges
  /\ EditsInFlight \/ Settled
  /\ list # spec
  /\ used' = [used EXCEPT !.changes = @ + 1]
  /\ spec' = list /\ queue' = {mdb}
  /\ UNCHANGED <<phase, lastApplied, secrets, deployment, watched, events, rec>>

SetPassword(u, p) ==
  /\ used.changes < MaxChanges
  /\ p # password[u]
  /\ used' = [used EXCEPT !.changes = @ + 1]
  /\ password' = [password EXCEPT ![u] = p]
  /\ events' = events \cup {PasswordOf(u)}
  /\ UNCHANGED <<resource, scramSecret, connSecret, deployment, watched, queue, rec>>

\* Once the resource is running with the user in it.
DeletePassword(u) ==
  /\ Settled /\ u \in NamesOf(spec)
  /\ password[u] # None
  /\ Disturb("deletions")
  /\ password' = [password EXCEPT ![u] = None]
  /\ events' = events \cup {PasswordOf(u)}
  /\ UNCHANGED <<resource, scramSecret, connSecret, deployment, watched, queue, rec>>

DeleteConnectionString(c) ==
  /\ connSecret[c] \notin {None, Foreign}
  /\ Disturb("deletions")
  /\ connSecret' = [connSecret EXCEPT ![c] = None]
  /\ events' = events \cup {ConnOf(c)}
  /\ UNCHANGED <<resource, password, scramSecret, deployment, watched, queue, rec>>

Notify(o) ==
  /\ o \in events
  /\ events' = events \ {o}
  /\ HandleEvent(o, queue, queue')
  /\ UNCHANGED <<resource, secrets, deployment, rec, used>>

\* The new process watches nothing and reconciles every resource.  (The
\* events of its first list ask for no more than that.)
Restart ==
  /\ Disturb("restarts")
  /\ watched' = NewWatcher(Objects) /\ queue' = {mdb} /\ events' = {} /\ rec' = Idle
  /\ UNCHANGED <<resource, secrets, deployment>>

Next ==
  \/ Reconcile \/ RequestFails \/ AgentsReachGoal \/ Restart
  \/ \E list \in UserLists : EditUsers(list)
  \/ \E u \in Users \ External : DeletePassword(u) \/ \E p \in Passwords : SetPassword(u, p)
  \/ \E c \in ConnNames : DeleteConnectionString(c)
  \/ \E o \in Objects : Notify(o)

Spec == Init /\ [][Next]_vars

\* The reconciler works on, the agents carry out every config, and the
\* informer delivers every event.
Fairness ==
  /\ WF_vars(Reconcile) /\ WF_vars(AgentsReachGoal)
  /\ \A o \in Objects : WF_vars(Notify(o))

FairSpec == Spec /\ Fairness

-----------------------------------------------------------------------------
(***************************************************************************)
(* Properties.                                                             *)
(***************************************************************************)
CredsOrNone == {None} \cup [user : Users, password : Passwords \cup {None}]

\* Every variable holds a value of its kind.
TypeOK ==
  /\ spec \in UserLists /\ phase \in {"", "Running", "Pending", "Failed"}
  /\ lastApplied \in UserLists \cup {None}
  /\ password \in [Users -> Passwords \cup {None}]
  /\ scramSecret \in [SecretNames -> CredsOrNone]
  /\ connSecret \in [ConnNames -> CredsOrNone \cup {Foreign}]
  /\ config.users \subseteq [name : Users, creds : CredsOrNone]
  /\ config.deleted \subseteq Users \ External
  /\ inGoal \in BOOLEAN /\ db \subseteq [name : Users, creds : CredsOrNone]
  /\ watched \in [Objects -> SUBSET {mdb}]
  /\ queue \subseteq {mdb} /\ events \subseteq Objects
  /\ rec.pc \in {"idle", "ensure", "enable", "await", "publish", "cleanConn", "save"}

Quiet == rec = Idle /\ queue = {} /\ events = {} /\ Settled

\* What the operator needs to deploy the users: an accepted list, and for
\* each user a password or credentials stored before.
Serviceable ==
  /\ ValidateUsers(spec)
  /\ \A u \in Elements(spec) : IsScram(u) =>
       password[u.name] # None \/ scramSecret[u.scram] # None

\* Once the user stops editing, every user of the spec can log in, with the
\* password in its Secret if there is one: no password change is lost between
\* the reads of the Secret, the registration of the watch, and the agents.
PasswordsReachDatabase ==
  <>[](Serviceable => \A u \in Elements(spec) :
         \E v \in db : /\ v.name = u.name
                       /\ IsScram(u) /\ password[u.name] # None =>
                            v.creds = Creds(u.name, password[u.name]))

\* Once the user stops editing, the published connection strings carry the
\* passwords of the Secrets, also when one has been deleted or its name was
\* cleaned up after another user; provided that no request failed and all
\* passwords are there.
ConnectionStringsFollow ==
  <>[](/\ used.faults = 0 /\ Serviceable
       /\ \A u \in Elements(spec) : u.conn \notin ForeignSecrets
                                    /\ (IsScram(u) => password[u.name] # None)
       => \A u \in Elements(spec) : IsScram(u) =>
            connSecret[u.conn] = Creds(u.name, password[u.name]))

\* No user of the config has the credentials of another, although the stored
\* ones are looked up by the name of a Secret only (readExistingCredentials)
\* and are all there is once a password is deleted.  It rests on the names
\* being unique in a list, which validation enforces, and on a user without
\* a password not taking over the name that another user had, which nothing
\* enforces: the lists checked pass no such name on.
OwnCredentials ==
  \A u \in config.users : u.creds # None => u.creds.user = u.name

\* When all is quiet the SCRAM users of the database are those of the spec:
\* a removed user has been deleted from the database before the annotation
\* that still named it is replaced.
RemovedUsersGone ==
  Quiet => {u.name : u \in db} \ External \subseteq NamesOf(spec)

\* Once a spec is running and saved the operator can do without the passwords:
\* it has the credentials of every user, and the cleanup took none of them.
StoredCredentialsKept ==
  Settled => \A u \in Elements(spec) : IsScram(u) =>
             scramSecret[u.scram] # None /\ scramSecret[u.scram].user = u.name

\* When all is quiet no credentials or connection strings of earlier SCRAM
\* users are left behind, unless a deletion failed.
NothingLeftBehind ==
  Quiet /\ used.faults = 0 =>
    /\ \A n \in SecretNames : scramSecret[n] # None =>
         \E u \in Elements(spec) : IsScram(u) /\ u.scram = n
    /\ \A c \in ConnNames :
         connSecret[c] \notin {None, Foreign} /\ connSecret[c].user \notin External =>
         \E u \in Elements(spec) : u.conn = c
=============================================================================
