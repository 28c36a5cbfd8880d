------------------------- MODULE UserSecretsProofs --------------------------
(***************************************************************************)
(* Proofs about the users and the Secrets kept for them, for any users,    *)
(* lists of users, passwords and names of Secrets, and any number of       *)
(* edits, deletions, restarts and failed requests.                         *)
(***************************************************************************)
EXTENDS UserSecrets, TLAPS

Steps == {"idle", "ensure", "enable", "await", "publish", "cleanConn", "save"}
UserSeqs == Seq(UserRecords)
ConfigUsers == [name : Users, creds : CredsOrNone]
Recs == [pc : Steps, users : UserSeqs, last : UserLists \cup {None}, todo : UserSeqs,
         converted : SUBSET ConfigUsers]
Counts == [changes : Nat, deletions : Nat, restarts : Nat, faults : Nat]

\* The running reconciliation: it works through users of an accepted list.
RecOK ==
  /\ rec \in Recs
  /\ rec.pc # "idle" => rec.users \in UserLists /\ ValidateUsers(rec.users)
  /\ rec.pc = "ensure" => rec.todo # <<>>
  /\ Elements(rec.todo) \subseteq Elements(rec.users)

TypesOK == TypeOK /\ RecOK /\ used \in Counts

-----------------------------------------------------------------------------
(***************************************************************************)
(* Lists of users.                                                         *)
(***************************************************************************)
\* The elements of a list, taken one at a time.
LEMMA ElementsOfList ==
  ASSUME NEW s \in UserSeqs
  PROVE  /\ Elements(s) \subseteq UserRecords
         /\ Elements(<<>>) = {}
         /\ s # <<>> => /\ Head(s) \in Elements(s)
                        /\ Tail(s) \in UserSeqs
                        /\ Elements(s) = {Head(s)} \cup Elements(Tail(s))
                        /\ Len(s) # 1 => Tail(s) # <<>>
<1> USE DEF UserSeqs
<1>1. Elements(s) \subseteq UserRecords /\ Elements(<<>>) = {}
  BY DEF Elements
<1> SUFFICES ASSUME s # <<>>
             PROVE  /\ Head(s) \in Elements(s)
                    /\ Tail(s) \in UserSeqs
                    /\ Elements(s) = {Head(s)} \cup Elements(Tail(s))
                    /\ Len(s) # 1 => Tail(s) # <<>>
  BY <1>1
<1>2. ASSUME NEW i \in 1 .. Len(s), i # 1
      PROVE  i - 1 \in 1 .. Len(Tail(s)) /\ Tail(s)[i - 1] = s[i]
  BY <1>2
<1>3. \A i \in 1 .. Len(Tail(s)) : i + 1 \in 1 .. Len(s) /\ Tail(s)[i] = s[i + 1]
  OBVIOUS
<1>4. Head(s) = s[1] /\ 1 \in 1 .. Len(s)
  OBVIOUS
<1>5. Elements(s) = {Head(s)} \cup Elements(Tail(s))
  BY <1>2, <1>3, <1>4 DEF Elements
<1>6. Tail(s) \in UserSeqs
  OBVIOUS
<1>7. ASSUME Len(s) # 1 PROVE Tail(s) # <<>>
  <2>1. Len(Tail(s)) = Len(s) - 1 /\ Len(s) \in Nat \ {0}
    OBVIOUS
  <2>2. Len(Tail(s)) # 0
    BY <1>7, <2>1
  <2>3. Len(<<>>) = 0
    OBVIOUS
  <2> QED
    BY <2>2, <2>3, Zenon
<1> QED
  BY <1>4, <1>5, <1>6, <1>7

\* The users of a list the user may choose.
LEMMA UsersOfList ==
  ASSUME NEW list \in UserLists
  PROVE  /\ list \in UserSeqs
         /\ \A u \in Elements(list) : /\ u \in UserRecords
                                      /\ IsScram(u) => u.scram \in SecretNames
BY UserSecretsAssumption DEF UserSeqs, Elements, IsScram

-----------------------------------------------------------------------------
(***************************************************************************)
(* What the steps of a reconciliation do.                                  *)
(***************************************************************************)
\* The reconciliation is at step c, has t to look at and has converted v.
Moved(c, t, v) ==
  /\ rec' \in Recs /\ rec'.pc = c /\ rec'.todo = t /\ rec'.converted = v
  /\ rec'.users = rec.users /\ rec'.last = rec.last

\* The forms in which the code moves a reconciliation on: to a step that goes
\* through the users, to the next user, to the next user with one converted,
\* and to a step that needs no users.
LEMMA MovesToUsers ==
  ASSUME rec \in Recs, NEW c \in Steps, NEW t \in UserSeqs, rec' = [rec EXCEPT !.pc = c, !.todo = t]
  PROVE  Moved(c, t, rec.converted)
BY DEF Recs, Moved

\* The loop moves on to another user.
LEMMA MovesToUser ==
  ASSUME rec \in Recs, NEW t \in UserSeqs, rec' = [rec EXCEPT !.todo = t]
  PROVE  Moved(rec.pc, t, rec.converted)
BY DEF Recs, Moved

\* The loop converts a user and moves on to the next one.
LEMMA MovesConverting ==
  ASSUME rec \in Recs, NEW t \in UserSeqs, NEW v \in SUBSET ConfigUsers,
         rec' = [rec EXCEPT !.todo = t, !.converted = v]
  PROVE  Moved(rec.pc, t, v)
BY DEF Recs, Moved

\* The reconciliation moves on to its next call.
LEMMA MovesOn ==
  ASSUME rec \in Recs, NEW c \in Steps, rec' = [rec EXCEPT !.pc = c]
  PROVE  Moved(c, rec.todo, rec.converted)
BY DEF Recs, Moved

\* No reconciliation is running.
LEMMA IdleFacts ==
  /\ Idle \in Recs /\ Idle.pc = "idle" /\ Idle.users = <<>> /\ Idle.todo = <<>>
  /\ Idle.converted = {} /\ Idle.last = None
BY DEF Idle, Recs, Steps, UserSeqs

\* The users a reconciliation has still to look at.
LEMMA NextUser ==
  ASSUME RecOK, rec.pc # "idle", rec.todo # <<>>
  PROVE  /\ Head(rec.todo) \in Elements(rec.users) /\ Head(rec.todo) \in UserRecords
         /\ IsScram(Head(rec.todo)) => Head(rec.todo).scram \in SecretNames
         /\ Tail(rec.todo) \in UserSeqs
         /\ Elements(rec.todo) = {Head(rec.todo)} \cup Elements(Tail(rec.todo))
         /\ Len(rec.todo) # 1 => Tail(rec.todo) # <<>>
<1>1. rec.todo \in UserSeqs /\ rec.users \in UserLists
  BY DEF RecOK, Recs
<1>2. Elements(rec.todo) \subseteq Elements(rec.users)
  BY DEF RecOK
<1> QED
  BY <1>1, <1>2, ElementsOfList, UsersOfList

\* The start of a reconciliation.
LEMMA StartEffect ==
  ASSUME TypesOK, StartReconcile
  PROVE  /\ rec' \in Recs /\ rec'.pc \in {"ensure", "enable"} /\ rec'.users = spec
         /\ rec'.last = lastApplied /\ rec'.todo = spec /\ rec'.converted = {}
         /\ rec'.pc = "ensure" => spec # <<>>
         /\ spec \in UserLists /\ ValidateUsers(spec)
         /\ UNCHANGED <<resource, secrets, deployment, watched, events, used>>
<1>1. spec \in UserLists /\ spec \in UserSeqs /\ lastApplied \in UserLists \cup {None}
  BY UsersOfList DEF TypesOK, TypeOK
<1>2. PICK c \in {"ensure", "enable"} :
        /\ c = IF spec = <<>> THEN "enable" ELSE "ensure"
        /\ rec' = [Idle EXCEPT !.pc = c, !.users = spec, !.last = lastApplied, !.todo = spec]
  BY DEF StartReconcile
<1>3. c \in Steps
  BY DEF Steps
<1>4. /\ rec' \in Recs /\ rec'.pc = c /\ rec'.users = spec /\ rec'.last = lastApplied
      /\ rec'.todo = spec /\ rec'.converted = {}
  BY <1>1, <1>2, <1>3, IdleFacts DEF Recs
<1> QED
  BY <1>1, <1>2, <1>4 DEF StartReconcile

\* The password of a user is looked for.
LEMMA EnsureEffect ==
  ASSUME TypesOK, EnsureUserResources
  PROVE  /\ rec.pc = "ensure"
         /\ \/ rec' = Idle
            \/ Moved("enable", rec.users, rec.converted)
            \/ Moved("ensure", Tail(rec.todo), rec.converted) /\ Tail(rec.todo) # <<>>
         /\ UNCHANGED <<spec, lastApplied, secrets, deployment, events, used>>
<1>1. rec.pc = "ensure" /\ rec.todo # <<>> /\ rec \in Recs /\ RecOK /\ rec.users \in UserSeqs
  BY DEF EnsureUserResources, TypesOK, RecOK, Recs
<1>2. Tail(rec.todo) \in UserSeqs /\ (Len(rec.todo) # 1 => Tail(rec.todo) # <<>>)
  BY <1>1, NextUser
<1>3. UserEnsured \/ \E p : EndWithPhase(p)
  BY DEF EnsureUserResources
<1>4. ASSUME UserEnsured
      PROVE  /\ \/ Moved("enable", rec.users, rec.converted)
                \/ Moved("ensure", Tail(rec.todo), rec.converted) /\ Tail(rec.todo) # <<>>
             /\ UNCHANGED <<spec, lastApplied>>
  <2>1. CASE Len(rec.todo) = 1
    <3>1. rec' = [rec EXCEPT !.pc = "enable", !.todo = rec.users]
      BY <1>4, <2>1 DEF UserEnsured, ForEachUser
    <3>2. "enable" \in Steps
      BY DEF Steps
    <3> QED
      BY <1>1, <1>4, <3>1, <3>2, MovesToUsers DEF UserEnsured, resource
  <2>2. CASE Len(rec.todo) # 1
    <3>1. rec' = [rec EXCEPT !.todo = Tail(rec.todo)]
      BY <1>4, <2>2 DEF UserEnsured
    <3> QED
      BY <1>1, <1>2, <1>4, <2>2, <3>1, MovesToUser DEF UserEnsured, resource
  <2> QED
    BY <2>1, <2>2
<1>5. ASSUME NEW p, EndWithPhase(p) PROVE rec' = Idle /\ UNCHANGED <<spec, lastApplied>>
  BY <1>5 DEF EndWithPhase
<1> QED
  BY <1>1, <1>3, <1>4, <1>5 DEF EnsureUserResources

\* The credentials of a user are read or made.
LEMMA EnableEffect ==
  ASSUME TypesOK, Enable
  PROVE  /\ rec.pc = "enable" /\ rec.todo # <<>>
         /\ \/ rec' = Idle /\ scramSecret' = scramSecret
            \/ \E creds \in CredsOrNone :
                 LET u == Head(rec.todo)
                 IN  /\ Moved("enable", Tail(rec.todo),
                              rec.converted \cup {[name |-> u.name, creds |-> creds]})
                     /\ \/ /\ ~IsScram(u) /\ creds = None /\ scramSecret' = scramSecret
                        \/ /\ IsScram(u) /\ creds # None /\ creds = scramSecret[u.scram]
                           /\ scramSecret' = scramSecret
                        \/ /\ IsScram(u) /\ creds # None /\ creds.user = u.name
                           /\ scramSecret' = [scramSecret EXCEPT ![u.scram] = creds]
         /\ UNCHANGED <<spec, lastApplied, password, connSecret, deployment, watched, events, used>>
<1> DEFINE u == Head(rec.todo)
           Converts(creds) ==
             Moved("enable", Tail(rec.todo), rec.converted \cup {[name |-> u.name, creds |-> creds]})
<1>1. rec.pc = "enable" /\ rec.todo # <<>> /\ rec \in Recs /\ RecOK
  BY DEF Enable, TypesOK, RecOK
<1>2. Tail(rec.todo) \in UserSeqs /\ u \in UserRecords /\ (IsScram(u) => u.scram \in SecretNames)
  BY <1>1, NextUser
<1>3. ASSUME NEW creds \in CredsOrNone, Convert(u, creds)
      PROVE  Converts(creds) /\ UNCHANGED <<spec, lastApplied>>
  <2>1. rec.converted \cup {[name |-> u.name, creds |-> creds]} \in SUBSET ConfigUsers
    BY <1>1, <1>2 DEF Recs, ConfigUsers, UserRecords
  <2>2. rec' = [rec EXCEPT !.todo = Tail(rec.todo),
                           !.converted = rec.converted \cup {[name |-> u.name, creds |-> creds]}]
    BY <1>3 DEF Convert
  <2> QED
    BY <1>1, <1>2, <1>3, <2>1, <2>2, MovesConverting DEF Convert, resource
<1>4. UNCHANGED <<password, connSecret, deployment, watched, events, used>>
  BY DEF Enable
<1>5. ASSUME NEW p, EndWithPhase(p) PROVE rec' = Idle /\ UNCHANGED <<spec, lastApplied>>
  BY <1>5 DEF EndWithPhase
<1> HIDE DEF Converts
<1>6. CASE ~IsScram(u)
  <2>1. None \in CredsOrNone
    BY DEF CredsOrNone
  <2>2. Convert(u, None) /\ scramSecret' = scramSecret
    BY <1>6 DEF Enable, ConvertX509
  <2> QED
    BY <1>1, <1>3, <1>4, <1>6, <2>1, <2>2 DEF Converts
<1>7. CASE IsScram(u)
  <2>0. EnsureScramCredentials(u)
    BY <1>7 DEF Enable
  <2>1. CASE ReadExistingCredentials(u) /\ UNCHANGED scramSecret
    <3>1. scramSecret[u.scram] \in CredsOrNone
      BY <1>2, <1>7 DEF TypesOK, TypeOK
    <3>2. CASE scramSecret[u.scram] = None
      <4>1. EndWithPhase("Failed")
        BY <2>1, <3>2 DEF ReadExistingCredentials
      <4> QED
        BY <1>1, <1>4, <1>5, <2>1, <4>1
    <3>3. CASE scramSecret[u.scram] # None
      <4>1. Convert(u, scramSecret[u.scram])
        BY <2>1, <3>3 DEF ReadExistingCredentials
      <4> QED
        BY <1>1, <1>3, <1>4, <1>7, <2>1, <3>1, <3>3, <4>1 DEF Converts
    <3> QED
      BY <3>2, <3>3
  <2>2. CASE /\ password[u.name] # None
             /\ scramSecret' = [scramSecret EXCEPT ![u.scram] = Creds(u.name, password[u.name])]
             /\ Convert(u, Creds(u.name, password[u.name]))
    <3> DEFINE creds == Creds(u.name, password[u.name])
    <3>1. creds \in [user : Users, password : Passwords \cup {None}] /\ creds.user = u.name
      BY <1>2 DEF Creds, TypesOK, TypeOK, UserRecords
    <3>2. creds \in CredsOrNone /\ creds # None
      BY <3>1, UserSecretsAssumption DEF CredsOrNone
    <3> HIDE DEF creds
    <3>3. Convert(u, creds) /\ scramSecret' = [scramSecret EXCEPT ![u.scram] = creds]
      BY <2>2 DEF creds
    <3> QED
      BY <1>1, <1>3, <1>4, <1>7, <3>1, <3>2, <3>3 DEF Converts
  <2> QED
    BY <2>0, <2>1, <2>2 DEF EnsureScramCredentials, CreateOrUpdate
<1> QED
  BY <1>6, <1>7

\* The config is written, with the users converted and those to be deleted.
LEMMA ConfigEffect ==
  ASSUME TypesOK, EnsureAutomationConfig
  PROVE  /\ rec.pc = "enable" /\ rec.todo = <<>>
         /\ Moved("await", rec.todo, rec.converted)
         /\ config'.users = rec.converted /\ config'.deleted = RemovedUsers(rec.users, rec.last)
         /\ inGoal' \in BOOLEAN /\ (inGoal' => inGoal /\ config' = config)
         /\ UNCHANGED <<resource, secrets, db, watched, queue, events, used>>
<1>1. rec \in Recs /\ "await" \in Steps
  BY DEF TypesOK, RecOK, Steps
<1>2. Moved("await", rec.todo, rec.converted)
  BY <1>1, MovesOn DEF EnsureAutomationConfig
<1>3. config'.users = rec.converted /\ config'.deleted = RemovedUsers(rec.users, rec.last)
  BY DEF EnsureAutomationConfig
<1>4. inGoal' \in BOOLEAN /\ (inGoal' => inGoal /\ config' = config)
  BY DEF EnsureAutomationConfig, TypesOK, TypeOK
<1> QED
  BY <1>2, <1>3, <1>4 DEF EnsureAutomationConfig

\* The agents are waited for.
LEMMA AwaitEffect ==
  ASSUME TypesOK, AwaitAgents
  PROVE  /\ rec.pc = "await"
         /\ rec' = Idle \/ (inGoal /\ Moved("publish", rec.users, rec.converted))
         /\ phase' \in {"Running", "Pending", phase} /\ (queue' = queue \/ queue' = queue \cup {mdb})
         /\ UNCHANGED <<spec, lastApplied, secrets, deployment, watched, events, used>>
<1>1. rec \in Recs /\ "publish" \in Steps /\ rec.users \in UserSeqs
  BY DEF TypesOK, RecOK, Steps, Recs
<1>2. CASE inGoal /\ Fresh
  <2>1. Moved("publish", rec.users, rec.converted)
    BY <1>1, <1>2, MovesToUsers DEF AwaitAgents, ForEachUser
  <2> QED
    BY <1>2, <2>1 DEF AwaitAgents
<1>3. CASE ~(inGoal /\ Fresh)
  BY <1>3 DEF AwaitAgents, EndWithPhase
<1> QED
  BY <1>2, <1>3

\* A connection string is published, or the others are given up.
LEMMA PublishEffect ==
  ASSUME TypesOK, UpdateConnectionStringSecrets
  PROVE  /\ rec.pc = "publish" /\ rec.todo # <<>>
         /\ \/ Moved("publish", <<>>, rec.converted) /\ UNCHANGED <<connSecret, watched, events>>
            \/ LET u == Head(rec.todo)
               IN  /\ Moved("publish", Tail(rec.todo), rec.converted)
                   /\ \E new \in [user : Users, password : Passwords \cup {None}] :
                        new.user = u.name /\ connSecret' = [connSecret EXCEPT ![u.conn] = new]
                   /\ \/ events' = events \/ events' = events \cup {ConnOf(u.conn)}
                   /\ Watch(ConnOf(u.conn), mdb, watched[ConnOf(u.conn)])
         /\ UNCHANGED <<spec, phase, lastApplied, password, scramSecret, deployment, queue, used>>
<1> DEFINE u == Head(rec.todo)
           new == Creds(u.name, IF IsScram(u) THEN password[u.name] ELSE None)
           unreadable == connSecret[u.conn] = Foreign \/ (IsScram(u) /\ new.password = None)
<1>1. rec.pc = "publish" /\ rec.todo # <<>> /\ rec \in Recs /\ RecOK
  BY DEF UpdateConnectionStringSecrets, TypesOK, RecOK
<1>2. Tail(rec.todo) \in UserSeqs /\ u \in UserRecords /\ <<>> \in UserSeqs
  BY <1>1, NextUser DEF UserSeqs
<1>3. new \in [user : Users, password : Passwords \cup {None}] /\ new.user = u.name
  BY <1>2 DEF Creds, TypesOK, TypeOK, UserRecords
<1>4. /\ UNCHANGED <<resource, password, scramSecret, deployment, queue, used>>
      /\ \/ /\ unreadable
            /\ rec' = [rec EXCEPT !.todo = <<>>]
            /\ UNCHANGED <<connSecret, watched, events>>
         \/ /\ ~unreadable
            /\ connSecret' = [connSecret EXCEPT ![u.conn] = new]
            /\ events' = IF connSecret' = connSecret THEN events ELSE events \cup {ConnOf(u.conn)}
            /\ Watch(ConnOf(u.conn), mdb, watched[ConnOf(u.conn)])
            /\ rec' = [rec EXCEPT !.todo = Tail(rec.todo)]
  BY DEF UpdateConnectionStringSecrets, CreateOrUpdate
<1> HIDE DEF new, unreadable
<1>5. CASE unreadable
  BY <1>1, <1>2, <1>4, <1>5, MovesToUser DEF resource
<1>6. CASE ~unreadable
  <2>1. Moved("publish", Tail(rec.todo), rec.converted)
    BY <1>1, <1>2, <1>4, <1>6, MovesToUser
  <2> QED
    BY <1>1, <1>3, <1>4, <1>6, <2>1 DEF resource
<1> QED
  BY <1>5, <1>6

\* Disturbances are counted.
LEMMA DisturbCounts ==
  ASSUME used \in Counts, NEW kind \in {"deletions", "restarts", "faults"}, Disturb(kind)
  PROVE  /\ used' \in Counts /\ (used'.faults = 0 => used.faults = 0)
         /\ kind = "faults" => used'.faults # 0
<1>1. CASE kind = "faults"
  <2>1. used' = [used EXCEPT !.faults = @ + 1]
    BY <1>1 DEF Disturb
  <2> QED
    BY <2>1 DEF Counts
<1>2. CASE kind = "deletions"
  <2>1. used' = [used EXCEPT !.deletions = @ + 1]
    BY <1>2 DEF Disturb
  <2> QED
    BY <1>2, <2>1 DEF Counts
<1>3. CASE kind = "restarts"
  <2>1. used' = [used EXCEPT !.restarts = @ + 1]
    BY <1>3 DEF Disturb
  <2> QED
    BY <1>3, <2>1 DEF Counts
<1> QED
  BY <1>1, <1>2, <1>3

\* And so are edits and new passwords.
LEMMA ChangeCounts ==
  ASSUME used \in Counts, used' = [used EXCEPT !.changes = @ + 1]
  PROVE  used' \in Counts /\ used'.faults = used.faults
BY DEF Counts

\* What the cleanup leaves of a Secret: it goes when it is to be deleted, and
\* stays then only if the request failed.
LEMMA DeleteEffect ==
  ASSUME used \in Counts, NEW secret, NEW after, NEW N, NEW V, secret \in [N -> V], None \in V,
         NEW names, NEW kept, kept \subseteq names,
         IF kept = {} THEN UNCHANGED used ELSE Disturb("faults"),
         after = [n \in DOMAIN secret |-> IF n \in names \ kept THEN None ELSE secret[n]]
  PROVE  /\ after \in [N -> V]
         /\ \A n \in N : after[n] = secret[n] \/ (n \in names /\ after[n] = None)
         /\ used' \in Counts
         /\ used'.faults = 0 => used.faults = 0 /\ \A n \in N : n \in names => after[n] = None
<1>1. CASE kept = {}
  BY <1>1
<1>2. CASE kept # {}
  BY <1>2, DisturbCounts
<1> QED
  BY <1>1, <1>2

\* Which Secrets a SCRAM user before leaves.
LEMMA LeftSecrets ==
  ASSUME NEW users, NEW last
  PROVE  /\ SecretsToDelete(users, last, "scram") =
              {u.scram : u \in {v \in Elements(last) : IsScram(v) /\
                 ~\E w \in Elements(users) : w.name = v.name /\ w.scram = v.scram}}
         /\ SecretsToDelete(users, last, "conn") =
              {u.conn : u \in {v \in Elements(last) : IsScram(v) /\
                 ~\E w \in Elements(users) : w.name = v.name /\ w.conn = v.conn}}
<1>1. SecretsToDelete(users, last, "scram") =
        {u.scram : u \in {v \in Elements(last) : IsScram(v) /\
           ~\E w \in Elements(users) : w.name = v.name /\ w.scram = v.scram}}
  BY DEF SecretsToDelete
<1>2. SecretsToDelete(users, last, "conn") =
        {u.conn : u \in {v \in Elements(last) : IsScram(v) /\
           ~\E w \in Elements(users) : w.name = v.name /\ w.conn = v.conn}}
  BY DEF SecretsToDelete
<1> QED
  BY <1>1, <1>2

\* The credentials of SCRAM users that are gone or renamed are deleted.
LEMMA CleanupScramEffect ==
  ASSUME TypesOK, CleanupScramSecrets
  PROVE  /\ rec.pc = "publish" /\ rec.todo = <<>> /\ rec.last # None
         /\ Moved("cleanConn", rec.todo, rec.converted)
         /\ scramSecret' \in [SecretNames -> CredsOrNone]
         /\ \A n \in SecretNames :
              \/ scramSecret'[n] = scramSecret[n]
              \/ n \in SecretsToDelete(rec.users, rec.last, "scram") /\ scramSecret'[n] = None
         /\ used' \in Counts
         /\ used'.faults = 0 =>
              /\ used.faults = 0
              /\ \A n \in SecretNames :
                   n \in SecretsToDelete(rec.users, rec.last, "scram") => scramSecret'[n] = None
         /\ UNCHANGED <<resource, password, connSecret, deployment, watched, queue, events>>
<1>1. rec \in Recs /\ "cleanConn" \in Steps
  BY DEF TypesOK, RecOK, Steps
<1>2. Moved("cleanConn", rec.todo, rec.converted)
  BY <1>1, MovesOn DEF CleanupScramSecrets
<1>3. PICK kept : Delete(scramSecret, SecretsToDelete(rec.users, rec.last, "scram"), kept)
  BY DEF CleanupScramSecrets
<1>4. None \in CredsOrNone /\ scramSecret \in [SecretNames -> CredsOrNone] /\ used \in Counts
  BY DEF CredsOrNone, TypesOK, TypeOK
<1> DEFINE names == SecretsToDelete(rec.users, rec.last, "scram")
<1>5. /\ kept \subseteq names
      /\ IF kept = {} THEN UNCHANGED used ELSE Disturb("faults")
      /\ scramSecret' = [n \in DOMAIN scramSecret |->
                           IF n \in names \ kept THEN None ELSE scramSecret[n]]
  BY <1>3 DEF Delete
<1> HIDE DEF names
<1>6. /\ scramSecret' \in [SecretNames -> CredsOrNone]
      /\ \A n \in SecretNames :
           scramSecret'[n] = scramSecret[n] \/ (n \in names /\ scramSecret'[n] = None)
      /\ used' \in Counts
      /\ used'.faults = 0 =>
           used.faults = 0 /\ \A n \in SecretNames : n \in names => scramSecret'[n] = None
  BY <1>4, <1>5, DeleteEffect
<1> QED
  BY <1>2, <1>6 DEF CleanupScramSecrets, names

\* And so are their connection strings.
LEMMA CleanupConnEffect ==
  ASSUME TypesOK, CleanupConnectionStringSecrets
  PROVE  /\ rec.pc = "cleanConn"
         /\ Moved("save", rec.todo, rec.converted)
         /\ connSecret' \in [ConnNames -> CredsOrNone \cup {Foreign}]
         /\ \A c \in ConnNames :
              \/ connSecret'[c] = connSecret[c]
              \/ c \in SecretsToDelete(rec.users, rec.last, "conn") /\ connSecret'[c] = None
         /\ used' \in Counts
         /\ used'.faults = 0 =>
              /\ used.faults = 0
              /\ \A c \in ConnNames :
                   c \in SecretsToDelete(rec.users, rec.last, "conn") => connSecret'[c] = None
         /\ events' \subseteq events \cup {ConnOf(c) : c \in ConnNames}
         /\ UNCHANGED <<resource, password, scramSecret, deployment, watched, queue>>
<1>1. rec \in Recs /\ "save" \in Steps
  BY DEF TypesOK, RecOK, Steps
<1>2. Moved("save", rec.todo, rec.converted)
  BY <1>1, MovesOn DEF CleanupConnectionStringSecrets
<1>3. PICK kept : Delete(connSecret, SecretsToDelete(rec.users, rec.last, "conn"), kept)
  BY DEF CleanupConnectionStringSecrets
<1> DEFINE values == CredsOrNone \cup {Foreign}
<1>4. None \in values /\ connSecret \in [ConnNames -> values] /\ used \in Counts
  BY DEF CredsOrNone, TypesOK, TypeOK
<1> DEFINE names == SecretsToDelete(rec.users, rec.last, "conn")
<1>5. /\ kept \subseteq names
      /\ IF kept = {} THEN UNCHANGED used ELSE Disturb("faults")
      /\ connSecret' = [n \in DOMAIN connSecret |->
                          IF n \in names \ kept THEN None ELSE connSecret[n]]
  BY <1>3 DEF Delete
<1> HIDE DEF names, values
<1>6. /\ connSecret' \in [ConnNames -> values]
      /\ \A n \in ConnNames :
           connSecret'[n] = connSecret[n] \/ (n \in names /\ connSecret'[n] = None)
      /\ used' \in Counts
      /\ used'.faults = 0 =>
           used.faults = 0 /\ \A n \in ConnNames : n \in names => connSecret'[n] = None
  BY <1>4, <1>5, DeleteEffect
<1>7. events' \subseteq events \cup {ConnOf(c) : c \in ConnNames}
  BY DEF CleanupConnectionStringSecrets
<1> QED
  BY <1>2, <1>6, <1>7 DEF CleanupConnectionStringSecrets, names, values

\* The users are saved as the last applied ones, unless that fails.
LEMMA SaveEffect ==
  ASSUME TypesOK, UpdateLastSuccessfulConfiguration
  PROVE  /\ rec.pc = "save" \/ (rec.pc = "publish" /\ rec.last = None)
         /\ \/ lastApplied' = rec.users /\ used' = used
            \/ lastApplied' = lastApplied /\ used'.faults # 0
         /\ used' \in Counts /\ (used'.faults = 0 => used.faults = 0)
         /\ rec' = Idle
         /\ UNCHANGED <<spec, phase, secrets, deployment, watched, queue, events>>
<1>1. used \in Counts
  BY DEF TypesOK
<1>2. Disturb("faults") => /\ used' \in Counts /\ (used'.faults = 0 => used.faults = 0)
                           /\ used'.faults # 0
  BY <1>1, DisturbCounts
<1>3. \/ lastApplied' = rec.users /\ used' = used
      \/ lastApplied' = lastApplied /\ Disturb("faults")
  BY DEF UpdateLastSuccessfulConfiguration
<1>4. /\ rec.pc = "save" \/ (rec.pc = "publish" /\ rec.last = None)
      /\ rec' = Idle
      /\ UNCHANGED <<spec, phase, secrets, deployment, watched, queue, events>>
  BY DEF UpdateLastSuccessfulConfiguration
<1> QED
  BY <1>1, <1>2, <1>3, <1>4

\* A failed request ends the reconciliation or the publishing.
LEMMA FailEffect ==
  ASSUME TypesOK, RequestFails
  PROVE  /\ used' \in Counts /\ used'.faults # 0
         /\ \/ rec' = Idle /\ phase' \in {"Failed", phase} /\ queue' = queue \cup {mdb}
            \/ /\ rec.pc = "publish" /\ rec.todo # <<>> /\ Moved("publish", <<>>, rec.converted)
               /\ UNCHANGED <<phase, queue>>
         /\ UNCHANGED <<spec, lastApplied, secrets, deployment, watched, events>>
<1>1. used \in Counts /\ rec \in Recs /\ <<>> \in UserSeqs
  BY DEF TypesOK, RecOK, UserSeqs
<1>2. used' \in Counts /\ used'.faults # 0
  BY <1>1, DisturbCounts DEF RequestFails
<1>3. CASE EndWithPhase("Failed")
  BY <1>2, <1>3 DEF RequestFails, EndWithPhase
<1>4. CASE /\ rec.pc = "publish" /\ rec.todo # <<>>
           /\ rec' = [rec EXCEPT !.todo = <<>>]
           /\ UNCHANGED <<resource, queue>>
  BY <1>1, <1>2, <1>4, MovesToUser DEF RequestFails, resource
<1> QED
  BY <1>3, <1>4 DEF RequestFails

-----------------------------------------------------------------------------
(***************************************************************************)
(* Types.                                                                  *)
(***************************************************************************)
\* The resource has not been reconciled yet.
LEMMA InitTypes == Init => TypesOK
<1> SUFFICES ASSUME Init PROVE TypesOK
  OBVIOUS
<1>1. used \in Counts
  BY DEF Init, Counts
<1>2. RecOK
  BY IdleFacts, ElementsOfList DEF Init, RecOK, Elements
<1>3. watched \in [Objects -> SUBSET {mdb}]
  BY DEF Init, NewWatcher
<1>4. /\ spec \in UserLists /\ phase \in {"", "Running", "Pending", "Failed"}
      /\ lastApplied \in UserLists \cup {None}
      /\ password \in [Users -> Passwords \cup {None}]
      /\ scramSecret \in [SecretNames -> CredsOrNone]
      /\ connSecret \in [ConnNames -> CredsOrNone \cup {Foreign}]
  BY UserSecretsAssumption DEF Init, CredsOrNone
<1>5. /\ config.users \subseteq [name : Users, creds : CredsOrNone]
      /\ config.deleted \subseteq Users \ External
      /\ inGoal \in BOOLEAN /\ db \subseteq [name : Users, creds : CredsOrNone]
      /\ queue \subseteq {mdb} /\ events \subseteq Objects
      /\ rec.pc \in {"idle", "ensure", "enable", "await", "publish", "cleanConn", "save"}
  BY IdleFacts DEF Init
<1> QED
  BY <1>1, <1>2, <1>3, <1>4, <1>5 DEF TypesOK, TypeOK

\* A reconciliation that ends or goes on to another user is what it has to be.
LEMMA RecStopped ==
  ASSUME rec' = Idle
  PROVE  RecOK'
<1>1. Elements(<<>>) = {}
  BY DEF Elements
<1> QED
  BY <1>1, IdleFacts DEF RecOK

\* The copy of a reconciliation that moves on stays well formed.
LEMMA RecMoved ==
  ASSUME RecOK, rec.pc # "idle", NEW c \in Steps, NEW t \in UserSeqs, NEW v, Moved(c, t, v),
         c = "ensure" => t # <<>>, Elements(t) \subseteq Elements(rec.users)
  PROVE  RecOK'
BY DEF RecOK, Moved

\* The users of the last applied list can be deleted.
LEMMA RemovedAreUsers ==
  ASSUME NEW users, NEW last \in UserLists \cup {None}
  PROVE  RemovedUsers(users, last) \subseteq Users \ External
<1>1. CASE last = None
  BY <1>1 DEF RemovedUsers
<1>2. CASE last # None
  <2>1. \A u \in Elements(last) : u.name \in Users
    BY <1>2, UsersOfList DEF UserRecords
  <2> QED
    BY <1>2, <2>1 DEF RemovedUsers, NamesOf
<1> QED
  BY <1>1, <1>2

\* Each step of the reconciliation leaves a well-formed reconciliation.
LEMMA RecStep ==
  ASSUME TypesOK, [Next]_vars
  PROVE  RecOK'
<1>0. RecOK /\ rec \in Recs /\ rec.todo \in UserSeqs /\ rec.users \in UserSeqs /\ <<>> \in UserSeqs
  BY DEF TypesOK, RecOK, Recs, UserSeqs
<1>a. {"ensure", "enable", "await", "publish", "cleanConn", "save"} \subseteq Steps
  BY DEF Steps
<1>b. Elements(<<>>) = {} /\ Elements(rec.todo) \subseteq Elements(rec.users)
  BY <1>0, ElementsOfList DEF RecOK
<1>c. rec.pc # "idle" /\ rec.todo # <<>> =>
        Tail(rec.todo) \in UserSeqs /\ Elements(Tail(rec.todo)) \subseteq Elements(rec.users)
  BY <1>0, <1>b, NextUser
<1>1. CASE StartReconcile
  BY <1>1, StartEffect DEF RecOK
<1>2. CASE EnsureUserResources
  <2>1. rec.todo # <<>>
    BY <1>0, <1>2, EnsureEffect DEF RecOK
  <2> QED
    BY <1>0, <1>a, <1>c, <1>2, <2>1, EnsureEffect, RecStopped, RecMoved
<1>3. CASE Enable
  <2>1. CASE rec' = Idle
    BY <2>1, RecStopped
  <2>2. CASE \E v : Moved("enable", Tail(rec.todo), v)
    BY <1>0, <1>a, <1>c, <1>3, <2>2, RecMoved DEF Enable
  <2> QED
    BY <1>3, <2>1, <2>2, EnableEffect
<1>4. CASE EnsureAutomationConfig
  BY <1>0, <1>a, <1>b, <1>4, ConfigEffect, RecMoved
<1>5. CASE AwaitAgents
  BY <1>0, <1>a, <1>b, <1>5, AwaitEffect, RecMoved, RecStopped
<1>6. CASE UpdateConnectionStringSecrets
  <2>1. \/ Moved("publish", <<>>, rec.converted)
        \/ Moved("publish", Tail(rec.todo), rec.converted)
    BY <1>6, PublishEffect
  <2>2. rec.pc = "publish" /\ rec.todo # <<>>
    BY <1>6, PublishEffect
  <2> QED
    BY <1>0, <1>a, <1>b, <1>c, <2>1, <2>2, RecMoved
<1>7. CASE CleanupScramSecrets
  BY <1>0, <1>a, <1>b, <1>7, CleanupScramEffect, RecMoved
<1>8. CASE CleanupConnectionStringSecrets
  BY <1>0, <1>a, <1>b, <1>8, CleanupConnEffect, RecMoved
<1>9. CASE UpdateLastSuccessfulConfiguration
  BY <1>9, SaveEffect, RecStopped
<1>10. CASE RequestFails
  BY <1>0, <1>a, <1>b, <1>10, FailEffect, RecMoved, RecStopped
<1>11. CASE InvalidUsers \/ Restart
  BY <1>11, RecStopped DEF InvalidUsers, EndWithPhase, Restart
<1>12. CASE rec' = rec
  BY <1>0, <1>12 DEF RecOK
<1> QED
  BY <1>1, <1>2, <1>3, <1>4, <1>5, <1>6, <1>7, <1>8, <1>9, <1>10, <1>11, <1>12
     DEF Next, Reconcile, AgentsReachGoal, EditUsers, DeletePassword, SetPassword,
         DeleteConnectionString, Notify, vars

\* The resource, the Secrets and the deployment keep their types.
LEMMA TypeStep ==
  ASSUME TypesOK, [Next]_vars
  PROVE  TypeOK' /\ used' \in Counts
<1>0. TypeOK /\ RecOK /\ rec \in Recs /\ used \in Counts /\ RecOK'
  BY RecStep DEF TypesOK, RecOK
<1>1. rec'.pc \in {"idle", "ensure", "enable", "await", "publish", "cleanConn", "save"}
  BY <1>0 DEF RecOK, Recs, Steps
<1>w. ASSUME NEW o \in Objects, Watch(o, mdb, watched[o])
      PROVE  watched' \in [Objects -> SUBSET {mdb}]
  BY <1>0, <1>w DEF Watch, TypeOK
<1>o. /\ \A u \in Users : PasswordOf(u) \in Objects
      /\ \A c \in ConnNames : ConnOf(c) \in Objects
  BY DEF Objects
<1>n. rec.pc # "idle" /\ rec.todo # <<>> => Head(rec.todo) \in UserRecords
  BY <1>0, NextUser
<1> USE DEF TypeOK
<1>2. CASE StartReconcile
  BY <1>0, <1>1, <1>2, StartEffect DEF StartReconcile, resource, secrets, deployment
<1>3. CASE EnsureUserResources
  <2>1. rec.pc = "ensure" /\ rec.todo # <<>>
    BY <1>0, <1>3, EnsureEffect DEF RecOK
  <2>2. watched' \in [Objects -> SUBSET {mdb}]
    <3>1. CASE UNCHANGED watched
      BY <1>0, <3>1
    <3>2. CASE Watch(PasswordOf(Head(rec.todo).name), mdb, watched[PasswordOf(Head(rec.todo).name)])
      BY <1>w, <1>o, <1>n, <2>1, <3>2 DEF UserRecords
    <3> QED
      BY <1>3, <3>1, <3>2 DEF EnsureUserResources
  <2>3. queue' \subseteq {mdb} /\ phase' \in {"", "Running", "Pending", "Failed"}
    BY <1>0, <1>3 DEF EnsureUserResources, UserEnsured, EndWithPhase, resource
  <2> QED
    BY <1>0, <1>1, <1>3, <2>2, <2>3, EnsureEffect DEF secrets, deployment
<1>4. CASE Enable
  <2>1. rec.pc = "enable" /\ rec.todo # <<>>
    BY <1>4, EnableEffect
  <2>2. scramSecret' \in [SecretNames -> CredsOrNone]
    BY <1>0, <1>4, EnableEffect
  <2>3. queue' \subseteq {mdb} /\ phase' \in {"", "Running", "Pending", "Failed"}
    BY <1>0, <1>4 DEF Enable, EnsureScramCredentials, ReadExistingCredentials, ConvertX509, Convert,
       EndWithPhase, resource
  <2>4. UNCHANGED <<spec, lastApplied, password, connSecret, deployment, watched, events, used>>
    BY <1>4, EnableEffect
  <2> QED
    BY <1>0, <1>1, <2>2, <2>3, <2>4 DEF deployment
<1>5. CASE EnsureAutomationConfig
  <2>1. config'.users \subseteq [name : Users, creds : CredsOrNone]
    BY <1>0, <1>5, ConfigEffect DEF Recs, ConfigUsers
  <2>2. config'.deleted \subseteq Users \ External
    <3>1. rec.last \in UserLists \cup {None}
      BY <1>0 DEF Recs
    <3>2. RemovedUsers(rec.users, rec.last) \subseteq Users \ External
      BY <3>1, RemovedAreUsers
    <3> QED
      BY <1>5, <3>2, ConfigEffect
  <2> QED
    BY <1>0, <1>1, <1>5, <2>1, <2>2, ConfigEffect DEF resource, secrets
<1>6. CASE AwaitAgents
  <2>1. /\ phase' \in {"Running", "Pending", phase} /\ queue' \subseteq {mdb}
        /\ UNCHANGED <<spec, lastApplied, secrets, deployment, watched, events, used>>
    BY <1>0, <1>6, AwaitEffect
  <2> QED
    BY <1>0, <1>1, <2>1 DEF secrets, deployment
<1>7. CASE UpdateConnectionStringSecrets
  <2>0. /\ rec.pc = "publish" /\ rec.todo # <<>>
        /\ UNCHANGED <<spec, phase, lastApplied, password, scramSecret, deployment, queue, used>>
    BY <1>7, PublishEffect
  <2>1. CASE UNCHANGED <<connSecret, watched, events>>
    BY <1>0, <1>1, <2>0, <2>1 DEF deployment
  <2>2. CASE LET u == Head(rec.todo)
             IN  /\ \E new \in [user : Users, password : Passwords \cup {None}] :
                      connSecret' = [connSecret EXCEPT ![u.conn] = new]
                 /\ \/ events' = events \/ events' = events \cup {ConnOf(u.conn)}
                 /\ Watch(ConnOf(u.conn), mdb, watched[ConnOf(u.conn)])
    <3>1. Head(rec.todo).conn \in ConnNames
      BY <1>n, <2>0 DEF UserRecords
    <3>2. watched' \in [Objects -> SUBSET {mdb}] /\ events' \subseteq Objects
      BY <1>0, <1>w, <1>o, <2>2, <3>1
    <3>3. connSecret' \in [ConnNames -> CredsOrNone \cup {Foreign}]
      BY <1>0, <2>2, <3>1 DEF CredsOrNone
    <3> QED
      BY <1>0, <1>1, <2>0, <3>2, <3>3 DEF deployment
  <2> QED
    BY <1>7, <2>1, <2>2, PublishEffect
<1>8. CASE CleanupScramSecrets
  BY <1>0, <1>1, <1>8, CleanupScramEffect DEF resource, deployment
<1>9. CASE CleanupConnectionStringSecrets
  <2>1. events' \subseteq Objects
    <3>1. events' \subseteq events \cup {ConnOf(c) : c \in ConnNames}
      BY <1>9, CleanupConnEffect
    <3>2. events \subseteq Objects
      BY <1>0
    <3>3. {ConnOf(c) : c \in ConnNames} \subseteq Objects
      BY DEF Objects
    <3> QED
      BY <3>1, <3>2, <3>3
  <2> QED
    BY <1>0, <1>1, <1>9, <2>1, CleanupConnEffect DEF resource, deployment
<1>10. CASE UpdateLastSuccessfulConfiguration
  <2>1. lastApplied' \in UserLists \cup {None}
    BY <1>0, <1>10, SaveEffect DEF RecOK
  <2> QED
    BY <1>0, <1>1, <1>10, <2>1, SaveEffect DEF secrets, deployment
<1>11. CASE RequestFails
  BY <1>0, <1>1, <1>11, FailEffect DEF secrets, deployment
<1>12. CASE InvalidUsers
  BY <1>0, <1>1, <1>12 DEF InvalidUsers, EndWithPhase, secrets, deployment
<1>13. CASE Restart
  <2>1. used' \in Counts
    BY <1>0, <1>13, DisturbCounts DEF Restart
  <2> QED
    BY <1>0, <1>1, <1>13, <2>1 DEF Restart, NewWatcher, resource, secrets, deployment
<1>14. CASE AgentsReachGoal
  BY <1>0, <1>1, <1>14 DEF AgentsReachGoal, resource, secrets
<1>15. ASSUME NEW list \in UserLists, EditUsers(list) PROVE TypeOK' /\ used' \in Counts
  <2>1. used' \in Counts
    BY <1>0, <1>15, ChangeCounts DEF EditUsers
  <2> QED
    BY <1>0, <1>1, <1>15, <2>1 DEF EditUsers, secrets, deployment
<1>16. ASSUME NEW u \in Users \ External, NEW p \in Passwords, SetPassword(u, p)
       PROVE  TypeOK' /\ used' \in Counts
  <2>1. used' \in Counts
    BY <1>0, <1>16, ChangeCounts DEF SetPassword
  <2> QED
    BY <1>0, <1>1, <1>o, <1>16, <2>1 DEF SetPassword, resource, deployment
<1>17. ASSUME NEW u \in Users \ External, DeletePassword(u) PROVE TypeOK' /\ used' \in Counts
  <2>1. used' \in Counts
    BY <1>0, <1>17, DisturbCounts DEF DeletePassword
  <2> QED
    BY <1>0, <1>1, <1>o, <1>17, <2>1 DEF DeletePassword, resource, deployment
<1>18. ASSUME NEW c \in ConnNames, DeleteConnectionString(c) PROVE TypeOK' /\ used' \in Counts
  <2>1. used' \in Counts
    BY <1>0, <1>18, DisturbCounts DEF DeleteConnectionString
  <2> QED
    BY <1>0, <1>1, <1>o, <1>18, <2>1 DEF DeleteConnectionString, CredsOrNone, resource, deployment
<1>19. ASSUME NEW o \in Objects, Notify(o) PROVE TypeOK' /\ used' \in Counts
  BY <1>0, <1>1, <1>19 DEF Notify, HandleEvent, resource, secrets, deployment
<1>20. CASE UNCHANGED vars
  BY <1>0, <1>20 DEF vars, resource, secrets, deployment
<1> QED
  BY <1>2, <1>3, <1>4, <1>5, <1>6, <1>7, <1>8, <1>9, <1>10, <1>11, <1>12, <1>13, <1>14, <1>15,
     <1>16, <1>17, <1>18, <1>19, <1>20 DEF Next, Reconcile

\* In every reachable state every variable holds a value of its kind: the
\* config names users and credentials only, and only SCRAM users are deleted.
THEOREM UserTypeCorrect == Spec => []TypeOK
<1>1. TypesOK /\ [Next]_vars => TypesOK'
  BY RecStep, TypeStep DEF TypesOK
<1>2. TypesOK => TypeOK
  BY DEF TypesOK
<1> QED
  BY <1>1, <1>2, InitTypes, PTL DEF Spec

\* The types and the well-formed reconciliation, for the proofs below.
LEMMA TypesInvariant == Spec => []TypesOK
<1>1. TypesOK /\ [Next]_vars => TypesOK'
  BY RecStep, TypeStep DEF TypesOK
<1> QED
  BY <1>1, InitTypes, PTL DEF Spec

\* What a step does to the users and their Secrets, if it is no step of the
\* reconciliation, the agents or the user.
LEMMA OtherSteps ==
  ASSUME TypesOK, [Next]_vars
  PROVE  \/ StartReconcile \/ EnsureUserResources \/ Enable \/ EnsureAutomationConfig
         \/ AwaitAgents \/ UpdateConnectionStringSecrets \/ CleanupScramSecrets
         \/ CleanupConnectionStringSecrets \/ UpdateLastSuccessfulConfiguration
         \/ RequestFails \/ AgentsReachGoal
         \/ \E list \in UserLists : EditUsers(list)
         \/ \E c \in ConnNames : DeleteConnectionString(c)
         \/ /\ rec' \in {Idle, rec}
            /\ UNCHANGED <<spec, lastApplied, scramSecret, connSecret, config, inGoal, db>>
            /\ used'.faults = 0 => used.faults = 0
<1>0. used \in Counts
  BY DEF TypesOK
<1>1. CASE InvalidUsers
  BY <1>1 DEF InvalidUsers, EndWithPhase, secrets, deployment
<1>2. CASE Restart
  BY <1>0, <1>2, DisturbCounts DEF Restart, resource, secrets, deployment
<1>3. ASSUME NEW u, DeletePassword(u)
      PROVE  /\ rec' \in {Idle, rec}
             /\ UNCHANGED <<spec, lastApplied, scramSecret, connSecret, config, inGoal, db>>
             /\ used'.faults = 0 => used.faults = 0
  BY <1>0, <1>3, DisturbCounts DEF DeletePassword, resource, deployment
<1>4. ASSUME NEW u, NEW p, SetPassword(u, p)
      PROVE  /\ rec' \in {Idle, rec}
             /\ UNCHANGED <<spec, lastApplied, scramSecret, connSecret, config, inGoal, db>>
             /\ used'.faults = 0 => used.faults = 0
  BY <1>0, <1>4, ChangeCounts DEF SetPassword, resource, deployment
<1>5. ASSUME NEW o, Notify(o)
      PROVE  /\ rec' \in {Idle, rec}
             /\ UNCHANGED <<spec, lastApplied, scramSecret, connSecret, config, inGoal, db>>
             /\ used'.faults = 0 => used.faults = 0
  BY <1>5 DEF Notify, resource, secrets, deployment
<1>6. CASE UNCHANGED vars
  BY <1>6 DEF vars, resource, secrets, deployment
<1> QED
  BY <1>1, <1>2, <1>3, <1>4, <1>5, <1>6 DEF Next, Reconcile

-----------------------------------------------------------------------------
(***************************************************************************)
(* Whose credentials are stored.                                           *)
(***************************************************************************)
\* The lists the user chooses never give one SCRAM user the Secret name that
\* another has, or had.
NamesNotShared ==
  \A k, l \in UserLists : ValidateUsers(k) /\ ValidateUsers(l) =>
    \A u \in Elements(k), v \in Elements(l) :
      IsScram(u) /\ IsScram(v) /\ u.scram = v.scram => u.name = v.name

ScramOwned ==
  \A l \in UserLists : ValidateUsers(l) =>
    \A u \in Elements(l) : IsScram(u) /\ scramSecret[u.scram] # None =>
      scramSecret[u.scram].user = u.name

ConvertedOwn == \A c \in rec.converted : c.creds # None => c.creds.user = c.name

OwnInvariant == ScramOwned /\ ConvertedOwn /\ OwnCredentials

\* A name for which a user of an accepted list gets credentials is the name of
\* that user's Secret in every other accepted list.
LEMMA OwnStep ==
  ASSUME NamesNotShared, TypesOK, OwnInvariant, [Next]_vars
  PROVE  OwnInvariant'
<1>0. RecOK /\ rec \in Recs /\ scramSecret \in [SecretNames -> CredsOrNone]
  BY DEF TypesOK, TypeOK, RecOK
<1>1. CASE /\ scramSecret' = scramSecret /\ config' = config
           /\ rec'.converted \in {rec.converted, {}}
  BY <1>1 DEF OwnInvariant, ScramOwned, ConvertedOwn, OwnCredentials
<1>2. CASE Enable
  <2>0. rec.pc = "enable" /\ rec.todo # <<>> /\ config' = config
    BY <1>2, EnableEffect DEF deployment
  <2>1. CASE rec' = Idle /\ scramSecret' = scramSecret
    BY <1>1, <2>0, <2>1, IdleFacts
  <2>2. ASSUME NEW creds \in CredsOrNone,
               LET u == Head(rec.todo)
               IN  /\ Moved("enable", Tail(rec.todo),
                            rec.converted \cup {[name |-> u.name, creds |-> creds]})
                   /\ \/ /\ ~IsScram(u) /\ creds = None /\ scramSecret' = scramSecret
                      \/ /\ IsScram(u) /\ creds # None /\ creds = scramSecret[u.scram]
                         /\ scramSecret' = scramSecret
                      \/ /\ IsScram(u) /\ creds # None /\ creds.user = u.name
                         /\ scramSecret' = [scramSecret EXCEPT ![u.scram] = creds]
        PROVE  OwnInvariant'
    <3> DEFINE u == Head(rec.todo)
    <3>1. /\ rec.users \in UserLists /\ ValidateUsers(rec.users) /\ u \in Elements(rec.users)
          /\ IsScram(u) => u.scram \in SecretNames
      BY <1>0, <2>0, NextUser DEF RecOK
    <3>2. creds # None => creds.user = u.name
      BY <2>2, <3>1 DEF OwnInvariant, ScramOwned
    <3>3. rec'.converted = rec.converted \cup {[name |-> u.name, creds |-> creds]}
      BY <2>2 DEF Moved
    <3>4. ConvertedOwn'
      BY <3>2, <3>3 DEF OwnInvariant, ConvertedOwn
    <3>5. ScramOwned'
      <4>1. CASE scramSecret' = scramSecret
        BY <4>1 DEF OwnInvariant, ScramOwned
      <4>2. CASE IsScram(u) /\ creds.user = u.name /\ scramSecret' = [scramSecret EXCEPT ![u.scram] = creds]
        <5> SUFFICES ASSUME NEW l \in UserLists, ValidateUsers(l), NEW v \in Elements(l), IsScram(v),
                            scramSecret'[v.scram] # None
                     PROVE  scramSecret'[v.scram].user = v.name
          BY DEF ScramOwned
        <5>0. v.scram \in SecretNames
          BY UsersOfList
        <5>1. CASE v.scram = u.scram
          <6>1. v.name = u.name
            BY <3>1, <4>2, <5>1, NamesNotShared DEF NamesNotShared
          <6> QED
            BY <1>0, <4>2, <5>0, <5>1, <6>1
        <5>2. CASE v.scram # u.scram
          BY <1>0, <4>2, <5>0, <5>2 DEF OwnInvariant, ScramOwned
        <5> QED
          BY <5>1, <5>2
      <4> QED
        BY <2>2, <4>1, <4>2
    <3> QED
      BY <2>0, <3>4, <3>5 DEF OwnInvariant, OwnCredentials
  <2> QED
    BY <1>2, <2>1, <2>2, EnableEffect
<1>3. CASE EnsureAutomationConfig
  BY <1>3, ConfigEffect DEF Moved, OwnInvariant, ScramOwned, ConvertedOwn, OwnCredentials, secrets
<1>4. CASE CleanupScramSecrets
  <2>1. config' = config /\ rec'.converted = rec.converted
    BY <1>4, CleanupScramEffect DEF Moved, deployment
  <2>2. \A n \in SecretNames : scramSecret'[n] \in {scramSecret[n], None}
    BY <1>4, CleanupScramEffect
  <2>3. ScramOwned'
    BY <2>2, UsersOfList DEF OwnInvariant, ScramOwned
  <2> QED
    BY <2>1, <2>3 DEF OwnInvariant, ConvertedOwn, OwnCredentials
<1>5. CASE StartReconcile
  BY <1>1, <1>5, StartEffect DEF secrets, deployment
<1>6. CASE EnsureUserResources
  BY <1>1, <1>6, EnsureEffect, IdleFacts DEF Moved, secrets, deployment
<1>7. CASE AwaitAgents
  BY <1>1, <1>7, AwaitEffect, IdleFacts DEF Moved, secrets, deployment
<1>8. CASE UpdateConnectionStringSecrets
  BY <1>1, <1>8, PublishEffect DEF Moved, deployment
<1>9. CASE CleanupConnectionStringSecrets
  BY <1>1, <1>9, CleanupConnEffect DEF Moved, deployment
<1>10. CASE UpdateLastSuccessfulConfiguration
  BY <1>1, <1>10, SaveEffect, IdleFacts DEF secrets, deployment
<1>11. CASE RequestFails
  BY <1>1, <1>11, FailEffect, IdleFacts DEF Moved, secrets, deployment
<1>12. CASE AgentsReachGoal
  BY <1>1, <1>12 DEF AgentsReachGoal, secrets
<1>13. ASSUME NEW list, EditUsers(list) PROVE OwnInvariant'
  BY <1>1, <1>13 DEF EditUsers, secrets, deployment
<1>14. ASSUME NEW c, DeleteConnectionString(c) PROVE OwnInvariant'
  BY <1>1, <1>14 DEF DeleteConnectionString, deployment
<1> QED
  BY <1>1, <1>2, <1>3, <1>4, <1>5, <1>6, <1>7, <1>8, <1>9, <1>10, <1>11, <1>12, <1>13, <1>14,
     OtherSteps, IdleFacts

\* Nobody gets the credentials of another user, although those of a user without
\* a password are looked up by the name of a Secret only: however often the
\* user edits, and whatever is deleted, restarted or fails in between, as long
\* as no user is given a name that another one has or had.
THEOREM OwnCredentialsTheorem ==
  ASSUME NamesNotShared
  PROVE  Spec => []OwnCredentials
<1>1. Init => OwnInvariant
  <2> SUFFICES ASSUME Init PROVE OwnInvariant
    OBVIOUS
  <2>1. config.users = {} /\ rec.converted = {} /\ \A n \in SecretNames : scramSecret[n] = None
    BY IdleFacts DEF Init
  <2> QED
    BY <2>1, UsersOfList DEF OwnInvariant, ScramOwned, ConvertedOwn, OwnCredentials
<1>2. TypesOK /\ OwnInvariant /\ [Next]_vars => OwnInvariant'
  BY OwnStep, NamesNotShared
<1>3. OwnInvariant => OwnCredentials
  BY DEF OwnInvariant
<1> QED
  BY <1>1, <1>2, <1>3, TypesInvariant, PTL DEF Spec

\* While every password is there, what has been converted is everybody's own.
ReuseInvariant ==
  used.deletions = 0 => /\ \A u \in Users : password[u] # None
                        /\ ConvertedOwn /\ OwnCredentials

\* A deletion is counted, and nothing else takes a password away.
LEMMA PasswordStep ==
  ASSUME TypesOK, [Next]_vars, used'.deletions = 0, ReuseInvariant
  PROVE  used.deletions = 0 /\ \A u \in Users : password'[u] # None
<1>0. used \in Counts /\ password \in [Users -> Passwords \cup {None}]
  BY DEF TypesOK, TypeOK
<1>1. ASSUME NEW kind \in {"restarts", "faults"}, Disturb(kind)
      PROVE  used'.deletions = used.deletions
  BY <1>0, <1>1 DEF Disturb, Counts
<1>2. ASSUME Disturb("deletions") PROVE FALSE
  <2>1. used' = [used EXCEPT !.deletions = @ + 1]
    BY <1>2 DEF Disturb
  <2> QED
    BY <1>0, <2>1 DEF Counts
<1>3. CASE used'.deletions = used.deletions /\ password' = password
  BY <1>3 DEF ReuseInvariant
<1>4. ASSUME NEW u \in Users, NEW p \in Passwords, SetPassword(u, p)
      PROVE  used.deletions = 0 /\ \A v \in Users : password'[v] # None
  <2>1. used' = [used EXCEPT !.changes = @ + 1] /\ password' = [password EXCEPT ![u] = p]
    BY <1>4 DEF SetPassword
  <2>2. used.deletions = 0
    BY <1>0, <2>1 DEF Counts
  <2>3. p # None
    BY UserSecretsAssumption
  <2> QED
    BY <1>0, <2>1, <2>2, <2>3 DEF ReuseInvariant
<1>5. ASSUME NEW list, EditUsers(list) PROVE used'.deletions = used.deletions /\ password' = password
  <2>1. used' = [used EXCEPT !.changes = @ + 1] /\ password' = password
    BY <1>5 DEF EditUsers, secrets
  <2> QED
    BY <1>0, <2>1 DEF Counts
<1>6. CASE CleanupScramSecrets
  BY <1>1, <1>3, <1>6 DEF CleanupScramSecrets, Delete
<1>7. CASE CleanupConnectionStringSecrets
  BY <1>1, <1>3, <1>7 DEF CleanupConnectionStringSecrets, Delete
<1>8. CASE \/ StartReconcile \/ InvalidUsers \/ EnsureUserResources \/ Enable
           \/ EnsureAutomationConfig \/ AwaitAgents \/ UpdateConnectionStringSecrets
           \/ AgentsReachGoal \/ UNCHANGED vars
  BY <1>3, <1>8 DEF StartReconcile, InvalidUsers, EnsureUserResources, Enable,
        EnsureAutomationConfig, AwaitAgents, UpdateConnectionStringSecrets, AgentsReachGoal,
        vars, secrets
<1>9. CASE UpdateLastSuccessfulConfiguration
  BY <1>1, <1>3, <1>9 DEF UpdateLastSuccessfulConfiguration, secrets
<1>10. CASE RequestFails \/ Restart
  BY <1>1, <1>3, <1>10 DEF RequestFails, Restart, secrets
<1>11. ASSUME NEW u, DeletePassword(u) PROVE FALSE
  BY <1>2, <1>11 DEF DeletePassword
<1>12. ASSUME NEW c, DeleteConnectionString(c) PROVE FALSE
  BY <1>2, <1>12 DEF DeleteConnectionString
<1>13. ASSUME NEW o, Notify(o) PROVE used'.deletions = used.deletions /\ password' = password
  BY <1>13 DEF Notify, secrets
<1> QED
  BY <1>3, <1>4, <1>5, <1>6, <1>7, <1>8, <1>9, <1>10, <1>11, <1>12, <1>13 DEF Next, Reconcile

\* With a password, stored credentials are only used if they are the user's.
LEMMA EnableWithPassword ==
  ASSUME TypesOK, Enable, \A u \in Users : password[u] # None, ConvertedOwn
  PROVE  ConvertedOwn'
<1> DEFINE u == Head(rec.todo)
           own == Creds(u.name, password[u.name])
<1>1. rec.todo # <<>> /\ rec.pc = "enable" /\ RecOK /\ rec \in Recs
  BY DEF Enable, TypesOK, RecOK
<1>2. u \in UserRecords /\ u.name \in Users
  BY <1>1, NextUser DEF UserRecords
<1>3. ASSUME NEW creds, Convert(u, creds), creds # None => creds.user = u.name
      PROVE  ConvertedOwn'
  <2>1. rec'.converted = rec.converted \cup {[name |-> u.name, creds |-> creds]}
    BY <1>1, <1>3 DEF Convert, Recs
  <2> QED
    BY <1>3, <2>1 DEF ConvertedOwn
<1>4. CASE ~IsScram(u)
  BY <1>3, <1>4 DEF Enable, ConvertX509
<1>5. CASE IsScram(u)
  <2>1. EnsureScramCredentials(u)
    BY <1>5 DEF Enable
  <2>2. own.user = u.name
    BY DEF Creds
  <2>3. CASE Convert(u, own)
    BY <1>3, <2>2, <2>3
  <2>4. CASE scramSecret[u.scram] = own /\ ReadExistingCredentials(u)
    <3>1. CASE EndWithPhase("Failed")
      BY <3>1, IdleFacts DEF EndWithPhase, ConvertedOwn
    <3> QED
      BY <2>3, <2>4, <3>1 DEF ReadExistingCredentials
  <2> QED
    BY <1>2, <2>1, <2>3, <2>4 DEF EnsureScramCredentials, NeedToGenerateNewCredentials
<1> QED
  BY <1>4, <1>5

\* As long as no Secret is deleted, nobody gets the credentials of another even
\* when the names of Secrets pass from user to user, in any edits and however
\* far the cleanup after the last one got: credentials stored under a name are
\* compared with the user's own before they are used.
THEOREM OwnCredentialsReused == Spec => [](used.deletions = 0 => OwnCredentials)
<1>1. Init => ReuseInvariant
  <2> SUFFICES ASSUME Init PROVE ReuseInvariant
    OBVIOUS
  <2>1. config.users = {} /\ rec.converted = {}
    BY IdleFacts DEF Init
  <2>2. \A u \in Users : password[u] # None
    BY UserSecretsAssumption DEF Init
  <2> QED
    BY <2>1, <2>2 DEF ReuseInvariant, ConvertedOwn, OwnCredentials
<1>2. TypesOK /\ ReuseInvariant /\ [Next]_vars => ReuseInvariant'
  <2> SUFFICES ASSUME TypesOK, ReuseInvariant, [Next]_vars, used'.deletions = 0
               PROVE  /\ \A u \in Users : password'[u] # None
                      /\ ConvertedOwn' /\ OwnCredentials'
    BY DEF ReuseInvariant
  <2>0. used.deletions = 0 /\ \A u \in Users : password'[u] # None
    BY PasswordStep
  <2>1. (\A u \in Users : password[u] # None) /\ ConvertedOwn /\ OwnCredentials
    BY <2>0 DEF ReuseInvariant
  <2>2. CASE config' = config /\ rec'.converted \in {rec.converted, {}}
    BY <2>0, <2>1, <2>2 DEF ConvertedOwn, OwnCredentials
  <2>3. CASE Enable
    BY <2>0, <2>1, <2>3, EnableWithPassword, EnableEffect DEF OwnCredentials, deployment
  <2>4. CASE EnsureAutomationConfig
    BY <2>0, <2>1, <2>4, ConfigEffect DEF Moved, ConvertedOwn, OwnCredentials
  <2>5. CASE StartReconcile
    BY <2>2, <2>5, StartEffect DEF deployment
  <2>6. CASE EnsureUserResources
    BY <2>2, <2>6, EnsureEffect, IdleFacts DEF Moved, deployment
  <2>7. CASE AwaitAgents
    BY <2>2, <2>7, AwaitEffect, IdleFacts DEF Moved, deployment
  <2>8. CASE UpdateConnectionStringSecrets
    BY <2>2, <2>8, PublishEffect DEF Moved, deployment
  <2>9. CASE CleanupScramSecrets \/ CleanupConnectionStringSecrets
    BY <2>2, <2>9, CleanupScramEffect, CleanupConnEffect DEF Moved, deployment
  <2>10. CASE UpdateLastSuccessfulConfiguration
    BY <2>2, <2>10, SaveEffect, IdleFacts DEF deployment
  <2>11. CASE RequestFails
    BY <2>2, <2>11, FailEffect, IdleFacts DEF Moved, deployment
  <2>12. CASE AgentsReachGoal
    BY <2>2, <2>12 DEF AgentsReachGoal
  <2>13. ASSUME NEW list, EditUsers(list) PROVE config' = config /\ rec' = rec
    BY <2>13 DEF EditUsers, deployment
  <2>14. ASSUME NEW c, DeleteConnectionString(c) PROVE config' = config /\ rec' = rec
    BY <2>14 DEF DeleteConnectionString, deployment
  <2> QED
    BY <2>0, <2>2, <2>3, <2>4, <2>5, <2>6, <2>7, <2>8, <2>9, <2>10, <2>11, <2>12, <2>13, <2>14,
       OtherSteps, IdleFacts
<1>3. ReuseInvariant => (used.deletions = 0 => OwnCredentials)
  BY DEF ReuseInvariant
<1> QED
  BY <1>1, <1>2, <1>3, TypesInvariant, PTL DEF Spec

-----------------------------------------------------------------------------
(***************************************************************************)
(* What a reconciliation works for, when the user edits only what is       *)
(* deployed.                                                               *)
(***************************************************************************)
\* A reconciliation that an edit has overtaken works for the last applied
\* users.
WorksForKnownUsers ==
  /\ rec.pc # "idle" => rec.last = lastApplied /\ rec.users \in {spec, lastApplied}
  /\ lastApplied # None => ValidateUsers(lastApplied)

Stored(u) == scramSecret[u.scram] # None /\ scramSecret[u.scram].user = u.name

\* Credentials are stored of every user that has been dealt with, and the
\* cleanup keeps them.
CredentialsStored ==
  /\ lastApplied = spec => \A u \in Elements(spec) : IsScram(u) => Stored(u)
  /\ rec.pc = "enable" =>
       \A u \in Elements(rec.users) \ Elements(rec.todo) : IsScram(u) => Stored(u)
  /\ rec.pc \in {"await", "publish", "cleanConn", "save"} =>
       \A u \in Elements(rec.users) : IsScram(u) => Stored(u)

\* The steps of a reconciliation leave what it works for alone; its end saves
\* accepted users; an edit finds it working for the users applied last.
LEMMA WorksStep ==
  ASSUME ~EditsInFlight, TypesOK, WorksForKnownUsers, [Next]_vars
  PROVE  WorksForKnownUsers'
<1>0. RecOK
  BY DEF TypesOK
<1>1. ASSUME spec' = spec, lastApplied' = lastApplied, rec' \in {Idle, rec} PROVE WorksForKnownUsers'
  BY <1>1, IdleFacts DEF WorksForKnownUsers
<1>2. ASSUME spec' = spec, lastApplied' = lastApplied, rec.pc # "idle", NEW c, NEW t, NEW v, Moved(c, t, v)
      PROVE  WorksForKnownUsers'
  BY <1>2 DEF WorksForKnownUsers, Moved
<1>3. CASE StartReconcile
  BY <1>3, StartEffect DEF WorksForKnownUsers, resource
<1>4. CASE EnsureUserResources
  BY <1>1, <1>2, <1>4, EnsureEffect
<1>5. CASE Enable
  BY <1>1, <1>2, <1>5, EnableEffect
<1>6. CASE EnsureAutomationConfig
  BY <1>2, <1>6, ConfigEffect DEF resource
<1>7. CASE AwaitAgents
  BY <1>1, <1>2, <1>7, AwaitEffect
<1>8. CASE UpdateConnectionStringSecrets
  BY <1>2, <1>8, PublishEffect
<1>9. CASE CleanupScramSecrets
  BY <1>2, <1>9, CleanupScramEffect DEF resource
<1>10. CASE CleanupConnectionStringSecrets
  BY <1>2, <1>10, CleanupConnEffect DEF resource
<1>11. CASE UpdateLastSuccessfulConfiguration
  <2>1. rec.pc # "idle" /\ rec' = Idle /\ lastApplied' \in {rec.users, lastApplied}
    BY <1>11, SaveEffect
  <2> QED
    BY <1>0, <2>1, IdleFacts DEF RecOK, WorksForKnownUsers
<1>12. CASE RequestFails
  BY <1>1, <1>2, <1>12, FailEffect
<1>13. CASE AgentsReachGoal
  BY <1>1, <1>13 DEF AgentsReachGoal, resource
<1>14. ASSUME NEW list, EditUsers(list) PROVE WorksForKnownUsers'
  <2>1. lastApplied = spec /\ lastApplied' = lastApplied /\ rec' = rec
    BY <1>14 DEF EditUsers, Settled
  <2> QED
    BY <2>1 DEF WorksForKnownUsers
<1>15. ASSUME NEW c, DeleteConnectionString(c) PROVE WorksForKnownUsers'
  BY <1>1, <1>15 DEF DeleteConnectionString, resource
<1> QED
  BY <1>1, <1>3, <1>4, <1>5, <1>6, <1>7, <1>8, <1>9, <1>10, <1>11, <1>12, <1>13, <1>14, <1>15, OtherSteps

\* Without edits in flight a reconciliation works for the users the
\* resource has, and knows the last applied ones.
LEMMA WorksInvariant ==
  ASSUME ~EditsInFlight
  PROVE  Spec => []WorksForKnownUsers
<1>1. Init => WorksForKnownUsers
  BY IdleFacts DEF Init, WorksForKnownUsers
<1>2. TypesOK /\ WorksForKnownUsers /\ [Next]_vars => WorksForKnownUsers'
  BY WorksStep
<1> QED
  BY <1>1, <1>2, TypesInvariant, PTL DEF Spec

\* A step that writes and deletes no credentials keeps what is stored, if the
\* reconciliation is where it was, has ended or has just begun.
LEMMA StoredKept ==
  ASSUME CredentialsStored, scramSecret' = scramSecret, spec' = spec, lastApplied' = lastApplied,
         \/ rec' \in {Idle, rec}
         \/ rec'.pc = "ensure"
         \/ rec'.pc = "enable" /\ rec'.todo = rec'.users
         \/ /\ rec'.users = rec.users /\ rec'.pc \in {"await", "publish", "cleanConn", "save"}
            /\ rec.pc \in {"await", "publish", "cleanConn", "save"}
         \/ rec'.users = rec.users /\ rec'.pc = "await" /\ rec.pc = "enable" /\ rec.todo = <<>>
  PROVE  CredentialsStored'
<1>1. \A u : Stored(u)' = Stored(u)
  BY DEF Stored
<1>2. Elements(<<>>) = {}
  BY DEF Elements
<1>3. lastApplied' = spec' => \A u \in Elements(spec') : IsScram(u) => Stored(u)'
  BY <1>1 DEF CredentialsStored
<1>4. CASE rec' \in {Idle, rec}
  BY <1>1, <1>3, <1>4, IdleFacts DEF CredentialsStored
<1>5. CASE rec'.pc = "ensure"
  BY <1>3, <1>5 DEF CredentialsStored
<1>6. CASE rec'.pc = "enable" /\ rec'.todo = rec'.users
  BY <1>3, <1>6 DEF CredentialsStored
<1>7. CASE /\ rec'.users = rec.users /\ rec'.pc \in {"await", "publish", "cleanConn", "save"}
           /\ rec.pc \in {"await", "publish", "cleanConn", "save"}
  BY <1>1, <1>3, <1>7 DEF CredentialsStored
<1>8. CASE rec'.users = rec.users /\ rec'.pc = "await" /\ rec.pc = "enable" /\ rec.todo = <<>>
  BY <1>1, <1>2, <1>3, <1>8 DEF CredentialsStored
<1> QED
  BY <1>4, <1>5, <1>6, <1>7, <1>8

\* Making credentials of one user keeps those of the others.
LEMMA EnableStores ==
  ASSUME NamesNotShared, TypesOK, ScramOwned, Enable, rec' # Idle
  PROVE  /\ \A u : u = Head(rec.todo) /\ IsScram(u) => Stored(u)'
         /\ \A l \in UserLists : ValidateUsers(l) =>
              \A v \in Elements(l) : IsScram(v) /\ Stored(v) => Stored(v)'
         /\ rec'.pc = "enable" /\ rec'.users = rec.users /\ rec'.todo = Tail(rec.todo)
<1>u. PICK u : u = Head(rec.todo)
  OBVIOUS
<1>0. RecOK /\ scramSecret \in [SecretNames -> CredsOrNone]
  BY DEF TypesOK, TypeOK
<1>1. /\ rec.users \in UserLists /\ ValidateUsers(rec.users) /\ u \in Elements(rec.users)
      /\ IsScram(u) => u.scram \in SecretNames
  <2>1. rec.pc = "enable" /\ rec.todo # <<>>
    BY EnableEffect
  <2> QED
    BY <1>0, <1>u, <2>1, NextUser DEF RecOK
<1>2. PICK creds \in CredsOrNone :
        /\ Moved("enable", Tail(rec.todo), rec.converted \cup {[name |-> u.name, creds |-> creds]})
        /\ \/ /\ ~IsScram(u) /\ creds = None /\ scramSecret' = scramSecret
           \/ /\ IsScram(u) /\ creds # None /\ creds = scramSecret[u.scram]
              /\ scramSecret' = scramSecret
           \/ /\ IsScram(u) /\ creds # None /\ creds.user = u.name
              /\ scramSecret' = [scramSecret EXCEPT ![u.scram] = creds]
  BY <1>u, EnableEffect
<1>3. IsScram(u) => Stored(u)'
  BY <1>0, <1>1, <1>2 DEF Stored, ScramOwned
<1>4. ASSUME NEW l \in UserLists, ValidateUsers(l), NEW v \in Elements(l), IsScram(v), Stored(v)
      PROVE  Stored(v)'
  <2>1. v.scram \in SecretNames
    BY <1>4, UsersOfList
  <2>2. CASE scramSecret' = scramSecret
    BY <1>4, <2>2 DEF Stored
  <2>3. CASE IsScram(u) /\ creds # None /\ creds.user = u.name
             /\ scramSecret' = [scramSecret EXCEPT ![u.scram] = creds]
    <3>1. CASE v.scram = u.scram
      <4>1. v.name = u.name
        BY <1>1, <1>4, <2>3, <3>1, NamesNotShared DEF NamesNotShared
      <4> QED
        BY <1>0, <2>1, <2>3, <3>1, <4>1 DEF Stored
    <3>2. CASE v.scram # u.scram
      BY <1>0, <1>4, <2>1, <2>3, <3>2 DEF Stored
    <3> QED
      BY <3>1, <3>2
  <2> QED
    BY <1>2, <2>2, <2>3
<1> QED
  BY <1>u, <1>2, <1>3, <1>4 DEF Moved

\* The cleanup deletes no Secret of a user it works for.
LEMMA CleanupKeeps ==
  ASSUME NamesNotShared, TypesOK, WorksForKnownUsers, CleanupScramSecrets,
         NEW u \in Elements(rec.users), IsScram(u), Stored(u)
  PROVE  Stored(u)'
<1>1. /\ rec.users \in UserLists /\ ValidateUsers(rec.users)
      /\ rec.last \in UserLists /\ ValidateUsers(rec.last)
  <2>1. rec.pc = "publish" /\ rec.last # None
    BY CleanupScramEffect
  <2>2. RecOK /\ rec \in Recs /\ rec.last \in UserLists \cup {None}
    BY DEF TypesOK, RecOK, Recs
  <2> QED
    BY <2>1, <2>2 DEF RecOK, WorksForKnownUsers
<1>2. u.scram \in SecretNames
  BY <1>1, UsersOfList
<1>3. u.scram \notin SecretsToDelete(rec.users, rec.last, "scram")
  <2> SUFFICES ASSUME u.scram \in SecretsToDelete(rec.users, rec.last, "scram") PROVE FALSE
    OBVIOUS
  <2>1. PICK v \in Elements(rec.last) :
          /\ IsScram(v) /\ v.scram = u.scram
          /\ ~\E w \in Elements(rec.users) : w.name = v.name /\ w.scram = v.scram
    <3> DEFINE left == {v \in Elements(rec.last) : IsScram(v) /\
                          ~\E w \in Elements(rec.users) : w.name = v.name /\ w.scram = v.scram}
    <3>1. SecretsToDelete(rec.users, rec.last, "scram") = {v.scram : v \in left}
      BY LeftSecrets
    <3> QED
      BY <3>1
  <2>2. u.name = v.name
    BY <1>1, <2>1, NamesNotShared DEF NamesNotShared
  <2> QED
    BY <2>1, <2>2
<1> QED
  BY <1>2, <1>3, CleanupScramEffect DEF Stored

\* Every step keeps the credentials of the users of the spec.
LEMMA StoredStep ==
  ASSUME ~EditsInFlight, NamesNotShared, TypesOK, OwnInvariant, WorksForKnownUsers,
         CredentialsStored, [Next]_vars
  PROVE  CredentialsStored'
<1>0. RecOK /\ spec \in UserLists /\ lastApplied \in UserLists \cup {None} /\ ScramOwned
  BY DEF TypesOK, TypeOK, OwnInvariant
<1>a. lastApplied = spec => ValidateUsers(spec)
  BY <1>0, UserSecretsAssumption DEF WorksForKnownUsers
<1>1. CASE Enable
  <2>0. rec.pc = "enable" /\ rec.todo # <<>> /\ spec' = spec /\ lastApplied' = lastApplied
    BY <1>1, EnableEffect
  <2>1. CASE rec' = Idle
    <3>1. scramSecret' = scramSecret
      BY <1>0, <1>1, <2>0, <2>1, EnableEffect, IdleFacts DEF Moved
    <3> QED
      BY <2>0, <2>1, <3>1, StoredKept
  <2>2. CASE rec' # Idle
    <3>1. /\ \A u : u = Head(rec.todo) /\ IsScram(u) => Stored(u)'
          /\ \A l \in UserLists : ValidateUsers(l) =>
               \A v \in Elements(l) : IsScram(v) /\ Stored(v) => Stored(v)'
          /\ rec'.pc = "enable" /\ rec'.users = rec.users /\ rec'.todo = Tail(rec.todo)
      BY <1>0, <1>1, <2>2, EnableStores
    <3>2. lastApplied' = spec' => \A u \in Elements(spec') : IsScram(u) => Stored(u)'
      BY <1>0, <1>a, <2>0, <3>1 DEF CredentialsStored
    <3>3. Elements(rec.todo) = {Head(rec.todo)} \cup Elements(Tail(rec.todo))
      BY <1>0, <2>0, NextUser
    <3>4. ASSUME NEW u \in Elements(rec.users) \ Elements(Tail(rec.todo)), IsScram(u)
          PROVE  Stored(u)'
      <4>1. CASE u = Head(rec.todo)
        BY <3>1, <3>4, <4>1
      <4>2. CASE u # Head(rec.todo)
        <5>1. Stored(u)
          BY <2>0, <3>3, <3>4, <4>2 DEF CredentialsStored
        <5> QED
          BY <1>0, <2>0, <3>1, <3>4, <5>1 DEF RecOK
      <4> QED
        BY <4>1, <4>2
    <3> QED
      BY <3>1, <3>2, <3>4 DEF CredentialsStored
  <2> QED
    BY <2>1, <2>2
<1>2. CASE CleanupScramSecrets
  <2>1. /\ rec.pc = "publish" /\ rec'.pc = "cleanConn" /\ rec'.users = rec.users
        /\ spec' = spec /\ lastApplied' = lastApplied
    BY <1>2, CleanupScramEffect DEF Moved, resource
  <2>2. \A u \in Elements(rec.users) : IsScram(u) => Stored(u)'
    BY <1>2, <2>1, CleanupKeeps DEF CredentialsStored
  <2>3. lastApplied = spec => rec.users = spec
    BY <2>1 DEF WorksForKnownUsers
  <2> QED
    BY <2>1, <2>2, <2>3 DEF CredentialsStored
<1>3. CASE UpdateLastSuccessfulConfiguration
  <2>1. /\ rec.pc \in {"save", "publish"} /\ rec' = Idle /\ lastApplied' \in {rec.users, lastApplied}
        /\ spec' = spec /\ scramSecret' = scramSecret
    BY <1>3, SaveEffect DEF secrets
  <2>2. \A u : Stored(u)' = Stored(u)
    BY <2>1 DEF Stored
  <2> QED
    BY <2>1, <2>2, IdleFacts DEF CredentialsStored
<1>4. ASSUME NEW list, EditUsers(list) PROVE CredentialsStored'
  <2>1. lastApplied' # spec' /\ rec' = rec /\ scramSecret' = scramSecret
    BY <1>4 DEF EditUsers, Settled, secrets
  <2>2. \A u : Stored(u)' = Stored(u)
    BY <2>1 DEF Stored
  <2> QED
    BY <2>1, <2>2 DEF CredentialsStored
<1>5. CASE StartReconcile
  BY <1>5, StartEffect, StoredKept DEF resource, secrets
<1>6. CASE EnsureUserResources
  BY <1>6, EnsureEffect, StoredKept DEF Moved, secrets
<1>7. CASE EnsureAutomationConfig
  BY <1>7, ConfigEffect, StoredKept DEF Moved, resource, secrets
<1>8. CASE AwaitAgents
  BY <1>8, AwaitEffect, StoredKept DEF Moved, secrets
<1>9. CASE UpdateConnectionStringSecrets
  <2>1. /\ rec.pc = "publish" /\ rec'.pc = "publish" /\ rec'.users = rec.users
        /\ UNCHANGED <<spec, lastApplied, scramSecret>>
    BY <1>9, PublishEffect DEF Moved
  <2> QED
    BY <2>1, StoredKept
<1>10. CASE CleanupConnectionStringSecrets
  <2>1. /\ rec.pc = "cleanConn" /\ rec'.pc = "save" /\ rec'.users = rec.users
        /\ UNCHANGED <<spec, lastApplied, scramSecret>>
    BY <1>10, CleanupConnEffect DEF Moved, resource
  <2> QED
    BY <2>1, StoredKept
<1>11. CASE RequestFails
  BY <1>11, FailEffect, StoredKept DEF Moved, secrets
<1>12. CASE AgentsReachGoal
  BY <1>12, StoredKept DEF AgentsReachGoal, resource, secrets
<1>13. ASSUME NEW c, DeleteConnectionString(c) PROVE CredentialsStored'
  BY <1>13, StoredKept DEF DeleteConnectionString, resource
<1> QED
  BY <1>1, <1>2, <1>3, <1>4, <1>5, <1>6, <1>7, <1>8, <1>9, <1>10, <1>11, <1>12, <1>13, OtherSteps,
     StoredKept

\* Once a spec is running and saved, the credentials of every SCRAM user of it
\* are stored, under the user's own Secret name: the passwords can be deleted,
\* and neither the cleanup of an earlier spec nor a restart loses them.
THEOREM StoredCredentialsTheorem ==
  ASSUME ~EditsInFlight, NamesNotShared
  PROVE  Spec => []StoredCredentialsKept
<1>1. Init => OwnInvariant /\ CredentialsStored
  <2> SUFFICES ASSUME Init PROVE OwnInvariant /\ CredentialsStored
    OBVIOUS
  <2>1. config.users = {} /\ rec.converted = {} /\ \A n \in SecretNames : scramSecret[n] = None
    BY IdleFacts DEF Init
  <2>2. OwnInvariant
    BY <2>1, UsersOfList DEF OwnInvariant, ScramOwned, ConvertedOwn, OwnCredentials
  <2>3. rec.pc = "idle" /\ lastApplied # spec
    BY IdleFacts, UserSecretsAssumption DEF Init
  <2> QED
    BY <2>2, <2>3 DEF CredentialsStored
<1>2. TypesOK /\ OwnInvariant /\ [Next]_vars => OwnInvariant'
  BY OwnStep, NamesNotShared
<1>3. TypesOK /\ OwnInvariant /\ WorksForKnownUsers /\ CredentialsStored /\ [Next]_vars
        => CredentialsStored'
  BY StoredStep, NamesNotShared
<1>4. CredentialsStored => StoredCredentialsKept
  BY DEF CredentialsStored, StoredCredentialsKept, Settled, Stored
<1> QED
  BY <1>1, <1>2, <1>3, <1>4, TypesInvariant, WorksInvariant, PTL DEF Spec

-----------------------------------------------------------------------------
(***************************************************************************)
(* What the operator remembers of earlier users: those of the last applied *)
(* spec, those of the spec that is being deployed, and no others.          *)
(***************************************************************************)
Before == IF lastApplied = None THEN {} ELSE Elements(lastApplied)
Now == IF rec.pc = "idle" THEN Elements(spec) ELSE Elements(rec.users)
Known == Before \cup Now

NamesIn(users) == {u.name : u \in users} \ External
ScramOf(users) == {u.scram : u \in {v \in users : IsScram(v)}}
ConnsOf(users) == {u.conn : u \in {v \in users : IsScram(v)}}

\* More users have more names and more secrets.
LEMMA MoreUsers ==
  ASSUME NEW S, NEW T, S \subseteq T
  PROVE  /\ NamesIn(S) \subseteq NamesIn(T) /\ ScramOf(S) \subseteq ScramOf(T)
         /\ ConnsOf(S) \subseteq ConnsOf(T)
BY DEF NamesIn, ScramOf, ConnsOf

\* A user is forgotten only when the users are saved that the reconciliation
\* worked for.
LEMMA KnownKept ==
  ASSUME ~EditsInFlight, TypesOK, WorksForKnownUsers, [Next]_vars
  PROVE  \/ UpdateLastSuccessfulConfiguration /\ Elements(rec.users) \subseteq Known'
         \/ Known \subseteq Known'
<1>0. RecOK /\ spec \in UserLists /\ None \notin UserLists
  BY UserSecretsAssumption DEF TypesOK, TypeOK
<1>1. ASSUME spec' = spec, lastApplied' = lastApplied, rec' = Idle PROVE Known \subseteq Known'
  <2>1. rec'.pc = "idle" /\ Before' = Before /\ Now' = Elements(spec)
    BY <1>1, IdleFacts DEF Before, Now
  <2>2. CASE rec.pc = "idle"
    BY <2>1, <2>2 DEF Known, Now
  <2>3. CASE rec.pc # "idle"
    <3>1. rec.users \in UserLists /\ rec.users \in {spec, lastApplied}
      BY <1>0, <2>3 DEF RecOK, WorksForKnownUsers
    <3>2. Elements(rec.users) \subseteq Before \cup Elements(spec)
      BY <1>0, <3>1 DEF Before
    <3> QED
      BY <2>1, <2>3, <3>2 DEF Known, Now
  <2> QED
    BY <2>2, <2>3
<1>2. ASSUME spec' = spec, lastApplied' = lastApplied,
             rec' = rec \/ (rec'.users = rec.users /\ rec.pc # "idle" /\ rec'.pc # "idle")
      PROVE  Known \subseteq Known'
  BY <1>2 DEF Known, Before, Now
<1>3. CASE StartReconcile
  <2>1. rec.pc = "idle" /\ rec'.pc # "idle" /\ rec'.users = spec /\ UNCHANGED <<spec, lastApplied>>
    BY <1>3, StartEffect, IdleFacts DEF StartReconcile, resource
  <2> QED
    BY <2>1 DEF Known, Before, Now
<1>4. CASE EnsureUserResources
  BY <1>1, <1>2, <1>4, EnsureEffect DEF Moved
<1>5. CASE Enable
  BY <1>1, <1>2, <1>5, EnableEffect DEF Moved
<1>6. CASE EnsureAutomationConfig
  BY <1>2, <1>6, ConfigEffect DEF Moved, resource
<1>7. CASE AwaitAgents
  BY <1>1, <1>2, <1>7, AwaitEffect DEF Moved
<1>8. CASE UpdateConnectionStringSecrets
  BY <1>2, <1>8, PublishEffect DEF Moved
<1>9. CASE CleanupScramSecrets
  BY <1>2, <1>9, CleanupScramEffect DEF Moved, resource
<1>10. CASE CleanupConnectionStringSecrets
  BY <1>2, <1>10, CleanupConnEffect DEF Moved, resource
<1>11. CASE UpdateLastSuccessfulConfiguration
  <2>1. /\ rec.pc # "idle" /\ spec' = spec /\ rec' = Idle
        /\ lastApplied' = rec.users \/ lastApplied' = lastApplied
    BY <1>11, SaveEffect
  <2>2. CASE lastApplied' = lastApplied
    BY <1>1, <2>1, <2>2
  <2>3. CASE lastApplied' = rec.users
    <3>1. rec.users # None
      BY <1>0, <2>1 DEF RecOK
    <3> QED
      BY <1>11, <2>3, <3>1 DEF Known, Before
  <2> QED
    BY <2>1, <2>2, <2>3
<1>12. CASE RequestFails
  BY <1>1, <1>2, <1>12, FailEffect DEF Moved
<1>13. CASE AgentsReachGoal
  BY <1>2, <1>13 DEF AgentsReachGoal, resource
<1>14. ASSUME NEW list, EditUsers(list) PROVE Known \subseteq Known'
  <2>1. lastApplied = spec /\ lastApplied' = lastApplied /\ rec' = rec
    BY <1>14 DEF EditUsers, Settled
  <2> QED
    BY <1>0, <2>1 DEF Known, Before, Now
<1>15. ASSUME NEW c, DeleteConnectionString(c) PROVE Known \subseteq Known'
  BY <1>2, <1>15 DEF DeleteConnectionString, resource
<1> QED
  BY <1>1, <1>2, <1>3, <1>4, <1>5, <1>6, <1>7, <1>8, <1>9, <1>10, <1>11, <1>12, <1>13, <1>14,
     <1>15, OtherSteps

-----------------------------------------------------------------------------
(***************************************************************************)
(* Users that were removed.                                                *)
(***************************************************************************)
\* The users of the config are those of the reconciliation that wrote it; no
\* user is created and deleted by the same config, and one that it deletes is
\* gone once the agents are done.
ConfigOfUsers ==
  /\ NamesIn(rec.converted) \subseteq NamesIn(Elements(rec.users))
  /\ NamesIn(config.users) \cap config.deleted = {}
  /\ inGoal => NamesIn(db) \cap config.deleted = {}
  /\ rec.pc \in {"await", "publish", "cleanConn", "save"} =>
       /\ NamesIn(config.users) \subseteq NamesIn(Elements(rec.users))
       /\ config.deleted = RemovedUsers(rec.users, rec.last)
  /\ rec.pc \in {"publish", "cleanConn", "save"} =>
       inGoal /\ NamesIn(db) \subseteq NamesIn(Elements(rec.users))

\* The database has no user that the operator does not know of.
DatabaseUsers == NamesIn(db) \cup NamesIn(config.users) \subseteq NamesIn(Known)

\* A step that leaves the deployment alone.
LEMMA ConfigKept ==
  ASSUME ConfigOfUsers, UNCHANGED <<config, inGoal, db>>,
         \/ rec' \in {Idle, rec}
         \/ /\ rec'.users = rec.users /\ rec'.last = rec.last /\ rec'.converted = rec.converted
            /\ \/ rec'.pc \in {"ensure", "enable"}
               \/ rec.pc \in {"publish", "cleanConn", "save"}
  PROVE  ConfigOfUsers'
<1>1. CASE rec' = Idle
  BY <1>1, IdleFacts DEF ConfigOfUsers, NamesIn
<1>2. CASE rec' = rec
  BY <1>2 DEF ConfigOfUsers
<1>3. CASE /\ rec'.users = rec.users /\ rec'.last = rec.last /\ rec'.converted = rec.converted
           /\ \/ rec'.pc \in {"ensure", "enable"}
              \/ rec.pc \in {"publish", "cleanConn", "save"}
  BY <1>3 DEF ConfigOfUsers
<1> QED
  BY <1>1, <1>2, <1>3

\* The steps that make the config, wait for it and carry it out.
LEMMA ConfigStep ==
  ASSUME ~EditsInFlight, TypesOK, WorksForKnownUsers, ConfigOfUsers, DatabaseUsers, [Next]_vars
  PROVE  ConfigOfUsers'
<1>0. RecOK /\ lastApplied \in UserLists \cup {None}
  BY DEF TypesOK, TypeOK
<1>1. CASE StartReconcile
  BY <1>1, StartEffect DEF ConfigOfUsers, NamesIn, deployment
<1>2. CASE EnsureUserResources
  BY <1>2, EnsureEffect, ConfigKept DEF Moved, deployment
<1>3. CASE Enable
  <2>0. rec.pc = "enable" /\ rec.todo # <<>> /\ UNCHANGED <<config, inGoal, db>>
    BY <1>3, EnableEffect DEF deployment
  <2>1. CASE rec' = Idle
    BY <2>0, <2>1, ConfigKept
  <2>2. ASSUME NEW creds,
               Moved("enable", Tail(rec.todo),
                     rec.converted \cup {[name |-> Head(rec.todo).name, creds |-> creds]})
        PROVE  ConfigOfUsers'
    <3>1. Head(rec.todo) \in Elements(rec.users)
      BY <1>0, <2>0, NextUser
    <3>2. rec'.converted = rec.converted \cup {[name |-> Head(rec.todo).name, creds |-> creds]}
          /\ rec'.users = rec.users /\ rec'.pc = "enable"
      BY <2>2 DEF Moved
    <3>3. NamesIn(rec'.converted) \subseteq NamesIn(Elements(rec'.users))
      BY <3>1, <3>2 DEF ConfigOfUsers, NamesIn
    <3> QED
      BY <2>0, <3>2, <3>3 DEF ConfigOfUsers
  <2> QED
    BY <1>3, <2>1, <2>2, EnableEffect
<1>4. CASE EnsureAutomationConfig
  <2>1. /\ rec'.pc = "await" /\ rec'.users = rec.users /\ rec'.last = rec.last
        /\ rec'.converted = rec.converted /\ config'.users = rec.converted
        /\ config'.deleted = RemovedUsers(rec.users, rec.last)
        /\ inGoal' => inGoal /\ config' = config
        /\ db' = db
    BY <1>4, ConfigEffect DEF Moved
  <2>2. NamesIn(Elements(rec.users)) \cap RemovedUsers(rec.users, rec.last) = {}
    BY DEF NamesIn, RemovedUsers, NamesOf
  <2> QED
    BY <2>1, <2>2 DEF ConfigOfUsers
<1>5. CASE AwaitAgents
  <2>0. rec.pc = "await" /\ UNCHANGED <<config, inGoal, db>>
    BY <1>5, AwaitEffect DEF deployment
  <2>1. CASE rec' = Idle
    BY <2>0, <2>1, ConfigKept
  <2>2. CASE inGoal /\ Moved("publish", rec.users, rec.converted)
    <3>1. rec'.users = rec.users /\ rec'.last = rec.last /\ rec'.converted = rec.converted
      BY <2>2 DEF Moved
    <3>2. ASSUME NEW x \in NamesIn(db) PROVE x \in NamesIn(Elements(rec.users))
      <4>1. x \in NamesIn(Before) \cup NamesIn(Elements(rec.users))
        BY <2>0 DEF DatabaseUsers, Known, Now, NamesIn
      <4>2. x \notin RemovedUsers(rec.users, rec.last) /\ rec.last = lastApplied
        BY <2>0, <2>2 DEF ConfigOfUsers, WorksForKnownUsers
      <4> QED
        BY <4>1, <4>2 DEF Before, RemovedUsers, NamesIn, NamesOf
    <3> QED
      BY <2>0, <2>2, <3>1, <3>2 DEF ConfigOfUsers
  <2> QED
    BY <1>5, <2>1, <2>2, AwaitEffect
<1>6. CASE AgentsReachGoal
  <2>1. /\ ~inGoal /\ rec' = rec /\ config' = config
        /\ db' = config.users \cup
                   {u \in db : u.name \notin config.deleted \cup {v.name : v \in config.users}}
    BY <1>6 DEF AgentsReachGoal
  <2>2. rec.pc \notin {"publish", "cleanConn", "save"}
    BY <2>1 DEF ConfigOfUsers
  <2>3. NamesIn(db') \cap config.deleted = {}
    BY <2>1 DEF ConfigOfUsers, NamesIn
  <2> QED
    BY <2>1, <2>2, <2>3 DEF ConfigOfUsers
<1>7. CASE UpdateConnectionStringSecrets
  <2>1. /\ rec.pc = "publish" /\ UNCHANGED <<config, inGoal, db>>
        /\ rec'.users = rec.users /\ rec'.last = rec.last /\ rec'.converted = rec.converted
    BY <1>7, PublishEffect DEF Moved, deployment
  <2> QED
    BY <2>1, ConfigKept
<1>8. CASE CleanupScramSecrets
  BY <1>8, CleanupScramEffect, ConfigKept DEF Moved, deployment
<1>9. CASE CleanupConnectionStringSecrets
  BY <1>9, CleanupConnEffect, ConfigKept DEF Moved, deployment
<1>10. CASE UpdateLastSuccessfulConfiguration
  BY <1>10, SaveEffect, ConfigKept DEF deployment
<1>11. CASE RequestFails
  BY <1>11, FailEffect, ConfigKept DEF Moved, deployment
<1>12. ASSUME NEW list, EditUsers(list) PROVE ConfigOfUsers'
  BY <1>12, ConfigKept DEF EditUsers, deployment
<1>13. ASSUME NEW c, DeleteConnectionString(c) PROVE ConfigOfUsers'
  BY <1>13, ConfigKept DEF DeleteConnectionString, deployment
<1> QED
  BY <1>1, <1>2, <1>3, <1>4, <1>5, <1>6, <1>7, <1>8, <1>9, <1>10, <1>11, <1>12, <1>13,
     OtherSteps, ConfigKept

\* A step that changes the config or the database, and one after which the
\* operator knows other users.
LEMMA DatabaseStep ==
  ASSUME ~EditsInFlight, TypesOK, WorksForKnownUsers, ConfigOfUsers, DatabaseUsers, [Next]_vars
  PROVE  DatabaseUsers'
<1>1. CASE UpdateLastSuccessfulConfiguration /\ Elements(rec.users) \subseteq Known'
  <2>1. rec.pc \in {"publish", "save"} /\ UNCHANGED <<config, inGoal, db>>
    BY <1>1, SaveEffect DEF deployment
  <2>2. NamesIn(db') \cup NamesIn(config'.users) \subseteq NamesIn(Elements(rec.users))
    BY <2>1 DEF ConfigOfUsers
  <2>3. NamesIn(Elements(rec.users)) \subseteq NamesIn(Known')
    BY <1>1, MoreUsers
  <2> QED
    BY <2>2, <2>3 DEF DatabaseUsers
<1>2. CASE Known \subseteq Known'
  <2>0. NamesIn(Known) \subseteq NamesIn(Known')
    BY <1>2, MoreUsers
  <2>1. CASE config' = config /\ db' = db
    BY <2>0, <2>1 DEF DatabaseUsers
  <2>2. CASE EnsureAutomationConfig
    <3>1. rec.pc = "enable" /\ config'.users = rec.converted /\ db' = db
      BY <2>2, ConfigEffect
    <3>2. NamesIn(rec.converted) \subseteq NamesIn(Known)
      BY <3>1 DEF ConfigOfUsers, Known, Now, NamesIn
    <3> QED
      BY <2>0, <3>1, <3>2 DEF DatabaseUsers
  <2>3. CASE AgentsReachGoal
    <3>1. db' \subseteq config.users \cup db /\ config' = config
      BY <2>3 DEF AgentsReachGoal
    <3>2. NamesIn(db') \subseteq NamesIn(db) \cup NamesIn(config.users)
      BY <3>1 DEF NamesIn
    <3> QED
      BY <2>0, <3>1, <3>2 DEF DatabaseUsers
  <2> QED
    BY <2>1, <2>2, <2>3, OtherSteps
       DEF StartReconcile, EnsureUserResources, Enable, AwaitAgents, UpdateConnectionStringSecrets,
           CleanupScramSecrets, CleanupConnectionStringSecrets, UpdateLastSuccessfulConfiguration,
           RequestFails, EditUsers, DeleteConnectionString, deployment
<1> QED
  BY <1>1, <1>2, KnownKept

\* A user that was removed from the spec has been deleted from the database by
\* the time the operator forgets it: when all is quiet the SCRAM users of the
\* database are users of the spec.
THEOREM RemovedUsersTheorem ==
  ASSUME ~EditsInFlight
  PROVE  Spec => []RemovedUsersGone
<1>1. Init => ConfigOfUsers /\ DatabaseUsers
  <2> SUFFICES ASSUME Init PROVE ConfigOfUsers /\ DatabaseUsers
    OBVIOUS
  <2>1. config.users = {} /\ config.deleted = {} /\ db = {} /\ rec.converted = {} /\ rec.pc = "idle"
    BY IdleFacts DEF Init
  <2> QED
    BY <2>1 DEF ConfigOfUsers, DatabaseUsers, NamesIn
<1>2. TypesOK /\ WorksForKnownUsers /\ ConfigOfUsers /\ DatabaseUsers /\ [Next]_vars
        => ConfigOfUsers' /\ DatabaseUsers'
  BY ConfigStep, DatabaseStep
<1>3. TypesOK /\ DatabaseUsers => RemovedUsersGone
  <2> SUFFICES ASSUME TypesOK, DatabaseUsers, Quiet PROVE {u.name : u \in db} \ External \subseteq NamesOf(spec)
    BY DEF RemovedUsersGone
  <2>1. rec.pc = "idle" /\ lastApplied = spec
    BY IdleFacts DEF Quiet, Settled
  <2>2. Known = Elements(spec)
    BY <2>1, UserSecretsAssumption DEF Known, Before, Now, TypesOK, TypeOK
  <2> QED
    BY <2>2 DEF DatabaseUsers, NamesIn, NamesOf
<1> QED
  BY <1>1, <1>2, <1>3, TypesInvariant, WorksInvariant, PTL DEF Spec

-----------------------------------------------------------------------------
(***************************************************************************)
(* Secrets that were left.                                                 *)
(***************************************************************************)
HasScram(n) == scramSecret[n] # None
HasConn(c) == connSecret[c] \notin {None, Foreign} /\ connSecret[c].user \notin External

\* Every Secret the operator has written belongs to a user it knows of, and
\* after the cleanup to a user of the reconciliation.
SecretsKnown ==
  /\ \A n \in SecretNames : HasScram(n) => n \in ScramOf(Known)
  /\ \A c \in ConnNames : HasConn(c) => c \in ConnsOf(Known)
  /\ rec.pc \in {"cleanConn", "save"} =>
       \A n \in SecretNames : HasScram(n) => n \in ScramOf(Elements(rec.users))
  /\ rec.pc = "save" =>
       \A c \in ConnNames : HasConn(c) => c \in ConnsOf(Elements(rec.users))

SecretsOfUsers == used.faults = 0 => SecretsKnown

\* A request that failed stays counted.
LEMMA FaultsKept ==
  ASSUME TypesOK, [Next]_vars, used'.faults = 0
  PROVE  used.faults = 0
<1>0. used \in Counts
  BY DEF TypesOK
<1>1. CASE CleanupScramSecrets \/ CleanupConnectionStringSecrets \/ UpdateLastSuccessfulConfiguration
           \/ RequestFails
  BY <1>1, CleanupScramEffect, CleanupConnEffect, SaveEffect, FailEffect
<1>2. ASSUME NEW list, EditUsers(list) PROVE used.faults = 0
  BY <1>0, <1>2, ChangeCounts DEF EditUsers
<1>3. ASSUME NEW c, DeleteConnectionString(c) PROVE used.faults = 0
  BY <1>0, <1>3, DisturbCounts DEF DeleteConnectionString
<1>4. CASE used' = used
  BY <1>4
<1> QED
  BY <1>1, <1>2, <1>3, <1>4, OtherSteps
     DEF StartReconcile, EnsureUserResources, Enable, EnsureAutomationConfig, AwaitAgents,
         UpdateConnectionStringSecrets, AgentsReachGoal

\* A step that writes no Secret, before the cleanup or outside of it.
LEMMA SecretsKept ==
  ASSUME SecretsKnown, Known \subseteq Known', scramSecret' = scramSecret,
         \A c \in ConnNames : HasConn(c)' => HasConn(c),
         rec' = rec \/ rec'.pc \notin {"cleanConn", "save"}
  PROVE  SecretsKnown'
<1>1. ScramOf(Known) \subseteq ScramOf(Known') /\ ConnsOf(Known) \subseteq ConnsOf(Known')
  BY MoreUsers
<1>2. \A n \in SecretNames : HasScram(n)' => HasScram(n)
  BY DEF HasScram
<1> QED
  BY <1>1, <1>2 DEF SecretsKnown

\* What the cleanup has not deleted is still in use.
LEMMA CleanupLeavesUsed ==
  ASSUME NEW n, NEW users, NEW last,
         n \notin SecretsToDelete(users, last, "scram"), n \in ScramOf(Elements(last))
  PROVE  n \in ScramOf(Elements(users))
<1>1. PICK v \in Elements(last) : IsScram(v) /\ v.scram = n
  BY DEF ScramOf
<1>2. PICK w \in Elements(users) : w.name = v.name /\ w.scram = v.scram
  <2> DEFINE left == {x \in Elements(last) : IsScram(x) /\
                        ~\E w \in Elements(users) : w.name = x.name /\ w.scram = x.scram}
  <2>1. SecretsToDelete(users, last, "scram") = {x.scram : x \in left}
    BY LeftSecrets
  <2>2. v \notin left
    BY <1>1, <2>1
  <2> QED
    BY <1>1, <2>2
<1> QED
  BY <1>1, <1>2 DEF ScramOf, IsScram

\* A connection string secret that cleanup leaves alone although a last
\* applied user had it is one that a user still has.
LEMMA CleanupLeavesUsedConn ==
  ASSUME NEW c, NEW users, NEW last,
         c \notin SecretsToDelete(users, last, "conn"), c \in ConnsOf(Elements(last))
  PROVE  c \in ConnsOf(Elements(users))
<1>1. PICK v \in Elements(last) : IsScram(v) /\ v.conn = c
  BY DEF ConnsOf
<1>2. PICK w \in Elements(users) : w.name = v.name /\ w.conn = v.conn
  <2> DEFINE left == {x \in Elements(last) : IsScram(x) /\
                        ~\E w \in Elements(users) : w.name = x.name /\ w.conn = x.conn}
  <2>1. SecretsToDelete(users, last, "conn") = {x.conn : x \in left}
    BY LeftSecrets
  <2>2. v \notin left
    BY <1>1, <2>1
  <2> QED
    BY <1>1, <2>2
<1> QED
  BY <1>1, <1>2 DEF ConnsOf, IsScram

\* While a reconciliation runs, the users it does not work for are those of the
\* last applied spec.
LEMMA KnownWhileRunning ==
  ASSUME WorksForKnownUsers, rec.pc # "idle"
  PROVE  /\ Known = (IF rec.last = None THEN {} ELSE Elements(rec.last)) \cup Elements(rec.users)
         /\ \A n \in ScramOf(Known) :
              n \in ScramOf(Elements(rec.users)) \/ (rec.last # None /\ n \in ScramOf(Elements(rec.last)))
         /\ \A c \in ConnsOf(Known) :
              c \in ConnsOf(Elements(rec.users)) \/ (rec.last # None /\ c \in ConnsOf(Elements(rec.last)))
<1>1. Known = (IF rec.last = None THEN {} ELSE Elements(rec.last)) \cup Elements(rec.users)
  BY DEF Known, Before, Now, WorksForKnownUsers
<1> QED
  BY <1>1 DEF ScramOf, ConnsOf

\* The steps that write, delete and forget.
LEMMA SecretsStep ==
  ASSUME ~EditsInFlight, TypesOK, WorksForKnownUsers, SecretsOfUsers, [Next]_vars
  PROVE  SecretsOfUsers'
<1> SUFFICES ASSUME used'.faults = 0 PROVE SecretsKnown'
  BY DEF SecretsOfUsers
<1>0. /\ used.faults = 0 /\ SecretsKnown /\ RecOK
      /\ scramSecret \in [SecretNames -> CredsOrNone]
      /\ connSecret \in [ConnNames -> CredsOrNone \cup {Foreign}]
  BY FaultsKept DEF SecretsOfUsers, TypesOK, TypeOK
<1>k. rec.pc # "idle" => Elements(rec.users) \subseteq Known
  BY DEF Known, Now
<1>1. CASE UpdateLastSuccessfulConfiguration /\ Elements(rec.users) \subseteq Known'
  <2>1. /\ rec.pc = "save" \/ (rec.pc = "publish" /\ rec.last = None)
        /\ rec'.pc = "idle" /\ scramSecret' = scramSecret /\ connSecret' = connSecret
    BY <1>1, SaveEffect, IdleFacts DEF secrets
  <2>2. ScramOf(Elements(rec.users)) \subseteq ScramOf(Known') /\ ConnsOf(Elements(rec.users)) \subseteq ConnsOf(Known')
    BY <1>1, MoreUsers
  <2>3. /\ \A n \in SecretNames : HasScram(n)' => n \in ScramOf(Elements(rec.users))
        /\ \A c \in ConnNames : HasConn(c)' => c \in ConnsOf(Elements(rec.users))
    <3>1. CASE rec.pc = "save"
      BY <1>0, <2>1, <3>1 DEF SecretsKnown, HasScram, HasConn
    <3>2. CASE rec.pc = "publish" /\ rec.last = None
      <4>1. /\ \A n \in ScramOf(Known) : n \in ScramOf(Elements(rec.users))
            /\ \A c \in ConnsOf(Known) : c \in ConnsOf(Elements(rec.users))
        BY <3>2, KnownWhileRunning
      <4> QED
        BY <1>0, <2>1, <4>1 DEF SecretsKnown, HasScram, HasConn
    <3> QED
      BY <2>1, <3>1, <3>2
  <2> QED
    BY <2>1, <2>2, <2>3 DEF SecretsKnown
<1>2. CASE Known \subseteq Known'
  <2>0. /\ ScramOf(Known) \subseteq ScramOf(Known') /\ ConnsOf(Known) \subseteq ConnsOf(Known')
        /\ rec.pc # "idle" => /\ ScramOf(Elements(rec.users)) \subseteq ScramOf(Known')
                              /\ ConnsOf(Elements(rec.users)) \subseteq ConnsOf(Known')
    <3>1. rec.pc # "idle" => Elements(rec.users) \subseteq Known'
      BY <1>2, <1>k
    <3> QED
      BY <1>2, <3>1, MoreUsers
  <2>a. ASSUME scramSecret' = scramSecret, connSecret' = connSecret,
               rec' \in {Idle, rec} \/ rec'.pc \notin {"cleanConn", "save"}
        PROVE  SecretsKnown'
    <3>1. \A c \in ConnNames : HasConn(c)' => HasConn(c)
      BY <2>a DEF HasConn
    <3> QED
      BY <1>0, <1>2, <2>a, <3>1, SecretsKept, IdleFacts
  <2>1. CASE Enable
    <3>1. rec.pc = "enable" /\ rec.todo # <<>> /\ connSecret' = connSecret
      BY <2>1, EnableEffect
    <3>2. CASE scramSecret' = scramSecret
      BY <2>1, <2>a, <3>1, <3>2, EnableEffect DEF Moved
    <3>3. CASE /\ IsScram(Head(rec.todo)) /\ rec'.pc = "enable"
               /\ \E creds : scramSecret' = [scramSecret EXCEPT ![Head(rec.todo).scram] = creds]
      <4>1. Head(rec.todo) \in Elements(rec.users)
        BY <1>0, <3>1, NextUser
      <4>2. Head(rec.todo).scram \in ScramOf(Elements(rec.users))
        BY <3>3, <4>1 DEF ScramOf
      <4>3. \A n \in SecretNames : HasScram(n)' => n = Head(rec.todo).scram \/ HasScram(n)
        BY <1>0, <3>3 DEF HasScram
      <4>4. \A c \in ConnNames : HasConn(c)' => HasConn(c)
        BY <3>1 DEF HasConn
      <4> QED
        BY <1>0, <2>0, <3>1, <3>3, <4>2, <4>3, <4>4 DEF SecretsKnown
    <3> QED
      BY <2>1, <3>2, <3>3, EnableEffect DEF Moved
  <2>2. CASE UpdateConnectionStringSecrets
    <3>1. rec.pc = "publish" /\ rec.todo # <<>> /\ scramSecret' = scramSecret /\ rec'.pc = "publish"
      BY <2>2, PublishEffect DEF Moved
    <3>2. CASE connSecret' = connSecret
      BY <2>a, <3>1, <3>2
    <3>3. ASSUME NEW new, new.user = Head(rec.todo).name,
                 connSecret' = [connSecret EXCEPT ![Head(rec.todo).conn] = new]
          PROVE  SecretsKnown'
      <4>1. Head(rec.todo) \in Elements(rec.users)
        BY <1>0, <3>1, NextUser
      <4>2. IsScram(Head(rec.todo)) => Head(rec.todo).conn \in ConnsOf(Elements(rec.users))
        BY <4>1 DEF ConnsOf
      <4>3. \A c \in ConnNames :
              HasConn(c)' => HasConn(c) \/ (c = Head(rec.todo).conn /\ IsScram(Head(rec.todo)))
        BY <1>0, <3>3 DEF HasConn, IsScram
      <4>4. \A n \in SecretNames : HasScram(n)' => HasScram(n)
        BY <3>1 DEF HasScram
      <4> QED
        BY <1>0, <2>0, <3>1, <4>2, <4>3, <4>4 DEF SecretsKnown
    <3> QED
      BY <2>2, <3>2, <3>3, PublishEffect
  <2>3. CASE CleanupScramSecrets
    <3>1. /\ rec.pc = "publish" /\ rec.last # None /\ rec'.pc = "cleanConn" /\ rec'.users = rec.users
          /\ connSecret' = connSecret
          /\ \A n \in SecretNames :
               /\ scramSecret'[n] \in {scramSecret[n], None}
               /\ n \in SecretsToDelete(rec.users, rec.last, "scram") => scramSecret'[n] = None
      BY <2>3, CleanupScramEffect DEF Moved
    <3>2. \A n \in SecretNames : HasScram(n)' =>
            HasScram(n) /\ n \notin SecretsToDelete(rec.users, rec.last, "scram")
      BY <3>1 DEF HasScram
    <3>3. \A n \in SecretNames : HasScram(n)' => n \in ScramOf(Elements(rec.users))
      BY <1>0, <3>1, <3>2, KnownWhileRunning, CleanupLeavesUsed DEF SecretsKnown
    <3>4. \A c \in ConnNames : HasConn(c)' => HasConn(c)
      BY <3>1 DEF HasConn
    <3> QED
      BY <1>0, <2>0, <3>1, <3>2, <3>3, <3>4 DEF SecretsKnown
  <2>4. CASE CleanupConnectionStringSecrets
    <3>1. /\ rec.pc = "cleanConn" /\ rec'.pc = "save" /\ rec'.users = rec.users
          /\ scramSecret' = scramSecret
          /\ \A c \in ConnNames :
               /\ connSecret'[c] \in {connSecret[c], None}
               /\ c \in SecretsToDelete(rec.users, rec.last, "conn") => connSecret'[c] = None
      BY <2>4, CleanupConnEffect DEF Moved
    <3>2. \A c \in ConnNames : HasConn(c)' =>
            HasConn(c) /\ c \notin SecretsToDelete(rec.users, rec.last, "conn")
      BY <3>1 DEF HasConn
    <3>3. \A c \in ConnNames : HasConn(c)' => c \in ConnsOf(Elements(rec.users))
      BY <1>0, <3>1, <3>2, KnownWhileRunning, CleanupLeavesUsedConn DEF SecretsKnown
    <3>4. \A n \in SecretNames : HasScram(n)' => HasScram(n)
      BY <3>1 DEF HasScram
    <3> QED
      BY <1>0, <2>0, <3>1, <3>2, <3>3, <3>4 DEF SecretsKnown
  <2>5. CASE StartReconcile
    BY <2>5, <2>a, StartEffect DEF secrets
  <2>6. CASE EnsureUserResources
    BY <2>6, <2>a, EnsureEffect DEF Moved, secrets
  <2>7. CASE EnsureAutomationConfig
    BY <2>7, <2>a, ConfigEffect DEF Moved, secrets
  <2>8. CASE AwaitAgents
    BY <2>8, <2>a, AwaitEffect DEF Moved, secrets
  <2>9. CASE UpdateLastSuccessfulConfiguration
    BY <2>9, <2>a, SaveEffect DEF secrets
  <2>10. CASE RequestFails
    BY <2>10, FailEffect
  <2>11. CASE AgentsReachGoal
    BY <2>11, <2>a DEF AgentsReachGoal, secrets
  <2>12. ASSUME NEW list, EditUsers(list) PROVE SecretsKnown'
    BY <2>12, <2>a DEF EditUsers, secrets
  <2>13. ASSUME NEW c, DeleteConnectionString(c) PROVE SecretsKnown'
    <3>1. connSecret' = [connSecret EXCEPT ![c] = None] /\ scramSecret' = scramSecret /\ rec' = rec
      BY <2>13 DEF DeleteConnectionString
    <3>2. \A d \in ConnNames : HasConn(d)' => HasConn(d)
      BY <1>0, <3>1 DEF HasConn
    <3> QED
      BY <1>0, <1>2, <3>1, <3>2, SecretsKept
  <2> QED
    BY <2>a, <2>1, <2>2, <2>3, <2>4, <2>5, <2>6, <2>7, <2>8, <2>9, <2>10, <2>11, <2>12, <2>13,
       OtherSteps
<1> QED
  BY <1>1, <1>2, KnownKept

\* Until a request fails, nothing is left behind: when all is quiet, every
\* Secret with credentials and every connection string of a SCRAM user is one
\* that a user of the spec names, whichever users were removed or renamed.
THEOREM NothingLeftTheorem ==
  ASSUME ~EditsInFlight
  PROVE  Spec => []NothingLeftBehind
<1>1. Init => SecretsOfUsers
  <2> SUFFICES ASSUME Init PROVE SecretsKnown
    BY DEF SecretsOfUsers
  <2>1. /\ rec.pc = "idle" /\ \A n \in SecretNames : scramSecret[n] = None
        /\ \A c \in ConnNames : connSecret[c] \in {None, Foreign}
    BY IdleFacts DEF Init
  <2> QED
    BY <2>1 DEF SecretsKnown, HasScram, HasConn
<1>2. TypesOK /\ WorksForKnownUsers /\ SecretsOfUsers /\ [Next]_vars => SecretsOfUsers'
  BY SecretsStep
<1>3. TypesOK /\ SecretsOfUsers => NothingLeftBehind
  <2> SUFFICES ASSUME TypesOK, SecretsKnown, Quiet
               PROVE  /\ \A n \in SecretNames : scramSecret[n] # None =>
                           \E u \in Elements(spec) : IsScram(u) /\ u.scram = n
                      /\ \A c \in ConnNames :
                           connSecret[c] \notin {None, Foreign} /\ connSecret[c].user \notin External =>
                           \E u \in Elements(spec) : u.conn = c
    BY DEF NothingLeftBehind, SecretsOfUsers
  <2>1. rec.pc = "idle" /\ lastApplied = spec
    BY IdleFacts DEF Quiet, Settled
  <2>2. Known = Elements(spec)
    BY <2>1, UserSecretsAssumption DEF Known, Before, Now, TypesOK, TypeOK
  <2> QED
    BY <2>2 DEF SecretsKnown, HasScram, HasConn, ScramOf, ConnsOf
<1> QED
  BY <1>1, <1>2, <1>3, TypesInvariant, WorksInvariant, PTL DEF Spec
=============================================================================
