# A TLA+ model of the MongoDB Community Kubernetes Operator

The operator turns a `MongoDBCommunity` custom resource into a MongoDB replica
set on Kubernetes. It never talks to `mongod`: it writes an *automation config*
into a Secret, which the MongoDB agents in the pods carry out, and two
*StatefulSets* (members and arbiters), which the StatefulSet controller carries
out. It learns how far they have got from the readiness of the pods and from an
annotation that the readiness probe writes on each pod. Everything that is hard
in it comes from this: a change needs several parties to act in turn, each of
them acts when it likes, the operator can stop between any two calls, and the
only memory it has is the status and two annotations of the resource.

This project models that protocol: the reconciler call by call, interleaved with
the user, the cluster and crashes (`ReplicaSetController`); what happens inside a
pod between the agent, the readiness probe and the version upgrade hook
(`MemberPod`); the two objects the operator derives from the resource, the
automation config and the StatefulSet, over a series of edits (`DeployedObjects`);
and three parts of a reconciliation that have a life of their own: changing ports
(`PortChange`), rotating certificates (`CertificateRotation`), and the database
users with their Secrets (`UserSecrets`). TLC checks them on small instances. TLAPS
proves for all instances that the reconciler implements an abstract specification of
scaling (`OneStepScaling`), and every safety property the passing runs check: some
without a condition, some for users who wait until an edit is deployed. Section 6 has
the conditions, and what goes wrong without them.

## 1. Inventory of the system

| Component (source) | State it keeps | Operations | What makes it correct |
|---|---|---|---|
| Scaling arithmetic (`pkg/util/scale`) | none | `ReplicasThisReconciliation`, `IsStillScaling`, ... | one replica at a time, never past the target |
| Custom resource (`api/v1`) | spec; status: phase and four counters; annotations: last applied spec and version | derived counts, `IsChangingVersion`, `GetUpdateStrategyType`, validation | counters describe what is deployed |
| Reconciler (`controllers/replica_set_controller.go`) | nothing between two reconciliations | `Reconcile`: validate, Service, TLS, users, then config and StatefulSets in an order that `shouldRunInOrder` chooses, reset of the update strategy, status, annotation | Running only when deployed; order of config and StatefulSet; every valid spec deployed in the end |
| Automation config (`pkg/automationconfig`) | the Secret: version and content, of which the compatibility version is taken over into the next one | `Build`, `EnsureSecret`, override | an agent in goal state runs this config and no earlier one; building twice changes nothing; ids are kept; votes within the limit |
| StatefulSets (`controllers/construct`, `pkg/kube/statefulset`, `podtemplatespec`, `container`) | replicas, template, update strategy, status; modified in place | `CreateOrUpdate`, `IsReady`, `ResetUpdateStrategy` | no roll-out of a version by Kubernetes; what the config names is mounted |
| Merging of overrides (`pkg/util/merge`) | none | merge of StatefulSets, pod templates, containers, processes | an override that is withdrawn leaves nothing the operator chooses changed |
| Goal states (`pkg/agent/agent_readiness.go`) | none, reads pods | `AllReachedGoalState` | does not pass too early, does not wait for ever |
| Readiness probe (`cmd/readiness`, `pkg/readiness`) | pod annotation, verdict | read the health file, read the config version, patch the pod, answer | annotates the version that is applied; ready while it waits for others |
| Version upgrade hook (`cmd/versionhook`) | none | poll the health file for a limited time, delete the pod or let mongod start | lets the StatefulSet controller bring the new image; misses no plan |
| Port manager (`pkg/agent/replica_set_port_manager.go`) | none | port of each process, ports of the Service | one port in flight |
| Resource watcher (`controllers/watch`) | map from Secret to dependent resources, in memory | `Watch`, event handlers | nobody who uses a Secret misses a rotation |
| TLS (`controllers/mongodb_tls.go`) | copies of certificates | validate, copy, refer to in the config | certificates mounted before they are used |
| Users (`controllers/mongodb_users.go`, `pkg/authentication`) | Secrets: credentials, connection strings | check passwords, keep or regenerate credentials, publish connection strings, name removed users | every user of the spec, and no other, with its own current password |
| Cleanup (`controllers/mongodb_cleanup.go`) | none, compares last applied and present spec | delete Secrets no longer named | deletes what is left over and nothing in use |
| Prometheus (`controllers/prometheus.go`) | endpoint in the config, certificate | modifications of config and StatefulSet | the certificate it names is mounted |
| Client wrappers, manager, state machine | - | - | hardly or not modelled (section 9) |

The components meet in shared objects only: the resource (user and reconciler),
the config Secret (reconciler and agents), the StatefulSets (reconciler and
StatefulSet controller), the pods (StatefulSet controller, hook and probe write,
reconciler reads), the watcher's map (three workers and the informers), and the
work queue (every event of a resource or of an owned StatefulSet). Events carry
no content: the queue remembers only that the resource must be looked at.

The behaviours that are hard, and that unit tests with a fake client do not
reach: an edit during a reconciliation, a crash between two writes, a status
update refused as a conflict, a stale cached read, parties that wait for one
another (pods are created in order, agents wait for other agents, the operator
waits for both), changes that are combined in one edit, a health file that is
older than what it is read for, objects that are modified in place and remember
earlier specs, and Go maps that are shared between workers or listed in an
arbitrary order. `PROJECT.json` lists them as hazards with their lines and with
the properties that cover them.

## 2. Modules

```
Scale <- MongoDBCommunity <- Cluster <- ReplicaSetController <- MCReplicaSetController
         OneStepScaling (abstract) <- INSTANCE in ReplicaSetController
ReplicaSetController <- ReplicaSetControllerProofs <- SingleEditProofs <- RolloutProofs
MemberPod <- MemberPodProofs
Merge <- AutomationConfigBuilder, StatefulSetTemplate <- DeployedObjects <- MCDeployedObjects
                                                                         <- DeployedObjectsProofs
ReplicaSetPortManager <- PortChange <- PortChangeProofs
ResourceWatcher <- CertificateRotation <- MCCertificateRotation
                                       <- CertificateRotationProofs
                <- UserSecrets <- MCUserSecrets
                               <- UserSecretsProofs
```

**Scale** is `pkg/util/scale/scale.go` as operators on a record (current, desired,
forced) that stands for a Go `ReplicaSetScaler`.

**MongoDBCommunity** holds the resource as a record (spec, status, lastApplied)
and the methods of `mongodbcommunity_types.go` that the reconciler decides with:
the four counts of a reconciliation, `IsStillScaling`, `IsChangingVersion`,
`GetUpdateStrategyType`, and the validation that depends on this state. The spec
is members, arbiters, version, TLS and whether there is a config override. The
two annotations are written in one patch and are one field.

**Cluster** holds the objects outside the resource (`ac`, `sts`, `arbSts`,
`pods`) and what the parties other than the operator do: the StatefulSet
controller (observe, create, remove and roll pods under the OrderedReady policy
that the operator leaves at its default), the agent with the readiness probe
(reach the goal state and annotate; become not ready; become ready on a wait
step), and the version upgrade hook. The StatefulSet controller is external and
modelled from how the operator uses it. The agent is external too; what is
modelled is what the repository's probe and hook make visible of it: it reaches
the goal only with the mongod version of its image and, for TLS, with the
certificates mounted; a version change goes one process at a time.

**ReplicaSetController** is `Reconcile`. One action stands for the code between
two accesses to shared state:

| `pc` | action | code |
|---|---|---|
| idle | `StartReconcile` | the cached `Get`, possibly stale |
| prepare | `Prepare`, `TLSConfigNotValid` | `validateSpec` ... `ensureUserResources` and their early returns |
| order | `ChooseOrder` | `shouldRunInOrder`, also with its ignored error |
| ac | `EnsureAutomationConfig` | build, version, merge, `EnsureSecret` |
| agents | `AwaitAgents` | `AllReachedGoalState`, or no StatefulSet yet |
| sts, arbSts | `CreateOrUpdateStatefulSet`, `CreateOrUpdateArbiters` | `deployStatefulSet` |
| stsReady | `AwaitStatefulSet` | `IsReady` or OnDelete |
| reset | `ResetUpdateStrategy` | the function of that name |
| status | `UpdateStatus` | `status.Update` with Running or, while scaling, Pending |
| annotate | `SaveLastApplied` | `updateLastSuccessfulConfiguration` |

`EndWithPhase` is the early return through `status.Update`: it writes the phase
unless the copy of the resource is outdated, and requeues. `CallFails` is the
error path of every other call. `EditSpec` is the user, `Crash` the operator's
process. The work queue is a Boolean because it deduplicates requests; delays of
a requeue are left out, which allows more interleavings than the code has.

**OneStepScaling** is what the reconciler promises about members, without
reconciliations: three numbers (reported, replicas, configured), of which the last
two move one step around the first, which in turn only moves to a number on which
both agree. `ReplicaSetController` instantiates it with the status, the
StatefulSet and the config (`Scaling`), and `MembersScaleOneByOne` is the whole
abstract specification, checked as a property and proved as a theorem.

**MemberPod** is one member pod from the inside. The agent (external, modelled
from what the probe and the hook expect of it) plans towards the newest config,
stops mongod, waits, achieves the goal, restarts, and dumps the health status file
at least every `DumpInterval`. The mongod container runs the hook, one action per
poll of `waitForAgentHealthStatus`, then waits for the keyfile and starts mongod.
The readiness probe is three actions, because each of its calls may be overtaken:
`ProbeReadsFile` (`main`, `isPodReady`), `ProbeReadsSecret` (`ReadAutomationConfigVersionFromSecret`),
`ProbePatchesPod` (`readCurrentAgentInfo`, `PatchPodAnnotation` and the verdict).
A pod that is deleted comes back empty and with the image of the StatefulSet. Time
is a tick per poll; timestamps are ages. `Cluster` sees the same pod from outside
and has one action for each verdict.

**Merge** is `pkg/util/merge`: structs as functions from the fields that are set,
lists merged by name as functions from names, and the lists the code leaves in the
order of a Go map as sets of possible sequences. **AutomationConfigBuilder** is
`Build` with the modifications of `buildAutomationConfig`, the override and
`EnsureSecret`. **StatefulSetTemplate** is the chain of modifications of
`BuildMongoDBReplicaSetStatefulSetModificationFunction` and of `mongodb_tls.go`,
applied to the StatefulSet that exists, and the override merged into the result.
**DeployedObjects** lets the user move between specs while the two objects are
written in any order, deletes one of them now and then, and scales through the
status, so that the content of each is the result of a history. An update of the
StatefulSet that would change its selector, Service or claims is refused, as by the
API server (`UpdateAccepted`). The strategy is that between version changes;
OnDelete and its reset are in `ReplicaSetController`. The operator is taken to run
without `MANAGED_SECURITY_CONTEXT`, with which it leaves the security contexts alone.

**ReplicaSetPortManager** is `calculateExpectedPorts` and `GetServicePorts` as
operators; the iteration order of a Go map is a choice from a set. **PortChange**
puts them into a reconciliation of a deployed replica set of constant size: the
pods are read three times (Service, config, agents), for the config one by one
(`ReadPodState`) before it is built from what was read, and pods are lost, agents
progress and the user edits in between.

**ResourceWatcher** is `controllers/watch`: `Watch` reads a slice and stores a
longer one in two steps, because nothing locks the map. **CertificateRotation**
runs several reconciliations at a time against it, each reading the TLS Secret
when it validates, copies it for the pods and builds the config. For the copy and
for the config, `tls.crt` and `tls.key` are two reads (`ReadCrt`, `ReadKey`), and
what was read is written in a step of its own, so that a rotation may come between
any two of them; any of the calls may fail (`CallFails`). The presence check of the
validation is one step, and the Secrets have no `tls.pem`.

**UserSecrets** follows the users through a reconciliation, one user at a time
as the code does: the check of the password Secret and its watch
(`EnsureUserResources`), the credentials that are reused or generated (`Enable`,
`EnsureScramCredentials`), the config with the users and the removed users
(`EnsureAutomationConfig`), Running (`AwaitAgents`), the connection strings
(`UpdateConnectionStringSecrets`, ended by the first error), the cleanup against
the spec that was last applied, and the annotation
(`UpdateLastSuccessfulConfiguration`). Credentials are a user and a password;
hashes and salts are left out. Around it: edits of the list of users, passwords
that are changed or deleted, connection strings that are deleted, failed
requests, restarts that empty the watcher, and agents that add and delete
database users. A status update is a conflict once the list of users was edited,
and ends the reconciliation (`Fresh`). The StatefulSets are left out: they stand still. Reads are not
stale here. The events of the first list after a restart are left out; they ask
for a reconciliation that the restart asks for anyway.

`MCReplicaSetController` builds the specs a user may apply from the field values
in a .cfg; `MCCertificateRotation` gives every resource its own Secret or all the
same one; `MCUserSecrets` lists the users a spec may have; `MCDeployedObjects` is a
base spec and variants of it. Definitions commented as mutants are wrong versions of the definition
that follows them; the properties were checked to fail with each of them.

## 3. Runs that pass

| Run | Instance | Properties |
|---|---|---|
| `scaling` | 1-3 members, 0-2 arbiters; two edits of one field each, one crash | `ConfigDropsMemberBeforePod`, `PodBeforeConfigAddsMember`, `MembersScaleOneByOne`, `ArbiterReplicaForEveryArbiter`, `RunningMeansArbitersDeployed`, `Converges` |
| `upgrade` | 3 members, two versions, TLS off or on; one edit of version, TLS or both, one crash | `NoNativeRollingUpgrade`, `ImageBeforeConfig`, `CertsBeforeTLSConfig`, `Converges` |
| `edits_in_flight` | 1 member with or without TLS and a config override, or 3 members and an arbiter; one edit at any moment, one API error, one stale read | `TypeOK`, `StatusTellsTheTruth`, `RunningMeansDeployed`, `RunningReportsCurrentSpec`, `GoalStateIsOfThisConfig` |
| `member_pod` | two mongod versions, two configs, a dump at least every tick, wait threshold 2, poll limit 2; one restart, death of mongod or failed call | `AnnotationIsAchieved`, `NoPlanTimedOut`, `WaitStepHasLasted`, `ConfigReached` |
| `deployed_objects` | 14 specs: sizes, versions, certificates, settings, overrides; two edits, one deleted object; 3 votes, arbiters from index 5 | `ReconcileIsIdempotent`, `VotesWithinLimit`, `MemberIdsKept`, `FCVFollowsUser`, `OverrideRemovalRestores`, `MountsHaveVolumes`, `NamedFilesMounted` |
| `port_changes` | 2 members, 1 arbiter, two ports; two edits at any moment, a lost pod, an API error | `TypeOK`, `OnePortInFlight`, `ServiceExposesConfigPorts`, `PortChangeCompletes` |
| `rotate_own_secrets` | 2 resources with a Secret each; three rotations, one failed call, one crash | `WatchedWhenUsed`, `NoRotationMissed`, `RotationsReachConfig` |
| `users` | 2 SCRAM users and an X.509 user in four lists (one of them invalid), two passwords; two edits or password changes, and one deleted Secret, failed request or restart | `TypeOK`, `OwnCredentials`, `RemovedUsersGone`, `StoredCredentialsKept`, `NothingLeftBehind`, `PasswordsReachDatabase`, `ConnectionStringsFollow` |

What they show. A change of one thing at a time to a deployed replica set is
carried out in the right order and in the end, wherever the operator is stopped
(`scaling`, `upgrade`). What the operator reports is true however the user edits
and the API fails, and an agent it counts as being in goal state runs the config it
was asked for (`edits_in_flight`). In a pod, the annotation the operator
trusts is backed by what the agent did, the hook neither overlooks a plan nor
lets agent and container wait for each other, and the pod arrives at the last
config (`member_pod`). Config and StatefulSet are fixpoints of the operator after
any series of edits, name and mount the same files, and give back every value an
override had changed, once the update is accepted (`deployed_objects`). Ports change one at a time and the last
port wins. Rotated certificates always arrive if no other resource uses the same
Secret. Users who are added, removed or renamed, and passwords that change, reach
the database and the published Secrets, and nothing of an earlier user stays, as
long as each edit is deployed before the next and no two users pass the name of a
credentials Secret to one another (`users`).

*Bounds.* Three members are the least for which a scaling operation takes two
steps, so that it can be interrupted in the middle, and for which an upgrade has
a pod that is done, one in progress and one to come. Two edits let the second
overtake the first or undo it; in `edits_in_flight` one edit overtakes the first
deployment, and the theorems of section 6 lift the bound. One crash at any point
is enough to lose any reconciliation; another only repeats it, since nothing is
kept in memory (the watcher, which is, is restarted empty). In `member_pod` the
threshold is the least above the dump interval and the poll limit the least that
leaves a poll between the first and the last; the second config may change the
version, drop the process or do neither, and may overtake the first anywhere. In
`deployed_objects` two edits withdraw an override or come back to an earlier spec;
the limit of votes and the index of the first arbiter are small so that three
members and two arbiters reach them. Two ports and two edits include a change
that is turned round half way; with a third port the Service, which exposes two,
can miss a port of the config, and `ServiceExposesConfigPorts` does not hold.
Two changes of users let one be removed and added again, or a password change
overtake an edit; one disturbance is any single failure, at any point. Every bound
is a constant named in the modules. Deadlock is not checked in the modules where a
deployed resource without edits has nothing left to do; `PortChange` always can
resync and `MemberPod` always can probe, and they are checked.

## 4. Where the code and its comments disagree

Each of these is a run that TLC finds violated; `PROJECT.json` quotes the lines.

| Run | What happens |
|---|---|
| `tls_scale_up` | Scaling up with TLS. `shouldRunInOrder` finds the StatefulSet not ready for the *new* count and pushes the config first; the operator then waits for the agent of a pod that the StatefulSet, never reached, does not get. |
| `scram_secret_reused` | Bob replaces alice and takes over the name of her credentials Secret. His credentials are written to it, Running is reported, and then the cleanup deletes the Secret because alice is gone. The next reconciliation repairs it, unless bob's password Secret has been deleted by then, as the documentation recommends. |
| `arbiter_member_options` | Three members and an arbiter are scaled to five members with options for each. The config grows by one member at a time and the options are applied by index: in the config with four members, index 4 is the arbiter. It gets the options of the fifth member, which is to be hidden, and loses its vote. |
| `replicas_override` | The number of members is repeated in the StatefulSet override, as validation asks, and raised by two. The override is merged after the scaler has set the replicas, and the StatefulSet jumps. |

The passing runs stay clear of these instances and of the following, which the
same properties refute when the constants allow them.

* Joint edits of members and arbiters: the arbiter StatefulSet moves with every
  reconciliation while the arbiters of the config wait for the members. Scaling
  both down, it loses a replica the config still names
  (`ArbiterReplicaForEveryArbiter`); scaling from 1 and 0 to 3 and 2,
  `IsStillScaling`, which looks at the StatefulSets, lets Running be reported with
  one arbiter in the config (`RunningMeansArbitersDeployed`); with members down and
  arbiters up the StatefulSet goes first (`ConfigDropsMemberBeforePod`). A scale
  down joined with a version change takes precedence over it (`ImageBeforeConfig`).
* More members before the first Running: `Converges` (the counters are still 0,
  the config names all the new members at once and goes first, and the pods it
  waits for are in no StatefulSet).
* A shared TLS Secret: `WatchedWhenUsed` (two resources register for it at the same
  time and one registration is lost).
* A password Secret that is deleted after use, and a restart:
  `PasswordsReachDatabase` (the operator uses the stored credentials and does not
  watch the missing Secret; creating it with a new password does nothing until
  some other event).
* Users edited before the last edit was deployed: `RemovedUsersGone` (a user who
  was in a config but never in a saved annotation is never named as removed).
  A failed deletion or annotation has the same effect on `NothingLeftBehind`.
* A name of a credentials Secret passed on to a user whose password Secret has been
  deleted: `OwnCredentials` (the stored credentials of the other user are taken). No
  valid list of `users` passes a name on; as long as no Secret is deleted it may be
  (`OwnCredentialsReused` in section 6).
* Two topology spread constraints in an override: `ReconcileIsIdempotent` (the
  merged list has the order of a Go map, so each reconciliation may change the
  template and with it restart the pods).

More by reading, or seen while the properties were found:

* The config override is merged in after `Build` has decided the version
  (`replica_set_controller.go:705-707`). A change of the override alone may therefore
  change the config under the version it had, and agents in goal state stay counted
  as such. What the goal of an agent depends on here, the mongod version, TLS and
  the members, never changes that way, also with overrides
  (`GoalStateIsOfThisConfig`).
* A rotation between the reads of `tls.crt` and `tls.key` gives a pair that does not
  belong together, and it is written; the event of the rotation brings the next
  reconciliation, which replaces it (`NoRotationMissed`).
* An override of the selector or the claims that is changed or withdrawn later is
  refused by the API server with every reconciliation from then on.
* With an arbiter that is behind, the port manager holds the next port back while
  the reconciler, which waits for members only, reports Running with ports still
  to change (a resync finishes the change, which is why `PortChangeCompletes`
  holds). Removed X.509 users are neither named to the agents nor are their
  connection strings deleted, and two X.509 users in one spec collide on the empty
  name of their credentials Secret (`ValidateUsers`).
* A pod is ready on a wait step if it has been "at least 15 sec on that Step"
  (`cmd/readiness/main.go:146-150`). The file can be as old as one dump interval and
  the step over by then: what holds is 15 seconds less that interval
  (`WaitStepHasLasted`).
* An agent that has just started has no plans, and `readCurrentAgentInfo` then
  answers the version it was to reach: `AnnotationIsAchieved` speaks of pods whose
  last probe saw plans.
* Only what the operator writes is restored when an override is withdrawn:
  sidecars, added environment variables, probe time-outs and fields of volumes stay
  in the StatefulSet, and mounts accumulate when `dbPath` changes.
* When the config Secret is deleted, the compatibility version and the version of
  the config start anew. `mergeProcess` clears the log rotation of a process it
  overrides.

## 5. Fairness

`Converges`, `PortChangeCompletes`, `RotationsReachConfig`,
`PasswordsReachDatabase` and `ConnectionStringsFollow` assume weak fairness
of the reconciler while a request is queued or a reconciliation runs
(controller-runtime keeps its workers going, and every early return requeues), of
the StatefulSet controller for each pod, of each agent and its probe, of the hook,
and of the informers. An agent is only assumed to reach the goal state while
every process of the config has a pod: otherwise it may wait for the others,
as the wait-step rule of the probe expects. `CertificateRotation` uses strong
fairness for the start of a reconciliation because the number of workers is
limited: the queue is first-in first-out, so no resource is passed over for
ever. `PortChange` includes the periodic resync of the informers, without which
a change that was reported too early would not be finished. Edits, crashes,
faults and probes that turn to not ready are not assumed to happen.

`ConfigReached` assumes weak fairness of the replacement of a deleted pod, of the
agent's plans, dumps and, for a change of version, stops of mongod, of the polls of
the hook, of the container's script and mongod, and of the probe, which the kubelet
runs periodically. A tick and reaching the goal have strong fairness, as a probe,
a dump or a restart of mongod disables them for a moment again and again, and
neither time nor the agent's work is lost by it. Configs, wait steps, restarts and
failures are not assumed.

## 6. What is proved

Every theorem has the form `Spec => ...` for the specification that the runs check, and
rests on the named assumptions of the modules, which TLC evaluates in the runs. A
condition in a table is an ASSUME of the theorem on the constants.

### The reconciler: `ReplicaSetControllerProofs`

`ReplicaSetControllerProofs` proves, with TLAPS and for every value of the
constants (any number of members, any specs, any number of edits, crashes, faults
and stale reads):

| Theorem | Statement |
|---|---|
| `TypeCorrect` | `Spec => []TypeOK` |
| `ReconcileInvariantHolds` | `Spec => []ReconcileInvariant` |
| `StatusIsTrue` | `Spec => []StatusTellsTheTruth` |
| `RunningIsDeployed` | `Spec => []RunningMeansDeployed` |
| `RunningIsCurrent` | `Spec => RunningReportsCurrentSpec` |
| `StaysWithinOneStep` | `Spec => []WithinOneStep` |
| `GoalStateIsReal` | `Spec => []GoalStateIsOfThisConfig` |
| `ScalesOneByOne` | without stale reads, `Spec => MembersScaleOneByOne`, that is `Scaling!Spec` |

They rest on the assumptions of the modules only: `MaxMembers` is positive, the
empty version is no version, the user's specs are specs, the bounds are numbers.

*The argument.* `StatusTellsTheTruth` is not inductive: the status is computed at
the end, from the copy of the resource, by rules other than those the config was
built with at some earlier step. `ReconcileInvariant` adds what is needed in
three conjuncts. `CountersAgree`: in every copy of the resource the two fields
that count members are equal, hence the scaler of the StatefulSet and the one of
the config are the same (lemma `ReportedCountsAreBuilt` then shows that the two
rules for arbiters agree). `DeployedSoFar`: for each `pc`, what the reconciliation
has written is still there and is what its copy asks for; the cluster changes
only what is observed of it (lemma `StatefulSetEventStep`). `SnapshotCurrent`: a
copy that is still fresh is the resource itself, so a status update that is
accepted speaks of the current spec. `WithinOneStep` is inductive relative to it,
with the lemma `ScalerStep` on the arithmetic. `GoalStateIsOfThisConfig` is about
annotations that outlive the config they were written for. It needs, besides the
types, that no annotation is ahead of the version of the config
(`AnnotationsNotAhead`), and the lemma `SameVersionSameGoal`: a config that is written
under the version of the one before has its members, mongod version and TLS, although
the override was merged in after the version was decided.

*The refinement.* The abstract numbers are the member count of the status, the
replicas of the StatefulSet and the members of the config. Writing the StatefulSet
or the config is `Resize` or `Configure`, because the scaler stays within one step
of the count in the copy and, without stale reads, that count is the one in the
status; a status update is `Report`, because `DeployedSoFar` says that both objects
have the number it computes; every other step leaves the three numbers alone. With a
stale read the proof would also need to relate the copy to the version before; TLC
finds no violation in `scaling` with one stale read.

### A member pod: `MemberPodProofs`

`MemberPodProofs` proves about the pod, for any number of configs and disturbances
and any limits with `0 < DumpInterval < WaitThreshold` and `DumpInterval <= PollLimit`:

| Theorem | Statement |
|---|---|
| `PodTypeCorrect` | `Spec => []TypeOK` |
| `AnnotationAchieved` | `Spec => []AnnotationIsAchieved` |
| `WaitStepLasted` | `Spec => WaitStepHasLasted` |
| `NoPlanMissed` | `Spec => NoPlanTimedOut` |

*The argument.* `PodInvariant` has a conjunct for each way in which a value travels
from the agent to the reader. `AchievedInThisPod`: the goal version the agent, the
file and a running probe hold is at most the newest one achieved in the pod, which
no agent that is at work goes back behind. `WaitStepAged`: the age of a wait step
in the file exceeds its age at the dump by at most the age of the dump.
`PlanNotOverlooked`: a plan the file does not show is younger than the dump, and a
hook between two polls has seen such a file at most a second ago. The three were
checked with TLC on the instance of `member_pod` before they were proved.

### Edits of one thing at a time: `SingleEditProofs`, `RolloutProofs`

Section 4 lists what joint edits and edits in flight do to the order of the two
objects. These modules prove that nothing else is needed to keep the order: a user
who waits until an edit is deployed (`~EditsInFlight`) and changes one field at a
time (`~JointEdits`). *Patient* below adds to waiting: no stale read; *Careful*: also no
spec with TLS; *Versioned*: every spec names a version. Members, arbiters, versions,
edits, crashes and faults are any number.

| Theorem | Statement | Conditions |
|---|---|---|
| `RunningArbitersTheorem` | `[]RunningMeansArbitersDeployed` | single edits |
| `ArbiterReplicasTheorem` | `[]ArbiterReplicaForEveryArbiter` | single edits, Careful |
| `NoNativeRollingTheorem` | `[]NoNativeRollingUpgrade` | single edits, Careful, Versioned |
| `ImageBeforeConfigTheorem` | `ImageBeforeConfig` | single edits, Careful, Versioned |
| `ConfigDropsMemberTheorem` | `ConfigDropsMemberBeforePod` | single edits, Careful, Versioned |
| `PodBeforeConfigTheorem` | `PodBeforeConfigAddsMember` | single edits, Careful, Versioned |
| `CertsBeforeTLSTheorem` | `CertsBeforeTLSConfig` | single edits, Patient, Versioned, no failed calls |

*Arbiters.* `SingleEditInvariant` says that of the two counts of a resource at most one
is on its way (`OneThingChanges`), that a version changes only when both have arrived,
and that the status just reported stays until it is recorded (`ReportStands`). Under
it the two rules for the arbiters, that of the config and that of the StatefulSet,
ask for the same number. `CarefulInvariant` then fixes the order that
`shouldRunInOrder` chooses for each direction of scaling, and `ArbiterOrder` follows
the two numbers through the writes between which the operator may stop.

*Pods.* The argument has two halves. While the version does not change, every pod has
the template of the StatefulSet and the pods that are up are the first ones
(`ExactPods`, `InOrderUnlessChanging`): the operator compares a number of ready pods,
and that number tells which pods they are. While the version changes nothing is
scaled, the strategy is OnDelete until every agent is in the goal state
(`RollsNothing`), and being in the goal state means having the new version
(`GoalMeansVersion`). `RolloutInvariant` is this; `MemberInvariant` adds what is still
true of pods and agents when the operator acts on having waited for them
(`PodsStillReady`, `AgentsStillInGoal`). TLC checked both, on instances of `scaling`
and `upgrade` with 202 000 and 545 000 states, before they were proved.

*Certificates.* With TLS in the spec `shouldRunInOrder` asks only whether the
StatefulSet is ready: if it is not, the config goes first. So the property rests on the
StatefulSet being ready when TLS is asked for, and staying ready until it has the
certificates, through any crashes. `CertificateInvariant` says this in three steps.
Until TLS is asked for, all that is above holds (`PlainUntilAsked`: the steps of those
proofs need no assumption on the specs, only on the spec at hand). When the user edits,
the work queue is empty, and then nothing has happened to pods and StatefulSet since the
last reconciliation began, which therefore left them as it found them when it waited
(`QuietPods`, `QuietAgents`): without this a pod might have gone down since. From there
on no action of the cluster is enabled that would take readiness away (`Steady`), and
the operator, finding the StatefulSet ready, writes it first. TLC checked the invariant
on instances with 194 000 and 1 324 000 states before it was proved. *No failed calls*:
a failed `Get` of the StatefulSet counts as not ready and puts the config first, as TLC
shows when `MaxFaults` is 1.

*Why the conditions.* TLC finds counterexamples without them. With TLS,
`shouldRunInOrder` ignores scaling: an arbiter is in the config before it has a
replica, and together with a failed call a member before it has a pod, or, with one
member, a version whose pod is still to be replaced when the strategy is reset
(`ArbiterReplicaForEveryArbiter`, `PodBeforeConfigAddsMember`,
`NoNativeRollingUpgrade`). A version edited together with fewer members
reaches the config first (`ImageBeforeConfig`). For stale reads no counterexample is
known: the proofs use that the copy is the resource. One case the invariants have to
allow: a replica set of one member may be reported Running while its pod is down.

### Ports: `PortChangeProofs`

| Theorem | Statement | Conditions |
|---|---|---|
| `PortTypeCorrect` | `[]TypeOK` | |
| `OnePortInFlightTheorem` | `[]OnePortInFlight` | |
| `ServiceExposesTheorem` | `[]ServiceExposesConfigPorts` | at most two ports, or no edits in flight |

For any members, arbiters, edits, lost pods and failed calls. `PortInvariant` adds to
the types what makes an annotation trustworthy (`AppliedConfig`: an agent that has
applied the current config is on the port it names; a lost pod is on none) and the
property itself: the port manager moves a port only when every process it sees is
where the config before wants it, and what it saw still holds when it writes
(`StatesHold`: since the pods were read one by one the config has not changed, and a
pod that was lost has no port). `ServiceInvariant` says that the port a process is
about to be moved to is exposed already, and, for a user who waits, that all processes
not yet moved are on the same old port. A third port in flight is one the Service has
no room for; after an update of the Service that failed (the error is only logged) the
property claims nothing.

### Certificates: `CertificateRotationProofs`

| Theorem | Statement | Conditions |
|---|---|---|
| `RotationTypeCorrect` | `[]TypeOK` | |
| `WatchedTheorem` | `[]WatchedWhenUsed` | no two resources share a TLS Secret |
| `NoRotationMissedTheorem` | `[]NoRotationMissed` | no two resources share a TLS Secret |

For any resources, workers, rotations, failed calls and crashes. The invariant is a
statement `Good(r)` for each resource: registered from the store on, and either a
reconciliation is due or what has been read so far, certificate and key, is of the
present pair. It is
kept because only the worker of `r` writes the entry of the Secret of `r`; with a
shared Secret two workers do, and one registration is lost (section 4).
`NoRotationMissed` is the safety half of `RotationsReachConfig`, which TLC checks.

### Users: `UserSecretsProofs`

| Theorem | Statement | Conditions |
|---|---|---|
| `UserTypeCorrect` | `[]TypeOK` | |
| `OwnCredentialsTheorem` | `[]OwnCredentials` | names not passed on |
| `OwnCredentialsReused` | `[](used.deletions = 0 => OwnCredentials)` | |
| `StoredCredentialsTheorem` | `[]StoredCredentialsKept` | names not passed on, no edits in flight |
| `RemovedUsersTheorem` | `[]RemovedUsersGone` | no edits in flight |
| `NothingLeftTheorem` | `[]NothingLeftBehind` | no edits in flight |

For any users and lists of users and any number of password changes, deletions,
failures and restarts. "Names not passed on" (`NamesNotShared`): no two users ever
have the same name of a credentials Secret; without it `scram_secret_reused` is the
counterexample to `StoredCredentialsKept`, and `OwnCredentials` fails once the password
Secret of the new user is deleted (section 4); until something is deleted,
`OwnCredentialsReused` shows that it holds with names passed on. `OwnInvariant` follows credentials from
the Secret over the list of converted users to the config. `CredentialsStored` says
for each point of the reconciliation whose credentials are there.
`ConfigOfUsers` and `DatabaseUsers` bound the users of the config and of the database
by those of the spec and of the last applied spec, which is all the operator can name
as removed; `SecretsOfUsers` does the same for the Secrets as long as no request has
failed, which `NothingLeftBehind` assumes (a failed deletion is not repeated).

### Config and StatefulSet: `DeployedObjectsProofs`

| Theorem | Statement | Conditions |
|---|---|---|
| `FCVTheorem` | `FCVFollowsUser` | |
| `VotesTheorem` | `[]VotesWithinLimit` | |
| `OverrideRemovalTheorem` | `[]OverrideRemovalRestores` | |
| `MemberIdsTheorem` | `MemberIdsKept` | `FewMembers` |
| `MountsTheorem` | `[]MountsHaveVolumes` | `OverridesProvide` |
| `NamedFilesTheorem` | `[]NamedFilesMounted` | `OverridesProvide`, `NoOwnCertificates` |
| `IdempotentTheorem` | `[]ReconcileIsIdempotent` | `OverridesProvide`, `OneTopologyKey` |

For any specs, sizes, versions, overrides and any series of edits and lost objects.
The conditions are about the specs a user may apply, and the specs of
`deployed_objects` satisfy them. `FewMembers`: no more members than there are ids
below those of the arbiters, beyond which ids collide. `OverridesProvide`: an override
mounts only volumes that it or the operator provides, and not the certificate
of the agent, which the operator takes away again; anything else is refused by the API
server. `NoOwnCertificates`: without TLS the mongod settings name no certificates,
which would be the user's to mount. `OneTopologyKey`: the overrides use no two topology
keys, with which the order of the merged list is that of a Go map (section 4). The
module assumes of the overrides only that their maps are maps and their lists are lists
(`IsOverride` in `UserSpecsAssumption`), as the API server decodes them.

*The argument.* The config is a function of the resource and of the compatibility
version of the config before; ids are computed from the position of a process.
`ConfigInvariant` says what it
then looks like (`ContentShape`), `NamesInvariant` which files it names, and
`FewMembersInvariant` carries the bound on ids to the reported counts. The
StatefulSet remembers more, as it is modified in place. `StatefulSetInvariant` says
that the fields the operator writes are there after every update, whatever
was there before, and, after an update without override, have the operator's values.
`MountsInvariant` says that every mount is backed, that only the agent mounts the
agent's certificate, at most once, so that its removal by position removes the right
one, and that the mounts of the last resource are there. The lemmas go through the
chain of modifications one by one; those on `Merge` say what each kind of merge keeps.

*Idempotence.* A property of one more reconciliation is turned into an invariant by
saying it of the resource an object was last written for: `SettledConfig` and
`SettledStatefulSet`. A write must then establish it, so the argument is about writing
twice, whatever was there before. For the config that is short: the compatibility
version that was chosen, the only thing taken over, is chosen again
(`FCVChosenAgain`). For the StatefulSet every merge has a lemma that
merging the result with the same override changes nothing (`SlicesMergedAgain`,
`ContainersMergedAgain`, `VolumesMergedTwice`, `HostAliasesSettled`, `ClaimsSettled`,
`TopologySettled`), and the operator's template is written out in full as a function of
what was there (`BuiltTemplateValue`), since the operator writes its values over the
override of the previous update and the override is merged on top again. The one
removal, of the agent's certificate, is undone by nothing: that is what `OverridesProvide`
is for here. `ListsSound` carries the shape of the lists. `StringSlices` is defined by
the rank of each new string rather than by recursion over the list, so that its lemmas
need the well-ordering of positions (`WellFoundedInduction`) and no induction over lists.

## 7. What is only model-checked

* Liveness: `Converges`, `PortChangeCompletes`, `RotationsReachConfig`,
  `ConfigReached`, `PasswordsReachDatabase`, `ConnectionStringsFollow` (fairness and
  ENABLED are outside the prover's reach).
* The properties of section 6 outside the conditions stated there, on the instances of
  section 3: in `upgrade` with TLS, and in `edits_in_flight`.

## 8. Plan

Done: the modules above, in the order Scale, MongoDBCommunity, Cluster,
ReplicaSetController with its proofs, then ports, certificates and users, then the
inside of a pod with its proofs, config and StatefulSet with their overrides, the
abstract specification of scaling with the proof that it is implemented, and proofs
for every module. Left:

1. *Proofs with TLS*: `ImageBeforeConfig`, which holds in `upgrade` with TLS too. It
   needs what `AtVersion` and `InOrderUnlessChanging` say also while Kubernetes rolls
   the certificates out to the pods.
2. *Proofs with stale reads*: `MembersScaleOneByOne` and the order of config and
   StatefulSet, from an invariant that relates a stale copy to the resource.
3. *Ports while scaling*: `PortChange` with a changing number of processes (port 0
   for a process without a pod state).
4. *MemberPod as a refinement* of the actions of agent and probe in `Cluster`.

## 9. What is not modelled

* Cryptography and formats: SCRAM hashes, certificates, PEM files, JSON.
* Client wrappers and naming: they pass calls on, or compute strings.
* Of the merging: ephemeral containers and the spec of a Service, which are merged
  as the rest is and which the reconciler does not use, the items of Secret volumes
  and the expressions of label selectors.
* Of the objects: host names and lists of mongod builds, the JSON encodings, the
  template of the arbiter StatefulSet (the same functions with other replicas), a
  single volume for data and logs.
* Prometheus: its password, read and watched as those of the users are, and its
  port of the Service.
* The state machine of `pkg/util/state`, which nothing uses, and the start-up code
  of the manager, whose restarts are the `Crash` actions.
* Deletion of the resource: Kubernetes collects the owned objects.
* Stale cached reads of objects other than the resource.
* The arbiter pods in `ReplicaSetController`: no decision there reads them.
* The agents' own password, keyfile and certificate, the PEM Secret made of it
  and its cleanup, authentication mechanisms, connection strings in namespaces
  other than the resource's.
