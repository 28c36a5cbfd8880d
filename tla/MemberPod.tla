------------------------------ MODULE MemberPod ------------------------------
(***************************************************************************)
(* Inside one member pod: the MongoDB agent, the health status file it     *)
(* dumps, the readiness probe that reads the file and annotates the pod    *)
(* (cmd/readiness, pkg/readiness), and the mongod container, which runs    *)
(* the version upgrade hook (cmd/versionhook) before it starts mongod.     *)
(*                                                                         *)
(*   secret   the automation config: its version, the mongod version it    *)
(*            asks for, and whether this pod's process is one of its       *)
(*            processes.  The StatefulSet has the image of the config.     *)
(*   pod      the mongod image the pod runs; deleting once its deletion    *)
(*            was requested, blocked once the hook waits to be killed;     *)
(*            keyfile once the agent has written it; annotation (0: none)  *)
(*            and ready, what the operator and Kubernetes see.  History:   *)
(*            sawPlans, the last probe read a file with plans; best, the   *)
(*            newest config achieved in this pod.                          *)
(*   mongod   what the mongod container does: "hook", "starting" (waits    *)
(*            for the keyfile), "up", "serving".                           *)
(*   hook     polls of the file so far; polled in the current second.      *)
(*   agent    plans: it has a plan for its process; version: the config it *)
(*            works on; goal: the last config it achieved; change: the     *)
(*            last plan has a ChangeVersion move; step: "none" when the    *)
(*            plan is complete, "work", "wait"; age of the step; stopped:  *)
(*            the plan has stopped mongod.                                 *)
(*   file     the health status file, on a volume that lives as long as    *)
(*            the pod, as last dumped; its timestamps grow old with time.  *)
(*   probe    the running readiness probe: what it has read so far.        *)
(*                                                                         *)
(* Time passes in ticks (one poll of the hook each).  The agent is a       *)
(* program of its own and is modelled from what the probe and the hook     *)
(* expect of it: it dumps the file every DumpInterval and works towards    *)
(* the newest config; it cannot exchange the mongod binary of its pod.     *)
(***************************************************************************)
EXTENDS Integers

CONSTANTS
  Images,            \* mongod versions
  FirstImage,        \* the one of the first config
  DumpInterval,      \* the file is dumped at least this often (10 s)
  WaitThreshold,     \* a wait step older than this is ready (15 s)
  PollLimit,         \* pollingDuration of the hook, in polls (60)
  MaxVersion,        \* configs the operator writes
  MaxDisturbances    \* restarts, failed calls

ASSUME TimingAssumption ==
  /\ {DumpInterval, WaitThreshold, PollLimit} \subseteq Nat \ {0}
  /\ DumpInterval < WaitThreshold /\ DumpInterval <= PollLimit
  /\ FirstImage \in Images /\ MaxVersion \in Nat \ {0} /\ MaxDisturbances \in Nat

VARIABLES secret, pod, mongod, hook, agent, file, dumpAge, probe, disturbances

vars == <<secret, pod, mongod, hook, agent, file, dumpAge, probe, disturbances>>

Older(age, limit) == IF age > limit THEN age ELSE age + 1

Missing == [exists |-> FALSE, known |-> FALSE, inGoal |-> FALSE, serving |-> FALSE,
            plans |-> FALSE, goal |-> 0, change |-> FALSE, step |-> "none", age |-> 0, lasted |-> 0]

\* The timestamps in a copy of the file grow old.
AgedFile(f) ==
  IF f.step = "none" THEN f ELSE [f EXCEPT !.age = Older(@, WaitThreshold)]

NewAgent == [plans |-> FALSE, version |-> 0, goal |-> 0, change |-> FALSE, step |-> "none",
             age |-> 0, stopped |-> FALSE]

NewPod(image) == [image |-> image, deleting |-> FALSE, blocked |-> FALSE, keyfile |-> FALSE,
                  annotation |-> 0, ready |-> FALSE, sawPlans |-> FALSE, best |-> 0]

NewHook == [polls |-> 0, polled |-> FALSE]

NoProbe == [pc |-> "idle", plans |-> FALSE, goal |-> 0, readyState |-> FALSE,
            waiting |-> FALSE, target |-> 0]

\* The pod of a member is created after the first config is written.
Init ==
  /\ secret = [version |-> 1, image |-> FirstImage, member |-> TRUE]
  /\ pod = NewPod(FirstImage)
  /\ mongod = "hook" /\ hook = NewHook
  /\ agent = NewAgent
  /\ file = Missing /\ dumpAge = 0
  /\ probe = NoProbe
  /\ disturbances = 0

Disturb ==
  /\ disturbances < MaxDisturbances
  /\ disturbances' = disturbances + 1

MongodUp == mongod \in {"up", "serving"}

-----------------------------------------------------------------------------
(***************************************************************************)
(* The operator, Kubernetes and time.                                      *)
(***************************************************************************)
WriteConfig ==
  /\ secret.version < MaxVersion
  /\ \E i \in Images, m \in BOOLEAN :
       secret' = [version |-> secret.version + 1, image |-> i, member |-> m]
  /\ UNCHANGED <<pod, mongod, hook, agent, file, dumpAge, probe, disturbances>>

\* The deleted pod is replaced by one with the image of the StatefulSet.
RecreatePod ==
  /\ pod.deleting
  /\ pod' = NewPod(secret.image)
  /\ mongod' = "hook" /\ hook' = NewHook
  /\ agent' = NewAgent /\ file' = Missing /\ dumpAge' = 0 /\ probe' = NoProbe
  /\ UNCHANGED <<secret, disturbances>>

\* A second passes: the hook has polled, a dump is not overdue, and a probe
\* is done (the kubelet gives it a second; one that is killed has failed).
Tick ==
  /\ probe.pc = "idle"
  /\ mongod = "hook" /\ ~pod.blocked => hook.polled
  /\ dumpAge < DumpInterval
  /\ dumpAge' = dumpAge + 1
  /\ hook' = [hook EXCEPT !.polled = FALSE]
  /\ agent' = IF agent.step = "none" THEN agent
              ELSE [agent EXCEPT !.age = Older(@, WaitThreshold)]
  /\ file' = AgedFile(file)
  /\ UNCHANGED <<secret, pod, mongod, probe, disturbances>>

-----------------------------------------------------------------------------
(***************************************************************************)
(* The agent.                                                              *)
(***************************************************************************)
\* A plan for a config the agent has not worked on, or for a mongod that is
\* down although the last plan is complete.  A process that is not in the
\* config has no plan.
AgentPlans ==
  /\ agent.version # secret.version \/ (agent.plans /\ agent.step = "none" /\ ~MongodUp)
  /\ agent' = IF secret.member
              THEN [agent EXCEPT !.plans = TRUE, !.version = secret.version,
                                 !.change = (pod.image # secret.image),
                                 !.step = "work", !.age = 0, !.stopped = FALSE]
              ELSE [NewAgent EXCEPT !.version = secret.version]
  /\ pod' = [pod EXCEPT !.keyfile = TRUE]
  /\ UNCHANGED <<secret, mongod, hook, file, dumpAge, probe, disturbances>>

\* The plan stops mongod once, to start it with another configuration or
\* another binary; the container exits and is started again.
AgentStopsMongod ==
  /\ agent.step = "work" /\ (~agent.stopped \/ agent.change)
  /\ MongodUp
  /\ mongod' = "hook" /\ hook' = NewHook
  /\ agent' = [agent EXCEPT !.stopped = TRUE]
  /\ UNCHANGED <<secret, pod, file, dumpAge, probe, disturbances>>

AgentWaits ==
  /\ agent.step = "work" /\ ~agent.change
  /\ agent' = [agent EXCEPT !.step = "wait", !.age = 0]
  /\ UNCHANGED <<secret, pod, mongod, hook, file, dumpAge, probe, disturbances>>

AgentAchievesGoal ==
  /\ agent.step # "none" /\ ~agent.change /\ mongod = "serving"
  /\ agent' = [agent EXCEPT !.step = "none", !.goal = agent.version, !.age = 0]
  /\ pod' = [pod EXCEPT !.best = agent.version]
  /\ UNCHANGED <<secret, mongod, hook, file, dumpAge, probe, disturbances>>

\* An older agent does not publish the replication status of mongod: then
\* one that was up in the last minute counts as serving.
DumpHealthStatus ==
  /\ dumpAge > 0
  /\ \E serving \in IF mongod = "serving" THEN {TRUE} ELSE BOOLEAN :
       file' = [exists |-> TRUE, known |-> agent.plans, inGoal |-> agent.step = "none",
                serving |-> agent.plans /\ serving,
                plans |-> agent.plans, goal |-> agent.goal, change |-> agent.change,
                step |-> agent.step, age |-> agent.age,
                lasted |-> IF agent.step = "wait" THEN agent.age ELSE 0]
  /\ dumpAge' = 0
  /\ UNCHANGED <<secret, pod, mongod, hook, agent, probe, disturbances>>

AgentRestarts ==
  /\ Disturb
  /\ agent' = NewAgent
  /\ UNCHANGED <<secret, pod, mongod, hook, file, dumpAge, probe>>

-----------------------------------------------------------------------------
(***************************************************************************)
(* The mongod container: the version upgrade hook, then mongod.            *)
(***************************************************************************)
LetMongodStart ==
  /\ mongod' = "starting"
  /\ hook' = [polls |-> 0, polled |-> TRUE]
  /\ UNCHANGED <<pod, disturbances>>

\* isWaitingToBeDeleted, of the last plan of the file.
ShouldDeletePod == file.plans /\ file.change

\* deletePod: a failure is only logged.  The hook waits to be killed.
DeletePod ==
  /\ \/ pod' = [pod EXCEPT !.deleting = TRUE, !.blocked = TRUE] /\ UNCHANGED disturbances
     \/ pod' = [pod EXCEPT !.blocked = TRUE] /\ Disturb
  /\ UNCHANGED <<mongod, hook>>

\* Mutant: the file is only read by the first poll.
HookPollsOnce ==
  /\ mongod = "hook" /\ ~pod.blocked /\ ~hook.polled
  /\ IF hook.polls > PollLimit \/ ~file.exists \/ ~file.known THEN LetMongodStart
     ELSE IF file.inGoal \/ hook.polls > 0
     THEN /\ hook' = [polls |-> hook.polls + 1, polled |-> TRUE]
          /\ UNCHANGED <<pod, mongod, disturbances>>
     ELSE IF ShouldDeletePod THEN DeletePod ELSE LetMongodStart
  /\ UNCHANGED <<secret, agent, file, dumpAge, probe>>

\* Mutant: no time limit.
HookPollsForever ==
  /\ mongod = "hook" /\ ~pod.blocked /\ ~hook.polled
  /\ IF ~file.exists \/ ~file.known THEN LetMongodStart
     ELSE IF file.inGoal
     THEN /\ hook' = [polls |-> hook.polls + 1, polled |-> TRUE]
          /\ UNCHANGED <<pod, mongod, disturbances>>
     ELSE IF ShouldDeletePod THEN DeletePod ELSE LetMongodStart
  /\ UNCHANGED <<secret, agent, file, dumpAge, probe>>

\* Mutant: a pod is never deleted.
HookNeverDeletes ==
  /\ mongod = "hook" /\ ~pod.blocked /\ ~hook.polled
  /\ LetMongodStart
  /\ UNCHANGED <<secret, agent, file, dumpAge, probe>>

\* One round of waitForAgentHealthStatus, and what main does with its result.
HookPolls ==
  /\ mongod = "hook" /\ ~pod.blocked /\ ~hook.polled
  /\ IF hook.polls > PollLimit \/ ~file.exists \/ ~file.known THEN LetMongodStart
     ELSE IF file.inGoal
     THEN /\ hook' = [polls |-> hook.polls + 1, polled |-> TRUE]
          /\ UNCHANGED <<pod, mongod, disturbances>>
     ELSE IF ShouldDeletePod THEN DeletePod ELSE LetMongodStart
  /\ UNCHANGED <<secret, agent, file, dumpAge, probe>>

\* The script waits for the keyfile and sleeps before it starts mongod.
StartMongod ==
  /\ mongod = "starting" /\ pod.keyfile /\ ~hook.polled
  /\ mongod' = "up"
  /\ UNCHANGED <<secret, pod, hook, agent, file, dumpAge, probe, disturbances>>

\* mongod becomes primary, secondary or arbiter.
MongodServes ==
  /\ mongod = "up"
  /\ mongod' = "serving"
  /\ UNCHANGED <<secret, pod, hook, agent, file, dumpAge, probe, disturbances>>

MongodDies ==
  /\ MongodUp /\ Disturb
  /\ mongod' = "hook" /\ hook' = NewHook
  /\ UNCHANGED <<secret, pod, agent, file, dumpAge, probe>>

-----------------------------------------------------------------------------
(***************************************************************************)
(* The readiness probe.  Each of its calls may be overtaken by the agent   *)
(* and the operator.                                                       *)
(***************************************************************************)
\* A pod that was ready stays so until 40 probes in a row have failed.
FailProbe(p) == pod' \in {p, [p EXCEPT !.ready = FALSE]}

\* Of the map of process statuses, which has one entry or none.
IsInReadyState(health) == health.known => health.serving

\* Mutant: every wait step counts, however new.
IsAnyWaitStep(health) == health.plans /\ health.step = "wait"

\* findCurrentStep in the last plan, isWaitStep.
IsOnWaitingStep(health) ==
  health.plans /\ health.step = "wait" /\ health.age > WaitThreshold

\* main opens and parses the file; without it the probe fails.
ProbeReadsFile ==
  /\ probe.pc = "idle"
  /\ IF file.exists
     THEN /\ probe' = [pc |-> "secret", plans |-> file.plans, goal |-> file.goal,
                       readyState |-> IsInReadyState(file),
                       waiting |-> IsOnWaitingStep(file), target |-> 0]
          /\ UNCHANGED pod
     ELSE FailProbe(pod) /\ UNCHANGED probe
  /\ UNCHANGED <<secret, mongod, hook, agent, file, dumpAge, disturbances>>

ProbeReadsSecret ==
  /\ probe.pc = "secret"
  /\ probe' = [probe EXCEPT !.pc = "patch", !.target = secret.version]
  /\ UNCHANGED <<secret, pod, mongod, hook, agent, file, dumpAge, disturbances>>

\* Mutant: the agent counts as being where it should be.
AlwaysTarget(health, target) == target

ReadCurrentAgentInfo(health, target) == IF health.plans THEN health.goal ELSE target

\* PatchPodAnnotation, and the verdict of isPodReady.
ProbePatchesPod ==
  /\ probe.pc = "patch"
  /\ LET current == ReadCurrentAgentInfo(probe, probe.target)
         patched == [pod EXCEPT !.annotation = current, !.sawPlans = probe.plans]
     IN  IF IF current = probe.target THEN probe.readyState ELSE probe.waiting
         THEN pod' = [patched EXCEPT !.ready = TRUE]
         ELSE FailProbe(patched)
  /\ probe' = NoProbe
  /\ UNCHANGED <<secret, mongod, hook, agent, file, dumpAge, disturbances>>

\* A call to the API server fails: the probe panics.
ProbeCallFails ==
  /\ probe.pc \in {"secret", "patch"} /\ Disturb
  /\ FailProbe(pod)
  /\ probe' = NoProbe
  /\ UNCHANGED <<secret, mongod, hook, agent, file, dumpAge>>

-----------------------------------------------------------------------------
AgentStep == AgentPlans \/ AgentStopsMongod \/ AgentWaits \/ AgentAchievesGoal

ProbeStep == ProbeReadsFile \/ ProbeReadsSecret \/ ProbePatchesPod

Next ==
  \/ WriteConfig \/ RecreatePod \/ Tick
  \/ AgentStep \/ DumpHealthStatus \/ AgentRestarts
  \/ HookPolls \/ StartMongod \/ MongodServes \/ MongodDies
  \/ ProbeStep \/ ProbeCallFails

Spec == Init /\ [][Next]_vars

(***************************************************************************)
(* Fairness: Kubernetes replaces deleted pods and probes the others, the   *)
(* agent plans, stops mongod, finishes and dumps, containers run, and time *)
(* passes.  Configs, wait steps, restarts and failures need not happen.    *)
(***************************************************************************)
FairSpec ==
  /\ Spec
  /\ WF_vars(RecreatePod) /\ SF_vars(Tick)
  /\ WF_vars(AgentPlans) /\ WF_vars(agent.change /\ AgentStopsMongod)
  /\ SF_vars(AgentAchievesGoal) /\ WF_vars(DumpHealthStatus)
  /\ WF_vars(HookPolls) /\ WF_vars(StartMongod) /\ WF_vars(MongodServes)
  /\ WF_vars(ProbeStep)

-----------------------------------------------------------------------------
Secrets == [version : 1 .. MaxVersion, image : Images, member : BOOLEAN]

Pods == [image : Images, deleting : BOOLEAN, blocked : BOOLEAN, keyfile : BOOLEAN,
         annotation : 0 .. MaxVersion, ready : BOOLEAN,
         sawPlans : BOOLEAN, best : 0 .. MaxVersion]

Hooks == [polls : 0 .. PollLimit + 1, polled : BOOLEAN]

Agents == [plans : BOOLEAN, version : 0 .. MaxVersion, goal : 0 .. MaxVersion,
           change : BOOLEAN, step : {"none", "work", "wait"},
           age : 0 .. WaitThreshold + 1, stopped : BOOLEAN]

Files == [exists : BOOLEAN, known : BOOLEAN, inGoal : BOOLEAN,
          serving : BOOLEAN, plans : BOOLEAN, goal : 0 .. MaxVersion,
          change : BOOLEAN, step : {"none", "work", "wait"},
          age : 0 .. WaitThreshold + 1, lasted : 0 .. WaitThreshold + 1]

Probes == [pc : {"idle", "secret", "patch"}, plans : BOOLEAN, goal : 0 .. MaxVersion,
           readyState : BOOLEAN, waiting : BOOLEAN, target : 0 .. MaxVersion]

\* Every variable holds a value of its kind; ages stop growing past the
\* threshold and the hook stops polling after PollLimit + 1 polls.
TypeOK ==
  /\ secret \in Secrets /\ pod \in Pods
  /\ mongod \in {"hook", "starting", "up", "serving"}
  /\ hook \in Hooks /\ agent \in Agents
  /\ file \in Files /\ dumpAge \in 0 .. DumpInterval
  /\ probe \in Probes
  /\ disturbances \in 0 .. MaxDisturbances

\* The hook runs out of polls only when the agent had nothing to do for all
\* it can know: a plan that was under way long enough to be dumped is never
\* abandoned by the time limit of the hook.
NoPlanTimedOut ==
  [][hook.polls > PollLimit /\ mongod = "hook" /\ mongod' = "starting" =>
       agent.step = "none" \/ agent.age <= DumpInterval + 1]_vars

\* The probe takes an unfinished config for ready only on a wait step that
\* had really lasted, at the time of the dump, the 15 seconds less one dump
\* interval: a step that came and went between two dumps does not count.
WaitStepHasLasted ==
  [][probe.pc = "idle" /\ probe'.waiting => file.lasted > WaitThreshold - DumpInterval]_vars

\* A pod whose last probe read a file with plans carries a version that an
\* agent in the pod achieved, however stale the file and whatever the config
\* is by now.  (Without plans readCurrentAgentInfo answers the target.)
AnnotationIsAchieved == pod.sawPlans => pod.annotation <= pod.best

\* What the agent, the file and a running probe take for achieved was
\* achieved in this pod, by an agent that worked towards a newer config: no
\* restart and no stale copy brings an older version back.
AchievedInThisPod ==
  /\ agent.goal <= pod.best /\ file.goal <= pod.best /\ probe.goal <= pod.best
  /\ agent.version <= secret.version /\ pod.best <= secret.version
  /\ agent.step # "none" => pod.best <= agent.version

\* A copy of a wait step has grown older by at most the age of the dump, and
\* a probe keeps nothing for the next one.
WaitStepAged ==
  /\ probe.pc = "idle" => probe = NoProbe
  /\ file.step = "wait" => file.age <= file.lasted + dumpAge

\* A plan that the file does not show was begun after the dump, and a hook
\* that polls has seen such a file a second ago at most.
PlanNotOverlooked ==
  /\ file.exists /\ file.inGoal /\ agent.step # "none" => agent.age <= dumpAge
  /\ mongod = "hook" /\ hook.polls > 0 /\ ~pod.blocked /\ agent.step # "none" =>
       agent.age <= IF hook.polled THEN DumpInterval ELSE DumpInterval + 1

\* Once the configs stop, the pod ends up with the mongod version of the
\* config, annotated with the version of the config and ready: the agent,
\* which cannot exchange the binary, and the mongod container do not wait
\* for each other for ever.  Only a deletion that failed needs a human.
ConfigReached ==
  <>[](\/ pod.blocked /\ ~pod.deleting
       \/ /\ pod.annotation = secret.version /\ pod.ready
          /\ secret.member => pod.image = secret.image /\ MongodUp)
=============================================================================
