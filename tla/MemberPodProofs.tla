-------------------------- MODULE MemberPodProofs ---------------------------
(***************************************************************************)
(* Proofs about the readiness probe and the version upgrade hook of a      *)
(* member pod, for all images, time limits and numbers of configs.         *)
(***************************************************************************)
EXTENDS MemberPod, TLAPS

PodInvariant == TypeOK /\ AchievedInThisPod /\ WaitStepAged /\ PlanNotOverlooked
                /\ AnnotationIsAchieved

\* The state before anything happened satisfies the invariant.
LEMMA InitHolds == Init => PodInvariant
<1> SUFFICES ASSUME Init PROVE PodInvariant
  OBVIOUS
<1>1. TypeOK
  BY TimingAssumption DEF Init, TypeOK, NewHook, NewAgent, NoProbe, NewPod, Missing,
     Secrets, Pods, Hooks, Agents, Files, Probes
<1>2. AchievedInThisPod /\ WaitStepAged /\ PlanNotOverlooked /\ AnnotationIsAchieved
  BY TimingAssumption DEF Init, NewPod, NewAgent, NewHook, NoProbe, Missing, AchievedInThisPod,
     WaitStepAged, PlanNotOverlooked, AnnotationIsAchieved
<1> QED
  BY <1>1, <1>2 DEF PodInvariant

-----------------------------------------------------------------------------
(***************************************************************************)
(* Types.                                                                  *)
(***************************************************************************)
\* What the plans of the agent make of its state has the type of an agent.
LEMMA AgentRecord ==
  ASSUME NEW a \in Agents, NEW p \in BOOLEAN, NEW v \in 0 .. MaxVersion, NEW c \in BOOLEAN,
         NEW s \in {"none", "work", "wait"}, NEW n \in 0 .. WaitThreshold + 1, NEW d \in BOOLEAN
  PROVE  /\ [a EXCEPT !.step = s, !.goal = v, !.age = n] \in Agents
         /\ [a EXCEPT !.version = v] \in Agents
         /\ [a EXCEPT !.plans = p, !.version = v, !.change = c,
                      !.step = s, !.age = n, !.stopped = d] \in Agents
<1>2. [a EXCEPT !.step = s, !.goal = v, !.age = n] \in Agents
  BY DEF Agents
<1>3. [a EXCEPT !.version = v] \in Agents
  BY DEF Agents
<1>4. [a EXCEPT !.plans = p, !.version = v, !.change = c,
                !.step = s, !.age = n, !.stopped = d] \in Agents
  BY DEF Agents
<1> QED
  BY <1>2, <1>3, <1>4

\* The next step of a plan.
LEMMA AgentTakesStep ==
  ASSUME NEW a \in Agents, NEW s \in {"none", "work", "wait"}, NEW n \in 0 .. WaitThreshold + 1
  PROVE  [a EXCEPT !.step = s, !.age = n] \in Agents
BY DEF Agents

\* What a probe reads has the type of a probe.
LEMMA ProbeRecord ==
  ASSUME NEW p \in Probes, NEW c \in {"idle", "secret", "patch"}, NEW b \in BOOLEAN,
         NEW g \in 0 .. MaxVersion, NEW r \in BOOLEAN, NEW w \in BOOLEAN, NEW t \in 0 .. MaxVersion
  PROVE  [pc |-> c, plans |-> b, goal |-> g, readyState |-> r, waiting |-> w,
          target |-> t] \in Probes
BY DEF Probes

\* The probe goes on after a call.
LEMMA ProbeGoesOn ==
  ASSUME NEW p \in Probes, NEW c \in {"idle", "secret", "patch"}, NEW t \in 0 .. MaxVersion
  PROVE  [p EXCEPT !.pc = c, !.target = t] \in Probes
BY DEF Probes

\* A pod that is annotated or judged by the probe is a pod.
LEMMA PodRecord ==
  ASSUME NEW p \in Pods, NEW v \in 0 .. MaxVersion, NEW b \in BOOLEAN
  PROVE  [p EXCEPT !.annotation = v, !.sawPlans = b] \in Pods
BY DEF Pods

\* The verdict of the probe changes nothing else.
LEMMA PodVerdict ==
  ASSUME NEW p \in Pods, NEW b \in BOOLEAN
  PROVE  [p EXCEPT !.ready = b] \in Pods
BY DEF Pods

\* The hook that polls once more within its limit, or gives up.
LEMMA HookRecord ==
  ASSUME NEW h \in Hooks, h.polls <= PollLimit
  PROVE  [polls |-> h.polls + 1, polled |-> TRUE] \in Hooks /\ [polls |-> 0, polled |-> TRUE] \in Hooks
BY TimingAssumption DEF Hooks
\* Every step of the pod, its containers, the operator and time keeps the
\* types; ages and polls stay within their limits.
LEMMA TypeStep == TypeOK /\ [Next]_vars => TypeOK'
<1> SUFFICES ASSUME TypeOK, [Next]_vars PROVE TypeOK'
  OBVIOUS
<1> USE TimingAssumption DEF TypeOK
<1>1. CASE WriteConfig
  <2>1. secret' \in Secrets
    BY <1>1 DEF WriteConfig, Secrets
  <2> QED
    BY <1>1, <2>1 DEF WriteConfig
<1>2. CASE RecreatePod
  <2>1. pod' \in Pods
    BY <1>2 DEF RecreatePod, Pods, NewPod, Secrets
  <2>2. mongod' \in {"hook", "starting", "up", "serving"}
    BY <1>2 DEF RecreatePod
  <2>3. hook' \in Hooks
    BY <1>2 DEF RecreatePod, Hooks, NewHook
  <2>4. agent' \in Agents
    BY <1>2 DEF RecreatePod, Agents, NewAgent
  <2>5. file' \in Files
    BY <1>2 DEF RecreatePod, Files, Missing
  <2>6. dumpAge' \in 0 .. DumpInterval
    BY <1>2 DEF RecreatePod
  <2>7. probe' \in Probes
    BY <1>2 DEF RecreatePod, Probes, NoProbe
  <2> QED
    BY <1>2, <2>1, <2>2, <2>3, <2>4, <2>5, <2>6, <2>7 DEF RecreatePod
<1>3. CASE Tick
  <2>1. dumpAge' \in 0 .. DumpInterval
    BY <1>3 DEF Tick
  <2>2. hook' \in Hooks
    BY <1>3 DEF Tick, Hooks
  <2>3. agent' \in Agents
    BY <1>3 DEF Tick, Agents, Older
  <2>4. file' \in Files
    BY <1>3 DEF Tick, Files, AgedFile, Older
  <2> QED
    BY <1>3, <2>1, <2>2, <2>3, <2>4 DEF Tick
<1>4. CASE AgentPlans
  <2> DEFINE Planned == [agent EXCEPT !.plans = TRUE, !.version = secret.version,
                                      !.change = (pod.image # secret.image),
                                      !.step = "work", !.age = 0, !.stopped = FALSE]
  <2>1. agent' \in Agents
    <3>1. /\ secret.version \in 0 .. MaxVersion /\ 0 \in 0 .. WaitThreshold + 1
          /\ (pod.image # secret.image) \in BOOLEAN
          /\ NewAgent \in Agents
      BY DEF Secrets, NewAgent, Agents
    <3>2. [NewAgent EXCEPT !.version = secret.version] \in Agents
      BY <3>1 DEF Agents
    <3>3. Planned \in Agents
      BY <3>1 DEF Agents
    <3> QED
      BY <1>4, <3>2, <3>3 DEF AgentPlans
  <2>2. pod' \in Pods
    BY <1>4 DEF AgentPlans, Pods
  <2> QED
    BY <1>4, <2>1, <2>2 DEF AgentPlans
<1>5. CASE AgentStopsMongod
  <2>1. mongod' \in {"hook", "starting", "up", "serving"}
    BY <1>5 DEF AgentStopsMongod
  <2>2. hook' \in Hooks
    BY <1>5 DEF AgentStopsMongod, Hooks, NewHook
  <2>3. agent' \in Agents
    BY <1>5 DEF AgentStopsMongod, Agents
  <2> QED
    BY <1>5, <2>1, <2>2, <2>3 DEF AgentStopsMongod
<1>6. CASE AgentWaits
  <2>1. agent' \in Agents
    <3>1. 0 \in 0 .. WaitThreshold + 1
      OBVIOUS
    <3>2. [agent EXCEPT !.step = "wait", !.age = 0] \in Agents
      BY <3>1, AgentTakesStep
    <3> QED
      BY <1>6, <3>2 DEF AgentWaits
  <2> QED
    BY <1>6, <2>1 DEF AgentWaits
<1>7. CASE AgentAchievesGoal
  <2>1. agent' \in Agents
    <3>1. agent.version \in 0 .. MaxVersion /\ 0 \in 0 .. WaitThreshold + 1
      BY DEF Agents
    <3> QED
      BY <1>7, <3>1, AgentRecord DEF AgentAchievesGoal
  <2>2. pod' \in Pods
    BY <1>7 DEF AgentAchievesGoal, Pods, Agents
  <2> QED
    BY <1>7, <2>1, <2>2 DEF AgentAchievesGoal
<1>8. CASE DumpHealthStatus
  <2>1. file' \in Files
    BY <1>8 DEF DumpHealthStatus, Files, Agents
  <2>2. dumpAge' \in 0 .. DumpInterval
    BY <1>8 DEF DumpHealthStatus
  <2> QED
    BY <1>8, <2>1, <2>2 DEF DumpHealthStatus
<1>9. CASE AgentRestarts
  <2>1. agent' \in Agents
    BY <1>9 DEF AgentRestarts, Agents, NewAgent
  <2>2. disturbances' \in 0 .. MaxDisturbances
    BY <1>9 DEF AgentRestarts, Disturb
  <2> QED
    BY <1>9, <2>1, <2>2 DEF AgentRestarts
<1>10. CASE HookPolls
  <2>1. mongod' \in {"hook", "starting", "up", "serving"}
    BY <1>10 DEF HookPolls, LetMongodStart, DeletePod
  <2>2. hook' \in Hooks
    <3>1. [polls |-> 0, polled |-> TRUE] \in Hooks
      BY DEF Hooks
    <3>2. CASE hook.polls > PollLimit
      BY <1>10, <3>1, <3>2 DEF HookPolls, LetMongodStart
    <3>3. CASE ~(hook.polls > PollLimit)
      <4>1. hook.polls <= PollLimit
        BY <3>3 DEF Hooks
      <4>2. [polls |-> hook.polls + 1, polled |-> TRUE] \in Hooks
        BY <4>1, HookRecord
      <4> QED
        BY <1>10, <3>1, <4>2 DEF HookPolls, LetMongodStart, DeletePod
    <3> QED
      BY <3>2, <3>3
  <2>3. pod' \in Pods
    BY <1>10 DEF HookPolls, Pods, LetMongodStart, DeletePod
  <2>4. disturbances' \in 0 .. MaxDisturbances
    BY <1>10 DEF HookPolls, LetMongodStart, DeletePod, Disturb
  <2> QED
    BY <1>10, <2>1, <2>2, <2>3, <2>4 DEF HookPolls
<1>11. CASE StartMongod
  <2>1. mongod' \in {"hook", "starting", "up", "serving"}
    BY <1>11 DEF StartMongod
  <2> QED
    BY <1>11, <2>1 DEF StartMongod
<1>12. CASE MongodServes
  <2>1. mongod' \in {"hook", "starting", "up", "serving"}
    BY <1>12 DEF MongodServes
  <2> QED
    BY <1>12, <2>1 DEF MongodServes
<1>13. CASE MongodDies
  <2>1. mongod' \in {"hook", "starting", "up", "serving"}
    BY <1>13 DEF MongodDies
  <2>2. hook' \in Hooks
    BY <1>13 DEF MongodDies, Hooks, NewHook
  <2>3. disturbances' \in 0 .. MaxDisturbances
    BY <1>13 DEF MongodDies, Disturb
  <2> QED
    BY <1>13, <2>1, <2>2, <2>3 DEF MongodDies
<1>14. CASE ProbeReadsFile
  <2>1. probe' \in Probes
    <3>1. /\ file.plans \in BOOLEAN /\ file.goal \in 0 .. MaxVersion
          /\ IsInReadyState(file) \in BOOLEAN /\ IsOnWaitingStep(file) \in BOOLEAN
          /\ 0 \in 0 .. MaxVersion
      BY DEF Files, IsInReadyState, IsOnWaitingStep
    <3> DEFINE Read == [pc |-> "secret", plans |-> file.plans, goal |-> file.goal,
                        readyState |-> IsInReadyState(file),
                        waiting |-> IsOnWaitingStep(file), target |-> 0]
    <3>2. Read \in Probes
      BY <3>1, ProbeRecord
    <3> QED
      BY <1>14, <3>2 DEF ProbeReadsFile
  <2>2. pod' \in Pods
    BY <1>14 DEF ProbeReadsFile, Pods, FailProbe
  <2> QED
    BY <1>14, <2>1, <2>2 DEF ProbeReadsFile
<1>15. CASE ProbeReadsSecret
  <2>1. probe' \in Probes
    <3>1. secret.version \in 0 .. MaxVersion
      BY DEF Secrets
    <3>2. [probe EXCEPT !.pc = "patch", !.target = secret.version] \in Probes
      BY <3>1, ProbeGoesOn
    <3> QED
      BY <1>15, <3>2 DEF ProbeReadsSecret
  <2> QED
    BY <1>15, <2>1 DEF ProbeReadsSecret
<1>16. CASE ProbePatchesPod
  <2>1. pod' \in Pods
    <3> DEFINE Current == ReadCurrentAgentInfo(probe, probe.target)
               Patched == [pod EXCEPT !.annotation = Current, !.sawPlans = probe.plans]
    <3>1. Current \in 0 .. MaxVersion /\ probe.plans \in BOOLEAN
      BY DEF Probes, ReadCurrentAgentInfo
    <3>2. Patched \in Pods
      BY <3>1, PodRecord
    <3>3. pod' \in {Patched, [Patched EXCEPT !.ready = TRUE], [Patched EXCEPT !.ready = FALSE]}
      BY <1>16 DEF ProbePatchesPod, FailProbe
    <3>4. [Patched EXCEPT !.ready = TRUE] \in Pods /\ [Patched EXCEPT !.ready = FALSE] \in Pods
      BY <3>2, PodVerdict
    <3> QED
      BY <3>2, <3>3, <3>4
  <2>2. probe' \in Probes
    BY <1>16 DEF ProbePatchesPod, Probes, NoProbe
  <2> QED
    BY <1>16, <2>1, <2>2 DEF ProbePatchesPod
<1>17. CASE ProbeCallFails
  <2>1. pod' \in Pods
    BY <1>17 DEF ProbeCallFails, Pods, FailProbe
  <2>2. probe' \in Probes
    BY <1>17 DEF ProbeCallFails, Probes, NoProbe
  <2>3. disturbances' \in 0 .. MaxDisturbances
    BY <1>17 DEF ProbeCallFails, Disturb
  <2> QED
    BY <1>17, <2>1, <2>2, <2>3 DEF ProbeCallFails
<1>18. CASE UNCHANGED vars
  BY <1>18 DEF vars
<1> QED
  BY <1>1, <1>2, <1>3, <1>4, <1>5, <1>6, <1>7, <1>8, <1>9, <1>10, <1>11, <1>12, <1>13, <1>14, <1>15, <1>16, <1>17, <1>18 DEF Next, AgentStep, ProbeStep

-----------------------------------------------------------------------------
(***************************************************************************)
(* The annotation.                                                         *)
(***************************************************************************)
\* The versions in the state are numbers, and the records have their fields.
LEMMA VersionsAreNumbers ==
  TypeOK => /\ {secret.version, pod.annotation, pod.best, agent.version, agent.goal,
                file.goal, probe.goal, probe.target} \subseteq Nat
            /\ pod \in Pods /\ agent \in Agents /\ file \in Files /\ probe \in Probes
            /\ secret \in Secrets
BY TimingAssumption DEF TypeOK, Secrets, Pods, Agents, Files, Probes

\* Every step keeps the file, the probe and the agent within what was achieved
\* in the pod, and the annotation too when the probe saw plans.
LEMMA AchievedStep ==
  ASSUME TypeOK, AchievedInThisPod, AnnotationIsAchieved, [Next]_vars
  PROVE  AchievedInThisPod' /\ AnnotationIsAchieved'
<1> USE VersionsAreNumbers DEF AchievedInThisPod, AnnotationIsAchieved
<1>1. CASE WriteConfig
  BY <1>1 DEF WriteConfig
<1>2. CASE RecreatePod
  BY <1>2 DEF RecreatePod, NewPod, NewAgent, Missing, NoProbe
<1>3. CASE Tick
  BY <1>3 DEF Tick, AgedFile, Older
<1>4. CASE AgentPlans
  BY <1>4 DEF AgentPlans, NewAgent
<1>5. CASE AgentStopsMongod
  BY <1>5 DEF AgentStopsMongod
<1>6. CASE AgentWaits
  BY <1>6 DEF AgentWaits
<1>7. CASE AgentAchievesGoal
  BY <1>7 DEF AgentAchievesGoal
<1>8. CASE DumpHealthStatus
  BY <1>8 DEF DumpHealthStatus
<1>9. CASE AgentRestarts
  BY <1>9 DEF AgentRestarts, NewAgent
<1>10. CASE HookPolls
  <2>1. pod'.best = pod.best /\ pod'.annotation = pod.annotation /\ pod'.sawPlans = pod.sawPlans
    BY <1>10 DEF HookPolls, LetMongodStart, DeletePod, Pods
  <2> QED
    BY <1>10, <2>1 DEF HookPolls
<1>11. CASE StartMongod
  BY <1>11 DEF StartMongod
<1>12. CASE MongodServes
  BY <1>12 DEF MongodServes
<1>13. CASE MongodDies
  BY <1>13 DEF MongodDies
<1>14. CASE ProbeReadsFile
  <2>1. pod'.best = pod.best /\ pod'.annotation = pod.annotation /\ pod'.sawPlans = pod.sawPlans
    BY <1>14 DEF ProbeReadsFile, FailProbe, Pods
  <2> QED
    BY <1>14, <2>1 DEF ProbeReadsFile
<1>15. CASE ProbeReadsSecret
  BY <1>15 DEF ProbeReadsSecret
<1>16. CASE ProbePatchesPod
  <2>1. /\ pod'.best = pod.best /\ pod'.sawPlans = probe.plans
        /\ pod'.annotation = ReadCurrentAgentInfo(probe, probe.target)
    BY <1>16 DEF ProbePatchesPod, FailProbe, Pods
  <2>2. AchievedInThisPod'
    BY <1>16, <2>1 DEF ProbePatchesPod, NoProbe
  <2>3. AnnotationIsAchieved'
    BY <2>1 DEF ReadCurrentAgentInfo
  <2> QED
    BY <2>2, <2>3
<1>17. CASE ProbeCallFails
  <2>1. pod'.best = pod.best /\ pod'.annotation = pod.annotation /\ pod'.sawPlans = pod.sawPlans
    BY <1>17 DEF ProbeCallFails, FailProbe, Pods
  <2> QED
    BY <1>17, <2>1 DEF ProbeCallFails, NoProbe
<1>18. CASE UNCHANGED vars
  BY <1>18 DEF vars
<1> QED
  BY <1>1, <1>2, <1>3, <1>4, <1>5, <1>6, <1>7, <1>8, <1>9, <1>10, <1>11, <1>12, <1>13, <1>14, <1>15, <1>16, <1>17, <1>18 DEF Next, AgentStep, ProbeStep

-----------------------------------------------------------------------------
(***************************************************************************)
(* Wait steps.                                                             *)
(***************************************************************************)
\* The ages in the state are numbers.
LEMMA AgesAreNumbers ==
  TypeOK => /\ {file.age, file.lasted, agent.age, dumpAge} \subseteq Nat
            /\ file \in Files /\ agent \in Agents
BY TimingAssumption DEF TypeOK, Files, Agents

\* A step that passes time makes the copy and the dump older alike; a dump
\* takes the age from the agent.
LEMMA WaitStepStep ==
  ASSUME TypeOK, WaitStepAged, [Next]_vars
  PROVE  WaitStepAged'
<1> DEFINE Idle == probe.pc = "idle" => probe = NoProbe
           Aged == file.step = "wait" => file.age <= file.lasted + dumpAge
<1>1. Idle'
  <2> USE DEF WaitStepAged
  <2>1. CASE RecreatePod
    BY <2>1 DEF RecreatePod
  <2>2. CASE ProbeReadsFile
    BY <2>2 DEF ProbeReadsFile
  <2>3. CASE ProbeReadsSecret
    <3>1. probe'.pc = "patch"
      BY <2>3 DEF ProbeReadsSecret, TypeOK, Probes
    <3> QED
      BY <3>1
  <2>4. CASE ProbePatchesPod \/ ProbeCallFails
    BY <2>4 DEF ProbePatchesPod, ProbeCallFails
  <2>5. CASE UNCHANGED probe
    BY <2>5
  <2> QED
    BY <2>1, <2>2, <2>3, <2>4, <2>5 DEF Next, vars, AgentStep, ProbeStep, WriteConfig, Tick,
       AgentPlans, AgentStopsMongod, AgentWaits, AgentAchievesGoal, DumpHealthStatus,
       AgentRestarts, HookPolls, StartMongod, MongodServes, MongodDies
<1>2. Aged'
  <2> USE AgesAreNumbers DEF WaitStepAged
  <2>1. CASE RecreatePod
    BY <2>1 DEF RecreatePod, Missing
  <2>2. CASE Tick
    <3>1. /\ file'.step = file.step /\ file'.lasted = file.lasted
          /\ file'.age \in {file.age, file.age + 1}
      BY <2>2 DEF Tick, AgedFile, Older, Files
    <3> QED
      BY <2>2, <3>1 DEF Tick
  <2>3. CASE DumpHealthStatus
    <3>1. /\ file'.step = agent.step /\ file'.age = agent.age
          /\ file'.lasted = IF agent.step = "wait" THEN agent.age ELSE 0
      BY <2>3 DEF DumpHealthStatus
    <3> QED
      BY <2>3, <3>1 DEF DumpHealthStatus
  <2>4. CASE UNCHANGED <<file, dumpAge>>
    BY <2>4
  <2> QED
    BY <2>1, <2>2, <2>3, <2>4 DEF Next, vars, AgentStep, ProbeStep, WriteConfig, AgentPlans,
       AgentStopsMongod, AgentWaits, AgentAchievesGoal, AgentRestarts, HookPolls, StartMongod,
       MongodServes, MongodDies, ProbeReadsFile, ProbeReadsSecret, ProbePatchesPod, ProbeCallFails
<1> QED
  BY <1>1, <1>2 DEF WaitStepAged

\* A probe that takes an unfinished config for ready has read a wait step
\* that was old enough when it was dumped.
LEMMA WaitingProbe ==
  ASSUME TypeOK, WaitStepAged, [Next]_vars, probe.pc = "idle", probe'.waiting
  PROVE  file.lasted > WaitThreshold - DumpInterval
<1>1. probe' # probe /\ probe' # NoProbe
  BY DEF WaitStepAged, NoProbe
<1>2. ProbeReadsFile
  BY <1>1 DEF Next, vars, AgentStep, ProbeStep, WriteConfig, RecreatePod, Tick,
     AgentPlans, AgentStopsMongod, AgentWaits, AgentAchievesGoal, DumpHealthStatus,
     AgentRestarts, HookPolls, StartMongod, MongodServes, MongodDies, ProbeReadsSecret,
     ProbePatchesPod, ProbeCallFails
<1>3. IsOnWaitingStep(file)
  BY <1>1, <1>2 DEF ProbeReadsFile
<1>4. file.age <= file.lasted + dumpAge /\ file.age > WaitThreshold
  BY <1>3 DEF IsOnWaitingStep, WaitStepAged
<1> QED
  BY <1>4, AgesAreNumbers, TimingAssumption DEF TypeOK

-----------------------------------------------------------------------------
(***************************************************************************)
(* The time limit of the hook.                                             *)
(***************************************************************************)
\* The numbers of the hook, the agent and the file.
LEMMA PollsAreNumbers ==
  TypeOK => /\ {agent.age, dumpAge, hook.polls} \subseteq Nat /\ dumpAge <= DumpInterval
            /\ hook.polled \in BOOLEAN /\ pod.blocked \in BOOLEAN
            /\ pod \in Pods /\ agent \in Agents /\ file \in Files /\ hook \in Hooks
BY TimingAssumption DEF TypeOK, Files, Agents, Hooks, Pods

\* A poll that goes on has seen a file without a plan; from there to the next
\* poll only a second passes.
LEMMA NotOverlookedStep ==
  ASSUME TypeOK, PlanNotOverlooked, [Next]_vars
  PROVE  PlanNotOverlooked'
<1> USE PollsAreNumbers, TimingAssumption DEF PlanNotOverlooked
<1>1. CASE WriteConfig
  BY <1>1 DEF WriteConfig
<1>2. CASE RecreatePod
  BY <1>2 DEF RecreatePod, NewHook, NewAgent, Missing
<1>3. CASE Tick
  BY <1>3 DEF Tick, AgedFile, Older
<1>4. CASE AgentPlans
  BY <1>4 DEF AgentPlans, NewAgent
<1>5. CASE AgentStopsMongod
  BY <1>5 DEF AgentStopsMongod, NewHook
<1>6. CASE AgentWaits
  BY <1>6 DEF AgentWaits
<1>7. CASE AgentAchievesGoal
  BY <1>7 DEF AgentAchievesGoal
<1>8. CASE DumpHealthStatus
  <2>1. file'.inGoal = (agent.step = "none")
    BY <1>8, SMT DEF DumpHealthStatus
  <2>2. UNCHANGED <<agent, mongod, hook, pod>>
    BY <1>8 DEF DumpHealthStatus
  <2> QED
    BY <2>1, <2>2
<1>9. CASE AgentRestarts
  BY <1>9 DEF AgentRestarts, NewAgent
<1>10. CASE HookPolls
  BY <1>10 DEF HookPolls, LetMongodStart, DeletePod
<1>11. CASE StartMongod
  BY <1>11 DEF StartMongod
<1>12. CASE MongodServes
  BY <1>12 DEF MongodServes
<1>13. CASE MongodDies
  BY <1>13 DEF MongodDies, NewHook
<1>14. CASE ProbeReadsFile
  <2>1. pod'.blocked = pod.blocked
    BY <1>14 DEF ProbeReadsFile, FailProbe, Pods
  <2> QED
    BY <1>14, <2>1 DEF ProbeReadsFile
<1>15. CASE ProbeReadsSecret
  BY <1>15 DEF ProbeReadsSecret
<1>16. CASE ProbePatchesPod
  <2>1. pod'.blocked = pod.blocked
    BY <1>16 DEF ProbePatchesPod, FailProbe, Pods
  <2> QED
    BY <1>16, <2>1 DEF ProbePatchesPod
<1>17. CASE ProbeCallFails
  <2>1. pod'.blocked = pod.blocked
    BY <1>17 DEF ProbeCallFails, FailProbe, Pods
  <2> QED
    BY <1>17, <2>1 DEF ProbeCallFails
<1>18. CASE UNCHANGED vars
  BY <1>18 DEF vars
<1> QED
  BY <1>1, <1>2, <1>3, <1>4, <1>5, <1>6, <1>7, <1>8, <1>9, <1>10, <1>11, <1>12, <1>13, <1>14, <1>15, <1>16, <1>17, <1>18 DEF Next, AgentStep, ProbeStep

\* Only a poll lets mongod start, of a hook that does not wait to be killed.
LEMMA HookGivesUp ==
  ASSUME TypeOK, PlanNotOverlooked, [Next]_vars,
         hook.polls > PollLimit, mongod = "hook", mongod' = "starting"
  PROVE  agent.step = "none" \/ agent.age <= DumpInterval + 1
<1>1. HookPolls
  BY DEF Next, vars, AgentStep, ProbeStep, WriteConfig, RecreatePod, Tick, AgentPlans,
    AgentStopsMongod, AgentWaits, AgentAchievesGoal, DumpHealthStatus, AgentRestarts,
    StartMongod, MongodServes, MongodDies, ProbeReadsFile, ProbeReadsSecret,
    ProbePatchesPod, ProbeCallFails
<1>2. ~pod.blocked /\ ~hook.polled /\ hook.polls > 0
  BY <1>1, PollsAreNumbers, TimingAssumption DEF HookPolls
<1> QED
  BY <1>2 DEF PlanNotOverlooked

-----------------------------------------------------------------------------
(***************************************************************************)
(* Theorems.                                                               *)
(***************************************************************************)
\* The invariant of the pod holds in every reachable state.
LEMMA PodInvariantHolds == Spec => []PodInvariant
<1>1. PodInvariant /\ [Next]_vars => PodInvariant'
  BY TypeStep, AchievedStep, WaitStepStep, NotOverlookedStep DEF PodInvariant
<1> QED
  BY InitHolds, <1>1, PTL DEF Spec

\* The state of agent, file, hook and probe keeps its types for any limits.
THEOREM PodTypeCorrect == Spec => []TypeOK
<1>1. PodInvariant => TypeOK
  BY DEF PodInvariant
<1> QED
  BY PodInvariantHolds, <1>1, PTL

\* When the probe saw plans, the version PatchPodAnnotation wrote was achieved
\* by an agent in this pod, however stale the health status file was.
THEOREM AnnotationAchieved == Spec => []AnnotationIsAchieved
<1>1. PodInvariant => AnnotationIsAchieved
  BY DEF PodInvariant
<1> QED
  BY PodInvariantHolds, <1>1, PTL

\* isWaitStep answers yes only to a step that had lasted, when it was dumped,
\* the threshold less one dump interval, whatever the two are.
THEOREM WaitStepLasted == Spec => WaitStepHasLasted
<1>1. PodInvariant /\ [Next]_vars =>
        [probe.pc = "idle" /\ probe'.waiting => file.lasted > WaitThreshold - DumpInterval]_vars
  BY WaitingProbe DEF PodInvariant
<1> QED
  BY PodInvariantHolds, <1>1, PTL DEF Spec, WaitStepHasLasted

\* waitForAgentHealthStatus gives up only on an agent that was idle, or whose
\* plan is too new to be in the file, whatever the limits are.
THEOREM NoPlanMissed == Spec => NoPlanTimedOut
<1>1. PodInvariant /\ [Next]_vars =>
        [hook.polls > PollLimit /\ mongod = "hook" /\ mongod' = "starting" =>
           agent.step = "none" \/ agent.age <= DumpInterval + 1]_vars
  BY HookGivesUp DEF PodInvariant
<1> QED
  BY PodInvariantHolds, <1>1, PTL DEF Spec, NoPlanTimedOut
=============================================================================
