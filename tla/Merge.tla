------------------------------- MODULE Merge -------------------------------
(***************************************************************************)
(* How the StatefulSet a user specifies is merged into the one the         *)
(* operator built (pkg/util/merge).                                        *)
(*                                                                         *)
(* A struct whose fields are overridden one by one when they are set is a  *)
(* function from the names of the fields that are set to their values.     *)
(* A list that is merged by name and then sorted by name is a function     *)
(* from names to entries.  Only the topology spread constraints stay a     *)
(* sequence: the code lists the merged map in the order in which Go        *)
(* happens to iterate over it.  The items of Secret volumes, whose order   *)
(* is left to chance in the same way, are left out.                        *)
(***************************************************************************)
EXTENDS Integers, Sequences, SequencesExt, FiniteSets

Nothing == <<>>   \* a struct, map or list without entries

\* Fields that are set in the second struct win.  Maps are merged in the
\* same way.
StringToStringMap(map1, map2) ==
  [k \in DOMAIN map1 \cup DOMAIN map2 |->
     IF k \in DOMAIN map2 THEN map2[k] ELSE map1[k]]

\* Entries of the same name are merged by Entry, the others are kept.
MergeByName(original, override, Entry(_, _)) ==
  [k \in DOMAIN original \cup DOMAIN override |->
     IF k \notin DOMAIN override THEN original[k]
     ELSE IF k \notin DOMAIN original THEN override[k]
     ELSE Entry(original[k], override[k])]

\* Where the second list has a string that is neither in the first list nor
\* further to the front.
NewStrings(slice1, slice2) ==
  {i \in DOMAIN slice2 : /\ \A j \in DOMAIN slice1 : slice1[j] # slice2[i]
                         /\ \A j \in 1 .. i - 1 : slice2[j] # slice2[i]}

\* The first list, then the strings the second one adds to it.
StringSlices(slice1, slice2) ==
  LET new    == NewStrings(slice1, slice2)
      Nth(n) == CHOOSE i \in new : Cardinality({j \in new : j < i}) = n - 1
  IN  slice1 \o [n \in 1 .. Cardinality(new) |-> slice2[Nth(n)]]

-----------------------------------------------------------------------------
(***************************************************************************)
(* Containers.  A container has settings (image, command, arguments, ...), *)
(* resources, a readiness probe, a security context, environment variables *)
(* and volume mounts.  A mount is named by <<volume, path>>; its value     *)
(* tells whether it is read-only.                                          *)
(***************************************************************************)
NewContainer ==
  [settings |-> Nothing, resources |-> Nothing, readinessProbe |-> Nothing,
   securityContext |-> Nothing, env |-> Nothing, mounts |-> Nothing]

\* Probe, LifeCycle and SecurityContext: field by field.
Probe(original, override) == StringToStringMap(original, override)

ResourceRequirements(original, override) == StringToStringMap(original, override)

\* A variable without a value leaves the original one alone.
Envs(original, override) ==
  LET MergeSingleEnv(o, v) == IF v = "" THEN o ELSE v
  IN  MergeByName(original, override, MergeSingleEnv)

VolumeMounts(original, override) ==
  LET VolumeMount(o, v) == o \/ v
  IN  MergeByName(original, override, VolumeMount)

Container(original, override) ==
  [settings        |-> StringToStringMap(original.settings, override.settings),
   resources       |-> ResourceRequirements(original.resources, override.resources),
   readinessProbe  |-> Probe(original.readinessProbe, override.readinessProbe),
   securityContext |-> Probe(original.securityContext, override.securityContext),
   env             |-> Envs(original.env, override.env),
   mounts          |-> VolumeMounts(original.mounts, override.mounts)]

Containers(original, override) == MergeByName(original, override, Container)

-----------------------------------------------------------------------------
(***************************************************************************)
(* Volumes.  A volume has one source, with the fields that are set for it. *)
(***************************************************************************)
MergedSources == {"emptyDir", "secret", "configMap"}

\* Only sources of one of the kinds the operator uses are merged.
Volume(original, override) ==
  IF original.source = override.source /\ original.source \in MergedSources
  THEN [original EXCEPT !.fields = StringToStringMap(@, override.fields)]
  ELSE override

Volumes(original, override) == MergeByName(original, override, Volume)

\* A claim has fields and a list of access modes.
PersistentVolumeClaim(original, override) ==
  [fields      |-> StringToStringMap(original.fields, override.fields),
   accessModes |-> StringSlices(original.accessModes, override.accessModes)]

VolumeClaimTemplates(original, override) ==
  MergeByName(original, override, PersistentVolumeClaim)

-----------------------------------------------------------------------------
(***************************************************************************)
(* Pod templates and StatefulSets.                                         *)
(***************************************************************************)
NewPodTemplate ==
  [settings |-> Nothing, labels |-> Nothing, volumes |-> Nothing,
   containers |-> Nothing, initContainers |-> Nothing,
   hostAliases |-> Nothing, topology |-> Nothing]

\* The host names of an address are collected.
HostAliases(original, override) == MergeByName(original, override, StringSlices)

\* Every order of the merged constraints.  Constraints are pairs of a
\* topology key and the fields that are set.
TopologySpreadConstraints(original, override) ==
  LET AsMap(s) == [k \in {s[i][1] : i \in DOMAIN s} |->
                     s[CHOOSE i \in DOMAIN s : s[i][1] = k /\ \A j \in DOMAIN s :
                         s[j][1] = k => j <= i][2]]
      merged   == MergeByName(AsMap(original), AsMap(override), StringToStringMap)
  IN  IF override = Nothing THEN {original}
      ELSE {[i \in DOMAIN s |-> <<s[i], merged[s[i]]>>] : s \in SetToSeqs(DOMAIN merged)}

\* The last argument is the order in which the constraints were listed.
PodTemplateSpecs(original, override, topology) ==
  [settings       |-> StringToStringMap(original.settings, override.settings),
   labels         |-> StringToStringMap(original.labels, override.labels),
   volumes        |-> Volumes(original.volumes, override.volumes),
   containers     |-> Containers(original.containers, override.containers),
   initContainers |-> Containers(original.initContainers, override.initContainers),
   hostAliases    |-> HostAliases(original.hostAliases, override.hostAliases),
   topology       |-> topology]

NewStatefulSetSpec ==
  [settings |-> Nothing, selector |-> Nothing, template |-> NewPodTemplate, claims |-> Nothing]

StatefulSetSpecs(original, override, topology) ==
  [settings |-> StringToStringMap(original.settings, override.settings),
   selector |-> StringToStringMap(original.selector, override.selector),
   template |-> PodTemplateSpecs(original.template, override.template, topology),
   claims   |-> VolumeClaimTemplates(original.claims, override.claims)]
=============================================================================
