------------------------- MODULE PodTemplateProofs -------------------------
(***************************************************************************)
(* Theorems about PodTemplate, for all specs, user templates and edits.    *)
(***************************************************************************)
EXTENDS PodTemplate, FiniteSetTheorems, WellFoundedInduction, TLAPS

-----------------------------------------------------------------------------
(* What a step does to the running pods. *)

PodNames == {"scheduler", "worker"}

IsPod(pod) ==
    pod = [podSpec |-> pod.podSpec, labels |-> pod.labels, from |-> pod.from]

\* There is a place for the pod of either component.
ShapeInv ==
    /\ pods = [c \in PodNames |-> pods[c]]
    /\ \A c \in PodNames : IsPod(pods[c])

\* A pod is as before, gone, or what the current spec asks for.
Follows(c) ==
    \/ pods'[c] = pods[c]
    \/ pods'[c] = NoPod
    \/ /\ pods'[c].from = spec /\ spec' = spec /\ pc # "idle"
       /\ pods'[c].podSpec = Wanted(c, spec).podSpec
       /\ \/ pods'[c].labels = Wanted(c, spec).labels
          \/ /\ pods[c] # NoPod /\ pods'[c].labels = pods[c].labels
             /\ pods'[c].podSpec = pods[c].podSpec

LEMMA BuiltPod ==
    ASSUME NEW c \in PodNames, NEW s
    PROVE  /\ IsPod(Wanted(c, s))
           /\ Wanted(c, s).from = s
BY DEF Wanted, BuildSchedulerPodTemplate, BuildWorkerPodTemplate, BuildPod, IsPod

\* A pod that stays is noted to be right for the spec.
LEMMA NotedPod ==
    ASSUME NEW pod, IsPod(pod), NEW s
    PROVE  /\ IsPod([pod EXCEPT !.from = s])
           /\ [pod EXCEPT !.from = s].from = s
           /\ [pod EXCEPT !.from = s].podSpec = pod.podSpec
           /\ [pod EXCEPT !.from = s].labels = pod.labels
BY DEF IsPod

LEMMA PlacePod ==
    ASSUME ShapeInv, NEW c \in PodNames, NEW pod, IsPod(pod),
           pods' = [pods EXCEPT ![c] = pod]
    PROVE  /\ ShapeInv' /\ pods'[c] = pod
           /\ \A d \in PodNames : d # c => pods'[d] = pods[d]
BY DEF ShapeInv

LEMMA SchedulerFollows ==
    ASSUME ShapeInv, ReconcileScheduler
    PROVE  ShapeInv' /\ \A c \in PodNames : Follows(c)
<1> DEFINE pod == BuildSchedulerPodTemplate(spec)
<1>0. /\ "scheduler" \in PodNames /\ IsPod(NoPod)
      /\ pod = Wanted("scheduler", spec) /\ IsPod(pod) /\ pod.from = spec
  BY BuiltPod DEF PodNames, IsPod, NoPod, Wanted
<1>1. pc = "scheduler" /\ spec' = spec
  BY DEF ReconcileScheduler
<1>2. CASE UNCHANGED pods
  BY <1>2 DEF ShapeInv, Follows
<1>3. ASSUME NEW new, IsPod(new), pods' = [pods EXCEPT !["scheduler"] = new],
             \/ new = NoPod
             \/ /\ new.from = spec /\ new.podSpec = pod.podSpec
                /\ \/ new.labels = pod.labels
                   \/ /\ pods["scheduler"] # NoPod /\ new.labels = pods["scheduler"].labels
                      /\ new.podSpec = pods["scheduler"].podSpec
      PROVE  ShapeInv' /\ \A c \in PodNames : Follows(c)
  <2>1. /\ ShapeInv' /\ pods'["scheduler"] = new
        /\ \A d \in PodNames : d # "scheduler" => pods'[d] = pods[d]
    BY <1>0, <1>3, PlacePod
  <2> QED BY <1>0, <1>1, <1>3, <2>1 DEF Follows
<1>4. CASE pods' = [pods EXCEPT !["scheduler"] = pod]
  BY <1>0, <1>3, <1>4
<1>5. CASE pods' = [pods EXCEPT !["scheduler"] = NoPod]
  BY <1>0, <1>3, <1>5
<1>6. CASE /\ pods["scheduler"] # NoPod
           /\ pods' = [pods EXCEPT !["scheduler"].from = spec]
           /\ podTemplateHash(pods["scheduler"]) = podTemplateHash(pod)
  <2> DEFINE new == [pods["scheduler"] EXCEPT !.from = spec]
  <2>1. IsPod(pods["scheduler"])
    BY <1>0 DEF ShapeInv
  <2>2. /\ IsPod(new) /\ new.from = spec /\ new.podSpec = pods["scheduler"].podSpec
        /\ new.labels = pods["scheduler"].labels
    BY <2>1, NotedPod
  <2>3. pods' = [pods EXCEPT !["scheduler"] = new]
    BY <1>6
  <2> HIDE DEF new, pod
  <2> QED BY <1>3, <1>6, <2>2, <2>3 DEF podTemplateHash
<1> HIDE DEF pod
<1> QED BY <1>2, <1>4, <1>5, <1>6 DEF ReconcileScheduler, pod

LEMMA WorkerFollows ==
    ASSUME ShapeInv, ReconcileWorkerPool
    PROVE  ShapeInv' /\ \A c \in PodNames : Follows(c)
<1> DEFINE pod == BuildWorkerPodTemplate(spec)
<1>0. /\ "worker" \in PodNames /\ IsPod(NoPod)
      /\ pod = Wanted("worker", spec) /\ IsPod(pod) /\ pod.from = spec
  BY BuiltPod DEF PodNames, IsPod, NoPod, Wanted
<1>1. pc = "workers" /\ spec' = spec
  BY DEF ReconcileWorkerPool
<1>2. CASE UNCHANGED pods
  BY <1>2 DEF ShapeInv, Follows
<1>3. ASSUME NEW new, IsPod(new), pods' = [pods EXCEPT !["worker"] = new],
             \/ new = NoPod
             \/ /\ new.from = spec /\ new.podSpec = pod.podSpec
                /\ \/ new.labels = pod.labels
                   \/ /\ pods["worker"] # NoPod /\ new.labels = pods["worker"].labels
                      /\ new.podSpec = pods["worker"].podSpec
      PROVE  ShapeInv' /\ \A c \in PodNames : Follows(c)
  <2>1. /\ ShapeInv' /\ pods'["worker"] = new
        /\ \A d \in PodNames : d # "worker" => pods'[d] = pods[d]
    BY <1>0, <1>3, PlacePod
  <2> QED BY <1>0, <1>1, <1>3, <2>1 DEF Follows
<1>4. CASE pods' = [pods EXCEPT !["worker"] = pod]
  BY <1>0, <1>3, <1>4
<1>5. CASE pods' = [pods EXCEPT !["worker"] = NoPod]
  BY <1>0, <1>3, <1>5
<1>6. CASE /\ pods["worker"] # NoPod
           /\ pods' = [pods EXCEPT !["worker"] = [pods["worker"] EXCEPT !.from = spec]]
           /\ podTemplateHash(pods["worker"]) = podTemplateHash(pod)
  <2> DEFINE new == [pods["worker"] EXCEPT !.from = spec]
  <2>1. IsPod(pods["worker"])
    BY <1>0 DEF ShapeInv
  <2>2. /\ IsPod(new) /\ new.from = spec /\ new.podSpec = pods["worker"].podSpec
        /\ new.labels = pods["worker"].labels
    BY <2>1, NotedPod
  <2>3. pods' = [pods EXCEPT !["worker"] = new]
    BY <1>6
  <2> HIDE DEF new, pod
  <2> QED BY <1>3, <1>6, <2>2, <2>3 DEF podTemplateHash
<1> HIDE DEF pod
<1> QED BY <1>2, <1>4, <1>5, <1>6 DEF ReconcileWorkerPool, pod

LEMMA PodsFollow ==
    ASSUME ShapeInv, [Next]_vars
    PROVE  ShapeInv' /\ \A c \in PodNames : Follows(c)
<1>1. CASE UNCHANGED pods
  BY <1>1 DEF ShapeInv, Follows
<1> QED BY <1>1, SchedulerFollows, WorkerFollows DEF Next, vars, Edit, Begin

LEMMA InitShapeInv == Init => ShapeInv
BY DEF Init, ShapeInv, IsPod, NoPod, PodNames

LEMMA RunningPods == ShapeInv => Running = {c \in PodNames : pods[c] # NoPod}
BY DEF ShapeInv, Running

-----------------------------------------------------------------------------
(* Releases. *)

\* A pass gets past its start only with a version the operator can work with, and
\* so does every pod it makes or leaves.
ReleaseInv ==
    /\ ShapeInv
    /\ pc # "idle" => clusterVersion(spec)
    /\ \A c \in PodNames : pods[c] # NoPod => clusterVersion(pods[c].from)

LEMMA SupportedTag ==
    ASSUME NEW s, clusterVersion(s), distTag(s) \in DOMAIN ParseSemantic, s.distTag = ""
    PROVE  /\ ParseSemantic[distTag(s)] >= 71
           /\ s.license.kind = "cloud" => ParseSemantic[distTag(s)] >= 80
<1>1. distTag(s) \notin {"", "latest"}
  BY DEF ParseSemantic
<1>2. distTag(s) = s.version
  BY <1>1 DEF distTag
<1> HIDE DEF ParseSemantic
<1> QED BY <1>1, <1>2
        DEF clusterVersion, minSupportedVersion, minCloudLicenseVersion

LEMMA NextReleaseInv ==
    ASSUME ReleaseInv, [Next]_vars
    PROVE  ReleaseInv'
<1>1. ShapeInv' /\ \A c \in PodNames : Follows(c)
  BY PodsFollow DEF ReleaseInv
<1>2. pc' # "idle" => clusterVersion(spec) /\ spec' = spec
  BY DEF ReleaseInv, Next, vars, Edit, Begin, SpecError, ReconcileScheduler,
         ReconcileWorkerPool
<1>3. pc' # "idle" => clusterVersion(spec')
  BY <1>2
<1>4. ASSUME NEW c \in PodNames, pods'[c] # NoPod
      PROVE  clusterVersion(pods'[c].from)
  BY <1>1, <1>4 DEF Follows, ReleaseInv
<1> QED BY <1>1, <1>3, <1>4 DEF ReleaseInv

\* Whatever the users edit and in whatever order, a pod that runs was made for a
\* release the operator supports, and with the cloud license for one that knows
\* it, unless dist.tag replaces the release by a tag of its own.
THEOREM SupportedReleases == Spec => []RunsSupportedRelease
<1>1. ASSUME Init PROVE ReleaseInv
  <2>1. ShapeInv
    BY <1>1, InitShapeInv
  <2> QED BY <1>1, <2>1 DEF Init, ReleaseInv, PodNames
<1>2. ASSUME ReleaseInv, [Next]_vars PROVE ReleaseInv'
  BY <1>2, NextReleaseInv
<1>3. ASSUME ReleaseInv PROVE RunsSupportedRelease
  <2>1. Running = {c \in PodNames : pods[c] # NoPod}
    BY <1>3, RunningPods DEF ReleaseInv
  <2> QED BY <1>3, <2>1, SupportedTag DEF ReleaseInv, RunsSupportedRelease
<1> QED BY <1>1, <1>2, <1>3, PTL DEF Spec

-----------------------------------------------------------------------------
(* What the scheduler's pod depends on. *)

\* Two specs that differ in nothing but what concerns the workers.
AlikeForScheduler(s, r) ==
    /\ \A f \in SpecFields \ (WorkerFields \cup {"settings"}) : s[f] = r[f]
    /\ s.settings \ WorkerSettings = r.settings \ WorkerSettings

\* The scheduler's pod is composed from none of the fields of the workers.
LEMMA SchedulerPodDependsOn ==
    ASSUME NEW s, NEW r, AlikeForScheduler(s, r)
    PROVE  BuildSchedulerPodTemplate(s).podSpec = BuildSchedulerPodTemplate(r).podSpec
<1>1. /\ s.version = r.version /\ s.runtime = r.runtime /\ s.distTag = r.distTag
      /\ s.pythonTag = r.pythonTag /\ s.imageVolume = r.imageVolume
      /\ s.requirements = r.requirements /\ s.license = r.license
      /\ s.telemetry = r.telemetry /\ s.checkpoint = r.checkpoint
      /\ s.anonymousResults = r.anonymousResults
      /\ s.observatoryClaim = r.observatoryClaim /\ s.replicas = r.replicas
      /\ s.pullSecrets = r.pullSecrets
      /\ s.schedulerTemplate = r.schedulerTemplate
      /\ s.schedulerAccount = r.schedulerAccount
  BY DEF AlikeForScheduler, SpecFields, WorkerFields
<1>2. \A x \in {"clusterID", "logLevel", "hostMetricsOff", "maxMetricsBytes",
                "checkpointPeriod", "allowLocalScans", "acceptEula", "lineage"} :
         x \in s.settings <=> x \in r.settings
  BY DEF AlikeForScheduler, WorkerSettings
<1>3. distTag(s) = distTag(r)
  BY <1>1 DEF distTag
<1>4. composedRuntimeConfig(s) = composedRuntimeConfig(r)
  BY <1>1, <1>3 DEF composedRuntimeConfig, release, requirements
<1>5. /\ resolveClusterID(s) = resolveClusterID(r)
      /\ resolveLogLevel(s) = resolveLogLevel(r)
      /\ hostMetricsDisabled(s) = hostMetricsDisabled(r)
      /\ observatoryMaxMetricsBytes(s) = observatoryMaxMetricsBytes(r)
      /\ checkpointPeriod(s) = checkpointPeriod(r)
      /\ Optional(s, "cublet", "lineage") = Optional(r, "cublet", "lineage")
  BY <1>1, <1>2 DEF resolveClusterID, resolveLogLevel, hostMetricsDisabled,
                    observatoryMaxMetricsBytes, checkpointPeriod, Defaulted, Optional
<1>6. schedulerSettings(s) = schedulerSettings(r)
  BY <1>2, <1>5 DEF schedulerSettings, Defaulted, Optional
<1>7. /\ telemetry(s) = telemetry(r)
      /\ observatoryDataVolume(s) = observatoryDataVolume(r)
      /\ computedAnonymousResultsEnv(s) = computedAnonymousResultsEnv(r)
  BY <1>1 DEF telemetry, observatoryDataVolume, computedAnonymousResultsEnv
<1>8. computedSchedulerPodSpec(s) = computedSchedulerPodSpec(r)
  BY <1>1, <1>4, <1>5, <1>6, <1>7 DEF computedSchedulerPodSpec
<1> QED BY <1>1, <1>8 DEF BuildSchedulerPodTemplate, BuildPod

\* A running pod is what the spec it was last found right for asks for.
BuiltInv ==
    /\ ShapeInv
    /\ IsSpec(spec)
    /\ \A c \in PodNames : pods[c] # NoPod =>
           /\ IsSpec(pods[c].from)
           /\ pods[c].podSpec = Wanted(c, pods[c].from).podSpec

\* An edit changes the value of one field.
LEMMA EditedSpec ==
    ASSUME IsSpec(spec), NEW f \in DOMAIN FieldValues, NEW v \in FieldValues[f],
           Edit(f, v)
    PROVE  IsSpec(spec')
BY FieldValuesAssumption DEF IsSpec, Edit

LEMMA NextBuiltInv ==
    ASSUME BuiltInv, [Next]_vars
    PROVE  BuiltInv'
<1>1. ShapeInv' /\ \A c \in PodNames : Follows(c)
  BY PodsFollow DEF BuiltInv
<1>2. IsSpec(spec')
  <2>1. IsSpec(spec)
    BY DEF BuiltInv
  <2>2. CASE \E f \in DOMAIN FieldValues : \E v \in FieldValues[f] : Edit(f, v)
    BY <2>1, <2>2, EditedSpec
  <2>3. CASE spec' = spec
    BY <2>1, <2>3
  <2> QED BY <2>2, <2>3 DEF Next, vars, Begin, ReconcileScheduler, ReconcileWorkerPool
<1>3. ASSUME NEW c \in PodNames, pods'[c] # NoPod
      PROVE  /\ IsSpec(pods'[c].from)
             /\ pods'[c].podSpec = Wanted(c, pods'[c].from).podSpec
  BY <1>1, <1>3 DEF Follows, BuiltInv
<1> QED BY <1>1, <1>2, <1>3 DEF BuiltInv

LEMMA InitBuiltInv == Init => BuiltInv
<1> SUFFICES ASSUME Init PROVE BuiltInv
  OBVIOUS
<1>1. ShapeInv
  BY InitShapeInv
<1>2. IsSpec(spec)
  BY FieldValuesAssumption DEF Init
<1> QED BY <1>1, <1>2 DEF Init, BuiltInv, PodNames

\* A pod that is composed is a pod.
LEMMA SomePod ==
    ASSUME NEW c \in PodNames, NEW s
    PROVE  Wanted(c, s).podSpec # NoPod.podSpec
<1>1. \A f, g : DOMAIN (f ++ g) = DOMAIN f \cup DOMAIN g
  BY DEF ++
<1>2. ASSUME NEW a, NEW g PROVE [account |-> a] ++ g # <<>>
  <2>1. "account" \in DOMAIN ([account |-> a] ++ g)
    BY <1>1
  <2>2. "account" \notin DOMAIN <<>>
    OBVIOUS
  <2> QED BY <2>1, <2>2
<1> QED BY <1>2
        DEF Wanted, BuildSchedulerPodTemplate, BuildWorkerPodTemplate, BuildPod, NoPod

\* The step in which the scheduler's pod goes: the spec asks for another one.
LEMMA SchedulerReplaced ==
    ASSUME BuiltInv, [Next]_vars, pods["scheduler"] # NoPod, pods'["scheduler"] = NoPod
    PROVE  Wanted("scheduler", pods["scheduler"].from).podSpec
              # Wanted("scheduler", spec).podSpec
<1>0. "scheduler" \in PodNames /\ ShapeInv
  BY DEF PodNames, BuiltInv
<1>1. ReconcileScheduler
  <2>1. CASE ReconcileWorkerPool
    BY <1>0, <2>1 DEF ReconcileWorkerPool, ShapeInv
  <2> QED BY <2>1 DEF Next, vars, Edit, Begin
<1>2. pods["scheduler"].podSpec = Wanted("scheduler", pods["scheduler"].from).podSpec
  BY <1>0 DEF BuiltInv
<1>3. SUFFICES ASSUME pods["scheduler"].podSpec = Wanted("scheduler", spec).podSpec
               PROVE  FALSE
  BY <1>2
<1>4. IsPod(pods["scheduler"]) /\ pods = [c \in PodNames |-> pods[c]]
  BY <1>0 DEF ShapeInv
<1>5. pods' = [pods EXCEPT !["scheduler"].from = spec] \/ pods' = pods
  BY <1>1, <1>3 DEF ReconcileScheduler, podTemplateHash, Wanted
<1>6. pods'["scheduler"].podSpec = pods["scheduler"].podSpec
  BY <1>0, <1>4, <1>5 DEF IsPod
<1> QED BY <1>0, <1>3, <1>6, SomePod

\* Replacing the scheduler's pod ends every running query: no edit that concerns
\* only the workers, other than their number, ever does it, whatever the spec and
\* the users' templates.
THEOREM SchedulerIsSpared == Spec => WorkerEditsSpareScheduler
<1> DEFINE Spared ==
        pods["scheduler"] # NoPod /\ pods'["scheduler"] = NoPod =>
          \E f \in DOMAIN spec \ WorkerFields :
              IF f = "settings"
              THEN spec[f] \ WorkerSettings
                       # pods["scheduler"].from[f] \ WorkerSettings
              ELSE spec[f] # pods["scheduler"].from[f]
<1>1. ASSUME BuiltInv, [Next]_vars PROVE Spared
  <2> SUFFICES ASSUME pods["scheduler"] # NoPod, pods'["scheduler"] = NoPod,
                      ~\E f \in DOMAIN spec \ WorkerFields :
                          IF f = "settings"
                          THEN spec[f] \ WorkerSettings
                                   # pods["scheduler"].from[f] \ WorkerSettings
                          ELSE spec[f] # pods["scheduler"].from[f]
               PROVE  FALSE
    OBVIOUS
  <2>1. "settings" \in DOMAIN spec \ WorkerFields /\ DOMAIN spec = SpecFields
    BY <1>1 DEF BuiltInv, IsSpec, SpecFields, WorkerFields
  <2>2. AlikeForScheduler(pods["scheduler"].from, spec)
    BY <2>1 DEF AlikeForScheduler
  <2>3. BuildSchedulerPodTemplate(pods["scheduler"].from).podSpec
           = BuildSchedulerPodTemplate(spec).podSpec
    BY <2>2, SchedulerPodDependsOn
  <2> QED BY <1>1, <2>3, SchedulerReplaced DEF Wanted
<1>2. ASSUME BuiltInv, [Next]_vars PROVE [Spared]_vars
  BY <1>1, <1>2
<1> QED BY <1>2, InitBuiltInv, NextBuiltInv, PTL DEF Spec, WorkerEditsSpareScheduler

-----------------------------------------------------------------------------
(* What becomes of the user's podTemplate. *)

LEMMA SpecTemplates ==
    ASSUME NEW s, IsSpec(s), NEW c \in PodNames
    PROVE  IsTemplate(TemplateOf(c, s))
BY FieldValuesAssumption DEF IsSpec, SpecFields, TemplateOf

LEMMA KeptByOverride ==
    ASSUME NEW theirs, NEW ours, NEW k \in DOMAIN theirs \ DOMAIN ours
    PROVE  k \in DOMAIN (ours ++ theirs) /\ (ours ++ theirs)[k] = theirs[k]
BY DEF ++

LEMMA KeptByMerge ==
    ASSUME NEW theirs, NEW ours, NEW k \in DOMAIN theirs \ DOMAIN ours
    PROVE  k \in DOMAIN Merged(theirs, ours) /\ Merged(theirs, ours)[k] = theirs[k]
<1> DEFINE both == [x \in DOMAIN ours \cap DOMAIN theirs |-> ours[x] ++ theirs[x]]
<1>1. k \in DOMAIN (ours ++ theirs) /\ (ours ++ theirs)[k] = theirs[k]
  BY KeptByOverride
<1>2. k \notin DOMAIN both
  OBVIOUS
<1>3. Merged(theirs, ours) = both ++ (ours ++ theirs)
  BY DEF Merged
<1> HIDE DEF both
<1>4. k \in DOMAIN (ours ++ theirs) \ DOMAIN both
  BY <1>1, <1>2
<1> QED BY <1>1, <1>3, <1>4, KeptByOverride

\* The operator's container takes the place of the first, the others stay.
LEMMA MergedContainers ==
    ASSUME NEW template, IsTemplate(template), NEW main, NEW merged,
           merged = IF template.containers = <<>> THEN <<main>>
                    ELSE [template.containers EXCEPT ![1] = main]
    PROVE  /\ Head(merged) = main
           /\ Tail(merged) = IF template.containers = <<>> THEN <<>>
                             ELSE Tail(template.containers)
<1> DEFINE list == template.containers
           S == {list[i] : i \in DOMAIN list}
<1>1. list \in Seq(S)
  BY DEF IsTemplate
<1>2. CASE list = <<>>
  BY <1>2
<1>3. CASE list # <<>>
  <2>1. merged = [list EXCEPT ![1] = main]
    BY <1>3
  <2>2. /\ Len(list) \in Nat /\ Len(list) >= 1 /\ DOMAIN list = 1..Len(list)
    BY <1>1, <1>3
  <2> HIDE DEF S, list
  <2>3. merged \in Seq(S \cup {main}) /\ Len(merged) = Len(list)
    BY <1>1, <2>1, <2>2
  <2>4. Head(merged) = main
    BY <2>1, <2>2, <2>3
  <2>5. Tail(merged) = Tail(list)
    BY <1>1, <2>1, <2>2, <2>3
  <2> QED BY <1>3, <2>4, <2>5 DEF list
<1> QED BY <1>2, <1>3

LEMMA FirstProbe ==
    ASSUME NEW template, IsTemplate(template)
    PROVE  LET probe == FirstContainer(template).probe
           IN  probe = [k \in DOMAIN probe |-> probe[k]]
<1>1. CASE template.containers = <<>>
  BY <1>1 DEF FirstContainer, NoContainer
<1>2. CASE template.containers # <<>>
  <2>1. /\ 1 \in DOMAIN template.containers
        /\ Head(template.containers) = template.containers[1]
    BY <1>2 DEF IsTemplate
  <2> QED BY <1>2, <2>1 DEF FirstContainer, IsTemplate
<1> QED BY <1>1, <1>2

\* A probe of the user's keeps the operator's out.
LEMMA KeptProbe ==
    ASSUME NEW template, IsTemplate(template), NEW default,
           FirstContainer(template).probe # <<>>
    PROVE  injectedProbe(FirstContainer(template), default)
              ++ FirstContainer(template).probe = FirstContainer(template).probe
<1> DEFINE probe == FirstContainer(template).probe
<1>1. probe = [k \in DOMAIN probe |-> probe[k]]
  BY FirstProbe
<1>2. injectedProbe(FirstContainer(template), default) = <<>>
  BY DEF injectedProbe
<1> HIDE DEF probe
<1>3. <<>> ++ probe = [k \in DOMAIN probe |-> probe[k]]
  BY DEF ++
<1> QED BY <1>1, <1>2, <1>3 DEF probe

\* The main container of a pod, and the default for its probe.
DefaultProbe(c) ==
    IF c = "scheduler" THEN defaultSchedulerReadinessProbe ELSE defaultWorkerReadinessProbe

MainOf(c, s) ==
    LET template == TemplateOf(c, s)
        patch == PatchOf(c, s)
        base == FirstContainer(template)
    IN  [name |-> IF template.containers = <<>> THEN c ELSE base.name,
         fields |-> patch.fields ++ base.fields,
         env |-> Merged(base.env, patch.env),
         mounts |-> Merged(base.mounts, patch.mounts),
         ports |-> Merged(base.ports, patch.ports),
         probe |-> injectedProbe(base, DefaultProbe(c)) ++ base.probe]

\* The parts of a pod, whichever component it is of.
LEMMA PodParts ==
    ASSUME NEW c \in PodNames, NEW s
    PROVE  LET template == TemplateOf(c, s)
               patch == PatchOf(c, s)
               p == Wanted(c, s).podSpec
           IN  /\ p.containers = IF template.containers = <<>> THEN <<MainOf(c, s)>>
                                 ELSE [template.containers EXCEPT ![1] = MainOf(c, s)]
               /\ p.init = Merged(template.init, patch.init)
               /\ p.volumes = Merged(template.volumes, patch.volumes)
               /\ p.pullSecrets = template.pullSecrets \cup s.pullSecrets
<1> DEFINE template == TemplateOf(c, s)
           patch == PatchOf(c, s)
           base == FirstContainer(template)
           name == IF template.containers = <<>> THEN c ELSE base.name
           account == IF c = "scheduler" THEN s.schedulerAccount ELSE s.workerAccount
           merged == mergePodSpec(template, name, patch,
                                  injectedProbe(base, DefaultProbe(c)), s.pullSecrets)
<1>1. Wanted(c, s).podSpec = [account |-> resolveServiceAccountName(account, c)] ++ merged
  BY DEF Wanted, BuildSchedulerPodTemplate, BuildWorkerPodTemplate, BuildPod,
         TemplateOf, PatchOf, PodNames, DefaultProbe
<1>2. DOMAIN merged = {"containers", "init", "volumes", "pullSecrets"}
  BY DEF mergePodSpec
<1>3. ASSUME NEW a, NEW k \in DOMAIN merged
      PROVE  ([account |-> a] ++ merged)[k] = merged[k]
  <2>1. k \in DOMAIN merged \ DOMAIN [account |-> a]
    BY <1>2, <1>3
  <2> HIDE DEF merged
  <2> QED BY <2>1, KeptByOverride
<1> HIDE DEF merged
<1>4. \A k \in DOMAIN merged : Wanted(c, s).podSpec[k] = merged[k]
  BY <1>1, <1>3
<1>5. /\ Wanted(c, s).podSpec.containers = merged.containers
      /\ Wanted(c, s).podSpec.init = merged.init
      /\ Wanted(c, s).podSpec.volumes = merged.volumes
      /\ Wanted(c, s).podSpec.pullSecrets = merged.pullSecrets
  BY <1>2, <1>4
<1>6. /\ merged.containers = IF template.containers = <<>> THEN <<MainOf(c, s)>>
                             ELSE [template.containers EXCEPT ![1] = MainOf(c, s)]
      /\ merged.init = Merged(template.init, patch.init)
      /\ merged.volumes = Merged(template.volumes, patch.volumes)
      /\ merged.pullSecrets = template.pullSecrets \cup s.pullSecrets
  BY DEF merged, mergePodSpec, MainOf
<1> HIDE DEF template, patch
<1> QED BY <1>5, <1>6 DEF template, patch

LEMMA MainIsFirst ==
    ASSUME NEW c \in PodNames, NEW s, IsTemplate(TemplateOf(c, s))
    PROVE  LET user == TemplateOf(c, s)
               p == Wanted(c, s).podSpec
           IN  /\ Head(p.containers) = MainOf(c, s)
               /\ Tail(p.containers) = IF user.containers = <<>> THEN <<>>
                                       ELSE Tail(user.containers)
<1> DEFINE user == TemplateOf(c, s)
           p == Wanted(c, s).podSpec
<1>1. p.containers = IF user.containers = <<>> THEN <<MainOf(c, s)>>
                     ELSE [user.containers EXCEPT ![1] = MainOf(c, s)]
  BY PodParts
<1> HIDE DEF p
<1> QED BY <1>1, MergedContainers DEF p

\* What the user's template has and the operator's part has not is in the pod.
Survives(user, patch, p) ==
    LET main == Head(p.containers)
        base == FirstContainer(user)
        kept(theirs, ours, result) ==
            \A k \in DOMAIN theirs \ DOMAIN ours :
                k \in DOMAIN result /\ result[k] = theirs[k]
    IN  /\ Tail(p.containers) = IF user.containers = <<>> THEN <<>>
                                ELSE Tail(user.containers)
        /\ kept(user.volumes, patch.volumes, p.volumes)
        /\ kept(user.init, patch.init, p.init)
        /\ user.pullSecrets \subseteq p.pullSecrets
        /\ kept(base.env, patch.env, main.env)
        /\ kept(base.mounts, patch.mounts, main.mounts)
        /\ kept(base.ports, patch.ports, main.ports)
        /\ kept(base.fields, patch.fields, main.fields)
        /\ base.probe # <<>> => main.probe = base.probe

LEMMA TemplateSurvives ==
    ASSUME NEW c \in PodNames, NEW s, IsTemplate(TemplateOf(c, s))
    PROVE  Survives(TemplateOf(c, s), PatchOf(c, s), Wanted(c, s).podSpec)
<1> DEFINE user == TemplateOf(c, s)
           patch == PatchOf(c, s)
           p == Wanted(c, s).podSpec
           base == FirstContainer(user)
           kept(theirs, ours, result) ==
               \A k \in DOMAIN theirs \ DOMAIN ours :
                   k \in DOMAIN result /\ result[k] = theirs[k]
<1>1. /\ p.init = Merged(user.init, patch.init)
      /\ p.volumes = Merged(user.volumes, patch.volumes)
      /\ p.pullSecrets = user.pullSecrets \cup s.pullSecrets
  BY PodParts
<1>2. /\ Head(p.containers) = MainOf(c, s)
      /\ Tail(p.containers) = IF user.containers = <<>> THEN <<>>
                              ELSE Tail(user.containers)
  BY MainIsFirst
<1>3. /\ MainOf(c, s).fields = patch.fields ++ base.fields
      /\ MainOf(c, s).env = Merged(base.env, patch.env)
      /\ MainOf(c, s).mounts = Merged(base.mounts, patch.mounts)
      /\ MainOf(c, s).ports = Merged(base.ports, patch.ports)
      /\ MainOf(c, s).probe = injectedProbe(base, DefaultProbe(c)) ++ base.probe
  BY DEF MainOf
<1>4. base.probe # <<>> => MainOf(c, s).probe = base.probe
  BY <1>3, KeptProbe
<1> HIDE DEF user, patch, p, base
<1>5. \A theirs, ours : /\ kept(theirs, ours, Merged(theirs, ours))
                        /\ kept(theirs, ours, ours ++ theirs)
  BY KeptByMerge, KeptByOverride
<1>6. user.pullSecrets \subseteq p.pullSecrets
  BY <1>1
<1> HIDE DEF kept
<1>7. /\ kept(user.volumes, patch.volumes, p.volumes)
      /\ kept(user.init, patch.init, p.init)
      /\ kept(base.env, patch.env, MainOf(c, s).env)
      /\ kept(base.mounts, patch.mounts, MainOf(c, s).mounts)
      /\ kept(base.ports, patch.ports, MainOf(c, s).ports)
      /\ kept(base.fields, patch.fields, MainOf(c, s).fields)
  BY <1>1, <1>3, <1>5
<1> QED BY <1>2, <1>4, <1>6, <1>7 DEF Survives, kept, user, patch, p, base

\* Whatever templates users write, the merge is additive: sidecars, init
\* containers, volumes, mounts, variables, ports, pull secrets and the probe of a
\* template reach the running pod as written, unless the operator has an entry of
\* the same key.
THEOREM MergeIsAdditive == Spec => []UserPartsSurvive
<1>1. ASSUME BuiltInv PROVE UserPartsSurvive
  <2>1. Running = {c \in PodNames : pods[c] # NoPod}
    BY <1>1, RunningPods DEF BuiltInv
  <2>2. ASSUME NEW c \in PodNames, pods[c] # NoPod
        PROVE  Survives(TemplateOf(c, pods[c].from), PatchOf(c, pods[c].from),
                        pods[c].podSpec)
    BY <1>1, <2>2, TemplateSurvives, SpecTemplates DEF BuiltInv
  <2> QED BY <2>1, <2>2 DEF UserPartsSurvive, Survives, TemplateOf, PatchOf
<1> QED BY <1>1, InitBuiltInv, NextBuiltInv, PTL DEF Spec

-----------------------------------------------------------------------------
(* What a pass that went through leaves behind. *)

SchedulerCurrent ==
    /\ pods["scheduler"] # NoPod
    /\ pods["scheduler"].podSpec = Wanted("scheduler", spec).podSpec

WorkersCurrent ==
    /\ pods["worker"] # NoPod <=> spec.replicas > 0
    /\ pods["worker"] # NoPod => pods["worker"].podSpec = Wanted("worker", spec).podSpec

\* The scheduler's handler leaves the right pod or another pass due; the workers'
\* handler either fails or leaves the right ones.
CurrentInv ==
    /\ BuiltInv
    /\ pc = "workers" /\ ~due => SchedulerCurrent
    /\ Settled /\ error = "none" => SchedulerCurrent /\ WorkersCurrent

LEMMA SchedulerLeaves ==
    ASSUME CurrentInv, ReconcileScheduler
    PROVE  /\ pc' = "workers" /\ ~due' => SchedulerCurrent'
           /\ ~(Settled /\ error = "none")'
<1> DEFINE pod == BuildSchedulerPodTemplate(spec)
<1>0. "scheduler" \in PodNames /\ ShapeInv /\ spec' = spec
  BY DEF PodNames, CurrentInv, BuiltInv, ReconcileScheduler
<1>1. pc' \in {"idle", "workers"} /\ (pc' = "idle" => error' = "scheduler")
  BY DEF ReconcileScheduler, SpecError
<1>2. pod = Wanted("scheduler", spec) /\ pod.podSpec # NoPod.podSpec
  BY <1>0, SomePod DEF Wanted
<1>3. CASE pods' = [pods EXCEPT !["scheduler"] = pod]
  <2>1. pods'["scheduler"] = pod
    BY <1>0, <1>3 DEF ShapeInv
  <2> HIDE DEF pod
  <2> QED BY <1>0, <1>1, <1>2, <2>1 DEF SchedulerCurrent, Settled
<1>4. CASE /\ pods["scheduler"] # NoPod
           /\ podTemplateHash(pods["scheduler"]) = podTemplateHash(pod)
           /\ pods' = [pods EXCEPT !["scheduler"].from = spec]
  <2>1. pods'["scheduler"] = [pods["scheduler"] EXCEPT !.from = spec]
    BY <1>0, <1>4 DEF ShapeInv
  <2>2. pods'["scheduler"].podSpec = pods["scheduler"].podSpec
    BY <1>0, <2>1, NotedPod DEF ShapeInv
  <2> HIDE DEF pod
  <2> QED BY <1>0, <1>1, <1>2, <1>4, <2>2 DEF SchedulerCurrent, Settled, podTemplateHash
<1>5. CASE due' \/ pc' = "idle"
  BY <1>1, <1>5 DEF Settled
<1> HIDE DEF pod
<1> QED BY <1>3, <1>4, <1>5 DEF ReconcileScheduler, SpecError, pod

LEMMA WorkersLeave ==
    ASSUME CurrentInv, ReconcileWorkerPool
    PROVE  /\ pc' = "idle"
           /\ (Settled /\ error = "none")' => (SchedulerCurrent /\ WorkersCurrent)'
<1> DEFINE pod == BuildWorkerPodTemplate(spec)
           new == CASE spec.replicas = 0 -> NoPod
                    [] spec.replicas > 0 /\ pods["worker"] # NoPod
                       /\ podTemplateHash(pods["worker"]) = podTemplateHash(pod) ->
                           [pods["worker"] EXCEPT !.from = spec]
                    [] OTHER -> pod
<1>0. /\ "scheduler" \in PodNames /\ "worker" \in PodNames /\ ShapeInv
      /\ spec' = spec /\ due' = due /\ pc = "workers" /\ IsSpec(spec)
  BY DEF PodNames, CurrentInv, BuiltInv, ReconcileWorkerPool
<1>r. spec.replicas \in Nat
  BY <1>0, FieldValuesAssumption DEF IsSpec, SpecFields
<1>1. pc' = "idle"
  BY DEF ReconcileWorkerPool, SpecError
<1> SUFFICES ASSUME (Settled /\ error = "none")'
             PROVE  (SchedulerCurrent /\ WorkersCurrent)'
  BY <1>1
<1>2. pods' = [pods EXCEPT !["worker"] = new]
  BY DEF ReconcileWorkerPool, SpecError
<1>3. pod = Wanted("worker", spec) /\ pod.podSpec # NoPod.podSpec
  BY <1>0, SomePod DEF Wanted
<1>4. pods'["worker"] = new /\ pods'["scheduler"] = pods["scheduler"]
  BY <1>0, <1>2 DEF ShapeInv
<1>5. SchedulerCurrent'
  BY <1>0, <1>4 DEF CurrentInv, SchedulerCurrent, Settled
<1>6. CASE spec.replicas = 0
  <2>1. new = NoPod
    BY <1>6
  <2> HIDE DEF new
  <2> QED BY <1>0, <1>4, <1>5, <1>6, <2>1 DEF WorkersCurrent
<1>7. CASE /\ spec.replicas > 0 /\ pods["worker"] # NoPod
           /\ podTemplateHash(pods["worker"]) = podTemplateHash(pod)
  <2>1. new = [pods["worker"] EXCEPT !.from = spec]
    BY <1>0, <1>7
  <2> HIDE DEF new, pod
  <2>2. IsPod(pods["worker"])
    BY <1>0 DEF ShapeInv
  <2>3. new.podSpec = pods["worker"].podSpec
    BY <2>1, <2>2, NotedPod
  <2> QED BY <1>0, <1>3, <1>4, <1>5, <1>7, <2>3 DEF WorkersCurrent, podTemplateHash
<1>8. CASE /\ spec.replicas > 0
           /\ ~(/\ pods["worker"] # NoPod
                /\ podTemplateHash(pods["worker"]) = podTemplateHash(pod))
  <2>1. new = pod
    BY <1>0, <1>8
  <2> HIDE DEF new, pod
  <2> QED BY <1>0, <1>3, <1>4, <1>5, <1>8, <2>1 DEF WorkersCurrent
<1> QED BY <1>6, <1>7, <1>8, <1>r

LEMMA NextCurrentInv ==
    ASSUME CurrentInv, [Next]_vars
    PROVE  CurrentInv'
<1>0. BuiltInv'
  BY NextBuiltInv DEF CurrentInv
<1>1. CASE UNCHANGED vars
  BY <1>0, <1>1 DEF CurrentInv, SchedulerCurrent, WorkersCurrent, Settled, vars
<1>2. CASE \E f \in DOMAIN FieldValues : \E v \in FieldValues[f] : Edit(f, v)
  <2>1. pc' = "idle" /\ due'
    BY <1>2 DEF Edit
  <2> QED BY <1>0, <2>1 DEF CurrentInv, Settled
<1>3. CASE Begin
  BY <1>0, <1>3 DEF CurrentInv, Begin, SpecError, Settled
<1>4. CASE ReconcileScheduler
  <2>1. spec' = spec
    BY <1>4 DEF ReconcileScheduler
  <2> QED BY <1>0, <1>4, <2>1, SchedulerLeaves DEF CurrentInv
<1>5. CASE ReconcileWorkerPool
  <2>1. spec' = spec
    BY <1>5 DEF ReconcileWorkerPool
  <2> QED BY <1>0, <1>5, <2>1, WorkersLeave DEF CurrentInv
<1> QED BY <1>1, <1>2, <1>3, <1>4, <1>5 DEF Next

LEMMA InitCurrentInv == Init => CurrentInv
<1> SUFFICES ASSUME Init PROVE CurrentInv
  OBVIOUS
<1>1. BuiltInv
  BY InitBuiltInv
<1> QED BY <1>1 DEF Init, CurrentInv, Settled

LEMMA CurrentPods ==
    ASSUME CurrentInv, Settled, error = "none"
    PROVE  PodSpecsFollow
<1>1. Running = {c \in PodNames : pods[c] # NoPod}
  BY RunningPods DEF CurrentInv, BuiltInv
<1> QED BY <1>1 DEF CurrentInv, SchedulerCurrent, WorkersCurrent, PodSpecsFollow, PodNames

\* Although a pass may end early, and the scheduler's pod is deleted in one and
\* created in another: once nothing is due and no spec error stands, a scheduler
\* runs, workers run iff any are wanted, and each has the pod spec that the
\* current cluster spec computes.
THEOREM PodSpecsAreCurrent == Spec => [](Settled /\ error = "none" => PodSpecsFollow)
<1>1. ASSUME CurrentInv PROVE Settled /\ error = "none" => PodSpecsFollow
  BY <1>1, CurrentPods
<1> QED BY <1>1, InitCurrentInv, NextCurrentInv, PTL DEF Spec

-----------------------------------------------------------------------------
(* What the operator's part of a pod says. *)

\* The contributions that are joined.
SchedulerParts(s) ==
    <<resolveClusterID(s), FieldRef("cublet", "instance_id", "metadata.name"),
      observatoryMaxMetricsBytes(s),
      String("observatory", "database_path", "/app/observatory_data"),
      Data("observatory-data", observatoryDataVolume(s), "/app/observatory_data"),
      schedulerSettings(s), schedulerLicenseConfig(s.license),
      String("scheduler", "n_workers", ToString(s.replicas)),
      computedAnonymousResultsEnv(s), checkpointPeriod(s),
      Optional(s, "cublet", "lineage"), telemetry(s), resolveLogLevel(s),
      composedRuntimeConfig(s), [Nothing EXCEPT !.ports = schedulerPorts]>>

WorkerParts(s, container) ==
    <<hostMetricsDisabled(s), resolveClusterID(s),
      FieldRef("cublet", "instance_id", "metadata.name"),
      staticLeader(s), workerHeartBeatInterval(s), Optional(s, "extras", "hdfs"),
      String("", "POLARS_TEMP_DIR", "/app/temporary_data"),
      Optional(s, "", "acceptEula"), workerLicenseConfig(s.license),
      telemetry(s), resolveLogLevel(s), cpuReserved(container),
      computedShuffleDataConfig(s), computedCheckpointDataEnv(s),
      composedRuntimeConfig(s),
      [Nothing EXCEPT !.ports = Entry("5052", [name |-> "worker-service"])],
      Data("temporary-data", computedTemporaryDataVolume(s), "/app/temporary_data")>>

\* What the operator has in an entry counts, whatever the user's entry has.
LEMMA OursInMerge ==
    ASSUME NEW theirs, NEW ours, NEW k \in DOMAIN ours, NEW x \in DOMAIN ours[k]
    PROVE  k \in DOMAIN Merged(theirs, ours) /\ Merged(theirs, ours)[k][x] = ours[k][x]
<1> DEFINE both == [y \in DOMAIN ours \cap DOMAIN theirs |-> ours[y] ++ theirs[y]]
           rest == ours ++ theirs
<1>1. Merged(theirs, ours) = both ++ rest
  BY DEF Merged
<1>2. k \in DOMAIN rest /\ rest[k] = ours[k]
  BY DEF ++
<1>3. k \in DOMAIN theirs => k \in DOMAIN both /\ both[k] = ours[k] ++ theirs[k]
  OBVIOUS
<1>4. k \notin DOMAIN theirs => k \notin DOMAIN both
  OBVIOUS
<1>5. (ours[k] ++ theirs[k])[x] = ours[k][x]
  BY DEF ++
<1> HIDE DEF both, rest
<1>6. /\ k \in DOMAIN (both ++ rest)
      /\ (both ++ rest)[k] = IF k \in DOMAIN both THEN both[k] ELSE rest[k]
  BY <1>2 DEF ++
<1> QED BY <1>1, <1>2, <1>3, <1>4, <1>5, <1>6

\* The parts of a joined contribution, and which of them counts.
LEMMA JoinedParts ==
    ASSUME NEW cs, NEW k \in DOMAIN Nothing
    PROVE  /\ DOMAIN Joined(cs)[k] = UNION {DOMAIN cs[i][k] : i \in DOMAIN cs}
           /\ \A x \in DOMAIN Joined(cs)[k] :
                 Joined(cs)[k][x] =
                     cs[CHOOSE i \in DOMAIN cs :
                            /\ x \in DOMAIN cs[i][k]
                            /\ \A j \in DOMAIN cs : x \in DOMAIN cs[j][k] => j <= i][k][x]
BY DEF Joined

LEMMA JoinedOnly ==
    ASSUME NEW cs, DOMAIN cs \subseteq Nat, NEW k \in DOMAIN Nothing,
           NEW i \in DOMAIN cs, NEW x \in DOMAIN cs[i][k],
           \A j \in DOMAIN cs : x \in DOMAIN cs[j][k] => j = i
    PROVE  x \in DOMAIN Joined(cs)[k] /\ Joined(cs)[k][x] = cs[i][k][x]
<1> DEFINE last == CHOOSE j \in DOMAIN cs :
                     /\ x \in DOMAIN cs[j][k]
                     /\ \A l \in DOMAIN cs : x \in DOMAIN cs[l][k] => l <= j
<1>1. x \in DOMAIN Joined(cs)[k]
  BY JoinedParts
<1>2. \E j \in DOMAIN cs : /\ x \in DOMAIN cs[j][k]
                           /\ \A l \in DOMAIN cs : x \in DOMAIN cs[l][k] => l <= j
  OBVIOUS
<1>3. last \in DOMAIN cs /\ x \in DOMAIN cs[last][k]
  BY <1>2
<1>4. last = i
  BY <1>3
<1>5. Joined(cs)[k][x] = cs[last][k][x]
  BY <1>1, JoinedParts
<1> QED BY <1>1, <1>4, <1>5

\* Nothing of a contribution is about where the workers' scheduler is.
NoLeader(part) == \A v : <<"static_leader", v>> \notin DOMAIN part.env

LEMMA JoinedNoLeader ==
    ASSUME NEW cs, \A i \in DOMAIN cs : NoLeader(cs[i])
    PROVE  NoLeader(Joined(cs))
<1>1. "env" \in DOMAIN Nothing
  BY DEF Nothing
<1>2. DOMAIN Joined(cs)["env"] = UNION {DOMAIN cs[i]["env"] : i \in DOMAIN cs}
  BY <1>1, JoinedParts
<1> QED BY <1>2 DEF NoLeader

LEMMA JoinedNoLeader2 ==
    ASSUME NEW a, NEW b, NoLeader(a), NoLeader(b)
    PROVE  NoLeader(Joined(<<a, b>>))
BY JoinedNoLeader

LEMMA JoinedNoLeader3 ==
    ASSUME NEW a, NEW b, NEW c, NoLeader(a), NoLeader(b), NoLeader(c)
    PROVE  NoLeader(Joined(<<a, b, c>>))
BY JoinedNoLeader

LEMMA PlainNoLeader ==
    /\ NoLeader(Nothing)
    /\ \A ports : NoLeader([Nothing EXCEPT !.ports = ports])
    /\ \A init : NoLeader([Nothing EXCEPT !.init = init])
    /\ \A fields : NoLeader([Nothing EXCEPT !.fields = fields])
    /\ \A section, leaf, value : section # "static_leader" =>
          NoLeader(String(section, leaf, value)) /\ NoLeader(FieldRef(section, leaf, value))
    /\ \A name, source : NoLeader(Volume(name, source)) /\ NoLeader(Mount(name, source))
BY DEF NoLeader, Nothing, String, FieldRef, Volume, Mount, Entry

LEMMA DataNoLeader ==
    ASSUME NEW name, NEW source, NEW path
    PROVE  NoLeader(Data(name, source, path))
BY PlainNoLeader, JoinedNoLeader2 DEF Data

LEMMA SettingNoLeader ==
    ASSUME NEW s, NEW section, section # "static_leader", NEW x
    PROVE  /\ NoLeader(Defaulted(s, section, x)) /\ NoLeader(Optional(s, section, x))
           /\ NoLeader(ValueOrSource(section, x, s))
BY PlainNoLeader DEF Defaulted, Optional, ValueOrSource

LEMMA LocationNoLeader ==
    ASSUME NEW section, section # "static_leader", NEW location
    PROVE  NoLeader(Location(section, location))
<1>1. NoLeader(Joined(<<String(section, location, "url"),
                        FieldRef(section, "option", "secret")>>))
  BY PlainNoLeader, JoinedNoLeader2
<1> QED BY <1>1, PlainNoLeader DEF Location

LEMMA RuntimeNoLeader ==
    ASSUME NEW s
    PROVE  NoLeader(composedRuntimeConfig(s))
<1>1. NoLeader(release(s))
  <2>1. \A source : NoLeader(Data("release-data", source, "/emptydir"))
    BY DataNoLeader
  <2> QED BY <2>1, PlainNoLeader, JoinedNoLeader2 DEF release
<1>2. NoLeader(requirements(s))
  <2>1. NoLeader(Data("requirements-data", EmptyDir, "/requirements"))
    BY DataNoLeader
  <2> QED BY <2>1, PlainNoLeader, JoinedNoLeader3 DEF requirements
<1>3. NoLeader(Data("tmp-data", EmptyDir, "/tmp"))
  BY DataNoLeader
<1>4. ASSUME NEW fields
      PROVE  NoLeader(Joined(<<release(s), Data("tmp-data", EmptyDir, "/tmp"),
                               String("", "UV_PATH", "/emptydir"), requirements(s),
                               [Nothing EXCEPT !.fields = fields]>>))
  <2> DEFINE cs == <<release(s), Data("tmp-data", EmptyDir, "/tmp"),
                     String("", "UV_PATH", "/emptydir"), requirements(s),
                     [Nothing EXCEPT !.fields = fields]>>
  <2>1. NoLeader(cs[3]) /\ NoLeader(cs[5])
    BY PlainNoLeader
  <2>2. DOMAIN cs = 1..5 /\ NoLeader(cs[1]) /\ NoLeader(cs[2]) /\ NoLeader(cs[4])
    BY <1>1, <1>2, <1>3
  <2> HIDE DEF cs
  <2>3. \A i \in DOMAIN cs : NoLeader(cs[i])
    BY <2>1, <2>2
  <2>4. NoLeader(Joined(cs))
    BY <2>3, JoinedNoLeader
  <2> QED BY <2>4 DEF cs
<1> QED BY <1>4, PlainNoLeader DEF composedRuntimeConfig

LEMMA LicenseNoLeader ==
    ASSUME NEW license \in LicenseSpec
    PROVE  NoLeader(workerLicenseConfig(license))
<1>1. NoLeader(enterpriseLicenseConfig)
  BY PlainNoLeader, DataNoLeader, JoinedNoLeader2 DEF enterpriseLicenseConfig
<1> QED BY <1>1, PlainNoLeader DEF workerLicenseConfig, LicenseSpec

LEMMA ShuffleNoLeader ==
    ASSUME NEW s
    PROVE  NoLeader(computedShuffleDataConfig(s))
<1>1. NoLeader(Data("shuffle-data", EmptyDir, "/app/shuffle_data"))
  BY DataNoLeader
<1>2. NoLeader(Joined(<<String("shuffle_location", "local", "/app/shuffle_data"),
                        Data("shuffle-data", EmptyDir, "/app/shuffle_data")>>))
  BY <1>1, PlainNoLeader, JoinedNoLeader2
<1>3. NoLeader(Location("shuffle_location", s.shuffle))
  BY LocationNoLeader
<1> QED BY <1>2, <1>3, PlainNoLeader, JoinedNoLeader2 DEF computedShuffleDataConfig

\* Where the operator says the scheduler is.
LEMMA LeaderPorts ==
    ASSUME NEW s
    PROVE  LET scheduler == <<"static_leader", "scheduler_port">>
               observatory == <<"static_leader", "observatory_port">>
               env == staticLeader(s).env
           IN  /\ scheduler \in DOMAIN env /\ env[scheduler] = [value |-> "5050"]
               /\ observatory \in DOMAIN env /\ env[observatory] = [value |-> "5049"]
<1> DEFINE host == IF "clusterDomain" \in s.settings THEN "internal.svc." ELSE "internal"
           cs == <<String("static_leader", "hostname", host),
                   String("static_leader", "scheduler_port", "5050"),
                   String("static_leader", "observatory_port", "5049")>>
           scheduler == <<"static_leader", "scheduler_port">>
           observatory == <<"static_leader", "observatory_port">>
<1>1. DOMAIN cs = 1..3 /\ "env" \in DOMAIN Nothing
  BY DEF Nothing
<1>2. /\ DOMAIN cs[1].env = {<<"static_leader", "hostname">>}
      /\ DOMAIN cs[2].env = {scheduler}
      /\ DOMAIN cs[3].env = {observatory}
      /\ cs[2].env[scheduler] = [value |-> "5050"]
      /\ cs[3].env[observatory] = [value |-> "5049"]
  BY DEF String, Nothing, Entry
<1> HIDE DEF cs
<1>3. /\ \A j \in DOMAIN cs : scheduler \in DOMAIN cs[j].env => j = 2
      /\ \A j \in DOMAIN cs : observatory \in DOMAIN cs[j].env => j = 3
  BY <1>1, <1>2
<1>4. scheduler \in DOMAIN Joined(cs).env /\ Joined(cs).env[scheduler] = cs[2].env[scheduler]
  BY <1>1, <1>2, <1>3, JoinedOnly
<1>5. /\ observatory \in DOMAIN Joined(cs).env
      /\ Joined(cs).env[observatory] = cs[3].env[observatory]
  BY <1>1, <1>2, <1>3, JoinedOnly
<1>6. staticLeader(s) = Joined(cs)
  BY DEF staticLeader, cs
<1> QED BY <1>2, <1>4, <1>5, <1>6

\* No other option of the worker's says anything else.
LEMMA WorkerLeader ==
    ASSUME NEW s, s.license \in LicenseSpec, NEW container, NEW v,
           <<"static_leader", v>> \in DOMAIN staticLeader(s).env
    PROVE  LET env == computedWorkerPodSpec(s, container).env
           IN  /\ <<"static_leader", v>> \in DOMAIN env
               /\ env[<<"static_leader", v>>] = staticLeader(s).env[<<"static_leader", v>>]
<1> DEFINE cs == WorkerParts(s, container)
           key == <<"static_leader", v>>
<1> USE DEF WorkerParts
<1>1. computedWorkerPodSpec(s, container) = Joined(cs)
  BY DEF computedWorkerPodSpec
<1>2. DOMAIN cs = 1..17 /\ cs[4] = staticLeader(s) /\ "env" \in DOMAIN Nothing
  BY DEF Nothing
<1>3. /\ NoLeader(cs[1]) /\ NoLeader(cs[2]) /\ NoLeader(cs[5]) /\ NoLeader(cs[6])
      /\ NoLeader(cs[8]) /\ NoLeader(cs[11])
  BY SettingNoLeader DEF hostMetricsDisabled, resolveClusterID, resolveLogLevel,
                         workerHeartBeatInterval
<1>4. NoLeader(cs[3]) /\ NoLeader(cs[7]) /\ NoLeader(cs[16]) /\ NoLeader(cs[12])
  BY PlainNoLeader DEF cpuReserved
<1>5. NoLeader(cs[9]) /\ NoLeader(cs[13]) /\ NoLeader(cs[15]) /\ NoLeader(cs[17])
  BY LicenseNoLeader, ShuffleNoLeader, RuntimeNoLeader, DataNoLeader
<1>6. NoLeader(cs[10]) /\ NoLeader(cs[14])
  BY PlainNoLeader, LocationNoLeader
     DEF telemetry, ValueOrSource, computedCheckpointDataEnv
<1> HIDE DEF cs
<1>7. \A j \in DOMAIN cs : key \in DOMAIN cs[j].env => j = 4
  <2> SUFFICES ASSUME NEW j \in DOMAIN cs, j # 4 PROVE NoLeader(cs[j])
    BY DEF NoLeader
  <2> QED BY <1>2, <1>3, <1>4, <1>5, <1>6
<1>8. key \in DOMAIN Joined(cs).env /\ Joined(cs).env[key] = cs[4].env[key]
  <2>1. /\ DOMAIN cs \subseteq Nat /\ 4 \in DOMAIN cs /\ "env" \in DOMAIN Nothing
        /\ key \in DOMAIN cs[4]["env"]
    BY <1>2
  <2>2. \A j \in DOMAIN cs : key \in DOMAIN cs[j]["env"] => j = 4
    BY <1>7
  <2> HIDE DEF key
  <2>3. key \in DOMAIN Joined(cs)["env"] /\ Joined(cs)["env"][key] = cs[4]["env"][key]
    BY <2>1, <2>2, JoinedOnly
  <2> QED BY <2>3
<1> QED BY <1>1, <1>2, <1>8

LEMMA SchedulerPortsOpen ==
    ASSUME NEW s
    PROVE  {"5051", "5050", "5049", "3001"} \subseteq DOMAIN computedSchedulerPodSpec(s).ports
<1> DEFINE cs == SchedulerParts(s)
<1> USE DEF SchedulerParts
<1>1. computedSchedulerPodSpec(s) = Joined(cs)
  BY DEF computedSchedulerPodSpec
<1>2. DOMAIN cs = 1..15 /\ cs[15]["ports"] = schedulerPorts /\ "ports" \in DOMAIN Nothing
  BY DEF Nothing
<1>3. DOMAIN schedulerPorts = {"5051", "5050", "5049", "3001"}
  BY DEF schedulerPorts, ++, Entry
<1> HIDE DEF cs
<1>4. DOMAIN Joined(cs)["ports"] = UNION {DOMAIN cs[i]["ports"] : i \in DOMAIN cs}
  BY <1>2, JoinedParts
<1>5. DOMAIN cs[15]["ports"] \subseteq DOMAIN Joined(cs)["ports"]
  BY <1>2, <1>4
<1> QED BY <1>1, <1>2, <1>3, <1>5

\* The label the Services select by, whatever labels the user's template has.
LEMMA ComponentLabel ==
    ASSUME NEW c \in PodNames, NEW s
    PROVE  Wanted(c, s).labels["component"] = c
<1>1. ASSUME NEW labels PROVE applyPodLabels(labels, s, c)["component"] = c
  <2> DEFINE own == [component |-> c] ++ labels
             version == IF distTag(s) = "" THEN <<>> ELSE [version |-> distTag(s)]
  <2>1. "component" \in DOMAIN own /\ own["component"] = c
    BY DEF ++
  <2>2. "component" \notin DOMAIN version
    OBVIOUS
  <2> HIDE DEF own, version
  <2>3. DOMAIN ([appComponent |-> c] ++ version) = {"appComponent"} \cup DOMAIN version
    BY DEF ++
  <2>4. DOMAIN standardLabels(s, c) = {"appComponent"} \cup DOMAIN version
    BY <2>3 DEF standardLabels, version
  <2>5. "component" \in DOMAIN own \ DOMAIN standardLabels(s, c)
    BY <2>1, <2>2, <2>4
  <2>6. (standardLabels(s, c) ++ own)["component"] = own["component"]
    BY <2>5, KeptByOverride
  <2> QED BY <2>1, <2>6 DEF applyPodLabels, own
<1> QED BY <1>1 DEF Wanted, BuildSchedulerPodTemplate, BuildWorkerPodTemplate, BuildPod,
                    PodNames

\* A pod keeps the label it was given, also when it is found right for another spec.
LabelInv ==
    /\ BuiltInv
    /\ \A c \in PodNames : pods[c] # NoPod => pods[c].labels["component"] = c

LEMMA NextLabelInv ==
    ASSUME LabelInv, [Next]_vars
    PROVE  LabelInv'
<1>1. BuiltInv' /\ \A c \in PodNames : Follows(c)
  BY NextBuiltInv, PodsFollow DEF LabelInv, BuiltInv
<1>2. ASSUME NEW c \in PodNames, pods'[c] # NoPod
      PROVE  pods'[c].labels["component"] = c
  BY <1>1, <1>2, ComponentLabel DEF Follows, LabelInv
<1> QED BY <1>1, <1>2 DEF LabelInv

\* The ports of either pod, in terms of its main container.
LEMMA SchedulerReachable ==
    ASSUME NEW s, IsSpec(s)
    PROVE  UNION {desiredServices[n] : n \in DOMAIN desiredServices}
              \subseteq DOMAIN MainOf("scheduler", s).ports
<1> DEFINE ours == computedSchedulerPodSpec(s).ports
           theirs == FirstContainer(s.schedulerTemplate).ports
<1>1. MainOf("scheduler", s).ports = Merged(theirs, ours)
  BY DEF MainOf, PatchOf, TemplateOf
<1>2. {"5051", "5050", "5049", "3001"} \subseteq DOMAIN ours
  BY SchedulerPortsOpen
<1> HIDE DEF ours, theirs
<1>3. DOMAIN ours \subseteq DOMAIN Merged(theirs, ours)
  BY DEF Merged, ++
<1>4. UNION {desiredServices[n] : n \in DOMAIN desiredServices}
         \subseteq {"5051", "5050", "5049", "3001"}
  BY DEF desiredServices
<1> QED BY <1>1, <1>2, <1>3, <1>4

LEMMA WorkerFindsScheduler ==
    ASSUME NEW s, IsSpec(s)
    PROVE  {MainOf("worker", s).env[<<"static_leader", v>>]["value"] :
               v \in {"scheduler_port", "observatory_port"}}
              = desiredServices["internal"]
<1> DEFINE base == FirstContainer(s.workerTemplate)
           ours == computedWorkerPodSpec(s, base).env
           scheduler == <<"static_leader", "scheduler_port">>
           observatory == <<"static_leader", "observatory_port">>
<1>1. MainOf("worker", s).env = Merged(base.env, ours)
  BY DEF MainOf, PatchOf, TemplateOf
<1>2. s.license \in LicenseSpec
  BY FieldValuesAssumption DEF IsSpec, SpecFields
<1>3. /\ scheduler \in DOMAIN ours /\ ours[scheduler] = [value |-> "5050"]
      /\ observatory \in DOMAIN ours /\ ours[observatory] = [value |-> "5049"]
  <2>1. /\ scheduler \in DOMAIN staticLeader(s).env
        /\ staticLeader(s).env[scheduler] = [value |-> "5050"]
        /\ observatory \in DOMAIN staticLeader(s).env
        /\ staticLeader(s).env[observatory] = [value |-> "5049"]
    BY LeaderPorts
  <2>2. scheduler \in DOMAIN ours /\ ours[scheduler] = staticLeader(s).env[scheduler]
    BY <1>2, <2>1, WorkerLeader
  <2>3. observatory \in DOMAIN ours /\ ours[observatory] = staticLeader(s).env[observatory]
    BY <1>2, <2>1, WorkerLeader
  <2> QED BY <2>1, <2>2, <2>3
<1> HIDE DEF ours
<1>4. /\ Merged(base.env, ours)[scheduler]["value"] = "5050"
      /\ Merged(base.env, ours)[observatory]["value"] = "5049"
  <2>1. "value" \in DOMAIN ours[scheduler] /\ "value" \in DOMAIN ours[observatory]
    BY <1>3
  <2> HIDE DEF scheduler, observatory, base
  <2> QED BY <1>3, <2>1, OursInMerge
<1>5. desiredServices["internal"] = {"5050", "5049"}
  BY DEF desiredServices
<1> QED BY <1>1, <1>4, <1>5

\* Whatever labels, ports and variables the users' templates have: the Services
\* select the scheduler's pod and no worker, their ports are open on it, and the
\* workers look for scheduler and observatory at ports of the internal Service.
THEOREM SchedulerIsReached == Spec => []TrafficReachesScheduler
<1>1. ASSUME Init PROVE LabelInv
  <2>1. BuiltInv
    BY <1>1, InitBuiltInv
  <2> QED BY <1>1, <2>1 DEF Init, LabelInv, PodNames
<1>2. ASSUME LabelInv, [Next]_vars PROVE LabelInv'
  BY <1>2, NextLabelInv
<1>3. ASSUME LabelInv PROVE TrafficReachesScheduler
  <2>1. Running = {c \in PodNames : pods[c] # NoPod}
    BY <1>3, RunningPods DEF LabelInv, BuiltInv
  <2>2. ASSUME NEW c \in PodNames, pods[c] # NoPod
        PROVE  /\ pods[c].labels["component"] = c
               /\ IsSpec(pods[c].from)
               /\ Head(pods[c].podSpec.containers) = MainOf(c, pods[c].from)
    BY <1>3, <2>2, MainIsFirst, SpecTemplates DEF LabelInv, BuiltInv
  <2>3. ASSUME NEW c \in Running
        PROVE  LET main == Head(pods[c].podSpec.containers) IN
               /\ pods[c].labels["component"] = selector["component"] <=> c = "scheduler"
               /\ c = "scheduler" =>
                     UNION {desiredServices[n] : n \in DOMAIN desiredServices}
                         \subseteq DOMAIN main.ports
               /\ c = "worker" =>
                     {main.env[<<"static_leader", v>>]["value"] :
                          v \in {"scheduler_port", "observatory_port"}}
                         = desiredServices["internal"]
    <3>1. /\ pods[c].labels["component"] = c /\ IsSpec(pods[c].from)
          /\ Head(pods[c].podSpec.containers) = MainOf(c, pods[c].from)
      BY <2>1, <2>2, <2>3
    <3>2. pods[c].labels["component"] = selector["component"] <=> c = "scheduler"
      BY <3>1 DEF selector
    <3>3. CASE c = "scheduler"
      BY <3>1, <3>2, <3>3, SchedulerReachable
    <3>4. CASE c = "worker"
      BY <3>1, <3>2, <3>4, WorkerFindsScheduler
    <3> QED BY <2>1, <2>3, <3>3, <3>4 DEF PodNames
  <2> QED BY <2>3 DEF TrafficReachesScheduler
<1> QED BY <1>1, <1>2, <1>3, PTL DEF Spec

-----------------------------------------------------------------------------
(* What each option contributes. *)

LEMMA Lowest ==
    ASSUME NEW T \in SUBSET Nat, T # {}
    PROVE  \E i \in T : \A j \in T : i <= j
<1> DEFINE R == OpToRel(<, Nat)
<1>1. IsWellFoundedOn(R, Nat)
  BY NatLessThanWellFounded
<1>2. \A i, j \in Nat : <<i, j>> \in R <=> i < j
  BY DEF OpToRel
<1> HIDE DEF R
<1>3. PICK x \in T : \A y \in T : ~(<<y, x>> \in R)
  BY <1>1, WFMin
<1>4. \A y \in T : ~(y < x)
  BY <1>2, <1>3
<1> QED BY <1>4

LEMMA Highest ==
    ASSUME NEW n \in Nat, NEW T \in SUBSET (1..n), T # {}
    PROVE  \E i \in T : \A j \in T : j <= i
<1> DEFINE U == {n - i : i \in T}
<1>1. U # {}
  OBVIOUS
<1>2. \A i \in T : n - i \in Nat
  OBVIOUS
<1>3. U \in SUBSET Nat
  BY <1>2
<1>4. \E i \in U : \A j \in U : i <= j
  <2> HIDE DEF U
  <2> QED BY <1>1, <1>3, Lowest
<1> QED BY <1>4

\* Whatever counts of a joined list is an entry of one of its members.
LEMMA JoinedEntry ==
    ASSUME NEW cs, NEW n \in Nat, DOMAIN cs = 1..n, NEW k \in DOMAIN Nothing,
           NEW x \in DOMAIN Joined(cs)[k]
    PROVE  \E i \in DOMAIN cs : x \in DOMAIN cs[i][k] /\ Joined(cs)[k][x] = cs[i][k][x]
<1> DEFINE T == {i \in DOMAIN cs : x \in DOMAIN cs[i][k]}
           last == CHOOSE i \in DOMAIN cs :
                     /\ x \in DOMAIN cs[i][k]
                     /\ \A j \in DOMAIN cs : x \in DOMAIN cs[j][k] => j <= i
<1>1. T # {}
  BY JoinedParts
<1>2. T \in SUBSET (1..n)
  OBVIOUS
<1>3. \E i \in T : \A j \in T : j <= i
  <2> HIDE DEF T
  <2> QED BY <1>1, <1>2, Highest
<1>4. \E i \in DOMAIN cs : /\ x \in DOMAIN cs[i][k]
                           /\ \A j \in DOMAIN cs : x \in DOMAIN cs[j][k] => j <= i
  BY <1>3
<1>5. last \in DOMAIN cs /\ x \in DOMAIN cs[last][k]
  BY <1>4
<1>6. Joined(cs)[k][x] = cs[last][k][x]
  BY JoinedParts
<1> QED BY <1>5, <1>6

\* An entry of one field.
Lone(entry) == \E x : DOMAIN entry = {x}

\* The operator's ports, and the directory each of the path variables names.
PortNames ==
    [k \in {"5051", "5050", "5049", "3001", "5052", "5053"} |->
        CASE k = "5051" -> "sched" [] k = "5050" -> "worker-sched"
          [] k = "5049" -> "obser-grpc" [] k = "3001" -> "obser-rest"
          [] k = "5052" -> "worker-service" [] k = "5053" -> "worker-flight"]

PathOf(v) ==
    CASE v = <<"observatory", "database_path">> -> "/app/observatory_data"
      [] v = <<"on_prem", "cert_dir">> -> "/mnt/license_data"
      [] v = <<"license", "license_path">> -> "/mnt/license/"
      [] v = <<"cloud", "cert_dir">> -> "/mnt/cloud_license/"
      [] v = <<"shuffle_location", "local">> -> "/app/shuffle_data"
      [] v = <<"", "POLARS_TEMP_DIR">> -> "/app/temporary_data"
      [] v = <<"", "PYTHON_REQUIREMENTS">> -> "/requirements"
      [] v = <<"", "UV_PATH">> -> "/emptydir"

\* One source each, a volume for every mount, known ports and known paths.
Sound(part) ==
    /\ \A k \in DOMAIN part.env : Lone(part.env[k])
    /\ \A k \in DOMAIN part.volumes : Lone(part.volumes[k])
    /\ \A m \in DOMAIN part.mounts :
          "name" \in DOMAIN part.mounts[m] /\ part.mounts[m]["name"] \in DOMAIN part.volumes
    /\ \A k \in DOMAIN part.ports :
          k \in DOMAIN PortNames /\ part.ports[k] = [name |-> PortNames[k]]
    /\ \A v \in PathVars \cap DOMAIN part.env : part.env[v] = [value |-> PathOf(v)]

LEMMA JoinedSound ==
    ASSUME NEW cs, NEW n \in Nat, DOMAIN cs = 1..n, \A i \in DOMAIN cs : Sound(cs[i])
    PROVE  Sound(Joined(cs))
<1> DEFINE J == Joined(cs)
<1>1. {"env", "volumes", "mounts", "ports"} \subseteq DOMAIN Nothing
  BY DEF Nothing
<1>2. \A k \in DOMAIN Nothing : \A x \in DOMAIN J[k] :
         \E i \in DOMAIN cs : x \in DOMAIN cs[i][k] /\ J[k][x] = cs[i][k][x]
  BY JoinedEntry
<1>3. \A k \in DOMAIN Nothing : \A i \in DOMAIN cs : DOMAIN cs[i][k] \subseteq DOMAIN J[k]
  BY JoinedParts
<1> HIDE DEF J
<1>4. /\ \A x \in DOMAIN J.env :
            \E i \in DOMAIN cs : x \in DOMAIN cs[i].env /\ J.env[x] = cs[i].env[x]
      /\ \A x \in DOMAIN J.volumes :
            \E i \in DOMAIN cs : x \in DOMAIN cs[i].volumes /\ J.volumes[x] = cs[i].volumes[x]
      /\ \A x \in DOMAIN J.mounts :
            \E i \in DOMAIN cs : x \in DOMAIN cs[i].mounts /\ J.mounts[x] = cs[i].mounts[x]
      /\ \A x \in DOMAIN J.ports :
            \E i \in DOMAIN cs : x \in DOMAIN cs[i].ports /\ J.ports[x] = cs[i].ports[x]
      /\ \A i \in DOMAIN cs : DOMAIN cs[i].volumes \subseteq DOMAIN J.volumes
  BY <1>1, <1>2, <1>3
<1>5. /\ \A k \in DOMAIN J.env : Lone(J.env[k])
      /\ \A v \in PathVars \cap DOMAIN J.env : J.env[v] = [value |-> PathOf(v)]
  BY <1>4 DEF Sound
<1>6. \A k \in DOMAIN J.volumes : Lone(J.volumes[k])
  BY <1>4 DEF Sound
<1>7. \A m \in DOMAIN J.mounts :
         "name" \in DOMAIN J.mounts[m] /\ J.mounts[m]["name"] \in DOMAIN J.volumes
  BY <1>4 DEF Sound
<1>8. \A k \in DOMAIN J.ports :
         k \in DOMAIN PortNames /\ J.ports[k] = [name |-> PortNames[k]]
  BY <1>4 DEF Sound
<1> QED BY <1>5, <1>6, <1>7, <1>8 DEF Sound, J

LEMMA JoinedSound2 ==
    ASSUME NEW a, NEW b, Sound(a), Sound(b)
    PROVE  Sound(Joined(<<a, b>>))
<1> DEFINE cs == <<a, b>>
<1>1. DOMAIN cs = 1..2 /\ \A i \in DOMAIN cs : Sound(cs[i])
  OBVIOUS
<1> HIDE DEF cs
<1>2. Sound(Joined(cs))
  BY <1>1, JoinedSound
<1> QED BY <1>2 DEF cs

LEMMA JoinedSound3 ==
    ASSUME NEW a, NEW b, NEW c, Sound(a), Sound(b), Sound(c)
    PROVE  Sound(Joined(<<a, b, c>>))
<1> DEFINE cs == <<a, b, c>>
<1>1. DOMAIN cs = 1..3 /\ \A i \in DOMAIN cs : Sound(cs[i])
  OBVIOUS
<1> HIDE DEF cs
<1>2. Sound(Joined(cs))
  BY <1>1, JoinedSound
<1> QED BY <1>2 DEF cs

LEMMA PlainSound ==
    /\ Sound(Nothing)
    /\ \A init : Sound([Nothing EXCEPT !.init = init])
    /\ \A fields : Sound([Nothing EXCEPT !.fields = fields])
BY DEF Sound, Nothing

LEMMA VariableSound ==
    ASSUME NEW section, NEW leaf, NEW value,
           <<section, leaf>> \in PathVars => value = PathOf(<<section, leaf>>)
    PROVE  /\ Sound(String(section, leaf, value))
           /\ <<section, leaf>> \notin PathVars => Sound(FieldRef(section, leaf, value))
<1>1. \A x : Lone([value |-> x]) /\ Lone([valueFrom |-> x])
  BY DEF Lone
<1> QED BY <1>1 DEF Sound, Nothing, String, FieldRef, Entry

LEMMA DataSound ==
    ASSUME NEW name, NEW source, Lone(source), NEW path
    PROVE  /\ Sound(Data(name, source, path))
           /\ DOMAIN Data(name, source, path).env = {}
           /\ DOMAIN Data(name, source, path).mounts = {path}
<1> DEFINE cs == <<Volume(name, source), Mount(name, path)>>
           J == Joined(cs)
<1>1. {"env", "volumes", "mounts", "ports"} \subseteq DOMAIN Nothing /\ DOMAIN cs = 1..2
  BY DEF Nothing
<1>2. /\ DOMAIN cs[1].env = {} /\ DOMAIN cs[2].env = {}
      /\ DOMAIN cs[1].ports = {} /\ DOMAIN cs[2].ports = {}
      /\ DOMAIN cs[1].volumes = {name} /\ DOMAIN cs[2].volumes = {}
      /\ DOMAIN cs[1].mounts = {} /\ DOMAIN cs[2].mounts = {path}
      /\ cs[1].volumes[name] = source /\ cs[2].mounts[path] = [name |-> name]
  BY DEF Volume, Mount, Nothing, Entry
<1> HIDE DEF cs
<1>3. \A k \in DOMAIN Nothing : DOMAIN J[k] = UNION {DOMAIN cs[i][k] : i \in DOMAIN cs}
  BY JoinedParts
<1>4. /\ DOMAIN J["env"] = {} /\ DOMAIN J["ports"] = {}
      /\ DOMAIN J["volumes"] = {name} /\ DOMAIN J["mounts"] = {path}
  BY <1>1, <1>2, <1>3
<1>5. J["volumes"][name] = source /\ J["mounts"][path] = [name |-> name]
  BY <1>1, <1>2, JoinedOnly
<1> HIDE DEF J
<1>6. Sound(J)
  BY <1>4, <1>5 DEF Sound
<1>7. Data(name, source, path) = J
  BY DEF Data, J, cs
<1> QED BY <1>4, <1>6, <1>7

\* Sound, and with every path it tells of mounted.
Backed(part) ==
    /\ Sound(part)
    /\ \A v \in PathVars \cap DOMAIN part.env : PathOf(v) \in DOMAIN part.mounts

LEMMA JoinedBacked ==
    ASSUME NEW cs, NEW n \in Nat, DOMAIN cs = 1..n, \A i \in DOMAIN cs : Sound(cs[i]),
           \A i \in DOMAIN cs : \A v \in PathVars \cap DOMAIN cs[i].env :
               \E j \in DOMAIN cs : PathOf(v) \in DOMAIN cs[j].mounts
    PROVE  /\ Backed(Joined(cs))
           /\ \A i \in DOMAIN cs : DOMAIN cs[i].mounts \subseteq DOMAIN Joined(cs).mounts
<1>1. "env" \in DOMAIN Nothing /\ "mounts" \in DOMAIN Nothing
  BY DEF Nothing
<1>2. /\ DOMAIN Joined(cs)["env"] = UNION {DOMAIN cs[i]["env"] : i \in DOMAIN cs}
      /\ DOMAIN Joined(cs)["mounts"] = UNION {DOMAIN cs[i]["mounts"] : i \in DOMAIN cs}
  BY <1>1, JoinedParts
<1>3. Sound(Joined(cs))
  BY JoinedSound
<1>4. \A v \in PathVars \cap DOMAIN Joined(cs).env : PathOf(v) \in DOMAIN Joined(cs).mounts
  BY <1>2
<1>5. \A i \in DOMAIN cs : DOMAIN cs[i].mounts \subseteq DOMAIN Joined(cs).mounts
  BY <1>2
<1> QED BY <1>3, <1>4, <1>5 DEF Backed

LEMMA AllBacked ==
    ASSUME NEW cs, NEW n \in Nat, DOMAIN cs = 1..n, \A i \in DOMAIN cs : Backed(cs[i])
    PROVE  /\ Backed(Joined(cs))
           /\ \A i \in DOMAIN cs : DOMAIN cs[i].mounts \subseteq DOMAIN Joined(cs).mounts
BY JoinedBacked DEF Backed

LEMMA BothBacked ==
    ASSUME NEW a, NEW b, Backed(a), Backed(b)
    PROVE  /\ Backed(Joined(<<a, b>>))
           /\ DOMAIN a.mounts \subseteq DOMAIN Joined(<<a, b>>).mounts
<1> DEFINE cs == <<a, b>>
<1>1. DOMAIN cs = 1..2 /\ cs[1] = a /\ \A i \in DOMAIN cs : Backed(cs[i])
  OBVIOUS
<1> HIDE DEF cs
<1>2. /\ Backed(Joined(cs))
      /\ \A i \in DOMAIN cs : DOMAIN cs[i].mounts \subseteq DOMAIN Joined(cs).mounts
  BY <1>1, AllBacked
<1> QED BY <1>1, <1>2 DEF cs

\* A path variable and the volume for it, among other things.
LEMMA PathBacked ==
    ASSUME NEW cs, NEW n \in Nat, DOMAIN cs = 1..n, NEW i \in DOMAIN cs,
           NEW j \in DOMAIN cs, Sound(cs[i]), NEW v, DOMAIN cs[i].env = {v},
           PathOf(v) \in DOMAIN cs[j].mounts,
           \A l \in DOMAIN cs : l # i => Backed(cs[l])
    PROVE  Backed(Joined(cs))
<1>1. \A l \in DOMAIN cs : Sound(cs[l])
  BY DEF Backed
<1>2. \A l \in DOMAIN cs : \A w \in PathVars \cap DOMAIN cs[l].env :
         \E k \in DOMAIN cs : PathOf(w) \in DOMAIN cs[k].mounts
  BY DEF Backed
<1> QED BY <1>1, <1>2, JoinedBacked

LEMMA PlainBacked ==
    /\ Backed(Nothing)
    /\ \A init : Backed([Nothing EXCEPT !.init = init])
    /\ \A fields : Backed([Nothing EXCEPT !.fields = fields])
<1>1. /\ DOMAIN Nothing.env = {}
      /\ \A init : DOMAIN [Nothing EXCEPT !.init = init].env = {}
      /\ \A fields : DOMAIN [Nothing EXCEPT !.fields = fields].env = {}
  BY DEF Nothing
<1> QED BY <1>1, PlainSound DEF Backed

LEMMA PortBacked ==
    ASSUME NEW ports, \A k \in DOMAIN ports :
                         k \in DOMAIN PortNames /\ ports[k] = [name |-> PortNames[k]]
    PROVE  Backed([Nothing EXCEPT !.ports = ports])
BY DEF Backed, Sound, Nothing

LEMMA DataBacked ==
    ASSUME NEW name, NEW source, Lone(source), NEW path
    PROVE  /\ Backed(Data(name, source, path))
           /\ DOMAIN Data(name, source, path).mounts = {path}
<1> DEFINE part == Data(name, source, path)
<1>1. Sound(part) /\ DOMAIN part.env = {} /\ DOMAIN part.mounts = {path}
  BY DataSound
<1> HIDE DEF part
<1>2. Backed(part)
  BY <1>1 DEF Backed
<1> QED BY <1>1, <1>2 DEF part

LEMMA VariableBacked ==
    ASSUME NEW section, NEW leaf, <<section, leaf>> \notin PathVars, NEW value
    PROVE  Backed(String(section, leaf, value)) /\ Backed(FieldRef(section, leaf, value))
<1>1. /\ DOMAIN String(section, leaf, value).env = {<<section, leaf>>}
      /\ DOMAIN FieldRef(section, leaf, value).env = {<<section, leaf>>}
  BY DEF String, FieldRef, Nothing, Entry
<1>2. Sound(String(section, leaf, value)) /\ Sound(FieldRef(section, leaf, value))
  BY VariableSound
<1> QED BY <1>1, <1>2 DEF Backed

LEMMA SettingBacked ==
    ASSUME NEW s, NEW section, NEW leaf, <<section, leaf>> \notin PathVars
    PROVE  /\ Backed(Defaulted(s, section, leaf)) /\ Backed(Optional(s, section, leaf))
           /\ Backed(ValueOrSource(section, leaf, s))
BY PlainBacked, VariableBacked DEF Defaulted, Optional, ValueOrSource

LEMMA PathVariable ==
    ASSUME NEW section, NEW leaf, NEW path, path = PathOf(<<section, leaf>>)
    PROVE  /\ Sound(String(section, leaf, path))
           /\ DOMAIN String(section, leaf, path).env = {<<section, leaf>>}
<1>1. DOMAIN String(section, leaf, path).env = {<<section, leaf>>}
  BY DEF String, Nothing, Entry
<1> QED BY <1>1, VariableSound

LEMMA Paths ==
    /\ PathOf(<<"observatory", "database_path">>) = "/app/observatory_data"
    /\ PathOf(<<"on_prem", "cert_dir">>) = "/mnt/license_data"
    /\ PathOf(<<"license", "license_path">>) = "/mnt/license/"
    /\ PathOf(<<"cloud", "cert_dir">>) = "/mnt/cloud_license/"
    /\ PathOf(<<"shuffle_location", "local">>) = "/app/shuffle_data"
    /\ PathOf(<<"", "POLARS_TEMP_DIR">>) = "/app/temporary_data"
    /\ PathOf(<<"", "PYTHON_REQUIREMENTS">>) = "/requirements"
    /\ PathOf(<<"", "UV_PATH">>) = "/emptydir"
BY DEF PathOf

LEMMA Sources ==
    /\ Lone(EmptyDir)
    /\ \A x : /\ Lone([image |-> x]) /\ Lone([secret |-> x])
              /\ Lone(pvcRefVolume(x)) /\ Lone(ephemeralClaimVolume(x))
BY DEF Lone, EmptyDir, pvcRefVolume, ephemeralClaimVolume

LEMMA LocationBacked ==
    ASSUME NEW section \in {"anonymous_result_location", "checkpoint_location",
                            "shuffle_location"}, NEW location
    PROVE  Backed(Location(section, location))
<1>1. \A leaf \in {"s3", "abs", "gcs", "shared", "localPath", "option"} :
         <<section, leaf>> \notin PathVars
  BY DEF PathVars
<1>2. CASE location \in {"s3", "abs", "gcs"}
  <2>1. /\ Backed(String(section, location, "url"))
        /\ Backed(FieldRef(section, "option", "secret"))
    BY <1>1, <1>2, VariableBacked
  <2> QED BY <1>2, <2>1, BothBacked DEF Location
<1>3. CASE location \in {"shared", "localPath"}
  <2>1. Backed(String(section, location, "user's path"))
    BY <1>1, <1>3, VariableBacked
  <2> QED BY <1>3, <2>1 DEF Location
<1>4. CASE location \notin {"s3", "abs", "gcs", "shared", "localPath"}
  BY <1>4, PlainBacked DEF Location
<1> QED BY <1>2, <1>3, <1>4

LEMMA ReleaseBacked ==
    ASSUME NEW s
    PROVE  Backed(release(s)) /\ "/emptydir" \in DOMAIN release(s).mounts
<1>1. \A source : Lone(source) =>
         /\ Backed(Data("release-data", source, "/emptydir"))
         /\ "/emptydir" \in DOMAIN Data("release-data", source, "/emptydir").mounts
  BY DataBacked
<1>2. CASE s.imageVolume
  BY <1>1, <1>2, Sources DEF release
<1>3. CASE ~s.imageVolume
  <2> DEFINE a == Data("release-data", EmptyDir, "/emptydir")
             b == [Nothing EXCEPT !.init = [release |-> [image |-> <<"dist", distTag(s)>>]]]
  <2>1. Backed(a) /\ Backed(b) /\ "/emptydir" \in DOMAIN a.mounts
    BY <1>1, Sources, PlainBacked
  <2>2. release(s) = Joined(<<a, b>>)
    BY <1>3 DEF release
  <2> HIDE DEF a, b
  <2>3. Backed(Joined(<<a, b>>)) /\ DOMAIN a.mounts \subseteq DOMAIN Joined(<<a, b>>).mounts
    BY <2>1, BothBacked
  <2> QED BY <2>1, <2>2, <2>3
<1> QED BY <1>2, <1>3

LEMMA RequirementsBacked ==
    ASSUME NEW s
    PROVE  Backed(requirements(s))
<1> DEFINE v == <<"", "PYTHON_REQUIREMENTS">>
           cs == <<Data("requirements-data", EmptyDir, "/requirements"),
                   String("", "PYTHON_REQUIREMENTS", "/requirements"),
                   [Nothing EXCEPT !.init =
                        [requirements |-> [image |-> <<"python", s.pythonTag>>]]]>>
<1>1. DOMAIN cs = 1..3 /\ Backed(cs[3])
  BY PlainBacked
<1>2. Backed(cs[1]) /\ PathOf(v) \in DOMAIN cs[1].mounts
  BY DataBacked, Sources, Paths
<1>3. Sound(cs[2]) /\ DOMAIN cs[2].env = {v}
  BY PathVariable, Paths
<1> HIDE DEF cs, v
<1>4. Backed(Joined(cs))
  <2>1. \A l \in DOMAIN cs : l # 2 => Backed(cs[l])
    BY <1>1, <1>2
  <2>2. 1 \in DOMAIN cs /\ 2 \in DOMAIN cs
    BY <1>1
  <2> QED BY <1>1, <1>2, <1>3, <2>1, <2>2, PathBacked
<1> QED BY <1>4, PlainBacked DEF requirements, cs

LEMMA RuntimeBacked ==
    ASSUME NEW s
    PROVE  Backed(composedRuntimeConfig(s))
<1> DEFINE v == <<"", "UV_PATH">>
           cs == <<release(s), Data("tmp-data", EmptyDir, "/tmp"),
                   String("", "UV_PATH", "/emptydir"), requirements(s),
                   [Nothing EXCEPT !.fields =
                        [image |-> <<"python", s.pythonTag>>,
                         command |-> "/emptydir", workingDir |-> "/tmp"]]>>
<1>1. DOMAIN cs = 1..5 /\ Backed(cs[5])
  BY PlainBacked
<1>2. Backed(cs[1]) /\ PathOf(v) \in DOMAIN cs[1].mounts
  BY ReleaseBacked, Paths
<1>3. Backed(cs[2])
  BY DataBacked, Sources
<1>4. Backed(cs[4])
  BY RequirementsBacked
<1>5. Sound(cs[3]) /\ DOMAIN cs[3].env = {v}
  BY PathVariable, Paths
<1> HIDE DEF cs, v
<1>6. Backed(Joined(cs))
  <2>1. \A l \in DOMAIN cs : l # 3 => Backed(cs[l])
    BY <1>1, <1>2, <1>3, <1>4
  <2>2. 1 \in DOMAIN cs /\ 3 \in DOMAIN cs
    BY <1>1
  <2> QED BY <1>1, <1>2, <1>5, <2>1, <2>2, PathBacked
<1> QED BY <1>6, PlainBacked DEF composedRuntimeConfig, cs

LEMMA EnterpriseBacked == Backed(enterpriseLicenseConfig)
<1> DEFINE v == <<"license", "license_path">>
           cs == <<Data("license", [secret |-> "license"], "/mnt/license/"),
                   String("license", "license_path", "/mnt/license/")>>
<1>1. DOMAIN cs = 1..2
  OBVIOUS
<1>2. Backed(cs[1]) /\ PathOf(v) \in DOMAIN cs[1].mounts
  <2>1. Lone([secret |-> "license"])
    BY Sources
  <2> QED BY <2>1, DataBacked, Paths
<1>3. Sound(cs[2]) /\ DOMAIN cs[2].env = {v}
  BY PathVariable, Paths
<1> HIDE DEF cs, v
<1>4. Backed(Joined(cs))
  <2>1. \A l \in DOMAIN cs : l # 2 => Backed(cs[l])
    BY <1>1, <1>2
  <2>2. 1 \in DOMAIN cs /\ 2 \in DOMAIN cs
    BY <1>1
  <2> QED BY <1>1, <1>2, <1>3, <2>1, <2>2, PathBacked
<1> QED BY <1>4 DEF enterpriseLicenseConfig, cs

LEMMA OnPremBacked ==
    ASSUME NEW license
    PROVE  Backed(Joined(<<ValueOrSource("on_prem", "client_id", license.credentials),
                           String("on_prem", "cert_dir", "/mnt/license_data"),
                           Data("license-data",
                                IF license.claim = "" THEN EmptyDir
                                ELSE pvcRefVolume(license.claim),
                                "/mnt/license_data")>>))
<1> DEFINE v == <<"on_prem", "cert_dir">>
           source == IF license.claim = "" THEN EmptyDir ELSE pvcRefVolume(license.claim)
           cs == <<ValueOrSource("on_prem", "client_id", license.credentials),
                   String("on_prem", "cert_dir", "/mnt/license_data"),
                   Data("license-data", source, "/mnt/license_data")>>
<1>1. DOMAIN cs = 1..3
  OBVIOUS
<1>2. Backed(cs[1])
  <2>1. <<"on_prem", "client_id">> \notin PathVars
    BY DEF PathVars
  <2> QED BY <2>1, SettingBacked
<1>3. Sound(cs[2]) /\ DOMAIN cs[2].env = {v}
  BY PathVariable, Paths
<1>4. Lone(source)
  BY Sources
<1> HIDE DEF source
<1>5. Backed(cs[3]) /\ PathOf(v) \in DOMAIN cs[3].mounts
  BY <1>4, DataBacked, Paths
<1> HIDE DEF cs, v
<1>6. Backed(Joined(cs))
  <2>1. \A l \in DOMAIN cs : l # 2 => Backed(cs[l])
    BY <1>1, <1>2, <1>5
  <2>2. 2 \in DOMAIN cs /\ 3 \in DOMAIN cs
    BY <1>1
  <2> QED BY <1>1, <1>3, <1>5, <2>1, <2>2, PathBacked
<1> QED BY <1>6 DEF cs, source

LEMMA CloudBacked ==
    ASSUME NEW license
    PROVE  Backed(Joined(<<cloudLicenseEnv(license), cloudLicenseConfig>>))
<1> DEFINE v == <<"cloud", "cert_dir">>
           node == IF license.registerNode
                   THEN ValueOrSource("cloud", "private_address", license.credentials)
                   ELSE Nothing
           env == <<String("cloud", "cert_dir", "/mnt/cloud_license/"), node>>
           cs == <<cloudLicenseEnv(license), cloudLicenseConfig>>
<1>1. Backed(node)
  <2>1. <<"cloud", "private_address">> \notin PathVars
    BY DEF PathVars
  <2> QED BY <2>1, SettingBacked, PlainBacked
<1>2. Sound(env[1]) /\ DOMAIN env[1].env = {v}
  BY PathVariable, Paths
<1>3. PathVars \cap DOMAIN node.env = {}
  <2>1. <<"cloud", "private_address">> \notin PathVars
    BY DEF PathVars
  <2>2. DOMAIN node.env \subseteq {<<"cloud", "private_address">>}
    BY DEF ValueOrSource, String, FieldRef, Nothing, Entry
  <2> QED BY <2>1, <2>2
<1> HIDE DEF node
<1>4. /\ DOMAIN env = 1..2 /\ env[2] = node /\ cloudLicenseEnv(license) = Joined(env)
  BY DEF cloudLicenseEnv, node
<1> HIDE DEF env
<1>5. Sound(Joined(env))
  <2>1. \A i \in DOMAIN env : Sound(env[i])
    BY <1>1, <1>2, <1>4 DEF Backed
  <2> QED BY <1>4, <2>1, JoinedSound
<1>6. PathVars \cap DOMAIN Joined(env).env \subseteq {v}
  <2>1. "env" \in DOMAIN Nothing
    BY DEF Nothing
  <2>2. DOMAIN Joined(env)["env"] = UNION {DOMAIN env[i]["env"] : i \in DOMAIN env}
    BY <2>1, JoinedParts
  <2>3. \A x \in DOMAIN Joined(env)["env"] :
           x \in DOMAIN env[1]["env"] \/ x \in DOMAIN env[2]["env"]
    BY <1>4, <2>2
  <2> QED BY <1>2, <1>3, <1>4, <2>3
<1>7. Backed(cloudLicenseConfig) /\ PathOf(v) \in DOMAIN cloudLicenseConfig.mounts
  <2>1. Lone([secret |-> "certificate"])
    BY Sources
  <2> QED BY <2>1, DataBacked, Paths DEF cloudLicenseConfig
<1>8. DOMAIN cs = 1..2 /\ cs[1] = Joined(env) /\ cs[2] = cloudLicenseConfig
  BY <1>4
<1> HIDE DEF cs, v
<1>9. Backed(Joined(cs))
  <2>1. \A i \in DOMAIN cs : Sound(cs[i])
    BY <1>5, <1>7, <1>8 DEF Backed
  <2>2. 2 \in DOMAIN cs /\ PathOf(v) \in DOMAIN cs[2].mounts
    BY <1>7, <1>8
  <2>3. \A i \in DOMAIN cs : \A w \in PathVars \cap DOMAIN cs[i].env :
           \E j \in DOMAIN cs : PathOf(w) \in DOMAIN cs[j].mounts
    BY <1>6, <1>7, <1>8, <2>2 DEF Backed
  <2> QED BY <1>8, <2>1, <2>3, JoinedBacked
<1> QED BY <1>9 DEF cs

LEMMA LicenseBacked ==
    ASSUME NEW license \in LicenseSpec
    PROVE  Backed(schedulerLicenseConfig(license)) /\ Backed(workerLicenseConfig(license))
<1>1. license.kind \in {"onPrem", "onPremEnterprise", "cloud"}
  BY DEF LicenseSpec
<1>2. Backed(String("on_prem", "enabled", "true"))
  <2>1. <<"on_prem", "enabled">> \notin PathVars
    BY DEF PathVars
  <2> QED BY <2>1, VariableBacked
<1>3. CASE license.kind = "onPrem"
  BY <1>2, <1>3, OnPremBacked DEF schedulerLicenseConfig, workerLicenseConfig
<1>4. CASE license.kind = "onPremEnterprise"
  BY <1>4, EnterpriseBacked DEF schedulerLicenseConfig, workerLicenseConfig
<1>5. CASE license.kind = "cloud"
  BY <1>5, CloudBacked, PlainBacked DEF schedulerLicenseConfig, workerLicenseConfig
<1> QED BY <1>1, <1>3, <1>4, <1>5

LEMMA ShuffleBacked ==
    ASSUME NEW s
    PROVE  Backed(computedShuffleDataConfig(s))
<1> DEFINE v == <<"shuffle_location", "local">>
           cs == <<String("shuffle_location", "local", "/app/shuffle_data"),
                   Data("shuffle-data", EmptyDir, "/app/shuffle_data")>>
           where == IF s.shuffle \in {"none", "local"} THEN Joined(cs)
                    ELSE Location("shuffle_location", s.shuffle)
           port == IF s.shuffle \in {"none", "local", "localPath"}
                   THEN [Nothing EXCEPT !.ports = Entry("5053", [name |-> "worker-flight"])]
                   ELSE Nothing
<1>1. DOMAIN cs = 1..2
  OBVIOUS
<1>2. Sound(cs[1]) /\ DOMAIN cs[1].env = {v}
  BY PathVariable, Paths
<1>3. Backed(cs[2]) /\ PathOf(v) \in DOMAIN cs[2].mounts
  BY DataBacked, Sources, Paths
<1> HIDE DEF cs, v
<1>4. Backed(Joined(cs))
  <2>1. \A l \in DOMAIN cs : l # 1 => Backed(cs[l])
    BY <1>1, <1>3
  <2>2. 1 \in DOMAIN cs /\ 2 \in DOMAIN cs
    BY <1>1
  <2> QED BY <1>1, <1>2, <1>3, <2>1, <2>2, PathBacked
<1>5. Backed(where)
  BY <1>4, LocationBacked
<1>6. Backed(port)
  <2> DEFINE ports == Entry("5053", [name |-> "worker-flight"])
  <2>1. \A k \in DOMAIN ports : k \in DOMAIN PortNames /\ ports[k] = [name |-> PortNames[k]]
    BY DEF Entry, PortNames
  <2>2. Backed([Nothing EXCEPT !.ports = ports])
    <3> HIDE DEF ports
    <3> QED BY <2>1, PortBacked
  <2> QED BY <2>2, PlainBacked
<1>7. computedShuffleDataConfig(s) = Joined(<<where, port>>)
  BY DEF computedShuffleDataConfig, cs
<1> HIDE DEF where, port
<1> QED BY <1>5, <1>6, <1>7, BothBacked

LEMMA SchedulerPatchBacked ==
    ASSUME NEW s, s.license \in LicenseSpec
    PROVE  Backed(computedSchedulerPodSpec(s))
<1> DEFINE v == <<"observatory", "database_path">>
           cs == SchedulerParts(s)
<1> USE DEF SchedulerParts
<1>1. DOMAIN cs = 1..15 /\ computedSchedulerPodSpec(s) = Joined(cs)
  BY DEF computedSchedulerPodSpec
<1>2. {<<"cublet", "clusterID">>, <<"cublet", "instance_id">>, <<"cublet", "lineage">>,
       <<"observatory", "maxMetricsBytes">>, <<"", "logLevel">>, <<"", "OTLP_ENDPOINT">>,
       <<"", "acceptEula">>, <<"scheduler", "n_workers">>, <<"scheduler", "allowLocalScans">>,
       <<"scheduler", "checkpointPeriod">>, <<"monitoring", "hostMetricsOff">>}
         \cap PathVars = {}
  BY DEF PathVars
<1>3. Backed(cs[1]) /\ Backed(cs[3]) /\ Backed(cs[11]) /\ Backed(cs[13])
  BY <1>2, SettingBacked DEF resolveClusterID, observatoryMaxMetricsBytes, resolveLogLevel
<1>4. Backed(cs[2]) /\ Backed(cs[8])
  BY <1>2, VariableBacked
<1>5. Backed(cs[10]) /\ Backed(cs[12])
  BY <1>2, SettingBacked, VariableBacked, PlainBacked
     DEF checkpointPeriod, telemetry, ValueOrSource
<1>6. Backed(cs[6])
  <2> DEFINE settings == <<hostMetricsDisabled(s), Defaulted(s, "scheduler", "allowLocalScans"),
                           Optional(s, "", "acceptEula")>>
  <2>1. DOMAIN settings = 1..3 /\ schedulerSettings(s) = Joined(settings)
    BY DEF schedulerSettings
  <2>2. Backed(settings[1]) /\ Backed(settings[2]) /\ Backed(settings[3])
    BY <1>2, SettingBacked DEF hostMetricsDisabled
  <2> HIDE DEF settings
  <2>3. \A i \in DOMAIN settings : Backed(settings[i])
    BY <2>1, <2>2
  <2>4. Backed(Joined(settings))
    BY <2>1, <2>3, AllBacked
  <2> QED BY <2>1, <2>4
<1>7. Backed(cs[7]) /\ Backed(cs[9]) /\ Backed(cs[14])
  BY LicenseBacked, LocationBacked, RuntimeBacked DEF computedAnonymousResultsEnv
<1>8. Backed(cs[15])
  <2>1. \A k \in DOMAIN schedulerPorts :
           k \in DOMAIN PortNames /\ schedulerPorts[k] = [name |-> PortNames[k]]
    BY DEF schedulerPorts, PortNames, ++, Entry
  <2> QED BY <2>1, PortBacked
<1>9. Backed(cs[5]) /\ PathOf(v) \in DOMAIN cs[5].mounts
  <2>1. Lone(observatoryDataVolume(s))
    BY Sources DEF observatoryDataVolume
  <2> QED BY <2>1, DataBacked, Paths
<1>10. Sound(cs[4]) /\ DOMAIN cs[4].env = {v}
  BY PathVariable, Paths
<1> HIDE DEF cs, v
<1>11. Backed(Joined(cs))
  <2>1. \A l \in DOMAIN cs : l # 4 => Backed(cs[l])
    BY <1>1, <1>3, <1>4, <1>5, <1>6, <1>7, <1>8, <1>9
  <2>2. 4 \in DOMAIN cs /\ 5 \in DOMAIN cs
    BY <1>1
  <2> QED BY <1>1, <1>9, <1>10, <2>1, <2>2, PathBacked
<1> QED BY <1>1, <1>11

LEMMA WorkerPatchBacked ==
    ASSUME NEW s, s.license \in LicenseSpec, NEW container
    PROVE  Backed(computedWorkerPodSpec(s, container))
<1> DEFINE v == <<"", "POLARS_TEMP_DIR">>
           cs == WorkerParts(s, container)
<1> USE DEF WorkerParts
<1>1. DOMAIN cs = 1..17 /\ computedWorkerPodSpec(s, container) = Joined(cs)
  BY DEF computedWorkerPodSpec
<1>2. {<<"cublet", "clusterID">>, <<"cublet", "instance_id">>, <<"cublet", "cpu_reserved">>,
       <<"extras", "hdfs">>, <<"", "logLevel">>, <<"", "OTLP_ENDPOINT">>,
       <<"", "acceptEula">>, <<"worker", "heartBeatInterval">>,
       <<"monitoring", "hostMetricsOff">>, <<"static_leader", "hostname">>,
       <<"static_leader", "scheduler_port">>, <<"static_leader", "observatory_port">>}
         \cap PathVars = {}
  BY DEF PathVars
<1>3. Backed(cs[1]) /\ Backed(cs[2]) /\ Backed(cs[5]) /\ Backed(cs[6])
      /\ Backed(cs[8]) /\ Backed(cs[11])
  BY <1>2, SettingBacked DEF resolveClusterID, hostMetricsDisabled, resolveLogLevel,
                             workerHeartBeatInterval
<1>4. Backed(cs[3]) /\ Backed(cs[10]) /\ Backed(cs[12])
  BY <1>2, VariableBacked, PlainBacked DEF telemetry, ValueOrSource, cpuReserved
<1>5. Backed(cs[4])
  <2> DEFINE host == IF "clusterDomain" \in s.settings THEN "internal.svc." ELSE "internal"
             leader == <<String("static_leader", "hostname", host),
                         String("static_leader", "scheduler_port", "5050"),
                         String("static_leader", "observatory_port", "5049")>>
  <2>1. DOMAIN leader = 1..3 /\ staticLeader(s) = Joined(leader)
    BY DEF staticLeader
  <2>2. Backed(leader[1]) /\ Backed(leader[2]) /\ Backed(leader[3])
    BY <1>2, VariableBacked
  <2> HIDE DEF leader
  <2>3. \A i \in DOMAIN leader : Backed(leader[i])
    BY <2>1, <2>2
  <2>4. Backed(Joined(leader))
    BY <2>1, <2>3, AllBacked
  <2> QED BY <2>1, <2>4
<1>6. Backed(cs[9]) /\ Backed(cs[13]) /\ Backed(cs[14]) /\ Backed(cs[15])
  BY LicenseBacked, ShuffleBacked, LocationBacked, RuntimeBacked
     DEF computedCheckpointDataEnv
<1>7. Backed(cs[16])
  <2> DEFINE ports == Entry("5052", [name |-> "worker-service"])
  <2>1. \A k \in DOMAIN ports : k \in DOMAIN PortNames /\ ports[k] = [name |-> PortNames[k]]
    BY DEF Entry, PortNames
  <2>2. Backed([Nothing EXCEPT !.ports = ports])
    <3> HIDE DEF ports
    <3> QED BY <2>1, PortBacked
  <2> QED BY <2>2
<1>8. Backed(cs[17]) /\ PathOf(v) \in DOMAIN cs[17].mounts
  <2>1. Lone(computedTemporaryDataVolume(s))
    BY Sources DEF computedTemporaryDataVolume
  <2> QED BY <2>1, DataBacked, Paths
<1>9. Sound(cs[7]) /\ DOMAIN cs[7].env = {v}
  BY PathVariable, Paths
<1> HIDE DEF cs, v
<1>10. Backed(Joined(cs))
  <2>1. \A l \in DOMAIN cs : l # 7 => Backed(cs[l])
    BY <1>1, <1>3, <1>4, <1>5, <1>6, <1>7, <1>8
  <2>2. 7 \in DOMAIN cs /\ 17 \in DOMAIN cs
    BY <1>1
  <2> QED BY <1>1, <1>8, <1>9, <2>1, <2>2, PathBacked
<1> QED BY <1>1, <1>10

LEMMA PatchBacked ==
    ASSUME NEW s, IsSpec(s), NEW c \in PodNames
    PROVE  Backed(PatchOf(c, s))
<1>1. s.license \in LicenseSpec
  BY FieldValuesAssumption DEF IsSpec, SpecFields
<1> QED BY <1>1, SchedulerPatchBacked, WorkerPatchBacked DEF PatchOf

LEMMA OursInDomain ==
    ASSUME NEW theirs, NEW ours
    PROVE  DOMAIN Merged(theirs, ours) = DOMAIN theirs \cup DOMAIN ours
BY DEF Merged, ++

LEMMA PathIsBacked ==
    ASSUME NEW c \in PodNames, NEW s, IsSpec(s), NEW v \in PathVars,
           v \in DOMAIN PatchOf(c, s).env
    PROVE  IsBacked(Wanted(c, s).podSpec, PatchOf(c, s), v)
<1> DEFINE p == Wanted(c, s).podSpec
           patch == PatchOf(c, s)
           user == TemplateOf(c, s)
           base == FirstContainer(user)
           dir == PathOf(v)
           volume == patch.mounts[dir]["name"]
<1>1. Head(p.containers) = MainOf(c, s)
  BY MainIsFirst, SpecTemplates
<1>2. /\ MainOf(c, s).env = Merged(base.env, patch.env)
      /\ MainOf(c, s).mounts = Merged(base.mounts, patch.mounts)
  BY DEF MainOf
<1>3. p.volumes = Merged(user.volumes, patch.volumes)
  BY PodParts
<1>4. /\ patch.env[v] = [value |-> dir] /\ dir \in DOMAIN patch.mounts
      /\ "name" \in DOMAIN patch.mounts[dir] /\ volume \in DOMAIN patch.volumes
  BY PatchBacked DEF Backed, Sound
<1> HIDE DEF p, patch, user, base, dir
<1>5. MainOf(c, s).env[v]["value"] = dir
  <2>1. v \in DOMAIN patch.env /\ "value" \in DOMAIN patch.env[v] /\ patch.env[v]["value"] = dir
    BY <1>4 DEF patch
  <2> QED BY <1>2, <2>1, OursInMerge
<1>6. dir \in DOMAIN MainOf(c, s).mounts /\ MainOf(c, s).mounts[dir]["name"] = volume
  BY <1>2, <1>4, OursInMerge
<1> HIDE DEF volume
<1>7. /\ volume \in DOMAIN p.volumes
      /\ \A x \in DOMAIN patch.volumes[volume] :
            p.volumes[volume][x] = patch.volumes[volume][x]
  <2>1. volume \in DOMAIN patch.volumes
    BY <1>4
  <2>2. volume \in DOMAIN p.volumes
    <3>1. DOMAIN p.volumes = DOMAIN user.volumes \cup DOMAIN patch.volumes
      BY <1>3, OursInDomain
    <3> QED BY <2>1, <3>1
  <2>3. ASSUME NEW x \in DOMAIN patch.volumes[volume]
        PROVE  p.volumes[volume][x] = patch.volumes[volume][x]
    BY <1>3, <2>1, <2>3, OursInMerge
  <2> QED BY <2>2, <2>3
<1> QED BY <1>1, <1>4, <1>5, <1>6, <1>7 DEF IsBacked, p, patch

\* Whatever options are combined and whatever a user's template mounts or names:
\* every path the operator tells a program of is a directory mounted in its
\* container from the operator's own volume.
THEOREM PathsAreMounted == Spec => []PathsAreBacked
<1>1. ASSUME BuiltInv PROVE PathsAreBacked
  <2>1. Running = {c \in PodNames : pods[c] # NoPod}
    BY <1>1, RunningPods DEF BuiltInv
  <2>2. ASSUME NEW c \in PodNames, pods[c] # NoPod
        PROVE  IsSpec(pods[c].from) /\ pods[c].podSpec = Wanted(c, pods[c].from).podSpec
    BY <1>1, <2>2 DEF BuiltInv
  <2> QED BY <2>1, <2>2, PathIsBacked DEF PathsAreBacked
<1> QED BY <1>1, InitBuiltInv, NextBuiltInv, PTL DEF Spec

-----------------------------------------------------------------------------
(* What the API server may refuse. *)

\* Entries of one field stay so where no two have the same name.
LEMMA MergedOne ==
    ASSUME NEW theirs, NEW ours, DOMAIN theirs \cap DOMAIN ours = {},
           \A k \in DOMAIN theirs : Cardinality(DOMAIN theirs[k]) = 1,
           \A k \in DOMAIN ours : Lone(ours[k])
    PROVE  \A k \in DOMAIN Merged(theirs, ours) :
              Cardinality(DOMAIN Merged(theirs, ours)[k]) = 1
<1> SUFFICES ASSUME NEW k \in DOMAIN Merged(theirs, ours)
             PROVE  Cardinality(DOMAIN Merged(theirs, ours)[k]) = 1
  OBVIOUS
<1>1. CASE k \in DOMAIN ours
  <2>1. Merged(theirs, ours)[k] = ours[k]
    BY <1>1 DEF Merged, ++
  <2>2. Cardinality(DOMAIN ours[k]) = 1
    BY <1>1, FS_Singleton DEF Lone
  <2> QED BY <2>1, <2>2
<1>2. CASE k \in DOMAIN theirs \ DOMAIN ours
  BY <1>2, KeptByMerge
<1>3. k \in DOMAIN theirs \cup DOMAIN ours
  BY OursInDomain
<1> QED BY <1>1, <1>2, <1>3

LEMMA MergedMounts ==
    ASSUME NEW theirs, NEW ours, NEW volumes,
           \A m \in DOMAIN theirs : theirs[m]["name"] \in DOMAIN volumes,
           \A m \in DOMAIN ours :
               "name" \in DOMAIN ours[m] /\ ours[m]["name"] \in DOMAIN volumes
    PROVE  \A m \in DOMAIN Merged(theirs, ours) :
              Merged(theirs, ours)[m]["name"] \in DOMAIN volumes
<1> SUFFICES ASSUME NEW m \in DOMAIN Merged(theirs, ours)
             PROVE  Merged(theirs, ours)[m]["name"] \in DOMAIN volumes
  OBVIOUS
<1>1. CASE m \in DOMAIN ours
  BY <1>1, OursInMerge
<1>2. CASE m \in DOMAIN theirs \ DOMAIN ours
  BY <1>2, KeptByMerge
<1> QED BY <1>1, <1>2, OursInDomain

LEMMA PortNamesDiffer ==
    \A i, j \in DOMAIN PortNames : i # j => PortNames[i] # PortNames[j]
BY DEF PortNames

\* No two entries of a list are alike; the operator's ports have their own names;
\* and none of these is a name of the user's.
Distinct(list) == \A i, j \in DOMAIN list : i # j => list[i] # list[j]
OwnNames(ours) ==
    \A k \in DOMAIN ours : k \in DOMAIN PortNames /\ ours[k] = [name |-> PortNames[k]]
NamesDiffer(theirs, ours) ==
    \A i \in DOMAIN theirs, j \in DOMAIN ours : theirs[i]["name"] # ours[j]["name"]

LEMMA MergedPorts ==
    ASSUME NEW theirs, NEW ours, Distinct(theirs), OwnNames(ours),
           NamesDiffer(theirs, ours)
    PROVE  Distinct(Merged(theirs, ours))
<1> DEFINE M == Merged(theirs, ours)
<1>1. ASSUME NEW k \in DOMAIN ours
      PROVE  M[k]["name"] = PortNames[k] /\ ours[k]["name"] = PortNames[k]
  <2>1. ours[k] = [name |-> PortNames[k]]
    BY <1>1 DEF OwnNames
  <2>2. "name" \in DOMAIN ours[k] /\ ours[k]["name"] = PortNames[k]
    BY <2>1
  <2> QED BY <2>2, OursInMerge
<1>2. \A k \in DOMAIN theirs \ DOMAIN ours : M[k] = theirs[k]
  BY KeptByMerge
<1>3. DOMAIN M = DOMAIN theirs \cup DOMAIN ours
  BY OursInDomain
<1> HIDE DEF M
<1>4. ASSUME NEW i \in DOMAIN ours, NEW j \in DOMAIN ours, i # j PROVE M[i] # M[j]
  BY <1>1, <1>4, PortNamesDiffer DEF OwnNames
<1>5. ASSUME NEW i \in DOMAIN ours, NEW j \in DOMAIN theirs \ DOMAIN ours
      PROVE  M[i] # M[j]
  <2>1. ours[i]["name"] # theirs[j]["name"]
    BY <1>5 DEF NamesDiffer
  <2>2. M[i]["name"] = ours[i]["name"] /\ M[j]["name"] = theirs[j]["name"]
    BY <1>1, <1>2
  <2> QED BY <2>1, <2>2
<1>6. ASSUME NEW i \in DOMAIN theirs \ DOMAIN ours, NEW j \in DOMAIN theirs \ DOMAIN ours,
             i # j
      PROVE  M[i] # M[j]
  BY <1>2, <1>6 DEF Distinct
<1>7. \A i, j \in DOMAIN M : i # j => M[i] # M[j]
  <2> SUFFICES ASSUME NEW i \in DOMAIN M, NEW j \in DOMAIN M, i # j PROVE M[i] # M[j]
    OBVIOUS
  <2>1. i \in DOMAIN ours \/ i \in DOMAIN theirs \ DOMAIN ours
    BY <1>3
  <2>2. j \in DOMAIN ours \/ j \in DOMAIN theirs \ DOMAIN ours
    BY <1>3
  <2> QED BY <1>4, <1>5, <1>6, <2>1, <2>2
<1>8. Distinct(M)
  BY <1>7 DEF Distinct
<1> QED BY <1>8 DEF M

LEMMA MergedProbe ==
    ASSUME NEW template, IsTemplate(template), NEW default, Lone(default),
           Cardinality(DOMAIN FirstContainer(template).probe) <= 1
    PROVE  Cardinality(DOMAIN (injectedProbe(FirstContainer(template), default)
                                  ++ FirstContainer(template).probe)) <= 1
<1> DEFINE probe == FirstContainer(template).probe
<1>1. CASE probe # <<>>
  BY <1>1, KeptProbe
<1>2. CASE probe = <<>>
  <2>1. injectedProbe(FirstContainer(template), default) = default
    BY <1>2 DEF injectedProbe
  <2>2. DOMAIN (default ++ <<>>) = DOMAIN default
    BY DEF ++
  <2>3. Cardinality(DOMAIN default) = 1
    BY FS_Singleton DEF Lone
  <2> QED BY <1>2, <2>1, <2>2, <2>3
<1> QED BY <1>1, <1>2

\* A runtime brings the image of the main container.
LEMMA RuntimeImage ==
    ASSUME NEW s, s.runtime
    PROVE  "image" \in DOMAIN composedRuntimeConfig(s).fields
<1> DEFINE cs == <<release(s), Data("tmp-data", EmptyDir, "/tmp"),
                   String("", "UV_PATH", "/emptydir"), requirements(s),
                   [Nothing EXCEPT !.fields =
                        [image |-> <<"python", s.pythonTag>>,
                         command |-> "/emptydir", workingDir |-> "/tmp"]]>>
<1>1. composedRuntimeConfig(s) = Joined(cs)
  BY DEF composedRuntimeConfig
<1>2. /\ 5 \in DOMAIN cs /\ "image" \in DOMAIN cs[5]["fields"]
      /\ "fields" \in DOMAIN Nothing
  BY DEF Nothing
<1> HIDE DEF cs
<1>3. DOMAIN Joined(cs)["fields"] = UNION {DOMAIN cs[i]["fields"] : i \in DOMAIN cs}
  BY <1>2, JoinedParts
<1> QED BY <1>1, <1>2, <1>3

LEMMA PatchImage ==
    ASSUME NEW s, s.runtime, NEW c \in PodNames
    PROVE  "image" \in DOMAIN PatchOf(c, s).fields
<1>1. "image" \in DOMAIN composedRuntimeConfig(s)["fields"] /\ "fields" \in DOMAIN Nothing
  BY RuntimeImage DEF Nothing
<1>2. ASSUME NEW cs, NEW i \in DOMAIN cs, cs[i] = composedRuntimeConfig(s)
      PROVE  "image" \in DOMAIN Joined(cs)["fields"]
  <2>1. DOMAIN Joined(cs)["fields"] = UNION {DOMAIN cs[j]["fields"] : j \in DOMAIN cs}
    BY <1>1, JoinedParts
  <2> QED BY <1>1, <1>2, <2>1
<1>3. CASE c = "scheduler"
  <2> DEFINE cs == SchedulerParts(s)
  <2> USE DEF SchedulerParts
  <2>1. 14 \in DOMAIN cs /\ cs[14] = composedRuntimeConfig(s)
    OBVIOUS
  <2>2. PatchOf(c, s) = Joined(cs)
    BY <1>3 DEF PatchOf, computedSchedulerPodSpec
  <2> HIDE DEF cs
  <2> QED BY <1>2, <2>1, <2>2
<1>4. CASE c # "scheduler"
  <2> DEFINE container == FirstContainer(TemplateOf(c, s))
             cs == WorkerParts(s, container)
  <2> USE DEF WorkerParts
  <2>1. 15 \in DOMAIN cs /\ cs[15] = composedRuntimeConfig(s)
    OBVIOUS
  <2>2. PatchOf(c, s) = Joined(cs)
    BY <1>4 DEF PatchOf, computedWorkerPodSpec
  <2> HIDE DEF cs
  <2> QED BY <1>2, <2>1, <2>2
<1> QED BY <1>3, <1>4

\* A template that is consistent, has none of the operator's names and lacks no
\* image makes an admissible pod, whatever options it is merged with.
LEMMA MergeIsAdmissible ==
    ASSUME NEW c \in PodNames, NEW s, IsSpec(s),
           Consistent(TemplateOf(c, s).volumes, FirstContainer(TemplateOf(c, s))),
           ~Collides(TemplateOf(c, s), PatchOf(c, s)),
           s.runtime \/ "image" \in DOMAIN FirstContainer(TemplateOf(c, s)).fields
    PROVE  Admissible(Wanted(c, s))
<1> DEFINE p == Wanted(c, s).podSpec
           patch == PatchOf(c, s)
           user == TemplateOf(c, s)
           base == FirstContainer(user)
           main == MainOf(c, s)
<1>1. IsTemplate(user)
  BY SpecTemplates
<1>2. Head(p.containers) = main
  BY <1>1, MainIsFirst
<1>3. /\ main.env = Merged(base.env, patch.env)
      /\ main.mounts = Merged(base.mounts, patch.mounts)
      /\ main.ports = Merged(base.ports, patch.ports)
      /\ main.fields = patch.fields ++ base.fields
      /\ main.probe = injectedProbe(base, DefaultProbe(c)) ++ base.probe
  BY DEF MainOf
<1>4. p.volumes = Merged(user.volumes, patch.volumes)
  BY PodParts
<1>5. Sound(patch)
  BY PatchBacked DEF Backed
<1>6. /\ \A k \in DOMAIN user.volumes : Cardinality(DOMAIN user.volumes[k]) = 1
      /\ \A k \in DOMAIN base.env : Cardinality(DOMAIN base.env[k]) = 1
      /\ \A m \in DOMAIN base.mounts : base.mounts[m]["name"] \in DOMAIN user.volumes
      /\ \A i, j \in DOMAIN base.ports : i # j => base.ports[i] # base.ports[j]
      /\ Cardinality(DOMAIN base.probe) <= 1
  BY DEF Consistent
<1>7. /\ DOMAIN user.volumes \cap DOMAIN patch.volumes = {}
      /\ DOMAIN base.env \cap DOMAIN patch.env = {}
      /\ {base.ports[k]["name"] : k \in DOMAIN base.ports}
            \cap {patch.ports[k]["name"] : k \in DOMAIN patch.ports} = {}
  BY DEF Collides
<1>8. s.runtime => "image" \in DOMAIN patch.fields
  BY PatchImage
<1>9. Cardinality(DOMAIN main.probe) <= 1
  <2>1. Lone(DefaultProbe(c))
    BY DEF Lone, DefaultProbe, defaultSchedulerReadinessProbe, defaultWorkerReadinessProbe
  <2> QED BY <1>1, <1>3, <1>6, <2>1, MergedProbe
<1>10. "image" \in DOMAIN main.fields
  <2>1. "image" \in DOMAIN patch.fields \cup DOMAIN base.fields
    BY <1>8
  <2> HIDE DEF patch, base, main
  <2> QED BY <1>3, <2>1 DEF ++
<1> HIDE DEF p, patch, user, base, main
<1>11. \A k \in DOMAIN p.volumes : Cardinality(DOMAIN p.volumes[k]) = 1
  BY <1>4, <1>5, <1>6, <1>7, MergedOne DEF Sound
<1>12. \A k \in DOMAIN main.env : Cardinality(DOMAIN main.env[k]) = 1
  BY <1>3, <1>5, <1>6, <1>7, MergedOne DEF Sound
<1>13. \A m \in DOMAIN main.mounts : main.mounts[m]["name"] \in DOMAIN p.volumes
  <2>1. DOMAIN p.volumes = DOMAIN user.volumes \cup DOMAIN patch.volumes
    BY <1>4, OursInDomain
  <2>2. \A m \in DOMAIN base.mounts : base.mounts[m]["name"] \in DOMAIN p.volumes
    BY <1>6, <2>1
  <2>3. \A m \in DOMAIN patch.mounts :
           "name" \in DOMAIN patch.mounts[m] /\ patch.mounts[m]["name"] \in DOMAIN p.volumes
    BY <1>5, <2>1 DEF Sound
  <2> QED BY <1>3, <2>2, <2>3, MergedMounts
<1>14. \A i, j \in DOMAIN main.ports : i # j => main.ports[i] # main.ports[j]
  <2>1. OwnNames(patch.ports)
    BY <1>5 DEF Sound, OwnNames
  <2>2. Distinct(base.ports)
    BY <1>6 DEF Distinct
  <2>3. NamesDiffer(base.ports, patch.ports)
    BY <1>7 DEF NamesDiffer
  <2>4. Distinct(main.ports)
    BY <1>3, <2>1, <2>2, <2>3, MergedPorts
  <2> QED BY <2>4 DEF Distinct
<1>15. Consistent(p.volumes, main)
  BY <1>9, <1>11, <1>12, <1>13, <1>14 DEF Consistent
<1> QED BY <1>2, <1>10, <1>15 DEF Admissible, p

\* Why a component's pod is refused.
Refused(c) ==
    \/ ~TemplateIsValid(spec, TemplateOf(c, spec))
    \/ ~Admissible(Wanted(c, spec))

\* A spec error that stands, with nothing due, is about the current spec.
ErrorInv ==
    /\ BuiltInv
    /\ Settled /\ error = "scheduler" => Refused("scheduler")
    /\ Settled /\ error = "workers" => Refused("worker")

LEMMA NextErrorInv ==
    ASSUME ErrorInv, [Next]_vars
    PROVE  ErrorInv'
<1>0. BuiltInv'
  BY NextBuiltInv DEF ErrorInv
<1>1. CASE UNCHANGED vars
  BY <1>0, <1>1 DEF ErrorInv, Refused, Settled, vars
<1>2. CASE \E f \in DOMAIN FieldValues : \E v \in FieldValues[f] : Edit(f, v)
  BY <1>0, <1>2 DEF ErrorInv, Settled, Edit
<1>3. CASE Begin
  BY <1>0, <1>3 DEF ErrorInv, Settled, Begin, SpecError
<1>4. CASE ReconcileScheduler
  <2> DEFINE pod == BuildSchedulerPodTemplate(spec)
  <2>1. pod = Wanted("scheduler", spec) /\ spec' = spec
    BY <1>4 DEF Wanted, ReconcileScheduler
  <2>2. TemplateOf("scheduler", spec) = spec.schedulerTemplate
    BY DEF TemplateOf
  <2>3. pc' = "idle" =>
           /\ error' = "scheduler"
           /\ ~TemplateIsValid(spec, spec.schedulerTemplate) \/ ~Admissible(pod)
    BY <1>4 DEF ReconcileScheduler, SpecError
  <2> HIDE DEF pod
  <2> QED BY <1>0, <2>1, <2>2, <2>3 DEF ErrorInv, Refused, Settled
<1>5. CASE ReconcileWorkerPool
  <2> DEFINE pod == BuildWorkerPodTemplate(spec)
  <2>1. pod = Wanted("worker", spec) /\ spec' = spec
    BY <1>5 DEF Wanted, ReconcileWorkerPool
  <2>2. TemplateOf("worker", spec) = spec.workerTemplate
    BY DEF TemplateOf
  <2>3. \/ error' = "none"
        \/ /\ error' = "workers"
           /\ ~TemplateIsValid(spec, spec.workerTemplate) \/ ~Admissible(pod)
    BY <1>5 DEF ReconcileWorkerPool, SpecError
  <2> HIDE DEF pod
  <2> QED BY <1>0, <2>1, <2>2, <2>3 DEF ErrorInv, Refused, Settled
<1> QED BY <1>1, <1>2, <1>3, <1>4, <1>5 DEF Next

\* Whatever options are combined, the operator's own part is never the reason for
\* which a pod is refused: the user's template is not consistent, has one of the
\* operator's names, or lacks a container or an image that no runtime brings.  (Of
\* storage options none is named url: see Location.)
THEOREM RejectionsAreTheTemplates == Spec => []OnlyCollisionsAreRejected
<1>1. ASSUME Init PROVE ErrorInv
  <2>1. BuiltInv
    BY <1>1, InitBuiltInv
  <2> QED BY <1>1, <2>1 DEF Init, ErrorInv, Settled
<1>2. ASSUME ErrorInv, [Next]_vars PROVE ErrorInv'
  BY <1>2, NextErrorInv
<1>3. ASSUME ErrorInv PROVE OnlyCollisionsAreRejected
  <2>1. ASSUME NEW c \in PodNames, Refused(c)
        PROVE  LET user == TemplateOf(c, spec)
               IN  \/ ~Consistent(user.volumes, FirstContainer(user))
                   \/ Collides(user, PatchOf(c, spec))
                   \/ ~spec.runtime /\ "image" \notin DOMAIN FirstContainer(user).fields
    <3> DEFINE user == TemplateOf(c, spec)
    <3>1. CASE ~TemplateIsValid(spec, user)
      <4>1. ~spec.runtime /\ FirstContainer(user) = NoContainer
        BY <3>1 DEF TemplateIsValid, FirstContainer
      <4>2. "image" \notin DOMAIN NoContainer.fields
        BY DEF NoContainer
      <4> QED BY <4>1, <4>2
    <3>2. CASE ~Admissible(Wanted(c, spec))
      BY <1>3, <2>1, <3>2, MergeIsAdmissible DEF ErrorInv, BuiltInv
    <3> QED BY <2>1, <3>1, <3>2 DEF Refused
  <2>2. "scheduler" \in PodNames /\ "worker" \in PodNames
    BY DEF PodNames
  <2>3. CASE error = "scheduler"
    BY <1>3, <2>1, <2>2, <2>3 DEF ErrorInv, OnlyCollisionsAreRejected
  <2>4. CASE error = "workers"
    BY <1>3, <2>1, <2>2, <2>4 DEF ErrorInv, OnlyCollisionsAreRejected
  <2>5. CASE error \notin {"scheduler", "workers"}
    BY <2>5 DEF OnlyCollisionsAreRejected
  <2> QED BY <2>3, <2>4, <2>5
<1> QED BY <1>1, <1>2, <1>3, PTL DEF Spec

-----------------------------------------------------------------------------
(* The labels, which the hash leaves out. *)

\* Nothing of a contribution has the distribution's names.
NoRelease(part) ==
    "release-data" \notin DOMAIN part.volumes /\ "release" \notin DOMAIN part.init

LEMMA JoinedNoRelease ==
    ASSUME NEW cs, \A i \in DOMAIN cs : NoRelease(cs[i])
    PROVE  NoRelease(Joined(cs))
<1>1. "volumes" \in DOMAIN Nothing /\ "init" \in DOMAIN Nothing
  BY DEF Nothing
<1>2. /\ DOMAIN Joined(cs)["volumes"] = UNION {DOMAIN cs[i]["volumes"] : i \in DOMAIN cs}
      /\ DOMAIN Joined(cs)["init"] = UNION {DOMAIN cs[i]["init"] : i \in DOMAIN cs}
  BY <1>1, JoinedParts
<1> QED BY <1>2 DEF NoRelease

LEMMA BothNoRelease ==
    ASSUME NEW a, NEW b, NoRelease(a), NoRelease(b)
    PROVE  NoRelease(Joined(<<a, b>>))
BY JoinedNoRelease

LEMMA ThreeNoRelease ==
    ASSUME NEW a, NEW b, NEW c, NoRelease(a), NoRelease(b), NoRelease(c)
    PROVE  NoRelease(Joined(<<a, b, c>>))
BY JoinedNoRelease

LEMMA PlainNoRelease ==
    /\ NoRelease(Nothing)
    /\ \A ports : NoRelease([Nothing EXCEPT !.ports = ports])
    /\ \A fields : NoRelease([Nothing EXCEPT !.fields = fields])
    /\ \A image : NoRelease([Nothing EXCEPT !.init = [requirements |-> image]])
    /\ \A section, leaf, value :
          NoRelease(String(section, leaf, value)) /\ NoRelease(FieldRef(section, leaf, value))
    /\ \A name, path : NoRelease(Mount(name, path))
    /\ \A name, source : name # "release-data" => NoRelease(Volume(name, source))
BY DEF NoRelease, Nothing, String, FieldRef, Volume, Mount, Entry

LEMMA DataNoRelease ==
    ASSUME NEW name, name # "release-data", NEW source, NEW path
    PROVE  NoRelease(Data(name, source, path))
BY PlainNoRelease, BothNoRelease DEF Data

LEMMA SettingNoRelease ==
    ASSUME NEW s, NEW section, NEW x
    PROVE  /\ NoRelease(Defaulted(s, section, x)) /\ NoRelease(Optional(s, section, x))
           /\ NoRelease(ValueOrSource(section, x, s))
BY PlainNoRelease DEF Defaulted, Optional, ValueOrSource

LEMMA LocationNoRelease ==
    ASSUME NEW section, NEW location
    PROVE  NoRelease(Location(section, location))
<1>1. NoRelease(Joined(<<String(section, location, "url"),
                         FieldRef(section, "option", "secret")>>))
  BY PlainNoRelease, BothNoRelease
<1> QED BY <1>1, PlainNoRelease DEF Location

LEMMA ShuffleNoRelease ==
    ASSUME NEW s
    PROVE  NoRelease(computedShuffleDataConfig(s))
<1>1. NoRelease(Joined(<<String("shuffle_location", "local", "/app/shuffle_data"),
                         Data("shuffle-data", EmptyDir, "/app/shuffle_data")>>))
  BY PlainNoRelease, DataNoRelease, BothNoRelease
<1>2. NoRelease(Location("shuffle_location", s.shuffle))
  BY LocationNoRelease
<1> QED BY <1>1, <1>2, PlainNoRelease, BothNoRelease DEF computedShuffleDataConfig

LEMMA LicenseNoRelease ==
    ASSUME NEW license \in LicenseSpec
    PROVE  /\ NoRelease(schedulerLicenseConfig(license))
           /\ NoRelease(workerLicenseConfig(license))
<1>1. NoRelease(enterpriseLicenseConfig)
  BY PlainNoRelease, DataNoRelease, BothNoRelease DEF enterpriseLicenseConfig
<1>2. NoRelease(cloudLicenseConfig)
  BY DataNoRelease DEF cloudLicenseConfig
<1>3. NoRelease(cloudLicenseEnv(license))
  BY PlainNoRelease, SettingNoRelease, BothNoRelease DEF cloudLicenseEnv
<1>4. NoRelease(Joined(<<cloudLicenseEnv(license), cloudLicenseConfig>>))
  BY <1>2, <1>3, BothNoRelease
<1>5. \A source : NoRelease(
         Joined(<<ValueOrSource("on_prem", "client_id", license.credentials),
                  String("on_prem", "cert_dir", "/mnt/license_data"),
                  Data("license-data", source, "/mnt/license_data")>>))
  BY PlainNoRelease, SettingNoRelease, DataNoRelease, ThreeNoRelease
<1>6. license.kind \in {"onPrem", "onPremEnterprise", "cloud"}
  BY DEF LicenseSpec
<1>7. NoRelease(schedulerLicenseConfig(license))
  BY <1>1, <1>4, <1>5, <1>6 DEF schedulerLicenseConfig
<1> QED BY <1>1, <1>6, <1>7, PlainNoRelease DEF workerLicenseConfig

\* What tells the release in a pod: the volume the distribution is mounted from or
\* copied to, and in the latter case the init container that copies it.
ReleaseIn(part, s) ==
    /\ "release-data" \in DOMAIN part.volumes
    /\ part.volumes["release-data"] =
          IF s.imageVolume THEN [image |-> <<"dist", distTag(s)>>] ELSE EmptyDir
    /\ ~s.imageVolume =>
          /\ "release" \in DOMAIN part.init
          /\ part.init["release"] = [image |-> <<"dist", distTag(s)>>]

\* It reaches a joined contribution, if none of the others has its names.
LEMMA JoinedRelease ==
    ASSUME NEW cs, DOMAIN cs \subseteq Nat, NEW i \in DOMAIN cs, NEW s,
           ReleaseIn(cs[i], s), \A j \in DOMAIN cs : j # i => NoRelease(cs[j])
    PROVE  ReleaseIn(Joined(cs), s)
<1>1. "volumes" \in DOMAIN Nothing /\ "init" \in DOMAIN Nothing
  BY DEF Nothing
<1>2. /\ \A j \in DOMAIN cs : "release-data" \in DOMAIN cs[j]["volumes"] => j = i
      /\ \A j \in DOMAIN cs : "release" \in DOMAIN cs[j]["init"] => j = i
  BY DEF NoRelease
<1>3. "release-data" \in DOMAIN cs[i]["volumes"]
  BY DEF ReleaseIn
<1>4. /\ "release-data" \in DOMAIN Joined(cs)["volumes"]
      /\ Joined(cs)["volumes"]["release-data"] = cs[i]["volumes"]["release-data"]
  BY <1>1, <1>2, <1>3, JoinedOnly
<1>5. ASSUME ~s.imageVolume
      PROVE  /\ "release" \in DOMAIN Joined(cs)["init"]
             /\ Joined(cs)["init"]["release"] = cs[i]["init"]["release"]
  <2>1. "release" \in DOMAIN cs[i]["init"]
    BY <1>5 DEF ReleaseIn
  <2> QED BY <1>1, <1>2, <2>1, JoinedOnly
<1> QED BY <1>4, <1>5 DEF ReleaseIn

LEMMA RuntimeRelease ==
    ASSUME NEW s
    PROVE  /\ s.runtime => ReleaseIn(composedRuntimeConfig(s), s)
           /\ ~s.runtime => NoRelease(composedRuntimeConfig(s))
<1>1. ReleaseIn(release(s), s)
  <2>1. ASSUME NEW source
        PROVE  LET part == Data("release-data", source, "/emptydir")
               IN  /\ "release-data" \in DOMAIN part.volumes
                   /\ part.volumes["release-data"] = source
                   /\ "release" \notin DOMAIN part.init
    <3> DEFINE cs == <<Volume("release-data", source), Mount("release-data", "/emptydir")>>
    <3>1. DOMAIN cs = 1..2 /\ "volumes" \in DOMAIN Nothing /\ "init" \in DOMAIN Nothing
      BY DEF Nothing
    <3>2. /\ DOMAIN cs[1]["volumes"] = {"release-data"} /\ DOMAIN cs[2]["volumes"] = {}
          /\ cs[1]["volumes"]["release-data"] = source
          /\ DOMAIN cs[1]["init"] = {} /\ DOMAIN cs[2]["init"] = {}
      BY DEF Volume, Mount, Nothing, Entry
    <3> HIDE DEF cs
    <3>3. \A j \in DOMAIN cs : "release-data" \in DOMAIN cs[j]["volumes"] => j = 1
      BY <3>1, <3>2
    <3>4. /\ "release-data" \in DOMAIN Joined(cs)["volumes"]
          /\ Joined(cs)["volumes"]["release-data"] = cs[1]["volumes"]["release-data"]
      <4>1. 1 \in DOMAIN cs /\ DOMAIN cs \subseteq Nat
        BY <3>1
      <4>2. "release-data" \in DOMAIN cs[1]["volumes"]
        BY <3>2
      <4> QED BY <3>1, <3>3, <4>1, <4>2, JoinedOnly
    <3>5. DOMAIN Joined(cs)["init"] = UNION {DOMAIN cs[i]["init"] : i \in DOMAIN cs}
      BY <3>1, JoinedParts
    <3>6. "release" \notin DOMAIN Joined(cs)["init"]
      BY <3>1, <3>2, <3>5
    <3>7. Data("release-data", source, "/emptydir") = Joined(cs)
      BY DEF Data, cs
    <3> QED BY <3>2, <3>4, <3>6, <3>7
  <2>2. CASE s.imageVolume
    BY <2>1, <2>2 DEF release, ReleaseIn
  <2>3. CASE ~s.imageVolume
    <3> DEFINE image == [image |-> <<"dist", distTag(s)>>]
               copier == [Nothing EXCEPT !.init = [release |-> image]]
               part == Data("release-data", EmptyDir, "/emptydir")
               cs == <<part, copier>>
    <3>1. /\ DOMAIN cs = 1..2 /\ cs[1] = part /\ cs[2] = copier
          /\ "volumes" \in DOMAIN Nothing /\ "init" \in DOMAIN Nothing
      BY DEF Nothing
    <3>2. /\ DOMAIN copier["volumes"] = {} /\ DOMAIN copier["init"] = {"release"}
          /\ copier["init"]["release"] = image
      BY DEF Nothing
    <3>3. /\ "release-data" \in DOMAIN part["volumes"]
          /\ part["volumes"]["release-data"] = EmptyDir
          /\ "release" \notin DOMAIN part["init"]
      BY <2>1
    <3>4. release(s) = Joined(cs)
      BY <2>3 DEF release
    <3> HIDE DEF cs, part, copier
    <3>5. /\ 1 \in DOMAIN cs /\ 2 \in DOMAIN cs /\ DOMAIN cs \subseteq Nat
          /\ \A j \in DOMAIN cs : "release-data" \in DOMAIN cs[j]["volumes"] => j = 1
          /\ \A j \in DOMAIN cs : "release" \in DOMAIN cs[j]["init"] => j = 2
      BY <3>1, <3>2, <3>3
    <3>6. /\ "release-data" \in DOMAIN Joined(cs)["volumes"]
          /\ Joined(cs)["volumes"]["release-data"] = cs[1]["volumes"]["release-data"]
      <4>1. "release-data" \in DOMAIN cs[1]["volumes"]
        BY <3>1, <3>3
      <4> QED BY <3>1, <3>5, <4>1, JoinedOnly
    <3>7. /\ "release" \in DOMAIN Joined(cs)["init"]
          /\ Joined(cs)["init"]["release"] = cs[2]["init"]["release"]
      <4>1. "release" \in DOMAIN cs[2]["init"]
        BY <3>1, <3>2
      <4> QED BY <3>1, <3>5, <4>1, JoinedOnly
    <3> QED BY <2>3, <3>1, <3>2, <3>3, <3>4, <3>6, <3>7 DEF ReleaseIn
  <2> QED BY <2>2, <2>3
<1>2. NoRelease(requirements(s))
  <2>1. NoRelease(Data("requirements-data", EmptyDir, "/requirements"))
    BY DataNoRelease
  <2> QED BY <2>1, PlainNoRelease, ThreeNoRelease DEF requirements
<1>3. CASE s.runtime
  <2> DEFINE cs == <<release(s), Data("tmp-data", EmptyDir, "/tmp"),
                     String("", "UV_PATH", "/emptydir"), requirements(s),
                     [Nothing EXCEPT !.fields =
                          [image |-> <<"python", s.pythonTag>>,
                           command |-> "/emptydir", workingDir |-> "/tmp"]]>>
  <2>1. composedRuntimeConfig(s) = Joined(cs)
    BY <1>3 DEF composedRuntimeConfig
  <2>2. DOMAIN cs = 1..5 /\ ReleaseIn(cs[1], s) /\ NoRelease(cs[4])
    BY <1>1, <1>2
  <2>3. NoRelease(cs[3]) /\ NoRelease(cs[5])
    BY PlainNoRelease
  <2>4. NoRelease(cs[2])
    BY DataNoRelease
  <2> HIDE DEF cs
  <2>5. \A j \in DOMAIN cs : j # 1 => NoRelease(cs[j])
    BY <2>2, <2>3, <2>4
  <2>6. ReleaseIn(Joined(cs), s)
    BY <2>2, <2>5, JoinedRelease
  <2> QED BY <1>3, <2>1, <2>6
<1>4. CASE ~s.runtime
  BY <1>4, PlainNoRelease DEF composedRuntimeConfig
<1> QED BY <1>3, <1>4

\* The operator's part of a pod tells the release iff there is a runtime.
LEMMA PatchRelease ==
    ASSUME NEW s, s.license \in LicenseSpec, NEW c \in PodNames
    PROVE  /\ s.runtime => ReleaseIn(PatchOf(c, s), s)
           /\ ~s.runtime => NoRelease(PatchOf(c, s))
<1>1. ASSUME NEW cs, DOMAIN cs \subseteq Nat, NEW i \in DOMAIN cs,
             cs[i] = composedRuntimeConfig(s),
             \A j \in DOMAIN cs : j # i => NoRelease(cs[j])
      PROVE  /\ s.runtime => ReleaseIn(Joined(cs), s)
             /\ ~s.runtime => NoRelease(Joined(cs))
  <2>1. CASE s.runtime
    BY <1>1, <2>1, RuntimeRelease, JoinedRelease
  <2>2. CASE ~s.runtime
    <3>1. \A j \in DOMAIN cs : NoRelease(cs[j])
      BY <1>1, <2>2, RuntimeRelease
    <3> QED BY <2>2, <3>1, JoinedNoRelease
  <2> QED BY <2>1, <2>2
<1>2. CASE c = "scheduler"
  <2> DEFINE cs == SchedulerParts(s)
  <2> USE DEF SchedulerParts
  <2>1. /\ DOMAIN cs = 1..15 /\ cs[14] = composedRuntimeConfig(s)
        /\ PatchOf(c, s) = Joined(cs)
    BY <1>2 DEF PatchOf, computedSchedulerPodSpec
  <2>2. /\ NoRelease(cs[1]) /\ NoRelease(cs[3]) /\ NoRelease(cs[11]) /\ NoRelease(cs[13])
    BY SettingNoRelease DEF resolveClusterID, observatoryMaxMetricsBytes, resolveLogLevel
  <2>3. NoRelease(cs[2]) /\ NoRelease(cs[4]) /\ NoRelease(cs[8]) /\ NoRelease(cs[15])
    BY PlainNoRelease
  <2>4. NoRelease(cs[10]) /\ NoRelease(cs[12])
    BY PlainNoRelease, SettingNoRelease DEF checkpointPeriod, telemetry
  <2>5. NoRelease(cs[5]) /\ NoRelease(cs[7]) /\ NoRelease(cs[9])
    BY DataNoRelease, LicenseNoRelease, LocationNoRelease DEF computedAnonymousResultsEnv
  <2>6. NoRelease(cs[6])
    BY SettingNoRelease, ThreeNoRelease DEF schedulerSettings, hostMetricsDisabled
  <2> HIDE DEF cs
  <2>7. \A j \in DOMAIN cs : j # 14 => NoRelease(cs[j])
    BY <2>1, <2>2, <2>3, <2>4, <2>5, <2>6
  <2>8. DOMAIN cs \subseteq Nat /\ 14 \in DOMAIN cs
    BY <2>1
  <2> QED BY <1>1, <2>1, <2>7, <2>8
<1>3. CASE c # "scheduler"
  <2> DEFINE container == FirstContainer(TemplateOf(c, s))
             cs == WorkerParts(s, container)
  <2> USE DEF WorkerParts
  <2>1. /\ DOMAIN cs = 1..17 /\ cs[15] = composedRuntimeConfig(s)
        /\ PatchOf(c, s) = Joined(cs)
    BY <1>3 DEF PatchOf, computedWorkerPodSpec
  <2>2. /\ NoRelease(cs[1]) /\ NoRelease(cs[2]) /\ NoRelease(cs[5]) /\ NoRelease(cs[6])
        /\ NoRelease(cs[8]) /\ NoRelease(cs[11])
    BY SettingNoRelease DEF hostMetricsDisabled, resolveClusterID, resolveLogLevel,
                            workerHeartBeatInterval
  <2>3. NoRelease(cs[3]) /\ NoRelease(cs[7]) /\ NoRelease(cs[16]) /\ NoRelease(cs[12])
    BY PlainNoRelease DEF cpuReserved
  <2>4. NoRelease(cs[9]) /\ NoRelease(cs[13]) /\ NoRelease(cs[17])
    BY LicenseNoRelease, ShuffleNoRelease, DataNoRelease
  <2>5. NoRelease(cs[10]) /\ NoRelease(cs[14])
    BY PlainNoRelease, SettingNoRelease, LocationNoRelease
       DEF telemetry, computedCheckpointDataEnv
  <2>6. NoRelease(cs[4])
    BY PlainNoRelease, ThreeNoRelease DEF staticLeader
  <2> HIDE DEF cs
  <2>7. \A j \in DOMAIN cs : j # 15 => NoRelease(cs[j])
    BY <2>1, <2>2, <2>3, <2>4, <2>5, <2>6
  <2>8. DOMAIN cs \subseteq Nat /\ 15 \in DOMAIN cs
    BY <2>1
  <2> QED BY <1>1, <2>1, <2>7, <2>8
<1> QED BY <1>2, <1>3

\* An entry that only the operator has is the operator's.
LEMMA OursAlone ==
    ASSUME NEW theirs, NEW ours, NEW k \in DOMAIN ours \ DOMAIN theirs
    PROVE  k \in DOMAIN Merged(theirs, ours) /\ Merged(theirs, ours)[k] = ours[k]
<1> DEFINE both == [x \in DOMAIN ours \cap DOMAIN theirs |-> ours[x] ++ theirs[x]]
<1>1. k \in DOMAIN (ours ++ theirs) /\ (ours ++ theirs)[k] = ours[k]
  BY DEF ++
<1>2. k \notin DOMAIN both
  OBVIOUS
<1>3. Merged(theirs, ours) = both ++ (ours ++ theirs)
  BY DEF Merged
<1> HIDE DEF both
<1>4. k \in DOMAIN (ours ++ theirs) \ DOMAIN both
  BY <1>1, <1>2
<1> QED BY <1>1, <1>3, <1>4, KeptByOverride

\* So the spec of a pod tells the release, unless the user's template imitates it.
LEMMA PodTellsRelease ==
    ASSUME ReleaseNamesAreOurs, NEW s, IsSpec(s), NEW c \in PodNames
    PROVE  /\ s.runtime => ReleaseIn(Wanted(c, s).podSpec, s)
           /\ ~s.runtime => NoRelease(Wanted(c, s).podSpec)
<1> DEFINE user == TemplateOf(c, s)
           patch == PatchOf(c, s)
           p == Wanted(c, s).podSpec
<1>1. s.license \in LicenseSpec
  BY FieldValuesAssumption DEF IsSpec, SpecFields
<1>2. /\ s.runtime => ReleaseIn(patch, s)
      /\ ~s.runtime => NoRelease(patch)
  BY <1>1, PatchRelease
<1>3. "release-data" \notin DOMAIN user.volumes /\ "release" \notin DOMAIN user.init
  BY DEF IsSpec, SpecFields, ReleaseNamesAreOurs, TemplateOf, PodNames
<1>4. /\ p.volumes = Merged(user.volumes, patch.volumes)
      /\ p.init = Merged(user.init, patch.init)
  BY PodParts
<1> HIDE DEF user, patch, p
<1>5. /\ DOMAIN p.volumes = DOMAIN user.volumes \cup DOMAIN patch.volumes
      /\ DOMAIN p.init = DOMAIN user.init \cup DOMAIN patch.init
  BY <1>4, OursInDomain
<1>6. CASE s.runtime
  <2>1. ReleaseIn(patch, s)
    BY <1>2, <1>6
  <2>2. p.volumes["release-data"] = patch.volumes["release-data"]
    BY <1>3, <1>4, <2>1, OursAlone DEF ReleaseIn
  <2>3. ~s.imageVolume => p.init["release"] = patch.init["release"]
    BY <1>3, <1>4, <2>1, OursAlone DEF ReleaseIn
  <2>4. ReleaseIn(p, s)
    BY <1>5, <2>1, <2>2, <2>3 DEF ReleaseIn
  <2> QED BY <1>6, <2>4 DEF p
<1>7. CASE ~s.runtime
  <2>1. NoRelease(p)
    BY <1>2, <1>3, <1>5, <1>7 DEF NoRelease
  <2> QED BY <1>7, <2>1 DEF p
<1> QED BY <1>6, <1>7

\* Two specs with the same pod have the same tag.
LEMMA TagInPod ==
    ASSUME ReleaseNamesAreOurs, NEW c \in PodNames, NEW s, IsSpec(s), NEW r, IsSpec(r),
           Wanted(c, s).podSpec = Wanted(c, r).podSpec
    PROVE  distTag(s) = distTag(r)
<1> DEFINE p == Wanted(c, s).podSpec
<1>1. /\ s.runtime => ReleaseIn(p, s)
      /\ ~s.runtime => NoRelease(p)
      /\ r.runtime => ReleaseIn(p, r)
      /\ ~r.runtime => NoRelease(p)
  BY PodTellsRelease
<1> HIDE DEF p
<1>2. s.runtime <=> r.runtime
  BY <1>1 DEF ReleaseIn, NoRelease
<1>3. CASE ~s.runtime
  BY <1>2, <1>3 DEF distTag
<1>4. CASE s.runtime
  <2> DEFINE image(x) == [image |-> <<"dist", x>>]
  <2>1. ReleaseIn(p, s) /\ ReleaseIn(p, r)
    BY <1>1, <1>2, <1>4
  <2>2. \A x, y : image(x) = image(y) => x = y
    <3> SUFFICES ASSUME NEW x, NEW y, image(x) = image(y) PROVE x = y
      OBVIOUS
    <3>1. image(x).image[2] = x /\ image(y).image[2] = y
      OBVIOUS
    <3> QED BY <3>1
  <2>3. \A x : image(x) # EmptyDir
    <3>1. \A x : "image" \in DOMAIN image(x)
      OBVIOUS
    <3>2. "image" \notin DOMAIN EmptyDir
      BY DEF EmptyDir
    <3> HIDE DEF image
    <3> QED BY <3>1, <3>2
  <2>4. /\ p.volumes["release-data"] = IF s.imageVolume THEN image(distTag(s)) ELSE EmptyDir
        /\ p.volumes["release-data"] = IF r.imageVolume THEN image(distTag(r)) ELSE EmptyDir
        /\ ~s.imageVolume => p.init["release"] = image(distTag(s))
        /\ ~r.imageVolume => p.init["release"] = image(distTag(r))
    BY <2>1 DEF ReleaseIn
  <2> HIDE DEF image
  <2>5. image(distTag(s)) = image(distTag(r))
    BY <2>3, <2>4
  <2> QED BY <2>2, <2>5
<1> QED BY <1>3, <1>4

\* The operator's labels are those of the component and of the tag.
LabelsOf(c, tag) ==
    [k \in {"component", "appComponent"} \cup (IF tag = "" THEN {} ELSE {"version"}) |->
        IF k = "version" THEN tag ELSE c]

LEMMA LabelsTell ==
    ASSUME ReleaseNamesAreOurs, NEW c \in PodNames, NEW s, IsSpec(s)
    PROVE  OperatorLabels(Wanted(c, s).labels) = LabelsOf(c, distTag(s))
<1> DEFINE user == TemplateOf(c, s).labels
           tag == distTag(s)
           version == IF tag = "" THEN <<>> ELSE [version |-> tag]
           own == [component |-> c] ++ user
           std == [appComponent |-> c] ++ version
           labels == std ++ own
<1>1. "version" \notin DOMAIN user
  BY DEF IsSpec, SpecFields, ReleaseNamesAreOurs, TemplateOf, PodNames
<1>2. Wanted(c, s).labels = labels
  BY DEF Wanted, BuildSchedulerPodTemplate, BuildWorkerPodTemplate, BuildPod, TemplateOf,
         PodNames, applyPodLabels, standardLabels
<1> HIDE DEF user, tag
<1>3. DOMAIN version = IF tag = "" THEN {} ELSE {"version"}
  OBVIOUS
<1>4. tag # "" => version["version"] = tag
  OBVIOUS
<1> HIDE DEF version
<1>5. /\ DOMAIN std = {"appComponent"} \cup DOMAIN version
      /\ std["appComponent"] = c
      /\ tag # "" => std["version"] = tag
  BY <1>3, <1>4 DEF ++
<1>6. DOMAIN own = {"component"} \cup DOMAIN user /\ own["component"] = c
  BY DEF ++
<1> HIDE DEF std, own
<1>7. DOMAIN labels = DOMAIN std \cup DOMAIN own
  BY DEF ++
<1>8. \A k \in DOMAIN labels : labels[k] = IF k \in DOMAIN std THEN std[k] ELSE own[k]
  BY DEF ++
<1> HIDE DEF labels
<1>9. {"component", "appComponent", "version"} \cap DOMAIN labels
         = {"component", "appComponent"} \cup (IF tag = "" THEN {} ELSE {"version"})
  BY <1>1, <1>3, <1>5, <1>6, <1>7
<1>10. /\ labels["component"] = c /\ labels["appComponent"] = c
       /\ tag # "" => labels["version"] = tag
  BY <1>1, <1>3, <1>5, <1>6, <1>7, <1>8
<1>11. OperatorLabels(labels) = LabelsOf(c, tag)
  BY <1>9, <1>10 DEF OperatorLabels, LabelsOf
<1> QED BY <1>2, <1>11 DEF tag

\* A pod that stays keeps the labels of the spec it was made for; the hash, which
\* is that spec's, keeps them right.
TagInv ==
    /\ CurrentInv
    /\ \A c \in PodNames : pods[c] # NoPod =>
           OperatorLabels(pods[c].labels) = LabelsOf(c, distTag(pods[c].from))

LEMMA NextTagInv ==
    ASSUME ReleaseNamesAreOurs, TagInv, [Next]_vars
    PROVE  TagInv'
<1>1. /\ CurrentInv' /\ BuiltInv /\ BuiltInv' /\ IsSpec(spec)
      /\ \A c \in PodNames : Follows(c)
  BY NextCurrentInv, PodsFollow DEF TagInv, CurrentInv, BuiltInv
<1>2. ASSUME NEW c \in PodNames, pods'[c] # NoPod
      PROVE  OperatorLabels(pods'[c].labels) = LabelsOf(c, distTag(pods'[c].from))
  <2>1. CASE pods'[c] = pods[c]
    BY <1>2, <2>1 DEF TagInv
  <2>2. CASE /\ pods'[c].from = spec
             /\ pods'[c].labels = Wanted(c, spec).labels
    BY <1>1, <2>2, LabelsTell
  <2>3. CASE /\ pods'[c].from = spec /\ pods'[c].podSpec = Wanted(c, spec).podSpec
             /\ pods[c] # NoPod /\ pods'[c].labels = pods[c].labels
             /\ pods'[c].podSpec = pods[c].podSpec
    <3>1. IsSpec(pods[c].from) /\ pods[c].podSpec = Wanted(c, pods[c].from).podSpec
      BY <1>1, <2>3 DEF BuiltInv
    <3>2. Wanted(c, pods[c].from).podSpec = Wanted(c, spec).podSpec
      BY <2>3, <3>1
    <3>3. distTag(pods[c].from) = distTag(spec)
      <4>1. IsSpec(spec)
        BY <1>1
      <4> QED BY <3>1, <3>2, <4>1, TagInPod
    <3>4. OperatorLabels(pods[c].labels) = LabelsOf(c, distTag(pods[c].from))
      BY <2>3 DEF TagInv
    <3> QED BY <2>3, <3>3, <3>4
  <2> QED BY <1>1, <1>2, <2>1, <2>2, <2>3 DEF Follows
<1>3. (\A c \in PodNames : pods[c] # NoPod =>
          OperatorLabels(pods[c].labels) = LabelsOf(c, distTag(pods[c].from)))'
  BY <1>2
<1> QED BY <1>1, <1>3 DEF TagInv

\* The hash that decides on a replacement leaves the labels out.  Through every
\* edit, gate and failed pass, once nothing is due and no spec error stands, each
\* running pod nevertheless has both the spec and the operator's labels that the
\* current cluster spec computes, provided that no template of the user's takes
\* the names the release is told by.
THEOREM PodsAreCurrent == ReleaseNamesAreOurs => (Spec => []PodsFollowSpec)
<1> SUFFICES ASSUME ReleaseNamesAreOurs PROVE Spec => []PodsFollowSpec
  OBVIOUS
<1>1. ASSUME Init PROVE TagInv
  BY <1>1, InitCurrentInv DEF Init, TagInv, PodNames
<1>2. ASSUME TagInv, [Next]_vars PROVE TagInv'
  BY <1>2, NextTagInv
<1>3. ASSUME TagInv PROVE PodsFollowSpec
  <2> SUFFICES ASSUME Settled, error = "none" PROVE PodSpecsFollow /\ LabelsFollow
    BY DEF PodsFollowSpec
  <2>1. PodSpecsFollow
    BY <1>3, CurrentPods DEF TagInv
  <2>2. BuiltInv /\ Running = {c \in PodNames : pods[c] # NoPod}
    BY <1>3, RunningPods DEF TagInv, CurrentInv, BuiltInv
  <2>3. ASSUME NEW c \in Running
        PROVE  OperatorLabels(pods[c].labels) = OperatorLabels(Wanted(c, spec).labels)
    <3>1. c \in PodNames /\ pods[c] # NoPod
      BY <2>2
    <3>2. /\ IsSpec(spec) /\ IsSpec(pods[c].from)
          /\ pods[c].podSpec = Wanted(c, pods[c].from).podSpec
      BY <2>2, <3>1 DEF BuiltInv
    <3>3. pods[c].podSpec = Wanted(c, spec).podSpec
      BY <2>1 DEF PodSpecsFollow
    <3>4. distTag(pods[c].from) = distTag(spec)
      BY <3>1, <3>2, <3>3, TagInPod
    <3>5. OperatorLabels(pods[c].labels) = LabelsOf(c, distTag(pods[c].from))
      BY <1>3, <3>1 DEF TagInv
    <3>6. OperatorLabels(Wanted(c, spec).labels) = LabelsOf(c, distTag(spec))
      BY <3>1, <3>2, LabelsTell
    <3> QED BY <3>4, <3>5, <3>6
  <2> QED BY <2>1, <2>3 DEF LabelsFollow
<1> QED BY <1>1, <1>2, <1>3, PTL DEF Spec

=============================================================================
