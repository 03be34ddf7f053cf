---------------------------- MODULE PodTemplate ----------------------------
(***************************************************************************)
(* What the operator makes of a cluster spec: the scheduler's and the      *)
(* workers' pod, each the strategic merge of what the operator computes    *)
(* onto the user's podTemplate, and when a running pod is replaced.        *)
(*                                                                         *)
(* Every list of a pod that the API merges by key (containers, env,        *)
(* volumes, mounts, ports, init containers) is a function from that key to *)
(* the entry, and an entry is a function from its fields to their values,  *)
(* so that merging is ++ at both levels.  An environment variable is named *)
(* by <<section, leaf>>, a path by the directory it lies in.               *)
(*                                                                         *)
(* One worker pod stands for the pool: SchedulerPod and WorkerPool have    *)
(* the requests one by one, here the passes are sequential.                *)
(***************************************************************************)
EXTENDS Naturals, Sequences, FiniteSets, TLC

CONSTANTS
    FirstSpecs,   \* the specs users start from
    FieldValues,  \* for each field of a spec, the values users give it
    MaxDiffering  \* bound: fields that differ from a first spec

-----------------------------------------------------------------------------
(* The spec. *)

\* Where shuffle, checkpoint and anonymous result data go.
Locations == {"none", "s3", "abs", "gcs", "shared", "local", "localPath"}

LicenseSpec == [kind : {"onPrem", "onPremEnterprise", "cloud"},
                credentials : {"value", "from"},
                claim : {"", "claim"}, registerNode : BOOLEAN]

\* Settings that end up in one environment variable each.
Settings ==
    {"logLevel", "clusterID", "acceptEula", "hostMetricsOff", "lineage",
     "allowLocalScans", "maxMetricsBytes", "checkpointPeriod",
     "heartBeatInterval", "hdfs", "clusterDomain"}

ServiceAccountSpec == [set : BOOLEAN, create : BOOLEAN, name : {"", "mine"}]

\* The fields of a spec that pods are composed from.
SpecFields ==
    {"version", "runtime", "distTag", "pythonTag", "imageVolume", "requirements",
     "license", "settings", "telemetry", "shuffle", "checkpoint",
     "anonymousResults", "observatoryClaim", "temporaryClaim", "replicas",
     "pullSecrets", "schedulerTemplate", "workerTemplate", "schedulerAccount",
     "workerAccount"}

\* Of a podTemplate: its containers are a list, a probe maps fields to values.
IsTemplate(template) ==
    LET containers == template.containers IN
    /\ containers \in Seq({containers[i] : i \in DOMAIN containers})
    /\ \A i \in DOMAIN containers :
          LET probe == containers[i].probe IN probe = [k \in DOMAIN probe |-> probe[k]]

\* A spec has a value in each of its fields.
IsSpec(s) == DOMAIN s = SpecFields /\ \A f \in SpecFields : s[f] \in FieldValues[f]

ASSUME FieldValuesAssumption ==
    /\ DOMAIN FieldValues = SpecFields
    /\ \A s \in FirstSpecs : IsSpec(s)
    /\ FieldValues.replicas \subseteq Nat
    /\ \A v \in FieldValues.license : v \in LicenseSpec
    /\ \A v \in FieldValues.settings : v \subseteq Settings
    /\ FieldValues.shuffle \cup FieldValues.checkpoint \cup FieldValues.anonymousResults
           \subseteq Locations
    /\ FieldValues.schedulerAccount \cup FieldValues.workerAccount
           \subseteq ServiceAccountSpec
    /\ \A t \in FieldValues.schedulerTemplate \cup FieldValues.workerTemplate :
           IsTemplate(t)
ASSUME BoundsAssumption == MaxDiffering \in Nat \ {0}

VARIABLES
    spec,   \* the cluster's spec
    pods,   \* the running pod of each component
    pc,     \* which handler of the pass is next
    due,    \* the cluster is queued
    error   \* the part whose spec error the last pass recorded

vars == <<spec, pods, pc, due, error>>

-----------------------------------------------------------------------------
(* Maps: what f has, and what g has besides; and a single entry. *)

f ++ g ==
    [k \in DOMAIN f \cup DOMAIN g |-> IF k \in DOMAIN f THEN f[k] ELSE g[k]]

Entry(key, value) == [k \in {key} |-> value]

-----------------------------------------------------------------------------
(* The version and the labels. *)

ParseSemantic ==
    [v \in {"0.7.0", "0.7.1", "0.8.0"} |->
        CASE v = "0.7.0" -> 70 [] v = "0.7.1" -> 71 [] v = "0.8.0" -> 80]
minSupportedVersion == 71
minCloudLicenseVersion == 80

\* Bug: the cloud license's own minimum is not looked at.
clusterVersionNoCloudBug(s) ==
    \/ s.version \in {"", "latest"}
    \/ /\ s.version \in DOMAIN ParseSemantic
       /\ ParseSemantic[s.version] >= minSupportedVersion

\* Whether spec.version is one the operator can work with.
clusterVersion(s) ==
    \/ s.version \in {"", "latest"}
    \/ /\ s.version \in DOMAIN ParseSemantic
       /\ ParseSemantic[s.version] >= minSupportedVersion
       /\ s.license.kind = "cloud" =>
              ParseSemantic[s.version] >= minCloudLicenseVersion

\* Bug: the version is the tag even when no runtime uses it.
distTagNoRuntimeBug(s) == IF s.distTag # "" THEN s.distTag ELSE s.version

distTag(s) ==
    CASE ~s.runtime -> ""
      [] s.runtime /\ s.distTag # "" -> s.distTag
      [] OTHER -> s.version

\* The app.kubernetes.io labels, of which instance and component select pods.
standardLabels(s, component) ==
    [appComponent |-> component]
        ++ (IF distTag(s) = "" THEN <<>> ELSE [version |-> distTag(s)])

applyPodLabels(labels, s, component) ==
    standardLabels(s, component) ++ ([component |-> component] ++ labels)

resolveServiceAccountName(account, defaultName) ==
    CASE account.set /\ account.name # "" -> account.name
      [] account.set /\ account.name = "" /\ account.create -> defaultName
      [] OTHER -> "default"

-----------------------------------------------------------------------------
(* What each option contributes to the computed pod. *)

Nothing == [env |-> <<>>, mounts |-> <<>>, volumes |-> <<>>, init |-> <<>>,
            ports |-> <<>>, fields |-> <<>>]

\* Appending: where two contributions set one variable the later one counts.
Joined(contributions) ==
    [k \in DOMAIN Nothing |->
        LET set(i) == DOMAIN contributions[i][k]
            last(x) == CHOOSE i \in DOMAIN contributions :
                           /\ x \in set(i)
                           /\ \A j \in DOMAIN contributions : x \in set(j) => j <= i
        IN  [x \in UNION {set(i) : i \in DOMAIN contributions} |->
                 contributions[last(x)][k][x]]]

\* The envBuilder's String and FieldRef.
String(section, leaf, value) ==
    [Nothing EXCEPT !.env = Entry(<<section, leaf>>, [value |-> value])]
FieldRef(section, leaf, path) ==
    [Nothing EXCEPT !.env = Entry(<<section, leaf>>, [valueFrom |-> path])]

ValueOrSource(section, leaf, kind) ==
    IF kind = "from" THEN FieldRef(section, leaf, "source")
                     ELSE String(section, leaf, "literal")

\* A setting with a default, and one that is only there when set.
Defaulted(s, section, setting) ==
    String(section, setting, IF setting \in s.settings THEN "set" ELSE "default")
Optional(s, section, setting) ==
    IF setting \in s.settings THEN String(section, setting, "set") ELSE Nothing

resolveClusterID(s) == Defaulted(s, "cublet", "clusterID")
resolveLogLevel(s) == Defaulted(s, "", "logLevel")
hostMetricsDisabled(s) == Optional(s, "monitoring", "hostMetricsOff")
observatoryMaxMetricsBytes(s) == Defaulted(s, "observatory", "maxMetricsBytes")
workerHeartBeatInterval(s) == Defaulted(s, "worker", "heartBeatInterval")
checkpointPeriod(s) ==
    IF s.checkpoint = "none" THEN Nothing
    ELSE Defaulted(s, "scheduler", "checkpointPeriod")

telemetry(s) ==
    IF s.telemetry = "none" THEN Nothing
    ELSE ValueOrSource("", "OTLP_ENDPOINT", s.telemetry)

Volume(name, source) == [Nothing EXCEPT !.volumes = Entry(name, source)]
Mount(name, path) == [Nothing EXCEPT !.mounts = Entry(path, [name |-> name])]
EmptyDir == [emptyDir |-> ""]
pvcRefVolume(claim) == [persistentVolumeClaim |-> claim]

\* A volume mounted at a path.
Data(name, source, path) == Joined(<<Volume(name, source), Mount(name, path)>>)

\* The distribution: mounted as an image, or copied by an init container.
release(s) ==
    IF s.imageVolume
    THEN Data("release-data", [image |-> <<"dist", distTag(s)>>], "/emptydir")
    ELSE Joined(<<Data("release-data", EmptyDir, "/emptydir"),
                  [Nothing EXCEPT !.init =
                       [release |-> [image |-> <<"dist", distTag(s)>>]]]>>)

requirements(s) ==
    IF s.requirements
    THEN Joined(<<Data("requirements-data", EmptyDir, "/requirements"),
                  String("", "PYTHON_REQUIREMENTS", "/requirements"),
                  [Nothing EXCEPT !.init =
                       [requirements |-> [image |-> <<"python", s.pythonTag>>]]]>>)
    ELSE Nothing

composedRuntimeConfig(s) ==
    IF ~s.runtime THEN Nothing
    ELSE Joined(<<release(s), Data("tmp-data", EmptyDir, "/tmp"),
                  String("", "UV_PATH", "/emptydir"), requirements(s),
                  [Nothing EXCEPT !.fields =
                       [image |-> <<"python", s.pythonTag>>,
                        command |-> "/emptydir", workingDir |-> "/tmp"]]>>)

enterpriseLicenseConfig ==
    Joined(<<Data("license", [secret |-> "license"], "/mnt/license/"),
             String("license", "license_path", "/mnt/license/")>>)

cloudLicenseEnv(license) ==
    Joined(<<String("cloud", "cert_dir", "/mnt/cloud_license/"),
             IF license.registerNode
             THEN ValueOrSource("cloud", "private_address", license.credentials)
             ELSE Nothing>>)

cloudLicenseConfig ==
    Data("cloud-license", [secret |-> "certificate"], "/mnt/cloud_license/")

schedulerLicenseConfig(license) ==
    CASE license.kind = "onPrem" ->
            Joined(<<ValueOrSource("on_prem", "client_id", license.credentials),
                     String("on_prem", "cert_dir", "/mnt/license_data"),
                     Data("license-data",
                          IF license.claim = "" THEN EmptyDir
                          ELSE pvcRefVolume(license.claim),
                          "/mnt/license_data")>>)
      [] license.kind = "onPremEnterprise" -> enterpriseLicenseConfig
      [] license.kind = "cloud" ->
            Joined(<<cloudLicenseEnv(license), cloudLicenseConfig>>)

\* Only the scheduler talks to the cloud; its workers need no license.
workerLicenseConfig(license) ==
    CASE license.kind = "onPrem" -> String("on_prem", "enabled", "true")
      [] license.kind = "onPremEnterprise" -> enterpriseLicenseConfig
      [] license.kind = "cloud" -> Nothing

\* The variables of a storage location outside the pod; the user's options
\* follow the url and may come from a Secret.  An option named url, too, which
\* would make two variables of one name, is left out.
Location(section, location) ==
    CASE location \in {"s3", "abs", "gcs"} ->
            Joined(<<String(section, location, "url"),
                     FieldRef(section, "option", "secret")>>)
      [] location \in {"shared", "localPath"} ->
            String(section, location, "user's path")
      [] OTHER -> Nothing

computedAnonymousResultsEnv(s) ==
    Location("anonymous_result_location", s.anonymousResults)

computedCheckpointDataEnv(s) == Location("checkpoint_location", s.checkpoint)

\* Bug: the default path is set, its volume forgotten.
computedShuffleDataNoVolumeBug(s) ==
    IF s.shuffle \in {"none", "local"}
    THEN Joined(<<String("shuffle_location", "local", "/app/shuffle_data"),
                  [Nothing EXCEPT !.ports = Entry("5053", [name |-> "worker-flight"])]>>)
    ELSE Location("shuffle_location", s.shuffle)

\* Only the default place is the operator's; every local one needs the port.
computedShuffleDataConfig(s) ==
    Joined(<<IF s.shuffle \in {"none", "local"}
             THEN Joined(<<String("shuffle_location", "local", "/app/shuffle_data"),
                           Data("shuffle-data", EmptyDir, "/app/shuffle_data")>>)
             ELSE Location("shuffle_location", s.shuffle),
             IF s.shuffle \in {"none", "local", "localPath"}
             THEN [Nothing EXCEPT !.ports = Entry("5053", [name |-> "worker-flight"])]
             ELSE Nothing>>)

observatoryDataVolume(s) ==
    IF s.observatoryClaim = "" THEN EmptyDir ELSE pvcRefVolume(s.observatoryClaim)

ephemeralClaimVolume(size) == [ephemeral |-> size]

computedTemporaryDataVolume(s) ==
    IF s.temporaryClaim = "" THEN EmptyDir
    ELSE ephemeralClaimVolume(s.temporaryClaim)

-----------------------------------------------------------------------------
(* The computed pods and the Services in front of the scheduler. *)

defaultSchedulerReadinessProbe == [tcpSocket |-> "5051"]
defaultWorkerReadinessProbe == [grpc |-> "5052"]

\* The Services' ports; each is also its target port.
desiredServices == [scheduler |-> {"5051"}, internal |-> {"5050", "5049"},
                    observatory |-> {"3001"}]
selector == [component |-> "scheduler"]

schedulerPorts ==
    (Entry("5051", [name |-> "sched"]) ++ Entry("5050", [name |-> "worker-sched"]))
        ++ (Entry("5049", [name |-> "obser-grpc"]) ++ Entry("3001", [name |-> "obser-rest"]))

\* Bug: the scheduler is told the workers' DNS domain, too.
schedulerSettingsDomainBug(s) ==
    Joined(<<hostMetricsDisabled(s), Defaulted(s, "scheduler", "allowLocalScans"),
             Optional(s, "", "acceptEula"), Optional(s, "cublet", "clusterDomain")>>)

schedulerSettings(s) ==
    Joined(<<hostMetricsDisabled(s), Defaulted(s, "scheduler", "allowLocalScans"),
             Optional(s, "", "acceptEula")>>)

computedSchedulerPodSpec(s) ==
    Joined(<<resolveClusterID(s), FieldRef("cublet", "instance_id", "metadata.name"),
             observatoryMaxMetricsBytes(s),
             String("observatory", "database_path", "/app/observatory_data"),
             Data("observatory-data", observatoryDataVolume(s),
                  "/app/observatory_data"),
             schedulerSettings(s), schedulerLicenseConfig(s.license),
             String("scheduler", "n_workers", ToString(s.replicas)),
             computedAnonymousResultsEnv(s), checkpointPeriod(s),
             Optional(s, "cublet", "lineage"), telemetry(s), resolveLogLevel(s),
             composedRuntimeConfig(s),
             [Nothing EXCEPT !.ports = schedulerPorts]>>)

\* The CPU request of the user's container is told to the worker.
cpuReserved(container) ==
    IF "cpu" \in DOMAIN container.fields
    THEN String("cublet", "cpu_reserved", container.fields["cpu"]) ELSE Nothing

\* Bug: the workers look for the observatory on its REST port.
staticLeaderRestBug(s) ==
    Joined(<<String("static_leader", "hostname", "internal"),
             String("static_leader", "scheduler_port", "5050"),
             String("static_leader", "observatory_port", "3001")>>)

\* Where a worker finds its scheduler and the observatory; the cluster domain
\* only makes the name absolute.
staticLeader(s) ==
    Joined(<<String("static_leader", "hostname",
                    IF "clusterDomain" \in s.settings THEN "internal.svc."
                                                      ELSE "internal"),
             String("static_leader", "scheduler_port", "5050"),
             String("static_leader", "observatory_port", "5049")>>)

computedWorkerPodSpec(s, container) ==
    Joined(<<hostMetricsDisabled(s), resolveClusterID(s),
             FieldRef("cublet", "instance_id", "metadata.name"),
             staticLeader(s), workerHeartBeatInterval(s), Optional(s, "extras", "hdfs"),
             String("", "POLARS_TEMP_DIR", "/app/temporary_data"),
             Optional(s, "", "acceptEula"), workerLicenseConfig(s.license),
             telemetry(s), resolveLogLevel(s), cpuReserved(container),
             computedShuffleDataConfig(s), computedCheckpointDataEnv(s),
             composedRuntimeConfig(s),
             [Nothing EXCEPT !.ports = Entry("5052", [name |-> "worker-service"])],
             Data("temporary-data", computedTemporaryDataVolume(s),
                  "/app/temporary_data")>>)

-----------------------------------------------------------------------------
(* The merge with the user's podTemplate. *)

NoContainer == [name |-> "", fields |-> <<>>, env |-> <<>>, mounts |-> <<>>,
                ports |-> <<>>, probe |-> <<>>]

NoTemplate == [containers |-> <<>>, init |-> <<>>, volumes |-> <<>>,
               pullSecrets |-> {}, labels |-> <<>>]

\* The container the computed spec is merged onto.
FirstContainer(template) ==
    IF template.containers = <<>> THEN NoContainer ELSE Head(template.containers)

\* Bug: a list of the computed spec replaces the user's.
MergedReplaceBug(base, patch) == IF patch = <<>> THEN base ELSE patch

\* A list merged by key: the entries of both, the fields of an entry in both
\* overridden by patch.
Merged(base, patch) ==
    [k \in DOMAIN patch \cap DOMAIN base |-> patch[k] ++ base[k]]
        ++ (patch ++ base)

\* StrategicMergePatch of the computed spec onto the template's: the first
\* container is the only one both name.
mergePodSpec(template, name, patch, probe, pullSecrets) ==
    LET base == FirstContainer(template)
        main == [name |-> name,
                 fields |-> patch.fields ++ base.fields,
                 env |-> Merged(base.env, patch.env),
                 mounts |-> Merged(base.mounts, patch.mounts),
                 ports |-> Merged(base.ports, patch.ports),
                 probe |-> probe ++ base.probe]
    IN  [containers |-> IF template.containers = <<>> THEN <<main>>
                        ELSE [template.containers EXCEPT ![1] = main],
         init |-> Merged(template.init, patch.init),
         volumes |-> Merged(template.volumes, patch.volumes),
         pullSecrets |-> template.pullSecrets \cup pullSecrets]

NoPod == [podSpec |-> <<>>, labels |-> <<>>, from |-> <<>>]

\* Bug: the default probe is injected beside the user's.
injectedProbeAlwaysBug(container, default) == default

injectedProbe(container, default) ==
    IF container.probe = <<>> THEN default ELSE <<>>

\* A podTemplate without a container will do only when a runtime brings one.
TemplateIsValid(s, template) == template.containers # <<>> \/ s.runtime

\* The pod; from is history, the spec it was last found right for.
BuildPod(s, component, template, patch, default, account) ==
    LET base == FirstContainer(template)
        name == IF template.containers = <<>> THEN component ELSE base.name
    IN  [podSpec |->
            [account |-> resolveServiceAccountName(account, component)]
                ++ mergePodSpec(template, name, patch,
                                injectedProbe(base, default), s.pullSecrets),
         labels |-> applyPodLabels(template.labels, s, component),
         from |-> s]

BuildSchedulerPodTemplate(s) ==
    BuildPod(s, "scheduler", s.schedulerTemplate, computedSchedulerPodSpec(s),
             defaultSchedulerReadinessProbe, s.schedulerAccount)

BuildWorkerPodTemplate(s) ==
    BuildPod(s, "worker", s.workerTemplate,
             computedWorkerPodSpec(s, FirstContainer(s.workerTemplate)),
             defaultWorkerReadinessProbe, s.workerAccount)

\* The hash covers the pod's spec and none of its metadata.
podTemplateHash(pod) == pod.podSpec

\* One source per volume and variable, a volume for every mount, no two ports
\* alike, and one kind of probe.
Consistent(volumes, c) ==
    LET one(entries) == \A k \in DOMAIN entries : Cardinality(DOMAIN entries[k]) = 1
    IN  /\ one(volumes) /\ one(c.env)
        /\ \A m \in DOMAIN c.mounts : c.mounts[m]["name"] \in DOMAIN volumes
        /\ \A i, j \in DOMAIN c.ports : i # j => c.ports[i] # c.ports[j]
        /\ Cardinality(DOMAIN c.probe) <= 1

\* The API server's validation, as far as a merge can offend it.
Admissible(pod) ==
    LET main == Head(pod.podSpec.containers)
    IN  Consistent(pod.podSpec.volumes, main) /\ "image" \in DOMAIN main.fields

-----------------------------------------------------------------------------
(* The users, and a pass of Reconcile. *)

\* Users change one field at a time, once the last change was dealt with.
Edit(field, value) ==
    /\ pc = "idle" /\ ~due
    /\ value # spec[field]
    /\ error # "none" => \E s \in FirstSpecs : value = s[field]  \* bound: errors are undone
    /\ spec' = [spec EXCEPT ![field] = value]
    /\ \E s \in FirstSpecs :
          Cardinality({f \in DOMAIN s : spec'[f] # s[f]}) <= MaxDiffering
    /\ due' = TRUE
    /\ UNCHANGED <<pods, pc, error>>

\* recordSpecError: the pass ends and is not tried again.
SpecError(part) ==
    /\ error' = part
    /\ pc' = "idle"

Begin ==
    /\ pc = "idle" /\ due
    /\ due' = FALSE
    /\ \/ /\ ~clusterVersion(spec)
          /\ SpecError("version")
       \/ /\ clusterVersion(spec)
          /\ pc' = "scheduler"
          /\ UNCHANGED error
    /\ UNCHANGED <<spec, pods>>

\* One pod by a stable name: an outdated one is deleted, and its successor
\* created by the pass its disappearance triggers.
ReconcileScheduler ==
    LET pod == BuildSchedulerPodTemplate(spec)
        running == pods["scheduler"]
        valid == TemplateIsValid(spec, spec.schedulerTemplate)
    IN  /\ pc = "scheduler"
        /\ \/ /\ ~valid \/ (running = NoPod /\ ~Admissible(pod))
              /\ SpecError("scheduler")
              /\ UNCHANGED <<pods, due>>
           \/ /\ valid /\ running = NoPod /\ Admissible(pod)
              /\ pods' = [pods EXCEPT !["scheduler"] = pod]
              /\ pc' = "workers"
              /\ UNCHANGED <<due, error>>
           \/ /\ valid /\ running # NoPod
              /\ podTemplateHash(running) # podTemplateHash(pod)
              /\ pods' = [pods EXCEPT !["scheduler"] = NoPod]
              /\ due' = TRUE
              /\ pc' = "workers"
              /\ UNCHANGED error
           \/ /\ valid /\ running # NoPod
              /\ podTemplateHash(running) = podTemplateHash(pod)
              /\ pods' = [pods EXCEPT !["scheduler"].from = spec]
              /\ pc' = "workers"
              /\ UNCHANGED <<due, error>>
        /\ UNCHANGED spec

\* Outdated workers are deleted and replaced in one pass, so the running ones
\* are gone when their replacement turns out to be inadmissible.
ReconcileWorkerPool ==
    LET pod == BuildWorkerPodTemplate(spec)
        running == pods["worker"]
        current == /\ running # NoPod
                   /\ podTemplateHash(running) = podTemplateHash(pod)
        valid == TemplateIsValid(spec, spec.workerTemplate)
    IN  /\ pc = "workers"
        /\ \/ /\ ~valid
              /\ SpecError("workers")
              /\ UNCHANGED pods
           \/ /\ valid /\ spec.replicas > 0 /\ ~current /\ ~Admissible(pod)
              /\ pods' = [pods EXCEPT !["worker"] = NoPod]
              /\ SpecError("workers")
           \/ /\ valid
              /\ spec.replicas = 0 \/ current \/ Admissible(pod)
              /\ pods' = [pods EXCEPT !["worker"] =
                              CASE spec.replicas = 0 -> NoPod
                                [] spec.replicas > 0 /\ current ->
                                       [running EXCEPT !.from = spec]
                                [] OTHER -> pod]
              /\ pc' = "idle"
              /\ error' = "none"
        /\ UNCHANGED <<spec, due>>

Init ==
    /\ spec \in FirstSpecs
    /\ pods = [c \in {"scheduler", "worker"} |-> NoPod]
    /\ pc = "idle"
    /\ due = TRUE
    /\ error = "none"

Next ==
    \/ \E f \in DOMAIN FieldValues : \E v \in FieldValues[f] : Edit(f, v)
    \/ Begin \/ ReconcileScheduler \/ ReconcileWorkerPool

Spec == Init /\ [][Next]_vars

-----------------------------------------------------------------------------
(* Properties. *)

Settled == pc = "idle" /\ ~due

Running == {c \in DOMAIN pods : pods[c] # NoPod}

\* The labels the operator sets, as opposed to those of the user's template.
OperatorLabels(labels) ==
    [k \in {"component", "appComponent", "version"} \cap DOMAIN labels |-> labels[k]]

\* The pod a spec asks for, and what it is merged from: the user's part and the
\* operator's.
Wanted(c, s) ==
    IF c = "scheduler" THEN BuildSchedulerPodTemplate(s) ELSE BuildWorkerPodTemplate(s)

TemplateOf(c, s) == IF c = "scheduler" THEN s.schedulerTemplate ELSE s.workerTemplate

PatchOf(c, s) ==
    IF c = "scheduler" THEN computedSchedulerPodSpec(s)
    ELSE computedWorkerPodSpec(s, FirstContainer(TemplateOf(c, s)))

\* A scheduler runs, and workers iff any are wanted, each as the spec asks for.
PodSpecsFollow ==
    /\ pods["scheduler"] # NoPod
    /\ pods["worker"] # NoPod <=> spec.replicas > 0
    /\ \A c \in Running : pods[c].podSpec = Wanted(c, spec).podSpec

LabelsFollow ==
    \A c \in Running :
        OperatorLabels(pods[c].labels) = OperatorLabels(Wanted(c, spec).labels)

\* The hash that decides on a replacement leaves the labels out, so they can
\* only stay right if whatever changes them changes the pod's spec as well.
\* Once a pass has gone through, each running pod has the spec and the
\* operator's labels that the cluster's current spec computes, a scheduler
\* runs, and workers run iff any are wanted.
PodsFollowSpec == Settled /\ error = "none" => PodSpecsFollow /\ LabelsFollow

\* What the labels depend on: users leave the names of the distribution's volume
\* and init container, and the version label, to the operator.
ReleaseNamesAreOurs ==
    \A t \in FieldValues.schedulerTemplate \cup FieldValues.workerTemplate :
        /\ "release-data" \notin DOMAIN t.volumes
        /\ "release" \notin DOMAIN t.init
        /\ "version" \notin DOMAIN t.labels

\* Through edits, gates and overrides, whatever pod runs was made for a release
\* the operator supports, and one with the cloud license for a release that
\* knows it, unless dist.tag replaces the release by a tag of its own.
RunsSupportedRelease ==
    \A c \in Running :
        LET tag == distTag(pods[c].from) IN
        tag \in DOMAIN ParseSemantic /\ pods[c].from.distTag = "" =>
            /\ ParseSemantic[tag] >= 71
            /\ pods[c].from.license.kind = "cloud" => ParseSemantic[tag] >= 80

\* The environment variables that hold a path, and the operator's directories.
PathVars == {<<"observatory", "database_path">>, <<"on_prem", "cert_dir">>,
             <<"license", "license_path">>, <<"cloud", "cert_dir">>,
             <<"shuffle_location", "local">>, <<"", "POLARS_TEMP_DIR">>,
             <<"", "PYTHON_REQUIREMENTS">>, <<"", "UV_PATH">>}

\* The directory of a path variable is mounted, from the operator's own volume.
IsBacked(p, patch, v) ==
    LET main == Head(p.containers)
        dir == main.env[v]["value"]
        volume == main.mounts[dir]["name"]
    IN  /\ dir \in DOMAIN main.mounts
        /\ volume \in DOMAIN patch.volumes \cap DOMAIN p.volumes
        /\ \A x \in DOMAIN patch.volumes[volume] :
              p.volumes[volume][x] = patch.volumes[volume][x]

\* Every path the operator tells a program of is a directory mounted in its
\* container from the operator's own volume, even when the user's template mounts
\* another at the same place or has a volume of the same name.
PathsAreBacked ==
    \A c \in Running :
        LET patch == PatchOf(c, pods[c].from) IN
        \A v \in PathVars \cap DOMAIN patch.env : IsBacked(pods[c].podSpec, patch, v)

\* The three Services select the scheduler's pod and no worker, whatever labels
\* the user's template carries; each of their ports is open on it; and the
\* workers look for scheduler and observatory at ports of the internal Service.
TrafficReachesScheduler ==
    \A c \in Running :
        LET main == Head(pods[c].podSpec.containers) IN
        /\ pods[c].labels["component"] = selector["component"] <=> c = "scheduler"
        /\ c = "scheduler" =>
              UNION {desiredServices[n] : n \in DOMAIN desiredServices}
                  \subseteq DOMAIN main.ports
        /\ c = "worker" =>
              {main.env[<<"static_leader", v>>]["value"] :
                   v \in {"scheduler_port", "observatory_port"}}
                  = desiredServices["internal"]

\* mergePodSpec merges "additively": sidecars, init containers, volumes, mounts,
\* variables, pull secrets and the probe of the user's template reach the pod
\* as written, unless the operator has an entry of the same key.
UserPartsSurvive ==
    \A c \in Running :
        LET s == pods[c].from
            p == pods[c].podSpec
            user == TemplateOf(c, s)
            patch == PatchOf(c, s)
            kept(theirs, ours, result) ==
                \A k \in DOMAIN theirs \ DOMAIN ours :
                    k \in DOMAIN result /\ result[k] = theirs[k]
        IN  /\ Tail(p.containers) = IF user.containers = <<>> THEN <<>>
                                    ELSE Tail(user.containers)
            /\ kept(user.volumes, patch.volumes, p.volumes)
            /\ kept(user.init, patch.init, p.init)
            /\ user.pullSecrets \subseteq p.pullSecrets
            /\ LET main == Head(p.containers)
                   base == FirstContainer(user)
               IN  /\ kept(base.env, patch.env, main.env)
                   /\ kept(base.mounts, patch.mounts, main.mounts)
                   /\ kept(base.ports, patch.ports, main.ports)
                   /\ kept(base.fields, patch.fields, main.fields)
                   /\ base.probe # <<>> => main.probe = base.probe

\* The names the operator uses: volumes, variables, ports and port names.
Collides(template, patch) ==
    LET base == FirstContainer(template)
        names(ports) == {ports[k]["name"] : k \in DOMAIN ports}
    IN  \/ DOMAIN template.volumes \cap DOMAIN patch.volumes # {}
        \/ DOMAIN base.env \cap DOMAIN patch.env # {}
        \/ names(base.ports) \cap names(patch.ports) # {}

\* Whatever options are combined, a pod is refused only for what the user's
\* template does: it is not consistent in itself, it shares a name with the
\* operator's part, or it leaves a cluster without a runtime without a container
\* or an image.  (No storage option is named url here: see Location.)
OnlyCollisionsAreRejected ==
    Settled /\ error \in {"scheduler", "workers"} =>
        LET c == IF error = "scheduler" THEN "scheduler" ELSE "worker"
            user == TemplateOf(c, spec)
        IN  \/ ~Consistent(user.volumes, FirstContainer(user))
            \/ Collides(user, PatchOf(c, spec))
            \/ ~spec.runtime /\ "image" \notin DOMAIN FirstContainer(user).fields

\* The fields and settings only a worker's pod depends on.
WorkerFields == {"shuffle", "temporaryClaim", "workerTemplate", "workerAccount"}
WorkerSettings == {"heartBeatInterval", "hdfs", "clusterDomain"}

\* Replacing the scheduler's pod ends every running query.  An edit that only
\* concerns the workers, other than to their number, never does it.
WorkerEditsSpareScheduler ==
    [][pods["scheduler"] # NoPod /\ pods'["scheduler"] = NoPod =>
          \E f \in DOMAIN spec \ WorkerFields :
              IF f = "settings"
              THEN spec[f] \ WorkerSettings
                       # pods["scheduler"].from[f] \ WorkerSettings
              ELSE spec[f] # pods["scheduler"].from[f]]_vars

=============================================================================
