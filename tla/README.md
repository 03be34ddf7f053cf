# Verification of the Polars Kubernetes operator

TLA+ models of the operator in `src/`, the TLC runs that check them on small
instances, and TLAPS proofs of the safety results for every instance.
`PROJECT.json` lists the components, runs, mutants, findings, hazards and
theorems, and maps every definition to the source lines it models.

`controller.go` below is `src/internal/controller/polarscluster_controller.go`.

## The system

The operator is one controller-runtime controller. Its only memory is the API
server: every pass of `Reconcile` starts from cached copies and forgets
everything when it returns.

| Component | State | Operations | Interacts through |
|---|---|---|---|
| Reconcile loop (`controller.go:78-174`) | a local copy of the PolarsCluster, `wasReady`, `routes.conflict` | cached Get, five handlers in order, status update, event, RequeueAfter | work queue, informer cache, API server |
| Spec errors and conditions (`176-227`) | conditions in the status | `recordSpecError`, `setReadyCondition` | status, events |
| Scheduler pod (`241-286`) | one pod with a fixed name | get, create, delete, report | pod cache, API server, kubelet |
| Worker pool (`288-403`) | pods with generated names | list, delete outdated, create lacking (4 at a time), delete surplus, count | pod cache, API server, kubelet |
| Services (`405-509`) | three Services | get, create or update, concurrently | Service cache, API server |
| Service accounts (`serviceaccount.go`) | up to two ServiceAccounts | create, tolerate AlreadyExists | API server |
| Routes (`routes.go`) | a GRPCRoute and an HTTPRoute | create or update, delete if owned, judge acceptance | route cache, API server, gateway |
| Pod templates (`*_pod.go`, `pod_common.go`, `podspec_merge.go`, `env_builder.go`) | none | pure composition of a pod spec, hashed by `podTemplateHash` | |
| Error classes (`errors.go`) | none | `classifyAPIError`, `reducePodErrors` | |
| Manager (`cmd/main.go`) | none | start caches, detect the Gateway API, run the controller | |

What is hard in it:

- **Caches trail.** Every read (the cluster, the pods) is of the past, every
  write is to the present. Status updates are guarded by the resourceVersion;
  creations are guarded by nothing (workers) or by a name (scheduler), deletions
  by a name alone.
- **Wake-ups.** Progress depends on the events of watched objects, on errors
  that put the key back, and on one RequeueAfter. Anything else that changes
  (a quota, an admission rule, a foreign route) is noticed by accident.
- **Half-done work.** A pass can stop after any request: an error, an answer
  that is lost after the request was applied, a crash.
- **Several passes share the status.** A pass that stops early rewrites some
  conditions and leaves the others.

What makes each component correct:

- Reconcile loop: what is published is consistent and about the generation it
  claims; readiness events agree with it; nothing is forgotten when the loop
  goes idle; every edit is observed.
- Scheduler pod: the pod of the current template comes back after every
  disturbance; only the outdated pod is deleted; its readiness gets reported.
- Worker pool: from any mess the pool converges to exactly the desired pods,
  and the counts are honest.
- Routes: the requested routes converge to the spec; routes of other controllers
  are left alone; a conflict is reported above lesser trouble and retried.
- Services: each converges to the spec whatever becomes of the others, and the
  updates issued in every pass do not keep the loop awake.
- Service accounts: they exist before a pod needs them.
- Pod templates: for every combination of options the composed pod is admissible,
  complete (paths mounted, ports open, release supported), keeps the user's parts,
  and changes its hash when and only when it must.
- All together: the handlers do not leave work undone for, or block, each other.

## Modules

| Module | Models |
|---|---|
| `Reconcile` | the reconcile loop of one key, conditions, spec errors, events |
| `StatusPublisher` | the abstract specification of the published status, which `Reconcile` implements |
| `SchedulerPod` | `reconcileScheduler` and the life of the scheduler pod |
| `WorkerPool` | `reconcileWorkerPool`, `reducePodErrors` and the life of the worker pods |
| `Services` | `reconcileServices`, `reconcileService`, `reducePodErrors` and the life of the Services |
| `Routes` | `reconcileRoutes`, `applyRoute`, `deleteOwnedRoute`, `routesStatus` and the life of the two routes |
| `PodTemplate` | the composed pods: `scheduler_pod.go`, `worker_pod.go`, `pod_common.go`, `env_builder.go`, `podspec_merge.go` |
| `Operator` | service accounts, scheduler and worker pool composed, sharing a quota |
| `MCReconcile`, `MCSchedulerPod`, `MCWorkerPool`, `MCServices`, `MCRoutes`, `MCPodTemplate`, `MCOperator` | the instances TLC checks |
| `ReconcileProofs`, `SchedulerPodProofs`, `WorkerPoolProofs`, `RoutesProofs`, `ServicesProofs`, `OperatorProofs`, `PodTemplateProofs` | theorems about the module of that name |
| `InformerProofs` | lemmas about caches that trail a stream of undelivered versions, shared by the proofs |

Operators named `...Bug` are broken variants of the definition that follows
them. No specification uses them; substituted for the original they show that
each property notices the mistake.

### Reconcile

`cluster` is the object in the API server, `stream` the versions the informer
has not seen, `view` its cached copy. The work queue has one entry per key:
absent, due, or delayed (rate limit or RequeueAfter); an event while a pass is
running leaves the key due, and one worker handles a key at a time, which is
what the queue of controller-runtime guarantees. `pc` walks through `Reconcile`:
`serviceAccounts`, `scheduler`, `services`, `workers`, `routes`, then `update`
and `emit`, or `updateError` after a spec error. Between two steps users edit,
delete and create the cluster, owned objects change, and the operator may crash.

- `mem` is the local variable `cluster`; `memFresh` says that its
  resourceVersion is still the API server's, which is all the compare-and-swap
  of `Status().Update` looks at. An update that changes nothing writes nothing.
- `health[p]` is the verdict handler `p` reaches on its objects: `ok`,
  `notReady`, `rejected` (a spec error), `conflict` (routes only). A change
  between ok and notReady is an event of a watched object and enqueues the key;
  a rejection or a conflict coming or going does not.
- A condition's message is the part it is about, its reason a class:
  `Reconciled`, `NotReady` or `SpecError`. `gen` is its observedGeneration.
- `told` is the last event about readiness, `missed` that one was lost (a crash
  or a lost answer between the update and the event).
- `Resync` is the informers' periodic resync. It has no fairness: with
  the default period of about ten hours nothing should depend on it.

### SchedulerPod and WorkerPool

Both refine one handler of `Reconcile` into its requests. The cached Get or List
is a step, every create and delete is a step, and the rest of `Reconcile` is a
status update that is refused when the spec has changed, or fails. A spec is its
generation and template hash (and replicas). For the scheduler a change of
replicas is a change of template too, because `n_workers` is a part of its
environment (`scheduler_pod.go:108`).

- A pod under deletion stays Ready until the kubelet stops it; one that no node
  runs yet vanishes at once. Others may delete a pod gracefully or by force.
- A request that fails may have been applied.
- Pod identities are recycled once nothing refers to them, so that behaviours
  of unbounded length fit into a finite model.
- In `WorkerPool` the creations of one pass are separate steps in any order:
  `ParallelizeUntil` attempts all of them and `reducePodErrors` weighs the
  outcomes, a transient error above a rejection. The cached list has no order,
  so a scale-down may pick any of the listed pods.

### Routes

`reconcileRoutes` goes through the GRPCRoute and the HTTPRoute in order. A route
is its controller (absent, nobody, the cluster, somebody else), its contents and
whether a parent has accepted it. `CreateOrUpdate` is a step that reads the
cache and judges what it finds (another controller, nothing to change), and a
step that writes, guarded by the resourceVersion (`copyFresh`) or, for a
creation, by the name. `deleteOwnedRoute` reads the cache in one step and
deletes by name in the next. Other clients create, edit and delete routes of
these names; only routes the cluster controls raise events for it. `enabled` is
the answer of `GatewayAPIInstalled` at start-up, so only a restart changes it.
`meddled` remembers that others created or deleted a route the cache may not
show yet. A pass that an earlier handler ends does not reach the routes and is
not a pass here.

### Services

The Services of a cluster are handled at the same time: each has its own `stage`
(get, create or update, done) and any interleaving of their requests is a
behaviour. A Service is whether it exists, whether a stranger made it (then it
has no owner reference, and its events do not reach the cluster), its
`config`, its `address`, and whether others have annotated it. `fresh` says that
the resourceVersion read is still the API server's. An update that changes nothing
raises no event.

What a spec asks of a Service (`Ask`) has two parts, as `reconcileService` has.
`config` is what creation and every update write: type, annotations, ports,
selector, publishNotReadyAddresses. `address` is what creation alone writes: the
immutable `clusterIP`, picked by the API server, given or None, and with it the
labels, whose version is that of the Service's creation for ever. An update sends
back the address that was read, so the API server judges the new `config`
together with the stored address (`Valid`): a NodePort or LoadBalancer cannot be
headless. A create is judged with the address of the spec, which may be invalid,
or taken by the very Service that the cache does not show yet
(`OwnAddressTaken`).

### PodTemplate

A spec is a record of the fields the composition looks at; settings that become
one environment variable each are a set, and values are abstracted to where they
come from (a literal, a Secret, a default). Lists which the API merges by key are
functions from the key, and their entries functions from the fields, so that the
strategic merge is `++` at both levels (what the left side has, and what the right
one has besides). Two sources in one volume or variable, a mount without a volume,
two handlers in a probe or one port name twice are then visible to `Consistent`,
which with the image is `Admissible`, the API server's validation. Of variables that
are always set alike (RUST_BACKTRACE, the constant switches) and options treated alike
(`client_id` for the three credentials, `hdfs` for the extras, the local scans
for the three permissions) one or none is kept. Every contribution keeps its
function of the source. Users edit a field at a time; passes compare hashes and
replace pods. `from` is the spec a running pod was last found right for.

### Operator

The handlers that make pods, one step each, in the order of `Reconcile`, over
shared state: the ServiceAccounts, the pods, the quota of the namespace and the
trailing pod cache. Worker pods are counts per template. The Services between
scheduler and workers appear as what they can do to the pass: reject
(`Rejected`) or fail (`PassFails`). A stale list may name pods that are gone
(`Deleted`). Pods on their way out still count against the quota. `refused` and
`bereft` are history.

### StatusPublisher

What a reader of the object may rely on: users create, edit and delete it, and
the operator only publishes verdicts, each about the generation the object has at
that moment, and Ready only when no condition is False. The refinement mapping
(`Published` in `Reconcile`) maps the object to its existence, uid and
generation, and the status to Ready, its observedGeneration and the conditions
that are False; cache, queue and pass disappear.

## Runs

All passing runs finish within about three minutes. Deadlock is checked in all
but `services` and `operator`, whose disturbances are bounded: when everything
has been disturbed and repaired the system may rest, and must
(`ComesToRest`, `Converges`).

| Run | Instance | Shows |
|---|---|---|
| `reconcile` | three specs (routes wanted, scheduler uncomposable, version invalid), two generations, two incarnations of the object under one name, all readiness flapping, worker rejections | the type invariant; Ready=True is earned; Ready=False is explained by the first blocking part; nothing is forgotten in a quiescent state; events agree with the status; no stale status write |
| `reconcile_live` | a routed and an invalid spec, two generations, two incarnations, routes flapping and conflicting, FairSpec | every edit is observed; a verdict that stays is published; the loop implements `StatusPublisher` |
| `scheduler_pod` | two templates, three generations, evictions, rejections, failures | the handler never goes to sleep on unfinished work; its delete hits the pod it looked at unless someone else deleted that one |
| `scheduler_live` | two generations, evictions, FairSpec | the pod comes back; readiness is reported |
| `workers` | three pods, two templates, 0 to 2 replicas, two generations, evictions, rejections | an undisturbed pass is exact; the pool converges over template changes and scaling; the published counts are honest |
| `services` | two Services, one headless and then to be exposed, one with an address of its own whose settings or address become invalid, two generations, two disturbances (foreign Services, edits, deletions, annotations, failures, crashes), FairSpec | a loop that sleeps has served every Service that can be and reported the others; it comes to rest |
| `routes` | both routes requested or not, two generations, other clients, rejections, the Gateway API present or found at a restart | no route of another controller is overwritten, and one is deleted only if it just replaced the cluster's; a conflict is never reported as mere waiting; the loop sleeps only on finished work and never on a conflict |
| `pod_template` | a composed and a template-only spec, every field edited, any two fields differing; plain, rich, over-mounting, inconsistent and colliding user templates | running pods follow the spec, labels included; only supported releases run; paths are mounted; Services reach the scheduler and nothing else; users' parts survive; pods are rejected only for what the template does; worker edits spare the scheduler |
| `operator` | up to two replicas, own or default accounts, two generations, a quota of exactly the largest cluster, one disturbance, FairSpec | the handlers leave nothing undone for each other; no pod lacks an account the operator was to create; what is not refused converges |

Bounds. Two generations let a pass be overtaken by an edit and a status of one
generation meet a spec of the next; a third lets the scheduler's template change
back while the first change is under way. `MaxLag` bounds what users and the
kubelet may leave undelivered; the operator's own writes are not bounded by it. A
lag of one already makes every cached read stale; the runs with a lag of two let
the cache miss an intermediate version that others wrote. Three pods suffice for
one replica too many, one too few and one outdated at a time. Two Services
suffice for one with each kind of error: the three share nothing but the
reduction of their errors, which only asks whether some error is transient or a
rejection. The edits of `MCAsks` change the configuration where the stored address
forbids it, the configuration alone, and the address alone, before the Service is
created and after. Two disturbances let a failure meet a foreign write. Two differing
fields reach every pair of options, and options only meet in pairs (a user's
template with what one option computes, license with version, tag with runtime).
A quota equal to the largest cluster has no room while pods terminate, so every
roll-out meets it.

Fairness (`FairSpec`). Weak for what runs by itself: the queue, timers, watches,
the end of a grace period. In `Reconcile` and `SchedulerPod` failures may recur
for ever, so each handler step and update that is retried is strongly fair: the
rate limiter retries for ever, and a request that is tried again and again is
assumed to succeed some time. In `Services` and `Operator` failures, crashes and
others' writes are bounded by `MaxDisturbance` instead and the worker is weakly
fair. Users, readiness, rejections, evictions, crashes and `Resync` have no
fairness.

### Findings

Three runs state what a comment or a doc says and TLC refutes it; each is quoted
in `PROJECT.json`.

1. `rejection_clears`: a rejection that clears does not re-trigger
   reconciliation. Only an unrelated event or the resync does.
2. `operator_quota`: scaled beyond the quota, a cluster can lose the scheduler's
   slot to a worker. A change of replicas changes `n_workers` and so deletes the
   scheduler pod; the scheduler that is then Forbidden ends every pass before the
   worker pool, and scaling back never removes the workers in its way.
3. `services_annotations`: updating a Service wipes the annotations of others.

Further behaviours the models show:

- After a spec error `observedGeneration` is current while other conditions
  describe an older generation, and `status.scheduler.ready` may be true next to
  `SchedulerReady=False`. Ready itself is always about the current generation.
- A terminating scheduler pod of the old template is reported Ready for the new
  generation until its deletion is seen.
- The scheduler's delete by name has no UID precondition: when someone else has
  deleted the pod, it can hit the operator's own replacement (the exception in
  `DeletesOnlyWhatItSaw`). `deleteOwnedRoute` is the same for a foreign route
  that has just replaced the cluster's own (the last disjunct of
  `OthersLeftAlone`).
- Passes over a stale list create workers again, or delete more than the surplus,
  since the list has no order. Both heal: `SettledMeansDone` holds.
- A scheduler pod that has Failed for good is never replaced: the operator creates
  bare pods and looks only at PodReady.
- A Service or ServiceAccount a stranger made under the operator's name is used,
  the Service even rewritten, but its later deletion raises no event and goes
  unnoticed (the exceptions in `SettledMeansServed` and `AccountsExist`).
- `clusterIP` is applied on creation only, as its doc says, and so are the labels
  of a Service. An edit that comes later is neither applied nor reported, be it
  valid or not: the cluster is published as observed (and ready) while the
  Service keeps its address. This is the exception in `SettledMeansServed`.
- A headless Service that is asked to be exposed stays rejected, also when the
  spec gives it an address in the same edit, until somebody deletes it or the
  spec stops asking.
- A create repeated from a stale cache may be answered Invalid rather than
  AlreadyExists when the spec gives the Service's address. The rejection is
  published, and taken back by the pass that the Service's own event triggers.
- The readiness event is lost when the operator crashes between the status update
  and the event, or the update's answer is lost (`missed` in
  `EventsFollowReadiness`).
- Outdated workers are deleted before the API server has seen their replacement;
  an edit to an inadmissible template takes the pool down.
- Labels of the user's template are not in the hash: editing only them changes
  no running pod. Those the operator computes follow, since whatever changes them
  changes the pod's spec too (`PodsFollowSpec`), unless a template imitates what a
  runtime adds (see `ReleaseNamesAreOurs` under Proofs).

## Proofs

Each `...Proofs` module proves its theorems for every value of the constants
under the named assumptions of the module it extends: any sets of specs,
templates, pods and Services, any choice of what flaps, is rejected, conflicts or
is meddled with, any quota, and all bounds. Each invariant below was first
checked by TLC.

| Theorem | States |
|---|---|
| `ReconcileProofs!TypeCorrect` | `Spec => []TypeOK` |
| `ReconcileProofs!Invariance` | `Spec => []IInv` |
| `ReconcileProofs!ReadyEarned` | `Spec => []ReadyIsEarned` |
| `ReconcileProofs!NotReadyExplained` | `Spec => []NotReadyIsExplained` |
| `ReconcileProofs!StatusNeverStale` | `Spec => StatusIsNeverStale` (action property) |
| `ReconcileProofs!Implements` | `Spec => PublishesStatus` (refinement of `StatusPublisher`) |
| `ReconcileProofs!NoWakeUpIsLost` | `Spec => []QuiescentIsCurrent` |
| `ReconcileProofs!EventsAreTrue` | `Spec => []EventsFollowReadiness` |
| `SchedulerPodProofs!TypeCorrect` | `Spec => []TypeOK` |
| `SchedulerPodProofs!NeverSleepsOnWork` | `Spec => []SettledMeansDone` |
| `SchedulerPodProofs!DeletesTheRightPod` | `Spec => DeletesOnlyWhatItSaw` (action property) |
| `WorkerPoolProofs!TypeCorrect` | `Spec => []TypeOK` |
| `WorkerPoolProofs!StatusIsConsistent` | `Spec => []ReportIsConsistent` |
| `WorkerPoolProofs!OnePassIsEnough` | `Spec => []UndisturbedPassIsExact` |
| `WorkerPoolProofs!NeverSleepsOnWork` | `Spec => []SettledMeansDone` |
| `RoutesProofs!TypeCorrect` | `Spec => []TypeOK` |
| `RoutesProofs!ConflictsAreNamed` | `Spec => []WorstReasonIsReported` |
| `RoutesProofs!LeavesOthersAlone` | `Spec => OthersLeftAlone` (action property) |
| `RoutesProofs!NeverSleepsOnWork` | `Spec => []SettledMeansDone` |
| `ServicesProofs!NeverSleepsOnWork` | `Spec => []SettledMeansServed` |
| `OperatorProofs!AccountsFirst` | `Spec => []AccountsComeFirst` |
| `OperatorProofs!NeverSleepsOnWork` | `Spec => []SettledMeansDone` |
| `PodTemplateProofs!SupportedReleases` | `Spec => []RunsSupportedRelease` |
| `PodTemplateProofs!SchedulerIsSpared` | `Spec => WorkerEditsSpareScheduler` (action property) |
| `PodTemplateProofs!MergeIsAdditive` | `Spec => []UserPartsSurvive` |
| `PodTemplateProofs!PodSpecsAreCurrent` | `Spec => [](Settled /\ error = "none" => PodSpecsFollow)` |
| `PodTemplateProofs!SchedulerIsReached` | `Spec => []TrafficReachesScheduler` |
| `PodTemplateProofs!PathsAreMounted` | `Spec => []PathsAreBacked` |
| `PodTemplateProofs!RejectionsAreTheTemplates` | `Spec => []OnlyCollisionsAreRejected` |
| `PodTemplateProofs!PodsAreCurrent` | `ReleaseNamesAreOurs => (Spec => []PodsFollowSpec)` |

The step lemmas have one case per action. Facts about values (what an operator
makes of an object, what a delivery does to the undelivered versions) are lemmas
of their own.

### Reconcile: what is published

None of these properties is inductive, since they speak of what is published and a
publication copies what was computed over many steps. `IInv` adds what holds on
the way:

- `NewestIsCurrent`: the last undelivered version, or the cache when there is
  none, is the API server's. So a pass that begins with nothing undelivered
  begins with the current object.
- `CopyIsCurrent`: a copy whose resourceVersion is current has the current
  identity, generation and spec, and the object exists. Every other write clears
  `memFresh`.
- `StageInv`: after its handler, a part's field says what its condition says for
  the copy's generation; a copy about to be written is about its generation, its
  Ready=True is earned and its Ready=False explained. Each handler overwrites what
  an older pass left, and `recordSpecError` always takes Ready down.
- `PublishedInv`: what is published is earned and explained; versions in flight
  and cached are earned, since a later pass starts from them.

The refinement rests on the same invariant: `InitRefines` maps the initial state,
`PublishableVerdict` and `WriteStatusRefines` show that a status update is a
`Publish` step, and `NextRefines` goes through the actions, most of which map to a
stutter.

### Reconcile: wake-ups and events

`QuiescentIsCurrent` is about a loop at rest, so its invariant `QuietInv` says what
an empty queue means on the way there. `PassIsCurrent`: as long as no event has
come since the pass began, what it has found of each part is what it would find
now. `RestIsCurrent`: at rest, and between update and event, the status is current
unless the key is queued or a version undelivered. A pass that writes raises an
event about its own write, so only one whose update changes nothing ends quietly,
and then the published status is the computed one (`NothingToWrite`).

`EventInv` follows an event from where `wasReady` is read to where it is announced.
`WasReadyInv`: an unrefused copy knows whether the cluster is published as ready.
`WarnedInv`: a spec error is announced before it is published. `EmitInv`: between
update and event the last event fits the readiness before, and the copy has the
readiness now. `UidInv`: no copy is of a later incarnation than the object, so an
event that comes too late is never taken for one about the object created since.

### The handlers at rest

The four theorems that a handler never sleeps on unfinished work share an
argument: whatever the loop has not seen yet will wake it. For each object the
last undelivered version, or the cached one, is the API server's
(`NewestIsCurrent`; for several objects under one stream, `InStep` of
`InformerProofs`, kept by every write and delivery). As long as the key is not
queued the pass holds the cached spec and the cached objects (`ReadInv`,
`ListedInv`, `PassInv`), so a pass that reports has either found everything as it
should be or changed something, and then the change is undelivered. In `Routes`
and `Services`, where objects of others raise no event, the invariants say of each
object that it is right, excused, or that an undelivered version will wake the
loop (`Accounted`, `Excused`). The Services run concurrently; `DoneInv` says
of each one that has returned that its answer is true and stays so until an event,
which any step but the operator's own writes preserves (`Kept`). That a rejection
is true needs `CacheInv` and `StageInv`: a copy with a current resourceVersion is
the stored Service, so an update is judged by the stored address, and a Service
that a create did not expect is announced by an event on its way
(`MissingIsExcused`, `RejectionsAreDue`).

`DeletesOnlyWhatItSaw` needs `IdentityInv`: unless others have deleted the pod, all
undelivered versions are of one identity and end at most once (`OneIdentity`), so
what the pass saw is what its delete by name hits (`TargetInv`).

`ReportIsConsistent` and `UndisturbedPassIsExact` count: `CountInv` keeps active
pods plus lacking equal to replicas plus surplus over creations and deletions in
any order, and `ExactInv` says that a pass nobody disturbs knows which pods are
alive.

`WorstReasonIsReported` rests on `Honest`, what `notReady` keeps of two failures,
and `OthersLeftAlone` on `RequestInv`: a write that is not refused is of the route
just judged, and a delete is of a route that was the cluster's.

### The handlers together

`AccountsMet`: past the accounts' handler the pass lacks no account it asked for,
unless others have deleted one. For `SettledMeansDone`, `MemInv` ties the pass's
spec to the cached one, `StageInv` says what a pass that nothing disturbs has found
so far (`SchedulerFound`, `WorkersFound`: a handler that changes no pod has found
what it wants), and `SleepInv` is the property with the scheduler's termination
taken apart. A spec error leaves its mark in the status (`SpecErrorWakes`).

### Pod templates

The constants are the specs and templates users may write: any values in any
fields, of templates only that containers are a list and a probe maps fields to
values (`FieldValuesAssumption`). All eight theorems start from `Follows`: a step
leaves a pod alone, removes it, or leaves one that the current spec asks for.

- `ReleaseInv`: past its start a pass has a version the operator can work with,
  and so has the spec a pod was last found right for.
- `BuiltInv`: a running pod has the pod spec that this spec (`from`) composes. So
  what holds of composition holds of what runs. `SchedulerPodDependsOn` shows that
  two specs alike but for the workers' fields compose the same scheduler, and
  `TemplateSurvives` what the merge keeps, from `KeptByMerge` and
  `MergedContainers`.
- `CurrentInv`: the scheduler's handler leaves the right pod or another pass due,
  the workers' handler fails or leaves the right ones.
- `LabelInv`: a pod keeps the `component` label it was given. That the workers are
  told the right ports is a fact about which of seventeen contributions counts:
  `JoinedOnly`, with one lemma per option that it does not touch the leader's
  variables (`NoLeader`).

- Mounted paths (`PathsAreMounted`): a contribution is `Sound` if each of its entries
  has one source, its mounts have their volumes, its ports their own names and its
  path variables the one directory each is for; it is `Backed` if these directories
  are mounted, too. One lemma per option shows it `Backed`, one (`JoinedBacked`) that
  joining keeps it so, since what counts of a joined list is an entry of one of its
  members (`JoinedEntry`; the last one exists because a set of positions has a
  greatest element, by the well-foundedness of the naturals). So the operator's part
  of a pod is `Backed` whatever options are combined, and the merge lets the
  operator's fields count (`OursInMerge`).
- Rejections (`RejectionsAreTheTemplates`): a consistent template merged with a
  `Sound` part that shares no name with it is consistent (`MergeIsAdmissible`, with a
  lemma each for sources, mounts, ports and the probe). `ErrorInv` says that a spec
  error which stands while nothing is due is about the current spec's template.
- Labels (`PodsAreCurrent`): `TagInv` is `CurrentInv`, and that a running pod's labels
  are those of the tag of its `from`. A pod that is kept, because its spec is what the
  new cluster spec composes, keeps the right labels because the tag can be read off a
  pod's spec (`TagInPod`): from the image of the distribution's volume, or of the init
  container that copies it (`ReleaseIn`), which no other option contributes
  (`NoRelease`). `ReleaseNamesAreOurs` is what this needs of users' templates, and
  without it the theorem is false: a user who writes by hand everything the runtime
  adds can switch it off without a change of the pod's spec, and the running pod
  keeps its version label. The first half, `PodSpecsAreCurrent`, needs no condition.
  `MCPodTemplate` asserts the condition for the templates of its instance.

Checked by TLC only: liveness (`EveryEditIsObserved`, `VerdictIsPublished`,
`AlwaysRecovers`, `ReadinessIsReported`, `ComesToRest`, `Converges`), since fairness
is out of the prover's reach. Every safety property of a passing run is also the
subject of a theorem.

## Not modelled

- The wording of values, messages and names in the composed objects.
- Which generation of a route its acceptance was given for: `routeAccepted` does
  not look at it either.
- A storage option the user names `url` (`envBuilder.Options`): `PodTemplate` gives
  a location's option a key of its own. Such an option repeats the operator's
  variable; with a template that has variables the merge folds the two into one,
  and if the option comes from a Secret the API server refuses the two sources.
  So `OnlyCollisionsAreRejected` does not speak of it.
- The Service's `ipFamilies`, several given addresses, and Services of the cluster
  that ask for each other's address: a taken one is `invalid`.
- Collisions of the 32-bit template hash.
- Schema validation by the API server: the models start from admitted specs.
- Garbage collection of owned objects after the cluster is deleted, done by
  Kubernetes.
- Leader election: two operators at once. The manager holds a lease; with one
  replica there is one.
- `cmd/main.go` (flags, TLS, endpoints), generated deep copies and manifests:
  they have no state machine of their own.

## Plan

Done: all modules above and the theorems listed under Proofs. What is left to the
model checker is liveness. When the code changes, `PodTemplate` and its lemmas per
option are the place for a new option of the spec, the handler modules for a new
request or error path.
