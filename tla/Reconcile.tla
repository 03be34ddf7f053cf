----------------------------- MODULE Reconcile -----------------------------
(***************************************************************************)
(* The reconcile loop of one PolarsCluster key: the custom resource in the *)
(* API server, the informer cache the operator reads it from, the work     *)
(* queue, and PolarsClusterReconciler.Reconcile as the sequence of steps   *)
(* between which other actors (users, the API server, a crash) may run.    *)
(*                                                                         *)
(* The five handlers Reconcile calls (service accounts, scheduler,         *)
(* services, worker pool, routes) are represented by what they report:     *)
(* health[p] is the verdict handler p would reach on the owned objects as  *)
(* the informer caches show them now.  SchedulerPod and WorkerPool model   *)
(* two of those handlers in detail.                                        *)
(***************************************************************************)
EXTENDS Naturals, Sequences, FiniteSets

CONSTANTS
    Specs,       \* the specs users choose from
    Flapping,    \* parts whose objects become ready and unready
    Rejectable,  \* parts the API server may come to reject
    Conflicting, \* TRUE iff a foreign object may take a route's name
    MaxUid,      \* bound: incarnations of the cluster object
    MaxGen,      \* bound: spec generations of one incarnation
    MaxLag       \* bound: undelivered versions a user's write may leave

\* The handlers, in the order Reconcile runs them.
Parts == {"serviceAccounts", "scheduler", "services", "workers", "routes"}

\* Spec-caused faults: an uninterpretable version, or a part whose objects
\* cannot be composed from (or are refused because of) this spec.
SpecFaults == {"version"} \cup (Parts \ {"routes"})

\* What Reconcile reads of a spec: what is wrong with it, and whether it
\* requests any Gateway API route.
SpecSet == [invalid : SUBSET SpecFaults, routes : BOOLEAN]

ASSUME SpecsAssumption == Specs # {} /\ Specs \subseteq SpecSet
ASSUME PartsAssumption ==
    /\ Flapping \subseteq {"scheduler", "workers", "routes"}
    /\ Rejectable \subseteq Parts
    /\ Conflicting \in BOOLEAN
ASSUME BoundsAssumption ==
    /\ MaxUid \in Nat \ {0}
    /\ MaxGen \in Nat \ {0}
    /\ MaxLag \in Nat \ {0}

VARIABLES
    cluster,   \* the PolarsCluster in the API server
    view,      \* the informer cache's copy of it
    stream,    \* versions written but not yet delivered to the informer
    queue,     \* the key's entry in the work queue
    health,    \* what each handler would report now
    pc,        \* where the one worker of this key is in Reconcile
    mem,       \* Reconcile's local variable cluster
    memFresh,  \* mem's resourceVersion is still the API server's
    wasReady,  \* Reconcile's local variable wasReady
    conflict,  \* Reconcile's local variable routes.conflict
    told,      \* history: the last event about readiness
    missed     \* history: a readiness change was written, its event lost

vars == <<cluster, view, stream, queue, health, pc, mem, memFresh, wasReady,
          conflict, told, missed>>

api    == <<cluster, view, stream>>
local  == <<mem, memFresh, wasReady, conflict>>
events == <<told, missed>>

-----------------------------------------------------------------------------
(***************************************************************************)
(* Status and its conditions.  A condition's message is abstracted to the  *)
(* part it is about, its reason to the class of the reason.                *)
(***************************************************************************)
CondTypes == {"Ready", "SchedulerReady", "WorkerPoolReady", "RoutesReady"}

Reasons == {"none", "Reconciled", "NotReady", "SpecError"}

Condition == [status : {"Absent", "True", "False"}, reason : Reasons,
              about : SpecFaults \cup {"routes", "none"}, gen : Nat]

Absent == [status |-> "Absent", reason |-> "none", about |-> "none", gen |-> 0]

Status == [conditions : [CondTypes -> Condition], observedGeneration : Nat,
           scheduler : BOOLEAN, workerPool : BOOLEAN]

EmptyStatus == [conditions |-> [t \in CondTypes |-> Absent],
                observedGeneration |-> 0,
                scheduler |-> FALSE, workerPool |-> FALSE]

Object == [exists : BOOLEAN, uid : Nat, gen : Nat, spec : SpecSet,
           status : Status]

NoObject == [exists |-> FALSE, uid |-> 0, gen |-> 0,
             spec |-> [invalid |-> {}, routes |-> FALSE],
             status |-> EmptyStatus]

(***************************************************************************)
(* Operators named ...Bug are broken variants of the definition that       *)
(* follows them: the mistakes the properties below would uncover.  Nothing *)
(* of the specification uses them.                                         *)
(***************************************************************************)

\* Bug: a part that is not ready is reported as Unknown.
ReadyConditionUnknownBug(ready, reason, about, gen) ==
    [status |-> IF ready THEN "True" ELSE "Unknown",
     reason |-> reason, about |-> about, gen |-> gen]

\* meta.SetStatusCondition with the values setReadyCondition gives it.
ReadyCondition(ready, reason, about, gen) ==
    IF ready
    THEN [status |-> "True", reason |-> "Reconciled", about |-> "none",
          gen |-> gen]
    ELSE [status |-> "False", reason |-> reason, about |-> about, gen |-> gen]

IsTrue(status, type) == status.conditions[type].status = "True"

\* Bug: the error is not mirrored onto Ready.
WithSpecErrorNoMirrorBug(obj, type, part) ==
    [obj EXCEPT
        !.status.conditions[type] =
            ReadyCondition(FALSE, "SpecError", part, obj.gen),
        !.status.observedGeneration = obj.gen]

\* The in-memory half of recordSpecError.
WithSpecError(obj, type, part) ==
    [obj EXCEPT
        !.status.conditions =
            [t \in CondTypes |->
                IF t \in {type, "Ready"}
                THEN ReadyCondition(FALSE, "SpecError", part, obj.gen)
                ELSE @[t]],
        !.status.observedGeneration = obj.gen]

\* What a handler reports: its field, in status, and its condition.
WithReport(obj, status, type, ready, part) ==
    [obj EXCEPT
        !.status = [status EXCEPT
            !.conditions[type] =
                ReadyCondition(ready, "NotReady", part, obj.gen)]]

-----------------------------------------------------------------------------
(***************************************************************************)
(* The work queue holds at most one entry per key and hands it to one      *)
(* worker at a time: an event while Reconcile runs leaves the key due, a   *)
(* delayed entry is brought forward by an event.                           *)
(***************************************************************************)
Due == "due"
Delayed == "delayed"
None == "none"

Enqueue == queue' = Due
AddAfter == queue' = IF queue = Due THEN Due ELSE Delayed

\* The informer's periodic resync hands every cached object to the handlers.
Resync ==
    /\ view.exists
    /\ Enqueue
    /\ UNCHANGED <<api, health, pc, local, events>>

\* The delay of a rate-limited or RequeueAfter entry runs out.
TimerFires ==
    /\ queue = Delayed
    /\ Enqueue
    /\ UNCHANGED <<api, health, pc, local, events>>

\* The informer applies the next version of the cluster and enqueues its key.
DeliverWatch ==
    /\ stream # <<>>
    /\ view' = Head(stream)
    /\ stream' = Tail(stream)
    /\ Enqueue
    /\ UNCHANGED <<cluster, health, pc, local, events>>

-----------------------------------------------------------------------------
(***************************************************************************)
(* The users of the cluster object.  Every write moves the resourceVersion *)
(* and with it the ground under a copy that Reconcile holds.               *)
(***************************************************************************)
Write(obj) ==
    /\ cluster' = obj
    /\ stream' = Append(stream, obj)
    /\ UNCHANGED view

UserWrite(obj) ==
    /\ Len(stream) < MaxLag
    /\ Write(obj)
    /\ memFresh' = FALSE
    /\ UNCHANGED <<queue, health, pc, mem, wasReady, conflict>>

CreateCluster(spec) ==
    /\ ~cluster.exists
    /\ cluster.uid < MaxUid
    /\ UserWrite([exists |-> TRUE, uid |-> cluster.uid + 1, gen |-> 1,
                  spec |-> spec, status |-> EmptyStatus])
    /\ told' = "none"
    /\ missed' = FALSE

EditSpec(spec) ==
    /\ cluster.exists
    /\ cluster.gen < MaxGen
    /\ spec # cluster.spec
    /\ UserWrite([cluster EXCEPT !.gen = @ + 1, !.spec = spec])
    /\ UNCHANGED events

DeleteCluster ==
    /\ cluster.exists
    /\ UserWrite([NoObject EXCEPT !.uid = cluster.uid])
    /\ UNCHANGED events

-----------------------------------------------------------------------------
(***************************************************************************)
(* The owned objects.  A pod or an owned route becoming ready or unready   *)
(* reaches the informer as an event and enqueues its owner.  A quota or an *)
(* admission rule that starts or stops rejecting, and a foreign route that *)
(* comes or goes, fire no event for this key.  Objects may outlive their   *)
(* cluster, so a first pass may already find a part ready.                 *)
(***************************************************************************)
Verdicts == {"ok", "notReady", "rejected", "conflict"}

\* The verdict of a part that nothing rejects and that is not ready yet.
Idle(p) == IF p \in {"serviceAccounts", "services"} THEN "ok" ELSE "notReady"

OwnedObjectChanges(p) ==
    /\ health[p] \in {"ok", "notReady"}
    /\ health' = [health EXCEPT ![p] = IF @ = "ok" THEN "notReady" ELSE "ok"]
    /\ Enqueue
    /\ UNCHANGED <<api, pc, local, events>>

Blocks(p) ==
    (IF p \in Rejectable THEN {"rejected"} ELSE {})
        \cup (IF p = "routes" /\ Conflicting THEN {"conflict"} ELSE {})

BlockChanges(p) ==
    /\ \/ /\ health[p] = Idle(p)
          /\ \E b \in Blocks(p) : health' = [health EXCEPT ![p] = b]
       \/ /\ health[p] \in {"rejected", "conflict"}
          /\ health' = [health EXCEPT ![p] = Idle(p)]
    /\ UNCHANGED <<api, queue, pc, local, events>>

-----------------------------------------------------------------------------
(***************************************************************************)
(* Reconcile.  Each step is one handler call or one API request.           *)
(***************************************************************************)
Return ==
    /\ pc' = "idle"
    /\ mem' = NoObject
    /\ memFresh' = FALSE
    /\ wasReady' = FALSE
    /\ conflict' = FALSE

\* Bug: an error is logged and swallowed.
ReturnErrorSwallowedBug == Return /\ UNCHANGED queue

\* Returning an error: the key is added again, rate limited.
ReturnError == Return /\ AddAfter

Goto(stage) == pc' = stage

\* Bug: the condition is set, the Warning event forgotten.
RecordSpecErrorSilentBug(obj, type, part) ==
    /\ mem' = WithSpecError(obj, type, part)
    /\ Goto("updateError")
    /\ UNCHANGED events

\* recordSpecError up to the status update: the Warning event comes first.
RecordSpecError(obj, type, part) ==
    /\ mem' = WithSpecError(obj, type, part)
    /\ told' = IF obj.uid = cluster.uid THEN "warned" ELSE told
    /\ missed' = IF obj.uid = cluster.uid THEN FALSE ELSE missed
    /\ Goto("updateError")

\* A handler's own rejection, or the spec it is given.
SpecErrorIn(p) == health[p] = "rejected" \/ p \in mem.spec.invalid

BeginNotFound ==
    /\ pc = "idle" /\ queue = Due
    /\ ~view.exists
    /\ queue' = None
    /\ UNCHANGED <<api, health, pc, local, events>>

Begin ==
    /\ pc = "idle" /\ queue = Due
    /\ view.exists
    /\ queue' = None
    /\ memFresh' = (stream = <<>>)
    /\ wasReady' = IsTrue(view.status, "Ready")
    /\ \/ /\ "version" \in view.spec.invalid
          /\ RecordSpecError(view, "Ready", "version")
       \/ /\ "version" \notin view.spec.invalid
          /\ mem' = view
          /\ Goto("serviceAccounts")
          /\ UNCHANGED events
    /\ UNCHANGED <<api, health, conflict>>

\* A handler that only succeeds or fails; its spec error lands on Ready.
PlainHandler(p, next) ==
    /\ pc = p
    /\ \/ /\ SpecErrorIn(p)
          /\ RecordSpecError(mem, "Ready", p)
       \/ /\ ~SpecErrorIn(p)
          /\ Goto(next)
          /\ UNCHANGED <<mem, events>>
    /\ UNCHANGED <<api, queue, health, memFresh, wasReady, conflict>>

\* A handler whose readiness is reported in a condition of its own; status
\* is mem's with the handler's own field set.
ReportingHandler(p, type, status, next) ==
    /\ pc = p
    /\ \/ /\ SpecErrorIn(p)
          /\ RecordSpecError(mem, type, p)
       \/ /\ ~SpecErrorIn(p)
          /\ mem' = WithReport(mem, status, type, health[p] = "ok", p)
          /\ Goto(next)
          /\ UNCHANGED events
    /\ UNCHANGED <<api, queue, health, memFresh, wasReady, conflict>>

ReconcileServiceAccounts == PlainHandler("serviceAccounts", "scheduler")

ReconcileScheduler ==
    ReportingHandler("scheduler", "SchedulerReady",
        [mem.status EXCEPT !.scheduler = (health["scheduler"] = "ok")],
        "services")

ReconcileServices == PlainHandler("services", "workers")

ReconcileWorkerPool ==
    ReportingHandler("workers", "WorkerPoolReady",
        [mem.status EXCEPT !.workerPool = (health["workers"] = "ok")],
        "routes")

\* Bug: the workers are blamed before the scheduler.
BlameWorkersBug(status) ==
    CASE ~status.workerPool -> "workers"
      [] status.workerPool /\ ~status.scheduler -> "scheduler"
      [] OTHER -> "routes"

\* Scheduler first, then workers, then routes.
Blame(status) ==
    CASE ~status.scheduler -> "scheduler"
      [] status.scheduler /\ ~status.workerPool -> "workers"
      [] OTHER -> "routes"

\* The RoutesReady condition, present iff a route is requested; a rejected or
\* conflicting route is reported there and is not a spec error of the pass.
RoutesCondition(obj, routes) ==
    IF obj.spec.routes
    THEN ReadyCondition(routes = "ok",
                        IF routes \in {"rejected", "conflict"}
                        THEN "SpecError" ELSE "NotReady",
                        "routes", obj.gen)
    ELSE Absent

AllReady(obj, routes) ==
    /\ obj.status.scheduler
    /\ obj.status.workerPool
    /\ obj.spec.routes => routes = "ok"

\* The end of a full pass: RoutesReady, Ready and observedGeneration.
WithVerdict(obj, routes) ==
    [obj EXCEPT
        !.status.conditions =
            [t \in CondTypes |->
                CASE t = "RoutesReady" -> RoutesCondition(obj, routes)
                  [] t = "Ready" ->
                        ReadyCondition(AllReady(obj, routes), "NotReady",
                                       Blame(obj.status), obj.gen)
                  [] OTHER -> @[t]],
        !.status.observedGeneration = obj.gen]

ReconcileRoutes ==
    /\ pc = "routes"
    /\ mem' = WithVerdict(mem, health["routes"])
    /\ conflict' = (mem.spec.routes /\ health["routes"] = "conflict")
    /\ Goto("update")
    /\ UNCHANGED <<api, queue, health, memFresh, wasReady, events>>

\* A handler's API request fails for a reason that is not the spec.
TransientError ==
    /\ pc \in Parts
    /\ ReturnError
    /\ UNCHANGED <<api, health, events>>

\* Status().Update is compare-and-swap on the resourceVersion, touches only
\* the status, and writes nothing when nothing changed.
WriteStatus ==
    IF mem.status = cluster.status
    THEN UNCHANGED api
    ELSE Write([cluster EXCEPT !.status = mem.status])

ReadyChanged == wasReady # IsTrue(mem.status, "Ready")

\* Bug: the status is written whatever the resourceVersion (a merge patch).
UpdateStatusUncheckedBug ==
    /\ pc = "update"
    /\ WriteStatus
    /\ memFresh' = FALSE
    /\ Goto("emit")
    /\ UNCHANGED <<queue, health, mem, wasReady, conflict, events>>

UpdateStatus ==
    /\ pc = "update"
    /\ memFresh
    /\ WriteStatus
    /\ memFresh' = FALSE
    /\ Goto("emit")
    /\ UNCHANGED <<queue, health, mem, wasReady, conflict, events>>

\* Bug: only the update of a full pass minds the resourceVersion.
UpdateErrorStatusUncheckedBug ==
    /\ pc = "updateError"
    /\ WriteStatus
    /\ Return
    /\ UNCHANGED <<queue, health, events>>

\* The status update of recordSpecError.
UpdateErrorStatus ==
    /\ pc = "updateError"
    /\ memFresh
    /\ WriteStatus
    /\ Return
    /\ UNCHANGED <<queue, health, events>>

\* Conflict, or NotFound when the cluster is gone.
UpdateRefused ==
    /\ pc \in {"update", "updateError"}
    /\ ~memFresh
    /\ ReturnError
    /\ UNCHANGED <<api, health, events>>

\* The request fails; it may have been applied before the answer was lost.
UpdateFails ==
    /\ pc \in {"update", "updateError"}
    /\ \/ UNCHANGED <<api, missed>>
       \/ /\ memFresh
          /\ WriteStatus
          /\ missed' = (missed \/ (pc = "update" /\ ReadyChanged))
    /\ ReturnError
    /\ UNCHANGED <<health, told>>

\* Bug: a route conflict asks for no RequeueAfter.
EmitNoRequeueBug ==
    /\ pc = "emit"
    /\ IF ReadyChanged /\ mem.uid = cluster.uid
       THEN /\ told' = IF wasReady THEN "notReady" ELSE "ready"
            /\ missed' = FALSE
       ELSE UNCHANGED events
    /\ Return
    /\ UNCHANGED <<api, queue, health>>

\* The event of a readiness change, and RequeueAfter on a route conflict.
Emit ==
    /\ pc = "emit"
    /\ IF ReadyChanged /\ mem.uid = cluster.uid
       THEN /\ told' = IF wasReady THEN "notReady" ELSE "ready"
            /\ missed' = FALSE
       ELSE UNCHANGED events
    /\ Return
    /\ IF conflict THEN AddAfter ELSE UNCHANGED queue
    /\ UNCHANGED <<api, health>>

\* The operator dies and starts again: a fresh cache, every key enqueued.
Crash ==
    /\ missed' = (missed \/ (/\ pc = "emit" /\ ReadyChanged
                             /\ mem.uid = cluster.uid))
    /\ view' = cluster
    /\ stream' = <<>>
    /\ queue' = IF cluster.exists THEN Due ELSE None
    /\ Return
    /\ UNCHANGED <<cluster, health, told>>

-----------------------------------------------------------------------------
Init ==
    /\ cluster = NoObject
    /\ view = NoObject
    /\ stream = <<>>
    /\ queue = None
    /\ health = [p \in Parts |->
                    IF p \in Flapping THEN Idle(p) ELSE "ok"]
    /\ pc = "idle"
    /\ mem = NoObject
    /\ memFresh = FALSE
    /\ wasReady = FALSE
    /\ conflict = FALSE
    /\ told = "none"
    /\ missed = FALSE

User ==
    \/ \E spec \in Specs : CreateCluster(spec) \/ EditSpec(spec)
    \/ DeleteCluster

OwnedObjects ==
    \/ \E p \in Flapping : OwnedObjectChanges(p)
    \/ \E p \in Parts : BlockChanges(p)

Worker ==
    \/ BeginNotFound \/ Begin
    \/ ReconcileServiceAccounts \/ ReconcileScheduler \/ ReconcileServices
    \/ ReconcileWorkerPool \/ ReconcileRoutes
    \/ UpdateStatus \/ UpdateErrorStatus \/ UpdateRefused
    \/ Emit

Faults == TransientError \/ UpdateFails \/ Crash

Next ==
    \/ User \/ OwnedObjects \/ Worker \/ Faults
    \/ TimerFires \/ DeliverWatch \/ Resync

Spec == Init /\ [][Next]_vars

(***************************************************************************)
(* Fairness.  The queue, the timers and the watch make progress by         *)
(* themselves.  A request that is retried for ever is not refused for      *)
(* ever by transient faults, nor interrupted for ever by crashes: strong   *)
(* fairness of each successful handler step and status update.             *)
(***************************************************************************)
Fairness ==
    /\ WF_vars(BeginNotFound) /\ WF_vars(Begin)
    /\ WF_vars(TimerFires) /\ WF_vars(DeliverWatch)
    /\ WF_vars(UpdateRefused) /\ WF_vars(Emit)
    /\ SF_vars(ReconcileServiceAccounts) /\ SF_vars(ReconcileScheduler)
    /\ SF_vars(ReconcileServices) /\ SF_vars(ReconcileWorkerPool)
    /\ SF_vars(ReconcileRoutes)
    /\ SF_vars(UpdateStatus) /\ SF_vars(UpdateErrorStatus)

FairSpec == Spec /\ Fairness

-----------------------------------------------------------------------------
(***************************************************************************)
(* Properties.                                                             *)
(***************************************************************************)

\* Every variable holds a value of its kind (the Go types of the resource,
\* the stages of Reconcile, the states of a work-queue entry).
TypeOK ==
    /\ cluster \in Object
    /\ view \in Object
    /\ stream \in Seq(Object)
    /\ queue \in {None, Due, Delayed}
    /\ health \in [Parts -> Verdicts]
    /\ pc \in Parts \cup {"idle", "update", "updateError", "emit"}
    /\ mem \in Object
    /\ memFresh \in BOOLEAN
    /\ wasReady \in BOOLEAN
    /\ conflict \in BOOLEAN
    /\ told \in {"none", "ready", "notReady", "warned"}
    /\ missed \in BOOLEAN

Cond(type) == cluster.status.conditions[type]

\* Ready=True together with everything it summarises, for one generation.
Earned(status) ==
    status.conditions["Ready"].status = "True" =>
        /\ status.scheduler /\ status.workerPool
        /\ \A t \in CondTypes :
             \/ /\ status.conditions[t].status = "True"
                /\ status.conditions[t].gen = status.observedGeneration
             \/ t = "RoutesReady" /\ status.conditions[t] = Absent

\* A published Ready=True is backed by every other condition, all computed
\* from one and the same generation: recordSpecError never leaves an old
\* Ready=True next to the False condition it records, and no mixture of two
\* passes is ever published as ready.
ReadyIsEarned == Earned(cluster.status)

\* The condition type in which a part's own trouble is reported.
OwnCondition(part) ==
    CASE part = "scheduler" -> "SchedulerReady"
      [] part = "workers" -> "WorkerPoolReady"
      [] part = "routes" -> "RoutesReady"
      [] OTHER -> "Ready"

\* A published Ready=False names a part whose own condition is False for
\* the same generation; and when the verdict comes from a full pass it is
\* the first blocking part: nothing before it is down.
NotReadyIsExplained ==
    Cond("Ready").status = "False" =>
        LET part == Cond("Ready").about IN
        /\ Cond("Ready").gen = cluster.status.observedGeneration
        /\ Cond(OwnCondition(part)).status = "False"
        /\ Cond(OwnCondition(part)).gen = Cond("Ready").gen
        /\ Cond("Ready").reason = "NotReady" =>
            /\ part \in {"workers", "routes"} => IsTrue(cluster.status, "SchedulerReady")
            /\ part = "routes" => IsTrue(cluster.status, "WorkerPoolReady")

Settled ==
    /\ cluster.exists
    /\ pc = "idle" /\ queue = None /\ stream = <<>>

\* No wake-up is lost.  Once nothing is queued, in flight or running, the
\* status speaks about the current generation, and, unless the last verdict
\* was a spec error, about the current readiness of every part: an event
\* that arrives while Reconcile is past the part it is about is not dropped.
QuiescentIsCurrent ==
    Settled =>
        /\ cluster.status.observedGeneration = cluster.gen
        /\ Cond("Ready").reason # "SpecError" =>
            /\ IsTrue(cluster.status, "SchedulerReady") <=> health["scheduler"] = "ok"
            /\ IsTrue(cluster.status, "WorkerPoolReady") <=> health["workers"] = "ok"
            /\ cluster.spec.routes =>
                 (IsTrue(cluster.status, "RoutesReady") <=> health["routes"] = "ok")

\* The events tell the truth about readiness although wasReady is read from
\* the cache: unless an event was lost, Ready=True was announced last (or a
\* warning followed whose status update failed), and Ready=False is never
\* what follows a "Reconciled" event.
EventsFollowReadiness ==
    /\ cluster.exists /\ ~missed
    /\ ~(pc = "emit" /\ mem.uid = cluster.uid)
    => IF IsTrue(cluster.status, "Ready")
       THEN told \in {"ready", "warned"}
       ELSE told # "ready"

\* A status write never carries a verdict about another generation, or another
\* cluster of the same name, than the one it lands on: a pass over a stale
\* cache is refused by the API server.
StatusIsNeverStale ==
    [][cluster'.exists /\ cluster'.uid = cluster.uid
         /\ cluster'.status # cluster.status
       => /\ mem.uid = cluster.uid
          /\ cluster'.gen = cluster.gen
          /\ cluster'.status.observedGeneration = cluster.gen
          /\ cluster'.status.conditions["Ready"].gen = cluster.gen]_vars

\* What a reader of the object sees of it and of its status.
Published == INSTANCE StatusPublisher WITH
    Conditions <- CondTypes \ {"Ready"},
    object <- [exists |-> cluster.exists, uid |-> cluster.uid,
               gen |-> cluster.gen],
    verdict <- [ready |-> Cond("Ready").status,
                gen |-> cluster.status.observedGeneration,
                down |-> {t \in CondTypes \ {"Ready"} : Cond(t).status = "False"}]

\* The loop implements StatusPublisher: seen from outside, whatever the cache,
\* the queue, failing updates and crashes do, it does nothing but publish
\* verdicts about the generation and the incarnation they land on, and never
\* calls a cluster Ready of which it calls a part False.
PublishesStatus == Published!Spec

\* Every spec edit is eventually observed, whatever the handlers report,
\* although requests fail and the operator crashes again and again.
EveryEditIsObserved ==
    cluster.exists ~> (\/ ~cluster.exists
                       \/ cluster.status.observedGeneration = cluster.gen)

\* A verdict that stays is published.  With the rest in order, routes that
\* stay accepted make the cluster Ready for good; routes that stay unaccepted
\* are reported as just that, also when the last thing seen was a foreign
\* object in the way, which goes away without an event.
VerdictIsPublished ==
    \A v \in {"ok", "notReady"} :
        <>[](/\ cluster.exists /\ cluster.spec.invalid = {}
             /\ cluster.spec.routes
             /\ \A p \in Parts \ {"routes"} : health[p] = "ok"
             /\ health["routes"] = v)
        => <>[](/\ Cond("RoutesReady").reason
                      = (IF v = "ok" THEN "Reconciled" ELSE "NotReady")
                /\ IsTrue(cluster.status, "Ready") <=> v = "ok")

-----------------------------------------------------------------------------
(***************************************************************************)
(* What comments of the code say and the code does not do.                 *)
(***************************************************************************)

\* Nothing is wrong with the spec or with any part.
AllOK ==
    /\ cluster.exists
    /\ cluster.spec.invalid = {}
    /\ \A p \in Parts \ {"routes"} : health[p] = "ok"
    /\ cluster.spec.routes => health["routes"] = "ok"

\* recordSpecError's comment: "only a spec change (or the underlying
\* rejection clearing) can fix it, and that already re-triggers
\* reconciliation".  So no quiescent state blames a rejection that is gone.
RejectionClearingRetriggers ==
    ~(Settled /\ AllOK /\ Cond("Ready").reason = "SpecError")

=============================================================================
