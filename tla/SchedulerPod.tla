---------------------------- MODULE SchedulerPod ----------------------------
(***************************************************************************)
(* The scheduler pod of one PolarsCluster.  reconcileScheduler reads the   *)
(* pod from an informer cache that trails the API server, decides, and     *)
(* issues one request by the pod's stable name; the kubelet, evictions and *)
(* spec edits run between any two of those steps.                          *)
(***************************************************************************)
EXTENDS Naturals, Sequences, FiniteSets

CONSTANTS
    Templates,   \* values of the template hash
    Uids,        \* identities of pods; unused ones are used again
    Rejections,  \* TRUE iff the API server may reject the pod
    PodFailures, \* TRUE iff the pod may end in phase Failed
    MaxGen,      \* bound: generations of the spec
    MaxLag       \* bound: undelivered pod versions others may leave

ASSUME SetsAssumption == Templates # {} /\ Uids # {}
ASSUME FlagsAssumption ==
    /\ Rejections \in BOOLEAN
    /\ PodFailures \in BOOLEAN
ASSUME BoundsAssumption == MaxGen \in Nat \ {0} /\ MaxLag \in Nat \ {0}

VARIABLES
    cluster,   \* generation and template hash of the spec in the API server
    view,      \* the same in the informer cache
    pod,       \* the object with the scheduler pod's name in the API server
    podView,   \* the same in the informer cache
    podStream, \* versions of it not yet delivered to the informer
    queue,     \* the cluster key's entry in the work queue
    pc,        \* where the worker is in Reconcile
    mem,       \* Reconcile's copy of cluster
    existing,  \* reconcileScheduler's copy of the pod
    ready,     \* the readiness it returns
    reported,  \* status.scheduler and SchedulerReady as last written
    meddled    \* history: others deleted the pod since the cache was last current

vars == <<cluster, view, pod, podView, podStream, queue, pc, mem, existing,
          ready, reported, meddled>>

clusters == <<cluster, view>>
pods     == <<pod, podView, podStream>>
local    == <<mem, existing, ready>>

Pod == [exists : BOOLEAN, uid : Uids, hash : Templates, terminating : BOOLEAN,
        ready : BOOLEAN, failed : BOOLEAN]

Cluster == [gen : Nat, hash : Templates]

AnyUid == CHOOSE u \in Uids : TRUE
AnyTemplate == CHOOSE h \in Templates : TRUE

NoPod == [exists |-> FALSE, uid |-> AnyUid, hash |-> AnyTemplate,
          terminating |-> FALSE, ready |-> FALSE, failed |-> FALSE]

\* Identities some object, cached or in flight, still refers to.
UidsInUse ==
    {p.uid : p \in {q \in {pod, podView, existing}
                            \cup {podStream[i] : i \in DOMAIN podStream} :
                        q.exists}}

-----------------------------------------------------------------------------
(* The work queue and the watches. *)

Enqueue == queue' = "due"
AddAfter == queue' = IF queue = "due" THEN "due" ELSE "delayed"

TimerFires ==
    /\ queue = "delayed"
    /\ Enqueue
    /\ UNCHANGED <<clusters, pods, pc, local, reported, meddled>>

\* Any other object of the cluster changes, or the informers resync.
OtherEvent ==
    /\ queue # "due"
    /\ Enqueue
    /\ UNCHANGED <<clusters, pods, pc, local, reported, meddled>>

DeliverCluster ==
    /\ view # cluster
    /\ view' = cluster
    /\ Enqueue
    /\ UNCHANGED <<cluster, pods, pc, local, reported, meddled>>

\* Bug: pods are not watched (no Owns in SetupWithManager).
DeliverPodUnwatchedBug ==
    /\ podStream # <<>>
    /\ podView' = Head(podStream)
    /\ podStream' = Tail(podStream)
    /\ UNCHANGED <<clusters, pod, queue, pc, local, reported, meddled>>

DeliverPod ==
    /\ podStream # <<>>
    /\ podView' = Head(podStream)
    /\ podStream' = Tail(podStream)
    /\ Enqueue
    /\ UNCHANGED <<clusters, pod, pc, local, reported, meddled>>

-----------------------------------------------------------------------------
(* Everyone but the operator. *)

WritePod(p) ==
    /\ pod' = p
    /\ podStream' = Append(podStream, p)
    /\ UNCHANGED podView

OthersWritePod(p) ==
    /\ Len(podStream) < MaxLag
    /\ WritePod(p)
    /\ UNCHANGED <<clusters, queue, pc, local, reported>>

\* A spec edit; also a scale of the worker pool, since the scheduler's
\* environment holds the number of workers.
EditTemplate(h) ==
    /\ cluster = view  \* bound: one undelivered edit
    /\ cluster.gen < MaxGen
    /\ h # cluster.hash
    /\ cluster' = [gen |-> cluster.gen + 1, hash |-> h]
    /\ UNCHANGED <<view, pods, queue, pc, local, reported, meddled>>

\* The kubelet's PodReady condition; a terminating pod stays Ready until its
\* containers stop.
PodReadiness ==
    /\ pod.exists
    /\ pod.ready \/ ~(pod.terminating \/ pod.failed)
    /\ OthersWritePod([pod EXCEPT !.ready = ~@])
    /\ UNCHANGED meddled

\* The grace period ends.
PodGone ==
    /\ pod.exists /\ pod.terminating
    /\ OthersWritePod(NoPod)
    /\ UNCHANGED meddled

\* A drain, an eviction or a user deletes the pod, gracefully or by force.
Evict ==
    /\ pod.exists /\ ~pod.terminating
    /\ \/ OthersWritePod([pod EXCEPT !.terminating = TRUE])
       \/ OthersWritePod(NoPod)
    /\ meddled' = TRUE

\* Node-pressure eviction or a rejected admission on the node: the object
\* stays, its phase is Failed for good.
PodFails ==
    /\ PodFailures
    /\ pod.exists /\ ~pod.terminating /\ ~pod.failed
    /\ OthersWritePod([pod EXCEPT !.failed = TRUE, !.ready = FALSE])
    /\ UNCHANGED meddled

-----------------------------------------------------------------------------
(* Reconcile, as far as the scheduler is concerned. *)

Forget ==
    /\ mem' = [gen |-> 0, hash |-> AnyTemplate]
    /\ existing' = NoPod
    /\ ready' = FALSE

\* Bug: an error is logged and swallowed.
ReturnErrorSwallowedBug ==
    /\ pc' = "idle"
    /\ Forget
    /\ UNCHANGED queue

ReturnError ==
    /\ pc' = "idle"
    /\ AddAfter
    /\ Forget

Begin ==
    /\ pc = "idle" /\ queue = "due"
    /\ queue' = "none"
    /\ mem' = view
    /\ pc' = "get"
    /\ meddled' = (meddled /\ podStream # <<>>)
    /\ UNCHANGED <<clusters, pods, existing, ready, reported>>

\* Bug: the template of an existing pod is not compared.
GetPodIgnoresTemplateBug ==
    /\ pc = "get"
    /\ existing' = podView
    /\ ready' = (podView.exists /\ podView.ready)
    /\ pc' = IF podView.exists THEN "report" ELSE "create"
    /\ UNCHANGED <<clusters, pods, queue, mem, reported, meddled>>

\* The cached Get and the decision.
GetPod ==
    /\ pc = "get"
    /\ existing' = podView
    /\ \/ /\ ~podView.exists
          /\ pc' = "create"
          /\ ready' = FALSE
       \/ /\ podView.exists /\ ~podView.terminating /\ podView.hash # mem.hash
          /\ pc' = "delete"
          /\ ready' = FALSE
       \/ /\ podView.exists
          /\ podView.terminating \/ podView.hash = mem.hash
          /\ pc' = "report"
          /\ ready' = podView.ready
    /\ UNCHANGED <<clusters, pods, queue, mem, reported, meddled>>

\* Bug: the template-hash label is not set.
NewPodUnlabelledBug(u) ==
    [exists |-> TRUE, uid |-> u, hash |-> "", terminating |-> FALSE,
     ready |-> FALSE, failed |-> FALSE]

NewPod(u) == [exists |-> TRUE, uid |-> u, hash |-> mem.hash,
              terminating |-> FALSE, ready |-> FALSE, failed |-> FALSE]

CreatePod ==
    /\ pc = "create"
    /\ ~pod.exists
    /\ \E u \in Uids \ UidsInUse : WritePod(NewPod(u))
    /\ pc' = "report"
    /\ UNCHANGED <<clusters, queue, local, reported, meddled>>

\* The name is still taken: the cache has not seen the pod yet.
CreateAlreadyExists ==
    /\ pc = "create"
    /\ pod.exists
    /\ ReturnError
    /\ UNCHANGED <<clusters, pods, reported, meddled>>

\* Invalid or Forbidden: a spec error.
CreateRejected ==
    /\ pc = "create"
    /\ Rejections
    /\ pc' = "reportError"
    /\ UNCHANGED <<clusters, pods, queue, local, reported, meddled>>

\* What a delete by name does: nothing twice, and a pod no node runs yet is
\* removed at once.
ApplyDelete ==
    \/ /\ pod.exists /\ ~pod.terminating
       /\ WritePod([pod EXCEPT !.terminating = TRUE])
    \/ /\ pod.exists /\ ~pod.terminating /\ ~pod.ready
       /\ WritePod(NoPod)
    \/ /\ pod.exists /\ pod.terminating
       /\ UNCHANGED pods

\* Bug: the replacement is created at once, not on a later pass.
DeletePodRecreatesBug ==
    /\ pc = "delete"
    /\ ApplyDelete \/ (~pod.exists /\ UNCHANGED pods)
    /\ pc' = "create"
    /\ UNCHANGED <<clusters, queue, local, reported, meddled>>

DeletePod ==
    /\ pc = "delete"
    /\ ApplyDelete \/ (~pod.exists /\ UNCHANGED pods)
    /\ pc' = "report"
    /\ UNCHANGED <<clusters, queue, local, reported, meddled>>

\* A request fails; it may have been applied before the answer was lost.
RequestFails ==
    /\ \/ /\ pc \in {"create", "delete"}
          /\ UNCHANGED pods
       \/ /\ pc = "create" /\ ~pod.exists
          /\ \E u \in Uids \ UidsInUse : WritePod(NewPod(u))
       \/ /\ pc = "delete"
          /\ ApplyDelete
    /\ ReturnError
    /\ UNCHANGED <<clusters, reported, meddled>>

\* The status update at the end of Reconcile, if the spec is unchanged; a
\* spec error leaves status.scheduler as it was and is not retried.
Report ==
    /\ pc \in {"report", "reportError"}
    /\ mem.gen = cluster.gen
    /\ reported' =
        IF pc = "report"
        THEN [gen |-> mem.gen, rejected |-> FALSE, ready |-> ready]
        ELSE [reported EXCEPT !.gen = mem.gen, !.rejected = TRUE]
    /\ pc' = "idle"
    /\ Forget
    /\ UNCHANGED <<clusters, pods, queue, meddled>>

ReportRefused ==
    /\ pc \in {"report", "reportError"}
    /\ mem.gen # cluster.gen
    /\ ReturnError
    /\ UNCHANGED <<clusters, pods, reported, meddled>>

\* A transient error of a later handler or of the update itself.
ReportFails ==
    /\ pc \in {"report", "reportError"}
    /\ ReturnError
    /\ UNCHANGED <<clusters, pods, reported, meddled>>

Crash ==
    /\ view' = cluster
    /\ podView' = pod
    /\ podStream' = <<>>
    /\ Enqueue
    /\ pc' = "idle"
    /\ Forget
    /\ meddled' = FALSE
    /\ UNCHANGED <<cluster, pod, reported>>

-----------------------------------------------------------------------------
Init ==
    /\ \E h \in Templates : cluster = [gen |-> 1, hash |-> h]
    /\ view = cluster
    /\ pod = NoPod
    /\ podView = NoPod
    /\ podStream = <<>>
    /\ queue = "due"
    /\ pc = "idle"
    /\ mem = [gen |-> 0, hash |-> AnyTemplate]
    /\ existing = NoPod
    /\ ready = FALSE
    /\ reported = [gen |-> 0, rejected |-> FALSE, ready |-> FALSE]
    /\ meddled = FALSE

Others ==
    \/ \E h \in Templates : EditTemplate(h)
    \/ PodReadiness \/ PodGone \/ Evict \/ PodFails

Worker ==
    \/ Begin \/ GetPod \/ CreatePod \/ CreateAlreadyExists \/ CreateRejected
    \/ DeletePod \/ Report \/ ReportRefused

Next ==
    \/ Others \/ Worker
    \/ RequestFails \/ ReportFails \/ Crash
    \/ TimerFires \/ OtherEvent \/ DeliverCluster \/ DeliverPod

Spec == Init /\ [][Next]_vars

(***************************************************************************)
(* Queue, timers, watches and the end of a grace period make progress by   *)
(* themselves; a request that is retried for ever is answered in the end.  *)
(***************************************************************************)
Fairness ==
    /\ WF_vars(TimerFires) /\ WF_vars(DeliverCluster) /\ WF_vars(DeliverPod)
    /\ WF_vars(PodGone)
    /\ WF_vars(Begin) /\ SF_vars(GetPod)
    /\ WF_vars(CreateAlreadyExists) /\ WF_vars(ReportRefused)
    /\ SF_vars(CreatePod) /\ SF_vars(DeletePod) /\ SF_vars(Report)

FairSpec == Spec /\ Fairness

-----------------------------------------------------------------------------
(* Properties. *)

\* Every variable holds a value of its kind.
TypeOK ==
    /\ cluster \in Cluster /\ view \in Cluster /\ mem \in Cluster
    /\ pod \in Pod /\ podView \in Pod /\ existing \in Pod
    /\ podStream \in Seq(Pod)
    /\ queue \in {"none", "due", "delayed"}
    /\ pc \in {"idle", "get", "create", "delete", "report", "reportError"}
    /\ ready \in BOOLEAN
    /\ reported \in [gen : Nat, rejected : BOOLEAN, ready : BOOLEAN]
    /\ meddled \in BOOLEAN

Settled == pc = "idle" /\ queue = "none" /\ podStream = <<>> /\ view = cluster

\* The loop never goes to sleep on unfinished work: when nothing is queued,
\* in flight or running, and the last pass was not rejected, the pod exists
\* and has the template of the current spec (or is on its way out, which will
\* raise an event), and the status was written for this generation and tells
\* its readiness.
SettledMeansDone ==
    Settled /\ ~reported.rejected =>
        /\ pod.exists
        /\ pod.terminating \/ pod.hash = cluster.hash
        /\ reported.gen = cluster.gen
        /\ reported.ready = pod.ready

\* reconcileScheduler deletes by name, from a stale cache and without a uid
\* precondition.  As long as nobody else has deleted the pod since the cache
\* was last current, what it takes down is the pod it looked at, never a
\* successor under the same name, over however many passes the cache trails.
DeletesOnlyWhatItSaw ==
    [][pc = "delete" /\ pod' # pod /\ pc' \in {"report", "idle"}
       => meddled \/ pod.uid = existing.uid]_vars

Desired == pod.exists /\ ~pod.terminating /\ pod.hash = cluster.hash

\* Whatever is evicted, edited, lost or interrupted, again and again there
\* is a scheduler pod of the current template that is not going away.
AlwaysRecovers == []<>Desired

\* A scheduler that has the right template and stays Ready is eventually
\* reported Ready for the current generation.
ReadinessIsReported ==
    <>[](Desired /\ pod.ready)
        => <>[](/\ reported.gen = cluster.gen /\ ~reported.rejected
                /\ reported.ready)

=============================================================================
