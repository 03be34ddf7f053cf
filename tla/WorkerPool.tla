----------------------------- MODULE WorkerPool -----------------------------
(***************************************************************************)
(* The worker pods of one PolarsCluster.  reconcileWorkerPool lists the    *)
(* pods from an informer cache that trails the API server and keeps no     *)
(* record of its own requests; it deletes the outdated pods one by one,    *)
(* then creates what is lacking (several requests at a time, all of them   *)
(* attempted) or deletes what is too much, and reports the outcome.        *)
(***************************************************************************)
EXTENDS Naturals, Sequences, FiniteSets

CONSTANTS
    Pods,        \* identities of pods; unused ones are used again
    Templates,   \* values of the template hash
    MaxReplicas, \* bound: replicas a spec asks for
    MaxGen,      \* bound: generations of the spec
    MaxLag       \* bound: undelivered pod versions others may leave

ASSUME SetsAssumption == Templates # {} /\ IsFiniteSet(Pods)
ASSUME BoundsAssumption ==
    MaxReplicas \in Nat /\ MaxGen \in Nat \ {0} /\ MaxLag \in Nat \ {0}

VARIABLES
    cluster,   \* generation, template hash and replicas in the API server
    view,      \* the same in the informer cache
    pods,      \* the worker pods in the API server
    podsView,  \* the same in the informer cache
    podStream, \* pod versions not yet delivered, oldest first
    queue,     \* the cluster key's entry in the work queue
    pc,        \* where the worker is in Reconcile
    mem,       \* Reconcile's copy of cluster
    outdated,  \* listed pods of another template, still to delete
    active,    \* activeManagedPods
    ready,     \* those of them that were Ready when listed
    lacking,   \* create requests still to issue
    surplus,   \* pods of active still to delete
    failure,   \* what the create requests so far reduce to
    reported,  \* status.workerPool and WorkerPoolReady as last written
    undisturbed  \* history: the list was current and only this pass wrote since

vars == <<cluster, view, pods, podsView, podStream, queue, pc, mem, outdated,
          active, ready, lacking, surplus, failure, reported, undisturbed>>

clusters == <<cluster, view>>
podVars  == <<pods, podsView, podStream>>
pass     == <<mem, outdated, active, ready, lacking, surplus, failure>>

Cluster == [gen : Nat, hash : Templates, replicas : Nat]

Pod == [life : {"none", "alive", "terminating"}, hash : Templates,
        ready : BOOLEAN]

AnyTemplate == CHOOSE h \in Templates : TRUE
NoPod == [life |-> "none", hash |-> AnyTemplate, ready |-> FALSE]

\* A pod with a deletion timestamp; nobody looks at its template any more.
Leaving == [NoPod EXCEPT !.life = "terminating"]

NoCluster == [gen |-> 0, hash |-> AnyTemplate, replicas |-> 0]

Alive == {p \in Pods : pods[p].life = "alive"}
Current(hash) == {p \in Alive : pods[p].hash = hash}

\* Identities nothing refers to any more: GenerateName never repeats one.
Fresh ==
    {p \in Pods : /\ pods[p].life = "none"
                  /\ podsView[p].life = "none"
                  /\ p \notin outdated \cup active
                  /\ \A i \in DOMAIN podStream : podStream[i].key # p}

-----------------------------------------------------------------------------
(* The work queue and the watches. *)

Enqueue == queue' = "due"
AddAfter == queue' = IF queue = "due" THEN "due" ELSE "delayed"

TimerFires ==
    /\ queue = "delayed"
    /\ Enqueue
    /\ UNCHANGED <<clusters, podVars, pc, pass, reported, undisturbed>>

\* Any other object of the cluster changes, or the informers resync.
OtherEvent ==
    /\ queue # "due"
    /\ Enqueue
    /\ UNCHANGED <<clusters, podVars, pc, pass, reported, undisturbed>>

DeliverCluster ==
    /\ view # cluster
    /\ view' = cluster
    /\ Enqueue
    /\ UNCHANGED <<cluster, podVars, pc, pass, reported, undisturbed>>

\* Bug: pods are not watched (no Owns in SetupWithManager).
DeliverPodUnwatchedBug ==
    /\ podStream # <<>>
    /\ podsView' = [podsView EXCEPT ![Head(podStream).key] = Head(podStream).version]
    /\ podStream' = Tail(podStream)
    /\ UNCHANGED <<clusters, pods, queue, pc, pass, reported, undisturbed>>

DeliverPod ==
    /\ podStream # <<>>
    /\ podsView' = [podsView EXCEPT ![Head(podStream).key] = Head(podStream).version]
    /\ podStream' = Tail(podStream)
    /\ Enqueue
    /\ UNCHANGED <<clusters, pods, pc, pass, reported, undisturbed>>

-----------------------------------------------------------------------------
(* Everyone but the operator. *)

WritePod(p, version) ==
    /\ pods' = [pods EXCEPT ![p] = version]
    /\ podStream' = Append(podStream, [key |-> p, version |-> version])
    /\ UNCHANGED podsView

OthersWritePod(p, version) ==
    /\ Len(podStream) < MaxLag
    /\ WritePod(p, version)
    /\ UNCHANGED <<clusters, queue, pc, pass, reported>>

EditSpec(hash, replicas) ==
    /\ cluster = view  \* bound: one undelivered edit
    /\ cluster.gen < MaxGen
    /\ cluster' = [gen |-> cluster.gen + 1, hash |-> hash, replicas |-> replicas]
    /\ <<hash, replicas>> # <<cluster.hash, cluster.replicas>>
    /\ UNCHANGED <<view, podVars, queue, pc, pass, reported, undisturbed>>

PodReadiness(p) ==
    /\ pods[p].life = "alive"
    /\ OthersWritePod(p, [pods[p] EXCEPT !.ready = ~@])
    /\ UNCHANGED undisturbed

\* The grace period ends.
PodGone(p) ==
    /\ pods[p].life = "terminating"
    /\ OthersWritePod(p, NoPod)
    /\ UNCHANGED undisturbed

\* A drain, an eviction or a user deletes a pod; one no node runs yet is
\* removed at once.
Evict(p) ==
    /\ pods[p].life = "alive"
    /\ \/ OthersWritePod(p, Leaving)
       \/ ~pods[p].ready /\ OthersWritePod(p, NoPod)
    /\ undisturbed' = FALSE

-----------------------------------------------------------------------------
(* Reconcile, as far as the worker pool is concerned. *)

Forget ==
    /\ mem' = NoCluster
    /\ outdated' = {}
    /\ active' = {}
    /\ ready' = {}
    /\ lacking' = 0
    /\ surplus' = 0
    /\ failure' = "none"
    /\ undisturbed' = FALSE

ReturnError ==
    /\ pc' = "idle"
    /\ AddAfter
    /\ Forget

Begin ==
    /\ pc = "idle" /\ queue = "due"
    /\ queue' = "none"
    /\ mem' = view
    /\ pc' = "list"
    /\ UNCHANGED <<clusters, podVars, outdated, active, ready, lacking,
                   surplus, failure, reported, undisturbed>>

\* Bug: what is lacking is counted before the outdated pods are set aside.
ListCountsOutdatedBug ==
    /\ pc = "list"
    /\ LET listed == {p \in Pods : podsView[p].life = "alive"}
           same == {p \in listed : podsView[p].hash = mem.hash}
           n == Cardinality(listed)
       IN  /\ outdated' = listed \ same
           /\ active' = same
           /\ ready' = {p \in same : podsView[p].ready}
           /\ lacking' = IF n < mem.replicas THEN mem.replicas - n ELSE 0
           /\ surplus' = IF n > mem.replicas THEN n - mem.replicas ELSE 0
    /\ undisturbed' = (podStream = <<>>)
    /\ pc' = "apply"
    /\ UNCHANGED <<clusters, podVars, queue, mem, failure, reported>>

\* Bug: too many pods are taken for a negative number of lacking ones.
ListNegativeBug ==
    /\ pc = "list"
    /\ LET listed == {p \in Pods : podsView[p].life = "alive"}
           same == {p \in listed : podsView[p].hash = mem.hash}
       IN  /\ outdated' = listed \ same
           /\ active' = same
           /\ ready' = {p \in same : podsView[p].ready}
           /\ lacking' = mem.replicas - Cardinality(same)
           /\ surplus' = 0
    /\ undisturbed' = (podStream = <<>>)
    /\ pc' = "apply"
    /\ UNCHANGED <<clusters, podVars, queue, mem, failure, reported>>

\* The cached List, split by template, and the count of what is lacking or
\* too much.
List ==
    /\ pc = "list"
    /\ LET listed == {p \in Pods : podsView[p].life = "alive"}
           same == {p \in listed : podsView[p].hash = mem.hash}
           n == Cardinality(same)
       IN  /\ outdated' = listed \ same
           /\ active' = same
           /\ ready' = {p \in same : podsView[p].ready}
           /\ lacking' = IF n < mem.replicas THEN mem.replicas - n ELSE 0
           /\ surplus' = IF n > mem.replicas THEN n - mem.replicas ELSE 0
    /\ undisturbed' = (podStream = <<>>)
    /\ pc' = "apply"
    /\ UNCHANGED <<clusters, podVars, queue, mem, failure, reported>>

\* A delete request reaches the API server; NotFound is tolerated, a pod
\* already terminating stays so, one no node runs yet is removed at once.
ApplyDelete(p) ==
    \/ /\ pods[p].life = "alive"
       /\ WritePod(p, Leaving)
    \/ /\ pods[p].life = "alive" /\ ~pods[p].ready
       /\ WritePod(p, NoPod)
    \/ /\ pods[p].life # "alive"
       /\ UNCHANGED podVars

DeleteOutdated(p) ==
    /\ pc = "apply"
    /\ p \in outdated
    /\ ApplyDelete(p)
    /\ outdated' = outdated \ {p}
    /\ UNCHANGED <<clusters, queue, pc, mem, active, ready, lacking, surplus,
                   failure, reported, undisturbed>>

\* A delete fails and ends the pass; it may have been applied all the same.
DeleteFails(p) ==
    /\ pc = "apply"
    /\ p \in outdated \/ (outdated = {} /\ surplus > 0 /\ p \in active)
    /\ UNCHANGED podVars \/ ApplyDelete(p)
    /\ ReturnError
    /\ UNCHANGED <<clusters, reported>>

NewPod == [life |-> "alive", hash |-> mem.hash, ready |-> FALSE]

Creating == pc = "apply" /\ outdated = {} /\ lacking > 0

CreateSucceeds(p) ==
    /\ Creating
    /\ p \in Fresh
    /\ WritePod(p, NewPod)
    /\ active' = active \cup {p}
    /\ lacking' = lacking - 1
    /\ UNCHANGED <<clusters, queue, pc, mem, outdated, ready, surplus,
                   failure, reported, undisturbed>>

\* reducePodErrors: a transient error outweighs every rejection.
CreateRejected ==
    /\ Creating
    /\ lacking' = lacking - 1
    /\ failure' = IF failure = "transient" THEN "transient" ELSE "spec"
    /\ UNCHANGED <<clusters, podVars, queue, pc, mem, outdated, active, ready,
                   surplus, reported, undisturbed>>

CreateFails ==
    /\ Creating
    /\ \/ UNCHANGED podVars
       \/ \E p \in Fresh : WritePod(p, NewPod)
    /\ lacking' = lacking - 1
    /\ failure' = "transient"
    /\ UNCHANGED <<clusters, queue, pc, mem, outdated, active, ready, surplus,
                   reported, undisturbed>>

\* Scale down; the cached list has no order, so any active pod may be next.
DeleteSurplus(p) ==
    /\ pc = "apply" /\ outdated = {} /\ surplus > 0
    /\ p \in active
    /\ ApplyDelete(p)
    /\ active' = active \ {p}
    /\ surplus' = surplus - 1
    /\ UNCHANGED <<clusters, queue, pc, mem, outdated, ready, lacking,
                   failure, reported, undisturbed>>

Applied == pc = "apply" /\ outdated = {} /\ lacking = 0 /\ surplus = 0

ReturnTransient ==
    /\ Applied
    /\ failure = "transient"
    /\ ReturnError
    /\ UNCHANGED <<clusters, podVars, reported>>

ToReport ==
    /\ Applied
    /\ failure # "transient"
    /\ pc' = "report"
    /\ UNCHANGED <<clusters, podVars, queue, pass, reported, undisturbed>>

\* Bug: Ready pods are counted although the pass has just deleted them.
ReportCountsDeletedBug ==
    /\ pc = "report"
    /\ mem.gen = cluster.gen
    /\ reported' =
        IF failure = "spec"
        THEN [reported EXCEPT !.gen = mem.gen, !.rejected = TRUE]
        ELSE [gen |-> mem.gen, rejected |-> FALSE,
              replicas |-> Cardinality(active),
              readyReplicas |-> Cardinality(ready)]
    /\ pc' = "idle"
    /\ Forget
    /\ UNCHANGED <<clusters, podVars, queue>>

\* The status update, refused when the spec has changed.  A rejection is
\* recorded in the condition alone and is not retried.
Report ==
    /\ pc = "report"
    /\ mem.gen = cluster.gen
    /\ reported' =
        IF failure = "spec"
        THEN [reported EXCEPT !.gen = mem.gen, !.rejected = TRUE]
        ELSE [gen |-> mem.gen, rejected |-> FALSE,
              replicas |-> Cardinality(active),
              readyReplicas |-> Cardinality(ready \cap active)]
    /\ pc' = "idle"
    /\ Forget
    /\ UNCHANGED <<clusters, podVars, queue>>

ReportRefused ==
    /\ pc = "report"
    /\ mem.gen # cluster.gen
    /\ ReturnError
    /\ UNCHANGED <<clusters, podVars, reported>>

\* A transient error of a later handler or of the update itself.
ReportFails ==
    /\ pc = "report"
    /\ ReturnError
    /\ UNCHANGED <<clusters, podVars, reported>>

Crash ==
    /\ view' = cluster
    /\ podsView' = pods
    /\ podStream' = <<>>
    /\ Enqueue
    /\ pc' = "idle"
    /\ Forget
    /\ UNCHANGED <<cluster, pods, reported>>

-----------------------------------------------------------------------------
Init ==
    \* bound: the first spec asks for MaxReplicas, a scale-up from nothing;
    \* which template it has makes no difference
    /\ cluster = [gen |-> 1, hash |-> AnyTemplate, replicas |-> MaxReplicas]
    /\ view = cluster
    /\ pods = [p \in Pods |-> NoPod]
    /\ podsView = pods
    /\ podStream = <<>>
    /\ queue = "due"
    /\ pc = "idle"
    /\ mem = NoCluster
    /\ outdated = {} /\ active = {} /\ ready = {}
    /\ lacking = 0 /\ surplus = 0
    /\ failure = "none"
    /\ reported = [gen |-> 0, rejected |-> FALSE, replicas |-> 0,
                   readyReplicas |-> 0]
    /\ undisturbed = FALSE

Others ==
    \/ \E h \in Templates, n \in 0..MaxReplicas : EditSpec(h, n)
    \/ \E p \in Pods : PodReadiness(p) \/ PodGone(p) \/ Evict(p)

Worker ==
    \/ Begin \/ List
    \/ \E p \in Pods :
          DeleteOutdated(p) \/ CreateSucceeds(p) \/ DeleteSurplus(p)
    \/ CreateRejected
    \/ ReturnTransient \/ ToReport \/ Report \/ ReportRefused

Faults ==
    \/ \E p \in Pods : DeleteFails(p)
    \/ CreateFails \/ ReportFails \/ Crash

Next ==
    \/ Others \/ Worker \/ Faults
    \/ TimerFires \/ OtherEvent \/ DeliverCluster \/ DeliverPod

Spec == Init /\ [][Next]_vars

-----------------------------------------------------------------------------
(* Properties. *)

\* Every variable holds a value of its kind.
TypeOK ==
    /\ cluster \in Cluster /\ view \in Cluster /\ mem \in Cluster
    /\ pods \in [Pods -> Pod] /\ podsView \in [Pods -> Pod]
    /\ podStream \in Seq([key : Pods, version : Pod])
    /\ queue \in {"none", "due", "delayed"}
    /\ pc \in {"idle", "list", "apply", "report"}
    /\ outdated \in SUBSET Pods /\ active \in SUBSET Pods
    /\ ready \in SUBSET Pods
    /\ lacking \in Nat /\ surplus \in Nat
    /\ failure \in {"none", "spec", "transient"}
    /\ reported \in [gen : Nat, rejected : BOOLEAN, replicas : Nat,
                     readyReplicas : Nat]
    /\ undisturbed \in BOOLEAN

\* A pass that lists a current cache and is not disturbed does the whole job
\* in one go, however its requests interleave with deliveries and readiness:
\* when it reports, exactly the desired number of pods of the spec's template
\* is alive, they are the pods it counts, and none of another template is.
UndisturbedPassIsExact ==
    pc = "report" /\ undisturbed /\ failure = "none" =>
        /\ Alive = active
        /\ Alive = Current(mem.hash)
        /\ Cardinality(active) = mem.replicas

Settled == pc = "idle" /\ queue = "none" /\ podStream = <<>> /\ view = cluster

\* However stale the lists were on the way, whatever failed, was evicted or
\* interrupted: once nothing is queued, in flight or running (and the last
\* pass was not rejected), the pool has exactly the desired pods and the
\* status counts them and their readiness right.
SettledMeansDone ==
    Settled /\ ~reported.rejected =>
        /\ Alive = Current(cluster.hash)
        /\ Cardinality(Alive) = cluster.replicas
        /\ reported.gen = cluster.gen
        /\ reported.replicas = Cardinality(Alive)
        /\ reported.readyReplicas = Cardinality({p \in Alive : pods[p].ready})

\* A status never counts more ready pods than pods, nor, for the generation
\* it names, a pool that the pass has not brought to the desired size.
ReportIsConsistent ==
    /\ reported.readyReplicas <= reported.replicas
    /\ reported.gen = cluster.gen /\ ~reported.rejected =>
           reported.replicas = cluster.replicas

=============================================================================
