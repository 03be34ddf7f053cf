------------------------------- MODULE Routes -------------------------------
(***************************************************************************)
(* The two Gateway API routes of one PolarsCluster.  reconcileRoutes takes *)
(* them in order: a requested one is created or updated (a cached read,    *)
(* then a request guarded by the resourceVersion), one that is not wanted  *)
(* is deleted if the cached copy is controlled by the cluster.  Others     *)
(* create, edit and delete objects of the same names at any time, and only *)
(* objects the cluster controls raise events for it.                       *)
(***************************************************************************)
EXTENDS Naturals, Sequences

CONSTANTS
    RouteSpecs,  \* contents a spec asks of a route
    Rejections,  \* TRUE iff the API server may reject a route
    MaxGen,      \* bound: generations of the spec
    MaxLag       \* bound: undelivered route versions others may leave

NoSpec == "none"

ASSUME SpecsAssumption == RouteSpecs # {} /\ NoSpec \notin RouteSpecs
ASSUME FlagsAssumption == Rejections \in BOOLEAN
ASSUME BoundsAssumption == MaxGen \in Nat \ {0} /\ MaxLag \in Nat \ {0}

VARIABLES
    cluster,   \* generation and requested routes in the API server
    view,      \* the same in the informer cache
    enabled,   \* GatewayAPIEnabled, found out when the operator starts
    routes,    \* the objects with the routes' names in the API server
    cache,     \* the same in the informer cache
    stream,    \* route versions not yet delivered, oldest first
    queue,     \* the cluster key's entry in the work queue
    pc,        \* where the worker is in Reconcile
    at,        \* the target reconcileRoutes is at
    mem,       \* Reconcile's copy of cluster
    copy,      \* the route as CreateOrUpdate read it
    copyFresh, \* its resourceVersion is still the API server's
    status,    \* the routesStatus so far
    reported,  \* RoutesReady as last written
    meddled    \* history: others made or removed a route since the cache
               \* was last current

vars == <<cluster, view, enabled, routes, cache, stream, queue, pc, at, mem,
          copy, copyFresh, status, reported, meddled>>

clusters == <<cluster, view, enabled>>
objects  == <<routes, cache, stream>>
pass     == <<at, mem, copy, copyFresh, status>>

Targets == {"grpc", "http"}

\* A route: whose controller it has, what it says, and whether a parent has
\* accepted it.  Contents that no spec asked for are NoSpec.
Owners == {"absent", "nobody", "cluster", "other"}
Route == [owner : Owners, spec : RouteSpecs \cup {NoSpec}, accepted : BOOLEAN]
NoRoute == [owner |-> "absent", spec |-> NoSpec, accepted |-> FALSE]

Cluster == [gen : Nat, want : [Targets -> RouteSpecs \cup {NoSpec}]]
NoCluster == [gen |-> 0, want |-> [t \in Targets |-> NoSpec]]

Reasons == {"none", "NotAccepted", "RouteRejected", "RouteConflict",
            "GatewayAPIUnavailable"}
RoutesStatus == [requested : BOOLEAN, ready : BOOLEAN, reason : Reasons,
                 conflict : BOOLEAN]

EmptyStatus == [requested |-> FALSE, ready |-> TRUE, reason |-> "none",
                conflict |-> FALSE]

Unavailable == [requested |-> TRUE, ready |-> FALSE,
                reason |-> "GatewayAPIUnavailable", conflict |-> FALSE]

\* Bug: the first failure is kept, whatever follows.
NotReadyFirstBug(s, reason) ==
    IF s.ready THEN [s EXCEPT !.ready = FALSE, !.reason = reason] ELSE s

\* routesStatus.notReady: the first failure is kept, but a route that merely
\* waits for acceptance gives way to one that failed.
NotReady(s, reason) ==
    IF s.ready \/ (s.reason = "NotAccepted" /\ reason # "NotAccepted")
    THEN [s EXCEPT !.ready = FALSE, !.reason = reason]
    ELSE s

-----------------------------------------------------------------------------
(* The work queue and the watches. *)

Enqueue == queue' = "due"
AddAfter == queue' = IF queue = "due" THEN "due" ELSE "delayed"

TimerFires ==
    /\ queue = "delayed"
    /\ Enqueue
    /\ UNCHANGED <<clusters, objects, pc, pass, reported, meddled>>

DeliverCluster ==
    /\ view # cluster
    /\ view' = cluster
    /\ Enqueue
    /\ UNCHANGED <<cluster, enabled, objects, pc, pass, reported, meddled>>

\* An event reaches the owner of the old or of the new version; a route of
\* another controller raises none.
DeliverRoute ==
    /\ stream # <<>>
    /\ LET t == Head(stream).key
           new == Head(stream).version
       IN  /\ cache' = [cache EXCEPT ![t] = new]
           /\ IF "cluster" \in {cache[t].owner, new.owner}
              THEN Enqueue ELSE UNCHANGED queue
    /\ stream' = Tail(stream)
    /\ UNCHANGED <<clusters, routes, pc, pass, reported, meddled>>

-----------------------------------------------------------------------------
(* Everyone but the operator. *)

WriteRoute(t, version) ==
    /\ routes' = [routes EXCEPT ![t] = version]
    /\ stream' = Append(stream, [key |-> t, version |-> version])
    /\ UNCHANGED cache

OthersWrite(t, version) ==
    /\ Len(stream) < MaxLag
    /\ WriteRoute(t, version)
    /\ copyFresh' = (copyFresh /\ t # at)
    /\ UNCHANGED <<clusters, queue, pc, at, mem, copy, status, reported>>

EditSpec(want) ==
    /\ cluster = view  \* bound: one undelivered edit
    /\ cluster.gen < MaxGen
    /\ want # cluster.want
    /\ cluster' = [gen |-> cluster.gen + 1, want |-> want]
    /\ UNCHANGED <<view, enabled, objects, queue, pc, pass, reported, meddled>>

\* Somebody takes the name, with or without a controller of their own.
ForeignCreate(t) ==
    /\ enabled
    /\ routes[t].owner = "absent"
    /\ \E owner \in {"nobody", "other"} :
          OthersWrite(t, [NoRoute EXCEPT !.owner = owner])
    /\ meddled' = TRUE

RouteDeleted(t) ==
    /\ routes[t].owner # "absent"
    /\ OthersWrite(t, NoRoute)
    /\ meddled' = TRUE

\* A user edits a route of the cluster.
RouteEdited(t) ==
    /\ routes[t].owner = "cluster" /\ routes[t].spec # NoSpec
    /\ OthersWrite(t, [routes[t] EXCEPT !.spec = NoSpec])
    /\ UNCHANGED meddled

\* A gateway accepts the route or withdraws its acceptance.
GatewayDecides(t) ==
    /\ routes[t].owner = "cluster"
    /\ OthersWrite(t, [routes[t] EXCEPT !.accepted = ~@])
    /\ UNCHANGED meddled

-----------------------------------------------------------------------------
(* Reconcile, as far as the routes are concerned: the passes that get to   *)
(* them, no earlier handler having failed.                                 *)

Forget ==
    /\ at' = "grpc"
    /\ mem' = NoCluster
    /\ copy' = NoRoute
    /\ copyFresh' = FALSE
    /\ status' = EmptyStatus

ReturnError ==
    /\ pc' = "idle"
    /\ AddAfter
    /\ Forget

Begin ==
    /\ pc = "idle" /\ queue = "due"
    /\ queue' = "none"
    /\ mem' = view
    /\ pc' = "read"
    /\ meddled' = (meddled /\ stream # <<>>)
    /\ UNCHANGED <<clusters, objects, at, copy, copyFresh, status, reported>>

\* The next target, or the end of the loop.
Continue(s) ==
    /\ status' = s
    /\ IF at = "grpc" THEN at' = "http" /\ pc' = "read"
                      ELSE at' = "grpc" /\ pc' = "report"
    /\ copy' = NoRoute
    /\ copyFresh' = FALSE
    /\ UNCHANGED mem

Want == mem.want[at]
Requested == [status EXCEPT !.requested = TRUE]

\* routeAccepted.
Judge(route) ==
    IF route.accepted THEN Requested ELSE NotReady(Requested, "NotAccepted")

Conflicted == [NotReady(Requested, "RouteConflict") EXCEPT !.conflict = TRUE]

\* Bug: the controller reference is cleared instead of set.
MutatedUnownedBug == [copy EXCEPT !.owner = "none", !.spec = Want]

\* What CreateOrUpdate's mutation makes of the copy.
Mutated == [copy EXCEPT !.owner = "cluster", !.spec = Want]

\* Not requested: nothing to delete, or no way to look.
Skip ==
    /\ pc = "read"
    /\ Want = NoSpec
    /\ ~enabled \/ cache[at].owner # "cluster"
    /\ Continue(status)
    /\ UNCHANGED <<clusters, objects, queue, reported, meddled>>

\* Requested without the Gateway API: the loop ends here.
GiveUp ==
    /\ pc = "read"
    /\ Want # NoSpec /\ ~enabled
    /\ status' = Unavailable
    /\ at' = "grpc"
    /\ pc' = "report"
    /\ UNCHANGED <<clusters, objects, queue, mem, copy, copyFresh, reported,
                   meddled>>

\* The cached Get of deleteOwnedRoute or CreateOrUpdate and what follows from
\* it without a request: the wrong controller, or nothing to change.
ReadRoute ==
    /\ pc = "read"
    /\ enabled
    /\ \/ /\ Want = NoSpec
          /\ cache[at].owner = "cluster"
          /\ pc' = "delete"
          /\ UNCHANGED <<at, copy, copyFresh, status, mem>>
       \/ /\ Want # NoSpec
          /\ cache[at].owner = "other"
          /\ Continue(Conflicted)
       \/ /\ Want # NoSpec
          /\ cache[at].owner = "cluster" /\ cache[at].spec = Want
          /\ Continue(Judge(cache[at]))
       \/ /\ Want # NoSpec
          /\ cache[at].owner # "other"
          /\ ~(cache[at].owner = "cluster" /\ cache[at].spec = Want)
          /\ pc' = "write"
          /\ copy' = cache[at]
          /\ copyFresh' = (\A i \in DOMAIN stream : stream[i].key # at)
          /\ UNCHANGED <<at, status, mem>>
    /\ UNCHANGED <<clusters, objects, queue, reported, meddled>>

CreateRoute ==
    /\ pc = "write" /\ copy.owner = "absent"
    /\ routes[at].owner = "absent"
    /\ WriteRoute(at, Mutated)
    /\ Continue(Judge(Mutated))
    /\ UNCHANGED <<clusters, queue, reported, meddled>>

\* Bug: the update is a merge patch, which no resourceVersion guards.
UpdateRouteUncheckedBug ==
    /\ pc = "write" /\ copy.owner # "absent"
    /\ WriteRoute(at, Mutated)
    /\ Continue(Judge(Mutated))
    /\ UNCHANGED <<clusters, queue, reported, meddled>>

UpdateRoute ==
    /\ pc = "write" /\ copy.owner # "absent"
    /\ copyFresh
    /\ WriteRoute(at, Mutated)
    /\ Continue(Judge(Mutated))
    /\ UNCHANGED <<clusters, queue, reported, meddled>>

\* AlreadyExists, Conflict or NotFound: the copy was out of date.
WriteRefused ==
    /\ pc = "write"
    /\ IF copy.owner = "absent" THEN routes[at].owner # "absent" ELSE ~copyFresh
    /\ ReturnError
    /\ UNCHANGED <<clusters, objects, reported, meddled>>

WriteRejected ==
    /\ pc = "write"
    /\ Rejections
    /\ Continue(NotReady(Requested, "RouteRejected"))
    /\ UNCHANGED <<clusters, objects, queue, reported, meddled>>

\* deleteOwnedRoute deletes by name; NotFound is fine.
ApplyDelete ==
    IF routes[at].owner = "absent" THEN UNCHANGED objects
                                   ELSE WriteRoute(at, NoRoute)

DeleteRoute ==
    /\ pc = "delete"
    /\ ApplyDelete
    /\ Continue(status)
    /\ UNCHANGED <<clusters, queue, reported, meddled>>

\* A request fails; it may have been applied before the answer was lost.
RequestFails ==
    /\ pc \in {"write", "delete"}
    /\ \/ UNCHANGED objects
       \/ /\ pc = "write"
          /\ IF copy.owner = "absent" THEN routes[at].owner = "absent" ELSE copyFresh
          /\ WriteRoute(at, Mutated)
       \/ /\ pc = "delete"
          /\ ApplyDelete
    /\ ReturnError
    /\ UNCHANGED <<clusters, reported, meddled>>

\* Bug: only a conflict that is also the reported reason is retried.
ReportByReasonBug ==
    /\ pc = "report"
    /\ mem.gen = cluster.gen
    /\ reported' = [gen |-> mem.gen, status |-> status]
    /\ pc' = "idle"
    /\ IF status.reason = "RouteConflict" THEN AddAfter ELSE UNCHANGED queue
    /\ Forget
    /\ UNCHANGED <<clusters, objects, meddled>>

\* The status update, refused when the spec has changed, and RequeueAfter
\* when a name is taken.
Report ==
    /\ pc = "report"
    /\ mem.gen = cluster.gen
    /\ reported' = [gen |-> mem.gen, status |-> status]
    /\ pc' = "idle"
    /\ IF status.conflict THEN AddAfter ELSE UNCHANGED queue
    /\ Forget
    /\ UNCHANGED <<clusters, objects, meddled>>

ReportRefused ==
    /\ pc = "report"
    /\ mem.gen # cluster.gen
    /\ ReturnError
    /\ UNCHANGED <<clusters, objects, reported, meddled>>

ReportFails ==
    /\ pc = "report"
    /\ ReturnError
    /\ UNCHANGED <<clusters, objects, reported, meddled>>

\* A restart, which may find the Gateway API newly installed.
Crash ==
    /\ view' = cluster
    /\ enabled' \in {enabled, TRUE}
    /\ cache' = routes
    /\ stream' = <<>>
    /\ Enqueue
    /\ pc' = "idle"
    /\ Forget
    /\ meddled' = FALSE
    /\ UNCHANGED <<cluster, routes, reported>>

-----------------------------------------------------------------------------
Init ==
    /\ \E want \in [Targets -> RouteSpecs \cup {NoSpec}] :
          cluster = [gen |-> 1, want |-> want]
    /\ view = cluster
    /\ enabled \in BOOLEAN
    /\ routes = [t \in Targets |-> NoRoute]
    /\ cache = routes
    /\ stream = <<>>
    /\ queue = "due"
    /\ pc = "idle"
    /\ at = "grpc"
    /\ mem = NoCluster
    /\ copy = NoRoute
    /\ copyFresh = FALSE
    /\ status = EmptyStatus
    /\ reported = [gen |-> 0, status |-> EmptyStatus]
    /\ meddled = FALSE

Others ==
    \/ \E want \in [Targets -> RouteSpecs \cup {NoSpec}] : EditSpec(want)
    \/ \E t \in Targets :
          ForeignCreate(t) \/ RouteDeleted(t) \/ RouteEdited(t) \/ GatewayDecides(t)

Worker ==
    \/ Begin \/ Skip \/ GiveUp \/ ReadRoute
    \/ CreateRoute \/ UpdateRoute \/ WriteRefused \/ WriteRejected
    \/ DeleteRoute \/ Report \/ ReportRefused

Next ==
    \/ Others \/ Worker
    \/ RequestFails \/ ReportFails \/ Crash
    \/ TimerFires \/ DeliverCluster \/ DeliverRoute

Spec == Init /\ [][Next]_vars

-----------------------------------------------------------------------------
(* Properties. *)

\* Every variable holds a value of its kind.
TypeOK ==
    /\ cluster \in Cluster /\ view \in Cluster /\ mem \in Cluster
    /\ enabled \in BOOLEAN
    /\ routes \in [Targets -> Route] /\ cache \in [Targets -> Route]
    /\ stream \in Seq([key : Targets, version : Route])
    /\ queue \in {"none", "due", "delayed"}
    /\ pc \in {"idle", "read", "write", "delete", "report"}
    /\ at \in Targets
    /\ copy \in Route /\ copyFresh \in BOOLEAN
    /\ status \in RoutesStatus
    /\ reported \in [gen : Nat, status : RoutesStatus]
    /\ meddled \in BOOLEAN

\* What the operator does to a route it does not control: it adopts one
\* without a controller when the route is requested, and nothing else.  A
\* route of another controller is never overwritten, however stale the cache;
\* it is deleted only when it has just replaced a route of the cluster.
OthersLeftAlone ==
    [][\A t \in Targets :
          /\ <<pc, at>>' # <<pc, at>>
          /\ routes'[t] # routes[t]
          => \/ routes[t].owner \in {"absent", "cluster"}
             \/ routes[t].owner = "nobody" /\ mem.want[t] # NoSpec
             \/ pc = "delete" /\ meddled]_vars

\* A RoutesReady that is False gives the reason that needs attention: no
\* conflict hides behind a route that only waits to be accepted.
WorstReasonIsReported ==
    reported.status.conflict =>
        reported.status.reason \in {"RouteConflict", "RouteRejected"}

Settled ==
    /\ pc = "idle" /\ queue = "none"
    /\ stream = <<>> /\ view = cluster

\* The loop goes to sleep only when the routes are as the spec asks: those
\* requested exist, belong to the cluster and say what they should, those not
\* requested are gone, and RoutesReady tells their acceptance.  A conflict
\* never lets it sleep, not even one that another failure hides; a rejected
\* route and a missing Gateway API do.
SettledMeansDone ==
    Settled =>
        /\ reported.gen = cluster.gen
        /\ ~reported.status.conflict
        /\ reported.status.reason \notin {"RouteRejected", "GatewayAPIUnavailable"} =>
            /\ \A t \in Targets :
                 IF cluster.want[t] = NoSpec
                 THEN routes[t].owner # "cluster"
                 ELSE routes[t].owner = "cluster" /\ routes[t].spec = cluster.want[t]
            /\ reported.status.ready <=>
                 \A t \in Targets : cluster.want[t] # NoSpec => routes[t].accepted

=============================================================================
