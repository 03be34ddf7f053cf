---------------------------- MODULE RoutesProofs ----------------------------
(***************************************************************************)
(* Theorems about Routes, for every set of route contents, whatever the    *)
(* API server rejects, and all bounds.                                     *)
(***************************************************************************)
EXTENDS Routes, InformerProofs

-----------------------------------------------------------------------------
(* The inductive invariant. *)

\* The informer misses no version of a route.
NewestIsCurrent == InStep(cache, stream, routes, Targets)

\* While nobody interferes only the cluster's routes change.
OwnVersions ==
    ~meddled => \A t \in Targets : Waiting(stream, t) =>
                    routes[t].owner \in {"cluster", "absent"}

\* What a request may rely on: the copy of an update that the API server will
\* take is the object it replaces, and an object about to be deleted is the
\* cluster's or gone, unless somebody interfered.
RequestInv ==
    /\ pc = "write" =>
        /\ Want # NoSpec /\ copy.owner # "other"
        /\ copyFresh => copy = routes[at]
    /\ pc = "delete" =>
        /\ Want = NoSpec
        /\ ~meddled => routes[at].owner \in {"cluster", "absent"}

OwnershipInv == NewestIsCurrent /\ OwnVersions /\ RequestInv

\* What notReady keeps: the reason of the first failure that needs attention,
\* and a conflict under any of them.
Honest(s) ==
    /\ s.ready <=> s.reason = "none"
    /\ s.reason = "RouteConflict" => s.conflict
    /\ s.conflict => s.reason \in {"RouteConflict", "RouteRejected"}

StatusInv ==
    /\ Honest(status) /\ Honest(reported.status)
    /\ pc # "report" => status.reason # "GatewayAPIUnavailable"

\* Reasons not to expect the routes to be as the spec asks.
Excuses == {"RouteRejected", "RouteConflict", "GatewayAPIUnavailable"}

\* The route in cache c is the one that is wanted.
Matches(c, t, want) == c[t].owner = "cluster" /\ c[t].spec = want

\* A target that has been taken care of, with cache c and undelivered versions
\* v: what the cache holds is right, or a version that will raise an event is
\* on its way.
Covered(c, v, t, want) ==
    IF want = NoSpec
    THEN c[t].owner = "cluster" => Waiting(v, t)
    ELSE \/ Matches(c, t, want)
         \/ \E i \in 1..Len(v) :
               v[i].key = t /\ v[i].version.owner = "cluster"

\* The status s accounts for the targets that are done: they are taken care
\* of, and once nothing is on its way s tells whether all are accepted.
Accounted(c, v, done, want, s) ==
    s.reason \notin Excuses =>
        /\ \A t \in done : Covered(c, v, t, want[t])
        /\ (\A t \in done : want[t] # NoSpec => Matches(c, t, want[t]))
            => (s.ready <=> \A t \in done : want[t] # NoSpec => c[t].accepted)

\* The targets a pass has been through.
Done == IF pc = "report" THEN Targets
        ELSE IF at = "http" THEN {"grpc"} ELSE {}

\* Unless the key is queued again, a pass works on the cached spec, has taken
\* care of the targets it has been through, and the route it is at is still
\* what it saw.
PassInv ==
    pc # "idle" /\ queue = "none" =>
        /\ mem = view
        /\ Accounted(cache, stream, Done, mem.want, status)
        /\ pc = "write" => ~Matches(cache, at, Want)
        /\ pc = "delete" => cache[at].owner = "cluster"

\* Unless the key is queued, the last report is about the cached spec, is no
\* conflict, and every target is taken care of.
IdleInv ==
    pc = "idle" /\ queue = "none" =>
        /\ reported.gen = view.gen
        /\ ~reported.status.conflict
        /\ Accounted(cache, stream, Targets, view.want, reported.status)

\* A pass starts at the first target with nothing to report.
StartInv == pc = "idle" => at = "grpc" /\ status = EmptyStatus

\* Without the Gateway API there are no routes and no requests.
DisabledInv ==
    ~enabled => /\ pc \notin {"write", "delete"} /\ stream = <<>>
                /\ \A t \in Targets : routes[t] = NoRoute /\ cache[t] = NoRoute

SettledInv == StartInv /\ DisabledInv /\ PassInv /\ IdleInv

-----------------------------------------------------------------------------
(* Types. *)

Version == [key : Targets, version : Route]

\* What others and the operator make of a route is a route.
LEMMA RouteValues ==
    /\ NoRoute \in Route
    /\ \A o \in {"nobody", "other"} : [NoRoute EXCEPT !.owner = o] \in Route
    /\ \A r \in Route :
          /\ [r EXCEPT !.spec = NoSpec] \in Route
          /\ [r EXCEPT !.accepted = ~@] \in Route
          /\ \A s \in RouteSpecs \cup {NoSpec} :
                [r EXCEPT !.owner = "cluster", !.spec = s] \in Route
BY DEF Route, NoRoute, Owners

LEMMA ClusterValues ==
    /\ NoCluster \in Cluster
    /\ EmptyStatus \in RoutesStatus
    /\ Unavailable \in RoutesStatus
<1>1. [t \in Targets |-> NoSpec] \in [Targets -> RouteSpecs \cup {NoSpec}]
  OBVIOUS
<1> QED BY <1>1
        DEF NoCluster, Cluster, EmptyStatus, Unavailable, RoutesStatus, Reasons

\* notReady and routeAccepted return a routesStatus.
LEMMA StatusValues ==
    ASSUME NEW s \in RoutesStatus
    PROVE  /\ \A r \in Reasons : NotReady(s, r) \in RoutesStatus
           /\ [s EXCEPT !.requested = TRUE] \in RoutesStatus
           /\ [s EXCEPT !.conflict = TRUE] \in RoutesStatus
BY DEF RoutesStatus, NotReady

LEMMA VerdictTypes ==
    ASSUME TypeOK
    PROVE  /\ Requested \in RoutesStatus
           /\ Conflicted \in RoutesStatus
           /\ NotReady(Requested, "RouteRejected") \in RoutesStatus
           /\ \A r \in Route : Judge(r) \in RoutesStatus
<1>1. Requested \in RoutesStatus
  BY StatusValues DEF Requested, TypeOK
<1>2. \A r \in Reasons : NotReady(Requested, r) \in RoutesStatus
  BY <1>1, StatusValues
<1>3. Conflicted \in RoutesStatus
  BY <1>2, StatusValues DEF Conflicted, Reasons
<1> QED BY <1>1, <1>2, <1>3 DEF Judge, Reasons

LEMMA WantType ==
    ASSUME TypeOK
    PROVE  Want \in RouteSpecs \cup {NoSpec} /\ Mutated \in Route
<1>1. Want \in RouteSpecs \cup {NoSpec}
  BY DEF TypeOK, Cluster, Want
<1> QED BY <1>1, RouteValues DEF TypeOK, Mutated

LEMMA WriteRouteType ==
    ASSUME TypeOK, NEW t \in Targets, NEW r \in Route, WriteRoute(t, r)
    PROVE  /\ routes' \in [Targets -> Route] /\ cache' \in [Targets -> Route]
           /\ stream' \in Seq(Version)
<1>1. [key |-> t, version |-> r] \in Version
  BY DEF Version
<1>2. stream \in Seq(Version)
  BY DEF TypeOK, Version
<1>3. stream' \in Seq(Version)
  BY <1>1, <1>2 DEF WriteRoute
<1> QED BY <1>3 DEF WriteRoute, TypeOK

LEMMA ApplyDeleteType ==
    ASSUME TypeOK, ApplyDelete
    PROVE  /\ routes' \in [Targets -> Route] /\ cache' \in [Targets -> Route]
           /\ stream' \in Seq(Version)
<1>1. CASE UNCHANGED objects
  BY <1>1 DEF TypeOK, objects, Version
<1>2. CASE WriteRoute(at, NoRoute)
  BY <1>2, RouteValues, WriteRouteType DEF TypeOK
<1> QED BY <1>1, <1>2 DEF ApplyDelete

LEMMA PassTypes ==
    ASSUME TypeOK
    PROVE  /\ Forget => /\ at' \in Targets /\ mem' \in Cluster /\ copy' \in Route
                        /\ copyFresh' \in BOOLEAN /\ status' \in RoutesStatus
           /\ AddAfter => queue' \in {"none", "due", "delayed"}
           /\ \A s \in RoutesStatus : Continue(s) =>
                 /\ at' \in Targets /\ mem' \in Cluster /\ copy' \in Route
                 /\ copyFresh' \in BOOLEAN /\ status' \in RoutesStatus
                 /\ pc' \in {"read", "report"}
BY RouteValues, ClusterValues
DEF TypeOK, Forget, AddAfter, Continue, Targets

LEMMA OthersWriteType ==
    ASSUME TypeOK, NEW t \in Targets, NEW r \in Route, OthersWrite(t, r),
           meddled' \in BOOLEAN
    PROVE  TypeOK'
<1>1. /\ routes' \in [Targets -> Route] /\ cache' \in [Targets -> Route]
      /\ stream' \in Seq(Version)
  BY WriteRouteType DEF OthersWrite
<1>2. copyFresh' \in BOOLEAN
  BY DEF OthersWrite
<1> QED BY <1>1, <1>2 DEF OthersWrite, TypeOK, clusters, Version

LEMMA InitTypeOK == Init => TypeOK
<1> SUFFICES ASSUME Init PROVE TypeOK
  OBVIOUS
<1>1. PICK want \in [Targets -> RouteSpecs \cup {NoSpec}] :
            cluster = [gen |-> 1, want |-> want]
  BY DEF Init
<1>2. cluster \in Cluster
  BY <1>1 DEF Cluster
<1>3. stream \in Seq([key : Targets, version : Route])
  BY DEF Init
<1>4. routes \in [Targets -> Route]
  BY RouteValues DEF Init
<1>5. reported \in [gen : Nat, status : RoutesStatus]
  BY ClusterValues DEF Init
<1> QED BY <1>2, <1>3, <1>4, <1>5, RouteValues, ClusterValues
        DEF Init, TypeOK, Targets

LEMMA NextTypeOK == TypeOK /\ [Next]_vars => TypeOK'
<1> SUFFICES ASSUME TypeOK, [Next]_vars PROVE TypeOK'
  OBVIOUS
<1> USE DEF Version
<1>1. CASE \E want \in [Targets -> RouteSpecs \cup {NoSpec}] : EditSpec(want)
  <2>1. PICK want \in [Targets -> RouteSpecs \cup {NoSpec}] : EditSpec(want)
    BY <1>1
  <2>2. cluster' \in Cluster
    BY <2>1 DEF EditSpec, TypeOK, Cluster
  <2> QED BY <2>1, <2>2 DEF EditSpec, TypeOK, objects, pass
<1>2. ASSUME NEW t \in Targets, ForeignCreate(t) PROVE TypeOK'
  BY <1>2, RouteValues, OthersWriteType DEF ForeignCreate
<1>3. ASSUME NEW t \in Targets, RouteDeleted(t) PROVE TypeOK'
  BY <1>3, RouteValues, OthersWriteType DEF RouteDeleted
<1>4. ASSUME NEW t \in Targets, RouteEdited(t) PROVE TypeOK'
  <2>1. [routes[t] EXCEPT !.spec = NoSpec] \in Route
    BY RouteValues DEF TypeOK
  <2> QED BY <1>4, <2>1, OthersWriteType DEF RouteEdited, TypeOK
<1>5. ASSUME NEW t \in Targets, GatewayDecides(t) PROVE TypeOK'
  <2>1. [routes[t] EXCEPT !.accepted = ~@] \in Route
    BY RouteValues DEF TypeOK
  <2> QED BY <1>5, <2>1, OthersWriteType DEF GatewayDecides, TypeOK
<1>6. CASE Begin
  <2>1. meddled' \in BOOLEAN
    BY <1>6 DEF Begin
  <2> QED BY <1>6, <2>1 DEF Begin, TypeOK, clusters, objects
<1>7. CASE Skip
  BY <1>7, PassTypes DEF Skip, TypeOK, clusters, objects
<1>8. CASE GiveUp
  BY <1>8, ClusterValues DEF GiveUp, TypeOK, clusters, objects, Targets
<1>9. CASE ReadRoute
  <2>1. UNCHANGED <<clusters, objects, queue, reported, meddled>>
    BY <1>9 DEF ReadRoute
  <2>2. cache[at] \in Route
    BY DEF TypeOK
  <2>3. CASE pc' = "delete" /\ UNCHANGED <<at, copy, copyFresh, status, mem>>
    BY <2>1, <2>3 DEF TypeOK, clusters, objects
  <2>4. CASE Continue(Conflicted)
    BY <2>1, <2>4, VerdictTypes, PassTypes DEF TypeOK, clusters, objects
  <2>5. CASE Continue(Judge(cache[at]))
    BY <2>1, <2>2, <2>5, VerdictTypes, PassTypes DEF TypeOK, clusters, objects
  <2>6. CASE /\ pc' = "write" /\ copy' = cache[at]
             /\ copyFresh' = (\A i \in DOMAIN stream : stream[i].key # at)
             /\ UNCHANGED <<at, status, mem>>
    <3>1. copyFresh' \in BOOLEAN
      BY <2>6
    <3> QED BY <2>1, <2>2, <2>6, <3>1 DEF TypeOK, clusters, objects
  <2> QED BY <1>9, <2>3, <2>4, <2>5, <2>6 DEF ReadRoute
<1>10. CASE CreateRoute \/ UpdateRoute
  <2>1. WriteRoute(at, Mutated) /\ Continue(Judge(Mutated))
    BY <1>10 DEF CreateRoute, UpdateRoute
  <2>2. UNCHANGED <<clusters, queue, reported, meddled>>
    BY <1>10 DEF CreateRoute, UpdateRoute
  <2>3. /\ routes' \in [Targets -> Route] /\ cache' \in [Targets -> Route]
        /\ stream' \in Seq(Version)
    BY <2>1, WantType, WriteRouteType DEF TypeOK
  <2> QED BY <2>1, <2>2, <2>3, WantType, VerdictTypes, PassTypes
          DEF TypeOK, clusters
<1>11. CASE WriteRefused
  BY <1>11, PassTypes DEF WriteRefused, ReturnError, TypeOK, clusters, objects
<1>12. CASE WriteRejected
  BY <1>12, VerdictTypes, PassTypes DEF WriteRejected, TypeOK, clusters, objects
<1>13. CASE DeleteRoute
  BY <1>13, ApplyDeleteType, PassTypes DEF DeleteRoute, TypeOK, clusters
<1>14. CASE Report
  <2>1. reported' \in [gen : Nat, status : RoutesStatus]
    BY <1>14 DEF Report, TypeOK, Cluster
  <2>2. queue' \in {"none", "due", "delayed"}
    BY <1>14, PassTypes DEF Report, TypeOK
  <2> QED BY <1>14, <2>1, <2>2, PassTypes DEF Report, TypeOK, clusters, objects
<1>15. CASE ReportRefused \/ ReportFails
  BY <1>15, PassTypes
  DEF ReportRefused, ReportFails, ReturnError, TypeOK, clusters, objects
<1>16. CASE RequestFails
  <2>1. /\ routes' \in [Targets -> Route] /\ cache' \in [Targets -> Route]
        /\ stream' \in Seq(Version)
    <3>1. CASE UNCHANGED objects
      BY <3>1 DEF TypeOK, objects
    <3>2. CASE WriteRoute(at, Mutated)
      BY <3>2, WantType, WriteRouteType DEF TypeOK
    <3>3. CASE ApplyDelete
      BY <3>3, ApplyDeleteType
    <3> QED BY <1>16, <3>1, <3>2, <3>3 DEF RequestFails
  <2> QED BY <1>16, <2>1, PassTypes DEF RequestFails, ReturnError, TypeOK, clusters
<1>17. CASE Crash
  <2>1. enabled' \in BOOLEAN
    BY <1>17 DEF Crash, TypeOK
  <2>2. stream' \in Seq(Version)
    BY <1>17 DEF Crash
  <2> QED BY <1>17, <2>1, <2>2, PassTypes DEF Crash, Enqueue, TypeOK
<1>18. CASE TimerFires
  BY <1>18 DEF TimerFires, Enqueue, TypeOK, clusters, objects, pass
<1>19. CASE DeliverCluster
  BY <1>19 DEF DeliverCluster, Enqueue, TypeOK, objects, pass
<1>20. CASE DeliverRoute
  <2>1. Head(stream) \in Version /\ Tail(stream) \in Seq(Version)
    <3>1. stream \in Seq(Version) /\ stream # <<>>
      BY <1>20 DEF DeliverRoute, TypeOK
    <3> QED BY ONLY <3>1, HeadTailProperties
  <2>2. cache' \in [Targets -> Route]
    BY <1>20, <2>1 DEF DeliverRoute, TypeOK
  <2>3. queue' \in {"none", "due", "delayed"}
    BY <1>20 DEF DeliverRoute, Enqueue, TypeOK
  <2> QED BY <1>20, <2>1, <2>2, <2>3 DEF DeliverRoute, TypeOK, clusters, pass
<1>21. CASE UNCHANGED vars
  BY <1>21 DEF vars, TypeOK
<1> QED BY <1>1, <1>2, <1>3, <1>4, <1>5, <1>6, <1>7, <1>8, <1>9, <1>10, <1>11,
           <1>12, <1>13, <1>14, <1>15, <1>16, <1>17, <1>18, <1>19, <1>20, <1>21
        DEF Next, Others, Worker

\* Every variable of the model holds a value of its kind.
THEOREM TypeCorrect == Spec => []TypeOK
BY InitTypeOK, NextTypeOK, PTL DEF Spec

-----------------------------------------------------------------------------
(* The stream of versions. *)

LEMMA StreamType ==
    ASSUME TypeOK
    PROVE  /\ stream \in Seq(Version) /\ Len(stream) \in Nat
           /\ \A i \in 1..Len(stream) : stream[i] \in Version
<1>1. stream \in Seq(Version)
  BY DEF TypeOK, Version
<1> QED BY <1>1

\* A write adds one version of one route, which is then its newest.
LEMMA WriteAppends ==
    ASSUME TypeOK, NewestIsCurrent,
           NEW t \in Targets, NEW r \in Route, WriteRoute(t, r)
    PROVE  /\ \A u \in Targets : routes'[u] = IF u = t THEN r ELSE routes[u]
           /\ \A u \in Targets :
                 Waiting(stream', u) <=> (u = t \/ Waiting(stream, u))
           /\ NewestIsCurrent'
<1> DEFINE e == [key |-> t, version |-> r]
<1>1. /\ cache' = cache
      /\ stream' = Append(stream, e)
      /\ routes' = [routes EXCEPT ![t] = r]
  BY DEF WriteRoute
<1>2. /\ stream \in Seq([key : Targets, version : Route])
      /\ routes \in [Targets -> Route]
      /\ InStep(cache, stream, routes, Targets)
  BY DEF TypeOK, NewestIsCurrent
<1>3. e \in [key : Targets, version : Route] /\ e.key = t /\ e.version = r
  OBVIOUS
<1> HIDE DEF e
<1>4. /\ InStep(cache, Append(stream, e), [routes EXCEPT ![e.key] = e.version],
                Targets)
      /\ \A u \in Targets :
            Waiting(Append(stream, e), u) <=> (u = e.key \/ Waiting(stream, u))
  BY <1>2, <1>3, WriteStaysInStep
<1>5. InStep(cache', stream', routes', Targets)
  BY <1>1, <1>3, <1>4
<1>6. \A u \in Targets : Waiting(stream', u) <=> (u = t \/ Waiting(stream, u))
  BY <1>1, <1>3, <1>4
<1> QED BY <1>1, <1>2, <1>5, <1>6 DEF NewestIsCurrent

\* A delivery moves the oldest version to the cache and loses none.
LEMMA DeliveryShifts ==
    ASSUME TypeOK, NewestIsCurrent, DeliverRoute
    PROVE  /\ \A u \in Targets : cache'[u] = IF u = stream[1].key
                                             THEN stream[1].version ELSE cache[u]
           /\ \A u \in Targets : Waiting(stream', u) => Waiting(stream, u)
           /\ NewestIsCurrent'
<1>1. stream \in Seq(Version) /\ stream # <<>>
  BY StreamType DEF DeliverRoute
<1>2. Head(stream) = stream[1] /\ stream[1] \in Version
  BY <1>1
<1>3. \A u \in Targets : cache'[u] = IF u = stream[1].key
                                     THEN stream[1].version ELSE cache[u]
  BY <1>2 DEF DeliverRoute, TypeOK
<1>4. stream' = Tail(stream) /\ routes' = routes
  BY DEF DeliverRoute
<1>5. /\ stream \in Seq([key : Targets, version : Route])
      /\ cache \in [Targets -> Route]
      /\ InStep(cache, stream, routes, Targets)
      /\ cache' = [cache EXCEPT ![Head(stream).key] = Head(stream).version]
  BY DEF TypeOK, NewestIsCurrent, DeliverRoute
<1>6. /\ InStep(cache', stream', routes, Targets)
      /\ \A u \in Targets : Waiting(stream', u) => Waiting(stream, u)
  BY <1>1, <1>4, <1>5, DeliveryStaysInStep
<1> QED BY <1>3, <1>4, <1>6 DEF NewestIsCurrent

-----------------------------------------------------------------------------
(* The reason that is reported. *)

\* What a target adds to the routesStatus: its verdict, on top of the failures
\* so far.  A failure that needs attention is never lost.
LEMMA VerdictsAreHonest ==
    ASSUME TypeOK, Honest(status), status.reason # "GatewayAPIUnavailable",
           NEW s \in {Conflicted, NotReady(Requested, "RouteRejected"),
                      Requested, NotReady(Requested, "NotAccepted")}
    PROVE  /\ Honest(s) /\ s.reason # "GatewayAPIUnavailable"
           /\ status.reason \in Excuses => s.reason = status.reason
<1>1. status \in RoutesStatus
  BY DEF TypeOK
<1>2. /\ Requested \in RoutesStatus /\ Honest(Requested)
      /\ Requested.reason = status.reason
  BY <1>1 DEF Requested, RoutesStatus, Honest
<1>3. status.reason \in Reasons \ {"GatewayAPIUnavailable"}
  BY <1>1 DEF RoutesStatus
<1>4. ASSUME NEW q \in RoutesStatus, Honest(q), q.reason = status.reason,
             NEW r \in {"NotAccepted", "RouteRejected"}
      PROVE  /\ Honest(NotReady(q, r))
             /\ NotReady(q, r).reason # "GatewayAPIUnavailable"
             /\ status.reason \in Excuses => NotReady(q, r).reason = status.reason
  BY <1>3, <1>4 DEF RoutesStatus, Honest, NotReady, Excuses
<1>5. ASSUME NEW q \in RoutesStatus, Honest(q), q.reason = status.reason
      PROVE  LET c == [NotReady(q, "RouteConflict") EXCEPT !.conflict = TRUE]
             IN  /\ Honest(c) /\ c.reason # "GatewayAPIUnavailable"
                 /\ status.reason \in Excuses => c.reason = status.reason
  BY <1>3, <1>5 DEF RoutesStatus, Reasons, Honest, NotReady, Excuses
<1> QED BY <1>2, <1>3, <1>4, <1>5 DEF Conflicted

LEMMA JudgeCases ==
    ASSUME NEW r
    PROVE  Judge(r) \in {Requested, NotReady(Requested, "NotAccepted")}
BY DEF Judge

\* Going on with an honest status.
LEMMA ContinueKeepsStatus ==
    ASSUME StatusInv, NEW s, Continue(s), reported' = reported,
           Honest(s), s.reason # "GatewayAPIUnavailable"
    PROVE  StatusInv'
BY DEF StatusInv, Continue

LEMMA ForgetKeepsStatus ==
    ASSUME StatusInv, Forget, Honest(reported.status)'
    PROVE  StatusInv'
BY DEF StatusInv, Forget, EmptyStatus, Honest

LEMMA InitStatus == Init => StatusInv
BY DEF Init, StatusInv, EmptyStatus, Honest

LEMMA NextStatus == TypeOK /\ StatusInv /\ [Next]_vars => StatusInv'
<1> SUFFICES ASSUME TypeOK, StatusInv, [Next]_vars PROVE StatusInv'
  OBVIOUS
<1>1. CASE UNCHANGED <<pc, status, reported>>
  BY <1>1 DEF StatusInv
<1>2. CASE Begin
  BY <1>2 DEF Begin, StatusInv
<1>3. CASE Skip
  BY <1>3, ContinueKeepsStatus DEF Skip, StatusInv
<1>4. CASE GiveUp
  BY <1>4 DEF GiveUp, StatusInv, Unavailable, Honest
<1>5. CASE ReadRoute
  <2>1. pc = "read" /\ reported' = reported
    BY <1>5 DEF ReadRoute
  <2>2. CASE status' = status /\ pc' # "report"
    BY <2>1, <2>2 DEF StatusInv
  <2>3. CASE Continue(Conflicted)
    BY <2>1, <2>3, VerdictsAreHonest, ContinueKeepsStatus DEF StatusInv
  <2>4. CASE Continue(Judge(cache[at]))
    BY <2>1, <2>4, JudgeCases, VerdictsAreHonest, ContinueKeepsStatus
    DEF StatusInv
  <2> QED BY <1>5, <2>2, <2>3, <2>4 DEF ReadRoute
<1>6. CASE CreateRoute \/ UpdateRoute
  <2>1. pc = "write" /\ Continue(Judge(Mutated)) /\ reported' = reported
    BY <1>6 DEF CreateRoute, UpdateRoute
  <2> QED BY <2>1, JudgeCases, VerdictsAreHonest, ContinueKeepsStatus DEF StatusInv
<1>7. CASE WriteRejected
  BY <1>7, VerdictsAreHonest, ContinueKeepsStatus DEF WriteRejected, StatusInv
<1>8. CASE DeleteRoute
  BY <1>8, ContinueKeepsStatus DEF DeleteRoute, StatusInv
<1>9. CASE Report
  BY <1>9, ForgetKeepsStatus DEF Report, StatusInv
<1>10. CASE WriteRefused \/ RequestFails \/ ReportRefused \/ ReportFails \/ Crash
  BY <1>10, ForgetKeepsStatus
  DEF WriteRefused, RequestFails, ReportRefused, ReportFails, Crash,
      ReturnError, StatusInv
<1> QED BY <1>1, <1>2, <1>3, <1>4, <1>5, <1>6, <1>7, <1>8, <1>9, <1>10
        DEF Next, Others, Worker, EditSpec, ForeignCreate, RouteDeleted,
            RouteEdited, GatewayDecides, OthersWrite, TimerFires,
            DeliverCluster, DeliverRoute, pass, vars

\* A conflict is never hidden behind a route that only waits to be accepted:
\* whatever the order in which the two routes fail, and whatever happened in
\* between, RoutesReady names a conflict or a rejection.
THEOREM ConflictsAreNamed == Spec => []WorstReasonIsReported
<1>1. Init => TypeOK /\ StatusInv
  BY InitTypeOK, InitStatus
<1>2. TypeOK /\ StatusInv /\ [Next]_vars => (TypeOK /\ StatusInv)'
  BY NextTypeOK, NextStatus
<1>3. StatusInv => WorstReasonIsReported
  BY DEF StatusInv, Honest, WorstReasonIsReported
<1> QED BY <1>1, <1>2, <1>3, PTL DEF Spec

-----------------------------------------------------------------------------
(* Whose routes are changed. *)

\* A version written while nobody interferes is the cluster's.
LEMMA WriteKeepsVersions ==
    ASSUME TypeOK, NewestIsCurrent, OwnVersions,
           NEW t \in Targets, NEW r \in Route, WriteRoute(t, r),
           meddled' \/ (r.owner \in {"cluster", "absent"} /\ meddled' = meddled)
    PROVE  OwnVersions'
<1> QED BY WriteAppends DEF OwnVersions

LEMMA OthersKeepOwnership ==
    ASSUME TypeOK, OwnershipInv, NEW t \in Targets, NEW r \in Route,
           OthersWrite(t, r),
           meddled' \/ (r.owner \in {"cluster", "absent"} /\ meddled' = meddled)
    PROVE  OwnershipInv'
<1>1. /\ WriteRoute(t, r) /\ UNCHANGED <<pc, at, mem, copy>>
      /\ copyFresh' = (copyFresh /\ t # at)
  BY DEF OthersWrite
<1>2. /\ NewestIsCurrent'
      /\ \A u \in Targets : routes'[u] = IF u = t THEN r ELSE routes[u]
  BY <1>1, WriteAppends DEF OwnershipInv
<1>3. OwnVersions'
  BY <1>1, WriteKeepsVersions DEF OwnershipInv
<1>4. at \in Targets
  BY DEF TypeOK
<1>5. RequestInv'
  BY <1>1, <1>2, <1>4 DEF OwnershipInv, RequestInv, Want
<1> QED BY <1>2, <1>3, <1>5 DEF OwnershipInv

\* The operator's own requests, which end the stage they are made in.
LEMMA RequestKeepsOwnership ==
    ASSUME TypeOK, OwnershipInv, NEW r \in Route,
           WriteRoute(at, r) \/ UNCHANGED objects,
           r.owner \in {"cluster", "absent"},
           meddled' = meddled, pc' \notin {"write", "delete"}
    PROVE  OwnershipInv'
<1>1. CASE WriteRoute(at, r)
  BY <1>1, WriteAppends, WriteKeepsVersions DEF OwnershipInv, RequestInv, TypeOK
<1>2. CASE UNCHANGED objects
  BY <1>2
  DEF objects, OwnershipInv, RequestInv, OwnVersions, NewestIsCurrent
<1> QED BY <1>1, <1>2

\* Steps that touch no route.
LEMMA SameRoutes ==
    ASSUME OwnershipInv, UNCHANGED objects, meddled' = meddled,
           \/ UNCHANGED <<pc, at, mem, copy, copyFresh>>
           \/ pc' \notin {"write", "delete"}
    PROVE  OwnershipInv'
BY DEF OwnershipInv, RequestInv, Want, OwnVersions, NewestIsCurrent,
       objects

LEMMA MutatedOwner ==
    ASSUME TypeOK PROVE Mutated \in Route /\ Mutated.owner = "cluster"
<1>1. Mutated \in Route
  BY WantType
<1> QED BY <1>1 DEF Mutated, TypeOK, Route

LEMMA InitOwnership == Init => OwnershipInv
BY FreshIsInStep
DEF Init, OwnershipInv, NewestIsCurrent, OwnVersions, RequestInv

LEMMA NextOwnership == TypeOK /\ OwnershipInv /\ [Next]_vars => OwnershipInv'
<1> SUFFICES ASSUME TypeOK, OwnershipInv, [Next]_vars PROVE OwnershipInv'
  OBVIOUS
<1>1. CASE \E want \in [Targets -> RouteSpecs \cup {NoSpec}] : EditSpec(want)
  BY <1>1, SameRoutes DEF EditSpec, pass
<1>2. ASSUME NEW t \in Targets, ForeignCreate(t) PROVE OwnershipInv'
  BY <1>2, RouteValues, OthersKeepOwnership DEF ForeignCreate
<1>3. ASSUME NEW t \in Targets, RouteDeleted(t) PROVE OwnershipInv'
  BY <1>3, RouteValues, OthersKeepOwnership DEF RouteDeleted
<1>4. ASSUME NEW t \in Targets, RouteEdited(t) PROVE OwnershipInv'
  <2> DEFINE r == [routes[t] EXCEPT !.spec = NoSpec]
  <2>1. r \in Route /\ r.owner = "cluster"
    BY <1>4, RouteValues DEF RouteEdited, TypeOK, Route
  <2> HIDE DEF r
  <2>2. OthersWrite(t, r) /\ meddled' = meddled
    BY <1>4 DEF RouteEdited, r
  <2> QED BY <2>1, <2>2, OthersKeepOwnership
<1>5. ASSUME NEW t \in Targets, GatewayDecides(t) PROVE OwnershipInv'
  <2> DEFINE r == [routes[t] EXCEPT !.accepted = ~@]
  <2>1. routes[t] \in Route /\ r \in Route
    BY RouteValues DEF TypeOK
  <2>2. r.owner = "cluster"
    BY <1>5, <2>1 DEF GatewayDecides, Route
  <2> HIDE DEF r
  <2>3. OthersWrite(t, r) /\ meddled' = meddled
    BY <1>5 DEF GatewayDecides, r
  <2> QED BY <2>1, <2>2, <2>3, OthersKeepOwnership
<1>6. CASE Begin
  <2>1. /\ pc' = "read" /\ UNCHANGED objects
        /\ meddled' = (meddled /\ stream # <<>>)
    BY <1>6 DEF Begin
  <2>2. CASE stream = <<>>
    <3>1. \A t \in Targets : ~Waiting(stream, t)
      BY <2>2, FreshIsInStep
    <3> QED BY <2>1, <3>1
            DEF OwnershipInv, RequestInv, OwnVersions, NewestIsCurrent, objects
  <2>3. CASE stream # <<>>
    BY <2>1, <2>3, SameRoutes DEF TypeOK
  <2> QED BY <2>2, <2>3
<1>7. CASE Skip \/ GiveUp \/ WriteRejected
  BY <1>7, SameRoutes DEF Skip, GiveUp, WriteRejected, Continue
<1>8. CASE ReadRoute
  <2>1. UNCHANGED objects /\ meddled' = meddled /\ at \in Targets
    BY <1>8 DEF ReadRoute, TypeOK
  <2>2. CASE \E s : Continue(s)
    BY <2>1, <2>2, SameRoutes DEF Continue
  <2>3. CASE /\ pc' = "delete" /\ Want = NoSpec /\ cache[at].owner = "cluster"
             /\ UNCHANGED <<at, mem>>
    <3>1. ~meddled => routes[at].owner \in {"cluster", "absent"}
      \* Somebody else's route would be one the cache knows.
      <4> SUFFICES ASSUME ~meddled, routes[at].owner \notin {"cluster", "absent"}
                   PROVE  FALSE
        OBVIOUS
      <4>1. Waiting(stream, at)
        BY <2>1, <2>3 DEF OwnershipInv, NewestIsCurrent, InStep
      <4> QED BY <2>1, <4>1 DEF OwnershipInv, OwnVersions
    <3> QED BY <2>1, <2>3, <3>1
            DEF OwnershipInv, RequestInv, OwnVersions, NewestIsCurrent, Want,
                objects
  <2>4. CASE /\ pc' = "write" /\ Want # NoSpec /\ cache[at].owner # "other"
             /\ copy' = cache[at]
             /\ copyFresh' = (\A i \in DOMAIN stream : stream[i].key # at)
             /\ UNCHANGED <<at, mem>>
    <3>1. copyFresh' => cache[at] = routes[at]
      <4> SUFFICES ASSUME copyFresh' PROVE cache[at] = routes[at]
        OBVIOUS
      <4>1. DOMAIN stream = 1..Len(stream)
        BY StreamType
      <4>2. ~Waiting(stream, at)
        BY <2>4, <4>1 DEF Waiting
      <4> QED BY <2>1, <4>2 DEF OwnershipInv, NewestIsCurrent, InStep
    <3> QED BY <2>1, <2>4, <3>1
            DEF OwnershipInv, RequestInv, OwnVersions, NewestIsCurrent, Want,
                objects
  <2> QED BY <1>8, <2>2, <2>3, <2>4 DEF ReadRoute
<1>9. CASE CreateRoute \/ UpdateRoute
  BY <1>9, MutatedOwner, RequestKeepsOwnership
  DEF CreateRoute, UpdateRoute, Continue
<1>10. CASE WriteRefused \/ ReportRefused \/ ReportFails \/ Report
  BY <1>10, SameRoutes
  DEF WriteRefused, ReportRefused, ReportFails, Report, ReturnError
<1>11. CASE DeleteRoute
  BY <1>11, RouteValues, RequestKeepsOwnership
  DEF DeleteRoute, ApplyDelete, Continue, NoRoute
<1>12. CASE RequestFails
  <2>1. pc' = "idle" /\ meddled' = meddled
    BY <1>12 DEF RequestFails, ReturnError
  <2>2. CASE WriteRoute(at, Mutated)
    BY <2>1, <2>2, MutatedOwner, RequestKeepsOwnership
  <2>3. CASE WriteRoute(at, NoRoute) \/ UNCHANGED objects
    BY <2>1, <2>3, RouteValues, RequestKeepsOwnership DEF NoRoute
  <2> QED BY <1>12, <2>2, <2>3 DEF RequestFails, ApplyDelete
<1>13. CASE Crash
  <2>1. stream' = <<>> /\ pc' = "idle" /\ cache' = routes'
    BY <1>13 DEF Crash
  <2>2. /\ InStep(cache', stream', routes', Targets)
        /\ \A t \in Targets : ~Waiting(stream', t)
    BY <2>1, FreshIsInStep
  <2> QED BY <2>1, <2>2
          DEF OwnershipInv, RequestInv, OwnVersions, NewestIsCurrent
<1>14. CASE TimerFires \/ DeliverCluster
  BY <1>14, SameRoutes DEF TimerFires, DeliverCluster, pass
<1>15. CASE DeliverRoute
  <2>1. /\ \A u \in Targets : Waiting(stream', u) => Waiting(stream, u)
        /\ NewestIsCurrent' /\ routes' = routes
    BY <1>15, DeliveryShifts DEF OwnershipInv, DeliverRoute
  <2>2. UNCHANGED <<pc, pass, meddled>>
    BY <1>15 DEF DeliverRoute
  <2>3. OwnVersions'
    BY <2>1, <2>2 DEF OwnershipInv, OwnVersions
  <2> QED BY <2>1, <2>2, <2>3 DEF OwnershipInv, RequestInv, Want, pass
<1>16. CASE UNCHANGED vars
  BY <1>16, SameRoutes DEF vars, objects
<1> QED BY <1>1, <1>2, <1>3, <1>4, <1>5, <1>6, <1>7, <1>8, <1>9, <1>10, <1>11,
           <1>12, <1>13, <1>14, <1>15, <1>16
        DEF Next, Others, Worker

\* The operator changes no route it does not control, except to adopt one
\* without a controller that the spec asks for, and except to delete one that
\* has just taken the place of a route of the cluster.  It holds although
\* ownership is read from a cache that may trail by any number of versions:
\* the resourceVersion guards an update, and what a delete by name can hit is
\* what somebody put there in the meantime.
THEOREM LeavesOthersAlone == Spec => OthersLeftAlone
<1> DEFINE Inv == TypeOK /\ OwnershipInv
<1>1. Init => Inv
  BY InitTypeOK, InitOwnership
<1>2. Inv /\ [Next]_vars => Inv'
  BY NextTypeOK, NextOwnership
<1> DEFINE Step == \A t \in Targets :
                      /\ <<pc, at>>' # <<pc, at>>
                      /\ routes'[t] # routes[t]
                      => \/ routes[t].owner \in {"absent", "cluster"}
                         \/ routes[t].owner = "nobody" /\ mem.want[t] # NoSpec
                         \/ pc = "delete" /\ meddled
<1>3. Inv /\ [Next]_vars => [Step]_vars
  <2> SUFFICES ASSUME Inv, [Next]_vars, NEW t \in Targets,
                      <<pc, at>>' # <<pc, at>>, routes'[t] # routes[t]
               PROVE  \/ routes[t].owner \in {"absent", "cluster"}
                      \/ routes[t].owner = "nobody" /\ mem.want[t] # NoSpec
                      \/ pc = "delete" /\ meddled
    OBVIOUS
  <2>1. \/ CreateRoute \/ UpdateRoute \/ DeleteRoute \/ RequestFails
    BY DEF Next, Others, Worker, EditSpec, ForeignCreate, RouteDeleted,
           RouteEdited, GatewayDecides, OthersWrite, Begin, Skip, GiveUp,
           ReadRoute, WriteRefused, WriteRejected, Report, ReportRefused,
           ReportFails, Crash, TimerFires, DeliverCluster, DeliverRoute,
           vars, objects, pass
  <2>2. \/ pc = "write" /\ WriteRoute(at, Mutated)
           /\ (routes[at].owner = "absent" \/ copyFresh)
        \/ pc = "delete" /\ WriteRoute(at, NoRoute)
    BY <2>1 DEF CreateRoute, UpdateRoute, DeleteRoute, RequestFails,
                ApplyDelete, objects
  <2>3. t = at
    BY <2>2 DEF WriteRoute, TypeOK
  <2>4. CASE pc = "delete"
    BY <2>3, <2>4 DEF OwnershipInv, RequestInv
  <2>5. CASE pc = "write" /\ (routes[at].owner = "absent" \/ copyFresh)
    <3>1. routes[at].owner \in Owners
      BY DEF TypeOK, Route
    <3> QED BY <2>3, <2>5, <3>1 DEF OwnershipInv, RequestInv, Want, Owners
  <2> QED BY <2>2, <2>4, <2>5
<1> QED BY <1>1, <1>2, <1>3, PTL DEF Spec, OthersLeftAlone

-----------------------------------------------------------------------------
(* The loop does not go to sleep on unfinished work. *)

\* A further version takes care of no less.
LEMMA AppendKeepsAccount ==
    ASSUME NEW c, NEW v \in Seq(Version), NEW e \in Version, NEW done, NEW want,
           NEW s, Accounted(c, v, done, want, s)
    PROVE  Accounted(c, Append(v, e), done, want, s)
<1> DEFINE w == Append(v, e)
<1>1. Len(v) \in Nat /\ Len(w) = Len(v) + 1
  OBVIOUS
<1>2. \A i \in 1..Len(v) : w[i] = v[i] /\ i \in 1..Len(w)
  BY <1>1
<1> HIDE DEF w
<1>3. \A t \in done : Covered(c, v, t, want[t]) => Covered(c, w, t, want[t])
  BY <1>2 DEF Covered, Waiting
<1> QED BY <1>3 DEF Accounted, w

\* A delivery that raises no event, because neither the old nor the new
\* version is the cluster's, takes nothing away.
LEMMA SilentDeliveryKeepsAccount ==
    ASSUME NEW c, NEW d, NEW v \in Seq(Version), v # <<>>,
           NEW done \in SUBSET Targets, NEW want, NEW s,
           \A u \in Targets :
                d[u] = IF u = v[1].key THEN v[1].version ELSE c[u],
           c[v[1].key].owner # "cluster", v[1].version.owner # "cluster",
           Accounted(c, v, done, want, s)
    PROVE  Accounted(d, Tail(v), done, want, s)
<1> DEFINE w == Tail(v)
<1>1. /\ Len(v) \in Nat \ {0} /\ Len(w) = Len(v) - 1
      /\ \A i \in 1..Len(w) : w[i] = v[i + 1]
  OBVIOUS
<1>2. \A i \in 1..Len(v) : i # 1 => i - 1 \in 1..Len(w) /\ w[i - 1] = v[i]
  <2> SUFFICES ASSUME NEW i \in 1..Len(v), i # 1
               PROVE  i - 1 \in 1..Len(w) /\ w[i - 1] = v[i]
    OBVIOUS
  <2>1. i - 1 \in 1..Len(w) /\ (i - 1) + 1 = i
    BY <1>1
  <2> QED BY <1>1, <2>1
<1> HIDE DEF w
<1>3. \A t \in done : Matches(d, t, want[t]) <=> Matches(c, t, want[t])
  BY DEF Matches
<1>4. ASSUME NEW t \in done, Covered(c, v, t, want[t])
      PROVE  Covered(d, w, t, want[t])
  <2>1. CASE t = v[1].key
    <3>1. d[t].owner # "cluster" /\ ~Matches(c, t, want[t])
      BY <2>1 DEF Matches
    <3> QED BY <1>2, <1>4, <2>1, <3>1 DEF Covered, Waiting
  <2>2. CASE t # v[1].key
    <3>1. d[t] = c[t]
      BY <2>2
    <3> QED BY <1>2, <1>3, <1>4, <2>2, <3>1 DEF Covered, Waiting
  <2> QED BY <2>1, <2>2
<1>5. ASSUME \A t \in done : want[t] # NoSpec => Matches(c, t, want[t])
      PROVE  \A t \in done : want[t] # NoSpec => d[t] = c[t]
  BY <1>5 DEF Matches
<1> QED BY <1>3, <1>4, <1>5 DEF Accounted, w

\* One more target.
LEMMA NextTargetAccount ==
    ASSUME NEW c, NEW v, NEW done, NEW t, NEW want, NEW s, NEW r,
           Accounted(c, v, done, want, s),
           s.reason \in Excuses => r.reason \in Excuses,
           r.reason \notin Excuses =>
              /\ Covered(c, v, t, want[t])
              /\ want[t] = NoSpec => (r.ready <=> s.ready)
              /\ want[t] # NoSpec /\ Matches(c, t, want[t]) =>
                    (r.ready <=> s.ready /\ c[t].accepted)
    PROVE  Accounted(c, v, done \cup {t}, want, r)
BY DEF Accounted

\* Versions that others write are still to be delivered.
LEMMA OthersKeepSettled ==
    ASSUME TypeOK, SettledInv, NEW t \in Targets, NEW r \in Route,
           OthersWrite(t, r), enabled
    PROVE  SettledInv'
<1> DEFINE e == [key |-> t, version |-> r]
<1>1. /\ cache' = cache /\ stream' = Append(stream, e)
      /\ UNCHANGED <<view, enabled, queue, pc, at, mem, status, reported>>
  BY DEF OthersWrite, WriteRoute, clusters
<1>2. e \in Version /\ stream \in Seq(Version)
  BY StreamType DEF Version
<1> HIDE DEF e
<1>3. \A done, want, s :
        Accounted(cache, stream, done, want, s) =>
            Accounted(cache', stream', done, want, s)
  BY <1>1, <1>2, AppendKeepsAccount
<1>4. Done' = Done
  BY <1>1 DEF Done
<1>5. PassInv'
  BY <1>1, <1>3, <1>4 DEF SettledInv, PassInv, Want
<1>6. IdleInv'
  BY <1>1, <1>3 DEF SettledInv, IdleInv
<1> QED BY <1>1, <1>5, <1>6 DEF SettledInv, StartInv, DisabledInv

\* The end of a target: what is left to show is that its verdict accounts for
\* it.
LEMMA ContinueKeepsSettled ==
    ASSUME TypeOK, SettledInv, pc \in {"read", "write", "delete"},
           NEW s, Continue(s), UNCHANGED <<view, enabled, queue>>,
           DisabledInv',
           queue = "none" =>
              /\ Accounted(cache', stream', Done, mem.want, status)
              /\ status.reason \in Excuses => s.reason \in Excuses
              /\ s.reason \notin Excuses =>
                    /\ Covered(cache', stream', at, Want)
                    /\ Want = NoSpec => (s.ready <=> status.ready)
                    /\ Want # NoSpec /\ Matches(cache', at, Want) =>
                          (s.ready <=> status.ready /\ cache'[at].accepted)
    PROVE  SettledInv'
<1>1. pc' \in {"read", "report"} /\ mem' = mem /\ status' = s
  BY DEF Continue
<1>2. Done' = Done \cup {at}
  BY DEF Continue, Done, TypeOK, Targets
<1>3. queue = "none" => Accounted(cache', stream', Done \cup {at}, mem.want, s)
  BY NextTargetAccount DEF Want
<1>4. PassInv'
  BY <1>1, <1>2, <1>3 DEF SettledInv, PassInv
<1> QED BY <1>1, <1>4 DEF SettledInv, StartInv, IdleInv

\* A pass that ends in an error is queued again.
LEMMA ErrorKeepsSettled ==
    ASSUME TypeOK, SettledInv, ReturnError, DisabledInv'
    PROVE  SettledInv'
<1>1. pc' = "idle" /\ queue' # "none" /\ StartInv'
  BY DEF ReturnError, AddAfter, Forget, StartInv
<1> QED BY <1>1 DEF SettledInv, PassInv, IdleInv

\* routeAccepted decides the readiness of a target.
LEMMA JudgeReady ==
    ASSUME TypeOK, NEW r \in Route
    PROVE  Judge(r).ready <=> status.ready /\ r.accepted
<1>1. /\ Requested \in RoutesStatus /\ Requested.ready = status.ready
      /\ r.accepted \in BOOLEAN
  BY VerdictTypes DEF Requested, TypeOK, RoutesStatus, Route
<1>2. ~NotReady(Requested, "NotAccepted").ready
  BY <1>1 DEF NotReady, RoutesStatus
<1> QED BY <1>1, <1>2 DEF Judge

\* A conflict and a rejection excuse the routes.
LEMMA FailuresExcuse ==
    ASSUME TypeOK, StatusInv, pc # "report"
    PROVE  /\ Conflicted.reason \in Excuses
           /\ NotReady(Requested, "RouteRejected").reason \in Excuses
<1>1. Honest(Conflicted)
  BY VerdictsAreHonest DEF StatusInv
<1>2. Conflicted.conflict
  <2>1. NotReady(Requested, "RouteConflict") \in RoutesStatus
    BY VerdictTypes, StatusValues DEF Reasons
  <2> QED BY <2>1 DEF Conflicted, RoutesStatus
<1>3. Conflicted.reason \in Excuses
  BY <1>1, <1>2 DEF Honest, Excuses
<1>4. /\ Requested \in RoutesStatus /\ Requested.reason = status.reason
      /\ Requested.ready = status.ready
  BY VerdictTypes DEF Requested, TypeOK, RoutesStatus
<1>5. status.reason \in Reasons
  BY DEF TypeOK, RoutesStatus
<1>6. NotReady(Requested, "RouteRejected").reason \in Excuses
  BY <1>4, <1>5 DEF NotReady, RoutesStatus, Reasons, Excuses, StatusInv, Honest
<1> QED BY <1>3, <1>6

\* A write by the operator, with the cache as it was.
LEMMA WriteKeepsAccount ==
    ASSUME TypeOK, NEW r \in Route, WriteRoute(at, r)
    PROVE  /\ cache' = cache
           /\ \A done, want, s :
                 Accounted(cache, stream, done, want, s) =>
                     Accounted(cache', stream', done, want, s)
           /\ r.owner = "cluster" => Covered(cache', stream', at, Want)
           /\ Want = NoSpec => Covered(cache', stream', at, Want)
<1> DEFINE e == [key |-> at, version |-> r]
<1>1. cache' = cache /\ stream' = Append(stream, e)
  BY DEF WriteRoute
<1>2. e \in Version /\ stream \in Seq(Version)
  BY StreamType DEF Version, TypeOK
<1>3. e.key = at /\ e.version = r
  OBVIOUS
<1> HIDE DEF e
<1>4. \A done, want, s :
        Accounted(cache, stream, done, want, s) =>
            Accounted(cache', stream', done, want, s)
  BY <1>1, <1>2, AppendKeepsAccount
<1>5. \E i \in 1..Len(stream') : stream'[i] = e
  <2>1. /\ Len(stream') = Len(stream) + 1 /\ Len(stream) \in Nat
        /\ stream'[Len(stream) + 1] = e
    BY <1>1, <1>2
  <2> QED BY <2>1
<1> QED BY <1>1, <1>3, <1>4, <1>5 DEF Covered, Waiting

LEMMA InitSettled == Init => SettledInv
<1> SUFFICES ASSUME Init PROVE SettledInv
  OBVIOUS
<1>1. \A t \in Targets : routes[t] = NoRoute /\ cache[t] = NoRoute
  BY DEF Init
<1> QED BY <1>1 DEF Init, SettledInv, StartInv, DisabledInv, PassInv, IdleInv

LEMMA NextSettled ==
    TypeOK /\ OwnershipInv /\ StatusInv /\ SettledInv /\ [Next]_vars => SettledInv'
<1> SUFFICES ASSUME TypeOK, OwnershipInv, StatusInv, SettledInv, [Next]_vars
             PROVE  SettledInv'
  OBVIOUS
<1>a. ASSUME NEW t \in Targets, routes[t].owner # "absent" PROVE enabled
  BY <1>a DEF SettledInv, DisabledInv, NoRoute
<1>b. pc \in {"write", "delete"} => enabled
  BY DEF SettledInv, DisabledInv
<1>1. CASE \E want \in [Targets -> RouteSpecs \cup {NoSpec}] : EditSpec(want)
  <2>1. UNCHANGED <<view, enabled, objects, queue, pc, pass, reported>>
    BY <1>1 DEF EditSpec
  <2> QED BY <2>1
          DEF SettledInv, StartInv, DisabledInv, PassInv, IdleInv, Done, Want,
              objects, pass
<1>2. ASSUME NEW t \in Targets, ForeignCreate(t) PROVE SettledInv'
  BY <1>2, RouteValues, OthersKeepSettled DEF ForeignCreate
<1>3. ASSUME NEW t \in Targets, RouteDeleted(t) PROVE SettledInv'
  BY <1>3, <1>a, RouteValues, OthersKeepSettled DEF RouteDeleted
<1>4. ASSUME NEW t \in Targets, RouteEdited(t) PROVE SettledInv'
  <2>1. [routes[t] EXCEPT !.spec = NoSpec] \in Route
    BY RouteValues DEF TypeOK
  <2> QED BY <1>4, <1>a, <2>1, OthersKeepSettled DEF RouteEdited
<1>5. ASSUME NEW t \in Targets, GatewayDecides(t) PROVE SettledInv'
  <2>1. [routes[t] EXCEPT !.accepted = ~@] \in Route
    BY RouteValues DEF TypeOK
  <2> QED BY <1>5, <1>a, <2>1, OthersKeepSettled DEF GatewayDecides
<1>6. CASE Begin
  <2>1. /\ pc' = "read" /\ at' = "grpc" /\ mem' = view'
        /\ status' = EmptyStatus /\ UNCHANGED <<enabled, objects>>
    BY <1>6 DEF Begin, SettledInv, StartInv, clusters
  <2>2. Accounted(cache', stream', Done', mem'.want, status')
    BY <2>1 DEF Accounted, Done, EmptyStatus
  <2> QED BY <2>1, <2>2
          DEF SettledInv, StartInv, DisabledInv, PassInv, IdleInv, objects
<1>7. CASE Skip
  <2>1. /\ pc = "read" /\ Want = NoSpec /\ Continue(status)
        /\ UNCHANGED <<view, enabled, queue, routes, cache, stream>>
    BY <1>7 DEF Skip, clusters, objects
  <2>2. cache[at].owner # "cluster"
    BY <1>7 DEF Skip, SettledInv, DisabledInv, NoRoute, TypeOK
  <2>3. DisabledInv'
    BY <2>1 DEF SettledInv, DisabledInv, Continue
  <2>4. Covered(cache', stream', at, Want)
    BY <2>1, <2>2 DEF Covered
  <2>5. queue = "none" => Accounted(cache', stream', Done, mem.want, status)
    BY <2>1 DEF SettledInv, PassInv
  <2> QED BY <2>1, <2>3, <2>4, <2>5, ContinueKeepsSettled
<1>8. CASE GiveUp
  <2>1. /\ pc = "read" /\ pc' = "report" /\ status' = Unavailable
        /\ UNCHANGED <<view, enabled, objects, queue, mem>>
    BY <1>8 DEF GiveUp, clusters
  <2>2. Accounted(cache', stream', Done', mem'.want, status')
    BY <2>1 DEF Accounted, Unavailable, Excuses
  <2> QED BY <2>1, <2>2
          DEF SettledInv, StartInv, DisabledInv, PassInv, IdleInv, objects
<1>9. CASE ReadRoute
  <2>1. /\ pc = "read" /\ enabled
        /\ UNCHANGED <<view, enabled, queue, routes, cache, stream>>
    BY <1>9 DEF ReadRoute, clusters, objects
  <2>2. DisabledInv'
    BY <2>1 DEF DisabledInv
  <2>3. queue = "none" => Accounted(cache', stream', Done, mem.want, status)
    BY <2>1 DEF SettledInv, PassInv
  <2>4. Honest(status) /\ status.reason # "GatewayAPIUnavailable"
    BY <2>1 DEF StatusInv
  <2>5. CASE /\ pc' = "delete" /\ cache[at].owner = "cluster"
             /\ UNCHANGED <<at, status, mem>>
    BY <2>1, <2>2, <2>5 DEF SettledInv, StartInv, PassInv, IdleInv, Done
  <2>6. CASE Continue(Conflicted)
    <3>1. Conflicted.reason \in Excuses
      BY <2>1, FailuresExcuse
    <3> QED BY <2>1, <2>2, <2>3, <2>6, <3>1, ContinueKeepsSettled
  <2>7. CASE /\ Want # NoSpec /\ cache[at].owner = "cluster"
             /\ cache[at].spec = Want /\ Continue(Judge(cache[at]))
    <3>1. cache[at] \in Route
      BY DEF TypeOK
    <3>2. Judge(cache[at]).ready <=> status.ready /\ cache[at].accepted
      BY <3>1, JudgeReady
    <3>3. status.reason \in Excuses => Judge(cache[at]).reason \in Excuses
      BY <2>4, JudgeCases, VerdictsAreHonest
    <3>4. Covered(cache', stream', at, Want)
      BY <2>1, <2>7 DEF Covered, Matches
    <3> QED BY <2>1, <2>2, <2>3, <2>7, <3>2, <3>3, <3>4, ContinueKeepsSettled
  <2>8. CASE /\ pc' = "write" /\ UNCHANGED <<at, status, mem>>
             /\ ~(cache[at].owner = "cluster" /\ cache[at].spec = Want)
    BY <2>1, <2>2, <2>8
    DEF SettledInv, StartInv, PassInv, IdleInv, Done, Matches, Want
  <2> QED BY <1>9, <2>5, <2>6, <2>7, <2>8 DEF ReadRoute
<1>10. CASE CreateRoute \/ UpdateRoute
  <2>1. /\ pc = "write" /\ WriteRoute(at, Mutated) /\ Continue(Judge(Mutated))
        /\ UNCHANGED <<view, enabled, queue>>
    BY <1>10 DEF CreateRoute, UpdateRoute, clusters
  <2>2. DisabledInv'
    BY <1>b, <2>1 DEF DisabledInv
  <2>3. /\ cache' = cache /\ Covered(cache', stream', at, Want)
        /\ \A done, want, s :
              Accounted(cache, stream, done, want, s) =>
                  Accounted(cache', stream', done, want, s)
    BY <2>1, MutatedOwner, WriteKeepsAccount
  <2>4. Want # NoSpec
    BY <2>1 DEF OwnershipInv, RequestInv
  <2>5. status.reason \in Excuses => Judge(Mutated).reason \in Excuses
    BY <2>1, JudgeCases, VerdictsAreHonest DEF StatusInv
  <2>6. queue = "none" => /\ ~Matches(cache', at, Want)
                          /\ Accounted(cache', stream', Done, mem.want, status)
    BY <2>1, <2>3 DEF SettledInv, PassInv
  <2> QED BY <2>1, <2>2, <2>3, <2>4, <2>5, <2>6, ContinueKeepsSettled
<1>11. CASE WriteRejected
  <2>1. /\ pc = "write" /\ Continue(NotReady(Requested, "RouteRejected"))
        /\ UNCHANGED <<view, enabled, queue, cache, stream>>
    BY <1>11 DEF WriteRejected, clusters, objects
  <2>2. DisabledInv'
    BY <1>b, <2>1 DEF DisabledInv
  <2>3. NotReady(Requested, "RouteRejected").reason \in Excuses
    BY <2>1, FailuresExcuse
  <2>4. queue = "none" => Accounted(cache', stream', Done, mem.want, status)
    BY <2>1 DEF SettledInv, PassInv
  <2> QED BY <2>1, <2>2, <2>3, <2>4, ContinueKeepsSettled
<1>12. CASE DeleteRoute
  <2>1. /\ pc = "delete" /\ ApplyDelete /\ Continue(status)
        /\ UNCHANGED <<view, enabled, queue>>
    BY <1>12 DEF DeleteRoute, clusters
  <2>2. DisabledInv'
    BY <1>b, <2>1 DEF DisabledInv
  <2>3. Want = NoSpec /\ at \in Targets
    BY <2>1 DEF OwnershipInv, RequestInv, TypeOK
  <2>4. CASE WriteRoute(at, NoRoute)
    <3>1. /\ cache' = cache /\ Covered(cache', stream', at, Want)
          /\ \A done, want, s :
                Accounted(cache, stream, done, want, s) =>
                    Accounted(cache', stream', done, want, s)
      BY <2>3, <2>4, RouteValues, WriteKeepsAccount
    <3>2. queue = "none" => Accounted(cache', stream', Done, mem.want, status)
      BY <2>1, <3>1 DEF SettledInv, PassInv
    <3> QED BY <2>1, <2>2, <2>3, <3>1, <3>2, ContinueKeepsSettled
  <2>5. CASE routes[at].owner = "absent" /\ UNCHANGED objects
    <3>1. queue = "none" => Accounted(cache', stream', Done, mem.want, status)
      BY <2>1, <2>5 DEF SettledInv, PassInv, objects
    <3>2. queue = "none" => Covered(cache', stream', at, Want)
      \* The cache still holds the cluster's route: its absence is on its way.
      <4> SUFFICES ASSUME queue = "none" PROVE Covered(cache', stream', at, Want)
        OBVIOUS
      <4>1. cache[at].owner = "cluster"
        BY <2>1 DEF SettledInv, PassInv
      <4>2. Waiting(stream, at)
        BY <2>3, <2>5, <4>1 DEF OwnershipInv, NewestIsCurrent, InStep
      <4> QED BY <2>3, <2>5, <4>2 DEF Covered, objects
    <3> QED BY <2>1, <2>2, <2>3, <3>1, <3>2, ContinueKeepsSettled
  <2> QED BY <2>1, <2>4, <2>5 DEF ApplyDelete
<1>13. CASE Report
  <2>1. /\ pc = "report" /\ pc' = "idle" /\ Forget
        /\ reported' = [gen |-> mem.gen, status |-> status]
        /\ UNCHANGED <<view, enabled, objects>>
        /\ queue' = "none" => queue = "none" /\ ~status.conflict
    BY <1>13 DEF Report, AddAfter, clusters
  <2>2. StartInv' /\ DisabledInv' /\ PassInv'
    BY <2>1 DEF Forget, StartInv, DisabledInv, PassInv, SettledInv, objects
  <2>3. IdleInv'
    BY <2>1 DEF SettledInv, PassInv, IdleInv, Done, objects
  <2> QED BY <2>2, <2>3 DEF SettledInv
<1>14. CASE WriteRefused \/ ReportRefused \/ ReportFails
  <2>1. ReturnError /\ UNCHANGED <<enabled, objects>>
    BY <1>14 DEF WriteRefused, ReportRefused, ReportFails, clusters
  <2>2. DisabledInv'
    BY <2>1 DEF SettledInv, DisabledInv, ReturnError, objects
  <2> QED BY <2>1, <2>2, ErrorKeepsSettled
<1>15. CASE RequestFails
  <2>1. ReturnError /\ UNCHANGED enabled /\ enabled
    BY <1>15, <1>b DEF RequestFails, clusters
  <2> QED BY <2>1, ErrorKeepsSettled DEF DisabledInv
<1>16. CASE Crash
  <2>1. /\ pc' = "idle" /\ queue' = "due" /\ cache' = routes' /\ routes' = routes
        /\ stream' = <<>> /\ Forget
    BY <1>16 DEF Crash, Enqueue
  <2>2. enabled => enabled'
    BY <1>16, Zenon DEF Crash
  <2> QED BY <2>1, <2>2
          DEF SettledInv, StartInv, DisabledInv, PassInv, IdleInv, Forget
<1>17. CASE TimerFires
  BY <1>17
  DEF TimerFires, Enqueue, SettledInv, StartInv, DisabledInv, PassInv, IdleInv,
      clusters, objects, pass
<1>18. CASE DeliverCluster
  BY <1>18
  DEF DeliverCluster, Enqueue, SettledInv, StartInv, DisabledInv, PassInv,
      IdleInv, objects, pass
<1>19. CASE DeliverRoute
  <2> DEFINE tt == stream[1].key
             new == stream[1].version
  <2>1. /\ stream \in Seq(Version) /\ stream # <<>> /\ stream' = Tail(stream)
        /\ Head(stream) = stream[1] /\ stream[1] \in Version
    BY <1>19, StreamType DEF DeliverRoute
  <2>2. /\ \A u \in Targets : cache'[u] = IF u = tt THEN new ELSE cache[u]
        /\ UNCHANGED <<view, enabled, routes, pc, pass, reported>>
        /\ tt \in Targets
    BY <1>19, <2>1, DeliveryShifts DEF DeliverRoute, OwnershipInv, clusters, Version
  <2>3. queue' = "none" => /\ queue = "none"
                           /\ cache[tt].owner # "cluster" /\ new.owner # "cluster"
    BY <1>19, <2>1 DEF DeliverRoute, Enqueue
  <2> HIDE DEF tt, new
  <2>4. ASSUME queue' = "none", NEW done \in SUBSET Targets, NEW want, NEW s,
               Accounted(cache, stream, done, want, s)
        PROVE  Accounted(cache', stream', done, want, s)
    BY <2>1, <2>2, <2>3, <2>4, SilentDeliveryKeepsAccount DEF tt, new
  <2>5. StartInv'
    BY <2>2 DEF SettledInv, StartInv, pass
  <2>6. DisabledInv'
    <3>1. enabled
      BY <2>1 DEF SettledInv, DisabledInv
    <3> QED BY <2>2, <3>1 DEF DisabledInv
  <2>7. PassInv'
    <3> SUFFICES ASSUME pc' # "idle", queue' = "none"
                 PROVE  /\ mem' = view'
                        /\ Accounted(cache', stream', Done', mem'.want, status')
                        /\ pc' = "write" => ~Matches(cache', at', Want')
                        /\ pc' = "delete" => cache'[at'].owner = "cluster"
      BY DEF PassInv
    <3>1. Done' = Done /\ Done \subseteq Targets /\ Want' = Want /\ at \in Targets
      BY <2>2 DEF Done, Want, pass, Targets, TypeOK
    <3>2. Accounted(cache', stream', Done', mem'.want, status')
      BY <2>2, <2>3, <2>4, <3>1 DEF SettledInv, PassInv, pass
    <3>3. pc' = "write" => ~Matches(cache', at', Want')
      BY <2>2, <2>3, <3>1 DEF SettledInv, PassInv, Matches, pass
    <3>4. pc' = "delete" => cache'[at'].owner = "cluster"
      BY <2>2, <2>3, <3>1 DEF SettledInv, PassInv, pass
    <3> QED BY <2>2, <2>3, <3>2, <3>3, <3>4 DEF SettledInv, PassInv, pass
  <2>8. IdleInv'
    BY <2>2, <2>3, <2>4 DEF SettledInv, IdleInv
  <2> QED BY <2>5, <2>6, <2>7, <2>8 DEF SettledInv
<1>20. CASE UNCHANGED vars
  BY <1>20
  DEF vars, SettledInv, StartInv, DisabledInv, PassInv, IdleInv, Done, Want
<1> QED BY <1>1, <1>2, <1>3, <1>4, <1>5, <1>6, <1>7, <1>8, <1>9, <1>10, <1>11,
           <1>12, <1>13, <1>14, <1>15, <1>16, <1>17, <1>18, <1>19, <1>20
        DEF Next, Others, Worker

\* The reconciler never goes to sleep on unfinished work: with nothing queued,
\* running or undelivered, the requested routes exist, are the cluster's and
\* say what the spec asks, the others are gone, RoutesReady tells their
\* acceptance, and no conflict is left waiting, not even one that a rejection
\* hides.  Routes of other controllers raise no event, so the argument counts
\* on the versions that will: what is not as it should be has one on its way.
THEOREM NeverSleepsOnWork == Spec => []SettledMeansDone
<1> DEFINE Inv == TypeOK /\ OwnershipInv /\ StatusInv /\ SettledInv
<1>1. Init => Inv
  BY InitTypeOK, InitOwnership, InitStatus, InitSettled
<1>2. Inv /\ [Next]_vars => Inv'
  BY NextTypeOK, NextOwnership, NextStatus, NextSettled
<1>3. Inv => SettledMeansDone
  <2> SUFFICES ASSUME Inv, Settled PROVE SettledMeansDone
    BY DEF SettledMeansDone
  <2>1. /\ reported.gen = cluster.gen /\ ~reported.status.conflict
        /\ Accounted(cache, stream, Targets, cluster.want, reported.status)
    BY DEF Settled, SettledInv, IdleInv
  <2>2. \A i : i \notin 1..Len(stream)
    BY EmptySeq DEF Settled
  <2>3. \A t \in Targets : cache[t] = routes[t]
    BY NothingWaiting DEF Settled, OwnershipInv, NewestIsCurrent
  <2>4. ASSUME reported.status.reason
                  \notin {"RouteRejected", "GatewayAPIUnavailable"}
        PROVE  /\ \A t \in Targets : Covered(cache, stream, t, cluster.want[t])
               /\ (\A t \in Targets : cluster.want[t] # NoSpec =>
                       Matches(cache, t, cluster.want[t]))
                   => (reported.status.ready <=>
                         \A t \in Targets :
                            cluster.want[t] # NoSpec => cache[t].accepted)
    <3>1. reported.status.reason \notin Excuses
      BY <2>1, <2>4 DEF Excuses, StatusInv, Honest
    <3> QED BY <2>1, <3>1 DEF Accounted
  <2>5. ASSUME NEW t \in Targets, Covered(cache, stream, t, cluster.want[t])
        PROVE  IF cluster.want[t] = NoSpec THEN routes[t].owner # "cluster"
               ELSE Matches(cache, t, cluster.want[t])
    BY <2>2, <2>3, <2>5 DEF Covered, Waiting
  <2> QED BY <2>1, <2>3, <2>4, <2>5 DEF SettledMeansDone, Matches
<1> QED BY <1>1, <1>2, <1>3, PTL DEF Spec

=============================================================================
