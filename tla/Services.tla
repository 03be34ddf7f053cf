------------------------------ MODULE Services ------------------------------
(***************************************************************************)
(* The Services of one PolarsCluster.  reconcileServices handles all of    *)
(* them at the same time: each is read from a trailing cache and created,  *)
(* or updated under its resourceVersion; every one is attempted, and the   *)
(* outcomes are reduced to one.  Others delete, edit and annotate Services *)
(* and may take a name first; only Services the cluster owns raise events. *)
(***************************************************************************)
EXTENDS Naturals, Sequences

CONSTANTS
    Names,         \* the Services
    FirstWant,     \* what the first spec asks of each
    Asks,          \* what an edit may ask of each
    MaxGen,        \* bound: generations of the spec
    MaxDisturbance \* bound: what others, failures and crashes do

\* What every request for a Service writes: its type, annotations, ports,
\* selector and publishNotReadyAddresses.  The API server rejects what is
\* "invalid"; "exposed" is a NodePort or a LoadBalancer.
Configs == {"plain", "exposed", "invalid"}

\* What only its creation writes: the clusterIP, which the API server picks
\* ("auto"), the spec gives, or is None ("headless"); "invalid" is out of range
\* or taken.  The labels are written then, too.
\* bound: one address is given
Addresses == {"auto", "given", "headless", "invalid"}

Ask == [config : Configs, address : Addresses]

ASSUME NamesAssumption == Names # {}
ASSUME AsksAssumption == FirstWant \in [Names -> Ask] /\ Asks \in [Names -> SUBSET Ask]
ASSUME BoundsAssumption == MaxGen \in Nat \ {0} /\ MaxDisturbance \in Nat

\* The API server takes no exposed Service without an address.
Admissible(config, address) ==
    config # "invalid" /\ address # "invalid" /\ <<config, address>> # <<"exposed", "headless">>

VARIABLES
    cluster,  \* generation and requested Services in the API server
    view,     \* the same in the informer cache
    services, \* the Services in the API server
    cache,    \* the same in the informer cache
    stream,   \* versions not yet delivered, oldest first
    queue,    \* the cluster key's entry in the work queue
    pc,       \* where the worker is in Reconcile
    mem,      \* Reconcile's copy of cluster
    stage,    \* where reconcileService is, for each Service
    copy,     \* the Service as it was read
    fresh,    \* its resourceVersion is still the API server's
    errs,     \* what each reconcileService returned
    reported, \* the status as last written
    disturbed \* disturbances so far

vars == <<cluster, view, services, cache, stream, queue, pc, mem, stage, copy,
          fresh, errs, reported, disturbed>>

clusters == <<cluster, view>>
objects  == <<services, cache, stream>>
pass     == <<mem, stage, copy, fresh, errs>>

Cluster == [gen : Nat, want : [Names -> Ask]]
NoCluster == [gen |-> 0, want |-> FirstWant]

\* foreign: made by others under the Service's name, and so without the
\* owner reference; a deleted Service keeps it.  config: "other" is what only
\* others write.  notes: others' annotations.
Service == [exists : BOOLEAN, foreign : BOOLEAN,
            config : {"plain", "exposed", "other"},
            address : Addresses \ {"invalid"}, notes : BOOLEAN]
NoService == [exists |-> FALSE, foreign |-> FALSE, config |-> "other",
              address |-> "auto", notes |-> FALSE]

-----------------------------------------------------------------------------
(* The work queue and the watches. *)

Enqueue == queue' = "due"
AddAfter == queue' = IF queue = "due" THEN "due" ELSE "delayed"

TimerFires ==
    /\ queue = "delayed"
    /\ Enqueue
    /\ UNCHANGED <<clusters, objects, pc, pass, reported, disturbed>>

DeliverCluster ==
    /\ view # cluster
    /\ view' = cluster
    /\ Enqueue
    /\ UNCHANGED <<cluster, objects, pc, pass, reported, disturbed>>

DeliverService ==
    /\ stream # <<>>
    /\ cache' = [cache EXCEPT ![Head(stream).key] = Head(stream).version]
    /\ IF Head(stream).version.foreign THEN UNCHANGED queue ELSE Enqueue
    /\ stream' = Tail(stream)
    /\ UNCHANGED <<clusters, services, pc, pass, reported, disturbed>>

-----------------------------------------------------------------------------
(* Everyone but the operator. *)

\* A write that changes nothing has no effect and raises no event.
WriteService(n, version) ==
    /\ services' = [services EXCEPT ![n] = version]
    /\ stream' = IF version = services[n] THEN stream
                 ELSE Append(stream, [key |-> n, version |-> version])
    /\ UNCHANGED cache

Disturb ==
    /\ disturbed < MaxDisturbance
    /\ disturbed' = disturbed + 1

OthersWrite(n, version) ==
    /\ Disturb
    /\ WriteService(n, version)
    /\ fresh' = [fresh EXCEPT ![n] = FALSE]
    /\ UNCHANGED <<clusters, queue, pc, mem, stage, copy, errs, reported>>

\* bound: one Service per edit, one undelivered edit
EditSpec(n, ask) ==
    /\ cluster = view
    /\ cluster.gen < MaxGen
    /\ ask # cluster.want[n]
    /\ cluster' = [gen |-> cluster.gen + 1, want |-> [cluster.want EXCEPT ![n] = ask]]
    /\ UNCHANGED <<view, objects, queue, pc, pass, reported, disturbed>>

ForeignCreate(n, address) ==
    /\ ~services[n].exists
    /\ OthersWrite(n, [NoService EXCEPT !.exists = TRUE, !.foreign = TRUE,
                                       !.address = address])

ServiceDeleted(n) ==
    /\ services[n].exists
    /\ OthersWrite(n, [NoService EXCEPT !.foreign = services[n].foreign])

ServiceEdited(n) ==
    /\ services[n].exists /\ services[n].config # "other"
    /\ OthersWrite(n, [services[n] EXCEPT !.config = "other"])

\* A load balancer's controller leaves an annotation.
Annotate(n) ==
    /\ services[n].exists /\ ~services[n].notes
    /\ OthersWrite(n, [services[n] EXCEPT !.notes = TRUE])

-----------------------------------------------------------------------------
(* Reconcile, as far as the Services are concerned. *)

Forget ==
    /\ mem' = NoCluster
    /\ stage' = [n \in Names |-> "get"]
    /\ copy' = [n \in Names |-> NoService]
    /\ fresh' = [n \in Names |-> FALSE]
    /\ errs' = [n \in Names |-> "none"]

Begin ==
    /\ pc = "idle" /\ queue = "due"
    /\ queue' = "none"
    /\ mem' = view
    /\ pc' = "services"
    /\ UNCHANGED <<clusters, objects, stage, copy, fresh, errs, reported,
                   disturbed>>

At(n, s) == pc = "services" /\ stage[n] = s

GetService(n) ==
    /\ At(n, "get")
    /\ copy' = [copy EXCEPT ![n] = cache[n]]
    /\ fresh' = [fresh EXCEPT ![n] = \A i \in DOMAIN stream : stream[i].key # n]
    /\ stage' = [stage EXCEPT ![n] = IF cache[n].exists THEN "update" ELSE "create"]
    /\ UNCHANGED <<clusters, objects, queue, pc, mem, errs, reported, disturbed>>

\* reconcileService returns err.
Done(n, err) ==
    /\ stage' = [stage EXCEPT ![n] = "done"]
    /\ errs' = [errs EXCEPT ![n] = err]
    /\ copy' = [copy EXCEPT ![n] = NoService]
    /\ UNCHANGED <<clusters, queue, pc, mem, reported>>

\* A request is judged by what it contains: an update contains the address that
\* was read, whatever the spec has come to ask.
Valid(n) ==
    Admissible(mem.want[n].config,
               IF At(n, "create") THEN mem.want[n].address ELSE copy[n].address)

\* The API server's answer to a request it can carry out.
Accepted(n) ==
    /\ Valid(n)
    /\ \/ /\ At(n, "create") /\ ~services[n].exists
          /\ WriteService(n, [exists |-> TRUE, foreign |-> FALSE,
                              config |-> mem.want[n].config,
                              address |-> mem.want[n].address, notes |-> FALSE])
       \/ /\ At(n, "update") /\ fresh[n]
          /\ WriteService(n, [copy[n] EXCEPT !.config = mem.want[n].config,
                                             !.notes = FALSE])

WriteSucceeds(n) ==
    /\ Accepted(n)
    /\ Done(n, "none")
    /\ fresh' = [fresh EXCEPT ![n] = FALSE]
    /\ UNCHANGED disturbed

\* The Service that the cache lacks has the address a create asks for.
OwnAddressTaken(n) ==
    services[n].exists /\ services[n].address = "given" /\ mem.want[n].address = "given"

\* Invalid or Forbidden: a spec error.  A create is validated, and its address
\* allocated, before the name is looked up; of an update the resourceVersion
\* is compared first.
WriteRejected(n) ==
    /\ \/ At(n, "create") /\ (~Valid(n) \/ OwnAddressTaken(n))
       \/ At(n, "update") /\ fresh[n] /\ ~Valid(n)
    /\ Done(n, "spec")
    /\ UNCHANGED <<objects, fresh, disturbed>>

\* AlreadyExists, Conflict or NotFound: the copy was out of date.
WriteRefused(n) ==
    /\ \/ /\ At(n, "create") /\ services[n].exists
          /\ Valid(n) /\ ~OwnAddressTaken(n)
       \/ At(n, "update") /\ ~fresh[n]
    /\ Done(n, "transient")
    /\ UNCHANGED <<objects, fresh, disturbed>>

\* A request fails; it may have been applied before the answer was lost.
WriteFails(n) ==
    /\ At(n, "create") \/ At(n, "update")
    /\ Disturb
    /\ UNCHANGED objects \/ Accepted(n)
    /\ Done(n, "transient")
    /\ fresh' = [fresh EXCEPT ![n] = FALSE]

AllDone == pc = "services" /\ \A n \in Names : stage[n] = "done"

\* Bug: a spec error outweighs a transient one.
ReducedSpecFirstBug ==
    IF \E n \in Names : errs[n] = "spec" THEN "spec"
    ELSE IF \E n \in Names : errs[n] = "transient" THEN "transient" ELSE "none"

\* reducePodErrors: a transient error outweighs every spec error.
Reduced ==
    IF \E n \in Names : errs[n] = "transient" THEN "transient"
    ELSE IF \E n \in Names : errs[n] = "spec" THEN "spec" ELSE "none"

ReturnError ==
    /\ pc' = "idle"
    /\ AddAfter
    /\ Forget

\* A transient error, or a status update that the spec has overtaken.
Retry ==
    /\ AllDone
    /\ Reduced = "transient" \/ mem.gen # cluster.gen
    /\ ReturnError
    /\ UNCHANGED <<clusters, objects, reported, disturbed>>

\* Bug: a spec error is returned to be tried again.
ReportRetriesBug ==
    /\ AllDone
    /\ Reduced # "transient" /\ mem.gen = cluster.gen
    /\ reported' = [gen |-> mem.gen, rejected |-> Reduced = "spec"]
    /\ pc' = "idle"
    /\ Forget
    /\ IF Reduced = "spec" THEN AddAfter ELSE UNCHANGED queue
    /\ UNCHANGED <<clusters, objects, disturbed>>

\* The end of the pass, with or without a spec error, which is not retried.
Report ==
    /\ AllDone
    /\ Reduced # "transient" /\ mem.gen = cluster.gen
    /\ reported' = [gen |-> mem.gen, rejected |-> Reduced = "spec"]
    /\ pc' = "idle"
    /\ Forget
    /\ UNCHANGED <<clusters, objects, queue, disturbed>>

ReportFails ==
    /\ AllDone
    /\ Disturb
    /\ ReturnError
    /\ UNCHANGED <<clusters, objects, reported>>

Crash ==
    /\ Disturb
    /\ view' = cluster
    /\ cache' = services
    /\ stream' = <<>>
    /\ Enqueue
    /\ pc' = "idle"
    /\ Forget
    /\ UNCHANGED <<cluster, services, reported>>

-----------------------------------------------------------------------------
Init ==
    /\ cluster = [NoCluster EXCEPT !.gen = 1]
    /\ view = cluster
    /\ services = [n \in Names |-> NoService]
    /\ cache = services
    /\ stream = <<>>
    /\ queue = "due"
    /\ pc = "idle"
    /\ mem = NoCluster
    /\ stage = [n \in Names |-> "get"]
    /\ copy = services
    /\ fresh = [n \in Names |-> FALSE]
    /\ errs = [n \in Names |-> "none"]
    /\ reported = [gen |-> 0, rejected |-> FALSE]
    /\ disturbed = 0

Others ==
    \/ \E n \in Names : \E ask \in Asks[n] : EditSpec(n, ask)
    \/ \E n \in Names, address \in Addresses \ {"invalid"} : ForeignCreate(n, address)
    \/ \E n \in Names : ServiceDeleted(n) \/ ServiceEdited(n) \/ Annotate(n)

Worker ==
    \/ \E n \in Names :
          \/ GetService(n) \/ WriteSucceeds(n)
          \/ WriteRejected(n) \/ WriteRefused(n)
    \/ Begin \/ Retry \/ Report

Next ==
    \/ Others \/ Worker
    \/ \E n \in Names : WriteFails(n)
    \/ ReportFails \/ Crash
    \/ TimerFires \/ DeliverCluster \/ DeliverService

Spec == Init /\ [][Next]_vars

(***************************************************************************)
(* Queue, timers, watches and the worker make progress by themselves; that *)
(* failures and other writers let up is the bound MaxDisturbance.          *)
(***************************************************************************)
Fairness ==
    /\ WF_vars(TimerFires) /\ WF_vars(DeliverCluster) /\ WF_vars(DeliverService)
    /\ WF_vars(Worker)

FairSpec == Spec /\ Fairness

-----------------------------------------------------------------------------
(* Properties. *)

Settled == pc = "idle" /\ queue = "none" /\ stream = <<>> /\ view = cluster

\* The Service is what updates can make of it.
Serves(service, ask) == service.exists /\ service.config = ask.config

\* No request can make it so: an update has to keep the Service's address.
Refuses(service, ask) ==
    ~Admissible(ask.config, IF service.exists THEN service.address ELSE ask.address)

\* The loop goes to sleep only on finished work: the status is about the
\* current spec, and every Service that can be has the configuration the spec
\* asks for, whatever became of the others; it says rejected exactly if one
\* cannot.  The clusterIP and the labels are those of the Service's creation:
\* that the spec has changed them since is neither applied nor reported.  Nor is
\* a Service vouched for whose name a stranger had taken (it has no owner, so
\* nobody is told when it changes or goes), unless no address would help.
SettledMeansServed ==
    Settled =>
        /\ reported.gen = cluster.gen
        /\ \A n \in Names :
              LET ask == cluster.want[n] IN
              /\ \/ Serves(services[n], ask) \/ services[n].foreign
                 \/ Refuses(services[n], ask) /\ reported.rejected
              /\ ask.config = "invalid" => reported.rejected
        /\ reported.rejected =>
              \E n \in Names :
                 Refuses(services[n], cluster.want[n]) \/ services[n].foreign

\* Passes, their own events and their retries die out once nobody disturbs
\* the Services: the updates every pass issues for unchanged Services do not
\* keep waking it, nor does a rejected one.
ComesToRest == <>[]Settled

\* ServiceConfig's annotations are those "to add to the Service object".  So
\* updating a Service leaves the annotations of others on it.
OthersAnnotationsSurvive ==
    [][\A n \in Names :
          services[n].notes /\ services'[n].exists => services'[n].notes]_vars

=============================================================================
