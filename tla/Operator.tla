------------------------------ MODULE Operator ------------------------------
(***************************************************************************)
(* One pass over the handlers that make pods, in the order of Reconcile:   *)
(* service accounts, scheduler, worker pool.  They meet in the API server: *)
(* a pod is admitted only if its account exists and the namespace's quota  *)
(* has room for it, and a spec error of one handler ends the pass before   *)
(* the next.  A handler is one step here; SchedulerPod, WorkerPool and     *)
(* Services take them apart.  The caches trail the API server.             *)
(***************************************************************************)
EXTENDS Naturals, FiniteSets

CONSTANTS
    Quota,         \* pods the namespace admits
    MaxReplicas,   \* bound: replicas a spec asks for
    MaxGen,        \* bound: generations of the spec
    MaxDisturbance \* bound: evictions, deletions, failures and crashes

ASSUME QuotaAssumption == Quota \in Nat
ASSUME BoundsAssumption ==
    MaxReplicas \in Nat /\ MaxGen \in Nat \ {0} /\ MaxDisturbance \in Nat

VARIABLES
    cluster,   \* generation, replicas and account creation in the API server
    view,      \* the same in the informer cache
    accounts,  \* the ServiceAccounts named by the spec
    scheduler, \* the scheduler pod
    workers,   \* live worker pods, by the template they were made from
    leaving,   \* worker pods on their way out
    cache,     \* scheduler and workers in the informer cache
    news,      \* pods have changed since cache was up to date
    queue,     \* the cluster key's entry in the work queue
    pc,        \* the handler that is next
    mem,       \* Reconcile's copy of cluster
    reported,  \* generation and spec error of the last status update
    disturbed, \* disturbances so far
    refused,   \* history: why pods were ever refused
    bereft     \* history: others have deleted an account

vars == <<cluster, view, accounts, scheduler, workers, leaving, cache, news,
          queue, pc, mem, reported, disturbed, refused, bereft>>

pods    == <<scheduler, workers, leaving>>
watch   == <<cache, news>>
history == <<refused, bereft>>

Components == {"scheduler", "worker"}

Cluster == [gen : Nat, replicas : Nat, create : BOOLEAN]
NoCluster == [gen |-> 0, replicas |-> 0, create |-> FALSE]

\* The scheduler's pod is made from the number of workers and its account, a
\* worker's from its account; whether the account is the cluster's own tells
\* two templates of workers apart.
SchedulerTemplate(c) == [replicas |-> c.replicas, own |-> c.create]
WorkerTemplate(c) == c.create

NoScheduler == [life |-> "none", made |-> SchedulerTemplate(NoCluster)]

\* Pods that count against the quota.
Used ==
    (IF scheduler.life = "none" THEN 0 ELSE 1)
        + workers[TRUE] + workers[FALSE] + leaving

Least(m, n) == IF m < n THEN m ELSE n
Minus(m, n) == IF m < n THEN 0 ELSE m - n

-----------------------------------------------------------------------------
(* The work queue and the watches. *)

Enqueue == queue' = "due"
AddAfter == queue' = IF queue = "due" THEN "due" ELSE "delayed"

TimerFires ==
    /\ queue = "delayed"
    /\ Enqueue
    /\ UNCHANGED <<cluster, view, accounts, pods, watch, pc, mem, reported,
                   disturbed, history>>

DeliverCluster ==
    /\ view # cluster
    /\ view' = cluster
    /\ Enqueue
    /\ UNCHANGED <<cluster, accounts, pods, watch, pc, mem, reported, disturbed,
                   history>>

Seen == [scheduler |-> scheduler, workers |-> workers]

\* The watch will tell of what this step does to the pods.
Watched ==
    /\ news' = (news \/ pods' # pods)
    /\ UNCHANGED cache

DeliverPods ==
    /\ news
    /\ news' = FALSE
    /\ cache' = Seen
    /\ Enqueue
    /\ UNCHANGED <<cluster, view, accounts, pods, pc, mem, reported, disturbed,
                   history>>

-----------------------------------------------------------------------------
(* Everyone but the operator. *)

EditSpec(replicas, create) ==
    /\ cluster = view  \* bound: one undelivered edit
    /\ cluster.gen < MaxGen
    /\ <<replicas, create>> # <<cluster.replicas, cluster.create>>
    /\ cluster' = [gen |-> cluster.gen + 1, replicas |-> replicas,
                   create |-> create]
    /\ UNCHANGED <<view, accounts, pods, watch, queue, pc, mem, reported,
                   disturbed, history>>

\* The grace periods end.
PodsGone ==
    /\ \/ /\ scheduler.life = "terminating"
          /\ scheduler' = NoScheduler
          /\ UNCHANGED leaving
       \/ /\ leaving > 0
          /\ leaving' = leaving - 1
          /\ UNCHANGED scheduler
    /\ UNCHANGED <<cluster, view, accounts, workers, queue, pc, mem, reported,
                   disturbed, history>>
    /\ Watched

Disturb ==
    /\ disturbed < MaxDisturbance
    /\ disturbed' = disturbed + 1

Evict ==
    /\ Disturb
    /\ \/ /\ scheduler.life = "alive"
          /\ scheduler' = [scheduler EXCEPT !.life = "terminating"]
          /\ UNCHANGED <<workers, leaving>>
       \/ \E t \in BOOLEAN :
             /\ workers[t] > 0
             /\ workers' = [workers EXCEPT ![t] = @ - 1]
             /\ leaving' = leaving + 1
             /\ UNCHANGED scheduler
    /\ UNCHANGED <<cluster, view, accounts, queue, pc, mem, reported, history>>
    /\ Watched

\* An account of the cluster is deleted, which its owner is told; or somebody
\* makes or deletes one of that name, which it is not.
AccountMeddled(c) ==
    /\ Disturb
    /\ \/ /\ accounts[c] \in {"absent", "foreignGone"}
          /\ accounts' = [accounts EXCEPT ![c] = "foreign"]
          /\ UNCHANGED <<queue, bereft>>
       \/ /\ accounts[c] = "owned"
          /\ accounts' = [accounts EXCEPT ![c] = "absent"]
          /\ bereft' = TRUE
          /\ Enqueue
       \/ /\ accounts[c] = "foreign"
          /\ accounts' = [accounts EXCEPT ![c] = "foreignGone"]
          /\ bereft' = TRUE
          /\ UNCHANGED queue
    /\ UNCHANGED <<cluster, view, pods, watch, pc, mem, reported, refused>>

-----------------------------------------------------------------------------
(* Reconcile. *)

Return ==
    /\ pc' = "idle"
    /\ mem' = NoCluster

ReturnError == Return /\ AddAfter

\* Bug: the accounts come after the scheduler.
BeginLateAccountsBug ==
    /\ pc = "idle" /\ queue = "due"
    /\ queue' = "none"
    /\ mem' = view
    /\ pc' = "scheduler"
    /\ UNCHANGED <<cluster, view, accounts, pods, watch, reported, disturbed,
                   history>>

Begin ==
    /\ pc = "idle" /\ queue = "due"
    /\ queue' = "none"
    /\ mem' = view
    /\ pc' = "accounts"
    /\ UNCHANGED <<cluster, view, accounts, pods, watch, reported, disturbed,
                   history>>

\* Created when requested, AlreadyExists being fine, and never deleted.
reconcileServiceAccount(c) ==
    IF mem.create /\ accounts[c] \in {"absent", "foreignGone"}
    THEN "owned" ELSE accounts[c]

reconcilePolarsClusterServiceAccounts ==
    /\ pc = "accounts"
    /\ \/ /\ accounts' = [c \in Components |-> reconcileServiceAccount(c)]
          /\ pc' = "scheduler"
          /\ UNCHANGED <<queue, mem, disturbed>>
       \/ /\ accounts' = [accounts EXCEPT !["scheduler"] =
                                            reconcileServiceAccount("scheduler")]
          /\ mem.create /\ Disturb  \* the second one fails
          /\ ReturnError
    /\ UNCHANGED <<cluster, view, pods, watch, reported, history>>

HasAccount(c) == mem.create => accounts[c] \in {"owned", "foreign"}

\* Why the API server forbids pods of component c, if it does.
Obstacles(c) ==
    (IF HasAccount(c) THEN {} ELSE {"account"})
        \cup (IF Used < Quota THEN {} ELSE {"quota"})

\* The status update of recordSpecError, refused when the spec has changed.
SpecError(part) ==
    IF mem.gen = cluster.gen
    THEN /\ reported' = [gen |-> mem.gen, error |-> part]
         /\ Return
         /\ UNCHANGED queue
    ELSE ReturnError /\ UNCHANGED reported

\* Bug: an outdated scheduler pod is only reported.
CreateSchedulerOnlyBug ==
    LET seen == cache.scheduler IN
    /\ pc = "scheduler"
    /\ IF seen.life = "none" /\ scheduler.life = "none" /\ Obstacles("scheduler") = {}
       THEN scheduler' = [life |-> "alive", made |-> SchedulerTemplate(mem)]
       ELSE UNCHANGED scheduler
    /\ pc' = "workers"
    /\ UNCHANGED <<workers, leaving, queue, mem, reported, refused>>
    /\ UNCHANGED <<cluster, view, accounts, disturbed, bereft>>
    /\ Watched

reconcileScheduler ==
    LET seen == cache.scheduler
        outdated == seen.life = "alive" /\ seen.made # SchedulerTemplate(mem)
    IN  /\ pc = "scheduler"
        /\ \/ /\ seen.life = "none" /\ scheduler.life # "none"
              /\ ReturnError
              /\ UNCHANGED <<pods, reported, refused>>
           \/ /\ seen.life = "none" /\ scheduler.life = "none"
              /\ Obstacles("scheduler") # {}
              /\ refused' = refused \cup Obstacles("scheduler")
              /\ SpecError("scheduler")
              /\ UNCHANGED pods
           \/ /\ seen.life = "none" /\ scheduler.life = "none"
              /\ Obstacles("scheduler") = {}
              /\ scheduler' = [life |-> "alive", made |-> SchedulerTemplate(mem)]
              /\ pc' = "workers"
              /\ UNCHANGED <<workers, leaving, queue, mem, reported, refused>>
           \/ /\ outdated
              /\ scheduler' = [scheduler EXCEPT !.life =
                                  IF @ = "alive" THEN "terminating" ELSE @]
              /\ pc' = "workers"
              /\ UNCHANGED <<workers, leaving, queue, mem, reported, refused>>
           \/ /\ seen.life # "none" /\ ~outdated
              /\ pc' = "workers"
              /\ UNCHANGED <<pods, queue, mem, reported, refused>>
        /\ UNCHANGED <<cluster, view, accounts, disturbed, bereft>>
        /\ Watched

\* How many of the live pods go when n listed ones are deleted: all n, unless
\* the list is stale and has some that are gone already.
Deleted(live, n) == IF news THEN 0..Least(live, n) ELSE {Least(live, n)}

\* Bug: a pool at its desired size is one too large.
SurplusOffByOneBug ==
    Minus(cache.workers[WorkerTemplate(mem)] + 1, mem.replicas)

Surplus == Minus(cache.workers[WorkerTemplate(mem)], mem.replicas)
Lacking == Minus(mem.replicas, cache.workers[WorkerTemplate(mem)])

\* Of the pods that are lacking as many come as the quota has room for.
Created ==
    IF HasAccount("worker") THEN Least(Lacking, Minus(Quota, Used)) ELSE 0

reconcileWorkerPool ==
    LET t == WorkerTemplate(mem) IN
    /\ pc = "workers"
    /\ \E outdated \in Deleted(workers[~t], cache.workers[~t]),
         cut \in Deleted(workers[t], Surplus) :
          /\ workers' = [workers EXCEPT ![t] = (@ + Created) - cut,
                                        ![~t] = @ - outdated]
          /\ leaving' = leaving + outdated + cut
    /\ \/ /\ Created = Lacking
          /\ pc' = "report"
          /\ UNCHANGED <<queue, mem, reported, refused>>
       \/ /\ Created < Lacking
          /\ refused' = refused \cup IF HasAccount("worker") THEN {"quota"}
                                     ELSE {"account"}
          /\ SpecError("workers")
    /\ UNCHANGED <<cluster, view, accounts, scheduler, disturbed, bereft>>
    /\ Watched

Report ==
    /\ pc = "report"
    /\ \/ /\ mem.gen = cluster.gen
          /\ reported' = [gen |-> mem.gen, error |-> "none"]
          /\ Return
          /\ UNCHANGED queue
       \/ /\ mem.gen # cluster.gen
          /\ ReturnError
          /\ UNCHANGED reported
    /\ UNCHANGED <<cluster, view, accounts, pods, watch, disturbed, history>>

\* A request fails at any point of the pass, or the operator restarts.
PassFails ==
    /\ Disturb
    /\ pc # "idle"
    /\ \/ ReturnError /\ UNCHANGED <<view, watch>>
       \/ Return /\ Enqueue /\ view' = cluster /\ cache' = Seen /\ news' = FALSE
    /\ UNCHANGED <<cluster, accounts, pods, reported, history>>

\* Admission rejects an account, or (after the scheduler) a Service.
Rejected ==
    /\ Disturb
    /\ \/ /\ pc = "accounts" /\ mem.create
          /\ accounts' \in {accounts,
                            [accounts EXCEPT !["scheduler"] =
                                 reconcileServiceAccount("scheduler")]}
       \/ pc = "workers" /\ UNCHANGED accounts
    /\ refused' = refused \cup {"object"}
    /\ SpecError(pc)
    /\ UNCHANGED <<cluster, view, pods, watch, bereft>>

-----------------------------------------------------------------------------
Init ==
    /\ \E n \in 0..MaxReplicas, b \in BOOLEAN :
          cluster = [gen |-> 1, replicas |-> n, create |-> b]
    /\ view = cluster
    /\ accounts = [c \in Components |-> "absent"]
    /\ scheduler = NoScheduler
    /\ workers = [t \in BOOLEAN |-> 0]
    /\ leaving = 0
    /\ cache = Seen
    /\ news = FALSE
    /\ queue = "due"
    /\ pc = "idle"
    /\ mem = NoCluster
    /\ reported = [gen |-> 0, error |-> "none"]
    /\ disturbed = 0
    /\ refused = {}
    /\ bereft = FALSE

Others ==
    \/ \E n \in 0..MaxReplicas, b \in BOOLEAN : EditSpec(n, b)
    \/ PodsGone \/ Evict
    \/ \E c \in Components : AccountMeddled(c)

Worker ==
    \/ Begin \/ reconcilePolarsClusterServiceAccounts \/ reconcileScheduler
    \/ reconcileWorkerPool \/ Report

Next ==
    \/ Others \/ Worker \/ PassFails \/ Rejected
    \/ TimerFires \/ DeliverCluster \/ DeliverPods

Spec == Init /\ [][Next]_vars

(***************************************************************************)
(* Queue, timers, watches, grace periods and the worker make progress by   *)
(* themselves; that disturbances cease is the bound MaxDisturbance.        *)
(***************************************************************************)
Fairness ==
    /\ WF_vars(TimerFires) /\ WF_vars(DeliverCluster) /\ WF_vars(DeliverPods)
    /\ WF_vars(PodsGone) /\ WF_vars(Worker)

FairSpec == Spec /\ Fairness

-----------------------------------------------------------------------------
(* Properties. *)

Settled == pc = "idle" /\ queue = "none" /\ ~news /\ view = cluster

PodsAreWanted ==
    /\ scheduler = [life |-> "alive", made |-> SchedulerTemplate(cluster)]
    /\ workers[WorkerTemplate(cluster)] = cluster.replicas
    /\ workers[~WorkerTemplate(cluster)] = 0

\* An account somebody else made may vanish unnoticed; all others are there.
AccountsExist ==
    cluster.create => \A c \in Components : accounts[c] # "absent"

\* The handlers of one pass do not leave work for each other undone: once the
\* loop sleeps without a spec error (and nothing is on its way out), the
\* accounts, the scheduler and the workers are those the spec asks for.
SettledMeansDone ==
    Settled /\ reported.error = "none" /\ scheduler.life # "terminating" =>
        reported.gen = cluster.gen /\ PodsAreWanted /\ AccountsExist

\* A pod is never refused for want of an account that the operator was asked
\* to create, from the first pass and through every edit, unless others have
\* deleted one.
AccountsComeFirst == "account" \in refused => bereft

\* If nothing is ever refused, the cluster gets to what its spec asks for and
\* stays there, however the caches trailed and whatever was disturbed on the
\* way.
Converges == [](refused = {}) => <>[]PodsAreWanted

\* reconcileWorkerPool "creates/deletes pods ... to match its desired replica
\* count".  So a loop that sleeps has no more workers than the spec asks for.
PoolIsNeverTooLarge ==
    Settled => workers[TRUE] + workers[FALSE] <= cluster.replicas

=============================================================================
