--------------------------- MODULE OperatorProofs ---------------------------
(***************************************************************************)
(* Theorems about Operator, for every quota and all bounds.                *)
(***************************************************************************)
EXTENDS Operator, TLAPS

-----------------------------------------------------------------------------
(***************************************************************************)
(* The inductive invariant.  A pass that nothing disturbs has found, stage *)
(* by stage, what the spec it holds asks for; whatever disturbs it leaves  *)
(* the key queued, a watch event in flight or an edit undelivered.         *)
(***************************************************************************)

SchedulerPods ==
    [life : {"none", "alive", "terminating"},
     made : [replicas : Nat, own : BOOLEAN]]

Pools == [BOOLEAN -> Nat]

TypeInv ==
    /\ cluster \in Cluster /\ view \in Cluster /\ mem \in Cluster
    /\ accounts \in [Components -> {"absent", "owned", "foreign", "foreignGone"}]
    /\ scheduler \in SchedulerPods
    /\ workers \in Pools
    /\ leaving \in Nat
    /\ cache \in [scheduler : SchedulerPods, workers : Pools]
    /\ news \in BOOLEAN
    /\ queue \in {"none", "due", "delayed"}
    /\ pc \in {"idle", "accounts", "scheduler", "workers", "report"}
    /\ reported \in [gen : Nat, error : {"none", "accounts", "scheduler", "workers"}]

\* The cache only trails the pods while a watch event is in flight.
CacheInv == ~news => cache = Seen

\* The key is due again when the cache's copy has moved on from the pass's.
MemInv == pc # "idle" /\ queue = "none" => mem = view

PastAccounts == pc \in {"scheduler", "workers", "report"}

\* The accounts the pass has made are there, or their owner has been told.
AccountsMade ==
    PastAccounts /\ queue = "none" /\ mem.create =>
        \A c \in Components : accounts[c] # "absent"

\* The pass meets no pod without an account, unless others have deleted one.
AccountsMet ==
    PastAccounts /\ ~bereft => \A c \in Components : HasAccount(c)

\* Nothing has happened that the loop has still to hear of.
Undisturbed == queue = "none" /\ ~news /\ view = cluster

SchedulerIsWanted(c) ==
    scheduler.life # "terminating" =>
        scheduler = [life |-> "alive", made |-> SchedulerTemplate(c)]

WorkersAreWanted(c) ==
    /\ workers[WorkerTemplate(c)] = c.replicas
    /\ workers[~WorkerTemplate(c)] = 0

\* What an undisturbed pass has found so far.
StageInv ==
    Undisturbed =>
        /\ pc \in {"workers", "report"} => SchedulerIsWanted(mem)
        /\ pc = "report" => WorkersAreWanted(mem)

\* What a loop that sleeps without a spec error has brought about.
SleepInv ==
    Undisturbed /\ pc = "idle" /\ reported.error = "none" =>
        /\ reported.gen = cluster.gen
        /\ SchedulerIsWanted(cluster) /\ WorkersAreWanted(cluster)
        /\ AccountsExist

AccountInv == TypeInv /\ AccountsMet /\ AccountsComeFirst

DoneInv ==
    TypeInv /\ CacheInv /\ MemInv /\ AccountsMade /\ StageInv /\ SleepInv

-----------------------------------------------------------------------------
(* Types. *)

LEMMA TemplateType ==
    ASSUME NEW c \in Cluster
    PROVE  /\ SchedulerTemplate(c) \in [replicas : Nat, own : BOOLEAN]
           /\ WorkerTemplate(c) \in BOOLEAN
BY DEF Cluster, SchedulerTemplate, WorkerTemplate

LEMMA NoClusterType == NoCluster \in Cluster
BY DEF NoCluster, Cluster

LEMMA NoSchedulerType == NoScheduler \in SchedulerPods
<1>1. SchedulerTemplate(NoCluster) \in [replicas : Nat, own : BOOLEAN]
  BY NoClusterType, TemplateType
<1> QED BY <1>1 DEF NoScheduler, SchedulerPods

LEMMA LeastAndMinus ==
    ASSUME NEW m \in Nat, NEW n \in Nat
    PROVE  /\ Least(m, n) \in Nat /\ Least(m, n) <= m
           /\ Minus(m, n) \in Nat
BY DEF Least, Minus

LEMMA DeletedType ==
    ASSUME NEW live \in Nat, NEW n \in Nat, NEW d \in Deleted(live, n)
    PROVE  d \in Nat /\ d <= live
<1>1. Least(live, n) \in Nat /\ Least(live, n) <= live
  BY LeastAndMinus
<1> QED BY <1>1 DEF Deleted

LEMMA UsedType == TypeInv => Used \in Nat
<1> SUFFICES ASSUME TypeInv PROVE Used \in Nat
  OBVIOUS
<1> DEFINE own == workers[TRUE]
           other == workers[FALSE]
           one == IF scheduler.life = "none" THEN 0 ELSE 1
<1>1. own \in Nat /\ other \in Nat /\ leaving \in Nat
  BY DEF TypeInv, Pools
<1>2. one \in Nat
  OBVIOUS
<1>3. Used = one + own + other + leaving
  BY DEF Used
<1> HIDE DEF one, own, other
<1> QED BY <1>1, <1>2, <1>3

\* The pool of a pass is as many pods of one template and of the other.
LEMMA PoolNumbers ==
    ASSUME TypeInv
    PROVE  LET t == WorkerTemplate(mem) IN
           /\ t \in BOOLEAN /\ (~t) \in BOOLEAN
           /\ workers[t] \in Nat /\ workers[~t] \in Nat
           /\ cache.workers[t] \in Nat /\ cache.workers[~t] \in Nat
           /\ mem.replicas \in Nat
           /\ Surplus \in Nat /\ Lacking \in Nat /\ Created \in Nat
<1> DEFINE t == WorkerTemplate(mem)
<1>1. t \in BOOLEAN /\ (~t) \in BOOLEAN
  BY TemplateType DEF TypeInv
<1>2. workers \in [BOOLEAN -> Nat] /\ cache.workers \in [BOOLEAN -> Nat]
  BY DEF TypeInv, Pools
<1>3. mem.replicas \in Nat
  BY DEF TypeInv, Cluster
<1> HIDE DEF t
<1>4. /\ workers[t] \in Nat /\ workers[~t] \in Nat
      /\ cache.workers[t] \in Nat /\ cache.workers[~t] \in Nat
  BY <1>1, <1>2
<1>5. Surplus \in Nat /\ Lacking \in Nat
  BY <1>3, <1>4, LeastAndMinus DEF Surplus, Lacking, t
<1>6. Minus(Quota, Used) \in Nat
  BY UsedType, QuotaAssumption, LeastAndMinus
<1>7. Created \in Nat
  BY <1>5, <1>6, LeastAndMinus DEF Created
<1> QED BY <1>1, <1>3, <1>4, <1>5, <1>7 DEF t

\* The pass's end, with or without an error, is well typed.
LEMMA SpecErrorType ==
    ASSUME TypeInv, NEW part \in {"accounts", "scheduler", "workers"}, SpecError(part)
    PROVE  /\ reported' \in [gen : Nat, error : {"none", "accounts", "scheduler", "workers"}]
           /\ mem' \in Cluster /\ pc' = "idle" /\ queue' \in {"none", "due", "delayed"}
<1>1. mem.gen \in Nat
  BY DEF TypeInv, Cluster
<1> QED BY <1>1, NoClusterType DEF SpecError, ReturnError, Return, AddAfter, TypeInv

\* A pool of which some pods were deleted and created.
LEMMA WorkerPoolType ==
    ASSUME TypeInv, reconcileWorkerPool
    PROVE  workers' \in Pools /\ leaving' \in Nat
<1> DEFINE t == WorkerTemplate(mem)
<1>1. /\ t \in BOOLEAN /\ (~t) \in BOOLEAN
      /\ workers[t] \in Nat /\ workers[~t] \in Nat
      /\ cache.workers[~t] \in Nat /\ Surplus \in Nat /\ Created \in Nat
  BY PoolNumbers
<1>2. PICK outdated \in Deleted(workers[~t], cache.workers[~t]),
           cut \in Deleted(workers[t], Surplus) :
              /\ workers' = [workers EXCEPT ![t] = (@ + Created) - cut,
                                            ![~t] = @ - outdated]
              /\ leaving' = leaving + outdated + cut
  BY DEF reconcileWorkerPool
<1> HIDE DEF t
<1>3. outdated \in Nat /\ outdated <= workers[~t] /\ cut \in Nat /\ cut <= workers[t]
  BY <1>1, DeletedType
<1>4. /\ (workers[t] + Created) - cut \in Nat
      /\ workers[~t] - outdated \in Nat
      /\ leaving' \in Nat
  BY <1>1, <1>2, <1>3 DEF TypeInv
<1>5. workers \in [BOOLEAN -> Nat]
  BY DEF TypeInv, Pools
<1>6. [workers EXCEPT ![t] = (@ + Created) - cut] \in [BOOLEAN -> Nat]
  BY <1>1, <1>4, <1>5
<1>7. t # (~t)
  BY <1>1
<1>8. workers' = [[workers EXCEPT ![t] = (@ + Created) - cut]
                     EXCEPT ![~t] = workers[~t] - outdated]
  BY <1>2, <1>5, <1>7
<1> QED BY <1>4, <1>6, <1>8 DEF Pools

LEMMA WatchedType ==
    ASSUME TypeInv, Watched
    PROVE  news' \in BOOLEAN /\ cache' = cache
BY DEF Watched

LEMMA AccountType ==
    ASSUME TypeInv, NEW c \in Components
    PROVE  reconcileServiceAccount(c) \in {"absent", "owned", "foreign", "foreignGone"}
BY DEF TypeInv, reconcileServiceAccount

\* What a pass over the accounts makes of them.
LEMMA AccountsType ==
    ASSUME TypeInv,
           accounts' \in {accounts,
                          [c \in Components |-> reconcileServiceAccount(c)],
                          [accounts EXCEPT !["scheduler"] =
                               reconcileServiceAccount("scheduler")]}
    PROVE  accounts' \in [Components -> {"absent", "owned", "foreign", "foreignGone"}]
<1>1. /\ "scheduler" \in Components
      /\ accounts \in [Components -> {"absent", "owned", "foreign", "foreignGone"}]
  BY DEF TypeInv, Components
<1> QED BY <1>1, AccountType

LEMMA NextTypeInv ==
    ASSUME TypeInv, [Next]_vars
    PROVE  TypeInv'
<1>0. TypeInv
  OBVIOUS
<1>1. ASSUME NEW n \in 0..MaxReplicas, NEW b \in BOOLEAN, EditSpec(n, b)
      PROVE  TypeInv'
  <2>1. n \in Nat /\ cluster.gen + 1 \in Nat
    BY BoundsAssumption DEF TypeInv, Cluster
  <2>2. cluster' \in Cluster
    BY <1>1, <2>1 DEF EditSpec, Cluster
  <2> QED BY <1>0, <1>1, <2>2 DEF EditSpec, TypeInv, pods, watch
<1>2. CASE PodsGone
  <2>1. scheduler' \in SchedulerPods /\ leaving' \in Nat /\ workers' = workers
    BY <1>2, NoSchedulerType DEF PodsGone, TypeInv
  <2>2. news' \in BOOLEAN /\ cache' = cache
    BY <1>2, WatchedType DEF PodsGone
  <2> QED BY <1>0, <1>2, <2>1, <2>2 DEF PodsGone, TypeInv
<1>3. CASE Evict
  <2>1. scheduler' \in SchedulerPods /\ workers' \in Pools /\ leaving' \in Nat
    <3>1. CASE /\ scheduler' = [scheduler EXCEPT !.life = "terminating"]
               /\ UNCHANGED <<workers, leaving>>
      BY <3>1 DEF TypeInv, SchedulerPods
    <3>2. ASSUME NEW t \in BOOLEAN, workers[t] > 0,
                 workers' = [workers EXCEPT ![t] = @ - 1],
                 leaving' = leaving + 1, UNCHANGED scheduler
          PROVE  scheduler' \in SchedulerPods /\ workers' \in Pools /\ leaving' \in Nat
      <4>1. workers[t] - 1 \in Nat /\ workers \in [BOOLEAN -> Nat]
        BY <3>2 DEF TypeInv, Pools
      <4>2. [workers EXCEPT ![t] = workers[t] - 1] \in [BOOLEAN -> Nat]
        BY <4>1
      <4> QED BY <3>2, <4>2 DEF TypeInv, Pools
    <3> QED BY <1>3, <3>1, <3>2 DEF Evict
  <2>2. news' \in BOOLEAN /\ cache' = cache
    BY <1>3, WatchedType DEF Evict
  <2> QED BY <1>0, <1>3, <2>1, <2>2 DEF Evict, TypeInv
<1>4. ASSUME NEW c \in Components, AccountMeddled(c) PROVE TypeInv'
  BY <1>0, <1>4 DEF AccountMeddled, Enqueue, TypeInv, pods, watch
<1>5. CASE Begin
  BY <1>0, <1>5 DEF Begin, TypeInv, pods, watch
<1>6. CASE reconcilePolarsClusterServiceAccounts
  <2>1. accounts' \in [Components -> {"absent", "owned", "foreign", "foreignGone"}]
    BY <1>6, AccountsType DEF reconcilePolarsClusterServiceAccounts
  <2>2. mem' \in Cluster /\ pc' \in {"idle", "scheduler"}
        /\ queue' \in {"none", "due", "delayed"}
    BY <1>0, <1>6, NoClusterType
    DEF reconcilePolarsClusterServiceAccounts, ReturnError, Return, AddAfter, TypeInv
  <2> QED BY <1>0, <1>6, <2>1, <2>2
          DEF reconcilePolarsClusterServiceAccounts, TypeInv, pods, watch
<1>7. CASE reconcileScheduler
  <2>1. scheduler' \in SchedulerPods
    <3>1. CASE scheduler' = [life |-> "alive", made |-> SchedulerTemplate(mem)]
      BY <3>1, TemplateType DEF TypeInv, SchedulerPods
    <3>2. CASE scheduler' = [scheduler EXCEPT !.life =
                                IF @ = "alive" THEN "terminating" ELSE @]
      BY <3>2 DEF TypeInv, SchedulerPods
    <3>3. CASE scheduler' = scheduler
      BY <3>3 DEF TypeInv
    <3> QED BY <1>7, <3>1, <3>2, <3>3 DEF reconcileScheduler, pods
  <2>2. /\ reported' \in [gen : Nat, error : {"none", "accounts", "scheduler", "workers"}]
        /\ mem' \in Cluster /\ pc' \in {"idle", "workers"}
        /\ queue' \in {"none", "due", "delayed"}
    <3>1. CASE ReturnError /\ UNCHANGED reported
      BY <3>1, NoClusterType DEF ReturnError, Return, AddAfter, TypeInv
    <3>2. CASE SpecError("scheduler")
      BY <3>2, SpecErrorType
    <3>3. CASE pc' = "workers" /\ UNCHANGED <<queue, mem, reported>>
      BY <3>3 DEF TypeInv
    <3> QED BY <1>7, <3>1, <3>2, <3>3 DEF reconcileScheduler
  <2>3. news' \in BOOLEAN /\ cache' = cache
    BY <1>7, WatchedType DEF reconcileScheduler
  <2>4. UNCHANGED <<workers, leaving>>
    BY <1>7 DEF reconcileScheduler, pods
  <2> QED BY <1>0, <1>7, <2>1, <2>2, <2>3, <2>4 DEF reconcileScheduler, TypeInv
<1>8. CASE reconcileWorkerPool
  <2>1. workers' \in Pools /\ leaving' \in Nat
    BY <1>8, WorkerPoolType
  <2>2. /\ reported' \in [gen : Nat, error : {"none", "accounts", "scheduler", "workers"}]
        /\ mem' \in Cluster /\ pc' \in {"idle", "report"}
        /\ queue' \in {"none", "due", "delayed"}
    <3>1. CASE SpecError("workers")
      BY <3>1, SpecErrorType
    <3>2. CASE pc' = "report" /\ UNCHANGED <<queue, mem, reported>>
      BY <3>2 DEF TypeInv
    <3> QED BY <1>8, <3>1, <3>2 DEF reconcileWorkerPool
  <2>3. news' \in BOOLEAN /\ cache' = cache
    BY <1>8, WatchedType DEF reconcileWorkerPool
  <2> QED BY <1>0, <1>8, <2>1, <2>2, <2>3 DEF reconcileWorkerPool, TypeInv
<1>9. CASE Report
  <2>1. /\ reported' \in [gen : Nat, error : {"none", "accounts", "scheduler", "workers"}]
        /\ queue' \in {"none", "due", "delayed"} /\ pc' = "idle" /\ mem' \in Cluster
    BY <1>0, <1>9, NoClusterType
    DEF Report, ReturnError, Return, AddAfter, TypeInv, Cluster
  <2> QED BY <1>0, <1>9, <2>1 DEF Report, TypeInv, pods, watch
<1>10. CASE PassFails
  <2>1. Seen \in [scheduler : SchedulerPods, workers : Pools]
    BY DEF TypeInv, Seen
  <2>2. /\ view' \in Cluster /\ cache' \in [scheduler : SchedulerPods, workers : Pools]
        /\ news' \in BOOLEAN /\ queue' \in {"none", "due", "delayed"}
        /\ pc' = "idle" /\ mem' \in Cluster
    BY <1>0, <1>10, <2>1, NoClusterType
    DEF PassFails, ReturnError, Return, AddAfter, Enqueue, watch, TypeInv
  <2> QED BY <1>0, <1>10, <2>2 DEF PassFails, TypeInv, pods
<1>11. CASE Rejected
  <2>1. pc \in {"accounts", "workers"} /\ SpecError(pc)
    BY <1>11 DEF Rejected
  <2>2. /\ reported' \in [gen : Nat, error : {"none", "accounts", "scheduler", "workers"}]
        /\ mem' \in Cluster /\ pc' = "idle" /\ queue' \in {"none", "due", "delayed"}
    BY <2>1, SpecErrorType
  <2>3. accounts' \in [Components -> {"absent", "owned", "foreign", "foreignGone"}]
    BY <1>11, AccountsType DEF Rejected
  <2> QED BY <1>0, <1>11, <2>2, <2>3 DEF Rejected, TypeInv, pods, watch
<1>12. CASE TimerFires \/ DeliverCluster
  BY <1>0, <1>12 DEF TimerFires, DeliverCluster, Enqueue, TypeInv, pods, watch
<1>13. CASE DeliverPods
  <2>1. Seen \in [scheduler : SchedulerPods, workers : Pools]
    BY DEF TypeInv, Seen
  <2> QED BY <1>0, <1>13, <2>1 DEF DeliverPods, Enqueue, TypeInv, pods
<1>14. CASE UNCHANGED vars
  BY <1>0, <1>14 DEF vars, TypeInv
<1> QED BY <1>1, <1>2, <1>3, <1>4, <1>5, <1>6, <1>7, <1>8, <1>9, <1>10, <1>11, <1>12,
           <1>13, <1>14
        DEF Next, Others, Worker

LEMMA InitTypeInv == Init => TypeInv
<1> SUFFICES ASSUME Init PROVE TypeInv
  OBVIOUS
<1>1. cluster \in Cluster
  BY BoundsAssumption DEF Init, Cluster
<1>2. Seen \in [scheduler : SchedulerPods, workers : Pools]
  BY NoSchedulerType DEF Init, Seen, Pools
<1> QED BY <1>1, <1>2, NoSchedulerType, NoClusterType DEF Init, TypeInv, Pools

-----------------------------------------------------------------------------
(* The accounts come first. *)

LEMMA NextAccountInv ==
    ASSUME AccountInv, [Next]_vars
    PROVE  AccountsMet' /\ AccountsComeFirst'
<1>0. TypeInv /\ AccountsMet /\ AccountsComeFirst
  BY DEF AccountInv
<1>1. ASSUME UNCHANGED <<accounts, refused, bereft>>,
             pc' \in {"idle", "accounts"} \/ (UNCHANGED mem /\ pc' = pc)
                \/ (UNCHANGED mem /\ PastAccounts)
      PROVE  AccountsMet' /\ AccountsComeFirst'
  BY <1>0, <1>1 DEF AccountsMet, AccountsComeFirst, PastAccounts, HasAccount
<1>2. CASE \/ \E n \in 0..MaxReplicas, b \in BOOLEAN : EditSpec(n, b)
           \/ PodsGone \/ Evict \/ TimerFires \/ DeliverCluster \/ DeliverPods
           \/ UNCHANGED vars
  <2>1. UNCHANGED <<accounts, refused, bereft, mem, pc>>
    BY <1>2 DEF EditSpec, PodsGone, Evict, TimerFires, DeliverCluster, DeliverPods,
                vars, history
  <2> QED BY <1>1, <2>1
<1>3. CASE Begin \/ Report \/ PassFails
  <2>1. UNCHANGED <<accounts, refused, bereft>> /\ pc' \in {"idle", "accounts"}
    BY <1>3 DEF Begin, Report, PassFails, ReturnError, Return, history
  <2> QED BY <1>1, <2>1
<1>4. ASSUME NEW c \in Components, AccountMeddled(c)
      PROVE  AccountsMet' /\ AccountsComeFirst'
  <2>1. UNCHANGED <<mem, pc, refused>>
    BY <1>4 DEF AccountMeddled
  <2>2. CASE bereft' = TRUE
    BY <2>2 DEF AccountsMet, AccountsComeFirst
  <2>3. CASE /\ accounts' = [accounts EXCEPT ![c] = "foreign"]
             /\ UNCHANGED bereft
    <3>1. accounts \in [Components -> {"absent", "owned", "foreign", "foreignGone"}]
      BY <1>0 DEF TypeInv
    <3>2. \A d \in Components : HasAccount(d) => HasAccount(d)'
      BY <2>1, <2>3, <3>1 DEF HasAccount
    <3> QED BY <1>0, <2>1, <2>3, <3>2
            DEF AccountsMet, AccountsComeFirst, PastAccounts
  <2> QED BY <1>4, <2>2, <2>3 DEF AccountMeddled
<1>5. CASE reconcilePolarsClusterServiceAccounts
  <2>1. UNCHANGED <<refused, bereft>>
    BY <1>5 DEF reconcilePolarsClusterServiceAccounts, history
  <2>2. CASE pc' = "idle"
    BY <1>0, <2>1, <2>2 DEF AccountsMet, AccountsComeFirst, PastAccounts
  <2>3. CASE /\ accounts' = [c \in Components |-> reconcileServiceAccount(c)]
             /\ UNCHANGED mem
    <3>1. \A c \in Components : HasAccount(c)'
      BY <1>0, <2>3 DEF HasAccount, reconcileServiceAccount, TypeInv, Cluster
    <3> QED BY <1>0, <2>1, <3>1 DEF AccountsMet, AccountsComeFirst
  <2> QED BY <1>5, <2>2, <2>3
          DEF reconcilePolarsClusterServiceAccounts, ReturnError, Return
<1>6. CASE reconcileScheduler
  <2>1. /\ PastAccounts /\ "scheduler" \in Components
        /\ UNCHANGED <<accounts, bereft>>
    BY <1>6 DEF reconcileScheduler, PastAccounts, Components
  <2>2. CASE UNCHANGED refused /\ (pc' = "idle" \/ UNCHANGED mem)
    BY <1>1, <2>1, <2>2
  <2>3. CASE /\ refused' = refused \cup Obstacles("scheduler")
             /\ SpecError("scheduler")
    <3>1. pc' = "idle"
      BY <2>3 DEF SpecError, ReturnError, Return
    <3>2. ~bereft => "account" \notin Obstacles("scheduler")
      BY <1>0, <2>1 DEF AccountsMet, Obstacles
    <3> QED BY <1>0, <2>1, <2>3, <3>1, <3>2
            DEF AccountsMet, AccountsComeFirst, PastAccounts
  <2> QED BY <1>6, <2>2, <2>3 DEF reconcileScheduler, ReturnError, Return
<1>7. CASE reconcileWorkerPool
  <2>1. /\ PastAccounts /\ "worker" \in Components
        /\ UNCHANGED <<accounts, bereft>>
    BY <1>7 DEF reconcileWorkerPool, PastAccounts, Components
  <2>2. CASE UNCHANGED <<refused, mem>>
    BY <1>1, <2>1, <2>2
  <2>3. CASE /\ refused' = refused \cup IF HasAccount("worker") THEN {"quota"}
                                        ELSE {"account"}
             /\ SpecError("workers")
    <3>1. pc' = "idle"
      BY <2>3 DEF SpecError, ReturnError, Return
    <3>2. ~bereft => HasAccount("worker")
      BY <1>0, <2>1 DEF AccountsMet
    <3> QED BY <1>0, <2>1, <2>3, <3>1, <3>2
            DEF AccountsMet, AccountsComeFirst, PastAccounts
  <2> QED BY <1>7, <2>2, <2>3 DEF reconcileWorkerPool
<1>8. CASE Rejected
  <2>1. pc' = "idle" /\ refused' = refused \cup {"object"} /\ bereft' = bereft
    BY <1>8 DEF Rejected, SpecError, ReturnError, Return
  <2> QED BY <1>0, <2>1 DEF AccountsMet, AccountsComeFirst, PastAccounts
<1> QED BY <1>2, <1>3, <1>4, <1>5, <1>6, <1>7, <1>8 DEF Next, Others, Worker

\* No pod is ever refused for want of an account that the operator was asked to
\* create, unless others have deleted one: accounts are made before pods, and an
\* edit that newly asks for them takes effect in a pass of its own.
THEOREM AccountsFirst == Spec => []AccountsComeFirst
<1>1. ASSUME Init PROVE AccountInv
  <2>1. AccountsMet /\ AccountsComeFirst
    BY <1>1 DEF Init, AccountsMet, AccountsComeFirst, PastAccounts
  <2> QED BY <1>1, <2>1, InitTypeInv DEF AccountInv
<1>2. ASSUME AccountInv, [Next]_vars PROVE AccountInv'
  <2>1. TypeInv'
    BY <1>2, NextTypeInv DEF AccountInv
  <2> QED BY <1>2, <2>1, NextAccountInv DEF AccountInv
<1>3. ASSUME AccountInv PROVE AccountsComeFirst
  BY <1>3 DEF AccountInv
<1> QED BY <1>1, <1>2, <1>3, PTL DEF Spec

-----------------------------------------------------------------------------
(* A loop that sleeps is done. *)

\* A step the watch will not tell of has left the pods alone.
LEMMA UnwatchedStep ==
    ASSUME TypeInv, Watched, ~news'
    PROVE  ~news /\ UNCHANGED <<scheduler, workers, leaving>>
BY DEF Watched, pods

LEMMA NextCacheInv ==
    ASSUME TypeInv, CacheInv, [Next]_vars
    PROVE  CacheInv'
<1>1. ASSUME Watched PROVE CacheInv'
  BY <1>1, UnwatchedStep DEF Watched, CacheInv, Seen
<1>2. ASSUME UNCHANGED <<pods, watch>> PROVE CacheInv'
  BY <1>2 DEF pods, watch, CacheInv, Seen
<1>3. ASSUME cache' = Seen, UNCHANGED pods PROVE CacheInv'
  BY <1>3 DEF pods, CacheInv, Seen
<1>4. CASE Others
  BY <1>1, <1>2, <1>4 DEF Others, EditSpec, PodsGone, Evict, AccountMeddled
<1>5. CASE Worker
  BY <1>1, <1>2, <1>5 DEF Worker, Begin, reconcilePolarsClusterServiceAccounts,
                          reconcileScheduler, reconcileWorkerPool, Report
<1>6. CASE PassFails \/ Rejected
  BY <1>2, <1>3, <1>6 DEF PassFails, Rejected
<1>7. CASE TimerFires \/ DeliverCluster \/ DeliverPods \/ UNCHANGED vars
  BY <1>2, <1>3, <1>7 DEF TimerFires, DeliverCluster, DeliverPods, vars, pods, watch
<1> QED BY <1>4, <1>5, <1>6, <1>7 DEF Next

\* The parts of DoneInv that only a queue without an entry puts to the test.
WakeInv == MemInv /\ AccountsMade /\ StageInv /\ SleepInv

LEMMA QueuedIsEnough ==
    ASSUME queue' # "none"
    PROVE  WakeInv'
BY DEF WakeInv, MemInv, AccountsMade, StageInv, SleepInv, Undisturbed

\* What others do is seen by the loop, or leaves what it has found as it was.
LEMMA OthersAreHeard ==
    ASSUME WakeInv, UNCHANGED <<view, queue, pc, mem, reported>>,
           Undisturbed' => Undisturbed /\ UNCHANGED <<cluster, scheduler, workers>>,
           \A c \in Components : accounts'[c] = "absent" => accounts[c] = "absent"
    PROVE  WakeInv'
<1>1. MemInv'
  BY DEF WakeInv, MemInv
<1>2. AccountsMade'
  BY DEF WakeInv, AccountsMade, PastAccounts
<1>3. StageInv'
  BY DEF WakeInv, StageInv, SchedulerIsWanted, WorkersAreWanted
<1>4. SleepInv'
  BY DEF WakeInv, SleepInv, SchedulerIsWanted, WorkersAreWanted, AccountsExist
<1> QED BY <1>1, <1>2, <1>3, <1>4 DEF WakeInv

\* recordSpecError leaves the error in the status, or the key queued.
LEMMA SpecErrorWakes ==
    ASSUME NEW part \in {"accounts", "scheduler", "workers"}, SpecError(part)
    PROVE  WakeInv'
<1>1. /\ pc' = "idle"
      /\ queue' # "none" \/ reported'.error # "none"
  BY DEF SpecError, ReturnError, Return, AddAfter
<1> QED BY <1>1 DEF WakeInv, MemInv, AccountsMade, PastAccounts, StageInv, SleepInv,
                    Undisturbed

\* A pass of reconcileScheduler that changes nothing has found its pod in place.
LEMMA SchedulerFound ==
    ASSUME TypeInv, CacheInv, reconcileScheduler, pc' = "workers", ~news'
    PROVE  SchedulerIsWanted(mem)'
<1>1. ~news /\ scheduler' = scheduler
  BY UnwatchedStep DEF reconcileScheduler
<1>2. cache.scheduler = scheduler /\ scheduler \in SchedulerPods
  BY <1>1 DEF CacheInv, Seen, TypeInv
<1>3. mem' = mem
  BY DEF reconcileScheduler, ReturnError, SpecError, Return
<1>4. scheduler.life # "none"
  BY <1>1, <1>2
  DEF reconcileScheduler, ReturnError, SpecError, Return, SchedulerPods
<1>5. ~(scheduler.life = "alive" /\ scheduler.made # SchedulerTemplate(mem))
  BY <1>1, <1>2 DEF reconcileScheduler, SchedulerPods
<1>6. scheduler.life # "terminating" =>
         scheduler = [life |-> "alive", made |-> SchedulerTemplate(mem)]
  BY <1>2, <1>4, <1>5 DEF SchedulerPods
<1> QED BY <1>1, <1>3, <1>6 DEF SchedulerIsWanted, SchedulerTemplate

\* The numbers of a pass of reconcileWorkerPool that changes nothing.
LEMMA NothingToDo ==
    ASSUME NEW live \in Nat, NEW stale \in Nat, NEW left \in Nat, NEW wanted \in Nat,
           NEW outdated, outdated = Least(stale, stale),
           NEW cut, cut = Least(live, Minus(live, wanted)),
           (live + Minus(wanted, live)) - cut = live,
           left + outdated + cut = left
    PROVE  live = wanted /\ stale = 0
BY DEF Least, Minus

\* A pass of reconcileWorkerPool that changes nothing has found its pods in place.
LEMMA WorkersFound ==
    ASSUME TypeInv, CacheInv, reconcileWorkerPool, pc' = "report", ~news'
    PROVE  WorkersAreWanted(mem)'
<1> DEFINE t == WorkerTemplate(mem)
<1>1. ~news /\ workers' = workers /\ leaving' = leaving
  BY UnwatchedStep DEF reconcileWorkerPool
<1>2. cache.workers = workers /\ leaving \in Nat /\ workers \in [BOOLEAN -> Nat]
  BY <1>1 DEF CacheInv, Seen, TypeInv, Pools
<1>3. mem' = mem /\ Created = Lacking
  BY DEF reconcileWorkerPool, SpecError, ReturnError, Return
<1>4. /\ t \in BOOLEAN /\ (~t) \in BOOLEAN
      /\ workers[t] \in Nat /\ workers[~t] \in Nat /\ mem.replicas \in Nat
  BY PoolNumbers
<1>5. PICK outdated \in Deleted(workers[~t], cache.workers[~t]),
           cut \in Deleted(workers[t], Surplus) :
              /\ workers' = [workers EXCEPT ![t] = (@ + Created) - cut,
                                            ![~t] = @ - outdated]
              /\ leaving' = leaving + outdated + cut
  BY DEF reconcileWorkerPool
<1>6. /\ outdated = Least(workers[~t], workers[~t])
      /\ cut = Least(workers[t], Minus(workers[t], mem.replicas))
      /\ Created = Minus(mem.replicas, workers[t])
  BY <1>1, <1>2, <1>3, <1>5 DEF Deleted, Surplus, Lacking
<1> HIDE DEF t
<1>7. t # (~t)
  BY <1>4
<1>8. (workers[t] + Created) - cut = workers[t]
  BY <1>1, <1>2, <1>4, <1>5, <1>7
<1>9. leaving + outdated + cut = leaving
  BY <1>1, <1>5
<1> DEFINE live == workers[t]
           stale == workers[~t]
           wanted == mem.replicas
<1>10. /\ live \in Nat /\ stale \in Nat /\ wanted \in Nat /\ leaving \in Nat
       /\ outdated = Least(stale, stale) /\ cut = Least(live, Minus(live, wanted))
       /\ (live + Minus(wanted, live)) - cut = live
  BY <1>2, <1>4, <1>6, <1>8
<1> HIDE DEF live, stale, wanted
<1>11. live = wanted /\ stale = 0
  BY <1>9, <1>10, NothingToDo
<1> QED BY <1>1, <1>3, <1>11 DEF live, stale, wanted, t, WorkersAreWanted, WorkerTemplate

LEMMA NextWakeInv ==
    ASSUME DoneInv, [Next]_vars
    PROVE  WakeInv'
<1>0. TypeInv /\ CacheInv /\ WakeInv
  BY DEF DoneInv, WakeInv
<1>1. ASSUME NEW n \in 0..MaxReplicas, NEW b \in BOOLEAN, EditSpec(n, b)
      PROVE  WakeInv'
  <2>1. cluster'.gen = cluster.gen + 1 /\ cluster.gen \in Nat /\ view = cluster
    BY <1>0, <1>1 DEF EditSpec, TypeInv, Cluster
  <2>2. ~Undisturbed'
    BY <1>1, <2>1 DEF EditSpec, Undisturbed
  <2> QED BY <1>0, <1>1, <2>2, OthersAreHeard DEF EditSpec
<1>2. CASE PodsGone \/ Evict
  <2>1. ~news' => ~news /\ UNCHANGED <<scheduler, workers>>
    BY <1>0, <1>2, UnwatchedStep DEF PodsGone, Evict
  <2>2. UNCHANGED <<cluster, view, accounts, queue, pc, mem, reported>>
    BY <1>2 DEF PodsGone, Evict
  <2> QED BY <1>0, <2>1, <2>2, OthersAreHeard DEF Undisturbed
<1>3. ASSUME NEW c \in Components, AccountMeddled(c) PROVE WakeInv'
  <2>1. UNCHANGED <<cluster, view, scheduler, workers, news, pc, mem, reported>>
    BY <1>3 DEF AccountMeddled, pods, watch
  <2>2. CASE queue' = "due"
    BY <2>2, QueuedIsEnough
  <2>3. CASE /\ UNCHANGED queue
             /\ \E a \in {"foreign", "foreignGone"} :
                   accounts' = [accounts EXCEPT ![c] = a]
    <3>1. accounts \in [Components -> {"absent", "owned", "foreign", "foreignGone"}]
      BY <1>0 DEF TypeInv
    <3>2. \A d \in Components : accounts'[d] = "absent" => accounts[d] = "absent"
      BY <2>3, <3>1
    <3> QED BY <1>0, <2>1, <2>3, <3>2, OthersAreHeard DEF Undisturbed
  <2> QED BY <1>3, <2>2, <2>3 DEF AccountMeddled, Enqueue
<1>4. CASE UNCHANGED vars
  <2>1. UNCHANGED <<cluster, view, accounts, scheduler, workers, news, queue, pc, mem,
                    reported>>
    BY <1>4 DEF vars
  <2> QED BY <1>0, <2>1, OthersAreHeard DEF Undisturbed
<1>5. CASE Begin
  <2>1. pc' = "accounts" /\ mem' = view /\ view' = view
    BY <1>5 DEF Begin
  <2> QED BY <2>1 DEF WakeInv, MemInv, AccountsMade, PastAccounts, StageInv, SleepInv
<1>6. CASE reconcilePolarsClusterServiceAccounts
  <2>1. CASE ReturnError
    BY <2>1, QueuedIsEnough DEF ReturnError, AddAfter
  <2>2. CASE /\ accounts' = [c \in Components |-> reconcileServiceAccount(c)]
             /\ pc' = "scheduler" /\ UNCHANGED <<queue, mem>>
    <3>1. MemInv'
      BY <1>0, <1>6, <2>2
      DEF reconcilePolarsClusterServiceAccounts, WakeInv, MemInv
    <3>2. AccountsMade'
      BY <2>2 DEF AccountsMade, reconcileServiceAccount
    <3>3. StageInv' /\ SleepInv'
      BY <2>2 DEF StageInv, SleepInv
    <3> QED BY <3>1, <3>2, <3>3 DEF WakeInv
  <2> QED BY <1>6, <2>1, <2>2 DEF reconcilePolarsClusterServiceAccounts
<1>7. CASE reconcileScheduler
  <2>1. CASE ReturnError
    BY <2>1, QueuedIsEnough DEF ReturnError, AddAfter
  <2>2. CASE SpecError("scheduler")
    BY <2>2, SpecErrorWakes
  <2>3. CASE pc' = "workers" /\ UNCHANGED <<queue, mem>>
    <3>1. pc = "scheduler" /\ UNCHANGED <<view, accounts>>
      BY <1>7 DEF reconcileScheduler
    <3>2. MemInv'
      BY <1>0, <2>3, <3>1 DEF WakeInv, MemInv
    <3>3. AccountsMade'
      BY <1>0, <2>3, <3>1 DEF WakeInv, AccountsMade, PastAccounts
    <3>4. ~news' => SchedulerIsWanted(mem)'
      BY <1>0, <1>7, <2>3, SchedulerFound
    <3>5. StageInv' /\ SleepInv'
      BY <2>3, <3>4 DEF StageInv, SleepInv, Undisturbed
    <3> QED BY <3>2, <3>3, <3>5 DEF WakeInv
  <2> QED BY <1>7, <2>1, <2>2, <2>3 DEF reconcileScheduler
<1>8. CASE reconcileWorkerPool
  <2>1. CASE SpecError("workers")
    BY <2>1, SpecErrorWakes
  <2>2. CASE pc' = "report" /\ UNCHANGED <<queue, mem>>
    <3>1. pc = "workers" /\ UNCHANGED <<cluster, view, accounts, scheduler>>
      BY <1>8 DEF reconcileWorkerPool
    <3>2. MemInv'
      BY <1>0, <2>2, <3>1 DEF WakeInv, MemInv
    <3>3. AccountsMade'
      BY <1>0, <2>2, <3>1 DEF WakeInv, AccountsMade, PastAccounts
    <3>4. ~news' => ~news /\ WorkersAreWanted(mem)'
      BY <1>0, <1>8, <2>2, WorkersFound, UnwatchedStep DEF reconcileWorkerPool
    <3>5. Undisturbed' => Undisturbed
      BY <2>2, <3>1, <3>4 DEF Undisturbed
    <3>6. Undisturbed => SchedulerIsWanted(mem)
      BY <1>0, <3>1 DEF WakeInv, StageInv
    <3>7. SchedulerIsWanted(mem) => SchedulerIsWanted(mem)'
      BY <2>2, <3>1 DEF SchedulerIsWanted
    <3>8. StageInv' /\ SleepInv'
      BY <2>2, <3>4, <3>5, <3>6, <3>7 DEF StageInv, SleepInv, Undisturbed
    <3> QED BY <3>2, <3>3, <3>8 DEF WakeInv
  <2> QED BY <1>8, <2>1, <2>2 DEF reconcileWorkerPool
<1>9. CASE Report
  <2>1. CASE ReturnError
    BY <2>1, QueuedIsEnough DEF ReturnError, AddAfter
  <2>2. CASE /\ reported' = [gen |-> mem.gen, error |-> "none"]
             /\ mem.gen = cluster.gen /\ pc' = "idle" /\ UNCHANGED queue
    <3>1. /\ pc = "report"
          /\ UNCHANGED <<cluster, view, accounts, scheduler, workers, news>>
      BY <1>9 DEF Report, pods, watch
    <3>2. ASSUME Undisturbed'
          PROVE  /\ reported'.gen = cluster'.gen
                 /\ SchedulerIsWanted(cluster)' /\ WorkersAreWanted(cluster)'
                 /\ AccountsExist'
      <4>1. Undisturbed /\ mem = cluster
        BY <1>0, <2>2, <3>1, <3>2 DEF WakeInv, MemInv, Undisturbed
      <4>2. SchedulerIsWanted(cluster) /\ WorkersAreWanted(cluster)
        BY <1>0, <3>1, <4>1 DEF WakeInv, StageInv
      <4>3. AccountsExist
        BY <1>0, <3>1, <4>1
        DEF WakeInv, AccountsMade, PastAccounts, Undisturbed, AccountsExist
      <4> QED BY <2>2, <3>1, <4>2, <4>3
              DEF SchedulerIsWanted, WorkersAreWanted, AccountsExist
    <3> QED BY <2>2, <3>2 DEF WakeInv, MemInv, AccountsMade, PastAccounts, StageInv,
                              SleepInv
  <2> QED BY <1>9, <2>1, <2>2 DEF Report, Return
<1>10. CASE PassFails
  BY <1>10, QueuedIsEnough DEF PassFails, ReturnError, AddAfter, Enqueue
<1>11. CASE Rejected
  <2>1. pc \in {"accounts", "workers"} /\ SpecError(pc)
    BY <1>11 DEF Rejected
  <2> QED BY <2>1, SpecErrorWakes
<1>12. CASE TimerFires \/ DeliverCluster \/ DeliverPods
  BY <1>12, QueuedIsEnough DEF TimerFires, DeliverCluster, DeliverPods, Enqueue
<1> QED BY <1>1, <1>2, <1>3, <1>4, <1>5, <1>6, <1>7, <1>8, <1>9, <1>10, <1>11, <1>12
        DEF Next, Others, Worker

\* The handlers of one pass leave no work for each other undone: once the loop
\* sleeps without a spec error and no scheduler is on its way out, accounts,
\* scheduler and workers are those the current generation asks for.
THEOREM NeverSleepsOnWork == Spec => []SettledMeansDone
<1>1. ASSUME Init PROVE DoneInv
  <2>1. CacheInv /\ MemInv /\ AccountsMade /\ StageInv /\ SleepInv
    BY <1>1 DEF Init, CacheInv, MemInv, AccountsMade, PastAccounts, StageInv, SleepInv,
                Undisturbed
  <2> QED BY <1>1, <2>1, InitTypeInv DEF DoneInv
<1>2. ASSUME DoneInv, [Next]_vars PROVE DoneInv'
  <2>1. TypeInv' /\ CacheInv'
    BY <1>2, NextTypeInv, NextCacheInv DEF DoneInv
  <2>2. WakeInv'
    BY <1>2, NextWakeInv
  <2> QED BY <2>1, <2>2 DEF DoneInv, WakeInv
<1>3. ASSUME DoneInv PROVE SettledMeansDone
  BY <1>3 DEF DoneInv, SleepInv, Undisturbed, SchedulerIsWanted, WorkersAreWanted,
              SettledMeansDone, Settled, PodsAreWanted
<1> QED BY <1>1, <1>2, <1>3, PTL DEF Spec

=============================================================================
