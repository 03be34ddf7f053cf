-------------------------- MODULE ReconcileProofs --------------------------
(***************************************************************************)
(* Theorems about Reconcile, for every set of specs, every choice of what  *)
(* flaps, is rejected or conflicts, and all bounds.                        *)
(***************************************************************************)
EXTENDS Reconcile, SequenceTheorems, TLAPS

-----------------------------------------------------------------------------
(* What the operators on objects and statuses return. *)

\* setReadyCondition builds a condition.
LEMMA ReadyConditionType ==
    ASSUME NEW ready \in BOOLEAN, NEW reason \in Reasons,
           NEW about \in SpecFaults \cup {"routes", "none"}, NEW gen \in Nat
    PROVE  ReadyCondition(ready, reason, about, gen) \in Condition
BY DEF ReadyCondition, Condition, Reasons

\* recordSpecError turns an object into an object, of the same identity,
\* generation and spec, that says False about the part and about Ready.
LEMMA WithSpecErrorType ==
    ASSUME NEW obj \in Object, NEW type \in CondTypes, NEW part \in SpecFaults
    PROVE  WithSpecError(obj, type, part) \in Object
<1> DEFINE c == ReadyCondition(FALSE, "SpecError", part, obj.gen)
           conds == [t \in CondTypes |->
                        IF t \in {type, "Ready"} THEN c
                        ELSE obj.status.conditions[t]]
           s == [obj.status EXCEPT !.conditions = conds,
                                   !.observedGeneration = obj.gen]
<1>1. obj.gen \in Nat /\ obj.status \in Status
  BY DEF Object
<1>2. c \in Condition
  BY <1>1, ReadyConditionType DEF Reasons
<1>3. obj.status.conditions \in [CondTypes -> Condition]
  BY <1>1 DEF Status
<1>4. conds \in [CondTypes -> Condition]
  BY <1>2, <1>3
<1>5. s \in Status
  BY <1>1, <1>4 DEF Status
<1>6. WithSpecError(obj, type, part) = [obj EXCEPT !.status = s]
  BY DEF WithSpecError, Object, Status
<1> QED BY <1>5, <1>6 DEF Object

\* The empty object is an object.
LEMMA NoObjectType == NoObject \in Object
<1>1. Absent \in Condition
  BY DEF Absent, Condition, Reasons
<1>2. EmptyStatus \in Status
  BY <1>1 DEF EmptyStatus, Status
<1>3. [invalid |-> {}, routes |-> FALSE] \in SpecSet
  BY DEF SpecSet
<1> QED BY <1>2, <1>3 DEF NoObject, Object

\* A created or edited cluster and a deleted one are objects.
LEMMA UserObjectType ==
    ASSUME NEW obj \in Object, NEW spec \in Specs
    PROVE  /\ [exists |-> TRUE, uid |-> obj.uid + 1, gen |-> 1, spec |-> spec,
               status |-> EmptyStatus] \in Object
           /\ [obj EXCEPT !.gen = @ + 1, !.spec = spec] \in Object
           /\ [NoObject EXCEPT !.uid = obj.uid] \in Object
<1>1. spec \in SpecSet
  BY SpecsAssumption
<1>2. EmptyStatus \in Status
  BY NoObjectType DEF NoObject, Object
<1>3. obj.uid \in Nat /\ obj.gen \in Nat
  BY DEF Object
<1>4. obj.uid + 1 \in Nat /\ obj.gen + 1 \in Nat /\ 1 \in Nat
  BY <1>3
<1>5. [exists |-> TRUE, uid |-> obj.uid + 1, gen |-> 1, spec |-> spec,
       status |-> EmptyStatus] \in Object
  BY <1>1, <1>2, <1>4 DEF Object
<1>6. [obj EXCEPT !.gen = @ + 1, !.spec = spec] \in Object
  BY <1>1, <1>4 DEF Object
<1>7. [NoObject EXCEPT !.uid = obj.uid] \in Object
  BY <1>3, NoObjectType DEF Object
<1> QED BY <1>5, <1>6, <1>7

\* A handler that reports a readiness leaves an object behind.
LEMMA ReportType ==
    ASSUME NEW obj \in Object, NEW status \in Status, NEW type \in CondTypes,
           NEW c \in Condition
    PROVE  [obj EXCEPT !.status = [status EXCEPT !.conditions[type] = c]]
                \in Object
<1>1. status.conditions \in [CondTypes -> Condition]
  BY DEF Status
<1>2. [status.conditions EXCEPT ![type] = c] \in [CondTypes -> Condition]
  BY <1>1
<1>3. [status EXCEPT !.conditions[type] = c] \in Status
  BY <1>2 DEF Status
<1> QED BY <1>3 DEF Object

\* The verdict of a full pass is an object.
LEMMA WithVerdictType ==
    ASSUME NEW obj \in Object, NEW routes \in Verdicts
    PROVE  WithVerdict(obj, routes) \in Object
<1> DEFINE ready == ReadyCondition(AllReady(obj, routes), "NotReady",
                                   Blame(obj.status), obj.gen)
           conds == [t \in CondTypes |->
                        CASE t = "RoutesReady" -> RoutesCondition(obj, routes)
                          [] t = "Ready" -> ready
                          [] OTHER -> obj.status.conditions[t]]
           s == [obj.status EXCEPT !.conditions = conds,
                                   !.observedGeneration = obj.gen]
<1>1. /\ obj.gen \in Nat /\ obj.status \in Status /\ obj.spec \in SpecSet
      /\ obj.status.conditions \in [CondTypes -> Condition]
      /\ obj.status.scheduler \in BOOLEAN /\ obj.status.workerPool \in BOOLEAN
      /\ obj.spec.routes \in BOOLEAN
  BY DEF Object, Status, SpecSet
<1>2. RoutesCondition(obj, routes) \in Condition
  <2> DEFINE reason == IF routes \in {"rejected", "conflict"}
                       THEN "SpecError" ELSE "NotReady"
  <2>1. reason \in Reasons
    BY DEF Reasons
  <2>2. Absent \in Condition
    BY DEF Absent, Condition, Reasons
  <2> HIDE DEF reason
  <2>3. ReadyCondition(routes = "ok", reason, "routes", obj.gen) \in Condition
    BY <1>1, <2>1, ReadyConditionType
  <2> QED BY <2>2, <2>3 DEF RoutesCondition, reason
<1>3. Blame(obj.status) \in SpecFaults \cup {"routes", "none"}
  BY <1>1 DEF Blame, SpecFaults, Parts
<1>4. AllReady(obj, routes) \in BOOLEAN
  BY <1>1 DEF AllReady
<1>5. ready \in Condition
  <2> HIDE DEF Condition, Object
  <2> QED BY <1>1, <1>3, <1>4, ReadyConditionType DEF Reasons
<1>6. conds \in [CondTypes -> Condition]
  <2> SUFFICES ASSUME NEW t \in CondTypes PROVE conds[t] \in Condition
    OBVIOUS
  <2>1. obj.status.conditions[t] \in Condition
    BY <1>1
  <2> HIDE DEF ready
  <2> QED BY <1>2, <1>5, <2>1
<1>7. s \in Status
  <2> HIDE DEF conds
  <2> QED BY <1>1, <1>6 DEF Status
<1>8. WithVerdict(obj, routes) = [obj EXCEPT !.status = s]
  BY DEF WithVerdict, Object, Status
<1> QED
  <2> HIDE DEF s
  <2> QED BY <1>7, <1>8 DEF Object

\* What WriteStatus leaves in the API server and in the watch stream.
LEMMA WriteStatusType ==
    ASSUME cluster \in Object, view \in Object, stream \in Seq(Object),
           mem \in Object, WriteStatus
    PROVE  /\ cluster' \in Object /\ view' \in Object
           /\ stream' \in Seq(Object)
<1>1. mem.status \in Status
  BY DEF Object
<1>2. [cluster EXCEPT !.status = mem.status] \in Object
  BY <1>1 DEF Object
<1> HIDE DEF Object
<1> QED BY <1>2 DEF WriteStatus, Write, api

-----------------------------------------------------------------------------
(* Type correctness. *)

\* The initial state has the right types.
LEMMA InitTypeOK == Init => TypeOK
<1> SUFFICES ASSUME Init PROVE TypeOK
  OBVIOUS
<1>1. health \in [Parts -> Verdicts]
  BY DEF Init, Idle, Verdicts
<1>2. stream \in Seq(Object)
  BY DEF Init
<1>3. cluster \in Object /\ view \in Object /\ mem \in Object
  BY NoObjectType DEF Init
<1> QED BY <1>1, <1>2, <1>3 DEF Init, TypeOK, None, Due, Delayed

\* A user's write keeps the types of all but the history of events.
LEMMA UserWriteType ==
    ASSUME TypeOK, NEW obj \in Object, UserWrite(obj),
           told' \in {"none", "ready", "notReady", "warned"},
           missed' \in BOOLEAN
    PROVE  TypeOK'
<1>1. cluster' = obj /\ view' = view /\ stream' = Append(stream, obj)
  BY DEF UserWrite, Write
<1>2. stream' \in Seq(Object)
  BY <1>1, AppendProperties DEF TypeOK
<1>3. /\ queue' = queue /\ health' = health /\ pc' = pc /\ mem' = mem
      /\ wasReady' = wasReady /\ conflict' = conflict /\ memFresh' = FALSE
  BY DEF UserWrite
<1> QED BY <1>1, <1>2, <1>3 DEF TypeOK

\* Returning from Reconcile resets its local variables to values of their
\* types.
LEMMA ReturnType ==
    ASSUME Return
    PROVE  /\ pc' = "idle" /\ mem' \in Object /\ memFresh' \in BOOLEAN
           /\ wasReady' \in BOOLEAN /\ conflict' \in BOOLEAN
BY NoObjectType DEF Return

\* recordSpecError keeps the types.
LEMMA RecordSpecErrorType ==
    ASSUME TypeOK, NEW obj \in Object, NEW type \in CondTypes,
           NEW part \in SpecFaults, RecordSpecError(obj, type, part)
    PROVE  /\ mem' \in Object /\ pc' = "updateError"
           /\ told' \in {"none", "ready", "notReady", "warned"}
           /\ missed' \in BOOLEAN
BY WithSpecErrorType DEF TypeOK, RecordSpecError, Goto

\* A step keeps the types; one case per action.
LEMMA NextTypeOK == TypeOK /\ [Next]_vars => TypeOK'
<1> SUFFICES ASSUME TypeOK, [Next]_vars PROVE TypeOK'
  OBVIOUS
<1> USE DEF None, Due, Delayed
<1>1. ASSUME NEW spec \in Specs, CreateCluster(spec) PROVE TypeOK'
  <2>1. cluster \in Object
    BY DEF TypeOK
  <2>2. [exists |-> TRUE, uid |-> cluster.uid + 1, gen |-> 1, spec |-> spec,
         status |-> EmptyStatus] \in Object
    BY <2>1, UserObjectType
  <2> QED BY <1>1, <2>2, UserWriteType DEF CreateCluster
<1>2. ASSUME NEW spec \in Specs, EditSpec(spec) PROVE TypeOK'
  <2>1. cluster \in Object
    BY DEF TypeOK
  <2>2. [cluster EXCEPT !.gen = @ + 1, !.spec = spec] \in Object
    BY <2>1, UserObjectType
  <2>3. told' = told /\ missed' = missed
    BY <1>2 DEF EditSpec, events
  <2>4. UserWrite([cluster EXCEPT !.gen = @ + 1, !.spec = spec])
    BY <1>2 DEF EditSpec
  <2> HIDE DEF UserWrite
  <2> QED BY <2>2, <2>3, <2>4, UserWriteType DEF TypeOK
<1>3. CASE DeleteCluster
  <2>1. PICK spec \in Specs : TRUE
    BY SpecsAssumption
  <2>2. cluster \in Object
    BY DEF TypeOK
  <2>3. [NoObject EXCEPT !.uid = cluster.uid] \in Object
    BY <2>1, <2>2, UserObjectType
  <2>4. told' = told /\ missed' = missed
    BY <1>3 DEF DeleteCluster, events
  <2> QED BY <1>3, <2>3, <2>4, UserWriteType DEF DeleteCluster, TypeOK
<1>4. ASSUME NEW p \in Flapping, OwnedObjectChanges(p) PROVE TypeOK'
  <2>1. p \in Parts
    BY PartsAssumption DEF Parts
  <2>2. health' \in [Parts -> Verdicts]
    BY <1>4, <2>1 DEF OwnedObjectChanges, Verdicts, TypeOK
  <2> QED BY <1>4, <2>2
          DEF OwnedObjectChanges, Enqueue, TypeOK, api, local, events
<1>5. ASSUME NEW p \in Parts, BlockChanges(p) PROVE TypeOK'
  <2>1. health' \in [Parts -> Verdicts]
    BY <1>5 DEF BlockChanges, Blocks, Idle, Verdicts, TypeOK
  <2> QED BY <1>5, <2>1 DEF BlockChanges, TypeOK, api, local, events
<1>6. CASE BeginNotFound
  BY <1>6 DEF BeginNotFound, TypeOK, api, local, events
<1>7. CASE Begin
  <2>1. /\ "Ready" \in CondTypes /\ "version" \in SpecFaults
    BY DEF CondTypes, SpecFaults
  <2>2. CASE RecordSpecError(view, "Ready", "version")
    BY <1>7, <2>1, <2>2, RecordSpecErrorType DEF Begin, IsTrue, TypeOK, api
  <2>3. CASE mem' = view /\ Goto("serviceAccounts") /\ UNCHANGED events
    BY <1>7, <2>3 DEF Begin, IsTrue, TypeOK, api, events, Goto, Parts
  <2> QED BY <1>7, <2>2, <2>3 DEF Begin
<1>8. ASSUME NEW p \in Parts \ {"routes"}, NEW next \in Parts,
             PlainHandler(p, next)
      PROVE  TypeOK'
  <2>1. /\ "Ready" \in CondTypes /\ p \in SpecFaults
    BY DEF CondTypes, SpecFaults
  <2>2. CASE RecordSpecError(mem, "Ready", p)
    BY <1>8, <2>1, <2>2, RecordSpecErrorType DEF PlainHandler, TypeOK, api
  <2>3. CASE Goto(next) /\ UNCHANGED <<mem, events>>
    BY <1>8, <2>3 DEF PlainHandler, TypeOK, api, events, Goto
  <2> QED BY <1>8, <2>2, <2>3 DEF PlainHandler
<1>9. ASSUME NEW p \in Parts \ {"routes"}, NEW type \in CondTypes,
             NEW status \in Status, NEW next \in Parts,
             ReportingHandler(p, type, status, next)
      PROVE  TypeOK'
  <2>1. p \in SpecFaults
    BY DEF SpecFaults
  <2>2. CASE RecordSpecError(mem, type, p)
    BY <1>9, <2>1, <2>2, RecordSpecErrorType DEF ReportingHandler, TypeOK, api
  <2>3. CASE ~SpecErrorIn(p)
    <3>1. mem.gen \in Nat
      BY DEF TypeOK, Object
    <3>2. ReadyCondition(health[p] = "ok", "NotReady", p, mem.gen) \in Condition
      BY <2>1, <3>1, ReadyConditionType DEF Reasons
    <3>3. mem' \in Object
      <4> DEFINE c == ReadyCondition(health[p] = "ok", "NotReady", p, mem.gen)
      <4>1. mem' = [mem EXCEPT !.status = [status EXCEPT !.conditions[type] = c]]
        BY <1>9, <2>3 DEF ReportingHandler, WithReport
      <4>2. mem \in Object /\ c \in Condition
        BY <3>2 DEF TypeOK
      <4> HIDE DEF c
      <4> QED BY <4>1, <4>2, ReportType
    <3>4. pc' = next /\ UNCHANGED events
      BY <1>9, <2>3 DEF ReportingHandler, Goto
    <3> QED BY <1>9, <3>3, <3>4 DEF ReportingHandler, TypeOK, api, events
  <2> QED BY <1>9, <2>2, <2>3 DEF ReportingHandler
<1>10. CASE ReconcileServiceAccounts
  BY <1>8, <1>10 DEF ReconcileServiceAccounts, Parts
<1>11. CASE ReconcileServices
  BY <1>8, <1>11 DEF ReconcileServices, Parts
<1>12. CASE ReconcileScheduler
  <2>1. [mem.status EXCEPT !.scheduler = (health["scheduler"] = "ok")] \in Status
    BY DEF TypeOK, Object, Status
  <2> QED BY <1>9, <1>12, <2>1 DEF ReconcileScheduler, Parts, CondTypes
<1>13. CASE ReconcileWorkerPool
  <2>1. [mem.status EXCEPT !.workerPool = (health["workers"] = "ok")] \in Status
    BY DEF TypeOK, Object, Status
  <2> QED BY <1>9, <1>13, <2>1 DEF ReconcileWorkerPool, Parts, CondTypes
<1>14. CASE ReconcileRoutes
  <2>1. health["routes"] \in Verdicts
    BY DEF TypeOK, Parts
  <2>2. conflict' \in BOOLEAN
    BY <1>14 DEF ReconcileRoutes, TypeOK, Object, SpecSet
  <2> QED BY <1>14, <2>1, <2>2, WithVerdictType
          DEF ReconcileRoutes, Goto, TypeOK, api, events
<1>15. CASE TransientError
  BY <1>15, ReturnType DEF TransientError, ReturnError, AddAfter, TypeOK, api, events
<1>16. CASE UpdateStatus
  BY <1>16, WriteStatusType DEF UpdateStatus, Goto, TypeOK, events
<1>17. CASE UpdateErrorStatus
  BY <1>17, WriteStatusType, ReturnType DEF UpdateErrorStatus, TypeOK, events
<1>18. CASE UpdateRefused
  BY <1>18, ReturnType DEF UpdateRefused, ReturnError, AddAfter, TypeOK, api, events
<1>19. CASE UpdateFails
  <2>1. /\ cluster' \in Object /\ view' \in Object /\ stream' \in Seq(Object)
        /\ missed' \in BOOLEAN
    BY <1>19, WriteStatusType DEF UpdateFails, ReadyChanged, TypeOK, api
  <2> QED BY <1>19, <2>1, ReturnType DEF UpdateFails, ReturnError, AddAfter, TypeOK
<1>20. CASE Emit
  <2>1. told' \in {"none", "ready", "notReady", "warned"} /\ missed' \in BOOLEAN
    BY <1>20 DEF Emit, TypeOK, events
  <2> QED BY <1>20, <2>1, ReturnType DEF Emit, AddAfter, TypeOK, api
<1>21. CASE Crash
  <2>1. missed' \in BOOLEAN
    BY <1>21 DEF Crash, TypeOK
  <2> QED BY <1>21, <2>1, ReturnType DEF Crash, TypeOK
<1>22. CASE TimerFires
  BY <1>22 DEF TimerFires, Enqueue, TypeOK, api, local, events
<1>23. CASE DeliverWatch
  BY <1>23 DEF DeliverWatch, Enqueue, TypeOK, local, events
<1>24. CASE Resync
  BY <1>24 DEF Resync, Enqueue, TypeOK, api, local, events
<1>25. CASE UNCHANGED vars
  BY <1>25 DEF vars, TypeOK
<1> QED
  BY <1>1, <1>2, <1>3, <1>4, <1>5, <1>6, <1>7, <1>10, <1>11, <1>12, <1>13,
     <1>14, <1>15, <1>16, <1>17, <1>18, <1>19, <1>20, <1>21, <1>22, <1>23,
     <1>24, <1>25
  DEF Next, User, OwnedObjects, Worker, Faults

\* Type correctness of the reconcile loop.
THEOREM TypeCorrect == Spec => []TypeOK
BY InitTypeOK, NextTypeOK, PTL DEF Spec

-----------------------------------------------------------------------------
(***************************************************************************)
(* The inductive invariant behind the safety theorems.  The three          *)
(* properties are about what is published; what makes them inductive is    *)
(* what holds of the copies on the way there: the newest version in flight *)
(* is the API server's, a copy with the current resourceVersion has the    *)
(* current generation and spec, and the local status is built up stage by  *)
(* stage.                                                                  *)
(***************************************************************************)

\* The informer trails the API server but misses nothing.
NewestIsCurrent ==
    IF stream = <<>> THEN view = cluster ELSE stream[Len(stream)] = cluster

\* An unrefused copy is a copy of the current object, up to its status.
CopyIsCurrent ==
    memFresh => /\ pc # "idle"
                /\ cluster.exists
                /\ mem.uid = cluster.uid
                /\ mem.gen = cluster.gen
                /\ mem.spec = cluster.spec

\* What is about to be written speaks about the copy's generation.
AboutItsGeneration(obj) ==
    /\ obj.status.observedGeneration = obj.gen
    /\ obj.status.conditions["Ready"].gen = obj.gen
    /\ obj.status.conditions["Ready"].status # "Absent"

\* The condition says, about the copy's generation, whether the part is ready.
Backed(obj, ready, type) ==
    /\ obj.status.conditions[type].status = IF ready THEN "True" ELSE "False"
    /\ obj.status.conditions[type].gen = obj.gen

\* Ready=False names a part that is down, and none before it is.
Explained(status) ==
    LET ready == status.conditions["Ready"]
        own == status.conditions[OwnCondition(ready.about)]
    IN  ready.status = "False" =>
            /\ ready.gen = status.observedGeneration
            /\ own.status = "False" /\ own.gen = ready.gen
            /\ ready.reason = "NotReady" =>
                /\ ready.about \in {"workers", "routes"} =>
                       IsTrue(status, "SchedulerReady")
                /\ ready.about = "routes" => IsTrue(status, "WorkerPoolReady")

\* What Reconcile has computed so far, by stage.
StageInv ==
    /\ pc \in {"services", "workers", "routes"} =>
           Backed(mem, mem.status.scheduler, "SchedulerReady")
    /\ pc = "routes" => Backed(mem, mem.status.workerPool, "WorkerPoolReady")
    /\ pc \in {"update", "updateError"} =>
           AboutItsGeneration(mem) /\ Earned(mem.status) /\ Explained(mem.status)

\* Every published version, in the API server, in flight or cached.
PublishedInv ==
    /\ Earned(cluster.status) /\ Explained(cluster.status)
    /\ Earned(view.status)
    /\ \A i \in DOMAIN stream : Earned(stream[i].status)

IInv ==
    /\ TypeOK
    /\ NewestIsCurrent
    /\ CopyIsCurrent
    /\ StageInv
    /\ PublishedInv

\* recordSpecError keeps identity, generation and spec, and says False of
\* Ready for that generation.
LEMMA WithSpecErrorFacts ==
    ASSUME NEW obj \in Object, NEW type \in CondTypes, NEW part \in SpecFaults,
           type = OwnCondition(part)
    PROVE  LET new == WithSpecError(obj, type, part) IN
           /\ new.uid = obj.uid /\ new.gen = obj.gen /\ new.spec = obj.spec
           /\ AboutItsGeneration(new)
           /\ Earned(new.status) /\ Explained(new.status)
           /\ new.status.conditions["Ready"].reason = "SpecError"
           /\ new.status.conditions["Ready"].status = "False"
<1> DEFINE c == ReadyCondition(FALSE, "SpecError", part, obj.gen)
           conds == [t \in CondTypes |->
                        IF t \in {type, "Ready"} THEN c
                        ELSE obj.status.conditions[t]]
           s == [obj.status EXCEPT !.conditions = conds,
                                   !.observedGeneration = obj.gen]
           new == WithSpecError(obj, type, part)
<1>1. new = [obj EXCEPT !.status = s]
  BY DEF WithSpecError, Object, Status
<1>2. new.uid = obj.uid /\ new.gen = obj.gen /\ new.spec = obj.spec
      /\ new.status = s
  BY <1>1 DEF Object
<1>3. s.conditions = conds /\ s.observedGeneration = obj.gen
  BY DEF Object, Status
<1>4. conds["Ready"] = c /\ conds[type] = c
  BY DEF CondTypes
<1>5. /\ c.status = "False" /\ c.gen = obj.gen
      /\ c.about = part /\ c.reason = "SpecError"
  BY DEF ReadyCondition
<1> HIDE DEF c, conds, s
<1>6. AboutItsGeneration(new)
  BY <1>2, <1>3, <1>4, <1>5 DEF AboutItsGeneration
<1>7. Earned(new.status)
  BY <1>2, <1>3, <1>4, <1>5 DEF Earned
<1>8. Explained(new.status)
  BY <1>2, <1>3, <1>4, <1>5 DEF Explained
<1> QED BY <1>2, <1>3, <1>4, <1>5, <1>6, <1>7, <1>8

\* The verdict of a full pass keeps identity, generation and spec, is about
\* that generation, and says Ready only when all parts are.
LEMMA WithVerdictFacts ==
    ASSUME NEW obj \in Object, NEW routes \in Verdicts,
           Backed(obj, obj.status.scheduler, "SchedulerReady"),
           Backed(obj, obj.status.workerPool, "WorkerPoolReady")
    PROVE  LET new == WithVerdict(obj, routes) IN
           /\ new.uid = obj.uid /\ new.gen = obj.gen /\ new.spec = obj.spec
           /\ AboutItsGeneration(new)
           /\ Earned(new.status) /\ Explained(new.status)
           /\ \A t \in {"SchedulerReady", "WorkerPoolReady"} :
                 new.status.conditions[t] = obj.status.conditions[t]
           /\ new.status.conditions["RoutesReady"] = RoutesCondition(obj, routes)
<1> DEFINE ready == ReadyCondition(AllReady(obj, routes), "NotReady",
                                   Blame(obj.status), obj.gen)
           conds == [t \in CondTypes |->
                        CASE t = "RoutesReady" -> RoutesCondition(obj, routes)
                          [] t = "Ready" -> ready
                          [] OTHER -> obj.status.conditions[t]]
           s == [obj.status EXCEPT !.conditions = conds,
                                   !.observedGeneration = obj.gen]
           new == WithVerdict(obj, routes)
<1>1. new = [obj EXCEPT !.status = s]
  BY DEF WithVerdict, Object, Status
<1>2. new.uid = obj.uid /\ new.gen = obj.gen /\ new.spec = obj.spec
      /\ new.status = s
  BY <1>1 DEF Object
<1>3. /\ s.conditions = conds /\ s.observedGeneration = obj.gen
      /\ s.scheduler = obj.status.scheduler
      /\ s.workerPool = obj.status.workerPool
  BY DEF Object, Status
<1>4. /\ conds["Ready"] = ready
      /\ conds["RoutesReady"] = RoutesCondition(obj, routes)
      /\ conds["SchedulerReady"] = obj.status.conditions["SchedulerReady"]
      /\ conds["WorkerPoolReady"] = obj.status.conditions["WorkerPoolReady"]
  <2> HIDE DEF ready
  <2> QED BY DEF CondTypes
<1>5. ready.gen = obj.gen /\ ready.status # "Absent"
  BY DEF ReadyCondition
<1>6. ready.status = "False" => /\ ready.about = Blame(obj.status)
                                /\ ~AllReady(obj, routes)
  BY DEF ReadyCondition
<1>7. ~AllReady(obj, routes) /\ obj.status.scheduler /\ obj.status.workerPool =>
        /\ RoutesCondition(obj, routes).status = "False"
        /\ RoutesCondition(obj, routes).gen = obj.gen
  BY DEF AllReady, RoutesCondition, ReadyCondition
<1>8. /\ ~obj.status.scheduler => Blame(obj.status) = "scheduler"
      /\ obj.status.scheduler /\ ~obj.status.workerPool =>
            Blame(obj.status) = "workers"
      /\ obj.status.scheduler /\ obj.status.workerPool =>
            Blame(obj.status) = "routes"
  BY DEF Blame
<1>9. /\ OwnCondition("scheduler") = "SchedulerReady"
      /\ OwnCondition("workers") = "WorkerPoolReady"
      /\ OwnCondition("routes") = "RoutesReady"
  BY DEF OwnCondition
<1>10. ready.status = "True" => AllReady(obj, routes)
  BY DEF ReadyCondition
<1>11. AllReady(obj, routes) =>
        \/ /\ RoutesCondition(obj, routes).status = "True"
           /\ RoutesCondition(obj, routes).gen = obj.gen
        \/ RoutesCondition(obj, routes) = Absent
  BY DEF AllReady, RoutesCondition, ReadyCondition
<1> HIDE DEF ready, conds, s
<1>12. AboutItsGeneration(new)
  BY <1>2, <1>3, <1>4, <1>5 DEF AboutItsGeneration
<1>13. Earned(new.status)
  BY <1>2, <1>3, <1>4, <1>5, <1>10, <1>11
     DEF Earned, Backed, AllReady, CondTypes
<1>14. Explained(new.status)
  <2> SUFFICES ASSUME ready.status = "False"
               PROVE  /\ conds[OwnCondition(ready.about)].status = "False"
                      /\ conds[OwnCondition(ready.about)].gen = obj.gen
                      /\ ready.about \in {"workers", "routes"} =>
                             conds["SchedulerReady"].status = "True"
                      /\ ready.about = "routes" =>
                             conds["WorkerPoolReady"].status = "True"
    BY <1>2, <1>3, <1>4, <1>5 DEF Explained, IsTrue
  <2>0. /\ conds["SchedulerReady"].gen = obj.gen /\ conds["WorkerPoolReady"].gen = obj.gen
        /\ obj.status.scheduler => conds["SchedulerReady"].status = "True"
        /\ ~obj.status.scheduler => conds["SchedulerReady"].status = "False"
        /\ obj.status.workerPool => conds["WorkerPoolReady"].status = "True"
        /\ ~obj.status.workerPool => conds["WorkerPoolReady"].status = "False"
    BY <1>4 DEF Backed
  <2>1. CASE ~obj.status.scheduler
    <3>1. ready.about = "scheduler" /\ OwnCondition(ready.about) = "SchedulerReady"
      BY <1>6, <1>8, <1>9, <2>1
    <3> QED BY <2>0, <2>1, <3>1
  <2>2. CASE obj.status.scheduler /\ ~obj.status.workerPool
    <3>1. ready.about = "workers" /\ OwnCondition(ready.about) = "WorkerPoolReady"
      BY <1>6, <1>8, <1>9, <2>2
    <3> QED BY <2>0, <2>2, <3>1
  <2>3. CASE obj.status.scheduler /\ obj.status.workerPool
    <3>1. ready.about = "routes" /\ OwnCondition(ready.about) = "RoutesReady"
      BY <1>6, <1>8, <1>9, <2>3
    <3> QED BY <1>4, <1>6, <1>7, <2>0, <2>3, <3>1
  <2> QED BY <2>1, <2>2, <2>3
<1> QED BY <1>2, <1>3, <1>4, <1>12, <1>13, <1>14

\* The invariant holds initially.
LEMMA InitIInv == Init => IInv
<1> SUFFICES ASSUME Init PROVE IInv
  OBVIOUS
<1>1. TypeOK
  BY InitTypeOK
<1>2. /\ cluster = NoObject /\ view = NoObject /\ stream = <<>>
      /\ memFresh = FALSE /\ pc = "idle"
  BY DEF Init
<1>3. Earned(NoObject.status) /\ Explained(NoObject.status)
  BY DEF NoObject, EmptyStatus, Earned, Explained, Absent, CondTypes
<1> QED BY <1>1, <1>2, <1>3
        DEF IInv, NewestIsCurrent, CopyIsCurrent, StageInv, PublishedInv

\* What a write appends is published too, and is the newest version.
LEMMA WriteInv ==
    ASSUME IInv, NEW obj \in Object, Write(obj),
           Earned(obj.status), Explained(obj.status)
    PROVE  NewestIsCurrent' /\ PublishedInv'
<1>1. /\ cluster' = obj /\ view' = view /\ stream' = Append(stream, obj)
  BY DEF Write
<1>2. stream \in Seq(Object)
  BY DEF IInv, TypeOK
<1>3. /\ Len(stream') = Len(stream) + 1
      /\ stream' # <<>>
      /\ stream'[Len(stream')] = obj
      /\ \A i \in DOMAIN stream' : i \in DOMAIN stream \/ stream'[i] = obj
      /\ \A i \in DOMAIN stream : stream'[i] = stream[i]
  BY <1>1, <1>2, AppendProperties
<1>4. NewestIsCurrent'
  BY <1>1, <1>3 DEF NewestIsCurrent
<1>5. PublishedInv'
  BY <1>1, <1>3 DEF IInv, PublishedInv
<1> QED BY <1>4, <1>5

\* A successful status update publishes the copy's status.
LEMMA WriteStatusInv ==
    ASSUME IInv, WriteStatus, Earned(mem.status), Explained(mem.status)
    PROVE  NewestIsCurrent' /\ PublishedInv'
<1>1. CASE mem.status = cluster.status
  <2>1. cluster' = cluster /\ view' = view /\ stream' = stream
    BY <1>1 DEF WriteStatus, api
  <2> QED BY <2>1 DEF IInv, NewestIsCurrent, PublishedInv
<1>2. CASE mem.status # cluster.status
  <2> DEFINE obj == [cluster EXCEPT !.status = mem.status]
  <2>1. mem \in Object /\ cluster \in Object
    BY DEF IInv, TypeOK
  <2>2. obj \in Object /\ obj.status = mem.status
    BY <2>1 DEF Object
  <2>3. Write(obj)
    BY <1>2 DEF WriteStatus
  <2> HIDE DEF obj
  <2> QED BY <2>2, <2>3, WriteInv
<1> QED BY <1>1, <1>2

\* Steps that leave the API server, the cache and the stream alone.
LEMMA ApiUnchanged ==
    ASSUME IInv, UNCHANGED api
    PROVE  NewestIsCurrent' /\ PublishedInv'
BY DEF IInv, api, NewestIsCurrent, PublishedInv

\* Steps of others: the copy is untouched, or loses its resourceVersion.
LEMMA OthersInv ==
    ASSUME IInv, UNCHANGED <<pc, mem>>,
           memFresh' = FALSE \/ (memFresh' = memFresh /\ cluster' = cluster)
    PROVE  CopyIsCurrent' /\ StageInv'
BY DEF IInv, CopyIsCurrent, StageInv, Backed, AboutItsGeneration, Earned

\* Returning from Reconcile leaves no copy.
LEMMA ReturnInv ==
    ASSUME Return
    PROVE  CopyIsCurrent' /\ StageInv'
BY DEF Return, CopyIsCurrent, StageInv

\* A user's write: a created object has no status, an edit keeps it.
LEMMA UserWriteInv ==
    ASSUME IInv, NEW obj \in Object, UserWrite(obj),
           Earned(obj.status), Explained(obj.status)
    PROVE  /\ NewestIsCurrent' /\ PublishedInv'
           /\ CopyIsCurrent' /\ StageInv'
<1>1. Write(obj) /\ memFresh' = FALSE /\ UNCHANGED <<pc, mem>>
  BY DEF UserWrite
<1> QED BY <1>1, WriteInv, OthersInv

\* recordSpecError prepares a status that may be published.
LEMMA RecordSpecErrorInv ==
    ASSUME NEW obj \in Object, NEW type \in CondTypes, NEW part \in SpecFaults,
           type = OwnCondition(part), RecordSpecError(obj, type, part), cluster' = cluster,
           memFresh' => /\ cluster.exists
                        /\ obj.uid = cluster.uid /\ obj.gen = cluster.gen
                        /\ obj.spec = cluster.spec
    PROVE  CopyIsCurrent' /\ StageInv'
<1>1. mem' = WithSpecError(obj, type, part) /\ pc' = "updateError"
  BY DEF RecordSpecError, Goto
<1>2. /\ mem'.uid = obj.uid /\ mem'.gen = obj.gen /\ mem'.spec = obj.spec
      /\ AboutItsGeneration(mem') /\ Earned(mem'.status)
      /\ Explained(mem'.status)
  BY <1>1, WithSpecErrorFacts
<1>3. CopyIsCurrent'
  BY <1>1, <1>2 DEF CopyIsCurrent
<1>4. StageInv'
  BY <1>1, <1>2 DEF StageInv, AboutItsGeneration, Earned, Explained, IsTrue
<1> QED BY <1>3, <1>4

\* A handler that reports: the copy keeps its identity, generation and spec,
\* its own condition backs its own field, the other conditions stay.
LEMMA ReportFacts ==
    ASSUME NEW obj \in Object, NEW status \in Status, NEW type \in CondTypes,
           NEW ready \in BOOLEAN, NEW part
    PROVE  LET new == WithReport(obj, status, type, ready, part)
           IN  /\ new.uid = obj.uid /\ new.gen = obj.gen
               /\ new.spec = obj.spec
               /\ new.status.scheduler = status.scheduler
               /\ new.status.workerPool = status.workerPool
               /\ Backed(new, ready, type)
               /\ \A t \in CondTypes \ {type} :
                    new.status.conditions[t] = status.conditions[t]
<1> DEFINE c == ReadyCondition(ready, "NotReady", part, obj.gen)
           s == [status EXCEPT !.conditions[type] = c]
           new == WithReport(obj, status, type, ready, part)
<1>0. new = [obj EXCEPT !.status = s]
  BY DEF WithReport
<1>1. c.status = (IF ready THEN "True" ELSE "False") /\ c.gen = obj.gen
  BY DEF ReadyCondition
<1> HIDE DEF c
<1>2. /\ s.conditions[type] = c
      /\ \A t \in CondTypes \ {type} : s.conditions[t] = status.conditions[t]
      /\ s.scheduler = status.scheduler /\ s.workerPool = status.workerPool
  BY DEF Status
<1>3. /\ new.uid = obj.uid /\ new.gen = obj.gen /\ new.spec = obj.spec
      /\ new.status = s
  BY <1>0 DEF Object
<1> HIDE DEF s, new
<1>4. Backed(new, ready, type)
  BY <1>1, <1>2, <1>3 DEF Backed
<1> QED BY <1>2, <1>3, <1>4 DEF new, s, c

\* A step keeps the invariant; one case per action.
LEMMA NextIInv == IInv /\ [Next]_vars => IInv'
<1> SUFFICES ASSUME IInv, [Next]_vars
             PROVE  /\ NewestIsCurrent' /\ PublishedInv'
                    /\ CopyIsCurrent' /\ StageInv'
  BY NextTypeOK DEF IInv
<1> USE DEF None, Due, Delayed
<1>1. /\ TypeOK /\ cluster \in Object /\ view \in Object /\ mem \in Object
      /\ stream \in Seq(Object)
  BY DEF IInv, TypeOK
<1>2. ASSUME NEW spec \in Specs, CreateCluster(spec)
      PROVE  /\ NewestIsCurrent' /\ PublishedInv' /\ CopyIsCurrent' /\ StageInv'
  <2> DEFINE obj == [exists |-> TRUE, uid |-> cluster.uid + 1, gen |-> 1,
                     spec |-> spec, status |-> EmptyStatus]
  <2>1. obj \in Object
    BY <1>1, UserObjectType
  <2>2. Earned(obj.status) /\ Explained(obj.status)
    BY DEF EmptyStatus, Earned, Explained, Absent, CondTypes
  <2>3. UserWrite(obj)
    BY <1>2 DEF CreateCluster
  <2> HIDE DEF obj
  <2> QED BY <2>1, <2>2, <2>3, UserWriteInv
<1>3. ASSUME NEW spec \in Specs, EditSpec(spec)
      PROVE  /\ NewestIsCurrent' /\ PublishedInv' /\ CopyIsCurrent' /\ StageInv'
  <2> DEFINE obj == [cluster EXCEPT !.gen = @ + 1, !.spec = spec]
  <2>1. obj \in Object
    BY <1>1, UserObjectType
  <2>2. obj.status = cluster.status
    BY <1>1 DEF Object
  <2>3. UserWrite(obj)
    BY <1>3 DEF EditSpec
  <2> HIDE DEF obj
  <2> QED BY <2>1, <2>2, <2>3, UserWriteInv DEF IInv, PublishedInv
<1>4. CASE DeleteCluster
  <2> DEFINE obj == [NoObject EXCEPT !.uid = cluster.uid]
  <2>1. PICK spec \in Specs : TRUE
    BY SpecsAssumption
  <2>2. obj \in Object
    BY <1>1, <2>1, UserObjectType
  <2>3. Earned(obj.status) /\ Explained(obj.status)
    BY DEF NoObject, EmptyStatus, Earned, Explained, Absent, CondTypes
  <2>4. UserWrite(obj)
    BY <1>4 DEF DeleteCluster
  <2> HIDE DEF obj
  <2> QED BY <2>2, <2>3, <2>4, UserWriteInv
<1>5. ASSUME NEW p \in Flapping, OwnedObjectChanges(p)
      PROVE  /\ NewestIsCurrent' /\ PublishedInv' /\ CopyIsCurrent' /\ StageInv'
  <2>1. UNCHANGED <<api, pc, mem, memFresh, cluster>>
    BY <1>5 DEF OwnedObjectChanges, api, local
  <2> QED BY <2>1, ApiUnchanged, OthersInv
<1>6. ASSUME NEW p \in Parts, BlockChanges(p)
      PROVE  /\ NewestIsCurrent' /\ PublishedInv' /\ CopyIsCurrent' /\ StageInv'
  <2>1. UNCHANGED <<api, pc, mem, memFresh, cluster>>
    BY <1>6 DEF BlockChanges, api, local
  <2> QED BY <2>1, ApiUnchanged, OthersInv
<1>7. CASE BeginNotFound \/ TimerFires \/ Resync \/ UNCHANGED vars
  <2>1. UNCHANGED <<api, pc, mem, memFresh, cluster>>
    BY <1>7 DEF BeginNotFound, TimerFires, Resync, vars, api, local
  <2> QED BY <2>1, ApiUnchanged, OthersInv
<1>8. CASE Begin
  <2>1. UNCHANGED api /\ cluster' = cluster
    BY <1>8 DEF Begin, api
  <2>2. memFresh' => view = cluster /\ cluster.exists
    BY <1>8 DEF Begin, IInv, NewestIsCurrent
  <2>3. CASE RecordSpecError(view, "Ready", "version")
    <3>1. /\ "Ready" \in CondTypes /\ "version" \in SpecFaults
          /\ "Ready" = OwnCondition("version")
      BY DEF CondTypes, SpecFaults, OwnCondition
    <3>2. CopyIsCurrent' /\ StageInv'
      BY <1>1, <2>1, <2>2, <2>3, <3>1, RecordSpecErrorInv
    <3> QED BY <2>1, <3>2, ApiUnchanged
  <2>4. CASE mem' = view /\ Goto("serviceAccounts")
    <3>1. CopyIsCurrent' /\ StageInv'
      BY <2>1, <2>2, <2>4 DEF Goto, CopyIsCurrent, StageInv
    <3> QED BY <2>1, <3>1, ApiUnchanged
  <2> QED BY <1>8, <2>3, <2>4 DEF Begin
<1>9. ASSUME NEW p \in {"serviceAccounts", "services"},
             NEW next \in {"scheduler", "workers"},
             PlainHandler(p, next), p = "serviceAccounts" => next = "scheduler"
      PROVE  /\ NewestIsCurrent' /\ PublishedInv' /\ CopyIsCurrent' /\ StageInv'
  <2>1. UNCHANGED <<api, memFresh>> /\ cluster' = cluster /\ pc = p
    BY <1>9 DEF PlainHandler, api
  <2>2. CASE RecordSpecError(mem, "Ready", p)
    <3>1. "Ready" \in CondTypes /\ p \in SpecFaults /\ "Ready" = OwnCondition(p)
      BY DEF CondTypes, SpecFaults, Parts, OwnCondition
    <3>2. CopyIsCurrent' /\ StageInv'
      BY <1>1, <2>1, <2>2, <3>1, RecordSpecErrorInv DEF IInv, CopyIsCurrent
    <3> QED BY <2>1, <3>2, ApiUnchanged
  <2>3. CASE Goto(next) /\ UNCHANGED <<mem, events>>
    <3>1. mem' = mem /\ pc' = next
      BY <2>3 DEF Goto
    <3>2. CopyIsCurrent'
      BY <2>1, <3>1 DEF IInv, CopyIsCurrent
    <3>3. StageInv'
      BY <1>9, <2>1, <3>1 DEF IInv, StageInv, Backed
    <3> QED BY <2>1, <3>2, <3>3, ApiUnchanged
  <2> QED BY <1>9, <2>2, <2>3 DEF PlainHandler
<1>10. CASE ReconcileServiceAccounts \/ ReconcileServices
  BY <1>9, <1>10 DEF ReconcileServiceAccounts, ReconcileServices
<1>11. CASE ReconcileScheduler
  <2> DEFINE ok == health["scheduler"] = "ok"
             status == [mem.status EXCEPT !.scheduler = ok]
  <2>1. UNCHANGED <<api, memFresh>> /\ cluster' = cluster /\ pc = "scheduler"
    BY <1>11 DEF ReconcileScheduler, ReportingHandler, api
  <2>2. CASE RecordSpecError(mem, "SchedulerReady", "scheduler")
    <3>1. /\ "SchedulerReady" \in CondTypes /\ "scheduler" \in SpecFaults
          /\ "SchedulerReady" = OwnCondition("scheduler")
      BY DEF CondTypes, SpecFaults, Parts, OwnCondition
    <3>2. CopyIsCurrent' /\ StageInv'
      BY <1>1, <2>1, <2>2, <3>1, RecordSpecErrorInv DEF IInv, CopyIsCurrent
    <3> QED BY <2>1, <3>2, ApiUnchanged
  <2>3. CASE ~SpecErrorIn("scheduler")
    <3>1. /\ mem' = WithReport(mem, status, "SchedulerReady", ok, "scheduler")
          /\ pc' = "services"
      BY <1>11, <2>3 DEF ReconcileScheduler, ReportingHandler, Goto
    <3>2. status \in Status /\ status.scheduler = ok
      BY <1>1 DEF Object, Status
    <3>3. "SchedulerReady" \in CondTypes /\ ok \in BOOLEAN
      BY DEF CondTypes
    <3> HIDE DEF ok, status
    <3>4. /\ mem'.uid = mem.uid /\ mem'.gen = mem.gen /\ mem'.spec = mem.spec
          /\ mem'.status.scheduler = ok
          /\ Backed(mem', ok, "SchedulerReady")
      BY <1>1, <3>1, <3>2, <3>3, ReportFacts
    <3>5. CopyIsCurrent'
      BY <2>1, <3>1, <3>4 DEF IInv, CopyIsCurrent
    <3>6. StageInv'
      BY <3>1, <3>4 DEF StageInv, Backed
    <3> QED BY <2>1, <3>5, <3>6, ApiUnchanged
  <2> QED BY <1>11, <2>2, <2>3 DEF ReconcileScheduler, ReportingHandler
<1>12. CASE ReconcileWorkerPool
  <2> DEFINE ok == health["workers"] = "ok"
             status == [mem.status EXCEPT !.workerPool = ok]
  <2>1. UNCHANGED <<api, memFresh>> /\ cluster' = cluster /\ pc = "workers"
    BY <1>12 DEF ReconcileWorkerPool, ReportingHandler, api
  <2>2. CASE RecordSpecError(mem, "WorkerPoolReady", "workers")
    <3>1. /\ "WorkerPoolReady" \in CondTypes /\ "workers" \in SpecFaults
          /\ "WorkerPoolReady" = OwnCondition("workers")
      BY DEF CondTypes, SpecFaults, Parts, OwnCondition
    <3>2. CopyIsCurrent' /\ StageInv'
      BY <1>1, <2>1, <2>2, <3>1, RecordSpecErrorInv DEF IInv, CopyIsCurrent
    <3> QED BY <2>1, <3>2, ApiUnchanged
  <2>3. CASE ~SpecErrorIn("workers")
    <3>1. /\ mem' = WithReport(mem, status, "WorkerPoolReady", ok, "workers")
          /\ pc' = "routes"
      BY <1>12, <2>3 DEF ReconcileWorkerPool, ReportingHandler, Goto
    <3>2. /\ status \in Status /\ status.workerPool = ok
          /\ status.scheduler = mem.status.scheduler
          /\ status.conditions = mem.status.conditions
      BY <1>1 DEF Object, Status
    <3>3. /\ "WorkerPoolReady" \in CondTypes /\ ok \in BOOLEAN
          /\ "SchedulerReady" \in CondTypes \ {"WorkerPoolReady"}
      BY DEF CondTypes
    <3> HIDE DEF ok, status
    <3>4. /\ mem'.uid = mem.uid /\ mem'.gen = mem.gen /\ mem'.spec = mem.spec
          /\ mem'.status.scheduler = mem.status.scheduler
          /\ mem'.status.workerPool = ok
          /\ mem'.status.conditions["SchedulerReady"]
                = mem.status.conditions["SchedulerReady"]
          /\ Backed(mem', ok, "WorkerPoolReady")
      BY <1>1, <3>1, <3>2, <3>3, ReportFacts
    <3>5. CopyIsCurrent'
      BY <2>1, <3>1, <3>4 DEF IInv, CopyIsCurrent
    <3>6. StageInv'
      BY <2>1, <3>1, <3>4 DEF IInv, StageInv, Backed
    <3> QED BY <2>1, <3>5, <3>6, ApiUnchanged
  <2> QED BY <1>12, <2>2, <2>3 DEF ReconcileWorkerPool, ReportingHandler
<1>13. CASE ReconcileRoutes
  <2>1. /\ UNCHANGED <<api, memFresh>> /\ cluster' = cluster
        /\ mem' = WithVerdict(mem, health["routes"])
        /\ pc = "routes" /\ pc' = "update"
    BY <1>13 DEF ReconcileRoutes, Goto, api
  <2>2. health["routes"] \in Verdicts
    BY <1>1 DEF TypeOK, Parts
  <2>3. /\ mem'.uid = mem.uid /\ mem'.gen = mem.gen /\ mem'.spec = mem.spec
        /\ AboutItsGeneration(mem') /\ Earned(mem'.status)
        /\ Explained(mem'.status)
    BY <1>1, <2>1, <2>2, WithVerdictFacts DEF IInv, StageInv
  <2>4. CopyIsCurrent'
    BY <2>1, <2>3 DEF IInv, CopyIsCurrent
  <2>5. StageInv'
    BY <2>1, <2>3 DEF StageInv, AboutItsGeneration, Earned, Explained, IsTrue
  <2> QED BY <2>1, <2>4, <2>5, ApiUnchanged
<1>14. CASE TransientError \/ UpdateRefused \/ Emit
  <2>1. UNCHANGED api /\ Return
    BY <1>14 DEF TransientError, UpdateRefused, Emit, ReturnError
  <2> QED BY <2>1, ApiUnchanged, ReturnInv
<1>15. CASE UpdateStatus
  <2>1. WriteStatus /\ memFresh' = FALSE /\ pc = "update" /\ pc' = "emit"
    BY <1>15 DEF UpdateStatus, Goto
  <2>2. CopyIsCurrent' /\ StageInv'
    BY <2>1 DEF CopyIsCurrent, StageInv
  <2> QED BY <2>1, <2>2, WriteStatusInv DEF IInv, StageInv
<1>16. CASE UpdateErrorStatus
  <2>1. WriteStatus /\ Return /\ pc = "updateError"
    BY <1>16 DEF UpdateErrorStatus
  <2> QED BY <2>1, WriteStatusInv, ReturnInv DEF IInv, StageInv
<1>17. CASE UpdateFails
  <2>1. /\ UNCHANGED api \/ WriteStatus
        /\ Return /\ pc \in {"update", "updateError"}
    BY <1>17 DEF UpdateFails, ReturnError
  <2> QED BY <2>1, ApiUnchanged, WriteStatusInv, ReturnInv DEF IInv, StageInv
<1>18. CASE Crash
  <2>1. cluster' = cluster /\ view' = cluster /\ stream' = <<>> /\ Return
    BY <1>18 DEF Crash
  <2>2. NewestIsCurrent' /\ PublishedInv'
    BY <2>1 DEF IInv, NewestIsCurrent, PublishedInv
  <2> QED BY <2>1, <2>2, ReturnInv
<1>19. CASE DeliverWatch
  <2>1. /\ stream # <<>> /\ view' = stream[1] /\ stream' = Tail(stream)
        /\ cluster' = cluster /\ UNCHANGED <<pc, mem, memFresh>>
    BY <1>1, <1>19 DEF DeliverWatch, local
  <2>2. /\ Len(stream) \in Nat \ {0}
        /\ Len(stream') = Len(stream) - 1
        /\ \A i \in 1..Len(stream') : stream'[i] = stream[i + 1]
        /\ DOMAIN stream' = 1..Len(stream') /\ DOMAIN stream = 1..Len(stream)
    BY <1>1, <2>1, HeadTailProperties, EmptySeq, LenProperties
  <2>3. NewestIsCurrent'
    <3>1. stream[Len(stream)] = cluster
      BY <2>1 DEF IInv, NewestIsCurrent
    <3>2. CASE stream' = <<>>
      <4>1. Len(stream') = 0
        BY <3>2
      <4>2. Len(stream) = 1
        BY <2>2, <4>1
      <4> QED BY <2>1, <3>1, <3>2, <4>2 DEF NewestIsCurrent
    <3>3. CASE stream' # <<>>
      <4>1. stream' \in Seq(Object)
        BY <1>1, <2>1, HeadTailProperties
      <4>2. Len(stream') \in 1..Len(stream')
        BY <1>1, <3>3, <4>1, EmptySeq, LenProperties
      <4>3. stream'[Len(stream')] = stream[Len(stream)]
        BY <2>2, <4>2
      <4> QED BY <2>1, <3>1, <3>3, <4>3 DEF NewestIsCurrent
    <3> QED BY <3>2, <3>3
  <2>4. PublishedInv'
    <3>1. /\ Earned(stream[1].status) /\ Earned(cluster.status)
          /\ Explained(cluster.status)
      BY <2>1, <2>2 DEF IInv, PublishedInv
    <3>2. ASSUME NEW i \in DOMAIN stream'
          PROVE  Earned(stream'[i].status)
      <4>1. i \in 1..Len(stream') /\ i + 1 \in DOMAIN stream
        BY <2>2, <3>2
      <4> QED BY <2>2, <4>1 DEF IInv, PublishedInv
    <3> QED BY <2>1, <3>1, <3>2 DEF PublishedInv
  <2> QED BY <2>1, <2>3, <2>4, OthersInv
<1> QED
  BY <1>2, <1>3, <1>4, <1>5, <1>6, <1>7, <1>8, <1>10, <1>11, <1>12, <1>13,
     <1>14, <1>15, <1>16, <1>17, <1>18, <1>19
  DEF Next, User, OwnedObjects, Worker, Faults

\* The invariant holds in every reachable state.
THEOREM Invariance == Spec => []IInv
BY InitIInv, NextIInv, PTL DEF Spec

\* A published Ready=True is backed by every other condition, all of one
\* generation, however passes, edits, failed updates and crashes interleave.
THEOREM ReadyEarned == Spec => []ReadyIsEarned
<1>1. IInv => ReadyIsEarned
  BY DEF IInv, PublishedInv, ReadyIsEarned
<1> QED BY <1>1, Invariance, PTL

\* A published Ready=False names a part that is down for the same generation,
\* and after a full pass the first one that is: Reconcile's order of blame.
THEOREM NotReadyExplained == Spec => []NotReadyIsExplained
<1>1. IInv => NotReadyIsExplained
  BY DEF IInv, PublishedInv, NotReadyIsExplained, Explained, Cond
<1> QED BY <1>1, Invariance, PTL

-----------------------------------------------------------------------------
(***************************************************************************)
(* The action property: who may change the status, and to what.            *)
(***************************************************************************)

\* What StatusIsNeverStale says of one step.
NotStale ==
    cluster'.exists /\ cluster'.uid = cluster.uid
      /\ cluster'.status # cluster.status
    => /\ mem.uid = cluster.uid
       /\ cluster'.gen = cluster.gen
       /\ cluster'.status.observedGeneration = cluster.gen
       /\ cluster'.status.conditions["Ready"].gen = cluster.gen

\* A status update that passes the resourceVersion check is about the
\* generation it lands on.
LEMMA WriteStatusNotStale ==
    ASSUME IInv, memFresh, WriteStatus, pc \in {"update", "updateError"}
    PROVE  NotStale
<1>1. /\ cluster \in Object /\ AboutItsGeneration(mem)
      /\ mem.uid = cluster.uid /\ mem.gen = cluster.gen
  BY DEF IInv, TypeOK, CopyIsCurrent, StageInv
<1>2. CASE mem.status = cluster.status
  BY <1>2 DEF WriteStatus, api, NotStale
<1>3. CASE mem.status # cluster.status
  <2>1. cluster' = [cluster EXCEPT !.status = mem.status]
    BY <1>3 DEF WriteStatus, Write
  <2>2. cluster'.gen = cluster.gen /\ cluster'.status = mem.status
    BY <1>1, <2>1 DEF Object
  <2> QED BY <1>1, <2>2 DEF NotStale, AboutItsGeneration
<1> QED BY <1>2, <1>3

\* One case per action that writes the cluster; the others leave it alone.
LEMMA NextNotStale == IInv /\ [Next]_vars => NotStale
<1> SUFFICES ASSUME IInv, [Next]_vars PROVE NotStale
  OBVIOUS
<1>1. cluster \in Object
  BY DEF IInv, TypeOK
<1>2. ASSUME NEW spec \in Specs, CreateCluster(spec)
      PROVE  NotStale
  <2>1. cluster'.uid = cluster.uid + 1 /\ cluster.uid \in Nat
    BY <1>1, <1>2 DEF CreateCluster, UserWrite, Write, Object
  <2> QED BY <2>1 DEF NotStale
<1>3. ASSUME NEW spec \in Specs, EditSpec(spec)
      PROVE  NotStale
  <2>1. cluster'.status = cluster.status
    BY <1>1, <1>3 DEF EditSpec, UserWrite, Write, Object
  <2> QED BY <2>1 DEF NotStale
<1>4. CASE DeleteCluster
  <2>1. ~cluster'.exists
    BY <1>4 DEF DeleteCluster, UserWrite, Write, NoObject
  <2> QED BY <2>1 DEF NotStale
<1>5. CASE UpdateStatus \/ UpdateErrorStatus
  BY <1>5, WriteStatusNotStale DEF UpdateStatus, UpdateErrorStatus
<1>6. CASE UpdateFails
  <2>1. /\ pc \in {"update", "updateError"}
        /\ UNCHANGED api \/ (memFresh /\ WriteStatus)
    BY <1>6 DEF UpdateFails
  <2>2. CASE UNCHANGED api
    BY <2>2 DEF api, NotStale
  <2> QED BY <2>1, <2>2, WriteStatusNotStale
<1>7. CASE OwnedObjects
  <2>1. cluster' = cluster
    BY <1>7 DEF OwnedObjects, OwnedObjectChanges, BlockChanges, api
  <2> QED BY <2>1 DEF NotStale
<1>8. CASE \/ BeginNotFound \/ Begin
           \/ ReconcileServiceAccounts \/ ReconcileScheduler
           \/ ReconcileServices \/ ReconcileWorkerPool \/ ReconcileRoutes
           \/ UpdateRefused \/ Emit
  <2>1. cluster' = cluster
    BY <1>8 DEF BeginNotFound, Begin, ReconcileServiceAccounts,
       ReconcileScheduler, ReconcileServices, ReconcileWorkerPool,
       ReconcileRoutes, PlainHandler, ReportingHandler, UpdateRefused, Emit, api
  <2> QED BY <2>1 DEF NotStale
<1>9. CASE TransientError \/ Crash \/ TimerFires \/ DeliverWatch \/ Resync
           \/ UNCHANGED vars
  <2>1. cluster' = cluster
    BY <1>9 DEF TransientError, Crash, TimerFires, DeliverWatch, Resync, vars, api
  <2> QED BY <2>1 DEF NotStale
<1> QED
  BY <1>2, <1>3, <1>4, <1>5, <1>6, <1>7, <1>8, <1>9
  DEF Next, User, Worker, Faults

\* A pass over a stale cache never changes the status: what a step writes is
\* a verdict about the generation it lands on.
THEOREM StatusNeverStale == Spec => StatusIsNeverStale
<1>1. IInv /\ [Next]_vars => [NotStale]_vars
  BY NextNotStale
<1>2. Spec => [][NotStale]_vars
  BY <1>1, Invariance, PTL DEF Spec
<1> QED BY <1>2 DEF StatusIsNeverStale, NotStale

-----------------------------------------------------------------------------
(***************************************************************************)
(* Reconcile implements StatusPublisher.                                   *)
(***************************************************************************)

\* What a reader sees of an object.
Seen(obj) ==
    [exists |-> obj.exists, uid |-> obj.uid, gen |-> obj.gen]

\* The conditions a status says False of.
Down(status) ==
    {t \in CondTypes \ {"Ready"} : status.conditions[t].status = "False"}

Verdict(status) ==
    [ready |-> status.conditions["Ready"].status,
     gen |-> status.observedGeneration, down |-> Down(status)]

\* The refinement mapping reads nothing but the object in the API server.
LEMMA Mapping ==
    /\ Published!Init <=>
          /\ Seen(cluster) = [exists |-> FALSE, uid |-> 0, gen |-> 0]
          /\ Verdict(cluster.status) = Published!NoVerdict
    /\ Published!vars = <<Seen(cluster), Verdict(cluster.status)>>
BY DEF Published!Init, Published!vars, Published!NoVerdict, Seen, Verdict,
   Down, Cond

\* An empty status carries no verdict.
LEMMA EmptyIsNoVerdict ==
    Verdict(EmptyStatus) = [ready |-> "Absent", gen |-> 0, down |-> {}]
<1>1. /\ EmptyStatus.conditions = [t \in CondTypes |-> Absent]
      /\ EmptyStatus.observedGeneration = 0
  BY DEF EmptyStatus
<1>2. \A t \in CondTypes : EmptyStatus.conditions[t].status = "Absent"
  BY <1>1 DEF Absent
<1>3. Down(EmptyStatus) = {} /\ EmptyStatus.conditions["Ready"].status = "Absent"
  BY <1>2 DEF Down, CondTypes
<1> QED BY <1>1, <1>3 DEF Verdict

\* The initial states map to initial states.
LEMMA InitRefines == Init => Published!Init
<1> SUFFICES ASSUME Init PROVE Published!Init
  OBVIOUS
<1>1. cluster = NoObject
  BY DEF Init
<1>2. cluster.exists = FALSE /\ cluster.uid = 0 /\ cluster.gen = 0
      /\ cluster.status = EmptyStatus
  BY <1>1 DEF NoObject
<1> QED BY <1>2, EmptyIsNoVerdict, Mapping DEF Seen, Published!NoVerdict

\* A status that may be published is a verdict, and nothing is down in it
\* when it says Ready.
LEMMA PublishableVerdict ==
    ASSUME NEW obj \in Object, AboutItsGeneration(obj), Earned(obj.status)
    PROVE  /\ Verdict(obj.status) \in Published!Verdict
           /\ Verdict(obj.status).gen = obj.gen
           /\ Verdict(obj.status).ready = "True" => Verdict(obj.status).down = {}
<1>1. /\ obj.gen \in Nat /\ "Ready" \in CondTypes
      /\ obj.status.conditions \in [CondTypes -> Condition]
  BY DEF Object, Status, CondTypes
<1>2. \A t \in CondTypes : obj.status.conditions[t].status \in {"Absent", "True", "False"}
  BY <1>1 DEF Condition
<1>3. obj.status.conditions["Ready"].status \in {"True", "False"}
  BY <1>1, <1>2 DEF AboutItsGeneration
<1>4. Down(obj.status) \in SUBSET (CondTypes \ {"Ready"})
  BY DEF Down
<1>5. obj.status.observedGeneration = obj.gen
  BY DEF AboutItsGeneration
<1>6. obj.status.conditions["Ready"].status = "True" => Down(obj.status) = {}
  BY DEF Earned, Down, Absent
<1> HIDE DEF Object
<1> QED BY <1>1, <1>3, <1>4, <1>5, <1>6 DEF Verdict, Published!Verdict

\* A status update that passes the resourceVersion check publishes.
LEMMA WriteStatusRefines ==
    ASSUME IInv, memFresh, WriteStatus, pc \in {"update", "updateError"}
    PROVE  Published!Publish \/ cluster' = cluster
<1>1. /\ cluster \in Object /\ mem \in Object
      /\ cluster.exists /\ mem.gen = cluster.gen
      /\ AboutItsGeneration(mem) /\ Earned(mem.status)
  BY DEF IInv, TypeOK, CopyIsCurrent, StageInv
<1>2. CASE mem.status = cluster.status
  BY <1>2 DEF WriteStatus, api
<1>3. CASE mem.status # cluster.status
  <2>1. cluster' = [cluster EXCEPT !.status = mem.status]
    BY <1>3 DEF WriteStatus, Write
  <2>2. Seen(cluster') = Seen(cluster) /\ cluster'.status = mem.status
    BY <1>1, <2>1 DEF Object, Seen
  <2>3. /\ Verdict(mem.status) \in Published!Verdict
        /\ Verdict(mem.status).gen = cluster.gen
        /\ Verdict(mem.status).ready = "True" => Verdict(mem.status).down = {}
    BY <1>1, PublishableVerdict
  <2> HIDE DEF Object, IInv
  <2> QED BY <1>1, <2>2, <2>3
          DEF Published!Publish, Published!Verdict, Seen, Verdict, Down, Cond
<1> QED BY <1>2, <1>3

\* Every step of the loop, of users and of faults is a step of the publisher
\* or leaves what a reader sees alone.
LEMMA NextRefines == IInv /\ [Next]_vars => [Published!Next]_(Published!vars)
<1> SUFFICES ASSUME IInv, [Next]_vars
             PROVE  Published!Next \/ UNCHANGED Published!vars
  OBVIOUS
<1>1. cluster \in Object /\ cluster.uid \in Nat /\ cluster.gen \in Nat
  BY DEF IInv, TypeOK, Object
<1>2. ASSUME NEW spec \in Specs, CreateCluster(spec)
      PROVE  Published!Create
  <2>1. cluster' = [exists |-> TRUE, uid |-> cluster.uid + 1, gen |-> 1,
                    spec |-> spec, status |-> EmptyStatus]
    BY <1>2 DEF CreateCluster, UserWrite, Write
  <2>2. /\ Seen(cluster') = [exists |-> TRUE, uid |-> cluster.uid + 1, gen |-> 1]
        /\ cluster'.status = EmptyStatus /\ ~cluster.exists
    BY <1>2, <2>1 DEF CreateCluster, Seen
  <2> QED BY <2>2, EmptyIsNoVerdict
          DEF Published!Create, Published!NoVerdict, Seen, Verdict, Down, Cond
<1>3. ASSUME NEW spec \in Specs, EditSpec(spec)
      PROVE  Published!Edit
  <2>1. /\ cluster' = [cluster EXCEPT !.gen = cluster.gen + 1, !.spec = spec]
        /\ cluster.exists
    BY <1>3 DEF EditSpec, UserWrite, Write
  <2>2. /\ cluster'.exists = TRUE /\ cluster'.uid = cluster.uid
        /\ cluster'.gen = cluster.gen + 1 /\ cluster'.status = cluster.status
    BY <1>1, <2>1 DEF Object
  <2> QED BY <2>1, <2>2 DEF Published!Edit, Cond
<1>4. CASE DeleteCluster
  <2>1. cluster' = [NoObject EXCEPT !.uid = cluster.uid] /\ cluster.exists
    BY <1>4 DEF DeleteCluster, UserWrite, Write
  <2>2. /\ cluster'.exists = FALSE /\ cluster'.uid = cluster.uid
        /\ cluster'.gen = 0 /\ cluster'.status = EmptyStatus
    BY <2>1 DEF NoObject
  <2>3. Verdict(cluster'.status) = [ready |-> "Absent", gen |-> 0, down |-> {}]
    BY <2>2, EmptyIsNoVerdict
  <2>4. Published!Delete
    BY <2>1, <2>2, <2>3
    DEF Published!Delete, Published!NoVerdict, Verdict, Down, Cond
  <2> QED BY <2>4 DEF Published!Next
<1>5. CASE UpdateStatus \/ UpdateErrorStatus
  BY <1>5, WriteStatusRefines
  DEF UpdateStatus, UpdateErrorStatus, Published!Next, Published!vars, Cond
<1>6. CASE UpdateFails
  <2>1. /\ pc \in {"update", "updateError"}
        /\ UNCHANGED api \/ (memFresh /\ WriteStatus)
    BY <1>6 DEF UpdateFails
  <2> QED BY <2>1, WriteStatusRefines DEF Published!Next, Published!vars, Cond, api
<1>7. CASE \/ OwnedObjects \/ BeginNotFound \/ Begin
           \/ ReconcileServiceAccounts \/ ReconcileScheduler
           \/ ReconcileServices \/ ReconcileWorkerPool \/ ReconcileRoutes
           \/ UpdateRefused \/ Emit \/ TransientError \/ Crash
           \/ TimerFires \/ DeliverWatch \/ Resync \/ UNCHANGED vars
  <2>1. cluster' = cluster
    BY <1>7 DEF OwnedObjects, OwnedObjectChanges, BlockChanges, BeginNotFound,
       Begin, ReconcileServiceAccounts, ReconcileScheduler, ReconcileServices,
       ReconcileWorkerPool, ReconcileRoutes, PlainHandler, ReportingHandler,
       UpdateRefused, Emit, TransientError, Crash, TimerFires, DeliverWatch,
       Resync, vars, api
  <2> QED BY <2>1 DEF Published!vars, Cond
<1> QED
  BY <1>2, <1>3, <1>4, <1>5, <1>6, <1>7
  DEF Next, User, Worker, Faults, Published!Next

\* The reconcile loop implements StatusPublisher: behind cache, queue,
\* failing updates and crashes it only ever publishes verdicts about the
\* generation and incarnation they land on.
THEOREM Implements == Spec => PublishesStatus
BY InitRefines, NextRefines, Invariance, PTL
DEF Spec, PublishesStatus, Published!Spec

-----------------------------------------------------------------------------
(***************************************************************************)
(* No wake-up is lost.                                                     *)
(***************************************************************************)

\* The condition says of the part what its handler would say now.
Agrees(status, type, verdict) == IsTrue(status, type) <=> verdict = "ok"

\* As long as no event has come, what the pass has found is what it would find.
PassIsCurrent ==
    queue = None =>
        /\ pc \in {"services", "workers", "routes", "update"} =>
              Agrees(mem.status, "SchedulerReady", health["scheduler"])
        /\ pc \in {"routes", "update"} =>
              Agrees(mem.status, "WorkerPoolReady", health["workers"])
        /\ pc = "update" /\ mem.spec.routes =>
              Agrees(mem.status, "RoutesReady", health["routes"])

\* The status is about the present spec and, unless it reports a spec error,
\* about the present readiness.
StatusIsCurrent ==
    /\ cluster.status.observedGeneration = cluster.gen
    /\ Cond("Ready").reason # "SpecError" =>
          /\ Agrees(cluster.status, "SchedulerReady", health["scheduler"])
          /\ Agrees(cluster.status, "WorkerPoolReady", health["workers"])
          /\ cluster.spec.routes =>
                Agrees(cluster.status, "RoutesReady", health["routes"])

RestIsCurrent ==
    pc \in {"idle", "emit"} /\ queue = None /\ stream = <<>> /\ cluster.exists =>
        StatusIsCurrent

ErrorIsRecorded ==
    pc = "updateError" => mem.status.conditions["Ready"].reason = "SpecError"

QuietInv == IInv /\ PassIsCurrent /\ RestIsCurrent /\ ErrorIsRecorded

\* What recordSpecError leaves behind, before the update.
LEMMA SpecErrorStep ==
    ASSUME NEW obj \in Object, NEW part \in SpecFaults, NEW type,
           type = OwnCondition(part), RecordSpecError(obj, type, part)
    PROVE  /\ pc' = "updateError" /\ mem'.uid = obj.uid
           /\ mem'.status.conditions["Ready"].reason = "SpecError"
           /\ ~IsTrue(mem'.status, "Ready")
<1>1. type \in CondTypes
  BY DEF OwnCondition, CondTypes
<1> QED BY <1>1, WithSpecErrorFacts DEF RecordSpecError, Goto, IsTrue

\* How a handler may end: it records a spec error, or the next one is called with
\* a status that says what the handler has found.
RecordsSpecError ==
    /\ pc' = "updateError" /\ mem'.uid = mem.uid
    /\ mem'.status.conditions["Ready"].reason = "SpecError"
    /\ ~IsTrue(mem'.status, "Ready")
    /\ told' = IF mem.uid = cluster.uid THEN "warned" ELSE told
    /\ missed' = IF mem.uid = cluster.uid THEN FALSE ELSE missed

Proceeds(next) ==
    /\ pc' = next /\ mem'.uid = mem.uid /\ mem'.spec = mem.spec
    /\ UNCHANGED events

LEMMA HandlerError ==
    ASSUME TypeOK, NEW part \in SpecFaults, NEW type,
           type = OwnCondition(part), RecordSpecError(mem, type, part)
    PROVE  RecordsSpecError
<1>1. mem \in Object
  BY DEF TypeOK
<1>2. /\ told' = IF mem.uid = cluster.uid THEN "warned" ELSE told
      /\ missed' = IF mem.uid = cluster.uid THEN FALSE ELSE missed
  BY DEF RecordSpecError
<1> QED BY <1>1, <1>2, SpecErrorStep DEF RecordsSpecError

Outside == <<api, queue, health, memFresh, wasReady>>

LEMMA PlainSteps ==
    ASSUME TypeOK, ReconcileServiceAccounts \/ ReconcileServices
    PROVE  /\ UNCHANGED Outside
           /\ \/ RecordsSpecError
              \/ pc = "serviceAccounts" /\ mem' = mem /\ Proceeds("scheduler")
              \/ pc = "services" /\ mem' = mem /\ Proceeds("workers")
<1>1. ASSUME NEW part \in {"serviceAccounts", "services"},
             RecordSpecError(mem, "Ready", part)
      PROVE  RecordsSpecError
  <2>1. part \in SpecFaults /\ "Ready" = OwnCondition(part)
    BY DEF SpecFaults, Parts, OwnCondition
  <2> QED BY <1>1, <2>1, HandlerError
<1> QED BY <1>1 DEF ReconcileServiceAccounts, ReconcileServices, PlainHandler,
                    Outside, Proceeds, Goto

LEMMA SchedulerSteps ==
    ASSUME TypeOK, ReconcileScheduler
    PROVE  /\ UNCHANGED Outside
           /\ \/ RecordsSpecError
              \/ /\ Proceeds("services")
                 /\ Agrees(mem'.status, "SchedulerReady", health["scheduler"])
<1> DEFINE ok == health["scheduler"] = "ok"
           status == [mem.status EXCEPT !.scheduler = ok]
<1>1. UNCHANGED Outside
  BY DEF ReconcileScheduler, ReportingHandler, Outside
<1>2. CASE RecordSpecError(mem, "SchedulerReady", "scheduler")
  <2>1. "scheduler" \in SpecFaults /\ "SchedulerReady" = OwnCondition("scheduler")
    BY DEF SpecFaults, Parts, OwnCondition
  <2> QED BY <1>1, <1>2, <2>1, HandlerError
<1>3. CASE ~SpecErrorIn("scheduler")
  <2>1. /\ mem' = WithReport(mem, status, "SchedulerReady", ok, "scheduler")
        /\ pc' = "services" /\ UNCHANGED events
    BY <1>3 DEF ReconcileScheduler, ReportingHandler, Goto
  <2>2. mem \in Object /\ status \in Status
    BY DEF TypeOK, Object, Status
  <2>3. "SchedulerReady" \in CondTypes /\ ok \in BOOLEAN
    BY DEF CondTypes
  <2> HIDE DEF ok, status
  <2>4. /\ mem'.uid = mem.uid /\ mem'.spec = mem.spec
        /\ Backed(mem', ok, "SchedulerReady")
    BY <2>1, <2>2, <2>3, ReportFacts
  <2>5. IsTrue(mem'.status, "SchedulerReady") <=> ok
    BY <2>4 DEF Backed, IsTrue
  <2> QED BY <1>1, <2>1, <2>4, <2>5 DEF Proceeds, Agrees, ok
<1> QED BY <1>2, <1>3 DEF ReconcileScheduler, ReportingHandler

LEMMA WorkerPoolSteps ==
    ASSUME TypeOK, ReconcileWorkerPool
    PROVE  /\ UNCHANGED Outside
           /\ \/ RecordsSpecError
              \/ /\ Proceeds("routes") /\ pc = "workers"
                 /\ mem'.status.conditions["SchedulerReady"]
                       = mem.status.conditions["SchedulerReady"]
                 /\ Agrees(mem'.status, "WorkerPoolReady", health["workers"])
<1> DEFINE ok == health["workers"] = "ok"
           status == [mem.status EXCEPT !.workerPool = ok]
<1>1. UNCHANGED Outside /\ pc = "workers"
  BY DEF ReconcileWorkerPool, ReportingHandler, Outside
<1>2. CASE RecordSpecError(mem, "WorkerPoolReady", "workers")
  <2>1. "workers" \in SpecFaults /\ "WorkerPoolReady" = OwnCondition("workers")
    BY DEF SpecFaults, Parts, OwnCondition
  <2> QED BY <1>1, <1>2, <2>1, HandlerError
<1>3. CASE ~SpecErrorIn("workers")
  <2>1. /\ mem' = WithReport(mem, status, "WorkerPoolReady", ok, "workers")
        /\ pc' = "routes" /\ UNCHANGED events
    BY <1>3 DEF ReconcileWorkerPool, ReportingHandler, Goto
  <2>2. /\ mem \in Object /\ status \in Status
        /\ status.conditions = mem.status.conditions
    BY DEF TypeOK, Object, Status
  <2>3. /\ "WorkerPoolReady" \in CondTypes /\ ok \in BOOLEAN
        /\ "SchedulerReady" \in CondTypes \ {"WorkerPoolReady"}
    BY DEF CondTypes
  <2> HIDE DEF ok, status
  <2>4. /\ mem'.uid = mem.uid /\ mem'.spec = mem.spec
        /\ Backed(mem', ok, "WorkerPoolReady")
        /\ mem'.status.conditions["SchedulerReady"]
              = mem.status.conditions["SchedulerReady"]
    BY <2>1, <2>2, <2>3, ReportFacts
  <2>5. IsTrue(mem'.status, "WorkerPoolReady") <=> ok
    BY <2>4 DEF Backed, IsTrue
  <2> QED BY <1>1, <2>1, <2>4, <2>5 DEF Proceeds, Agrees, ok
<1> QED BY <1>2, <1>3 DEF ReconcileWorkerPool, ReportingHandler

LEMMA RoutesSteps ==
    ASSUME IInv, ReconcileRoutes
    PROVE  /\ UNCHANGED Outside /\ Proceeds("update") /\ pc = "routes"
           /\ \A t \in {"SchedulerReady", "WorkerPoolReady"} :
                 mem'.status.conditions[t] = mem.status.conditions[t]
           /\ mem.spec.routes => Agrees(mem'.status, "RoutesReady", health["routes"])
<1>1. /\ UNCHANGED <<Outside, events>> /\ pc = "routes" /\ pc' = "update"
      /\ mem' = WithVerdict(mem, health["routes"])
  BY DEF ReconcileRoutes, Outside, Goto
<1>2. mem \in Object /\ health["routes"] \in Verdicts
  BY DEF IInv, TypeOK, Parts
<1>3. /\ mem'.uid = mem.uid /\ mem'.spec = mem.spec
      /\ \A t \in {"SchedulerReady", "WorkerPoolReady"} :
            mem'.status.conditions[t] = mem.status.conditions[t]
      /\ mem'.status.conditions["RoutesReady"] = RoutesCondition(mem, health["routes"])
  BY <1>1, <1>2, WithVerdictFacts DEF IInv, StageInv
<1>4. mem.spec.routes => Agrees(mem'.status, "RoutesReady", health["routes"])
  BY <1>3 DEF Agrees, IsTrue, RoutesCondition, ReadyCondition
<1> QED BY <1>1, <1>3, <1>4 DEF Proceeds

\* A rejection or a conflict that comes or goes makes no part ready.
LEMMA BlocksAreNotOk ==
    ASSUME TypeOK, NEW p \in Parts, BlockChanges(p),
           NEW q \in {"scheduler", "workers", "routes"}
    PROVE  health'[q] = "ok" <=> health[q] = "ok"
<1>1. q \in Parts
  BY DEF Parts
<1>2. q = p => health[q] # "ok" /\ health'[q] # "ok"
  BY <1>1 DEF BlockChanges, Blocks, Idle, TypeOK
<1>3. q # p => health'[q] = health[q]
  BY <1>1 DEF BlockChanges, TypeOK
<1> QED BY <1>2, <1>3

\* A status update that changes nothing finds the status as the pass has left it.
LEMMA UnchangedStatus ==
    ASSUME TypeOK, WriteStatus, stream' = <<>>
    PROVE  mem.status = cluster.status /\ UNCHANGED api
<1>1. ASSUME NEW obj, obj \in Object, Write(obj) PROVE FALSE
  <2>1. stream \in Seq(Object) /\ stream' = Append(stream, obj)
    BY <1>1 DEF TypeOK, Write
  <2>2. Len(stream) \in Nat /\ Len(stream') = Len(stream) + 1
    BY <1>1, <2>1
  <2>3. Len(stream') = 0
    BY EmptySeq
  <2> QED BY <2>2, <2>3
<1>2. [cluster EXCEPT !.status = mem.status] \in Object
  BY DEF TypeOK, Object
<1> QED BY <1>1, <1>2 DEF WriteStatus

LEMMA UserSteps ==
    ASSUME TypeOK, User
    PROVE  stream' # <<>> /\ memFresh' = FALSE /\ view' = view
           /\ UNCHANGED <<queue, health, pc, mem, wasReady, conflict>>
<1>1. ASSUME NEW obj \in Object, UserWrite(obj)
      PROVE  stream' # <<>> /\ memFresh' = FALSE /\ view' = view
             /\ UNCHANGED <<queue, health, pc, mem, wasReady, conflict>>
  <2>1. stream \in Seq(Object) /\ stream' = Append(stream, obj)
    BY <1>1 DEF TypeOK, UserWrite, Write
  <2>2. Len(stream) \in Nat /\ Len(stream') = Len(stream) + 1
    BY <2>1
  <2>3. stream' # <<>>
    BY <2>2, EmptySeq
  <2> QED BY <1>1, <2>3 DEF UserWrite, Write
<1>2. cluster \in Object
  BY DEF TypeOK
<1>3. PICK spec \in Specs : TRUE
  BY SpecsAssumption
<1>4. CASE DeleteCluster
  BY <1>1, <1>2, <1>3, <1>4, UserObjectType DEF DeleteCluster
<1>5. ASSUME NEW s \in Specs, CreateCluster(s) \/ EditSpec(s)
      PROVE  stream' # <<>> /\ memFresh' = FALSE /\ view' = view
             /\ UNCHANGED <<queue, health, pc, mem, wasReady, conflict>>
  BY <1>1, <1>2, <1>5, UserObjectType DEF CreateCluster, EditSpec
<1> QED BY <1>4, <1>5 DEF User

\* The last thing a pass finds to be published already is current.
LEMMA NothingToWrite ==
    ASSUME QuietInv, memFresh, WriteStatus, stream' = <<>>,
           pc = "updateError" \/ (pc = "update" /\ queue = None)
    PROVE  StatusIsCurrent /\ UNCHANGED api
<1>1. mem.status = cluster.status /\ UNCHANGED api
  BY UnchangedStatus DEF QuietInv, IInv
<1>2. mem.gen = cluster.gen /\ mem.spec = cluster.spec
  BY DEF QuietInv, IInv, CopyIsCurrent
<1>3. cluster.status.observedGeneration = cluster.gen
  BY <1>1, <1>2 DEF QuietInv, IInv, StageInv, AboutItsGeneration
<1>4. CASE pc = "updateError"
  BY <1>1, <1>3, <1>4 DEF QuietInv, ErrorIsRecorded, StatusIsCurrent, Cond
<1>5. CASE pc = "update" /\ queue = None
  BY <1>1, <1>2, <1>3, <1>5 DEF QuietInv, PassIsCurrent, StatusIsCurrent
<1> QED BY <1>1, <1>4, <1>5

LEMMA NextQuiet ==
    ASSUME QuietInv, [Next]_vars
    PROVE  PassIsCurrent' /\ RestIsCurrent' /\ ErrorIsRecorded'
<1> DEFINE Goal == PassIsCurrent' /\ RestIsCurrent' /\ ErrorIsRecorded'
<1>0. TypeOK /\ IInv /\ PassIsCurrent /\ RestIsCurrent /\ ErrorIsRecorded
  BY DEF QuietInv, IInv
<1>1. ASSUME pc' = "idle", queue' # None PROVE Goal
  BY <1>1 DEF PassIsCurrent, RestIsCurrent, ErrorIsRecorded
<1>2. ASSUME UNCHANGED <<pc, mem>>, queue' # None PROVE Goal
  BY <1>0, <1>2 DEF PassIsCurrent, RestIsCurrent, ErrorIsRecorded
<1>3. ASSUME RecordsSpecError PROVE Goal
  BY <1>3 DEF RecordsSpecError, PassIsCurrent, RestIsCurrent, ErrorIsRecorded
<1>4. CASE User
  <2>1. stream' # <<>> /\ UNCHANGED <<queue, health, pc, mem>>
    BY <1>0, <1>4, UserSteps
  <2> QED BY <1>0, <2>1 DEF PassIsCurrent, RestIsCurrent, ErrorIsRecorded
<1>5. CASE (\E p \in Flapping : OwnedObjectChanges(p)) \/ TimerFires \/ DeliverWatch
              \/ Resync
  <2>1. UNCHANGED <<pc, mem>> /\ queue' # None
    BY <1>5 DEF OwnedObjectChanges, TimerFires, DeliverWatch, Resync, Enqueue, Due,
                None, local
  <2> QED BY <1>2, <2>1
<1>6. ASSUME NEW p \in Parts, BlockChanges(p) PROVE Goal
  <2>1. /\ UNCHANGED <<pc, mem, queue, cluster, stream>>
        /\ \A q \in {"scheduler", "workers", "routes"} :
              health'[q] = "ok" <=> health[q] = "ok"
    BY <1>0, <1>6, BlocksAreNotOk DEF BlockChanges, api, local
  <2>2. \A type, status : \A q \in {"scheduler", "workers", "routes"} :
           Agrees(status, type, health'[q]) <=> Agrees(status, type, health[q])
    BY <2>1 DEF Agrees
  <2>3. PassIsCurrent' /\ ErrorIsRecorded'
    BY <1>0, <2>1, <2>2 DEF PassIsCurrent, ErrorIsRecorded
  <2>4. RestIsCurrent'
    BY <1>0, <2>1, <2>2 DEF RestIsCurrent, StatusIsCurrent, Cond
  <2> QED BY <2>3, <2>4
<1>7. CASE BeginNotFound
  <2>1. pc' = "idle" /\ ~view.exists /\ UNCHANGED <<cluster, stream>>
    BY <1>7 DEF BeginNotFound, api
  <2>2. stream = <<>> => ~cluster.exists
    BY <1>0, <2>1 DEF IInv, NewestIsCurrent
  <2> QED BY <2>1, <2>2 DEF PassIsCurrent, RestIsCurrent, ErrorIsRecorded
<1>8. CASE Begin
  <2>1. CASE RecordSpecError(view, "Ready", "version")
    <3>1. /\ view \in Object /\ "version" \in SpecFaults
          /\ "Ready" = OwnCondition("version")
      BY <1>0 DEF TypeOK, SpecFaults, OwnCondition
    <3>2. pc' = "updateError" /\ mem'.status.conditions["Ready"].reason = "SpecError"
      BY <2>1, <3>1, SpecErrorStep
    <3> QED BY <3>2 DEF PassIsCurrent, RestIsCurrent, ErrorIsRecorded
  <2>2. CASE pc' = "serviceAccounts"
    BY <2>2 DEF PassIsCurrent, RestIsCurrent, ErrorIsRecorded
  <2> QED BY <1>8, <2>1, <2>2 DEF Begin, Goto
<1>9. CASE ReconcileServiceAccounts \/ ReconcileServices
  <2>1. /\ UNCHANGED Outside
        /\ \/ RecordsSpecError
           \/ pc' = "scheduler"
           \/ pc = "services" /\ mem' = mem /\ pc' = "workers"
    BY <1>0, <1>9, PlainSteps DEF Proceeds
  <2> QED BY <1>0, <1>3, <2>1
          DEF Outside, PassIsCurrent, RestIsCurrent, ErrorIsRecorded
<1>10. CASE ReconcileScheduler
  BY <1>0, <1>3, <1>10, SchedulerSteps
  DEF Proceeds, Outside, PassIsCurrent, RestIsCurrent, ErrorIsRecorded
<1>11. CASE ReconcileWorkerPool
  <2>1. /\ UNCHANGED Outside
        /\ \/ RecordsSpecError
           \/ /\ pc = "workers" /\ pc' = "routes"
              /\ IsTrue(mem'.status, "SchedulerReady")
                    <=> IsTrue(mem.status, "SchedulerReady")
              /\ Agrees(mem'.status, "WorkerPoolReady", health["workers"])
    BY <1>0, <1>11, WorkerPoolSteps DEF Proceeds, IsTrue
  <2> QED BY <1>0, <1>3, <2>1
          DEF Outside, PassIsCurrent, RestIsCurrent, ErrorIsRecorded, Agrees
<1>12. CASE ReconcileRoutes
  <2>1. /\ UNCHANGED Outside /\ pc = "routes" /\ pc' = "update"
        /\ mem'.spec = mem.spec
        /\ \A t \in {"SchedulerReady", "WorkerPoolReady"} :
              IsTrue(mem'.status, t) <=> IsTrue(mem.status, t)
        /\ mem.spec.routes => Agrees(mem'.status, "RoutesReady", health["routes"])
    BY <1>0, <1>12, RoutesSteps DEF Proceeds, IsTrue
  <2> QED BY <1>0, <2>1
          DEF Outside, PassIsCurrent, RestIsCurrent, ErrorIsRecorded, Agrees
<1>13. CASE TransientError \/ UpdateRefused \/ UpdateFails
  <2>1. pc' = "idle" /\ queue' # None
    BY <1>13 DEF TransientError, UpdateRefused, UpdateFails, ReturnError, Return,
                 AddAfter, Due, Delayed, None
  <2> QED BY <1>1, <2>1
<1>14. CASE UpdateStatus \/ UpdateErrorStatus
  <2>1. /\ memFresh /\ WriteStatus /\ pc' \in {"idle", "emit"}
        /\ UNCHANGED <<queue, health>> /\ pc \in {"update", "updateError"}
    BY <1>14 DEF UpdateStatus, UpdateErrorStatus, Goto, Return
  <2>2. ASSUME stream' = <<>>, queue' = None PROVE StatusIsCurrent'
    <3>1. StatusIsCurrent /\ UNCHANGED api
      BY <2>1, <2>2, NothingToWrite
    <3> QED BY <2>1, <3>1 DEF StatusIsCurrent, Cond, api
  <2> QED BY <2>1, <2>2 DEF PassIsCurrent, RestIsCurrent, ErrorIsRecorded
<1>15. CASE Emit
  <2>1. /\ pc = "emit" /\ pc' = "idle" /\ UNCHANGED <<cluster, stream, health>>
        /\ queue' = None => queue = None
    BY <1>15 DEF Emit, Return, AddAfter, Due, Delayed, None, api
  <2> QED BY <1>0, <2>1
          DEF PassIsCurrent, RestIsCurrent, ErrorIsRecorded, StatusIsCurrent, Cond
<1>16. CASE Crash
  <2>1. pc' = "idle" /\ (queue' # None \/ ~cluster'.exists)
    BY <1>16 DEF Crash, Return, Due, None
  <2> QED BY <2>1 DEF PassIsCurrent, RestIsCurrent, ErrorIsRecorded
<1>17. CASE UNCHANGED vars
  BY <1>0, <1>17 DEF vars, PassIsCurrent, RestIsCurrent, ErrorIsRecorded,
                     StatusIsCurrent, Cond
<1> QED BY <1>4, <1>5, <1>6, <1>7, <1>8, <1>9, <1>10, <1>11, <1>12, <1>13, <1>14,
           <1>15, <1>16, <1>17
        DEF Next, OwnedObjects, Worker, Faults

\* No wake-up of Reconcile is lost: once nothing is queued, in flight or running,
\* the status is about the current generation and, unless a spec error is
\* recorded, says of every part whether it is ready now.
THEOREM NoWakeUpIsLost == Spec => []QuiescentIsCurrent
<1>1. ASSUME Init PROVE QuietInv
  <2>1. IInv
    BY <1>1, InitIInv
  <2>2. PassIsCurrent /\ RestIsCurrent /\ ErrorIsRecorded
    BY <1>1 DEF Init, NoObject, PassIsCurrent, RestIsCurrent, ErrorIsRecorded
  <2> QED BY <2>1, <2>2 DEF QuietInv
<1>2. ASSUME QuietInv, [Next]_vars PROVE QuietInv'
  BY <1>2, NextIInv, NextQuiet DEF QuietInv
<1>3. ASSUME QuietInv PROVE QuiescentIsCurrent
  BY <1>3 DEF QuietInv, RestIsCurrent, StatusIsCurrent, Agrees, Settled,
              QuiescentIsCurrent
<1> QED BY <1>1, <1>2, <1>3, PTL DEF Spec

-----------------------------------------------------------------------------
(***************************************************************************)
(* Events.                                                                 *)
(***************************************************************************)

\* An event that may be the last one when the cluster is (not) ready.
Fits(event, ready) ==
    IF ready THEN event \in {"ready", "warned"} ELSE event # "ready"

\* No copy is of an incarnation still to come.
UidInv ==
    /\ mem.uid <= cluster.uid /\ view.uid <= cluster.uid
    /\ \A i \in DOMAIN stream : stream[i].uid <= cluster.uid

\* An unrefused copy knows whether the cluster is published as ready.
WasReadyInv == memFresh => (wasReady <=> IsTrue(cluster.status, "Ready"))

\* A spec error is announced before it is published.
WarnedInv ==
    pc = "updateError" => /\ ~IsTrue(mem.status, "Ready")
                          /\ memFresh => told = "warned"

\* Between the update and its event the last event fits the readiness before.
EmitInv ==
    pc = "emit" /\ mem.uid = cluster.uid /\ cluster.exists =>
        /\ IsTrue(cluster.status, "Ready") <=> IsTrue(mem.status, "Ready")
        /\ ~missed => Fits(told, wasReady)

EventInv ==
    IInv /\ UidInv /\ WasReadyInv /\ WarnedInv /\ EmitInv /\ EventsFollowReadiness

LEMMA WriteStatusFacts ==
    ASSUME TypeOK, WriteStatus
    PROVE  /\ cluster'.status = mem.status
           /\ cluster'.uid = cluster.uid /\ cluster'.exists = cluster.exists
<1>1. cluster \in Object /\ mem \in Object
  BY DEF TypeOK
<1> QED BY <1>1 DEF WriteStatus, Write, api, Object

LEMMA WriteUidInv ==
    ASSUME TypeOK, UidInv, NEW obj \in Object, Write(obj),
           obj.uid >= cluster.uid, mem'.uid \in {mem.uid, 0}
    PROVE  UidInv'
<1>1. /\ cluster' = obj /\ view' = view /\ stream' = Append(stream, obj)
      /\ stream \in Seq(Object)
  BY DEF Write, TypeOK
<1>2. /\ cluster.uid \in Nat /\ obj.uid \in Nat /\ mem.uid \in Nat /\ view.uid \in Nat
      /\ \A i \in DOMAIN stream : stream[i].uid \in Nat
  <2>1. \A i \in DOMAIN stream : stream[i] \in Object
    BY <1>1
  <2> QED BY <2>1 DEF TypeOK, Object
<1>3. /\ \A i \in DOMAIN stream' : i \in DOMAIN stream \/ stream'[i] = obj
      /\ \A i \in DOMAIN stream : stream'[i] = stream[i]
  BY <1>1, AppendProperties
<1>4. ASSUME NEW i \in DOMAIN stream' PROVE stream'[i].uid <= obj.uid
  <2>1. CASE stream'[i] = obj
    BY <1>2, <2>1
  <2>2. CASE i \in DOMAIN stream
    BY <1>2, <1>3, <2>2 DEF UidInv
  <2> QED BY <1>3, <2>1, <2>2
<1> QED BY <1>1, <1>2, <1>4 DEF UidInv

LEMMA NextUidInv ==
    ASSUME IInv, UidInv, [Next]_vars
    PROVE  UidInv'
<1>0. /\ TypeOK /\ cluster \in Object /\ mem \in Object /\ view \in Object
      /\ cluster.uid \in Nat /\ mem.uid \in Nat /\ view.uid \in Nat
      /\ stream \in Seq(Object)
  BY DEF IInv, TypeOK, Object
<1>1. ASSUME UNCHANGED api, mem'.uid \in {mem.uid, view.uid, 0} PROVE UidInv'
  BY <1>0, <1>1 DEF UidInv, api
<1>2. ASSUME Return PROVE mem'.uid = 0
  BY <1>2 DEF Return, NoObject
<1>3. ASSUME WriteStatus, mem'.uid \in {mem.uid, 0} PROVE UidInv'
  <2> DEFINE obj == [cluster EXCEPT !.status = mem.status]
  <2>1. obj \in Object /\ obj.uid = cluster.uid
    BY <1>0 DEF Object
  <2>2. obj.uid >= cluster.uid
    BY <1>0, <2>1
  <2>3. UNCHANGED api \/ Write(obj)
    BY <1>3 DEF WriteStatus
  <2> HIDE DEF obj
  <2> QED BY <1>0, <1>1, <1>3, <2>1, <2>2, <2>3, WriteUidInv
<1>4. CASE User
  <2>1. mem' = mem
    BY <1>0, <1>4, UserSteps
  <2>2. ASSUME NEW spec \in Specs, CreateCluster(spec) PROVE UidInv'
    <3> DEFINE obj == [exists |-> TRUE, uid |-> cluster.uid + 1, gen |-> 1,
                       spec |-> spec, status |-> EmptyStatus]
    <3>1. obj \in Object
      BY <1>0, <2>2, UserObjectType
    <3>2. Write(obj)
      BY <2>2 DEF CreateCluster, UserWrite
    <3>3. obj.uid >= cluster.uid
      BY <1>0
    <3> HIDE DEF obj
    <3> QED BY <1>0, <2>1, <3>1, <3>2, <3>3, WriteUidInv
  <2>3. ASSUME NEW spec \in Specs, EditSpec(spec) PROVE UidInv'
    <3> DEFINE obj == [cluster EXCEPT !.gen = @ + 1, !.spec = spec]
    <3>1. obj \in Object /\ Write(obj)
      BY <1>0, <2>3, UserObjectType DEF EditSpec, UserWrite
    <3>2. obj.uid = cluster.uid
      BY <1>0 DEF Object
    <3> HIDE DEF obj
    <3> QED BY <1>0, <2>1, <3>1, <3>2, WriteUidInv
  <2>4. CASE DeleteCluster
    <3> DEFINE obj == [NoObject EXCEPT !.uid = cluster.uid]
    <3>0. PICK spec \in Specs : TRUE
      BY SpecsAssumption
    <3>1. obj \in Object /\ Write(obj)
      BY <1>0, <2>4, <3>0, UserObjectType DEF DeleteCluster, UserWrite
    <3>2. obj.uid = cluster.uid
      BY DEF NoObject
    <3> HIDE DEF obj
    <3> QED BY <1>0, <2>1, <3>1, <3>2, WriteUidInv
  <2> QED BY <1>4, <2>2, <2>3, <2>4 DEF User
<1>5. CASE \/ OwnedObjects \/ BeginNotFound \/ TimerFires \/ Resync \/ UNCHANGED vars
  <2>1. UNCHANGED <<api, mem>>
    BY <1>5 DEF OwnedObjects, OwnedObjectChanges, BlockChanges, BeginNotFound,
                TimerFires, Resync, vars, api, local
  <2> QED BY <1>1, <2>1
<1>6. CASE Begin
  <2>1. "version" \in SpecFaults /\ "Ready" = OwnCondition("version")
    BY DEF SpecFaults, OwnCondition
  <2>2. UNCHANGED api /\ mem'.uid = view.uid
    BY <1>0, <1>6, <2>1, SpecErrorStep DEF Begin
  <2> QED BY <1>1, <2>2
<1>7. CASE \/ ReconcileServiceAccounts \/ ReconcileScheduler \/ ReconcileServices
           \/ ReconcileWorkerPool \/ ReconcileRoutes
  <2>1. UNCHANGED api /\ mem'.uid = mem.uid
    BY <1>0, <1>7, PlainSteps, SchedulerSteps, WorkerPoolSteps, RoutesSteps
    DEF RecordsSpecError, Proceeds, Outside
  <2> QED BY <1>1, <2>1
<1>8. CASE UpdateStatus \/ UpdateErrorStatus
  BY <1>2, <1>3, <1>8 DEF UpdateStatus, UpdateErrorStatus
<1>9. CASE TransientError \/ UpdateRefused \/ UpdateFails \/ Emit
  BY <1>1, <1>2, <1>3, <1>9 DEF TransientError, UpdateRefused, UpdateFails, Emit,
                                ReturnError
<1>10. CASE Crash
  <2>1. cluster' = cluster /\ view' = cluster /\ stream' = <<>> /\ mem'.uid = 0
    BY <1>2, <1>10 DEF Crash
  <2>2. DOMAIN stream' = {}
    BY <2>1
  <2> QED BY <1>0, <2>1, <2>2 DEF UidInv
<1>11. CASE DeliverWatch
  <2>1. /\ stream # <<>> /\ view' = stream[1] /\ stream' = Tail(stream)
        /\ cluster' = cluster /\ mem' = mem
    BY <1>0, <1>11 DEF DeliverWatch, local
  <2>2. /\ Len(stream) \in Nat \ {0}
        /\ Len(stream') = Len(stream) - 1
        /\ \A i \in 1..Len(stream') : stream'[i] = stream[i + 1]
        /\ DOMAIN stream' = 1..Len(stream') /\ DOMAIN stream = 1..Len(stream)
    BY <1>0, <2>1, HeadTailProperties, EmptySeq, LenProperties
  <2>3. ASSUME NEW i \in DOMAIN stream' PROVE stream'[i].uid <= cluster.uid
    <3>1. i \in 1..Len(stream') /\ i + 1 \in DOMAIN stream
      BY <2>2, <2>3
    <3> QED BY <2>2, <3>1 DEF UidInv
  <2>4. stream[1].uid <= cluster.uid
    BY <2>2 DEF UidInv
  <2> QED BY <2>1, <2>3, <2>4 DEF UidInv
<1> QED BY <1>4, <1>5, <1>6, <1>7, <1>8, <1>9, <1>10, <1>11 DEF Next, Worker, Faults

\* The parts of EventInv that speak about events.
EventParts == WasReadyInv /\ WarnedInv /\ EmitInv /\ EventsFollowReadiness

\* A pass that ends leaves the event to be about what is published.
LEMMA PassEnds ==
    ASSUME Return, cluster'.exists /\ ~missed' => Fits(told', IsTrue(cluster'.status, "Ready"))
    PROVE  EventParts'
BY DEF Return, EventParts, WasReadyInv, WarnedInv, EmitInv, EventsFollowReadiness, Fits

\* A handler that goes on, or that announces a spec error, keeps the events true.
LEMMA HandlerKeepsEvents ==
    ASSUME IInv, EventParts, pc \in Parts, UNCHANGED Outside,
           RecordsSpecError \/ \E next \in Parts \cup {"update"} : Proceeds(next)
    PROVE  EventParts'
<1>1. /\ pc # "emit" /\ pc # "updateError" /\ pc' # "emit"
      /\ UNCHANGED <<cluster, memFresh, wasReady>>
  BY DEF Parts, Outside, api, RecordsSpecError, Proceeds
<1>2. memFresh => mem.uid = cluster.uid
  BY DEF IInv, CopyIsCurrent
<1>3. WasReadyInv' /\ EmitInv'
  BY <1>1 DEF EventParts, WasReadyInv, EmitInv
<1>4. CASE RecordsSpecError
  <2>1. WarnedInv'
    BY <1>1, <1>2, <1>4 DEF RecordsSpecError, WarnedInv
  <2>2. EventsFollowReadiness'
    BY <1>1, <1>4 DEF RecordsSpecError, EventParts, EventsFollowReadiness
  <2> QED BY <1>3, <2>1, <2>2 DEF EventParts
<1>5. ASSUME NEW next \in Parts \cup {"update"}, Proceeds(next) PROVE EventParts'
  <2>1. pc' # "updateError" /\ UNCHANGED events
    BY <1>5 DEF Proceeds, Parts
  <2>2. WarnedInv' /\ EventsFollowReadiness'
    BY <1>1, <2>1 DEF events, EventParts, WarnedInv, EventsFollowReadiness
  <2> QED BY <1>3, <2>2 DEF EventParts
<1> QED BY <1>4, <1>5

LEMMA NextEventParts ==
    ASSUME EventInv, [Next]_vars
    PROVE  EventParts'
<1>0. /\ TypeOK /\ IInv /\ UidInv /\ EventParts
      /\ cluster \in Object /\ view \in Object /\ mem \in Object
      /\ wasReady \in BOOLEAN /\ missed \in BOOLEAN
  BY DEF EventInv, EventParts, IInv, TypeOK
<1>1. ASSUME UNCHANGED <<cluster, pc, mem, memFresh, wasReady, told, missed>>
      PROVE  EventParts'
  BY <1>0, <1>1 DEF EventParts, WasReadyInv, WarnedInv, EmitInv, EventsFollowReadiness
<1>2. pc # "emit" /\ cluster.exists /\ ~missed
         => Fits(told, IsTrue(cluster.status, "Ready"))
  BY <1>0 DEF EventParts, EventsFollowReadiness, Fits
<1>3. ASSUME NEW spec \in Specs, CreateCluster(spec) PROVE EventParts'
  <2>1. /\ cluster'.uid = cluster.uid + 1 /\ cluster'.status = EmptyStatus
        /\ told' = "none" /\ memFresh' = FALSE /\ UNCHANGED <<pc, mem, wasReady>>
    BY <1>3 DEF CreateCluster, UserWrite, Write
  <2>2. mem'.uid # cluster'.uid
    <3>1. cluster.uid \in Nat /\ mem.uid \in Nat
      BY <1>0 DEF Object
    <3> QED BY <1>0, <2>1, <3>1 DEF UidInv
  <2>3. ~IsTrue(cluster'.status, "Ready")
    BY <2>1 DEF IsTrue, EmptyStatus, CondTypes, Absent
  <2> QED BY <1>0, <2>1, <2>2, <2>3
          DEF EventParts, WasReadyInv, WarnedInv, EmitInv, EventsFollowReadiness
<1>4. ASSUME NEW spec \in Specs, EditSpec(spec) PROVE EventParts'
  <2>1. /\ cluster' = [cluster EXCEPT !.gen = @ + 1, !.spec = spec]
        /\ memFresh' = FALSE /\ UNCHANGED <<pc, mem, wasReady, told, missed>>
    BY <1>4 DEF EditSpec, UserWrite, Write, events
  <2>2. /\ cluster'.status = cluster.status /\ cluster'.uid = cluster.uid
        /\ cluster'.exists = cluster.exists
    BY <1>0, <2>1 DEF Object
  <2> QED BY <1>0, <2>1, <2>2
          DEF EventParts, WasReadyInv, WarnedInv, EmitInv, EventsFollowReadiness
<1>5. CASE DeleteCluster
  <2>1. /\ ~cluster'.exists /\ memFresh' = FALSE /\ UNCHANGED <<pc, mem, wasReady>>
    BY <1>5 DEF DeleteCluster, UserWrite, Write, NoObject
  <2> QED BY <1>0, <2>1
          DEF EventParts, WasReadyInv, WarnedInv, EmitInv, EventsFollowReadiness
<1>6. CASE \/ OwnedObjects \/ BeginNotFound \/ TimerFires \/ Resync \/ DeliverWatch
           \/ UNCHANGED vars
  <2>1. UNCHANGED <<cluster, pc, mem, memFresh, wasReady, told, missed>>
    BY <1>6 DEF OwnedObjects, OwnedObjectChanges, BlockChanges, BeginNotFound,
                TimerFires, Resync, DeliverWatch, vars, api, local, events
  <2> QED BY <1>1, <2>1
<1>7. CASE Begin
  <2>1. /\ pc = "idle" /\ cluster' = cluster
        /\ memFresh' => view = cluster
        /\ wasReady' = IsTrue(view.status, "Ready")
    BY <1>0, <1>7 DEF Begin, api, IInv, NewestIsCurrent
  <2>2. WasReadyInv'
    BY <2>1 DEF WasReadyInv
  <2>3. CASE RecordSpecError(view, "Ready", "version")
    <3>1. "version" \in SpecFaults /\ "Ready" = OwnCondition("version")
      BY DEF SpecFaults, OwnCondition
    <3>2. pc' = "updateError" /\ ~IsTrue(mem'.status, "Ready")
      BY <1>0, <2>3, <3>1, SpecErrorStep
    <3>3. /\ view.uid = cluster.uid => told' = "warned"
          /\ view.uid # cluster.uid => UNCHANGED <<told, missed>>
      BY <2>3 DEF RecordSpecError
    <3>4. WarnedInv' /\ EmitInv'
      BY <2>1, <3>2, <3>3 DEF WarnedInv, EmitInv
    <3>5. EventsFollowReadiness'
      BY <1>0, <2>1, <3>2, <3>3 DEF EventParts, EventsFollowReadiness
    <3> QED BY <2>2, <3>4, <3>5 DEF EventParts
  <2>4. CASE pc' = "serviceAccounts" /\ UNCHANGED events
    BY <1>0, <2>1, <2>2, <2>4
    DEF events, EventParts, WarnedInv, EmitInv, EventsFollowReadiness
  <2> QED BY <1>7, <2>3, <2>4 DEF Begin, Goto
<1>8. CASE ReconcileServiceAccounts \/ ReconcileServices
  <2>1. pc \in Parts
    BY <1>8 DEF ReconcileServiceAccounts, ReconcileServices, PlainHandler, Parts
  <2>2. "scheduler" \in Parts /\ "workers" \in Parts
    BY DEF Parts
  <2> QED BY <1>0, <1>8, <2>1, <2>2, PlainSteps, HandlerKeepsEvents
<1>9. CASE ReconcileScheduler
  <2>1. pc \in Parts /\ "services" \in Parts
    BY <1>9 DEF ReconcileScheduler, ReportingHandler, Parts
  <2> QED BY <1>0, <1>9, <2>1, SchedulerSteps, HandlerKeepsEvents
<1>10. CASE ReconcileWorkerPool
  <2>1. pc \in Parts /\ "routes" \in Parts
    BY <1>10 DEF ReconcileWorkerPool, ReportingHandler, Parts
  <2> QED BY <1>0, <1>10, <2>1, WorkerPoolSteps, HandlerKeepsEvents
<1>11. CASE ReconcileRoutes
  <2>1. pc \in Parts
    BY <1>11 DEF ReconcileRoutes, Parts
  <2> QED BY <1>0, <1>11, <2>1, RoutesSteps, HandlerKeepsEvents
<1>12. CASE TransientError \/ UpdateRefused
  <2>1. Return /\ pc # "emit" /\ UNCHANGED <<cluster, told, missed>>
    BY <1>12 DEF TransientError, UpdateRefused, ReturnError, Parts, api, events
  <2> QED BY <1>2, <2>1, PassEnds
<1>13. CASE UpdateStatus
  <2>1. /\ pc = "update" /\ pc' = "emit" /\ memFresh /\ WriteStatus
        /\ memFresh' = FALSE /\ UNCHANGED <<mem, wasReady, told, missed>>
    BY <1>13 DEF UpdateStatus, Goto, events
  <2>2. mem.uid = cluster.uid /\ (wasReady <=> IsTrue(cluster.status, "Ready"))
    BY <1>0, <2>1 DEF IInv, CopyIsCurrent, EventParts, WasReadyInv
  <2>3. /\ cluster'.status = mem.status /\ cluster'.uid = cluster.uid
        /\ cluster'.exists = cluster.exists
    BY <1>0, <2>1, WriteStatusFacts
  <2>4. cluster.exists /\ ~missed => Fits(told, wasReady)
    BY <1>0, <1>2, <2>1, <2>2 DEF Fits
  <2> QED BY <2>1, <2>2, <2>3, <2>4
          DEF EventParts, WasReadyInv, WarnedInv, EmitInv, EventsFollowReadiness
<1>14. ASSUME pc = "updateError", memFresh, WriteStatus, Return, told' = told
       PROVE  EventParts'
  <2>1. told = "warned"
    BY <1>0, <1>14 DEF EventParts, WarnedInv
  <2> QED BY <1>14, <2>1, PassEnds DEF Fits
<1>15. CASE UpdateErrorStatus
  BY <1>14, <1>15 DEF UpdateErrorStatus, events
<1>16. CASE UpdateFails
  <2>1. /\ Return /\ told' = told /\ pc \in {"update", "updateError"}
        /\ \/ UNCHANGED <<cluster, missed>>
           \/ /\ memFresh /\ WriteStatus
              /\ missed' = (missed \/ (pc = "update" /\ ReadyChanged))
    BY <1>16 DEF UpdateFails, ReturnError, api
  <2>2. CASE UNCHANGED <<cluster, missed>>
    BY <1>2, <2>1, <2>2, PassEnds
  <2>3. CASE memFresh /\ WriteStatus /\ pc = "updateError"
    BY <1>14, <2>1, <2>3
  <2>4. CASE /\ memFresh /\ WriteStatus /\ pc = "update"
             /\ missed' = (missed \/ (pc = "update" /\ ReadyChanged))
    <3>1. wasReady <=> IsTrue(cluster.status, "Ready")
      BY <1>0, <2>4 DEF EventParts, WasReadyInv
    <3>2. cluster'.status = mem.status /\ cluster'.exists = cluster.exists
      BY <1>0, <2>4, WriteStatusFacts
    <3>3. ~missed' => ~missed /\ (IsTrue(cluster'.status, "Ready")
                                     <=> IsTrue(cluster.status, "Ready"))
      BY <1>0, <2>4, <3>1, <3>2 DEF ReadyChanged, IsTrue
    <3>4. cluster'.exists /\ ~missed' => Fits(told', IsTrue(cluster'.status, "Ready"))
      BY <1>2, <2>1, <2>4, <3>2, <3>3 DEF Fits
    <3> QED BY <2>1, <3>4, PassEnds
  <2> QED BY <2>1, <2>2, <2>3, <2>4
<1>17. CASE Emit \/ Crash
  <2>1. Return /\ cluster' = cluster
    BY <1>17 DEF Emit, Crash, api
  <2>2. ASSUME cluster'.exists, ~missed'
        PROVE  Fits(told', IsTrue(cluster'.status, "Ready"))
    <3>1. CASE pc = "emit" /\ mem.uid = cluster.uid
      <4>1. /\ IsTrue(cluster.status, "Ready") <=> IsTrue(mem.status, "Ready")
            /\ ~missed => Fits(told, wasReady)
        BY <1>0, <2>1, <2>2, <3>1 DEF EventParts, EmitInv
      <4>2. \/ ReadyChanged /\ told' = IF wasReady THEN "notReady" ELSE "ready"
            \/ ~ReadyChanged /\ ~missed /\ told' = told
        BY <1>0, <1>17, <2>2, <3>1 DEF Emit, Crash, events
      <4>3. CASE ReadyChanged /\ told' = IF wasReady THEN "notReady" ELSE "ready"
        BY <1>0, <2>1, <4>1, <4>3 DEF ReadyChanged, IsTrue, Fits
      <4>4. CASE ~ReadyChanged /\ ~missed /\ told' = told
        BY <1>0, <2>1, <4>1, <4>4 DEF ReadyChanged, IsTrue, Fits
      <4> QED BY <4>2, <4>3, <4>4
    <3>2. CASE ~(pc = "emit" /\ mem.uid = cluster.uid)
      <4>1. told' = told /\ ~missed
        BY <1>0, <1>17, <2>2, <3>2 DEF Emit, Crash, events
      <4> QED BY <1>0, <2>1, <2>2, <3>2, <4>1
              DEF EventParts, EventsFollowReadiness, Fits
    <3> QED BY <3>1, <3>2
  <2> QED BY <2>1, <2>2, PassEnds
<1> QED BY <1>3, <1>4, <1>5, <1>6, <1>7, <1>8, <1>9, <1>10, <1>11, <1>12, <1>13,
           <1>15, <1>16, <1>17
        DEF Next, User, Worker, Faults

\* The events tell the truth: unless an event was lost, the last one about
\* readiness fits what is published, although Reconcile learns from its cache
\* what was published before, and writes before it announces.
THEOREM EventsAreTrue == Spec => []EventsFollowReadiness
<1>1. ASSUME Init PROVE EventInv
  <2>1. IInv
    BY <1>1, InitIInv
  <2>2. UidInv
    BY <1>1 DEF Init, NoObject, UidInv
  <2>3. WasReadyInv /\ WarnedInv /\ EmitInv /\ EventsFollowReadiness
    BY <1>1 DEF Init, NoObject, WasReadyInv, WarnedInv, EmitInv,
                EventsFollowReadiness
  <2> QED BY <2>1, <2>2, <2>3 DEF EventInv
<1>2. ASSUME EventInv, [Next]_vars PROVE EventInv'
  BY <1>2, NextIInv, NextUidInv, NextEventParts DEF EventInv, EventParts
<1>3. ASSUME EventInv PROVE EventsFollowReadiness
  BY <1>3 DEF EventInv
<1> QED BY <1>1, <1>2, <1>3, PTL DEF Spec

=============================================================================
