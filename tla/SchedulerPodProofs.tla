------------------------- MODULE SchedulerPodProofs -------------------------
(***************************************************************************)
(* Theorems about SchedulerPod, for every set of templates and of pod      *)
(* identities, every choice of what is rejected or fails, and all bounds.  *)
(***************************************************************************)
EXTENDS SchedulerPod, SequenceTheorems, TLAPS

-----------------------------------------------------------------------------
(* The inductive invariant. *)

\* The informer misses no version: the newest one it has or will get is what
\* the API server stores.
NewestIsCurrent ==
    IF podStream = <<>> THEN podView = pod
                        ELSE podStream[Len(podStream)] = pod

\* What a pass has read is what the caches hold, unless the key is queued
\* again: every delivery queues it.
ReadInv ==
    pc # "idle" /\ queue = "none" =>
        /\ mem = view
        /\ pc # "get" => existing = podView

\* What each stage may rely on of the pod it looked at.
StageInv ==
    /\ pc = "create" => ~existing.exists
    /\ pc = "delete" => existing.exists /\ ~existing.terminating
    /\ pc = "report" /\ queue = "none" /\ podStream = <<>> =>
            /\ existing.exists
            /\ existing.terminating \/ existing.hash = mem.hash
            /\ ready = existing.ready

SettledInv ==
    /\ NewestIsCurrent
    /\ ReadInv
    /\ StageInv
    /\ SettledMeansDone

\* What the informer still has to learn when nobody has interfered: a pod it
\* knows of goes on under the same identity and vanishes at most once, at the
\* end; after an absence there is one pod, and nobody takes it down.
OneIdentity ==
    /\ podView.exists => \A i \in 1..Len(podStream) :
            podStream[i].exists => podStream[i].uid = podView.uid
    /\ ~podView.exists => \A i \in 1..Len(podStream) :
            /\ podStream[i].exists
            /\ ~podStream[i].terminating
            /\ podStream[i].uid = pod.uid
    /\ \A i \in 1..Len(podStream) :
            ~podStream[i].exists => i = Len(podStream)

\* A pass that is about to create finds no pod, or one that stays; a pass that
\* is about to delete finds the pod it looked at, or none it could take down.
TargetInv ==
    /\ pc = "create" =>
        \/ ~pod.exists /\ ~podView.exists /\ podStream = <<>>
        \/ pod.exists /\ ~pod.terminating
    /\ pc = "delete" /\ pod.exists =>
        /\ podView.exists
        /\ pod.uid = existing.uid

IdentityInv == ~meddled => OneIdentity /\ TargetInv

-----------------------------------------------------------------------------
(* Types. *)

\* The absent pod is a pod value, and so is what the kubelet, an eviction or
\* a delete makes of a pod.
LEMMA PodValues ==
    /\ NoPod \in Pod
    /\ AnyTemplate \in Templates
    /\ \A p \in Pod :
          /\ [p EXCEPT !.ready = ~@] \in Pod
          /\ [p EXCEPT !.terminating = TRUE] \in Pod
          /\ [p EXCEPT !.failed = TRUE, !.ready = FALSE] \in Pod
<1>1. AnyUid \in Uids /\ AnyTemplate \in Templates
  BY SetsAssumption DEF AnyUid, AnyTemplate
<1> QED BY <1>1 DEF NoPod, Pod

\* Create asks for a pod.
LEMMA NewPodType ==
    ASSUME mem \in Cluster, NEW u \in Uids
    PROVE  NewPod(u) \in Pod
BY DEF NewPod, Pod, Cluster

\* A write stores a pod and leaves a stream of pods.
LEMMA WritePodType ==
    ASSUME TypeOK, NEW p \in Pod, WritePod(p)
    PROVE  pod' \in Pod /\ podView' \in Pod /\ podStream' \in Seq(Pod)
BY DEF TypeOK, WritePod

LEMMA ApplyDeleteType ==
    ASSUME TypeOK, ApplyDelete
    PROVE  pod' \in Pod /\ podView' \in Pod /\ podStream' \in Seq(Pod)
<1>1. pod \in Pod
  BY DEF TypeOK
<1>2. CASE WritePod([pod EXCEPT !.terminating = TRUE])
  BY <1>1, <1>2, PodValues, WritePodType
<1>3. CASE WritePod(NoPod)
  BY <1>3, PodValues, WritePodType
<1>4. CASE UNCHANGED pods
  BY <1>4 DEF TypeOK, pods
<1> QED BY <1>2, <1>3, <1>4 DEF ApplyDelete

\* A pass that ends forgets what it held.
LEMMA ForgetType ==
    ASSUME Forget
    PROVE  mem' \in Cluster /\ existing' \in Pod /\ ready' \in BOOLEAN
BY PodValues DEF Forget, Cluster

LEMMA ReturnErrorType ==
    ASSUME TypeOK, ReturnError
    PROVE  /\ mem' \in Cluster /\ existing' \in Pod /\ ready' \in BOOLEAN
           /\ queue' \in {"none", "due", "delayed"} /\ pc' = "idle"
BY ForgetType DEF ReturnError, AddAfter, TypeOK

LEMMA InitTypeOK == Init => TypeOK
<1> SUFFICES ASSUME Init PROVE TypeOK
  OBVIOUS
<1>1. podStream \in Seq(Pod)
  BY DEF Init
<1>2. PICK h \in Templates : cluster = [gen |-> 1, hash |-> h]
  BY DEF Init
<1>3. cluster \in Cluster /\ mem \in Cluster
  BY <1>2, PodValues DEF Init, Cluster
<1> QED BY <1>1, <1>3, PodValues DEF Init, TypeOK

LEMMA NextTypeOK == TypeOK /\ [Next]_vars => TypeOK'
<1> SUFFICES ASSUME TypeOK, [Next]_vars PROVE TypeOK'
  OBVIOUS
<1>1. CASE \E h \in Templates : EditTemplate(h)
  BY <1>1 DEF EditTemplate, TypeOK, Cluster, pods, local
<1>2. CASE PodReadiness
  <2>1. [pod EXCEPT !.ready = ~@] \in Pod
    BY PodValues DEF TypeOK
  <2> QED BY <1>2, <2>1, WritePodType
          DEF PodReadiness, OthersWritePod, TypeOK, clusters, local
<1>3. CASE PodGone
  BY <1>3, PodValues, WritePodType
  DEF PodGone, OthersWritePod, TypeOK, clusters, local
<1>4. CASE Evict
  <2>1. [pod EXCEPT !.terminating = TRUE] \in Pod
    BY PodValues DEF TypeOK
  <2> QED BY <1>4, <2>1, PodValues, WritePodType
          DEF Evict, OthersWritePod, TypeOK, clusters, local
<1>5. CASE PodFails
  <2>1. [pod EXCEPT !.failed = TRUE, !.ready = FALSE] \in Pod
    BY PodValues DEF TypeOK
  <2> QED BY <1>5, <2>1, WritePodType
          DEF PodFails, OthersWritePod, TypeOK, clusters, local
<1>6. CASE Begin
  BY <1>6 DEF Begin, TypeOK, clusters, pods
<1>7. CASE GetPod
  <2>1. podView.ready \in BOOLEAN
    BY DEF TypeOK, Pod
  <2>2. ready' \in BOOLEAN /\ pc' \in {"create", "delete", "report"}
    BY <1>7, <2>1 DEF GetPod
  <2> QED BY <1>7, <2>2 DEF GetPod, TypeOK, clusters, pods
<1>8. CASE CreatePod
  <2>1. PICK u \in Uids : WritePod(NewPod(u))
    BY <1>8 DEF CreatePod
  <2>2. NewPod(u) \in Pod
    BY NewPodType DEF TypeOK
  <2> QED BY <1>8, <2>1, <2>2, WritePodType
          DEF CreatePod, TypeOK, clusters, local
<1>9. CASE CreateAlreadyExists
  BY <1>9, ReturnErrorType DEF CreateAlreadyExists, TypeOK, clusters, pods
<1>10. CASE CreateRejected
  BY <1>10 DEF CreateRejected, TypeOK, clusters, pods, local
<1>11. CASE DeletePod
  <2>1. pod' \in Pod /\ podView' \in Pod /\ podStream' \in Seq(Pod)
    BY <1>11, ApplyDeleteType DEF DeletePod, TypeOK, pods
  <2> QED BY <1>11, <2>1 DEF DeletePod, TypeOK, clusters, local
<1>12. CASE Report
  BY <1>12, ForgetType DEF Report, TypeOK, Cluster, clusters, pods
<1>13. CASE ReportRefused
  BY <1>13, ReturnErrorType DEF ReportRefused, TypeOK, clusters, pods
<1>14. CASE RequestFails
  <2>1. CASE UNCHANGED pods
    BY <1>14, <2>1, ReturnErrorType DEF RequestFails, TypeOK, clusters, pods
  <2>2. CASE \E u \in Uids \ UidsInUse : WritePod(NewPod(u))
    <3>1. PICK u \in Uids : WritePod(NewPod(u))
      BY <2>2
    <3>2. NewPod(u) \in Pod
      BY NewPodType DEF TypeOK
    <3> QED BY <1>14, <3>1, <3>2, WritePodType, ReturnErrorType
            DEF RequestFails, TypeOK, clusters
  <2>3. CASE ApplyDelete
    BY <1>14, <2>3, ApplyDeleteType, ReturnErrorType
    DEF RequestFails, TypeOK, clusters
  <2> QED BY <1>14, <2>1, <2>2, <2>3 DEF RequestFails
<1>15. CASE ReportFails
  BY <1>15, ReturnErrorType DEF ReportFails, TypeOK, clusters, pods
<1>16. CASE Crash
  <2>1. podStream' \in Seq(Pod)
    BY <1>16 DEF Crash
  <2> QED BY <1>16, <2>1, ForgetType DEF Crash, Enqueue, TypeOK
<1>17. CASE TimerFires
  BY <1>17 DEF TimerFires, Enqueue, TypeOK, clusters, pods, local
<1>18. CASE OtherEvent
  BY <1>18 DEF OtherEvent, Enqueue, TypeOK, clusters, pods, local
<1>19. CASE DeliverCluster
  BY <1>19 DEF DeliverCluster, Enqueue, TypeOK, pods, local
<1>20. CASE DeliverPod
  <2>1. Head(podStream) \in Pod /\ Tail(podStream) \in Seq(Pod)
    BY <1>20 DEF DeliverPod, TypeOK
  <2> QED BY <1>20, <2>1 DEF DeliverPod, Enqueue, TypeOK, clusters, local
<1>21. CASE UNCHANGED vars
  BY <1>21 DEF vars, TypeOK
<1> QED BY <1>1, <1>2, <1>3, <1>4, <1>5, <1>6, <1>7, <1>8, <1>9, <1>10, <1>11,
           <1>12, <1>13, <1>14, <1>15, <1>16, <1>17, <1>18, <1>19, <1>20, <1>21
        DEF Next, Others, Worker

\* Every variable of the model holds a value of its kind, whatever the
\* templates, the identities and the bounds.
THEOREM TypeCorrect == Spec => []TypeOK
BY InitTypeOK, NextTypeOK, PTL DEF Spec

-----------------------------------------------------------------------------
(* The stream of versions. *)

\* A write adds one version, which is then the newest.
LEMMA WriteAppends ==
    ASSUME podStream \in Seq(Pod), NEW p \in Pod, WritePod(p)
    PROVE  /\ pod' = p /\ podView' = podView
           /\ podStream' # <<>>
           /\ Len(podStream') = Len(podStream) + 1
           /\ podStream'[Len(podStream) + 1] = p
           /\ \A i \in 1..Len(podStream) : podStream'[i] = podStream[i]
           /\ NewestIsCurrent'
<1>1. /\ podStream' = Append(podStream, p)
      /\ pod' = p /\ podView' = podView
  BY DEF WritePod
<1>2. /\ Len(podStream') = Len(podStream) + 1
      /\ podStream'[Len(podStream) + 1] = p
      /\ \A i \in 1..Len(podStream) : podStream'[i] = podStream[i]
  BY <1>1
<1>3. Len(podStream) \in Nat
  OBVIOUS
<1>4. podStream' # <<>>
  BY <1>2, <1>3
<1> QED BY <1>1, <1>2, <1>4 DEF NewestIsCurrent

\* A delivery moves the oldest version to the cache and loses none.
LEMMA DeliveryShifts ==
    ASSUME podStream \in Seq(Pod), podStream # <<>>,
           podView' = Head(podStream), podStream' = Tail(podStream)
    PROVE  /\ podView' = podStream[1]
           /\ Len(podStream) \in Nat \ {0}
           /\ Len(podStream') = Len(podStream) - 1
           /\ \A i \in 1..Len(podStream') : podStream'[i] = podStream[i + 1]
           /\ NewestIsCurrent /\ pod' = pod => NewestIsCurrent'
<1>1. podView' = podStream[1] /\ Len(podStream) \in Nat \ {0}
  OBVIOUS
<1>2. /\ podStream' \in Seq(Pod)
      /\ Len(podStream') = Len(podStream) - 1
      /\ \A i \in 1..Len(podStream') : podStream'[i] = podStream[i + 1]
  OBVIOUS
<1>3. ASSUME NewestIsCurrent, pod' = pod
      PROVE  NewestIsCurrent'
  <2>1. podStream[Len(podStream)] = pod
    BY <1>3 DEF NewestIsCurrent
  <2>2. CASE podStream' = <<>>
    <3>1. Len(podStream') = 0
      BY <2>2, EmptySeq
    <3>2. Len(podStream) = 1
      BY <1>1, <1>2, <3>1
    <3> QED BY <1>1, <1>3, <2>1, <2>2, <3>2 DEF NewestIsCurrent
  <2>3. CASE podStream' # <<>>
    <3>1. Len(podStream') # 0
      BY <1>2, <2>3
    <3>2. Len(podStream') \in 1..Len(podStream')
      BY <1>1, <1>2, <3>1
    <3>3. podStream'[Len(podStream')] = podStream[Len(podStream)]
      BY <1>1, <1>2, <3>2
    <3> QED BY <1>3, <2>1, <2>3, <3>3 DEF NewestIsCurrent
  <2> QED BY <2>2, <2>3
<1> QED BY <1>1, <1>2, <1>3

-----------------------------------------------------------------------------
(* The loop does not go to sleep on unfinished work. *)

\* A version that others write is still to be delivered.
LEMMA OthersKeepSettled ==
    ASSUME TypeOK, SettledInv, NEW p \in Pod, OthersWritePod(p)
    PROVE  SettledInv'
<1>1. podStream' # <<>> /\ NewestIsCurrent' /\ podView' = podView
  BY WriteAppends DEF OthersWritePod, TypeOK
<1>2. UNCHANGED <<clusters, queue, pc, local, reported>>
  BY DEF OthersWritePod
<1>3. ReadInv'
  BY <1>1, <1>2 DEF SettledInv, ReadInv, clusters, local
<1>4. StageInv'
  BY <1>1, <1>2 DEF SettledInv, StageInv, local
<1>5. SettledMeansDone'
  BY <1>1 DEF SettledMeansDone, Settled
<1> QED BY <1>1, <1>3, <1>4, <1>5 DEF SettledInv

\* A pass that ends in an error is queued again.
LEMMA ErrorKeepsSettled ==
    ASSUME TypeOK, SettledInv, ReturnError, UNCHANGED clusters,
           NewestIsCurrent'
    PROVE  SettledInv'
<1>1. pc' = "idle" /\ queue' # "none"
  BY DEF ReturnError, AddAfter
<1> QED BY <1>1
        DEF SettledInv, ReadInv, StageInv, SettledMeansDone, Settled

\* What a delete by name leaves: a version to be delivered, or a pod that was
\* already on its way out.
LEMMA ApplyDeleteFacts ==
    ASSUME TypeOK, NewestIsCurrent, ApplyDelete
    PROVE  /\ NewestIsCurrent' /\ podView' = podView
           /\ podStream' # <<>> \/ (UNCHANGED pods /\ pod.terminating)
<1>1. CASE WritePod([pod EXCEPT !.terminating = TRUE])
  BY <1>1, PodValues, WriteAppends DEF TypeOK
<1>2. CASE WritePod(NoPod)
  BY <1>2, PodValues, WriteAppends DEF TypeOK
<1>3. CASE pod.terminating /\ UNCHANGED pods
  BY <1>3 DEF pods, NewestIsCurrent
<1> QED BY <1>1, <1>2, <1>3 DEF ApplyDelete

LEMMA InitSettled == Init => SettledInv
<1> SUFFICES ASSUME Init PROVE SettledInv
  OBVIOUS
<1>1. PICK h \in Templates : cluster = [gen |-> 1, hash |-> h]
  BY DEF Init
<1> QED BY <1>1
        DEF Init, SettledInv, NewestIsCurrent, ReadInv, StageInv, SettledMeansDone, Settled

LEMMA NextSettled == TypeOK /\ SettledInv /\ [Next]_vars => SettledInv'
<1> SUFFICES ASSUME TypeOK, SettledInv, [Next]_vars PROVE SettledInv'
  OBVIOUS
<1> USE DEF SettledInv
<1>1. CASE \E h \in Templates : EditTemplate(h)
  <2>1. PICK h \in Templates : EditTemplate(h)
    BY <1>1
  <2>2. /\ cluster' = [gen |-> cluster.gen + 1, hash |-> h]
        /\ view = cluster /\ view' # cluster' /\ cluster.gen \in Nat
        /\ UNCHANGED <<view, pods, queue, pc, local, reported>>
    BY <2>1 DEF EditTemplate, TypeOK, Cluster
  <2>3. NewestIsCurrent' /\ ReadInv' /\ StageInv'
    BY <2>2 DEF NewestIsCurrent, ReadInv, StageInv, pods, local
  <2> QED BY <2>2, <2>3 DEF SettledMeansDone, Settled
<1>2. CASE PodReadiness
  BY <1>2, PodValues, OthersKeepSettled DEF PodReadiness, TypeOK
<1>3. CASE PodGone
  BY <1>3, PodValues, OthersKeepSettled DEF PodGone
<1>4. CASE Evict
  BY <1>4, PodValues, OthersKeepSettled DEF Evict, TypeOK
<1>5. CASE PodFails
  BY <1>5, PodValues, OthersKeepSettled DEF PodFails, TypeOK
<1>6. CASE Begin
  BY <1>6
  DEF Begin, NewestIsCurrent, ReadInv, StageInv,
      SettledMeansDone, Settled, clusters, pods
<1>7. CASE GetPod
  <2>1. /\ pc = "get" /\ existing' = podView
        /\ pc' \in {"create", "delete", "report"}
        /\ UNCHANGED <<clusters, pods, queue, mem>>
    BY <1>7 DEF GetPod
  <2>2. StageInv'
    BY <1>7 DEF GetPod, StageInv, pods
  <2> QED BY <2>1, <2>2
          DEF NewestIsCurrent, ReadInv,
              SettledMeansDone, Settled, clusters, pods
<1>8. CASE CreatePod
  <2>1. PICK u \in Uids : WritePod(NewPod(u))
    BY <1>8 DEF CreatePod
  <2>2. podStream' # <<>> /\ NewestIsCurrent' /\ podView' = podView
    BY <2>1, NewPodType, WriteAppends DEF TypeOK
  <2>3. /\ pc = "create" /\ pc' = "report"
        /\ UNCHANGED <<clusters, queue, local>>
    BY <1>8 DEF CreatePod
  <2> QED BY <2>2, <2>3
          DEF ReadInv, StageInv,
              SettledMeansDone, Settled, clusters, local
<1>9. CASE CreateAlreadyExists
  BY <1>9, ErrorKeepsSettled DEF CreateAlreadyExists, NewestIsCurrent, pods
<1>10. CASE CreateRejected
  BY <1>10
  DEF CreateRejected, NewestIsCurrent, ReadInv,
      StageInv, SettledMeansDone, Settled, clusters, pods, local
<1>11. CASE DeletePod
  <2>1. /\ pc = "delete" /\ pc' = "report"
        /\ UNCHANGED <<clusters, queue, local>>
    BY <1>11 DEF DeletePod
  <2>2. /\ NewestIsCurrent' /\ podView' = podView
        /\ \/ podStream' # <<>>
           \/ UNCHANGED pods /\ (pod.terminating \/ ~pod.exists)
    BY <1>11, ApplyDeleteFacts DEF DeletePod, pods, NewestIsCurrent
  <2>3. ~(podStream' = <<>> /\ queue' = "none")
    BY <2>1, <2>2 DEF NewestIsCurrent, ReadInv, StageInv, pods
  <2> QED BY <2>1, <2>2, <2>3
          DEF ReadInv, StageInv,
              SettledMeansDone, Settled, clusters, local
<1>12. CASE Report
  <2>1. /\ pc' = "idle" /\ mem.gen = cluster.gen
        /\ UNCHANGED <<clusters, pods, queue>>
    BY <1>12 DEF Report
  <2>2. NewestIsCurrent' /\ ReadInv' /\ StageInv'
    BY <2>1 DEF NewestIsCurrent, ReadInv,
                StageInv, clusters, pods
  <2>3. ASSUME Settled', pc = "report"
        PROVE  /\ pod.exists /\ (pod.terminating \/ pod.hash = cluster.hash)
               /\ ready = pod.ready
    BY <2>1, <2>3 DEF Settled, NewestIsCurrent, ReadInv, StageInv, clusters, pods
  <2>4. CASE pc = "report"
    <3>1. reported' = [gen |-> mem.gen, rejected |-> FALSE, ready |-> ready]
      BY <1>12, <2>4 DEF Report
    <3>2. SettledMeansDone'
      BY <2>1, <2>3, <2>4, <3>1 DEF SettledMeansDone, clusters, pods
    <3> QED BY <2>2, <3>2
  <2>5. CASE pc = "reportError"
    <3>1. reported' = [reported EXCEPT !.gen = mem.gen, !.rejected = TRUE]
      BY <1>12, <2>5 DEF Report
    <3>2. reported'.rejected
      BY <3>1 DEF TypeOK
    <3> QED BY <2>2, <3>2 DEF SettledMeansDone
  <2> QED BY <1>12, <2>4, <2>5 DEF Report
<1>13. CASE ReportRefused
  BY <1>13, ErrorKeepsSettled DEF ReportRefused, NewestIsCurrent, pods
<1>14. CASE RequestFails
  <2>1. CASE UNCHANGED pods
    BY <1>14, <2>1, ErrorKeepsSettled DEF RequestFails, NewestIsCurrent, pods
  <2>2. CASE \E u \in Uids \ UidsInUse : WritePod(NewPod(u))
    <3>1. PICK u \in Uids : WritePod(NewPod(u))
      BY <2>2
    <3>2. NewestIsCurrent'
      BY <3>1, NewPodType, WriteAppends DEF TypeOK
    <3> QED BY <1>14, <3>2, ErrorKeepsSettled DEF RequestFails
  <2>3. CASE ApplyDelete
    BY <1>14, <2>3, ApplyDeleteFacts, ErrorKeepsSettled DEF RequestFails
  <2> QED BY <1>14, <2>1, <2>2, <2>3 DEF RequestFails
<1>15. CASE ReportFails
  BY <1>15, ErrorKeepsSettled DEF ReportFails, NewestIsCurrent, pods
<1>16. CASE Crash
  BY <1>16
  DEF Crash, Enqueue, NewestIsCurrent, ReadInv,
      StageInv, SettledMeansDone, Settled, TypeOK, Cluster
<1>17. CASE TimerFires
  BY <1>17
  DEF TimerFires, Enqueue, NewestIsCurrent, ReadInv, StageInv, SettledMeansDone, Settled, clusters, pods, local
<1>18. CASE OtherEvent
  BY <1>18
  DEF OtherEvent, Enqueue, NewestIsCurrent, ReadInv, StageInv, SettledMeansDone, Settled, clusters, pods, local
<1>19. CASE DeliverCluster
  BY <1>19
  DEF DeliverCluster, Enqueue, NewestIsCurrent, ReadInv, StageInv, SettledMeansDone, Settled, pods, local, TypeOK, Cluster
<1>20. CASE DeliverPod
  <2>1. NewestIsCurrent'
    BY <1>20, DeliveryShifts DEF DeliverPod, TypeOK
  <2>2. queue' = "due" /\ UNCHANGED <<clusters, pc, local, reported>>
    BY <1>20 DEF DeliverPod, Enqueue
  <2> QED BY <2>1, <2>2
          DEF ReadInv, StageInv,
              SettledMeansDone, Settled, clusters, local
<1>21. CASE UNCHANGED vars
  BY <1>21
  DEF vars, NewestIsCurrent, ReadInv, StageInv,
      SettledMeansDone, Settled
<1> QED BY <1>1, <1>2, <1>3, <1>4, <1>5, <1>6, <1>7, <1>8, <1>9, <1>10, <1>11,
           <1>12, <1>13, <1>14, <1>15, <1>16, <1>17, <1>18, <1>19, <1>20, <1>21
        DEF Next, Others, Worker

\* The reconciler never goes to sleep on unfinished work: with nothing queued,
\* running or undelivered, and unless the last pass was rejected, the scheduler
\* pod exists with the template of the spec or is on its way out, and
\* status.scheduler tells its readiness for this generation.  It holds for
\* every interleaving of edits, evictions, lost answers and restarts, and for
\* a cache that trails by any number of versions.
THEOREM NeverSleepsOnWork == Spec => []SettledMeansDone
<1>1. Init => TypeOK /\ SettledInv
  BY InitTypeOK, InitSettled
<1>2. TypeOK /\ SettledInv /\ [Next]_vars => (TypeOK /\ SettledInv)'
  BY NextTypeOK, NextSettled
<1>3. SettledInv => SettledMeansDone
  BY DEF SettledInv
<1> QED BY <1>1, <1>2, <1>3, PTL DEF Spec

-----------------------------------------------------------------------------
(* What is deleted is what was looked at. *)

\* The kubelet changes a pod in place, a delete marks it, and the end of the
\* grace period removes it: each adds a version of the same pod, or its
\* absence, to what the informer knows of.
LEMMA VersionKeepsIdentity ==
    ASSUME TypeOK, NewestIsCurrent, OneIdentity, pod.exists,
           NEW p \in Pod, WritePod(p),
           p.exists => p.uid = pod.uid,
           ~podView.exists => p.exists /\ ~p.terminating
    PROVE  OneIdentity'
<1> DEFINE n == Len(podStream)
<1>1. /\ pod' = p /\ podView' = podView
      /\ Len(podStream') = n + 1
      /\ podStream'[n + 1] = p
      /\ \A i \in 1..n : podStream'[i] = podStream[i]
      /\ n \in Nat
  BY WriteAppends DEF TypeOK
<1>2. \A i \in 1..n : podStream[i].exists
  \* An absence would be the newest version, and the pod exists.
  <2> SUFFICES ASSUME NEW i \in 1..n, ~podStream[i].exists PROVE FALSE
    OBVIOUS
  <2>1. i = n /\ n # 0
    BY <1>1 DEF OneIdentity
  <2>2. podStream # <<>>
    BY <2>1, EmptySeq
  <2> QED BY <2>1, <2>2 DEF NewestIsCurrent
<1>3. podView.exists => pod.uid = podView.uid
  <2>1. CASE podStream = <<>>
    BY <2>1 DEF NewestIsCurrent
  <2>2. CASE podStream # <<>>
    <3>1. n \in 1..n /\ podStream[n] = pod
      BY <1>1, <2>2, EmptySeq DEF NewestIsCurrent, TypeOK
    <3> QED BY <3>1 DEF OneIdentity
  <2> QED BY <2>1, <2>2
<1> HIDE DEF n
<1>4. ASSUME NEW i \in 1..(n + 1)
      PROVE  i = n + 1 \/ i \in 1..n
  BY <1>1
<1> QED BY <1>1, <1>2, <1>3, <1>4 DEF OneIdentity, n

\* A pod is created only after an absence that the informer has seen.
LEMMA CreationKeepsIdentity ==
    ASSUME TypeOK, podStream = <<>>, ~podView.exists,
           NEW p \in Pod, WritePod(p), p.exists, ~p.terminating
    PROVE  OneIdentity'
<1>1. /\ pod' = p /\ podView' = podView
      /\ Len(podStream') = 1 /\ podStream'[1] = p
  BY WriteAppends, EmptySeq DEF TypeOK
<1> QED BY <1>1 DEF OneIdentity

\* A delivery moves along the stream.
LEMMA DeliveryKeepsIdentity ==
    ASSUME TypeOK, NewestIsCurrent, OneIdentity, DeliverPod
    PROVE  OneIdentity' /\ (pod.exists => podView'.exists)
<1> DEFINE n == Len(podStream)
<1>1. /\ podView' = podStream[1] /\ n \in Nat \ {0}
      /\ Len(podStream') = n - 1
      /\ \A i \in 1..Len(podStream') : podStream'[i] = podStream[i + 1]
      /\ pod' = pod
  BY DeliveryShifts DEF DeliverPod, TypeOK
<1>2. podStream[n] = pod
  BY DEF DeliverPod, NewestIsCurrent
<1>3. ~podStream[1].exists => n = 1
  BY <1>1 DEF OneIdentity
<1> HIDE DEF n
<1>4. \A i \in 1..(n - 1) : i + 1 \in 1..n
  BY <1>1
<1>5. 1 \in 1..n
  BY <1>1
<1>6. (\A i \in 1..Len(podStream) : ~podStream[i].exists => i = Len(podStream))'
  <2> SUFFICES ASSUME NEW i \in 1..(n - 1), ~podStream[i + 1].exists
               PROVE  i = n - 1
    BY <1>1
  <2>1. i + 1 = n
    BY <1>4 DEF OneIdentity, n
  <2> QED BY <1>1, <2>1
<1>7. CASE podStream[1].exists
  <2>1. \A i \in 1..n : podStream[i].exists => podStream[i].uid = podStream[1].uid
    BY <1>5, <1>7 DEF OneIdentity, n
  <2> QED BY <1>1, <1>4, <1>6, <1>7, <2>1 DEF OneIdentity
<1>8. CASE ~podStream[1].exists
  BY <1>1, <1>2, <1>3, <1>6, <1>8 DEF OneIdentity
<1> QED BY <1>7, <1>8

LEMMA InitIdentity == Init => IdentityInv
BY EmptySeq DEF Init, IdentityInv, OneIdentity, TargetInv

\* Steps that touch neither the pod nor what is known of it.
LEMMA SamePods ==
    ASSUME IdentityInv, UNCHANGED pods, meddled' = meddled,
           (pc' = pc /\ existing' = existing) \/ pc' \notin {"create", "delete"}
    PROVE  IdentityInv'
BY DEF IdentityInv, OneIdentity, TargetInv, pods

\* A version the kubelet writes, in any stage of a pass.
LEMMA KubeletKeepsIdentity ==
    ASSUME TypeOK, NewestIsCurrent, IdentityInv, pod.exists,
           NEW p \in Pod, OthersWritePod(p), meddled' = meddled,
           p.exists => p.uid = pod.uid /\ p.terminating = pod.terminating,
           ~p.exists => pod.terminating
    PROVE  IdentityInv'
<1> SUFFICES ASSUME ~meddled PROVE OneIdentity' /\ TargetInv'
  BY DEF IdentityInv
<1>1. OneIdentity /\ TargetInv
  BY DEF IdentityInv
<1>2. WritePod(p) /\ UNCHANGED <<pc, existing>>
  BY DEF OthersWritePod, local
<1>3. ~podView.exists => ~pod.terminating
  <2> SUFFICES ASSUME ~podView.exists PROVE ~pod.terminating
    OBVIOUS
  <2>1. podStream # <<>>
    BY DEF NewestIsCurrent
  <2>2. Len(podStream) \in 1..Len(podStream) /\ podStream[Len(podStream)] = pod
    BY <2>1, EmptySeq DEF NewestIsCurrent, TypeOK
  <2> QED BY <1>1, <2>2 DEF OneIdentity
<1>4. OneIdentity'
  BY <1>1, <1>2, <1>3, VersionKeepsIdentity
<1>5. pod' = p /\ podView' = podView
  BY <1>2 DEF WritePod
<1>6. TargetInv'
  BY <1>1, <1>2, <1>5 DEF TargetInv
<1> QED BY <1>4, <1>6

\* The operator's own delete, when nobody has interfered.
LEMMA DeleteKeepsIdentity ==
    ASSUME TypeOK, NewestIsCurrent, OneIdentity, TargetInv, pc = "delete",
           ApplyDelete
    PROVE  OneIdentity'
<1>1. pod.exists
  BY DEF ApplyDelete
<1>2. podView.exists
  BY <1>1 DEF TargetInv
<1>3. CASE WritePod([pod EXCEPT !.terminating = TRUE])
  <2> DEFINE p == [pod EXCEPT !.terminating = TRUE]
  <2>1. p \in Pod /\ p.uid = pod.uid
    BY PodValues DEF TypeOK, Pod
  <2> HIDE DEF p
  <2>2. WritePod(p)
    BY <1>3 DEF p
  <2> QED BY <1>1, <1>2, <2>1, <2>2, VersionKeepsIdentity
<1>4. CASE WritePod(NoPod)
  BY <1>1, <1>2, <1>4, PodValues, VersionKeepsIdentity DEF NoPod
<1>5. CASE UNCHANGED pods
  BY <1>5 DEF OneIdentity, pods
<1> QED BY <1>3, <1>4, <1>5 DEF ApplyDelete

\* The operator's own create, when nobody has interfered.
LEMMA CreateKeepsIdentity ==
    ASSUME TypeOK, TargetInv, pc = "create", ~pod.exists,
           NEW u \in Uids, WritePod(NewPod(u))
    PROVE  OneIdentity'
<1>1. ~podView.exists /\ podStream = <<>>
  BY DEF TargetInv
<1>2. NewPod(u) \in Pod /\ NewPod(u).exists /\ ~NewPod(u).terminating
  BY NewPodType DEF TypeOK, NewPod
<1> QED BY <1>1, <1>2, CreationKeepsIdentity

LEMMA NextIdentity ==
    TypeOK /\ NewestIsCurrent /\ IdentityInv /\ [Next]_vars => IdentityInv'
<1> SUFFICES ASSUME TypeOK, NewestIsCurrent, IdentityInv, [Next]_vars
             PROVE  IdentityInv'
  OBVIOUS
<1>1. CASE \E h \in Templates : EditTemplate(h)
  BY <1>1, SamePods DEF EditTemplate, local
<1>2. CASE PodReadiness
  <2> DEFINE p == [pod EXCEPT !.ready = ~@]
  <2>0. pod \in Pod /\ p \in Pod
    BY PodValues DEF TypeOK
  <2>1. p.uid = pod.uid /\ p.terminating = pod.terminating /\ p.exists = pod.exists
    BY <2>0 DEF Pod
  <2> HIDE DEF p
  <2>2. pod.exists /\ OthersWritePod(p) /\ meddled' = meddled
    BY <1>2 DEF PodReadiness, p
  <2> QED BY <2>0, <2>1, <2>2, KubeletKeepsIdentity
<1>3. CASE PodGone
  BY <1>3, PodValues, KubeletKeepsIdentity DEF PodGone, NoPod
<1>4. CASE Evict
  BY <1>4 DEF Evict, IdentityInv
<1>5. CASE PodFails
  <2> DEFINE p == [pod EXCEPT !.failed = TRUE, !.ready = FALSE]
  <2>0. pod \in Pod /\ p \in Pod
    BY PodValues DEF TypeOK
  <2>1. p.uid = pod.uid /\ p.terminating = pod.terminating /\ p.exists = pod.exists
    BY <2>0 DEF Pod
  <2> HIDE DEF p
  <2>2. pod.exists /\ OthersWritePod(p) /\ meddled' = meddled
    BY <1>5 DEF PodFails, p
  <2> QED BY <2>0, <2>1, <2>2, KubeletKeepsIdentity
<1>6. CASE Begin
  <2>1. pc' = "get" /\ UNCHANGED pods /\ meddled' = (meddled /\ podStream # <<>>)
    BY <1>6 DEF Begin
  <2>2. CASE podStream = <<>>
    <3>1. Len(podStream) = 0
      BY <2>2, EmptySeq
    <3> QED BY <2>1, <3>1 DEF IdentityInv, OneIdentity, TargetInv, pods
  <2>3. CASE podStream # <<>>
    BY <2>1, <2>3, SamePods DEF TypeOK
  <2> QED BY <2>2, <2>3
<1>7. CASE GetPod
  <2> SUFFICES ASSUME ~meddled PROVE OneIdentity' /\ TargetInv'
    BY <1>7 DEF GetPod, IdentityInv
  <2>1. OneIdentity /\ UNCHANGED pods /\ existing' = podView
    BY <1>7 DEF GetPod, IdentityInv
  <2>2. podStream # <<>> =>
            Len(podStream) \in 1..Len(podStream) /\ podStream[Len(podStream)] = pod
    BY EmptySeq DEF NewestIsCurrent, TypeOK
  <2>3. podStream = <<>> => pod = podView
    BY DEF NewestIsCurrent
  <2>4. CASE pc' = "create"
    <3>1. ~podView.exists
      BY <1>7, <2>4 DEF GetPod
    <3>2. podStream # <<>> => pod.exists /\ ~pod.terminating
      BY <2>1, <2>2, <3>1 DEF OneIdentity
    <3> QED BY <2>1, <2>3, <2>4, <3>1, <3>2 DEF OneIdentity, TargetInv, pods
  <2>5. CASE pc' = "delete"
    <3>1. podView.exists
      BY <1>7, <2>5 DEF GetPod
    <3>2. pod.exists => pod.uid = podView.uid
      BY <2>1, <2>2, <2>3, <3>1 DEF OneIdentity
    <3> QED BY <2>1, <2>5, <3>1, <3>2 DEF OneIdentity, TargetInv, pods
  <2>6. CASE pc' = "report"
    BY <2>1, <2>6 DEF OneIdentity, TargetInv, pods
  <2> QED BY <1>7, <2>4, <2>5, <2>6 DEF GetPod
<1>8. CASE CreatePod
  <2>1. PICK u \in Uids : WritePod(NewPod(u))
    BY <1>8 DEF CreatePod
  <2>2. pc = "create" /\ ~pod.exists /\ pc' = "report" /\ meddled' = meddled
    BY <1>8 DEF CreatePod
  <2> QED BY <2>1, <2>2, CreateKeepsIdentity DEF IdentityInv, TargetInv
<1>9. CASE CreateAlreadyExists
  BY <1>9, SamePods DEF CreateAlreadyExists, ReturnError
<1>10. CASE CreateRejected
  BY <1>10, SamePods DEF CreateRejected
<1>11. CASE DeletePod
  <2>1. pc = "delete" /\ pc' = "report" /\ meddled' = meddled
    BY <1>11 DEF DeletePod
  <2>2. CASE ApplyDelete
    BY <2>1, <2>2, DeleteKeepsIdentity DEF IdentityInv, TargetInv
  <2>3. CASE UNCHANGED pods
    BY <2>1, <2>3, SamePods
  <2> QED BY <1>11, <2>2, <2>3 DEF DeletePod
<1>12. CASE Report
  BY <1>12, SamePods DEF Report
<1>13. CASE ReportRefused
  BY <1>13, SamePods DEF ReportRefused, ReturnError
<1>14. CASE RequestFails
  <2>1. pc' = "idle" /\ meddled' = meddled
    BY <1>14 DEF RequestFails, ReturnError
  <2>2. CASE UNCHANGED pods
    BY <2>1, <2>2, SamePods
  <2>3. CASE pc = "create" /\ ~pod.exists
             /\ \E u \in Uids \ UidsInUse : WritePod(NewPod(u))
    <3>1. PICK u \in Uids : WritePod(NewPod(u))
      BY <2>3
    <3> QED BY <2>1, <2>3, <3>1, CreateKeepsIdentity DEF IdentityInv, TargetInv
  <2>4. CASE pc = "delete" /\ ApplyDelete
    BY <2>1, <2>4, DeleteKeepsIdentity DEF IdentityInv, TargetInv
  <2> QED BY <1>14, <2>2, <2>3, <2>4 DEF RequestFails
<1>15. CASE ReportFails
  BY <1>15, SamePods DEF ReportFails, ReturnError
<1>16. CASE Crash
  <2>1. podStream' = <<>> /\ pc' = "idle"
    BY <1>16 DEF Crash
  <2>2. Len(podStream') = 0
    BY <2>1, EmptySeq
  <2> QED BY <2>1, <2>2 DEF IdentityInv, OneIdentity, TargetInv
<1>17. CASE TimerFires
  BY <1>17, SamePods DEF TimerFires, local
<1>18. CASE OtherEvent
  BY <1>18, SamePods DEF OtherEvent, local
<1>19. CASE DeliverCluster
  BY <1>19, SamePods DEF DeliverCluster, local
<1>20. CASE DeliverPod
  <2> SUFFICES ASSUME ~meddled PROVE OneIdentity' /\ TargetInv'
    BY <1>20 DEF DeliverPod, IdentityInv
  <2>1. UNCHANGED <<pod, pc, existing>> /\ podStream # <<>>
    BY <1>20 DEF DeliverPod, local
  <2>2. OneIdentity' /\ (pod.exists => podView'.exists) /\ TargetInv
    BY <1>20, DeliveryKeepsIdentity DEF IdentityInv
  <2> QED BY <2>1, <2>2 DEF TargetInv
<1>21. CASE UNCHANGED vars
  BY <1>21, SamePods DEF vars, pods
<1> QED BY <1>1, <1>2, <1>3, <1>4, <1>5, <1>6, <1>7, <1>8, <1>9, <1>10, <1>11,
           <1>12, <1>13, <1>14, <1>15, <1>16, <1>17, <1>18, <1>19, <1>20, <1>21
        DEF Next, Others, Worker

\* What reconcileScheduler takes down is the pod it looked at, as long as
\* nobody else has deleted the pod since its cache was last current, although
\* it deletes by name, without a uid precondition, and from a cache that may
\* trail by any number of versions and over any number of passes.
THEOREM DeletesTheRightPod == Spec => DeletesOnlyWhatItSaw
<1> DEFINE Inv == TypeOK /\ SettledInv /\ IdentityInv
<1>1. Init => Inv
  BY InitTypeOK, InitSettled, InitIdentity
<1>2. Inv /\ [Next]_vars => Inv'
  BY NextTypeOK, NextSettled, NextIdentity DEF SettledInv
<1>3. Inv /\ [Next]_vars =>
        [pc = "delete" /\ pod' # pod /\ pc' \in {"report", "idle"}
            => meddled \/ pod.uid = existing.uid]_vars
  <2> SUFFICES ASSUME IdentityInv, [Next]_vars, pc = "delete", pod' # pod,
                      pc' \in {"report", "idle"}, ~meddled
               PROVE  pod.uid = existing.uid
    OBVIOUS
  <2>1. TargetInv
    BY DEF IdentityInv
  <2>2. ApplyDelete
    BY DEF Next, Others, Worker, EditTemplate, PodReadiness, PodGone, Evict,
           PodFails, OthersWritePod, Begin, GetPod, CreatePod,
           CreateAlreadyExists, CreateRejected, DeletePod, Report,
           ReportRefused, RequestFails, ReportFails, Crash, TimerFires,
           OtherEvent, DeliverCluster, DeliverPod, vars, pods
  <2>3. pod.exists
    BY <2>2 DEF ApplyDelete
  <2> QED BY <2>1, <2>3 DEF TargetInv
<1> QED BY <1>1, <1>2, <1>3, PTL DEF Spec, DeletesOnlyWhatItSaw

=============================================================================
