-------------------------- MODULE WorkerPoolProofs --------------------------
(***************************************************************************)
(* What WorkerPool keeps true for every number of pods, templates and      *)
(* replicas: its types, that the status never counts a pool of the wrong   *)
(* size, that an undisturbed pass is exact, and that the pool is right     *)
(* whenever nothing is left to do.                                         *)
(***************************************************************************)
EXTENDS WorkerPool, InformerProofs, FiniteSetTheorems

Version == [key : Pods, version : Pod]

Working == pc \in {"apply", "report"}

\* No version of a pod is lost between the API server and the cache.
NewestIsCurrent == InStep(podsView, podStream, pods, Pods)

\* The copies of the spec, and the status, are about it or older.
GenInv ==
    /\ view.gen > 0
    /\ CopyOf(view, cluster) /\ CopyOf(mem, view)
    /\ reported.gen <= cluster.gen

\* Every request so far has been counted: what is still lacking or too much
\* separates the active pods from the replicas.
CountInv ==
    Working /\ failure = "none" =>
        Cardinality(active) + lacking = mem.replicas + surplus

\* The status is written only when no request is left.
ReportInv ==
    pc = "report" => /\ outdated = {} /\ lacking = 0 /\ surplus = 0
                     /\ failure # "transient"

\* A pass that listed a current cache, and alone writes pods, knows which are
\* alive and of which template.
ExactInv ==
    Working /\ undisturbed /\ failure = "none" =>
        /\ Alive = active \cup outdated
        /\ active \cap outdated = {}
        /\ \A p \in active : pods[p].hash = mem.hash

\* What the pass makes of the pods it finds in the cache.
Listed(cached) ==
    LET listed == {p \in Pods : cached[p].life = "alive"}
    IN  /\ active = {p \in listed : cached[p].hash = mem.hash}
        /\ outdated = {p \in listed : cached[p].hash # mem.hash}
        /\ ready = {p \in active : cached[p].ready}

\* While no event has come and none is on its way, the pods are the ones the
\* pass has listed and it has changed none of them.
ListedInv ==
    Working /\ queue = "none" /\ podStream = <<>> => Listed(podsView)

-----------------------------------------------------------------------------
(* Types. *)

LEMMA ValueTypes ==
    /\ AnyTemplate \in Templates
    /\ NoPod \in Pod /\ Leaving \in Pod /\ NoCluster \in Cluster
    /\ NoPod.life = "none" /\ Leaving.life = "terminating"
<1>1. AnyTemplate \in Templates
  BY SetsAssumption DEF AnyTemplate
<1> QED BY <1>1 DEF NoPod, Leaving, NoCluster, Pod, Cluster

\* Sets of pods can be counted.
LEMMA PodSets ==
    ASSUME NEW S \in SUBSET Pods
    PROVE  IsFiniteSet(S) /\ Cardinality(S) \in Nat
<1>1. IsFiniteSet(S)
  BY SetsAssumption, FS_Subset
<1> QED BY <1>1, FS_CardinalityType

PodTypes ==
    /\ pods \in [Pods -> Pod] /\ podsView \in [Pods -> Pod]
    /\ podStream \in Seq(Version)

LEMMA WriteTypes ==
    ASSUME TypeOK, NEW p \in Pods, NEW version \in Pod, WritePod(p, version)
    PROVE  PodTypes'
<1>1. [key |-> p, version |-> version] \in Version
  BY DEF Version
<1>2. podStream \in Seq(Version)
  BY DEF TypeOK, Version
<1>3. podStream' \in Seq(Version)
  BY <1>1, <1>2 DEF WritePod
<1> QED BY <1>3 DEF WritePod, TypeOK, PodTypes

LEMMA DeleteTypes ==
    ASSUME TypeOK, NEW p \in Pods, ApplyDelete(p)
    PROVE  PodTypes'
<1>1. ASSUME UNCHANGED podVars PROVE PodTypes'
  BY <1>1 DEF podVars, TypeOK, PodTypes, Version
<1> QED BY <1>1, WriteTypes, ValueTypes DEF ApplyDelete

PassTypes ==
    /\ mem \in Cluster
    /\ outdated \in SUBSET Pods /\ active \in SUBSET Pods /\ ready \in SUBSET Pods
    /\ lacking \in Nat /\ surplus \in Nat
    /\ failure \in {"none", "spec", "transient"}
    /\ undisturbed \in BOOLEAN

LEMMA ForgetTypes == ASSUME Forget PROVE PassTypes'
BY ValueTypes DEF Forget, PassTypes

LEMMA ErrorTypes ==
    ASSUME TypeOK, ReturnError
    PROVE  PassTypes' /\ pc' = "idle" /\ queue' \in {"due", "delayed"}
BY ForgetTypes DEF ReturnError, AddAfter

LEMMA InitTypeOK == ASSUME Init PROVE TypeOK
<1>1. podStream \in Seq([key : Pods, version : Pod])
  BY DEF Init
<1>2. cluster \in Cluster
  BY ValueTypes, BoundsAssumption DEF Init, Cluster
<1> QED BY <1>1, <1>2, ValueTypes DEF Init, TypeOK

LEMMA OthersTypes ==
    ASSUME TypeOK, Others PROVE TypeOK'
<1>1. ASSUME NEW h \in Templates, NEW n \in 0..MaxReplicas, EditSpec(h, n)
      PROVE  TypeOK'
  BY <1>1, BoundsAssumption DEF EditSpec, TypeOK, podVars, pass, Cluster
<1>2. ASSUME NEW p \in Pods, NEW version \in Pod, OthersWritePod(p, version),
             undisturbed' \in BOOLEAN
      PROVE  TypeOK'
  <2>1. PodTypes'
    BY <1>2, WriteTypes DEF OthersWritePod
  <2> QED BY <1>2, <2>1 DEF OthersWritePod, TypeOK, PodTypes, Version, clusters, pass
<1>3. ASSUME NEW p \in Pods, PodReadiness(p) PROVE TypeOK'
  <2>1. [pods[p] EXCEPT !.ready = ~@] \in Pod
    BY DEF TypeOK, Pod
  <2> QED BY <1>2, <1>3, <2>1 DEF PodReadiness, TypeOK
<1>4. ASSUME NEW p \in Pods, PodGone(p) PROVE TypeOK'
  BY <1>2, <1>4, ValueTypes DEF PodGone, TypeOK
<1>5. ASSUME NEW p \in Pods, Evict(p) PROVE TypeOK'
  BY <1>2, <1>5, ValueTypes DEF Evict
<1> QED BY <1>1, <1>3, <1>4, <1>5 DEF Others

\* What List finds in the cache and how it counts.
LEMMA ListFacts ==
    ASSUME TypeOK, List
    PROVE  /\ active' = {p \in Pods : podsView[p].life = "alive"
                                      /\ podsView[p].hash = mem.hash}
           /\ outdated' = {p \in Pods : podsView[p].life = "alive"
                                        /\ podsView[p].hash # mem.hash}
           /\ ready' = {p \in active' : podsView[p].ready}
           /\ lacking' \in Nat /\ surplus' \in Nat
           /\ Cardinality(active') + lacking' = mem.replicas + surplus'
<1> DEFINE same == {p \in {q \in Pods : podsView[q].life = "alive"} :
                        podsView[p].hash = mem.hash}
<1>1. same = {p \in Pods : podsView[p].life = "alive"
                           /\ podsView[p].hash = mem.hash}
  OBVIOUS
<1>2. /\ active' = same
      /\ outdated' = {q \in Pods : podsView[q].life = "alive"} \ same
      /\ ready' = {p \in same : podsView[p].ready}
      /\ lacking' = IF Cardinality(same) < mem.replicas
                    THEN mem.replicas - Cardinality(same) ELSE 0
      /\ surplus' = IF Cardinality(same) > mem.replicas
                    THEN Cardinality(same) - mem.replicas ELSE 0
  BY DEF List
<1>3. Cardinality(same) \in Nat
  BY PodSets
<1>4. mem.replicas \in Nat
  BY DEF TypeOK, Cluster
<1>5. outdated' = {p \in Pods : podsView[p].life = "alive"
                                /\ podsView[p].hash # mem.hash}
  BY <1>2
<1> HIDE DEF same
<1>6. /\ lacking' \in Nat /\ surplus' \in Nat
      /\ Cardinality(same) + lacking' = mem.replicas + surplus'
  BY <1>2, <1>3, <1>4
<1> QED BY <1>1, <1>2, <1>5, <1>6

LEMMA ListTypes == ASSUME TypeOK, List PROVE TypeOK'
<1>1. active' \in SUBSET Pods /\ outdated' \in SUBSET Pods /\ ready' \in SUBSET Pods
  BY ListFacts
<1>2. undisturbed' \in BOOLEAN
  BY DEF List
<1> QED BY <1>1, <1>2, ListFacts DEF List, TypeOK, clusters, podVars

LEMMA WorkerTypes ==
    ASSUME TypeOK, Worker PROVE TypeOK'
<1>1. CASE Begin
  BY <1>1 DEF Begin, TypeOK, clusters, podVars
<1>2. CASE List
  BY <1>2, ListTypes
<1>3. ASSUME NEW p \in Pods, DeleteOutdated(p) PROVE TypeOK'
  <2>1. PodTypes'
    BY <1>3, DeleteTypes DEF DeleteOutdated
  <2> QED BY <1>3, <2>1 DEF DeleteOutdated, TypeOK, PodTypes, Version, clusters
<1>4. ASSUME NEW p \in Pods, CreateSucceeds(p) PROVE TypeOK'
  <2>1. NewPod \in Pod
    BY DEF NewPod, Pod, TypeOK, Cluster
  <2>2. PodTypes'
    BY <1>4, <2>1, WriteTypes DEF CreateSucceeds
  <2>3. lacking' \in Nat
    BY <1>4 DEF CreateSucceeds, Creating, TypeOK
  <2> QED BY <1>4, <2>2, <2>3
          DEF CreateSucceeds, TypeOK, PodTypes, Version, clusters
<1>5. ASSUME NEW p \in Pods, DeleteSurplus(p) PROVE TypeOK'
  <2>1. PodTypes'
    BY <1>5, DeleteTypes DEF DeleteSurplus
  <2>2. surplus' \in Nat
    BY <1>5 DEF DeleteSurplus, TypeOK
  <2> QED BY <1>5, <2>1, <2>2
          DEF DeleteSurplus, TypeOK, PodTypes, Version, clusters
<1>6. CASE CreateRejected
  <2>1. lacking' \in Nat
    BY <1>6 DEF CreateRejected, Creating, TypeOK
  <2> QED BY <1>6, <2>1 DEF CreateRejected, TypeOK, clusters, podVars
<1>7. CASE ReturnTransient
  BY <1>7, ErrorTypes DEF ReturnTransient, TypeOK, PassTypes, clusters, podVars
<1>8. CASE ToReport
  BY <1>8 DEF ToReport, TypeOK, clusters, podVars, pass
<1>9. CASE Report
  <2>1. Cardinality(active) \in Nat /\ Cardinality(ready \cap active) \in Nat
    BY PodSets DEF TypeOK
  <2>2. mem.gen \in Nat
    BY DEF TypeOK, Cluster
  <2>3. reported' \in [gen : Nat, rejected : BOOLEAN, replicas : Nat,
                       readyReplicas : Nat]
    BY <1>9, <2>1, <2>2 DEF Report, TypeOK
  <2> QED BY <1>9, <2>3, ForgetTypes DEF Report, TypeOK, PassTypes, clusters, podVars
<1>10. CASE ReportRefused
  BY <1>10, ErrorTypes DEF ReportRefused, TypeOK, PassTypes, clusters, podVars
<1> QED BY <1>1, <1>2, <1>3, <1>4, <1>5, <1>6, <1>7, <1>8, <1>9, <1>10 DEF Worker

LEMMA FaultsTypes ==
    ASSUME TypeOK, Faults PROVE TypeOK'
<1>1. ASSUME NEW p \in Pods, DeleteFails(p) PROVE TypeOK'
  <2>1. ASSUME UNCHANGED podVars PROVE PodTypes'
    BY <2>1 DEF podVars, TypeOK, PodTypes, Version
  <2>2. PodTypes'
    BY <1>1, <2>1, DeleteTypes DEF DeleteFails
  <2> QED BY <1>1, <2>2, ErrorTypes
          DEF DeleteFails, TypeOK, PassTypes, PodTypes, Version, clusters
<1>2. CASE CreateFails
  <2>1. NewPod \in Pod
    BY DEF NewPod, Pod, TypeOK, Cluster
  <2>2. ASSUME UNCHANGED podVars PROVE PodTypes'
    BY <2>2 DEF podVars, TypeOK, PodTypes, Version
  <2>3. PodTypes'
    BY <1>2, <2>1, <2>2, WriteTypes DEF CreateFails, Fresh
  <2>4. lacking' \in Nat
    BY <1>2 DEF CreateFails, Creating, TypeOK
  <2> QED BY <1>2, <2>3, <2>4 DEF CreateFails, TypeOK, PodTypes, Version, clusters
<1>3. CASE ReportFails
  BY <1>3, ErrorTypes DEF ReportFails, TypeOK, PassTypes, clusters, podVars
<1>4. CASE Crash
  <2>1. podStream' \in Seq([key : Pods, version : Pod])
    BY <1>4 DEF Crash
  <2> QED BY <1>4, <2>1, ForgetTypes DEF Crash, Enqueue, TypeOK, PassTypes
<1> QED BY <1>1, <1>2, <1>3, <1>4 DEF Faults

LEMMA NextTypeOK ==
    ASSUME TypeOK, [Next]_vars PROVE TypeOK'
<1>1. CASE TimerFires \/ OtherEvent
  BY <1>1 DEF TimerFires, OtherEvent, Enqueue, TypeOK, clusters, podVars, pass
<1>2. CASE DeliverCluster
  BY <1>2 DEF DeliverCluster, Enqueue, TypeOK, podVars, pass
<1>3. CASE DeliverPod
  <2>1. podStream \in Seq(Version) /\ podStream # <<>>
    BY <1>3 DEF DeliverPod, TypeOK, Version
  <2>2. Head(podStream) \in Version /\ Tail(podStream) \in Seq(Version)
    BY ONLY <2>1, HeadTailProperties
  <2>3. podsView' \in [Pods -> Pod]
    BY <1>3, <2>2 DEF DeliverPod, TypeOK, Version
  <2> QED BY <1>3, <2>2, <2>3 DEF DeliverPod, Enqueue, TypeOK, Version, clusters, pass
<1>4. CASE UNCHANGED vars
  BY <1>4 DEF vars, TypeOK
<1> QED BY <1>1, <1>2, <1>3, <1>4, OthersTypes, WorkerTypes, FaultsTypes DEF Next

\* Every variable of the worker pool's model holds a value of its kind.
THEOREM TypeCorrect == Spec => []TypeOK
BY InitTypeOK, NextTypeOK, PTL DEF Spec

-----------------------------------------------------------------------------
(* The status. *)

LEMMA ForgottenIsOld ==
    ASSUME TypeOK, GenInv, Forget, view'.gen \in Nat \ {0}
    PROVE  CopyOf(mem', view')
BY DEF Forget, NoCluster, CopyOf

LEMMA InitGenInv == ASSUME Init PROVE GenInv
BY DEF Init, GenInv, CopyOf, NoCluster

LEMMA NextGenInv ==
    ASSUME TypeOK, GenInv, [Next]_vars
    PROVE  GenInv'
<1>0. /\ cluster.gen \in Nat /\ view.gen \in Nat \ {0} /\ mem.gen \in Nat
      /\ reported.gen \in Nat
  BY DEF TypeOK, Cluster, GenInv
<1>1. ASSUME UNCHANGED <<cluster, view, mem, reported>> PROVE GenInv'
  BY <1>1 DEF GenInv, CopyOf
<1>2. ASSUME UNCHANGED <<cluster, view>>, Forget, reported'.gen \in {reported.gen, mem.gen}
      PROVE  GenInv'
  <2>1. CopyOf(mem', view')
    BY <1>0, <1>2, ForgottenIsOld
  <2>2. reported'.gen <= cluster.gen
    BY <1>0, <1>2 DEF GenInv, CopyOf
  <2> QED BY <1>2, <2>1, <2>2 DEF GenInv, CopyOf
<1>3. ASSUME NEW h \in Templates, NEW n \in 0..MaxReplicas, EditSpec(h, n)
      PROVE  GenInv'
  <2>1. /\ cluster'.gen = cluster.gen + 1
        /\ UNCHANGED <<view, mem, reported>>
    BY <1>3 DEF EditSpec, pass
  <2> QED BY <1>0, <2>1 DEF GenInv, CopyOf
<1>4. CASE \E p \in Pods : PodReadiness(p) \/ PodGone(p) \/ Evict(p)
  BY <1>1, <1>4 DEF PodReadiness, PodGone, Evict, OthersWritePod, clusters, pass
<1>5. CASE Begin
  <2>1. mem' = view /\ UNCHANGED <<cluster, view, reported>>
    BY <1>5 DEF Begin, clusters
  <2> QED BY <1>0, <2>1 DEF GenInv, CopyOf
<1>6. CASE \/ List \/ CreateRejected \/ ToReport \/ CreateFails
           \/ \E p \in Pods :
                 DeleteOutdated(p) \/ CreateSucceeds(p) \/ DeleteSurplus(p)
  BY <1>1, <1>6 DEF List, CreateRejected, ToReport, CreateFails, DeleteOutdated,
                    CreateSucceeds, DeleteSurplus, clusters, pass
<1>7. CASE \/ ReturnTransient \/ ReportRefused \/ ReportFails
           \/ \E p \in Pods : DeleteFails(p)
  BY <1>2, <1>7 DEF ReturnTransient, ReportRefused, ReportFails, DeleteFails,
                    ReturnError, clusters
<1>8. CASE Report
  <2>1. reported'.gen = mem.gen
    BY <1>8 DEF Report, TypeOK
  <2> QED BY <1>2, <1>8, <2>1 DEF Report, clusters
<1>9. CASE Crash
  <2>1. view' = cluster /\ cluster' = cluster /\ reported' = reported /\ Forget
    BY <1>9 DEF Crash
  <2>2. cluster.gen > 0
    BY <1>0 DEF GenInv, CopyOf
  <2>3. CopyOf(mem', view')
    BY <1>0, <2>1, <2>2, ForgottenIsOld
  <2> QED BY <1>0, <2>1, <2>2, <2>3 DEF GenInv, CopyOf
<1>10. CASE TimerFires \/ OtherEvent \/ DeliverPod \/ UNCHANGED vars
  BY <1>1, <1>10 DEF TimerFires, OtherEvent, DeliverPod, vars, clusters, pass
<1>11. CASE DeliverCluster
  <2>1. view' = cluster /\ UNCHANGED <<cluster, mem, reported>>
    BY <1>11 DEF DeliverCluster, pass
  <2>2. cluster.gen > 0 /\ view.gen # cluster.gen
    BY <1>0, <1>11 DEF DeliverCluster, GenInv, CopyOf
  <2>3. view.gen < cluster.gen
    BY <1>0, <2>2 DEF GenInv, CopyOf
  <2> QED BY <1>0, <2>1, <2>2, <2>3 DEF GenInv, CopyOf
<1> QED BY <1>3, <1>4, <1>5, <1>6, <1>7, <1>8, <1>9, <1>10, <1>11
        DEF Next, Others, Worker, Faults

\* A pass that can update the status has worked on the present spec.
LEMMA SameGeneration ==
    ASSUME TypeOK, GenInv, mem.gen = cluster.gen
    PROVE  mem = cluster /\ view = cluster
BY DEF TypeOK, Cluster, GenInv, CopyOf

LEMMA NextCountInv ==
    ASSUME TypeOK, CountInv, ReportInv, [Next]_vars
    PROVE  CountInv' /\ ReportInv'
<1>0. /\ Cardinality(active) \in Nat /\ lacking \in Nat /\ surplus \in Nat
      /\ mem.replicas \in Nat /\ IsFiniteSet(active)
  BY PodSets DEF TypeOK, Cluster
<1>1. ASSUME UNCHANGED <<pc, pass>> PROVE CountInv' /\ ReportInv'
  BY <1>1 DEF CountInv, ReportInv, Working, pass
<1>2. ASSUME pc' \in {"idle", "list"} PROVE CountInv' /\ ReportInv'
  BY <1>2 DEF CountInv, ReportInv, Working
<1>3. CASE Others
  BY <1>1, <1>3 DEF Others, EditSpec, PodReadiness, PodGone, Evict, OthersWritePod
<1>4. CASE Begin
  BY <1>2, <1>4 DEF Begin
<1>5. CASE List
  <2>1. Cardinality(active') + lacking' = mem.replicas + surplus'
    BY <1>5, ListFacts
  <2> QED BY <1>5, <2>1 DEF List, CountInv, ReportInv
<1>6. ASSUME NEW p \in Pods, DeleteOutdated(p) PROVE CountInv' /\ ReportInv'
  BY <1>6 DEF DeleteOutdated, CountInv, ReportInv, Working
<1>7. ASSUME NEW p \in Pods, CreateSucceeds(p) PROVE CountInv' /\ ReportInv'
  <2>1. Cardinality(active') = Cardinality(active) + 1
    <3>1. p \notin active /\ active' = active \cup {p}
      BY <1>7 DEF CreateSucceeds, Fresh
    <3> QED BY <1>0, <3>1, FS_AddElement
  <2>2. /\ lacking' = lacking - 1 /\ lacking > 0 /\ pc = "apply"
        /\ UNCHANGED <<pc, mem, surplus, failure>>
    BY <1>7 DEF CreateSucceeds, Creating
  <2> QED BY <1>0, <2>1, <2>2 DEF CountInv, ReportInv, Working
<1>8. ASSUME NEW p \in Pods, DeleteSurplus(p) PROVE CountInv' /\ ReportInv'
  <2>1. Cardinality(active') = Cardinality(active) - 1
    <3>1. p \in active /\ active' = active \ {p}
      BY <1>8 DEF DeleteSurplus
    <3> QED BY <1>0, <3>1, FS_RemoveElement
  <2>2. /\ surplus' = surplus - 1 /\ surplus > 0 /\ pc = "apply"
        /\ UNCHANGED <<pc, mem, lacking, failure>>
    BY <1>8 DEF DeleteSurplus
  <2>3. Cardinality(active') \in Int
    BY <1>0, <2>1
  <2> QED BY <1>0, <2>1, <2>2 DEF CountInv, ReportInv, Working
<1>9. CASE CreateRejected \/ CreateFails
  <2>1. pc' = "apply" /\ failure' # "none"
    BY <1>9 DEF CreateRejected, CreateFails, Creating
  <2> QED BY <2>1 DEF CountInv, ReportInv
<1>10. CASE ToReport
  BY <1>10 DEF ToReport, Applied, CountInv, ReportInv, Working, pass
<1>11. CASE \/ ReturnTransient \/ Report \/ ReportRefused \/ ReportFails \/ Crash
            \/ \E p \in Pods : DeleteFails(p)
  BY <1>2, <1>11 DEF ReturnTransient, Report, ReportRefused, ReportFails, Crash,
                     DeleteFails, ReturnError
<1>12. CASE TimerFires \/ OtherEvent \/ DeliverCluster \/ DeliverPod \/ UNCHANGED vars
  BY <1>1, <1>12 DEF TimerFires, OtherEvent, DeliverCluster, DeliverPod, vars, pass
<1> QED BY <1>3, <1>4, <1>5, <1>6, <1>7, <1>8, <1>9, <1>10, <1>11, <1>12
        DEF Next, Worker, Faults

StatusInv == TypeOK /\ GenInv /\ CountInv /\ ReportInv /\ ReportIsConsistent

LEMMA InitStatusInv == ASSUME Init PROVE StatusInv
<1>1. TypeOK /\ GenInv
  BY InitTypeOK, InitGenInv
<1>2. CountInv /\ ReportInv /\ ReportIsConsistent
  BY DEF Init, CountInv, ReportInv, Working, ReportIsConsistent
<1> QED BY <1>1, <1>2 DEF StatusInv

LEMMA ReportConsistent ==
    ASSUME StatusInv, Report
    PROVE  ReportIsConsistent'
<1> USE DEF StatusInv
<1>1. UNCHANGED cluster /\ mem = cluster
  BY SameGeneration DEF Report, clusters
<1>2. CASE failure = "spec"
  <2>1. /\ reported'.readyReplicas = reported.readyReplicas
        /\ reported'.replicas = reported.replicas
        /\ reported'.rejected
    BY <1>2 DEF Report, TypeOK
  <2> QED BY <2>1 DEF ReportIsConsistent
<1>3. CASE failure # "spec"
  <2>1. /\ reported'.replicas = Cardinality(active)
        /\ reported'.readyReplicas = Cardinality(ready \cap active)
    BY <1>3 DEF Report
  <2>2. Cardinality(ready \cap active) <= Cardinality(active)
    <3>1. IsFiniteSet(active) /\ ready \cap active \in SUBSET active
      BY PodSets DEF TypeOK
    <3> QED BY <3>1, FS_Subset
  <2>3. Cardinality(active) = mem.replicas
    <3>1. failure = "none" /\ lacking = 0 /\ surplus = 0 /\ pc = "report"
      BY <1>3 DEF Report, ReportInv, TypeOK
    <3>2. Cardinality(active) \in Nat /\ mem.replicas \in Nat
      BY PodSets DEF TypeOK, Cluster
    <3> QED BY <3>1, <3>2 DEF CountInv, Working
  <2> QED BY <1>1, <2>1, <2>2, <2>3 DEF ReportIsConsistent
<1> QED BY <1>2, <1>3

LEMMA NextStatusInv ==
    ASSUME StatusInv, [Next]_vars
    PROVE  StatusInv'
<1>1. TypeOK' /\ GenInv' /\ CountInv' /\ ReportInv'
  BY NextTypeOK, NextGenInv, NextCountInv DEF StatusInv
<1>2. ReportIsConsistent'
  <2>1. ASSUME UNCHANGED <<cluster, reported>> PROVE ReportIsConsistent'
    BY <2>1 DEF StatusInv, ReportIsConsistent
  <2>2. ASSUME NEW h \in Templates, NEW n \in 0..MaxReplicas, EditSpec(h, n)
        PROVE  ReportIsConsistent'
    <3>1. cluster'.gen = cluster.gen + 1 /\ reported' = reported
      BY <2>2 DEF EditSpec
    <3>2. cluster'.gen # reported.gen
      BY <3>1 DEF StatusInv, GenInv, TypeOK, Cluster
    <3> QED BY <3>1, <3>2 DEF StatusInv, ReportIsConsistent
  <2>3. CASE \E p \in Pods : PodReadiness(p) \/ PodGone(p) \/ Evict(p)
    BY <2>1, <2>3 DEF PodReadiness, PodGone, Evict, OthersWritePod, clusters
  <2>4. CASE Worker /\ ~Report
    BY <2>1, <2>4 DEF Worker, Begin, List, DeleteOutdated, CreateSucceeds,
         DeleteSurplus, CreateRejected, ReturnTransient, ToReport, ReportRefused,
         clusters
  <2>5. CASE Report
    BY <2>5, ReportConsistent
  <2>6. CASE Faults
    BY <2>1, <2>6 DEF Faults, DeleteFails, CreateFails, ReportFails, Crash, clusters
  <2>7. CASE TimerFires \/ OtherEvent \/ DeliverCluster \/ DeliverPod \/ UNCHANGED vars
    BY <2>1, <2>7 DEF TimerFires, OtherEvent, DeliverCluster, DeliverPod, vars, clusters
  <2> QED BY <2>2, <2>3, <2>4, <2>5, <2>6, <2>7 DEF Next, Others
<1> QED BY <1>1, <1>2 DEF StatusInv

\* reconcileWorkerPool's status never counts more ready pods than pods, nor,
\* for the generation it names, a pool that is not of the desired size.
THEOREM StatusIsConsistent == Spec => []ReportIsConsistent
<1>1. StatusInv => ReportIsConsistent
  BY DEF StatusInv
<1> QED BY <1>1, InitStatusInv, NextStatusInv, PTL DEF Spec

-----------------------------------------------------------------------------
(* The cache of pods. *)

\* A write adds a version of one pod, which is then its newest.
LEMMA WriteFacts ==
    ASSUME TypeOK, NewestIsCurrent,
           NEW p \in Pods, NEW version \in Pod, WritePod(p, version)
    PROVE  /\ \A q \in Pods : pods'[q] = IF q = p THEN version ELSE pods[q]
           /\ podStream' # <<>>
           /\ NewestIsCurrent'
<1> DEFINE e == [key |-> p, version |-> version]
<1>1. /\ podsView' = podsView
      /\ podStream' = Append(podStream, e)
      /\ pods' = [pods EXCEPT ![p] = version]
  BY DEF WritePod
<1>2. /\ podStream \in Seq(Version)
      /\ pods \in [Pods -> Pod]
      /\ InStep(podsView, podStream, pods, Pods)
  BY DEF TypeOK, NewestIsCurrent, Version
<1>3. e \in Version /\ e.key = p /\ e.version = version
  BY DEF Version
<1> HIDE DEF e
<1>4. InStep(podsView, Append(podStream, e), [pods EXCEPT ![e.key] = e.version], Pods)
  BY <1>2, <1>3, WriteStaysInStep DEF Version
<1>5. Append(podStream, e) # <<>>
  BY <1>2, <1>3, AppendPlaces
<1> QED BY <1>1, <1>2, <1>3, <1>4, <1>5 DEF NewestIsCurrent

\* How a step touches the pods and the informer.
LEMMA PodSteps ==
    ASSUME TypeOK, [Next]_vars
    PROVE  \/ UNCHANGED podVars
           \/ \E p \in Pods, version \in Pod : WritePod(p, version)
           \/ DeliverPod
           \/ Crash
<1> DEFINE Writes == \E p \in Pods, version \in Pod : WritePod(p, version)
<1>1. ASSUME NEW p \in Pods, PodReadiness(p) PROVE Writes
  <2>1. [pods[p] EXCEPT !.ready = ~@] \in Pod
    BY DEF TypeOK, Pod
  <2> QED BY <1>1, <2>1 DEF PodReadiness, OthersWritePod
<1>2. ASSUME NEW p \in Pods, PodGone(p) \/ Evict(p) PROVE Writes
  BY <1>2, ValueTypes DEF PodGone, Evict, OthersWritePod
<1>3. ASSUME NEW p \in Pods, ApplyDelete(p) PROVE UNCHANGED podVars \/ Writes
  BY <1>3, ValueTypes DEF ApplyDelete
<1>4. NewPod \in Pod
  BY DEF NewPod, Pod, TypeOK, Cluster
<1>5. ASSUME NEW p \in Pods, CreateSucceeds(p) PROVE Writes
  BY <1>4, <1>5 DEF CreateSucceeds
<1>6. ASSUME CreateFails PROVE UNCHANGED podVars \/ Writes
  BY <1>4, <1>6 DEF CreateFails, Fresh
<1>7. CASE Others
  <2>1. ASSUME NEW h \in Templates, NEW n \in 0..MaxReplicas, EditSpec(h, n)
        PROVE  UNCHANGED podVars
    BY <2>1 DEF EditSpec
  <2> QED BY <1>1, <1>2, <1>7, <2>1 DEF Others
<1>8. CASE Worker
  BY <1>3, <1>5, <1>8 DEF Worker, Begin, List, DeleteOutdated, DeleteSurplus,
        CreateRejected, ReturnTransient, ToReport, Report, ReportRefused
<1>9. CASE Faults
  BY <1>3, <1>6, <1>9 DEF Faults, DeleteFails, ReportFails
<1>10. CASE TimerFires \/ OtherEvent \/ DeliverCluster \/ DeliverPod \/ UNCHANGED vars
  BY <1>10 DEF TimerFires, OtherEvent, DeliverCluster, vars, podVars
<1> QED BY <1>7, <1>8, <1>9, <1>10 DEF Next

LEMMA NextNewestIsCurrent ==
    ASSUME TypeOK, NewestIsCurrent, [Next]_vars
    PROVE  NewestIsCurrent'
<1>1. CASE UNCHANGED podVars
  BY <1>1 DEF podVars, NewestIsCurrent
<1>2. CASE \E p \in Pods, version \in Pod : WritePod(p, version)
  BY <1>2, WriteFacts
<1>3. CASE DeliverPod
  <2>1. /\ podStream \in Seq([key : Pods, version : Pod]) /\ podStream # <<>>
        /\ podsView \in [Pods -> Pod]
        /\ InStep(podsView, podStream, pods, Pods)
    BY <1>3 DEF DeliverPod, TypeOK, NewestIsCurrent
  <2>2. InStep([podsView EXCEPT ![Head(podStream).key] = Head(podStream).version],
               Tail(podStream), pods, Pods)
    BY <2>1, DeliveryStaysInStep
  <2> QED BY <1>3, <2>2 DEF DeliverPod, NewestIsCurrent
<1>4. CASE Crash
  BY <1>4, FreshIsInStep DEF Crash, NewestIsCurrent
<1> QED BY <1>1, <1>2, <1>3, <1>4, PodSteps

\* Nothing is on its way: the cache shows the pods as they are.
LEMMA CacheIsCurrent ==
    ASSUME NewestIsCurrent, podStream = <<>>
    PROVE  \A p \in Pods : podsView[p] = pods[p]
BY NothingWaiting DEF NewestIsCurrent

\* A deletion takes an alive pod out of the alive ones.
LEMMA DeleteFacts ==
    ASSUME TypeOK, NewestIsCurrent, NEW p \in Pods, ApplyDelete(p),
           pods[p].life = "alive"
    PROVE  /\ podStream' # <<>>
           /\ Alive' = Alive \ {p}
           /\ \A q \in Pods : q # p => pods'[q] = pods[q]
<1>1. PICK version \in {Leaving, NoPod} : WritePod(p, version)
  BY DEF ApplyDelete
<1>2. version \in Pod /\ version.life # "alive"
  BY ValueTypes
<1>3. /\ \A q \in Pods : pods'[q] = IF q = p THEN version ELSE pods[q]
      /\ podStream' # <<>>
  BY <1>1, <1>2, WriteFacts
<1> QED BY <1>2, <1>3 DEF Alive

-----------------------------------------------------------------------------
(* A pass that nobody disturbs. *)

LEMMA NextExactInv ==
    ASSUME TypeOK, NewestIsCurrent, ExactInv, [Next]_vars
    PROVE  ExactInv'
<1> SUFFICES ASSUME Working', undisturbed', failure' = "none"
             PROVE  /\ Alive' = active' \cup outdated'
                    /\ active' \cap outdated' = {}
                    /\ \A p \in active' : pods'[p].hash = mem'.hash
  BY DEF ExactInv
<1> DEFINE Goal == /\ Alive' = active' \cup outdated'
                   /\ active' \cap outdated' = {}
                   /\ \A p \in active' : pods'[p].hash = mem'.hash
           Premise == Working /\ undisturbed /\ failure = "none"
<1>0. Premise => /\ Alive = active \cup outdated
                 /\ active \cap outdated = {}
                 /\ \A p \in active : pods[p].hash = mem.hash
  BY DEF ExactInv
<1>1. ASSUME Premise, UNCHANGED <<pods, mem, active, outdated>> PROVE Goal
  BY <1>0, <1>1 DEF Alive
<1>2. ASSUME Premise, UNCHANGED <<mem, active, outdated>>,
             \A q \in Pods : /\ pods'[q].life = "alive" <=> pods[q].life = "alive"
                             /\ pods[q].life = "alive" => pods'[q].hash = pods[q].hash
      PROVE  Goal
  <2>1. Alive' = Alive
    BY <1>2 DEF Alive
  <2>2. \A q \in active : q \in Pods /\ pods[q].life = "alive"
    BY <1>0, <1>2 DEF Alive
  <2> QED BY <1>0, <1>2, <2>1, <2>2
<1>3. CASE Others
  <2>1. ASSUME NEW h \in Templates, NEW n \in 0..MaxReplicas, EditSpec(h, n) PROVE Goal
    BY <1>1, <2>1 DEF EditSpec, podVars, pass, Working
  <2>2. ASSUME NEW p \in Pods, PodReadiness(p) PROVE Goal
    <3> DEFINE version == [pods[p] EXCEPT !.ready = ~@]
    <3>1. /\ version \in Pod /\ version.life = pods[p].life
          /\ version.hash = pods[p].hash
      BY DEF TypeOK, Pod
    <3>2. WritePod(p, version) /\ UNCHANGED <<pc, pass, undisturbed>>
      BY <2>2 DEF PodReadiness, OthersWritePod
    <3> HIDE DEF version
    <3>3. \A q \in Pods : pods'[q] = IF q = p THEN version ELSE pods[q]
      BY <3>1, <3>2, WriteFacts
    <3> QED BY <1>2, <3>1, <3>2, <3>3 DEF pass, Working
  <2>3. ASSUME NEW p \in Pods, PodGone(p) PROVE Goal
    <3>1. /\ WritePod(p, NoPod) /\ pods[p].life # "alive"
          /\ UNCHANGED <<pc, pass, undisturbed>>
      BY <2>3 DEF PodGone, OthersWritePod
    <3>2. \A q \in Pods : pods'[q] = IF q = p THEN NoPod ELSE pods[q]
      BY <3>1, ValueTypes, WriteFacts
    <3> QED BY <1>2, <3>1, <3>2, ValueTypes DEF pass, Working
  <2>4. ASSUME NEW p \in Pods, Evict(p) PROVE Goal
    BY <2>4 DEF Evict
  <2> QED BY <1>3, <2>1, <2>2, <2>3, <2>4 DEF Others
<1>4. CASE List
  <2>1. podStream = <<>> /\ UNCHANGED <<pods, mem>>
    BY <1>4 DEF List, podVars
  <2>2. \A p \in Pods : podsView[p] = pods[p]
    BY <2>1, CacheIsCurrent
  <2>3. /\ active' = {p \in Pods : podsView[p].life = "alive"
                                   /\ podsView[p].hash = mem.hash}
        /\ outdated' = {p \in Pods : podsView[p].life = "alive"
                                     /\ podsView[p].hash # mem.hash}
    BY <1>4, ListFacts
  <2> QED BY <2>1, <2>2, <2>3 DEF Alive
<1>5. ASSUME NEW p \in Pods, DeleteOutdated(p) PROVE Goal
  <2>1. /\ Premise /\ p \in outdated /\ ApplyDelete(p)
        /\ outdated' = outdated \ {p} /\ UNCHANGED <<mem, active>>
    BY <1>5 DEF DeleteOutdated, Working
  <2>2. pods[p].life = "alive" /\ p \notin active
    BY <1>0, <2>1 DEF Alive
  <2>3. Alive' = Alive \ {p} /\ \A q \in Pods : q # p => pods'[q] = pods[q]
    BY <2>1, <2>2, DeleteFacts
  <2> QED BY <1>0, <2>1, <2>2, <2>3 DEF TypeOK
<1>6. ASSUME NEW p \in Pods, CreateSucceeds(p) PROVE Goal
  <2>1. /\ Premise /\ p \in Fresh /\ WritePod(p, NewPod)
        /\ active' = active \cup {p} /\ UNCHANGED <<mem, outdated>>
    BY <1>6 DEF CreateSucceeds, Creating, Working
  <2>2. NewPod \in Pod /\ NewPod.life = "alive" /\ NewPod.hash = mem.hash
    BY DEF NewPod, Pod, TypeOK, Cluster
  <2>3. \A q \in Pods : pods'[q] = IF q = p THEN NewPod ELSE pods[q]
    BY <2>1, <2>2, WriteFacts
  <2>4. Alive' = Alive \cup {p}
    BY <2>2, <2>3 DEF Alive
  <2>5. p \notin active /\ p \notin outdated
    BY <2>1 DEF Fresh
  <2> QED BY <1>0, <2>1, <2>2, <2>3, <2>4, <2>5 DEF TypeOK
<1>7. ASSUME NEW p \in Pods, DeleteSurplus(p) PROVE Goal
  <2>1. /\ Premise /\ p \in active /\ ApplyDelete(p) /\ outdated = {}
        /\ active' = active \ {p} /\ UNCHANGED <<mem, outdated>>
    BY <1>7 DEF DeleteSurplus, Working
  <2>2. pods[p].life = "alive"
    BY <1>0, <2>1 DEF Alive
  <2>3. Alive' = Alive \ {p} /\ \A q \in Pods : q # p => pods'[q] = pods[q]
    BY <2>1, <2>2, DeleteFacts
  <2> QED BY <1>0, <2>1, <2>2, <2>3 DEF TypeOK
<1>8. CASE CreateRejected \/ CreateFails
  BY <1>8 DEF CreateRejected, CreateFails
<1>9. CASE ToReport
  BY <1>1, <1>9 DEF ToReport, Applied, Working, podVars, pass
<1>10. CASE \/ Begin \/ ReturnTransient \/ Report \/ ReportRefused \/ ReportFails
            \/ Crash \/ \E p \in Pods : DeleteFails(p)
  BY <1>10 DEF Begin, ReturnTransient, Report, ReportRefused, ReportFails, Crash,
               DeleteFails, ReturnError, Working
<1>11. CASE TimerFires \/ OtherEvent \/ DeliverCluster \/ DeliverPod \/ UNCHANGED vars
  BY <1>1, <1>11 DEF TimerFires, OtherEvent, DeliverCluster, DeliverPod, vars,
                     podVars, pass, Working
<1> QED BY <1>3, <1>4, <1>5, <1>6, <1>7, <1>8, <1>9, <1>10, <1>11
        DEF Next, Worker, Faults

PassInv == StatusInv /\ NewestIsCurrent /\ ExactInv

LEMMA InitNewestIsCurrent == ASSUME Init PROVE NewestIsCurrent
BY FreshIsInStep DEF Init, NewestIsCurrent

\* reconcileWorkerPool does the whole job in one pass when its list was current
\* and nobody else deletes a pod meanwhile: the pods it reports are the alive
\* ones, all of the spec's template and as many as the spec asks for.
THEOREM OnePassIsEnough == Spec => []UndisturbedPassIsExact
<1>1. ASSUME Init PROVE PassInv
  <2>1. ExactInv
    BY <1>1 DEF Init, ExactInv, Working
  <2> QED BY <1>1, <2>1, InitStatusInv, InitNewestIsCurrent DEF PassInv
<1>2. ASSUME PassInv, [Next]_vars PROVE PassInv'
  <2>1. TypeOK
    BY <1>2 DEF PassInv, StatusInv
  <2> QED BY <1>2, <2>1, NextStatusInv, NextNewestIsCurrent, NextExactInv DEF PassInv
<1>3. ASSUME PassInv PROVE UndisturbedPassIsExact
  <2> SUFFICES ASSUME pc = "report", undisturbed, failure = "none"
               PROVE  /\ Alive = active
                      /\ Alive = Current(mem.hash)
                      /\ Cardinality(active) = mem.replicas
    BY DEF UndisturbedPassIsExact
  <2>1. TypeOK /\ CountInv /\ ReportInv /\ ExactInv
    BY <1>3 DEF PassInv, StatusInv
  <2>2. outdated = {} /\ lacking = 0 /\ surplus = 0
    BY <2>1 DEF ReportInv
  <2>3. Alive = active /\ \A p \in active : pods[p].hash = mem.hash
    BY <2>1, <2>2 DEF ExactInv, Working
  <2>4. Cardinality(active) \in Nat /\ mem.replicas \in Nat
    BY <2>1, PodSets DEF TypeOK, Cluster
  <2>5. Cardinality(active) = mem.replicas
    BY <2>1, <2>2, <2>4 DEF CountInv, Working
  <2> QED BY <2>3, <2>5 DEF Current
<1> QED BY <1>1, <1>2, <1>3, PTL DEF Spec

-----------------------------------------------------------------------------
(* Nothing is left undone. *)

LEMMA NextListedInv ==
    ASSUME TypeOK, NewestIsCurrent, ListedInv, [Next]_vars
    PROVE  ListedInv'
<1>1. ASSUME podStream' # <<>> \/ queue' # "none" \/ pc' \in {"idle", "list"}
      PROVE  ListedInv'
  BY <1>1 DEF ListedInv, Working
<1>2. ASSUME pc = "apply" \/ pc' = pc,
             UNCHANGED <<queue, podStream, podsView, mem, active, outdated, ready>>
      PROVE  ListedInv'
  BY <1>2 DEF ListedInv, Listed, Working
<1>3. ASSUME \E p \in Pods, version \in Pod : WritePod(p, version)
      PROVE  ListedInv'
  BY <1>1, <1>3, WriteFacts
<1>4. ASSUME NEW p \in Pods, ApplyDelete(p), pc = "apply", p \in active \cup outdated,
             queue' = queue
      PROVE  ListedInv'
  <2>1. CASE pods[p].life = "alive"
    BY <1>1, <1>4, <2>1, DeleteFacts
  <2>2. CASE pods[p].life # "alive"
    <3>1. UNCHANGED podStream
      BY <1>4, <2>2 DEF ApplyDelete, podVars
    <3>2. ASSUME queue = "none", podStream = <<>> PROVE FALSE
      <4>1. podsView[p] = pods[p]
        BY <3>2, CacheIsCurrent
      <4>2. podsView[p].life = "alive"
        BY <1>4, <3>2 DEF ListedInv, Listed, Working
      <4> QED BY <2>2, <4>1, <4>2
    <3> QED BY <1>1, <1>4, <3>1, <3>2
  <2> QED BY <2>1, <2>2
<1>5. CASE Others
  <2>1. ASSUME NEW h \in Templates, NEW n \in 0..MaxReplicas, EditSpec(h, n)
        PROVE  ListedInv'
    BY <1>2, <2>1 DEF EditSpec, podVars, pass
  <2>2. ASSUME NEW p \in Pods, PodReadiness(p) \/ PodGone(p) \/ Evict(p)
        PROVE  ListedInv'
    <3>1. [pods[p] EXCEPT !.ready = ~@] \in Pod
      BY DEF TypeOK, Pod
    <3> QED BY <1>3, <2>2, <3>1, ValueTypes
            DEF PodReadiness, PodGone, Evict, OthersWritePod
  <2> QED BY <1>5, <2>1, <2>2 DEF Others
<1>6. CASE List
  <2>1. UNCHANGED <<mem, podsView>>
    BY <1>6 DEF List, podVars
  <2>2. /\ active' = {p \in Pods : podsView[p].life = "alive"
                                   /\ podsView[p].hash = mem.hash}
        /\ outdated' = {p \in Pods : podsView[p].life = "alive"
                                     /\ podsView[p].hash # mem.hash}
        /\ ready' = {p \in active' : podsView[p].ready}
    BY <1>6, ListFacts
  <2> QED BY <2>1, <2>2 DEF ListedInv, Listed
<1>7. ASSUME NEW p \in Pods, DeleteOutdated(p) \/ DeleteSurplus(p) PROVE ListedInv'
  BY <1>4, <1>7 DEF DeleteOutdated, DeleteSurplus
<1>8. NewPod \in Pod
  BY DEF NewPod, Pod, TypeOK, Cluster
<1>9. ASSUME NEW p \in Pods, CreateSucceeds(p) PROVE ListedInv'
  BY <1>3, <1>8, <1>9 DEF CreateSucceeds
<1>10. CASE CreateFails
  <2>1. CASE UNCHANGED podVars
    BY <1>2, <1>10, <2>1 DEF CreateFails, podVars
  <2> QED BY <1>3, <1>8, <1>10, <2>1 DEF CreateFails, Fresh
<1>11. CASE CreateRejected \/ ToReport
  BY <1>2, <1>11 DEF CreateRejected, ToReport, Creating, Applied, podVars, pass
<1>12. CASE \/ Begin \/ ReturnTransient \/ Report \/ ReportRefused \/ ReportFails
            \/ Crash \/ \E p \in Pods : DeleteFails(p)
  BY <1>1, <1>12 DEF Begin, ReturnTransient, Report, ReportRefused, ReportFails,
                     Crash, DeleteFails, ReturnError
<1>13. CASE TimerFires \/ OtherEvent \/ DeliverCluster \/ DeliverPod
  BY <1>1, <1>13 DEF TimerFires, OtherEvent, DeliverCluster, DeliverPod, Enqueue
<1>14. CASE UNCHANGED vars
  BY <1>2, <1>14 DEF vars
<1> QED BY <1>5, <1>6, <1>7, <1>9, <1>10, <1>11, <1>12, <1>13, <1>14
        DEF Next, Worker, Faults

SettledInv == StatusInv /\ NewestIsCurrent /\ ListedInv /\ SettledMeansDone

\* A status written with nothing queued and nothing on its way tells the truth.
LEMMA ReportSettles ==
    ASSUME SettledInv, Report
    PROVE  SettledMeansDone'
<1> SUFFICES ASSUME queue = "none", podStream = <<>>, ~reported'.rejected
             PROVE  /\ Alive' = Current(cluster.hash)'
                    /\ Cardinality(Alive') = cluster'.replicas
                    /\ reported'.gen = cluster'.gen
                    /\ reported'.replicas = Cardinality(Alive')
                    /\ reported'.readyReplicas =
                           Cardinality({p \in Alive' : pods'[p].ready})
  BY DEF Report, SettledMeansDone, Settled, podVars
<1>0. TypeOK /\ CountInv /\ ReportInv /\ NewestIsCurrent /\ ListedInv /\ GenInv
  BY DEF SettledInv, StatusInv
<1>1. mem = cluster /\ pc = "report" /\ UNCHANGED <<cluster, pods>>
  BY <1>0, SameGeneration DEF Report, clusters, podVars
<1>2. failure = "none"
  BY <1>0, <1>1 DEF Report, ReportInv, TypeOK
<1>3. /\ reported'.gen = mem.gen
      /\ reported'.replicas = Cardinality(active)
      /\ reported'.readyReplicas = Cardinality(ready \cap active)
  BY <1>2 DEF Report
<1>4. Cardinality(active) = mem.replicas
  <2>1. lacking = 0 /\ surplus = 0
    BY <1>0, <1>1 DEF ReportInv
  <2>2. Cardinality(active) \in Nat /\ mem.replicas \in Nat
    BY <1>0, PodSets DEF TypeOK, Cluster
  <2> QED BY <1>0, <1>1, <1>2, <2>1, <2>2 DEF CountInv, Working
<1>5. \A p \in Pods : podsView[p] = pods[p]
  BY <1>0, CacheIsCurrent
<1>6. Listed(podsView) /\ outdated = {}
  BY <1>0, <1>1 DEF ListedInv, ReportInv, Working
<1>7. Alive = active /\ \A p \in active : pods[p].hash = mem.hash
  BY <1>5, <1>6 DEF Listed, Alive
<1>8. ready \cap active = {p \in Alive : pods[p].ready}
  BY <1>5, <1>6, <1>7 DEF Listed, Alive
<1>9. Alive' = Alive /\ Current(cluster.hash)' = Current(cluster.hash)
  BY <1>1 DEF Alive, Current
<1>10. Alive = Current(cluster.hash)
  BY <1>1, <1>7 DEF Current
<1>11. {p \in Alive' : pods'[p].ready} = {p \in Alive : pods[p].ready}
  BY <1>1, <1>9
<1> QED BY <1>1, <1>3, <1>4, <1>7, <1>8, <1>9, <1>10, <1>11

LEMMA NextSettledInv ==
    ASSUME SettledInv, [Next]_vars
    PROVE  SettledInv'
<1>0. TypeOK /\ NewestIsCurrent /\ ListedInv /\ StatusInv
  BY DEF SettledInv, StatusInv
<1>1. StatusInv' /\ NewestIsCurrent' /\ ListedInv'
  BY <1>0, NextStatusInv, NextNewestIsCurrent, NextListedInv
<1> SUFFICES SettledMeansDone'
  BY <1>1 DEF SettledInv
<1>2. ASSUME pc' # "idle" \/ queue' # "none" \/ podStream' # <<>> \/ view' # cluster'
      PROVE  SettledMeansDone'
  BY <1>2 DEF SettledMeansDone, Settled
<1>3. CASE Others
  <2>1. ASSUME NEW h \in Templates, NEW n \in 0..MaxReplicas, EditSpec(h, n)
        PROVE  SettledMeansDone'
    <3>1. cluster'.gen = cluster.gen + 1 /\ view' = cluster
      BY <2>1 DEF EditSpec
    <3>2. view' # cluster'
      BY <1>0, <3>1 DEF TypeOK, Cluster
    <3> QED BY <1>2, <3>2
  <2>2. ASSUME NEW p \in Pods, PodReadiness(p) \/ PodGone(p) \/ Evict(p)
        PROVE  SettledMeansDone'
    <3>1. [pods[p] EXCEPT !.ready = ~@] \in Pod
      BY <1>0 DEF TypeOK, Pod
    <3>2. podStream' # <<>>
      BY <1>0, <2>2, <3>1, ValueTypes, WriteFacts
      DEF PodReadiness, PodGone, Evict, OthersWritePod
    <3> QED BY <1>2, <3>2
  <2> QED BY <1>3, <2>1, <2>2 DEF Others
<1>4. CASE \/ Begin \/ List \/ CreateRejected \/ ToReport \/ CreateFails
           \/ \E p \in Pods :
                 DeleteOutdated(p) \/ CreateSucceeds(p) \/ DeleteSurplus(p)
  <2>1. pc' # "idle"
    BY <1>4 DEF Begin, List, CreateRejected, ToReport, CreateFails, DeleteOutdated,
                CreateSucceeds, DeleteSurplus, Creating, Applied
  <2> QED BY <1>2, <2>1
<1>5. CASE \/ ReturnTransient \/ ReportRefused \/ ReportFails
           \/ \E p \in Pods : DeleteFails(p)
  <2>1. queue' # "none"
    BY <1>5 DEF ReturnTransient, ReportRefused, ReportFails, DeleteFails,
                ReturnError, AddAfter
  <2> QED BY <1>2, <2>1
<1>6. CASE Report
  BY <1>6, ReportSettles
<1>7. CASE Crash \/ TimerFires \/ OtherEvent \/ DeliverCluster \/ DeliverPod
  <2>1. queue' # "none"
    BY <1>7 DEF Crash, TimerFires, OtherEvent, DeliverCluster, DeliverPod, Enqueue
  <2> QED BY <1>2, <2>1
<1>8. CASE UNCHANGED vars
  BY <1>8 DEF vars, SettledInv, SettledMeansDone, Settled, Alive, Current
<1> QED BY <1>3, <1>4, <1>5, <1>6, <1>7, <1>8 DEF Next, Worker, Faults

\* The operator never goes to sleep on a wrong worker pool: when nothing is
\* queued, in flight or running, and the last pass was not rejected, exactly the
\* desired pods are alive and the status counts them and the ready ones right.
THEOREM NeverSleepsOnWork == Spec => []SettledMeansDone
<1>1. ASSUME Init PROVE SettledInv
  <2>1. ListedInv /\ SettledMeansDone
    BY <1>1 DEF Init, ListedInv, Working, SettledMeansDone, Settled
  <2> QED BY <1>1, <2>1, InitStatusInv, InitNewestIsCurrent DEF SettledInv
<1>2. SettledInv => SettledMeansDone
  BY DEF SettledInv
<1> QED BY <1>1, <1>2, NextSettledInv, PTL DEF Spec

=============================================================================
