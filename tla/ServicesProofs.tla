--------------------------- MODULE ServicesProofs ---------------------------
(***************************************************************************)
(* Theorems about Services, for every set of Services and all bounds on    *)
(* what others, failures and crashes do.                                   *)
(***************************************************************************)
EXTENDS Services, InformerProofs

-----------------------------------------------------------------------------
(* The inductive invariant. *)

Version == [key : Names, version : Service]

\* Every variable holds a value of its kind.
TypeInv ==
    /\ cluster \in Cluster /\ view \in Cluster /\ mem \in Cluster
    /\ services \in [Names -> Service] /\ cache \in [Names -> Service]
    /\ copy \in [Names -> Service]
    /\ stream \in Seq(Version)
    /\ queue \in {"none", "due", "delayed"}
    /\ pc \in {"idle", "services"}
    /\ stage \in [Names -> {"get", "create", "update", "done"}]
    /\ fresh \in [Names -> BOOLEAN]
    /\ errs \in [Names -> {"none", "spec", "transient"}]
    /\ reported \in [gen : Nat, rejected : BOOLEAN]
    /\ disturbed \in Nat

\* The copies of the spec are of the spec or older.
GenInv == view.gen > 0 /\ CopyOf(view, cluster) /\ CopyOf(mem, view)

\* An undelivered version of the Service will wake the loop.
WillWake(v, n) == \E i \in 1..Len(v) : v[i].key = n /\ ~v[i].version.foreign

\* Nothing is claimed of Service n: it is a stranger's, or an event about it is
\* on its way.
Excused(stored, v, n) == stored[n].foreign \/ WillWake(v, n)

\* A pass starts all over; what is updated has been found, and a copy that is
\* still fresh is what is stored; what is created is missing.
StageInv ==
    \A n \in Names :
        /\ pc = "idle" => stage[n] = "get"
        /\ stage[n] = "update" =>
              copy[n].exists /\ (fresh[n] => copy[n] = services[n])
        /\ stage[n] = "create" /\ queue = "none" =>
              ~services[n].exists \/ Excused(services, stream, n)

\* The newest version on its way is what is stored.
NewestInv ==
    \A n \in Names : Waiting(stream, n) =>
        \E i \in 1..Len(stream) :
           /\ stream[i].key = n /\ stream[i].version = services[n]
           /\ \A j \in 1..Len(stream) : stream[j].key = n => j <= i

\* The informer misses no version of a Service.
CacheInv == InStep(cache, stream, services, Names) /\ NewestInv

\* What reconcileService has returned is true, and stays so until an event.
DoneInv ==
    \A n \in Names : pc = "services" /\ stage[n] = "done" =>
        LET ask == mem.want[n] IN
        /\ errs[n] = "none" => ask.config # "invalid"
        /\ queue = "none" /\ ~Excused(services, stream, n) =>
              /\ errs[n] = "spec" => Refuses(services[n], ask)
              /\ errs[n] = "none" => Serves(services[n], ask)

\* A loop that sleeps has reported the spec it knows, and truly.
SleepInv ==
    pc = "idle" /\ queue = "none" /\ view = cluster =>
        /\ reported.gen = cluster.gen
        /\ \A n \in Names :
              LET ask == cluster.want[n] IN
              /\ \/ Excused(services, stream, n) \/ Serves(services[n], ask)
                 \/ Refuses(services[n], ask) /\ reported.rejected
              /\ ask.config = "invalid" => reported.rejected
        /\ reported.rejected =>
              \E n \in Names : \/ Refuses(services[n], cluster.want[n])
                               \/ Excused(services, stream, n)

ServedInv == TypeInv /\ GenInv /\ CacheInv /\ StageInv /\ DoneInv /\ SleepInv

-----------------------------------------------------------------------------
(* Types. *)

LEMMA ValueTypes ==
    /\ NoService \in Service /\ NoCluster \in Cluster
    /\ NoCluster.gen = 0
BY AsksAssumption DEF NoService, Service, NoCluster, Cluster, Addresses

ObjectTypes ==
    /\ services \in [Names -> Service] /\ cache \in [Names -> Service]
    /\ stream \in Seq(Version)

LEMMA WriteTypes ==
    ASSUME TypeInv, NEW n \in Names, NEW version \in Service,
           WriteService(n, version)
    PROVE  /\ ObjectTypes'
           /\ services' = [services EXCEPT ![n] = version]
           /\ \/ version = services[n] /\ services' = services /\ stream' = stream
              \/ stream' = Append(stream, [key |-> n, version |-> version])
<1>1. [key |-> n, version |-> version] \in Version
  BY DEF Version
<1>2. stream \in Seq(Version)
  BY DEF TypeInv
<1>3. stream' \in Seq(Version)
  BY <1>1, <1>2 DEF WriteService
<1>4. version = services[n] => services' = services
  BY DEF WriteService, TypeInv
<1> QED BY <1>3, <1>4 DEF WriteService, TypeInv, ObjectTypes

\* The versions others write.
LEMMA OthersVersions ==
    ASSUME TypeInv, NEW n \in Names
    PROVE  /\ \A address \in Addresses \ {"invalid"} :
                 [NoService EXCEPT !.exists = TRUE, !.foreign = TRUE,
                                   !.address = address] \in Service
           /\ [NoService EXCEPT !.foreign = services[n].foreign] \in Service
           /\ [services[n] EXCEPT !.config = "other"] \in Service
           /\ [services[n] EXCEPT !.notes = TRUE] \in Service
<1>1. services[n] \in Service
  BY DEF TypeInv
<1> QED BY <1>1, ValueTypes DEF Service

\* What others do to Service n.
OthersChange(n) ==
    \/ \E address \in Addresses \ {"invalid"} : ForeignCreate(n, address)
    \/ ServiceDeleted(n) \/ ServiceEdited(n) \/ Annotate(n)

LEMMA OthersEditOrChange ==
    ASSUME Others
    PROVE  \/ \E n \in Names : \E ask \in Asks[n] : EditSpec(n, ask)
           \/ \E n \in Names : OthersChange(n)
BY DEF Others, OthersChange

\* It is a change indeed.
LEMMA OthersChanges ==
    ASSUME TypeInv, NEW n \in Names, OthersChange(n)
    PROVE  \E version \in Service : version # services[n] /\ OthersWrite(n, version)
<1>1. services[n] \in Service /\ NoService \in Service
  BY ValueTypes DEF TypeInv
<1>2. ASSUME NEW address \in Addresses \ {"invalid"}, ForeignCreate(n, address)
      PROVE  \E version \in Service : version # services[n] /\ OthersWrite(n, version)
  <2> DEFINE version == [NoService EXCEPT !.exists = TRUE, !.foreign = TRUE,
                                          !.address = address]
  <2>1. version.exists /\ ~services[n].exists /\ OthersWrite(n, version)
    BY <1>1, <1>2 DEF ForeignCreate, Service
  <2>2. version \in Service
    BY OthersVersions
  <2> QED BY <2>1, <2>2
<1>3. CASE ServiceDeleted(n)
  <2> DEFINE version == [NoService EXCEPT !.foreign = services[n].foreign]
  <2>1. ~version.exists /\ services[n].exists /\ OthersWrite(n, version)
    BY <1>1, <1>3 DEF ServiceDeleted, Service, NoService
  <2>2. version \in Service
    BY OthersVersions
  <2> QED BY <2>1, <2>2
<1>4. CASE ServiceEdited(n)
  <2> DEFINE version == [services[n] EXCEPT !.config = "other"]
  <2>1. /\ version.config = "other" /\ services[n].config # "other"
        /\ OthersWrite(n, version)
    BY <1>1, <1>4 DEF ServiceEdited, Service
  <2>2. version \in Service
    BY OthersVersions
  <2> QED BY <2>1, <2>2
<1>5. CASE Annotate(n)
  <2> DEFINE version == [services[n] EXCEPT !.notes = TRUE]
  <2>1. version.notes /\ ~services[n].notes /\ OthersWrite(n, version)
    BY <1>1, <1>5 DEF Annotate, Service
  <2>2. version \in Service
    BY OthersVersions
  <2> QED BY <2>1, <2>2
<1> QED BY <1>2, <1>3, <1>4, <1>5 DEF OthersChange

\* What an accepted request writes.
LEMMA AcceptedWrites ==
    ASSUME TypeInv, StageInv, NEW n \in Names, Accepted(n)
    PROVE  /\ mem.want[n].config # "invalid"
           /\ \E version \in Service : /\ WriteService(n, version)
                                       /\ Serves(version, mem.want[n])
<1>1. mem.want[n] \in Ask
  BY DEF TypeInv, Cluster
<1>2. mem.want[n].config \in {"plain", "exposed"}
  BY <1>1 DEF Accepted, Valid, Admissible, Ask, Configs
<1>3. CASE At(n, "create") /\ WriteService(n, [exists |-> TRUE, foreign |-> FALSE,
                              config |-> mem.want[n].config,
                              address |-> mem.want[n].address, notes |-> FALSE])
  <2> DEFINE version == [exists |-> TRUE, foreign |-> FALSE,
                         config |-> mem.want[n].config,
                         address |-> mem.want[n].address, notes |-> FALSE]
  <2>1. mem.want[n].address \in Addresses \ {"invalid"}
    BY <1>1, <1>3 DEF Accepted, Valid, Admissible, Ask
  <2>2. version \in Service /\ Serves(version, mem.want[n])
    BY <1>2, <2>1 DEF Service, Serves
  <2> QED BY <1>2, <1>3, <2>2
<1>4. CASE /\ At(n, "update")
           /\ WriteService(n, [copy[n] EXCEPT !.config = mem.want[n].config,
                                              !.notes = FALSE])
  <2>1. copy[n] \in Service /\ copy[n].exists
    BY <1>4 DEF At, StageInv, TypeInv
  <2> DEFINE version == [copy[n] EXCEPT !.config = mem.want[n].config, !.notes = FALSE]
  <2>2. version \in Service /\ Serves(version, mem.want[n])
    BY <1>2, <2>1 DEF Service, Serves
  <2> QED BY <1>2, <1>4, <2>2
<1> QED BY <1>3, <1>4 DEF Accepted

PassTypes ==
    /\ mem \in Cluster
    /\ stage \in [Names -> {"get", "create", "update", "done"}]
    /\ copy \in [Names -> Service]
    /\ fresh \in [Names -> BOOLEAN]
    /\ errs \in [Names -> {"none", "spec", "transient"}]

LEMMA ForgetTypes == ASSUME Forget PROVE PassTypes' /\ mem'.gen = 0
BY ValueTypes DEF Forget, PassTypes

LEMMA InitTypeInv == ASSUME Init PROVE TypeInv
<1>1. stream \in Seq(Version)
  BY DEF Init
<1>2. cluster \in Cluster
  BY ValueTypes DEF Init, Cluster
<1> QED BY <1>1, <1>2, ValueTypes DEF Init, TypeInv

LEMMA DisturbType == ASSUME TypeInv, Disturb PROVE disturbed' \in Nat
BY DEF TypeInv, Disturb

LEMMA OthersTypes == ASSUME TypeInv, Others PROVE TypeInv'
<1>1. ASSUME NEW n \in Names, NEW ask \in Asks[n], EditSpec(n, ask)
      PROVE  TypeInv'
  <2>1. ask \in Ask
    BY AsksAssumption
  <2>2. cluster' \in Cluster
    BY <1>1, <2>1 DEF EditSpec, TypeInv, Cluster
  <2> QED BY <1>1, <2>2 DEF EditSpec, TypeInv, objects, pass
<1>2. ASSUME NEW n \in Names, NEW version \in Service, OthersWrite(n, version)
      PROVE  TypeInv'
  <2>1. ObjectTypes'
    BY <1>2, WriteTypes DEF OthersWrite
  <2>2. fresh' \in [Names -> BOOLEAN]
    BY <1>2 DEF OthersWrite, TypeInv
  <2>3. disturbed' \in Nat
    BY <1>2, DisturbType DEF OthersWrite
  <2> QED BY <1>2, <2>1, <2>2, <2>3 DEF OthersWrite, TypeInv, ObjectTypes, clusters
<1>3. ASSUME NEW n \in Names, OthersChange(n) PROVE TypeInv'
  BY <1>2, <1>3, OthersChanges
<1> QED BY <1>1, <1>3, OthersEditOrChange

LEMMA DoneTypes ==
    ASSUME TypeInv, NEW n \in Names, NEW err \in {"none", "spec", "transient"},
           Done(n, err), ObjectTypes', fresh' \in [Names -> BOOLEAN],
           disturbed' \in Nat
    PROVE  TypeInv'
<1>1. /\ stage' \in [Names -> {"get", "create", "update", "done"}]
      /\ errs' \in [Names -> {"none", "spec", "transient"}]
      /\ copy' \in [Names -> Service]
  BY ValueTypes DEF Done, TypeInv
<1> QED BY <1>1 DEF Done, TypeInv, ObjectTypes, clusters

LEMMA NextTypeInv ==
    ASSUME TypeInv, StageInv, [Next]_vars PROVE TypeInv'
<1>1. CASE Begin
  BY <1>1 DEF Begin, TypeInv, clusters, objects
<1>2. ASSUME NEW n \in Names, GetService(n) PROVE TypeInv'
  <2>1. copy' \in [Names -> Service]
    BY <1>2 DEF GetService, TypeInv
  <2>2. fresh' \in [Names -> BOOLEAN]
    <3> DEFINE f == \A i \in DOMAIN stream : stream[i].key # n
    <3>1. f \in BOOLEAN /\ fresh' = [fresh EXCEPT ![n] = f]
      BY <1>2 DEF GetService
    <3> HIDE DEF f
    <3> QED BY <3>1 DEF TypeInv
  <2>3. stage' \in [Names -> {"get", "create", "update", "done"}]
    BY <1>2 DEF GetService, TypeInv
  <2> QED BY <1>2, <2>1, <2>2, <2>3 DEF GetService, TypeInv, clusters, objects
<1>3. ASSUME NEW n \in Names, Accepted(n) PROVE ObjectTypes'
  BY <1>3, AcceptedWrites, WriteTypes
<1>4. ASSUME UNCHANGED objects PROVE ObjectTypes'
  BY <1>4 DEF objects, TypeInv, ObjectTypes
<1>5. ASSUME NEW n \in Names, WriteSucceeds(n) PROVE TypeInv'
  <2>1. fresh' \in [Names -> BOOLEAN] /\ disturbed' \in Nat
    BY <1>5 DEF WriteSucceeds, TypeInv
  <2> QED BY <1>3, <1>5, <2>1, DoneTypes DEF WriteSucceeds
<1>6. ASSUME NEW n \in Names, WriteRejected(n) \/ WriteRefused(n) PROVE TypeInv'
  <2>1. fresh' \in [Names -> BOOLEAN] /\ disturbed' \in Nat
    BY <1>6 DEF WriteRejected, WriteRefused, TypeInv
  <2> QED BY <1>4, <1>6, <2>1, DoneTypes DEF WriteRejected, WriteRefused
<1>7. ASSUME NEW n \in Names, WriteFails(n) PROVE TypeInv'
  <2>1. fresh' \in [Names -> BOOLEAN] /\ disturbed' \in Nat
    BY <1>7, DisturbType DEF WriteFails, TypeInv
  <2> QED BY <1>3, <1>4, <1>7, <2>1, DoneTypes DEF WriteFails
<1>8. CASE Retry
  BY <1>8, ForgetTypes
  DEF Retry, ReturnError, AddAfter, TypeInv, PassTypes, clusters, objects
<1>9. CASE Report
  <2>1. reported' \in [gen : Nat, rejected : BOOLEAN]
    BY <1>9 DEF Report, TypeInv, Cluster
  <2> QED BY <1>9, <2>1, ForgetTypes DEF Report, TypeInv, PassTypes, clusters, objects
<1>10. CASE ReportFails
  BY <1>10, ForgetTypes, DisturbType
  DEF ReportFails, ReturnError, AddAfter, TypeInv, PassTypes, clusters, objects
<1>11. CASE Crash
  <2>1. stream' \in Seq(Version)
    BY <1>11 DEF Crash
  <2> QED BY <1>11, <2>1, ForgetTypes, DisturbType DEF Crash, Enqueue, TypeInv, PassTypes
<1>12. CASE TimerFires
  BY <1>12 DEF TimerFires, Enqueue, TypeInv, clusters, objects, pass
<1>13. CASE DeliverCluster
  BY <1>13 DEF DeliverCluster, Enqueue, TypeInv, objects, pass
<1>14. CASE DeliverService
  <2>1. stream \in Seq(Version) /\ stream # <<>>
    BY <1>14 DEF DeliverService, TypeInv
  <2>2. Head(stream) \in Version /\ Tail(stream) \in Seq(Version)
    BY ONLY <2>1, HeadTailProperties
  <2>3. cache' \in [Names -> Service]
    BY <1>14, <2>2 DEF DeliverService, TypeInv, Version
  <2>4. queue' \in {"none", "due", "delayed"}
    BY <1>14 DEF DeliverService, Enqueue, TypeInv
  <2> QED BY <1>14, <2>2, <2>3, <2>4 DEF DeliverService, TypeInv, clusters, pass
<1>15. CASE UNCHANGED vars
  BY <1>15 DEF vars, TypeInv
<1> QED BY <1>1, <1>2, <1>5, <1>6, <1>7, <1>8, <1>9, <1>10, <1>11, <1>12, <1>13,
           <1>14, <1>15, OthersTypes DEF Next, Worker

-----------------------------------------------------------------------------
(* Copies of the spec. *)

LEMMA NextGenInv ==
    ASSUME TypeInv, GenInv, [Next]_vars
    PROVE  GenInv'
<1>0. cluster.gen \in Nat /\ view.gen \in Nat \ {0} /\ mem.gen \in Nat
  BY DEF TypeInv, Cluster, GenInv
<1>1. ASSUME UNCHANGED <<clusters, mem>> PROVE GenInv'
  BY <1>1 DEF GenInv, CopyOf, clusters
<1>2. ASSUME UNCHANGED clusters, Forget PROVE GenInv'
  BY <1>0, <1>2, ForgetTypes DEF GenInv, CopyOf, clusters
<1>3. ASSUME NEW n \in Names, NEW ask \in Asks[n], EditSpec(n, ask)
      PROVE  GenInv'
  <2>1. cluster'.gen = cluster.gen + 1 /\ UNCHANGED <<view, mem>>
    BY <1>3 DEF EditSpec, pass
  <2> QED BY <1>0, <2>1 DEF GenInv, CopyOf
<1>4. ASSUME NEW n \in Names, OthersChange(n) PROVE GenInv'
  BY <1>1, <1>4, OthersChanges DEF OthersWrite
<1>5. CASE Begin
  <2>1. mem' = view /\ UNCHANGED <<cluster, view>>
    BY <1>5 DEF Begin, clusters
  <2> QED BY <1>0, <2>1 DEF GenInv, CopyOf
<1>6. ASSUME NEW n \in Names, \/ GetService(n) \/ WriteSucceeds(n) \/ WriteRejected(n)
                              \/ WriteRefused(n) \/ WriteFails(n)
      PROVE  GenInv'
  BY <1>1, <1>6 DEF GetService, WriteSucceeds, WriteRejected, WriteRefused,
                    WriteFails, Done
<1>7. CASE Retry \/ Report \/ ReportFails
  BY <1>2, <1>7 DEF Retry, Report, ReportFails, ReturnError
<1>8. CASE Crash
  <2>1. view' = cluster /\ cluster' = cluster /\ mem'.gen = 0
    BY <1>8, ForgetTypes DEF Crash
  <2> QED BY <1>0, <2>1 DEF GenInv, CopyOf
<1>9. CASE TimerFires \/ DeliverService \/ UNCHANGED vars
  BY <1>1, <1>9 DEF TimerFires, DeliverService, vars, clusters, pass
<1>10. CASE DeliverCluster
  <2>1. view' = cluster /\ view # cluster /\ UNCHANGED <<cluster, mem>>
    BY <1>10 DEF DeliverCluster, pass
  <2>2. view.gen < cluster.gen
    BY <1>0, <2>1 DEF GenInv, CopyOf
  <2> QED BY <1>0, <2>1, <2>2 DEF GenInv, CopyOf
<1> QED BY <1>3, <1>4, <1>5, <1>6, <1>7, <1>8, <1>9, <1>10, OthersEditOrChange
        DEF Next, Worker

-----------------------------------------------------------------------------
(* The cache, and the Services of which nothing is claimed. *)

\* A version put on its way is the newest.
LEMMA WriteKeepsCacheInv ==
    ASSUME TypeInv, CacheInv, NEW n \in Names, NEW version \in Service,
           WriteService(n, version)
    PROVE  CacheInv'
<1> DEFINE e == [key |-> n, version |-> version]
<1>1. CASE services' = services /\ stream' = stream
  BY <1>1 DEF WriteService, CacheInv, NewestInv
<1>2. CASE stream' = Append(stream, e)
  <2>1. /\ stream \in Seq([key : Names, version : Service])
        /\ e \in [key : Names, version : Service] /\ e.key = n /\ e.version = version
    BY DEF TypeInv, Version
  <2>2. services' = [services EXCEPT ![n] = version] /\ cache' = cache
    BY DEF WriteService
  <2>3. services \in [Names -> Service]
    BY DEF TypeInv
  <2> HIDE DEF e
  <2>4. /\ InStep(cache, Append(stream, e), [services EXCEPT ![e.key] = e.version],
                  Names)
        /\ \A u \in Names :
              Waiting(Append(stream, e), u) <=> (u = e.key \/ Waiting(stream, u))
    BY <2>1, <2>3, WriteStaysInStep DEF CacheInv
  <2>5. InStep(cache', stream', services', Names)
    BY <1>2, <2>1, <2>2, <2>4
  <2>6. /\ Len(stream) \in Nat /\ Len(stream') = Len(stream) + 1
        /\ stream'[Len(stream) + 1] = e
        /\ \A i \in 1..Len(stream) :
              stream'[i] = stream[i] /\ i \in 1..(Len(stream) + 1)
        /\ \A i \in 1..(Len(stream) + 1) : i = Len(stream) + 1 \/ i \in 1..Len(stream)
    BY <1>2, <2>1, AppendPlaces
  <2>7. ASSUME NEW u \in Names, Waiting(stream', u)
        PROVE  \E i \in 1..Len(stream') :
                  /\ stream'[i].key = u /\ stream'[i].version = services'[u]
                  /\ \A j \in 1..Len(stream') : stream'[j].key = u => j <= i
    <3>1. CASE u = n
      <4>1. /\ Len(stream) + 1 \in 1..Len(stream')
            /\ \A j \in 1..Len(stream') : j <= Len(stream) + 1
        BY <2>6
      <4>2. services'[u] = version
        BY <2>2, <2>3, <3>1
      <4> QED BY <2>1, <2>6, <3>1, <4>1, <4>2
    <3>2. CASE u # n
      <4>1. Waiting(stream, u)
        BY <1>2, <2>1, <2>4, <2>7, <3>2
      <4>2. PICK i \in 1..Len(stream) :
               /\ stream[i].key = u /\ stream[i].version = services[u]
               /\ \A j \in 1..Len(stream) : stream[j].key = u => j <= i
        BY <4>1 DEF CacheInv, NewestInv
      <4>3. services'[u] = services[u]
        BY <2>2, <2>3, <3>2
      <4>4. i \in 1..Len(stream') /\ stream'[i] = stream[i]
        BY <2>6
      <4>5. \A j \in 1..Len(stream') : stream'[j].key = u => j <= i
        BY <2>1, <2>6, <3>2, <4>2
      <4> QED BY <4>2, <4>3, <4>4, <4>5
    <3> QED BY <3>1, <3>2
  <2> QED BY <2>5, <2>7 DEF CacheInv, NewestInv
<1> QED BY <1>1, <1>2, WriteTypes

LEMMA DeliveryKeepsCacheInv ==
    ASSUME TypeInv, CacheInv, DeliverService
    PROVE  CacheInv'
<1>1. /\ stream \in Seq([key : Names, version : Service]) /\ stream # <<>>
      /\ cache \in [Names -> Service] /\ InStep(cache, stream, services, Names)
      /\ cache' = [cache EXCEPT ![Head(stream).key] = Head(stream).version]
      /\ stream' = Tail(stream) /\ services' = services
  BY DEF TypeInv, Version, DeliverService, CacheInv
<1>2. /\ InStep(cache', stream', services', Names)
      /\ \A u \in Names : Waiting(stream', u) => Waiting(stream, u)
  BY <1>1, DeliveryStaysInStep
<1>3. /\ Len(stream) \in Nat \ {0} /\ Len(stream') = Len(stream) - 1
      /\ \A i \in 1..(Len(stream) - 1) :
            stream'[i] = stream[i + 1] /\ i + 1 \in 1..Len(stream)
      /\ \A i \in 1..Len(stream) :
            \/ i = 1
            \/ i - 1 \in 1..(Len(stream) - 1) /\ stream'[i - 1] = stream[i]
  BY <1>1, TailPlaces
<1>4. ASSUME NEW u \in Names, Waiting(stream', u)
      PROVE  \E i \in 1..Len(stream') :
                /\ stream'[i].key = u /\ stream'[i].version = services'[u]
                /\ \A j \in 1..Len(stream') : stream'[j].key = u => j <= i
  <2>1. PICK i \in 1..Len(stream) :
           /\ stream[i].key = u /\ stream[i].version = services[u]
           /\ \A j \in 1..Len(stream) : stream[j].key = u => j <= i
    BY <1>2, <1>4 DEF CacheInv, NewestInv
  <2>2. PICK k \in 1..Len(stream') : stream'[k].key = u
    BY <1>4 DEF Waiting
  <2>3. k + 1 <= i
    BY <1>3, <2>1, <2>2
  <2>4. i # 1
    BY <2>2, <2>3
  <2>5. i - 1 \in 1..Len(stream') /\ stream'[i - 1] = stream[i]
    BY <1>3, <2>4
  <2>6. \A j \in 1..Len(stream') : stream'[j].key = u => j <= i - 1
    <3> SUFFICES ASSUME NEW j \in 1..Len(stream'), stream'[j].key = u
                 PROVE  j <= i - 1
      OBVIOUS
    <3>1. j + 1 <= i
      BY <1>3, <2>1
    <3> QED BY <3>1, <1>3
  <2> QED BY <1>1, <2>1, <2>5, <2>6
<1> QED BY <1>2, <1>4 DEF CacheInv, NewestInv

LEMMA NextCacheInv ==
    ASSUME TypeInv, StageInv, CacheInv, [Next]_vars
    PROVE  CacheInv'
<1>1. ASSUME UNCHANGED objects PROVE CacheInv'
  BY <1>1 DEF objects, CacheInv, NewestInv
<1>2. ASSUME NEW n \in Names, OthersChange(n) PROVE CacheInv'
  BY <1>2, OthersChanges, WriteKeepsCacheInv DEF OthersWrite
<1>3. ASSUME NEW n \in Names, Accepted(n) PROVE CacheInv'
  BY <1>3, AcceptedWrites, WriteKeepsCacheInv
<1>4. ASSUME NEW n \in Names, \/ WriteSucceeds(n) \/ WriteRejected(n)
                              \/ WriteRefused(n) \/ WriteFails(n)
      PROVE  CacheInv'
  BY <1>1, <1>3, <1>4 DEF WriteSucceeds, WriteRejected, WriteRefused, WriteFails
<1>5. CASE Crash
  <2>1. cache' = services' /\ stream' = <<>>
    BY <1>5 DEF Crash
  <2>2. InStep(cache', stream', services', Names) /\ \A n : ~Waiting(stream', n)
    BY <2>1, FreshIsInStep
  <2> QED BY <2>2 DEF CacheInv, NewestInv
<1>6. CASE DeliverService
  BY <1>6, DeliveryKeepsCacheInv
<1>7. CASE \/ Begin \/ Retry \/ Report \/ ReportFails \/ TimerFires \/ DeliverCluster
           \/ UNCHANGED vars \/ \E n \in Names : GetService(n)
           \/ \E n \in Names : \E ask \in Asks[n] : EditSpec(n, ask)
  BY <1>1, <1>7 DEF Begin, Retry, Report, ReportFails, TimerFires, DeliverCluster,
                    GetService, EditSpec, vars, objects
<1> QED BY <1>2, <1>4, <1>5, <1>6, <1>7, OthersEditOrChange DEF Next, Worker

LEMMA WakeAppend ==
    ASSUME NEW v \in Seq(Version), NEW e \in Version, NEW n \in Names,
           WillWake(v, n) \/ (e.key = n /\ ~e.version.foreign)
    PROVE  WillWake(Append(v, e), n)
<1>1. /\ Len(v) \in Nat /\ Len(Append(v, e)) = Len(v) + 1
      /\ Append(v, e)[Len(v) + 1] = e
      /\ \A i \in 1..Len(v) : Append(v, e)[i] = v[i] /\ i \in 1..(Len(v) + 1)
  BY AppendPlaces
<1>2. Len(v) + 1 \in 1..(Len(v) + 1)
  BY <1>1
<1> QED BY <1>1, <1>2 DEF WillWake

LEMMA WakeTail ==
    ASSUME NEW v \in Seq(Version), v # <<>>, Head(v).version.foreign,
           NEW n \in Names, WillWake(v, n)
    PROVE  WillWake(Tail(v), n)
<1>1. PICK i \in 1..Len(v) : v[i].key = n /\ ~v[i].version.foreign
  BY DEF WillWake
<1>2. /\ Head(v) = v[1] /\ Len(Tail(v)) = Len(v) - 1
      /\ i = 1 \/ (i - 1 \in 1..(Len(v) - 1) /\ Tail(v)[i - 1] = v[i])
  BY TailPlaces
<1>3. i - 1 \in 1..Len(Tail(v)) /\ Tail(v)[i - 1] = v[i]
  BY <1>1, <1>2
<1> QED BY <1>1, <1>3 DEF WillWake

\* A step that leaves Service n as it is, or nothing to claim of it.
Kept(n) ==
    \/ Excused(services', stream', n)
    \/ services'[n] = services[n] /\ ~Excused(services, stream, n)

LEMMA KeptIfUnchanged ==
    ASSUME NEW n \in Names, UNCHANGED <<services, stream>>
    PROVE  Kept(n)
BY DEF Kept

\* A change of a Service raises an event that wakes the loop, unless the Service
\* is a stranger's.
LEMMA ChangeExcuses ==
    ASSUME TypeInv, NEW n \in Names, NEW version \in Service, version # services[n],
           WriteService(n, version)
    PROVE  Excused(services', stream', n)
<1> DEFINE e == [key |-> n, version |-> version]
<1>1. services' = [services EXCEPT ![n] = version] /\ stream' = Append(stream, e)
  BY WriteTypes
<1>2. services'[n] = version
  BY <1>1 DEF TypeInv
<1>3. CASE version.foreign
  BY <1>2, <1>3 DEF Excused
<1>4. CASE ~version.foreign
  <2>1. stream \in Seq(Version) /\ e \in Version /\ e.key = n /\ ~e.version.foreign
    BY <1>4 DEF TypeInv, Version
  <2> HIDE DEF e
  <2>2. WillWake(stream', n)
    BY <1>1, <2>1, WakeAppend
  <2> QED BY <2>2 DEF Excused
<1> QED BY <1>3, <1>4

\* A write to one Service keeps the others.
LEMMA KeptBesideWrite ==
    ASSUME TypeInv, NEW m \in Names, NEW version \in Service,
           WriteService(m, version), NEW n \in Names, m # n
    PROVE  services'[n] = services[n] /\ Kept(n)
<1> DEFINE e == [key |-> m, version |-> version]
<1>1. services'[n] = services[n] /\ (stream' = stream \/ stream' = Append(stream, e))
  BY WriteTypes DEF TypeInv
<1>2. stream \in Seq(Version) /\ e \in Version
  BY DEF TypeInv, Version
<1> HIDE DEF e
<1>3. WillWake(stream, n) => WillWake(stream', n)
  BY <1>1, <1>2, WakeAppend
<1> QED BY <1>1, <1>3 DEF Kept, Excused

LEMMA KeptByOthers ==
    ASSUME TypeInv, Others, NEW n \in Names
    PROVE  /\ Kept(n)
           /\ fresh'[n] => fresh[n] /\ services'[n] = services[n]
           /\ UNCHANGED <<pc, stage, copy, mem, errs, queue>>
<1>1. ASSUME NEW m \in Names, NEW ask \in Asks[m], EditSpec(m, ask)
      PROVE  UNCHANGED <<services, stream, pc, pass, queue>>
  BY <1>1 DEF EditSpec, objects
<1>2. ASSUME NEW m \in Names, OthersChange(m)
      PROVE  /\ Kept(n)
             /\ fresh'[n] => fresh[n] /\ services'[n] = services[n]
             /\ UNCHANGED <<pc, stage, copy, mem, errs, queue>>
  <2>1. PICK version \in Service : version # services[m] /\ OthersWrite(m, version)
    BY <1>2, OthersChanges
  <2>2. /\ WriteService(m, version) /\ fresh' = [fresh EXCEPT ![m] = FALSE]
        /\ UNCHANGED <<pc, stage, copy, mem, errs, queue>>
    BY <2>1 DEF OthersWrite
  <2>3. CASE m # n
    BY <2>2, <2>3, KeptBesideWrite DEF TypeInv
  <2>4. CASE m = n
    BY <2>1, <2>2, <2>4, ChangeExcuses DEF TypeInv, Kept
  <2> QED BY <2>3, <2>4
<1> QED BY <1>1, <1>2, KeptIfUnchanged, OthersEditOrChange DEF pass

\* A delivery that wakes nobody loses nothing.
LEMMA KeptByDelivery ==
    ASSUME TypeInv, DeliverService, queue' = "none", NEW n \in Names
    PROVE  Kept(n)
<1>1. /\ stream \in Seq(Version) /\ stream # <<>> /\ Head(stream).version.foreign
      /\ stream' = Tail(stream) /\ services' = services
  BY DEF DeliverService, Enqueue, TypeInv
<1>2. WillWake(stream, n) => WillWake(stream', n)
  BY <1>1, WakeTail
<1> QED BY <1>1, <1>2 DEF Kept, Excused

\* What the cache does not show and is there is announced.
LEMMA MissingIsExcused ==
    ASSUME TypeInv, CacheInv, NEW n \in Names, ~cache[n].exists, services[n].exists
    PROVE  Excused(services, stream, n)
<1>1. Waiting(stream, n)
  BY DEF CacheInv, InStep
<1> QED BY <1>1 DEF CacheInv, NewestInv, Excused, WillWake

-----------------------------------------------------------------------------
(* Nothing is left undone. *)

LEMMA NextStageInv ==
    ASSUME TypeInv, CacheInv, StageInv, [Next]_vars
    PROVE  StageInv'
<1> SUFFICES ASSUME NEW n \in Names
             PROVE  /\ pc' = "idle" => stage'[n] = "get"
                    /\ stage'[n] = "update" =>
                          copy'[n].exists /\ (fresh'[n] => copy'[n] = services'[n])
                    /\ stage'[n] = "create" /\ queue' = "none" =>
                          ~services'[n].exists \/ Excused(services', stream', n)
  BY DEF StageInv
<1> DEFINE Goal == /\ pc' = "idle" => stage'[n] = "get"
                   /\ stage'[n] = "update" =>
                         copy'[n].exists /\ (fresh'[n] => copy'[n] = services'[n])
                   /\ stage'[n] = "create" /\ queue' = "none" =>
                         ~services'[n].exists \/ Excused(services', stream', n)
<1>1. ASSUME pc' = "idle" => pc = "idle", stage'[n] = stage[n], copy'[n] = copy[n],
             fresh'[n] => fresh[n] /\ services'[n] = services[n],
             queue' = "none" => queue = "none" /\ Kept(n)
      PROVE  Goal
  BY <1>1 DEF StageInv, Kept
<1>2. ASSUME Forget PROVE Goal
  BY <1>2 DEF Forget
<1>3. CASE Others
  BY <1>1, <1>3, KeptByOthers
<1>4. CASE Begin
  BY <1>4 DEF Begin, StageInv
<1>5. ASSUME NEW m \in Names, GetService(m) PROVE Goal
  <2>1. /\ pc' = "services" /\ pc = "services"
        /\ UNCHANGED <<services, stream, queue>>
    BY <1>5 DEF GetService, At, objects
  <2>2. CASE m # n
    <3>1. stage'[n] = stage[n] /\ copy'[n] = copy[n] /\ fresh'[n] = fresh[n]
      BY <1>5, <2>2 DEF GetService, TypeInv
    <3> QED BY <1>1, <2>1, <3>1, KeptIfUnchanged
  <2>3. CASE m = n
    <3>1. /\ copy'[n] = cache[n]
          /\ stage'[n] = IF cache[n].exists THEN "update" ELSE "create"
          /\ fresh'[n] => \A i \in DOMAIN stream : stream[i].key # n
      BY <1>5, <2>3 DEF GetService, TypeInv
    <3>2. ASSUME fresh'[n] PROVE cache[n] = services[n]
      <4>1. DOMAIN stream = 1..Len(stream)
        BY DEF TypeInv
      <4>2. ~Waiting(stream, n)
        BY <3>1, <3>2, <4>1 DEF Waiting
      <4> QED BY <4>2 DEF CacheInv, InStep
    <3> QED BY <2>1, <3>1, <3>2, MissingIsExcused
  <2> QED BY <2>2, <2>3
<1>6. ASSUME NEW m \in Names, NEW err, Done(m, err), pc = "services",
             fresh'[n] => fresh[n], UNCHANGED objects \/ Accepted(m)
      PROVE  Goal
  <2>1. pc' = "services" /\ queue' = queue
    BY <1>6 DEF Done
  <2>2. CASE m = n
    <3>1. stage'[n] = "done"
      BY <1>6, <2>2 DEF Done, TypeInv
    <3> QED BY <2>1, <3>1
  <2>3. CASE m # n
    <3>1. stage'[n] = stage[n] /\ copy'[n] = copy[n]
      BY <1>6, <2>3 DEF Done, TypeInv
    <3>2. services'[n] = services[n] /\ Kept(n)
      BY <1>6, <2>3, AcceptedWrites, KeptBesideWrite, KeptIfUnchanged DEF objects
    <3> QED BY <1>1, <1>6, <2>1, <3>1, <3>2
  <2> QED BY <2>2, <2>3
<1>7. ASSUME NEW m \in Names, \/ WriteSucceeds(m) \/ WriteRejected(m)
                              \/ WriteRefused(m) \/ WriteFails(m)
      PROVE  Goal
  <2>1. fresh'[n] => fresh[n]
    BY <1>7 DEF WriteSucceeds, WriteRejected, WriteRefused, WriteFails, TypeInv
  <2> QED BY <1>6, <1>7, <2>1
          DEF WriteSucceeds, WriteRejected, WriteRefused, WriteFails, Accepted, At
<1>8. CASE Retry \/ Report \/ ReportFails \/ Crash
  BY <1>2, <1>8 DEF Retry, Report, ReportFails, Crash, ReturnError
<1>9. CASE TimerFires \/ DeliverCluster \/ UNCHANGED vars
  <2>1. /\ UNCHANGED <<pc, stage, copy, fresh, services, stream>>
        /\ queue' = "due" \/ queue' = queue
    BY <1>9 DEF TimerFires, DeliverCluster, Enqueue, vars, pass, objects
  <2> QED BY <1>1, <2>1, KeptIfUnchanged
<1>10. CASE DeliverService
  <2>1. /\ UNCHANGED <<pc, stage, copy, fresh, services>>
        /\ queue' = "none" => queue = "none"
    BY <1>10 DEF DeliverService, Enqueue, pass
  <2> QED BY <1>1, <1>10, <2>1, KeptByDelivery
<1> QED BY <1>3, <1>4, <1>5, <1>7, <1>8, <1>9, <1>10 DEF Next, Worker

\* A rejected request is one that no later one can improve on, unless an event
\* is on its way.
LEMMA RejectionsAreDue ==
    ASSUME TypeInv, StageInv, NEW n \in Names, WriteRejected(n), queue = "none",
           ~Excused(services, stream, n)
    PROVE  Refuses(services[n], mem.want[n])
<1>1. CASE At(n, "create")
  <2>1. ~services[n].exists
    BY <1>1 DEF StageInv, At
  <2>2. ~Valid(n)
    BY <1>1, <2>1 DEF WriteRejected, OwnAddressTaken, At
  <2> QED BY <1>1, <2>1, <2>2 DEF Valid, Refuses
<1>2. CASE At(n, "update") /\ fresh[n] /\ ~Valid(n)
  <2>1. copy[n].exists /\ copy[n] = services[n] /\ ~At(n, "create")
    BY <1>2 DEF StageInv, At
  <2> QED BY <1>2, <2>1 DEF Valid, Refuses
<1> QED BY <1>1, <1>2 DEF WriteRejected

LEMMA NextDoneInv ==
    ASSUME TypeInv, StageInv, DoneInv, [Next]_vars
    PROVE  DoneInv'
<1> SUFFICES ASSUME NEW n \in Names, pc' = "services", stage'[n] = "done"
             PROVE  /\ errs'[n] = "none" => mem'.want[n].config # "invalid"
                    /\ queue' = "none" /\ ~Excused(services', stream', n) =>
                          /\ errs'[n] = "spec" => Refuses(services'[n], mem'.want[n])
                          /\ errs'[n] = "none" => Serves(services'[n], mem'.want[n])
  BY DEF DoneInv
<1> DEFINE Goal ==
       /\ errs'[n] = "none" => mem'.want[n].config # "invalid"
       /\ queue' = "none" /\ ~Excused(services', stream', n) =>
             /\ errs'[n] = "spec" => Refuses(services'[n], mem'.want[n])
             /\ errs'[n] = "none" => Serves(services'[n], mem'.want[n])
<1>1. ASSUME pc = "services", stage[n] = "done", mem' = mem, errs'[n] = errs[n],
             queue' = "none" => queue = "none" /\ Kept(n)
      PROVE  Goal
  BY <1>1 DEF DoneInv, Kept
<1>2. CASE Others
  BY <1>1, <1>2, KeptByOthers
<1>3. CASE Begin
  BY <1>3 DEF Begin, StageInv
<1>4. ASSUME NEW m \in Names, GetService(m) PROVE Goal
  <2>1. stage[n] = "done" /\ UNCHANGED <<pc, mem, errs, queue, services, stream>>
    BY <1>4 DEF GetService, At, objects, TypeInv
  <2> QED BY <1>1, <1>4, <2>1, KeptIfUnchanged
<1>5. ASSUME NEW m \in Names, NEW err, Done(m, err), pc = "services", m # n,
             UNCHANGED objects \/ Accepted(m)
      PROVE  Goal
  <2>1. stage[n] = "done" /\ mem' = mem /\ errs'[n] = errs[n] /\ queue' = queue
    BY <1>5 DEF Done, TypeInv
  <2>2. Kept(n)
    BY <1>5, AcceptedWrites, KeptBesideWrite, KeptIfUnchanged DEF objects
  <2> QED BY <1>1, <1>5, <2>1, <2>2
<1>6. ASSUME NEW m \in Names, WriteSucceeds(m) PROVE Goal
  <2>1. pc = "services" /\ Done(m, "none") /\ Accepted(m)
    BY <1>6 DEF WriteSucceeds, Accepted, At
  <2>2. CASE m # n
    BY <1>5, <2>1, <2>2
  <2>3. CASE m = n
    <3>1. PICK version \in Service :
             WriteService(n, version) /\ Serves(version, mem.want[n])
      BY <2>1, <2>3, AcceptedWrites
    <3>2. services'[n] = version
      BY <3>1 DEF WriteService, TypeInv
    <3>3. mem' = mem /\ errs'[n] = "none"
      BY <2>1, <2>3 DEF Done, TypeInv
    <3>4. mem.want[n].config # "invalid"
      BY <2>1, <2>3, AcceptedWrites
    <3> QED BY <3>1, <3>2, <3>3, <3>4
  <2> QED BY <2>2, <2>3
<1>7. ASSUME NEW m \in Names, WriteRejected(m) PROVE Goal
  <2>1. pc = "services" /\ Done(m, "spec") /\ UNCHANGED objects
    BY <1>7 DEF WriteRejected, At
  <2>2. CASE m = n
    <3>1. /\ mem' = mem /\ errs'[n] = "spec"
          /\ UNCHANGED <<services, stream, queue>>
      BY <2>1, <2>2 DEF Done, TypeInv, objects
    <3> QED BY <1>7, <2>2, <3>1, RejectionsAreDue
  <2> QED BY <1>5, <2>1, <2>2
<1>8. ASSUME NEW m \in Names, WriteRefused(m) \/ WriteFails(m) PROVE Goal
  <2>1. /\ pc = "services" /\ Done(m, "transient")
        /\ UNCHANGED objects \/ Accepted(m)
    BY <1>8 DEF WriteRefused, WriteFails, At
  <2>2. CASE m = n
    BY <2>1, <2>2 DEF Done, TypeInv
  <2> QED BY <1>5, <2>1, <2>2
<1>9. CASE Retry \/ Report \/ ReportFails \/ Crash
  BY <1>9 DEF Retry, Report, ReportFails, Crash, ReturnError
<1>10. CASE TimerFires \/ DeliverCluster
  <2>1. UNCHANGED <<pc, stage, mem, errs>> /\ queue' = "due"
    BY <1>10 DEF TimerFires, DeliverCluster, Enqueue, pass
  <2> QED BY <1>1, <2>1
<1>11. CASE DeliverService
  <2>1. /\ UNCHANGED <<pc, stage, mem, errs>>
        /\ queue' = "none" => queue = "none"
    BY <1>11 DEF DeliverService, Enqueue, pass
  <2> QED BY <1>1, <1>11, <2>1, KeptByDelivery
<1>12. CASE UNCHANGED vars
  BY <1>1, <1>12, KeptIfUnchanged DEF vars
<1> QED BY <1>2, <1>3, <1>4, <1>6, <1>7, <1>8, <1>9, <1>10, <1>11, <1>12
        DEF Next, Worker

\* The pass that lets the loop sleep has dealt with every Service.
LEMMA ReportSleeps ==
    ASSUME ServedInv, Report
    PROVE  SleepInv'
<1> USE DEF ServedInv
<1>1. /\ UNCHANGED <<cluster, services, stream, queue>>
      /\ reported' = [gen |-> mem.gen, rejected |-> Reduced = "spec"]
      /\ \A n \in Names : errs[n] # "transient" /\ stage[n] = "done"
      /\ pc = "services" /\ mem.gen = cluster.gen
  BY DEF Report, Reduced, AllDone, clusters, objects
<1>2. mem = cluster
  BY <1>1 DEF GenInv, CopyOf, TypeInv, Cluster
<1>3. (Reduced = "spec") <=> \E n \in Names : errs[n] = "spec"
  BY <1>1 DEF Reduced
<1>4. reported'.gen = cluster.gen
  BY <1>1, <1>2
<1>5. reported'.rejected <=> \E n \in Names : errs[n] = "spec"
  BY <1>1, <1>3
<1>6. \A n \in Names : errs[n] \in {"none", "spec"}
  BY <1>1 DEF TypeInv
<1>7. ASSUME queue = "none", NEW n \in Names
      PROVE  /\ \/ Excused(services, stream, n) \/ Serves(services[n], cluster.want[n])
                \/ Refuses(services[n], cluster.want[n]) /\ reported'.rejected
             /\ cluster.want[n].config = "invalid" => reported'.rejected
             /\ errs[n] = "spec" => \/ Refuses(services[n], cluster.want[n])
                                    \/ Excused(services, stream, n)
  <2>1. CASE errs[n] = "none"
    BY <1>1, <1>2, <1>7, <2>1 DEF DoneInv
  <2>2. CASE errs[n] = "spec"
    BY <1>1, <1>2, <1>5, <1>7, <2>2 DEF DoneInv
  <2> QED BY <1>6, <2>1, <2>2
<1> QED BY <1>1, <1>4, <1>5, <1>7 DEF SleepInv

LEMMA NextSleepInv ==
    ASSUME ServedInv, [Next]_vars
    PROVE  SleepInv'
<1> USE DEF ServedInv
<1>1. ASSUME pc' # "idle" \/ queue' # "none" \/ view' # cluster' PROVE SleepInv'
  BY <1>1 DEF SleepInv
<1>2. ASSUME UNCHANGED <<pc, view, cluster, reported>>,
             queue' = "none" => queue = "none" /\ \A n \in Names : Kept(n)
      PROVE  SleepInv'
  BY <1>2 DEF SleepInv, Kept
<1>3. CASE Others
  <2>1. ASSUME NEW n \in Names, NEW ask \in Asks[n], EditSpec(n, ask)
        PROVE  SleepInv'
    <3>1. cluster'.gen = cluster.gen + 1 /\ view' = cluster
      BY <2>1 DEF EditSpec
    <3>2. view' # cluster'
      BY <3>1 DEF TypeInv, Cluster
    <3> QED BY <1>1, <3>2
  <2>2. ASSUME NEW n \in Names, OthersChange(n) PROVE SleepInv'
    <3>1. UNCHANGED <<pc, view, cluster, reported, queue>>
      BY <2>2, OthersChanges DEF OthersWrite, clusters
    <3> QED BY <1>2, <1>3, <3>1, KeptByOthers
  <2> QED BY <1>3, <2>1, <2>2, OthersEditOrChange
<1>4. CASE \/ Begin
           \/ \E n \in Names : \/ GetService(n) \/ WriteSucceeds(n) \/ WriteRejected(n)
                               \/ WriteRefused(n) \/ WriteFails(n)
  <2>1. pc' = "services"
    BY <1>4 DEF Begin, GetService, WriteSucceeds, WriteRejected, WriteRefused,
                WriteFails, Done, Accepted, At
  <2> QED BY <1>1, <2>1
<1>5. CASE Retry \/ ReportFails
  BY <1>1, <1>5 DEF Retry, ReportFails, ReturnError, AddAfter
<1>6. CASE Report
  BY <1>6, ReportSleeps
<1>7. CASE Crash \/ TimerFires \/ DeliverCluster
  BY <1>1, <1>7 DEF Crash, TimerFires, DeliverCluster, Enqueue
<1>8. CASE DeliverService
  <2>1. /\ UNCHANGED <<pc, view, cluster, reported>>
        /\ queue' = "none" => queue = "none"
    BY <1>8 DEF DeliverService, Enqueue, clusters
  <2> QED BY <1>2, <1>8, <2>1, KeptByDelivery
<1>9. CASE UNCHANGED vars
  BY <1>2, <1>9, KeptIfUnchanged DEF vars
<1> QED BY <1>3, <1>4, <1>5, <1>6, <1>7, <1>8, <1>9 DEF Next, Worker

\* reconcileServices never lets the loop sleep on unfinished work: when nothing
\* is queued, in flight or running, the status is about the present spec and says
\* rejected exactly if some Service cannot be what updates can make of it; every
\* other one is, unless a stranger has its name.  clusterIP and labels are left as
\* the Service was created.
THEOREM NeverSleepsOnWork == Spec => []SettledMeansServed
<1>1. ASSUME Init PROVE ServedInv
  <2>1. GenInv
    BY <1>1, ValueTypes DEF Init, GenInv, CopyOf, NoCluster
  <2>2. StageInv /\ DoneInv /\ SleepInv
    BY <1>1 DEF Init, StageInv, DoneInv, SleepInv
  <2>3. CacheInv
    BY <1>1, FreshIsInStep DEF Init, CacheInv, NewestInv
  <2> QED BY <1>1, <2>1, <2>2, <2>3, InitTypeInv DEF ServedInv
<1>2. ASSUME ServedInv, [Next]_vars PROVE ServedInv'
  BY <1>2, NextTypeInv, NextGenInv, NextCacheInv, NextStageInv, NextDoneInv,
     NextSleepInv
  DEF ServedInv
<1>3. ASSUME ServedInv PROVE SettledMeansServed
  <2>1. ASSUME Settled PROVE SleepInv /\ \A n \in Names : ~WillWake(stream, n)
    <3>1. Len(<<>>) = 0
      BY EmptySeq
    <3> QED BY <1>3, <2>1, <3>1 DEF ServedInv, Settled, WillWake
  <2> QED BY <2>1 DEF SettledMeansServed, Settled, SleepInv, Excused
<1> QED BY <1>1, <1>2, <1>3, PTL DEF Spec

=============================================================================
