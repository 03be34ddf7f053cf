--------------------------- MODULE InformerProofs ---------------------------
(***************************************************************************)
(* Lemmas about an informer: a cache of the objects of some kind, by their *)
(* keys, and the versions the API server has yet to deliver to it, oldest  *)
(* first.  WorkerPool, Services and Routes keep one each.                  *)
(***************************************************************************)
EXTENDS Naturals, Sequences, SequenceTheorems, TLAPS

\* A version of the object is on its way.
Waiting(v, key) == \E i \in 1..Len(v) : v[i].key = key

\* The informer misses no version: the newest one it has, or will get, of each
\* object is what the API server stores.
InStep(cache, v, stored, Keys) ==
    \A k \in Keys :
        /\ ~Waiting(v, k) => cache[k] = stored[k]
        /\ \A i \in 1..Len(v) :
              v[i].key = k /\ (\A j \in 1..Len(v) : v[j].key = k => j <= i)
                => v[i].version = stored[k]

\* A copy of a spec that is as new as the spec is the spec.
CopyOf(copied, original) ==
    /\ copied.gen <= original.gen
    /\ copied.gen = original.gen => copied = original

\* Nothing is left to deliver: the cache is current.
LEMMA NothingWaiting ==
    ASSUME NEW cache, NEW stored, NEW Keys, InStep(cache, <<>>, stored, Keys)
    PROVE  \A k \in Keys : cache[k] = stored[k]
<1>1. Len(<<>>) = 0
  BY EmptySeq
<1> QED BY <1>1 DEF InStep, Waiting

\* A cache that has just been filled misses nothing.
LEMMA FreshIsInStep ==
    ASSUME NEW stored, NEW Keys
    PROVE  InStep(stored, <<>>, stored, Keys) /\ \A k : ~Waiting(<<>>, k)
<1>1. Len(<<>>) = 0
  BY EmptySeq
<1> QED BY <1>1 DEF InStep, Waiting

\* The places of a sequence after an append and after a delivery.
LEMMA AppendPlaces ==
    ASSUME NEW S, NEW v \in Seq(S), NEW e \in S
    PROVE  /\ Len(v) \in Nat /\ Len(Append(v, e)) = Len(v) + 1
           /\ Append(v, e) # <<>>
           /\ Append(v, e)[Len(v) + 1] = e
           /\ \A i \in 1..Len(v) : Append(v, e)[i] = v[i] /\ i \in 1..(Len(v) + 1)
           /\ \A i \in 1..(Len(v) + 1) : i = Len(v) + 1 \/ i \in 1..Len(v)
<1>1. /\ Len(v) \in Nat /\ Len(Append(v, e)) = Len(v) + 1
      /\ Append(v, e)[Len(v) + 1] = e
      /\ \A i \in 1..Len(v) : Append(v, e)[i] = v[i]
  OBVIOUS
<1>2. Append(v, e) # <<>>
  BY <1>1
<1> QED BY <1>1, <1>2

LEMMA TailPlaces ==
    ASSUME NEW S, NEW v \in Seq(S), v # <<>>
    PROVE  /\ Len(v) \in Nat \ {0} /\ Len(Tail(v)) = Len(v) - 1
           /\ Head(v) = v[1] /\ v[1] \in S /\ Tail(v) \in Seq(S)
           /\ \A i \in 1..(Len(v) - 1) : Tail(v)[i] = v[i + 1] /\ i + 1 \in 1..Len(v)
           /\ \A i \in 1..Len(v) :
                 i = 1 \/ (i - 1 \in 1..(Len(v) - 1) /\ Tail(v)[i - 1] = v[i])
<1>1. /\ Len(v) \in Nat \ {0} /\ Len(Tail(v)) = Len(v) - 1
      /\ Head(v) = v[1] /\ v[1] \in S /\ Tail(v) \in Seq(S)
  OBVIOUS
<1>2. \A i \in 1..(Len(v) - 1) : Tail(v)[i] = v[i + 1]
  OBVIOUS
<1>3. \A i \in 1..(Len(v) - 1) : i + 1 \in 1..Len(v)
  BY <1>1
<1>4. ASSUME NEW i \in 1..Len(v), i # 1
      PROVE  i - 1 \in 1..(Len(v) - 1) /\ Tail(v)[i - 1] = v[i]
  <2>1. i - 1 \in 1..(Len(v) - 1) /\ (i - 1) + 1 = i
    BY <1>1, <1>4
  <2> QED BY <1>2, <2>1
<1> QED BY <1>1, <1>2, <1>3, <1>4

\* A write stores a version and puts it on its way.
LEMMA WriteStaysInStep ==
    ASSUME NEW Keys, NEW Versions, NEW cache, NEW stored \in [Keys -> Versions],
           NEW v \in Seq([key : Keys, version : Versions]),
           NEW e \in [key : Keys, version : Versions],
           InStep(cache, v, stored, Keys)
    PROVE  /\ InStep(cache, Append(v, e), [stored EXCEPT ![e.key] = e.version], Keys)
           /\ \A u \in Keys :
                 Waiting(Append(v, e), u) <=> (u = e.key \/ Waiting(v, u))
<1> DEFINE S == [key : Keys, version : Versions]
           k == e.key
           x == e.version
           w == Append(v, e)
           after == [stored EXCEPT ![e.key] = e.version]
           n == Len(v)
<1>0. \A u \in Keys : after[u] = IF u = k THEN x ELSE stored[u]
  OBVIOUS
<1>1. e \in S /\ e.key = k /\ e.version = x /\ k \in Keys /\ x \in Versions
  OBVIOUS
<1>2. v \in Seq(S) /\ w = Append(v, e)
  OBVIOUS
<1> HIDE DEF S, k, x, after
<1>3. /\ n \in Nat /\ Len(w) = n + 1 /\ w[n + 1] = e
      /\ \A i \in 1..n : w[i] = v[i] /\ i \in 1..(n + 1)
      /\ \A i \in 1..(n + 1) : i = n + 1 \/ i \in 1..n
      /\ n + 1 \in 1..(n + 1)
  BY <1>1, <1>2, AppendPlaces
<1> HIDE DEF n, w
<1>4. \A u \in Keys : Waiting(w, u) <=> (u = k \/ Waiting(v, u))
  BY <1>1, <1>3 DEF Waiting, n
<1>5. ASSUME NEW u \in Keys, NEW i \in 1..Len(w), w[i].key = u,
             \A j \in 1..Len(w) : w[j].key = u => j <= i
      PROVE  w[i].version = after[u]
  <2>1. CASE u = k
    <3>1. n + 1 <= i
      BY <1>1, <1>3, <1>5, <2>1
    <3>2. i = n + 1
      BY <1>3, <3>1
    <3> QED BY <1>0, <1>1, <1>3, <2>1, <3>2
  <2>2. CASE u # k
    <3>1. i \in 1..n /\ v[i].key = u
      BY <1>1, <1>3, <1>5, <2>2
    <3>2. \A j \in 1..n : v[j].key = u => j <= i
      BY <1>3, <1>5
    <3>3. v[i].version = stored[u]
      BY <3>1, <3>2 DEF InStep, n
    <3> QED BY <1>0, <1>3, <2>2, <3>1, <3>3
  <2> QED BY <2>1, <2>2
<1>6. InStep(cache, w, after, Keys)
  BY <1>0, <1>4, <1>5 DEF InStep
<1> QED BY <1>4, <1>6 DEF w, k, after

\* A delivery moves the oldest version to the cache and loses none.
LEMMA DeliveryStaysInStep ==
    ASSUME NEW Keys, NEW Versions, NEW cache \in [Keys -> Versions], NEW stored,
           NEW v \in Seq([key : Keys, version : Versions]), v # <<>>,
           InStep(cache, v, stored, Keys)
    PROVE  /\ InStep([cache EXCEPT ![Head(v).key] = Head(v).version], Tail(v),
                     stored, Keys)
           /\ \A u \in Keys : Waiting(Tail(v), u) => Waiting(v, u)
           /\ \A u \in Keys :
                 u # Head(v).key => (Waiting(Tail(v), u) <=> Waiting(v, u))
<1> DEFINE n == Len(v)
           w == Tail(v)
           after == [cache EXCEPT ![Head(v).key] = Head(v).version]
<1>0. /\ Head(v) = v[1]
      /\ \A u \in Keys : after[u] = IF u = v[1].key THEN v[1].version ELSE cache[u]
  <2>1. Head(v) = v[1]
    OBVIOUS
  <2> QED BY <2>1
<1>1. /\ n \in Nat \ {0} /\ Len(w) = n - 1
      /\ \A i \in 1..(n - 1) : w[i] = v[i + 1] /\ i + 1 \in 1..n
      /\ \A i \in 1..n : i = 1 \/ (i - 1 \in 1..(n - 1) /\ w[i - 1] = v[i])
  BY TailPlaces
<1>2. 1 \in 1..n
  BY <1>1
<1> HIDE DEF n, w, after
<1>3. \A u \in Keys : Waiting(w, u) => Waiting(v, u)
  BY <1>1 DEF Waiting, n
<1>4. \A u \in Keys : u # v[1].key => (Waiting(w, u) <=> Waiting(v, u))
  <2> SUFFICES ASSUME NEW u \in Keys, u # v[1].key, Waiting(v, u)
               PROVE  Waiting(w, u)
    BY <1>3
  <2>1. PICK i \in 1..n : v[i].key = u
    BY DEF Waiting, n
  <2>2. i - 1 \in 1..Len(w) /\ w[i - 1] = v[i]
    BY <1>1, <2>1
  <2> QED BY <2>1, <2>2 DEF Waiting
<1>5. ASSUME NEW u \in Keys, ~Waiting(w, u) PROVE after[u] = stored[u]
  <2>1. CASE u = v[1].key
    <3>1. \A j \in 1..n : v[j].key = u => j <= 1
      <4> SUFFICES ASSUME NEW j \in 1..n, v[j].key = u, j # 1 PROVE FALSE
        BY <1>1
      <4>1. j - 1 \in 1..Len(w) /\ w[j - 1].key = u
        BY <1>1
      <4> QED BY <1>5, <4>1 DEF Waiting
    <3>2. v[1].version = stored[u]
      BY <1>2, <2>1, <3>1 DEF InStep, n
    <3> QED BY <1>0, <2>1, <3>2
  <2>2. CASE u # v[1].key
    BY <1>0, <1>4, <1>5, <2>2 DEF InStep
  <2> QED BY <2>1, <2>2
<1>6. ASSUME NEW u \in Keys, NEW i \in 1..Len(w), w[i].key = u,
             \A j \in 1..Len(w) : w[j].key = u => j <= i
      PROVE  w[i].version = stored[u]
  <2>1. i \in 1..(n - 1) /\ i + 1 \in 1..n /\ v[i + 1] = w[i]
    BY <1>1
  <2>2. ASSUME NEW j \in 1..n, v[j].key = u PROVE j <= i + 1
    <3>1. CASE j = 1
      BY <1>1, <2>1, <3>1
    <3>2. CASE j # 1
      <4>1. j - 1 \in 1..(n - 1) /\ w[j - 1].key = u
        BY <1>1, <2>2, <3>2
      <4>2. j - 1 <= i
        BY <1>1, <1>6, <4>1
      <4> QED BY <1>1, <2>1, <4>2
    <3> QED BY <3>1, <3>2
  <2>3. v[i + 1].version = stored[u]
    BY <1>6, <2>1, <2>2 DEF InStep, n
  <2> QED BY <2>1, <2>3
<1>7. InStep(after, w, stored, Keys)
  BY <1>5, <1>6 DEF InStep
<1> QED BY <1>0, <1>3, <1>4, <1>7 DEF w, after

=============================================================================
