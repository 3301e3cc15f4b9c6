-------------------------- MODULE PikeMutex_proofs --------------------------
(***************************************************************************)
(* Theorems about PikeMutex, for every set of threads, keys and promises   *)
(* and every program: the inductive invariant and what follows from it,    *)
(* the implementation of the readers-writers lock, and what becomes of     *)
(* queued futures and of keys that nobody holds any more.                  *)
(***************************************************************************)
EXTENDS PikeMutex, FiniteSetTheorems, WellFoundedInduction, NaturalsInduction, TLAPS

-----------------------------------------------------------------------------
(* The key list after a key has been linked into it or unlinked.           *)

\* What linking a key after the i-th key of the list does to every position.
LEMMA LinkFacts ==
  ASSUME keys \in Seq(Keys), NEW i \in 0..Len(keys), NEW k \in Keys
  PROVE  /\ LinkAfter(i, k) \in Seq(Keys)
         /\ Len(LinkAfter(i, k)) = Len(keys) + 1
         /\ \A j \in 1..(Len(keys) + 1) :
              LinkAfter(i, k)[j] = IF j <= i THEN keys[j]
                                   ELSE IF j = i + 1 THEN k ELSE keys[j - 1]
<1> DEFINE front == SubSeq(keys, 1, i)
           back == SubSeq(keys, i + 1, Len(keys))
           mid == front \o <<k>>
<1>1. LinkAfter(i, k) = mid \o back
  <2>1. (i + 1) - 1 = i
    OBVIOUS
  <2> QED  BY <2>1 DEF LinkAfter, InsertAt
<1>2. /\ SubSeq(keys, 1, i) \in Seq(Keys)
      /\ Len(SubSeq(keys, 1, i)) = i
      /\ \A j \in 1..i : SubSeq(keys, 1, i)[j] = keys[j]
  OBVIOUS
<1>3. /\ SubSeq(keys, i + 1, Len(keys)) \in Seq(Keys)
      /\ Len(SubSeq(keys, i + 1, Len(keys))) = Len(keys) - i
      /\ \A j \in 1..(Len(keys) - i) : SubSeq(keys, i + 1, Len(keys))[j] = keys[i + j]
  OBVIOUS
<1>4. /\ mid \in Seq(Keys)
      /\ Len(mid) = i + 1
      /\ \A j \in 1..(i + 1) : mid[j] = IF j <= i THEN keys[j] ELSE k
  BY <1>2
<1> HIDE DEF mid
<1> QED  BY <1>1, <1>3, <1>4

\* What unlinking a key does.
LEMMA UnlinkFacts ==
  ASSUME keys \in Seq(Keys), NEW k \in Listed
  PROVE  /\ IndexOf(k) \in 1..Len(keys)
         /\ keys[IndexOf(k)] = k
         /\ Unlinked(k) \in Seq(Keys)
         /\ Len(Unlinked(k)) = Len(keys) - 1
         /\ \A j \in 1..(Len(keys) - 1) :
              Unlinked(k)[j] = IF j < IndexOf(k) THEN keys[j] ELSE keys[j + 1]
<1>1. IndexOf(k) \in DOMAIN keys /\ keys[IndexOf(k)] = k
  BY DEF Listed, IndexOf
<1>2. PICK i \in 1..Len(keys) : i = IndexOf(k)
  BY <1>1
<1> DEFINE front == SubSeq(keys, 1, i - 1)
           back == SubSeq(keys, i + 1, Len(keys))
<1>3. Unlinked(k) = front \o back
  BY <1>2 DEF Unlinked, RemoveAt
<1>4. /\ front \in Seq(Keys)
      /\ Len(front) = i - 1
      /\ \A j \in 1..(i - 1) : front[j] = keys[j]
  OBVIOUS
<1>5. /\ back \in Seq(Keys)
      /\ Len(back) = Len(keys) - i
      /\ \A j \in 1..(Len(keys) - i) : back[j] = keys[i + j]
  OBVIOUS
<1> HIDE DEF front, back
<1>6. Unlinked(k) \in Seq(Keys) /\ Len(Unlinked(k)) = Len(keys) - 1
  BY <1>3, <1>4, <1>5
<1>7. ASSUME NEW j \in 1..(Len(keys) - 1)
      PROVE  Unlinked(k)[j] = IF j < i THEN keys[j] ELSE keys[j + 1]
  <2>1. CASE j < i
    BY <1>3, <1>4, <1>5, <2>1
  <2>2. CASE j >= i
    <3>1. j - Len(front) \in 1..(Len(keys) - i) /\ i + (j - Len(front)) = j + 1
      BY <1>4, <2>2
    <3>2. Unlinked(k)[j] = back[j - Len(front)]
      BY <1>3, <1>4, <1>5, <2>2
    <3>3. back[j - Len(front)] = keys[i + (j - Len(front))]
      BY <1>5, <3>1
    <3>4. back[j - Len(front)] = keys[j + 1]
      BY <3>1, <3>3
    <3> QED  BY <2>2, <3>2, <3>4
  <2> QED  BY <2>1, <2>2
<1> QED  BY <1>1, <1>2, <1>6, <1>7

-----------------------------------------------------------------------------
(* The three ways in which a step changes the list.                        *)

ListKinds == {"SHARED", "DOWNGRADED", "PENDING", "EXCLUSIVE"}
FreeKinds == {"UNINITIALIZED", "INITIALIZED"}

\* Linking: a key may go behind waiting keys, a shared key behind any but an
\* exclusive one, and in front of shared keys, a waiting key in front of all.
LEMMA LinkList ==
  ASSUME keys \in Seq(Keys), kind \in [Keys -> Kinds], ListInv, QueueOrder,
         NEW i \in 0..Len(keys), NEW k \in Keys \ Listed, NEW kd \in ListKinds,
         keys' = LinkAfter(i, k), kind' = [kind EXCEPT ![k] = kd],
         \A j \in 1..i : \/ kind[keys[j]] = "PENDING"
                         \/ kd = "SHARED" /\ kind[keys[j]] # "EXCLUSIVE",
         \A j \in (i + 1)..Len(keys) :
           kd = "PENDING" \/ (kd # "EXCLUSIVE" /\ kind[keys[j]] = "SHARED")
  PROVE  /\ keys' \in Seq(Keys) /\ kind' \in [Keys -> Kinds]
         /\ ListInv' /\ QueueOrder'
         /\ Listed' = Listed \cup {k}
         /\ kd = "SHARED" \/ i = 0 =>
              \A l \in Keys \ {k} : SharedBehind(l) => SharedBehind(l)'
         /\ \A l \in Keys : HasNext(l) => HasNext(l)'
         /\ i = 0 /\ keys # <<>> => HasNext(k)'
         /\ i > 0 \/ kd \in Excluding => (ExclusiveHead => ExclusiveHead')
         /\ keys' # <<>>
<1> DEFINE n == Len(keys)
<1>1. /\ keys' \in Seq(Keys)
      /\ Len(keys') = n + 1
      /\ \A j \in 1..(n + 1) :
           keys'[j] = IF j <= i THEN keys[j] ELSE IF j = i + 1 THEN k ELSE keys[j - 1]
  BY LinkFacts
<1>2. /\ kind' \in [Keys -> Kinds]
      /\ kind'[k] = kd
      /\ \A l \in Keys \ {k} : kind'[l] = kind[l]
  BY DEF ListKinds, Kinds
<1>3. \A j \in 1..n : keys[j] \in Keys \ {k}
  BY DEF Listed
<1> DEFINE old(a) == IF a <= i THEN a ELSE a - 1
           new(j) == IF j <= i THEN j ELSE j + 1
<1>4. ASSUME NEW j \in 1..n
      PROVE  new(j) \in 1..(n + 1) /\ keys'[new(j)] = keys[j]
  <2>1. CASE j <= i
    BY <1>1, <2>1
  <2>2. CASE j > i
    <3>1. j + 1 \in 1..(n + 1) /\ ~(j + 1 <= i) /\ j + 1 # i + 1 /\ (j + 1) - 1 = j
      BY <2>2
    <3>2. keys'[j + 1] = keys[j]
      BY <1>1, <3>1
    <3> QED  BY <2>2, <3>1, <3>2
  <2> QED  BY <2>1, <2>2
<1>5. keys'[i + 1] = k /\ i + 1 \in 1..(n + 1)
  BY <1>1
<1>6. \A a \in 1..(n + 1) : a # i + 1 =>
        old(a) \in 1..n /\ keys'[a] = keys[old(a)] /\ new(old(a)) = a
  BY <1>1
<1>7. /\ \A j \in 1..n : keys[j] \in Listed
      /\ \A a \in 1..(n + 1) : keys'[a] \in Listed'
      /\ \A l \in Listed : \E j \in 1..n : keys[j] = l
      /\ \A l \in Listed' : \E a \in 1..(n + 1) : keys'[a] = l
  <2>1. DOMAIN keys = 1..n /\ DOMAIN keys' = 1..(n + 1)
    BY <1>1
  <2> QED  BY <2>1 DEF Listed
<1>8. Listed' = Listed \cup {k}
  <2>1. \A l \in Listed' : l \in Listed \cup {k}
    BY <1>5, <1>6, <1>7
  <2>2. \A l \in Listed : l \in Listed'
    BY <1>4, <1>7
  <2>3. k \in Listed'
    BY <1>5, <1>7
  <2> QED  BY <2>1, <2>2, <2>3
<1>9. ListInv'
  <2>1. ASSUME NEW a \in 1..(n + 1), NEW b \in 1..(n + 1), keys'[a] = keys'[b]
        PROVE  a = b
    <3>1. CASE a = i + 1 \/ b = i + 1
      BY <1>3, <1>5, <1>6, <2>1, <3>1
    <3>2. CASE a # i + 1 /\ b # i + 1
      <4>1. old(a) = old(b)
        BY <1>6, <2>1, <3>2 DEF ListInv
      <4> QED  BY <1>6, <3>2, <4>1
    <3> QED  BY <3>1, <3>2
  <2>2. \A l \in Keys : l \in Listed' <=> kind'[l] \notin FreeKinds
    BY <1>2, <1>8 DEF ListInv, ListKinds, FreeKinds
  <2> QED  BY <1>1, <2>1, <2>2 DEF ListInv, FreeKinds
<1>10. QueueOrder'
  <2> SUFFICES ASSUME NEW a \in 1..(n + 1), NEW b \in 1..(n + 1), a < b
               PROVE  /\ kind'[keys'[a]] # "EXCLUSIVE"
                      /\ kind'[keys'[b]] = "SHARED" \/ kind'[keys'[a]] = "PENDING"
    BY <1>1 DEF QueueOrder
  <2>1. CASE a = i + 1
    <3>1. old(b) \in (i + 1)..n /\ kind'[keys'[b]] = kind[keys[old(b)]]
      BY <1>2, <1>3, <1>6, <2>1
    <3> QED  BY <1>2, <1>5, <2>1, <3>1
  <2>2. CASE b = i + 1
    <3>1. a \in 1..i /\ kind'[keys'[a]] = kind[keys[a]]
      BY <1>2, <1>3, <1>6, <2>2
    <3> QED  BY <1>2, <1>5, <2>2, <3>1
  <2>3. CASE a # i + 1 /\ b # i + 1
    <3>1. old(a) \in 1..n /\ old(b) \in 1..n /\ old(a) < old(b)
      BY <1>6, <2>3
    <3>2. /\ kind'[keys'[a]] = kind[keys[old(a)]]
          /\ kind'[keys'[b]] = kind[keys[old(b)]]
      BY <1>2, <1>3, <1>6, <2>3
    <3> QED  BY <3>1, <3>2 DEF QueueOrder
  <2> QED  BY <2>1, <2>2, <2>3
<1>11. ASSUME kd = "SHARED" \/ i = 0, NEW l \in Keys \ {k}, SharedBehind(l)
       PROVE  SharedBehind(l)'
  <2> SUFFICES ASSUME NEW a \in 1..(n + 1), NEW b \in 1..(n + 1),
                      keys'[a] = l, a < b
               PROVE  kind'[keys'[b]] = "SHARED"
    BY <1>1 DEF SharedBehind
  <2>1. a # i + 1 /\ old(a) \in 1..n /\ keys[old(a)] = l
    BY <1>5, <1>6
  <2>2. CASE b = i + 1
    BY <1>2, <1>5, <1>11, <2>2
  <2>3. CASE b # i + 1
    <3>1. /\ old(b) \in 1..n
          /\ old(a) < old(b)
          /\ kind'[keys'[b]] = kind[keys[old(b)]]
      BY <1>2, <1>3, <1>6, <2>1, <2>3
    <3> QED  BY <1>11, <2>1, <3>1 DEF SharedBehind
  <2> QED  BY <2>2, <2>3
<1>12. ASSUME NEW l \in Keys, HasNext(l)
       PROVE  HasNext(l)'
  <2>1. PICK j \in 1..n : j < n /\ keys[j] = l
    BY <1>12 DEF HasNext
  <2>2. new(j) \in 1..(n + 1) /\ new(j) < n + 1 /\ keys'[new(j)] = l
    BY <1>4, <2>1
  <2> QED  BY <1>1, <2>2 DEF HasNext
<1>13. i = 0 /\ keys # <<>> => HasNext(k)'
  BY <1>1, <1>5 DEF HasNext
<1>14. i > 0 \/ kd \in Excluding => (ExclusiveHead => ExclusiveHead')
  BY <1>1, <1>2, <1>3 DEF ExclusiveHead
<1>15. keys' # <<>>
  BY <1>1
<1> QED
  BY <1>1, <1>2, <1>8, <1>9, <1>10, <1>11, <1>12, <1>13, <1>14, <1>15

\* Unlinking.
LEMMA UnlinkList ==
  ASSUME keys \in Seq(Keys), kind \in [Keys -> Kinds], ListInv, QueueOrder,
         NEW k \in Listed, NEW kd \in FreeKinds,
         keys' = Unlinked(k), kind' = [kind EXCEPT ![k] = kd]
  PROVE  /\ keys' \in Seq(Keys) /\ kind' \in [Keys -> Kinds]
         /\ ListInv' /\ QueueOrder'
         /\ Listed' = Listed \ {k}
         /\ \A l \in Keys \ {k} : SharedBehind(l) => SharedBehind(l)'
<1> DEFINE n == Len(keys)
<1>1. PICK i \in 1..n :
        /\ keys[i] = k
        /\ keys' \in Seq(Keys)
        /\ Len(keys') = n - 1
        /\ \A j \in 1..(n - 1) : keys'[j] = IF j < i THEN keys[j] ELSE keys[j + 1]
  BY UnlinkFacts
<1>2. /\ k \in Keys
      /\ kind' \in [Keys -> Kinds]
      /\ kind'[k] = kd
      /\ \A l \in Keys \ {k} : kind'[l] = kind[l]
  BY DEF FreeKinds, Kinds, Listed
<1>d. DOMAIN keys = 1..n /\ DOMAIN keys' = 1..(n - 1)
  BY <1>1
<1>e. \A j \in 1..n : keys[j] \in Keys /\ (keys[j] = k => j = i)
  BY <1>1, <1>d DEF ListInv
<1> DEFINE old(a) == IF a < i THEN a ELSE a + 1
           new(j) == IF j < i THEN j ELSE j - 1
<1>3. ASSUME NEW a \in 1..(n - 1)
      PROVE  /\ old(a) \in 1..n /\ keys'[a] = keys[old(a)] /\ old(a) # i
             /\ keys[old(a)] \in Keys \ {k}
  <2>1. old(a) \in 1..n /\ old(a) # i
    OBVIOUS
  <2>2. keys'[a] = keys[old(a)]
    BY <1>1
  <2>3. keys[old(a)] \in Keys /\ keys[old(a)] # k
    BY <1>e, <2>1
  <2> QED  BY <2>1, <2>2, <2>3
<1>4. ASSUME NEW j \in 1..n, j # i
      PROVE  new(j) \in 1..(n - 1) /\ keys'[new(j)] = keys[j]
  <2>1. CASE j < i
    BY <1>1, <2>1
  <2>2. CASE j > i
    <3>1. j - 1 \in 1..(n - 1) /\ ~(j - 1 < i) /\ (j - 1) + 1 = j
      BY <2>2
    <3>2. keys'[j - 1] = keys[j]
      BY <1>1, <3>1
    <3> QED  BY <2>2, <3>1, <3>2
  <2> QED  BY <1>4, <2>1, <2>2
<1>5. /\ \A j \in 1..n : keys[j] \in Listed
      /\ \A a \in 1..(n - 1) : keys'[a] \in Listed'
      /\ \A l \in Listed : \E j \in 1..n : keys[j] = l
      /\ \A l \in Listed' : \E a \in 1..(n - 1) : keys'[a] = l
  BY <1>d DEF Listed
<1>6. Listed' = Listed \ {k}
  <2>1. \A l \in Listed' : l \in Listed \ {k}
    BY <1>3, <1>5
  <2>2. ASSUME NEW l \in Listed \ {k}
        PROVE  l \in Listed'
    <3>1. PICK j \in 1..n : keys[j] = l
      BY <1>5
    <3>2. new(j) \in 1..(n - 1) /\ keys'[new(j)] = l
      BY <1>1, <1>4, <3>1
    <3> QED  BY <1>5, <3>2
  <2> QED  BY <2>1, <2>2
<1>7. ListInv'
  <2>1. ASSUME NEW a \in 1..(n - 1), NEW b \in 1..(n - 1), keys'[a] = keys'[b]
        PROVE  a = b
    <3>1. old(a) = old(b)
      BY <1>3, <2>1 DEF ListInv
    <3> QED  BY <3>1
  <2>2. \A l \in Keys : l \in Listed' <=> kind'[l] \notin FreeKinds
    BY <1>2, <1>6 DEF ListInv, FreeKinds
  <2> QED  BY <1>1, <2>1, <2>2 DEF ListInv, FreeKinds
<1>8. ASSUME NEW a \in 1..(n - 1), NEW b \in 1..(n - 1), a < b
      PROVE  /\ old(a) < old(b)
             /\ kind'[keys'[a]] = kind[keys[old(a)]]
             /\ kind'[keys'[b]] = kind[keys[old(b)]]
  BY <1>2, <1>3, <1>8
<1>9. QueueOrder'
  <2> SUFFICES ASSUME NEW a \in 1..(n - 1), NEW b \in 1..(n - 1), a < b
               PROVE  /\ kind'[keys'[a]] # "EXCLUSIVE"
                      /\ kind'[keys'[b]] = "SHARED" \/ kind'[keys'[a]] = "PENDING"
    BY <1>d DEF QueueOrder
  <2>1. old(a) \in 1..n /\ old(b) \in 1..n
    BY <1>3
  <2>2. /\ kind[keys[old(a)]] # "EXCLUSIVE"
        /\ kind[keys[old(b)]] = "SHARED" \/ kind[keys[old(a)]] = "PENDING"
    BY <1>d, <1>8, <2>1 DEF QueueOrder
  <2> QED  BY <1>8, <2>2
<1>10. ASSUME NEW l \in Keys \ {k}, SharedBehind(l)
       PROVE  SharedBehind(l)'
  <2> SUFFICES ASSUME NEW a \in 1..(n - 1), NEW b \in 1..(n - 1),
                      keys'[a] = l, a < b
               PROVE  kind'[keys'[b]] = "SHARED"
    BY <1>1 DEF SharedBehind
  <2>1. old(a) \in 1..n /\ old(b) \in 1..n /\ keys[old(a)] = l
    BY <1>3
  <2> QED  BY <1>8, <1>10, <2>1 DEF SharedBehind
<1> QED  BY <1>1, <1>2, <1>6, <1>7, <1>9, <1>10

\* A key in the list that is not shared becomes exclusive, if it is the last
\* one, waiting, or downgraded, if all keys before it wait.
LEMMA RekindList ==
  ASSUME keys \in Seq(Keys), kind \in [Keys -> Kinds], ListInv, QueueOrder,
         NEW k \in Listed, NEW kd \in ListKinds \ {"SHARED"},
         keys' = keys, kind' = [kind EXCEPT ![k] = kd],
         kind[k] # "SHARED",
         kd = "EXCLUSIVE" => ~HasNext(k),
         kd = "DOWNGRADED" => SharedBehind(k)
  PROVE  /\ kind' \in [Keys -> Kinds]
         /\ ListInv' /\ QueueOrder'
         /\ Listed' = Listed
         /\ \A l \in Keys : SharedBehind(l) => SharedBehind(l)'
         /\ \A l \in Keys : HasNext(l)' <=> HasNext(l)
         /\ kd \in Excluding => (ExclusiveHead => ExclusiveHead')
<1>1. /\ k \in Keys
      /\ kind' \in [Keys -> Kinds]
      /\ kind'[k] = kd
      /\ \A l \in Keys \ {k} : kind'[l] = kind[l]
  BY DEF ListKinds, Kinds, Listed
<1>2. PICK p \in 1..Len(keys) : keys[p] = k
  BY DEF Listed
<1>3. \A j \in 1..Len(keys) : keys[j] \in Keys /\ (keys[j] = k <=> j = p)
  BY <1>2 DEF ListInv
<1>4. Listed' = Listed
  BY DEF Listed
<1>5. ListInv'
  BY <1>1, <1>4 DEF ListInv, ListKinds
<1>6. \A j \in 1..Len(keys) : j < p => kind[keys[j]] = "PENDING"
  BY <1>2 DEF QueueOrder
<1>7. kd = "EXCLUSIVE" => p = Len(keys)
  BY <1>2 DEF HasNext
<1>8. kd = "DOWNGRADED" => \A j \in 1..Len(keys) : p < j => kind[keys[j]] = "SHARED"
  BY <1>2 DEF SharedBehind
<1>9. QueueOrder'
  BY <1>1, <1>3, <1>6, <1>7, <1>8 DEF QueueOrder, ListKinds
<1>10. ASSUME NEW l \in Keys, SharedBehind(l)
       PROVE  SharedBehind(l)'
  BY <1>1, <1>3, <1>10 DEF SharedBehind
<1>11. \A l \in Keys : HasNext(l)' <=> HasNext(l)
  BY DEF HasNext
<1>12. kd \in Excluding => (ExclusiveHead => ExclusiveHead')
  BY <1>1, <1>3 DEF ExclusiveHead
<1> QED  BY <1>1, <1>4, <1>5, <1>9, <1>10, <1>11, <1>12

-----------------------------------------------------------------------------
(* The number of waiting threads.                                          *)

Waiting == {t \in Threads : pc[t] \in MutexWaits}

\* One thread starts to wait, stops waiting, or does neither.
LEMMA WaitCount ==
  ASSUME pc \in [Threads -> PCs], NEW t \in Threads, NEW w \in PCs,
         pc' = [pc EXCEPT ![t] = w]
  PROVE  /\ Cardinality(Waiting) \in Nat
         /\ pc[t] \notin MutexWaits /\ w \in MutexWaits =>
              Cardinality(Waiting)' = Cardinality(Waiting) + 1
         /\ pc[t] \in MutexWaits /\ w \notin MutexWaits =>
              /\ Cardinality(Waiting)' = Cardinality(Waiting) - 1
              /\ Cardinality(Waiting)' \in Nat
         /\ (pc[t] \in MutexWaits <=> w \in MutexWaits) =>
              Cardinality(Waiting)' = Cardinality(Waiting)
<1>1. IsFiniteSet(Waiting) /\ Cardinality(Waiting) \in Nat
  <2>1. IsFiniteSet(Waiting)
    BY MutexAssumption, FS_Subset DEF Waiting
  <2> QED  BY <2>1, FS_CardinalityType
<1>2. ASSUME pc[t] \notin MutexWaits, w \in MutexWaits
      PROVE  Cardinality(Waiting)' = Cardinality(Waiting) + 1
  <2>1. Waiting' = Waiting \cup {t} /\ t \notin Waiting
    BY <1>2 DEF Waiting
  <2> QED  BY <1>1, <2>1, FS_AddElement
<1>3. ASSUME pc[t] \in MutexWaits, w \notin MutexWaits
      PROVE  /\ Cardinality(Waiting)' = Cardinality(Waiting) - 1
             /\ Cardinality(Waiting)' \in Nat
  <2>1. Waiting' = Waiting \ {t} /\ t \in Waiting
    BY <1>3 DEF Waiting
  <2>2. IsFiniteSet(Waiting \ {t}) /\ Cardinality(Waiting \ {t}) = Cardinality(Waiting) - 1
    BY <1>1, <2>1, FS_RemoveElement
  <2> QED  BY <2>1, <2>2, FS_CardinalityType
<1>4. ASSUME pc[t] \in MutexWaits <=> w \in MutexWaits
      PROVE  Cardinality(Waiting)' = Cardinality(Waiting)
  <2>1. Waiting' = Waiting
    BY <1>4 DEF Waiting
  <2> QED  BY <2>1
<1> QED  BY <1>1, <1>2, <1>3, <1>4

\* A thread that waits is counted.
LEMMA SomebodyWaits ==
  ASSUME pc \in [Threads -> PCs], NEW t \in Threads, pc[t] \in MutexWaits
  PROVE  Cardinality(Waiting) \in Nat \ {0}
<1>1. IsFiniteSet(Waiting) /\ Cardinality(Waiting) \in Nat
  <2>1. IsFiniteSet(Waiting)
    BY MutexAssumption, FS_Subset DEF Waiting
  <2> QED  BY <2>1, FS_CardinalityType
<1>2. t \in Waiting
  BY DEF Waiting
<1> QED  BY <1>1, <1>2, FS_EmptySet

-----------------------------------------------------------------------------
(* The inductive invariant in two parts: the types of the variables that   *)
(* no other part speaks of, and the rest.                                  *)

RestOK ==
  /\ prog \in BOOLEAN
  /\ condition \in BOOLEAN
  /\ pending \subseteq Requests
  /\ cond_prog \in BOOLEAN
  /\ disabler \in Threads \cup {NoThread}
  /\ timed \subseteq Threads
  /\ todo \in [Threads -> SUBSET Requests]
  /\ leaked \subseteq Keys

CoreType ==
  /\ keys \in Seq(Keys)
  /\ kind \in [Keys -> Kinds]
  /\ owner \in [Keys -> Threads \cup {NoThread}]
  /\ num_waiting \in Nat
  /\ pc \in [Threads -> PCs]
  /\ cur \in [Threads -> Keys \cup {NoKey}]
  /\ asleep \subseteq Threads
  /\ held \subseteq Keys
  /\ interrupts \in 0..MaxInterrupts

Core ==
  /\ CoreType
  /\ ListInv
  /\ KeyInv
  /\ WaitInv
  /\ QueueOrder
  /\ UpgradeOrder
  /\ NumWaiting
  /\ SleepInv
  /\ NoLostWakeup

(* The inductive invariant is the part about the key list and its waiters (Core)
   and the part about the remaining variables (RestOK), proved apart below. *)
LEMMA InvParts == IInv <=> RestOK /\ Core
BY DEF IInv, TypeOK, RestOK, Core, CoreType

(* The same split for the next state, in the direction the step proofs use. *)
LEMMA InvPartsNext == RestOK' /\ Core' => IInv'
BY DEF IInv, TypeOK, RestOK, Core, CoreType

IdlePCs == {"run", "grant", "exit_cond"}

\* Steps of a thread that does not wait, which leave the list and the kinds
\* alone: some threads may wake up.
LEMMA IdleStep ==
  ASSUME Core, NEW t \in Threads, NEW w \in IdlePCs, pc[t] \in IdlePCs,
         pc' = [pc EXCEPT ![t] = w], asleep' \subseteq asleep, held' \subseteq held,
         UNCHANGED <<keys, kind, owner, num_waiting, cur, interrupts>>
  PROVE  Core'
<1> USE DEF Core
<1>1. CoreType'
  BY DEF CoreType, IdlePCs, PCs
<1>2. /\ Listed' = Listed
      /\ ExclusiveHead' <=> ExclusiveHead
      /\ \A l \in Keys : SharedBehind(l)' <=> SharedBehind(l)
      /\ \A l \in Keys : HasNext(l)' <=> HasNext(l)
  BY DEF Listed, ExclusiveHead, SharedBehind, HasNext
<1>3. ListInv' /\ KeyInv' /\ QueueOrder'
  BY <1>2 DEF ListInv, KeyInv, QueueOrder
<1>4. /\ \A u \in Threads \ {t} : pc'[u] = pc[u]
      /\ pc'[t] = w
  BY DEF CoreType
<1>5. WaitInv' /\ UpgradeOrder' /\ SleepInv' /\ NoLostWakeup'
  BY <1>2, <1>4 DEF CoreType, WaitInv, UpgradeOrder, SleepInv, NoLostWakeup,
     IdlePCs, KeyWaits, FreeWaits
<1>6. NumWaiting'
  <2>1. Cardinality(Waiting)' = Cardinality(Waiting)
    BY WaitCount DEF CoreType, IdlePCs, MutexWaits, PCs
  <2> QED  BY <2>1 DEF NumWaiting, Waiting
<1> QED  BY <1>1, <1>3, <1>5, <1>6

\* Where a key may be linked that is shared, or exclusive, at once.
Place(i, kd) ==
  /\ i \in 0..Len(keys)
  /\ i > 0 \/ ~ExclusiveHead
  /\ \/ /\ kd = "SHARED"
        /\ \A j \in 1..i : kind[keys[j]] # "EXCLUSIVE"
        /\ \A j \in (i + 1)..Len(keys) : kind[keys[j]] = "SHARED"
     \/ kd = "EXCLUSIVE" /\ i = 0 /\ Len(keys) = 0

\* A thread that does not wait gets a new key, for itself or for a future.
LEMMA GrantStep ==
  ASSUME Core, NEW t \in Threads, NEW w \in IdlePCs, pc[t] \in IdlePCs,
         NEW k \in Fresh, NEW i, NEW kd, Place(i, kd),
         keys' = LinkAfter(i, k), SetKey(k, t, kd), held' = held \cup {k},
         pc' = [pc EXCEPT ![t] = w],
         UNCHANGED <<num_waiting, cur, asleep, interrupts>>
  PROVE  Core'
<1> USE DEF Core
<1>1. /\ k \in Keys /\ kind[k] = "UNINITIALIZED" /\ k \notin Listed
      /\ kind' = [kind EXCEPT ![k] = kd]
      /\ owner' = [owner EXCEPT ![k] = t]
  BY DEF Fresh, SetKey, ListInv
<1>p. /\ i \in 0..Len(keys)
      /\ kd \in {"SHARED", "EXCLUSIVE"}
      /\ kd = "SHARED" \/ i = 0
      /\ \A j \in 1..i : kd = "SHARED" /\ kind[keys[j]] # "EXCLUSIVE"
      /\ \A j \in (i + 1)..Len(keys) : kd = "SHARED" /\ kind[keys[j]] = "SHARED"
      /\ i > 0 \/ ~ExclusiveHead
  BY DEF Place
<1>2. /\ keys' \in Seq(Keys) /\ kind' \in [Keys -> Kinds]
      /\ ListInv' /\ QueueOrder'
      /\ Listed' = Listed \cup {k}
      /\ \A l \in Keys \ {k} : SharedBehind(l) => SharedBehind(l)'
      /\ \A l \in Keys : HasNext(l) => HasNext(l)'
      /\ ExclusiveHead => ExclusiveHead'
  <2>1. kd \in ListKinds /\ k \in Keys \ Listed
    BY <1>1, <1>p DEF ListKinds
  <2>3. keys \in Seq(Keys) /\ kind \in [Keys -> Kinds]
    BY DEF CoreType
  <2>4. /\ \A j \in 1..i : kind[keys[j]] = "PENDING" \/ (kd = "SHARED" /\ kind[keys[j]] # "EXCLUSIVE")
        /\ \A j \in (i + 1)..Len(keys) : kd = "PENDING" \/ (kd # "EXCLUSIVE" /\ kind[keys[j]] = "SHARED")
    BY <1>p
  <2> QED  BY <1>1, <1>p, <2>1, <2>3, <2>4, LinkList
<1>3. CoreType'
  BY <1>1, <1>2 DEF CoreType, IdlePCs, PCs
<1>4. KeyInv'
  BY <1>1, <1>p DEF KeyInv, CoreType
<1>5. /\ \A u \in Threads \ {t} : pc'[u] = pc[u]
      /\ pc'[t] = w
      /\ \A l \in Keys \ {k} : kind'[l] = kind[l]
  BY <1>1 DEF CoreType
<1>6. \A u \in Threads : pc[u] \in KeyWaits \cup FreeWaits => cur[u] \in Keys \ {k}
  BY <1>1 DEF WaitInv
<1>7. WaitInv' /\ UpgradeOrder' /\ SleepInv' /\ NoLostWakeup'
  BY <1>2, <1>5, <1>6 DEF CoreType, WaitInv, UpgradeOrder, SleepInv, NoLostWakeup,
     IdlePCs, KeyWaits, FreeWaits
<1>8. NumWaiting'
  <2>1. Cardinality(Waiting)' = Cardinality(Waiting)
    BY WaitCount DEF CoreType, IdlePCs, MutexWaits, PCs
  <2> QED  BY <2>1 DEF NumWaiting, Waiting
<1> QED  BY <1>2, <1>3, <1>4, <1>7, <1>8

\* A thread puts its key in front of the list and waits for the mutex.
LEMMA QueueStep ==
  ASSUME Core, NEW t \in Threads, NEW w \in {"lock", "relock"},
         pc[t] \in IdlePCs \cup {"wait"},
         NEW k \in Keys, kind[k] \in FreeKinds, \A u \in Threads \ {t} : cur[u] # k,
         w = "lock" => k \notin held,
         keys # <<>>, keys' = LinkAfter(0, k), kind' = [kind EXCEPT ![k] = "PENDING"],
         owner' \in [Keys -> Threads \cup {NoThread}], owner'[k] \in Threads,
         \A l \in Keys \ {k} : owner'[l] = owner[l],
         pc' = [pc EXCEPT ![t] = w], cur' = [cur EXCEPT ![t] = k],
         asleep' = asleep \cup {t}, num_waiting' = num_waiting + 1,
         UNCHANGED <<held, interrupts>>
  PROVE  Core'
<1> USE DEF Core
<1>1. k \notin Listed
  BY DEF ListInv, FreeKinds
<1>2. /\ keys' \in Seq(Keys) /\ kind' \in [Keys -> Kinds]
      /\ ListInv' /\ QueueOrder'
      /\ Listed' = Listed \cup {k}
      /\ \A l \in Keys \ {k} : SharedBehind(l) => SharedBehind(l)'
      /\ \A l \in Keys : HasNext(l) => HasNext(l)'
      /\ HasNext(k)'
      /\ ExclusiveHead => ExclusiveHead'
  <2>1. "PENDING" \in ListKinds /\ k \in Keys \ Listed /\ 0 \in 0..Len(keys)
    BY <1>1 DEF ListKinds, CoreType
  <2>3. keys \in Seq(Keys) /\ kind \in [Keys -> Kinds]
    BY DEF CoreType
  <2>4. \A j \in 1..0 : kind[keys[j]] = "PENDING"
    OBVIOUS
  <2> QED  BY <2>1, <2>3, <2>4, LinkList DEF Excluding
<1>3. CoreType'
  BY <1>2 DEF CoreType, PCs, MutexWaits
<1>5. /\ \A u \in Threads \ {t} : pc'[u] = pc[u] /\ cur'[u] = cur[u]
      /\ pc'[t] = w /\ cur'[t] = k
      /\ \A l \in Keys \ {k} : kind'[l] = kind[l]
      /\ kind'[k] = "PENDING"
  BY DEF CoreType
<1>4. KeyInv'
  BY <1>5 DEF KeyInv, CoreType
<1>7. WaitInv'
  BY <1>5, MutexAssumption DEF CoreType, WaitInv, KeyWaits, FreeWaits
<1>8. UpgradeOrder' /\ SleepInv' /\ NoLostWakeup'
  BY <1>2, <1>5 DEF CoreType, WaitInv, UpgradeOrder, SleepInv, NoLostWakeup,
     KeyWaits, FreeWaits
<1>9. NumWaiting'
  <2>1. Cardinality(Waiting)' = Cardinality(Waiting) + 1 /\ Cardinality(Waiting) \in Nat
    BY WaitCount DEF CoreType, IdlePCs, MutexWaits, PCs
  <2> QED  BY <2>1 DEF NumWaiting, Waiting, CoreType
<1> QED  BY <1>2, <1>3, <1>4, <1>7, <1>8, <1>9

\* A key leaves the list.  The thread that takes it out does not wait for the
\* mutex afterwards, and no other thread that does stays asleep.
LEMMA UnlinkStep ==
  ASSUME Core, NEW t \in Threads, NEW w \in IdlePCs \cup {"wait"}, NEW c,
         NEW k \in Listed, NEW kd \in FreeKinds,
         keys' = Unlinked(k), kind' = [kind EXCEPT ![k] = kd],
         owner' \in [Keys -> Threads \cup {NoThread}],
         \A l \in Keys \ {k} : owner'[l] = owner[l],
         kd = "INITIALIZED" => owner'[k] \in Threads,
         pc[t] \in IdlePCs \cup MutexWaits, \A u \in Threads \ {t} : cur[u] # k,
         pc' = [pc EXCEPT ![t] = w], cur' = [cur EXCEPT ![t] = c],
         \/ w \in IdlePCs /\ c = NoKey
         \/ w = "wait" /\ c = k /\ kd = "INITIALIZED",
         held' \subseteq held, k \in held' => kd = "INITIALIZED",
         asleep' \subseteq asleep \cup {t},
         \A u \in asleep' \ {t} : pc[u] \notin MutexWaits,
         t \in asleep' => w = "wait",
         num_waiting' = IF pc[t] \in MutexWaits THEN num_waiting - 1 ELSE num_waiting,
         UNCHANGED interrupts
  PROVE  Core'
<1> USE DEF Core
<1>1. keys \in Seq(Keys) /\ kind \in [Keys -> Kinds] /\ k \in Keys
  BY DEF CoreType, Listed
<1>2. /\ keys' \in Seq(Keys) /\ kind' \in [Keys -> Kinds]
      /\ ListInv' /\ QueueOrder'
      /\ \A l \in Keys \ {k} : SharedBehind(l) => SharedBehind(l)'
  BY <1>1, UnlinkList
<1>3. /\ \A u \in Threads \ {t} : pc'[u] = pc[u] /\ cur'[u] = cur[u]
      /\ pc'[t] = w /\ cur'[t] = c
      /\ \A l \in Keys \ {k} : kind'[l] = kind[l]
      /\ kind'[k] = kd
  BY <1>1 DEF CoreType
<1>4. /\ num_waiting' \in Nat
      /\ num_waiting' = Cardinality(Waiting)' + interrupts
  <2>1. w \in PCs /\ w \notin MutexWaits
    BY DEF PCs, MutexWaits, IdlePCs
  <2>2. CASE pc[t] \in MutexWaits
    <3>1. /\ Cardinality(Waiting)' = Cardinality(Waiting) - 1
          /\ Cardinality(Waiting)' \in Nat /\ Cardinality(Waiting) \in Nat
      BY <2>1, <2>2, WaitCount DEF CoreType
    <3> QED  BY <2>2, <3>1 DEF NumWaiting, Waiting, CoreType
  <2>3. CASE pc[t] \notin MutexWaits
    <3>1. Cardinality(Waiting)' = Cardinality(Waiting)
      BY <2>1, <2>3, WaitCount DEF CoreType
    <3> QED  BY <2>3, <3>1 DEF NumWaiting, Waiting, CoreType
  <2> QED  BY <2>2, <2>3
<1>5. CoreType'
  BY <1>1, <1>2, <1>4 DEF CoreType, PCs, IdlePCs
<1>6. NumWaiting'
  BY <1>4 DEF NumWaiting, Waiting
<1>7. KeyInv'
  BY <1>1, <1>3 DEF KeyInv, CoreType, FreeKinds
<1>8. WaitInv'
  BY <1>1, <1>3, MutexAssumption DEF CoreType, WaitInv, KeyWaits, FreeWaits, IdlePCs
<1>9. UpgradeOrder'
  BY <1>2, <1>3 DEF CoreType, WaitInv, UpgradeOrder, KeyWaits, IdlePCs
<1>10. SleepInv' /\ NoLostWakeup'
  BY <1>3 DEF CoreType, SleepInv, NoLostWakeup, KeyWaits, FreeWaits, MutexWaits
<1> QED  BY <1>2, <1>5, <1>6, <1>7, <1>8, <1>9, <1>10

\* A thread stops waiting and leaves its key where it is, or gives up a key
\* that was not in the list.
LEMMA LeaveStep ==
  ASSUME Core, NEW t \in Threads \ asleep, pc[t] \in KeyWaits \cup FreeWaits,
         NEW kd, kd = kind[cur[t]] \/ (pc[t] = "shared_lock" /\ kd = "UNINITIALIZED"),
         kind' = [kind EXCEPT ![cur[t]] = kd],
         owner' \in [Keys -> Threads \cup {NoThread}],
         \A l \in Keys : owner'[l] = owner[l] \/ (l = cur[t] /\ kd = "UNINITIALIZED"),
         Resume(t), UNCHANGED <<keys, held, asleep>>,
         num_waiting' \in Nat, interrupts' \in 0..MaxInterrupts,
         num_waiting' + interrupts =
           (IF pc[t] \in MutexWaits THEN num_waiting - 1 ELSE num_waiting) + interrupts'
  PROVE  Core'
<1> USE DEF Core
<1> DEFINE k == cur[t]
<1>1. /\ k \in Keys /\ kind[k] \in {"PENDING", "INITIALIZED"}
      /\ pc[t] \in FreeWaits => kind[k] = "INITIALIZED"
      /\ kd \in Kinds
      /\ pc' = [pc EXCEPT ![t] = "run"]
      /\ cur' = [cur EXCEPT ![t] = NoKey]
  BY DEF WaitInv, CoreType, Resume, Kinds
<1>2. CoreType'
  BY <1>1 DEF CoreType, PCs
<1>3. /\ \A u \in Threads \ {t} : pc'[u] = pc[u] /\ cur'[u] = cur[u]
      /\ pc'[t] = "run" /\ cur'[t] = NoKey
      /\ \A l \in Keys \ {k} : kind'[l] = kind[l]
      /\ kind'[k] = kd
  BY <1>1 DEF CoreType
<1>4. Listed' = Listed /\ \A l \in Listed : kind'[l] = kind[l]
  <2>1. Listed' = Listed /\ Listed \subseteq Keys
    BY DEF Listed, CoreType
  <2>2. kd # kind[k] => k \notin Listed
    BY <1>1 DEF ListInv, FreeWaits
  <2> QED  BY <1>3, <2>1, <2>2
<1>5. \A i \in DOMAIN keys : keys[i] \in Listed /\ kind'[keys[i]] = kind[keys[i]]
  BY <1>4 DEF Listed
<1>6. ListInv'
  BY <1>1, <1>3, <1>4 DEF ListInv, FreeWaits
<1>7. QueueOrder' /\ (ExclusiveHead' <=> ExclusiveHead)
  BY <1>2, <1>5 DEF QueueOrder, ExclusiveHead, CoreType
<1>8. \A l \in Keys : /\ SharedBehind(l) => SharedBehind(l)'
                      /\ HasNext(l)' <=> HasNext(l)
  BY <1>5 DEF SharedBehind, HasNext
<1>9. KeyInv'
  BY <1>1, <1>3 DEF KeyInv, CoreType, WaitInv
<1>10. WaitInv'
  <2>1. \A u \in Threads \ {t} : cur[u] # k
    BY <1>1, MutexAssumption DEF WaitInv, CoreType
  <2>2. \A u \in Threads \ {t} : cur[u] \in Keys => kind'[cur[u]] = kind[cur[u]]
    BY <1>3, <2>1
  <2> QED  BY <1>3, <2>1, <2>2 DEF CoreType, WaitInv, KeyWaits, FreeWaits
<1>11. UpgradeOrder' /\ SleepInv' /\ NoLostWakeup'
  BY <1>3, <1>7, <1>8 DEF CoreType, WaitInv, UpgradeOrder, SleepInv, NoLostWakeup,
     KeyWaits, FreeWaits
<1>12. NumWaiting'
  <2>1. "run" \in PCs /\ "run" \notin MutexWaits
    BY DEF PCs, MutexWaits
  <2>2. /\ Cardinality(Waiting) \in Nat
        /\ Cardinality(Waiting)' = IF pc[t] \in MutexWaits THEN Cardinality(Waiting) - 1
                                   ELSE Cardinality(Waiting)
    BY <1>1, <2>1, WaitCount DEF CoreType
  <2>3. /\ num_waiting = Cardinality(Waiting) + interrupts
        /\ num_waiting \in Nat /\ interrupts \in Nat /\ interrupts' \in Nat
    BY MutexAssumption DEF NumWaiting, Waiting, CoreType
  <2>4. num_waiting' = Cardinality(Waiting)' + interrupts'
    BY <2>2, <2>3
  <2> QED  BY <2>4 DEF NumWaiting, Waiting
<1> QED  BY <1>2, <1>6, <1>7, <1>9, <1>10, <1>11, <1>12

\* A thread that waited outside the list is given its key.
LEMMA ReceiveStep ==
  ASSUME Core, NEW t \in Threads \ asleep, pc[t] \in FreeWaits,
         NEW i, NEW kd, Place(i, kd),
         keys' = LinkAfter(i, cur[t]), kind' = [kind EXCEPT ![cur[t]] = kd],
         ~ExclusiveHead,
         held' \subseteq held \cup {cur[t]}, Resume(t),
         num_waiting' = IF pc[t] \in MutexWaits THEN num_waiting - 1 ELSE num_waiting,
         UNCHANGED <<owner, asleep, interrupts>>
  PROVE  Core'
<1> USE DEF Core
<1> DEFINE k == cur[t]
<1>1. /\ k \in Keys /\ kind[k] = "INITIALIZED" /\ k \notin Listed
      /\ pc' = [pc EXCEPT ![t] = "run"]
      /\ cur' = [cur EXCEPT ![t] = NoKey]
  BY DEF WaitInv, CoreType, Resume, ListInv
<1>p. /\ i \in 0..Len(keys)
      /\ kd \in {"SHARED", "EXCLUSIVE"}
      /\ kd = "SHARED" \/ i = 0
      /\ \A j \in 1..i : kd = "SHARED" /\ kind[keys[j]] # "EXCLUSIVE"
      /\ \A j \in (i + 1)..Len(keys) : kd = "SHARED" /\ kind[keys[j]] = "SHARED"
  BY DEF Place
<1>2. /\ keys' \in Seq(Keys) /\ kind' \in [Keys -> Kinds]
      /\ ListInv' /\ QueueOrder'
      /\ Listed' = Listed \cup {k}
      /\ \A l \in Keys \ {k} : SharedBehind(l) => SharedBehind(l)'
      /\ \A l \in Keys : HasNext(l) => HasNext(l)'
  <2>1. kd \in ListKinds /\ k \in Keys \ Listed
    BY <1>1, <1>p DEF ListKinds
  <2>3. keys \in Seq(Keys) /\ kind \in [Keys -> Kinds]
    BY DEF CoreType
  <2>4. /\ \A j \in 1..i : kind[keys[j]] = "PENDING" \/ (kd = "SHARED" /\ kind[keys[j]] # "EXCLUSIVE")
        /\ \A j \in (i + 1)..Len(keys) : kd = "PENDING" \/ (kd # "EXCLUSIVE" /\ kind[keys[j]] = "SHARED")
    BY <1>p
  <2> QED  BY <1>1, <1>p, <2>1, <2>3, <2>4, LinkList
<1>3. /\ \A u \in Threads \ {t} : pc'[u] = pc[u] /\ cur'[u] = cur[u]
      /\ pc'[t] = "run" /\ cur'[t] = NoKey
      /\ \A l \in Keys \ {k} : kind'[l] = kind[l]
      /\ kind'[k] = kd
  BY <1>1 DEF CoreType
<1>4. num_waiting' \in Nat /\ num_waiting' = Cardinality(Waiting)' + interrupts
  <2>1. "run" \in PCs /\ "run" \notin MutexWaits
    BY DEF PCs, MutexWaits
  <2>2. /\ Cardinality(Waiting) \in Nat
        /\ Cardinality(Waiting)' \in Nat
        /\ Cardinality(Waiting)' = IF pc[t] \in MutexWaits THEN Cardinality(Waiting) - 1
                                   ELSE Cardinality(Waiting)
    BY <1>1, <2>1, WaitCount DEF CoreType
  <2> QED  BY <2>2, MutexAssumption DEF NumWaiting, Waiting, CoreType
<1>5. CoreType'
  BY <1>1, <1>2, <1>4 DEF CoreType, PCs
<1>6. NumWaiting'
  BY <1>4 DEF NumWaiting, Waiting
<1>7. KeyInv'
  BY <1>p, <1>1, <1>3 DEF KeyInv, CoreType
<1>8. WaitInv'
  <2>1. \A u \in Threads \ {t} : cur[u] # k
    BY <1>1, MutexAssumption DEF WaitInv, CoreType
  <2>2. \A u \in Threads \ {t} : cur[u] \in Keys => kind'[cur[u]] = kind[cur[u]]
    BY <1>3, <2>1
  <2> QED  BY <1>3, <2>1, <2>2 DEF CoreType, WaitInv, KeyWaits, FreeWaits
<1>9. UpgradeOrder' /\ SleepInv' /\ NoLostWakeup'
  BY <1>1, <1>2, <1>3 DEF CoreType, WaitInv, UpgradeOrder, SleepInv, NoLostWakeup,
     KeyWaits, FreeWaits
<1> QED  BY <1>2, <1>5, <1>6, <1>7, <1>8, <1>9

\* A key in the list becomes exclusive, at the end of the list, or becomes
\* downgraded, which wakes all threads that wait for the mutex.
LEMMA RekindStep ==
  ASSUME Core, NEW t \in Threads \ asleep, NEW k \in Listed,
         NEW kd \in {"EXCLUSIVE", "DOWNGRADED"},
         \/ /\ pc[t] \in IdlePCs /\ kind[k] \in {"EXCLUSIVE", "DOWNGRADED"}
            /\ UNCHANGED <<pc, cur, num_waiting>>
         \/ /\ pc[t] \in KeyWaits /\ cur[t] = k
            /\ Resume(t) /\ num_waiting' = num_waiting - 1,
         keys' = keys, kind' = [kind EXCEPT ![k] = kd],
         kd = "EXCLUSIVE" => ~HasNext(k) /\ asleep' = asleep,
         kd = "DOWNGRADED" => SharedBehind(k) /\ asleep' = asleep \ MutexSleepers,
         held' \subseteq held \cup {k}, UNCHANGED <<owner, interrupts>>
  PROVE  Core'
<1> USE DEF Core
<1>1. /\ keys \in Seq(Keys) /\ kind \in [Keys -> Kinds] /\ k \in Keys
      /\ kind[k] \in {"EXCLUSIVE", "DOWNGRADED", "PENDING"}
      /\ \A u \in Threads \ {t} : cur[u] # k
      /\ pc[t] \in IdlePCs => cur[t] # k
  BY MutexAssumption DEF CoreType, WaitInv, Listed, KeyWaits, FreeWaits, IdlePCs
<1>2. /\ kind' \in [Keys -> Kinds]
      /\ ListInv' /\ QueueOrder'
      /\ Listed' = Listed
      /\ \A l \in Keys : SharedBehind(l) => SharedBehind(l)'
      /\ \A l \in Keys : HasNext(l)' <=> HasNext(l)
      /\ kd \in Excluding => (ExclusiveHead => ExclusiveHead')
  <2>1. kd \in ListKinds \ {"SHARED"} /\ kind[k] # "SHARED"
    BY <1>1 DEF ListKinds
  <2> QED  BY <1>1, <2>1, RekindList
<1>3. /\ \A u \in Threads \ {t} : pc'[u] = pc[u] /\ cur'[u] = cur[u]
      /\ \A l \in Keys \ {k} : kind'[l] = kind[l]
      /\ kind'[k] = kd
      /\ \/ pc[t] \in IdlePCs /\ pc'[t] = pc[t] /\ cur'[t] = cur[t] /\ pc' = pc /\ cur' = cur
         \/ pc[t] \in KeyWaits /\ pc'[t] = "run" /\ cur'[t] = NoKey
            /\ pc' = [pc EXCEPT ![t] = "run"] /\ cur' = [cur EXCEPT ![t] = NoKey]
  BY <1>1 DEF CoreType, Resume
<1>4. num_waiting' \in Nat /\ num_waiting' = Cardinality(Waiting)' + interrupts
  <2>1. CASE pc[t] \in KeyWaits
    <3>1. pc' = [pc EXCEPT ![t] = "run"] /\ num_waiting' = num_waiting - 1
      BY <1>3, <2>1 DEF IdlePCs, KeyWaits
    <3>2. "run" \in PCs /\ "run" \notin MutexWaits /\ pc[t] \in MutexWaits
      BY <2>1 DEF PCs, MutexWaits, KeyWaits
    <3>3. /\ Cardinality(Waiting) \in Nat
          /\ Cardinality(Waiting)' \in Nat
          /\ Cardinality(Waiting)' = Cardinality(Waiting) - 1
      BY <3>1, <3>2, WaitCount DEF CoreType
    <3> QED  BY <3>1, <3>3, MutexAssumption DEF NumWaiting, Waiting, CoreType
  <2>2. CASE pc[t] \in IdlePCs
    <3>1. pc' = pc /\ num_waiting' = num_waiting
      BY <1>3, <2>2 DEF IdlePCs, KeyWaits
    <3>2. Waiting' = Waiting
      BY <3>1 DEF Waiting
    <3> QED  BY <3>1, <3>2 DEF NumWaiting, Waiting, CoreType
  <2> QED  BY <2>1, <2>2
<1>5. CoreType'
  BY <1>1, <1>2, <1>3, <1>4 DEF CoreType, PCs
<1>6. NumWaiting'
  BY <1>4 DEF NumWaiting, Waiting
<1>7. KeyInv'
  BY <1>1, <1>3 DEF KeyInv, CoreType
<1>8. WaitInv'
  <2>1. \A u \in Threads \ {t} : cur[u] \in Keys => kind'[cur[u]] = kind[cur[u]]
    BY <1>1, <1>3
  <2>2. pc'[t] \notin KeyWaits \cup FreeWaits /\ cur'[t] = NoKey
    BY <1>3 DEF IdlePCs, KeyWaits, FreeWaits, WaitInv
  <2>3. \A u \in Threads \ {t} : cur[u] \notin held => cur'[u] \notin held'
    BY <1>1, <1>3
  <2> QED  BY <1>3, <2>1, <2>2, <2>3 DEF CoreType, WaitInv, KeyWaits, FreeWaits
<1>9. UpgradeOrder'
  BY <1>2, <1>3 DEF CoreType, WaitInv, UpgradeOrder, KeyWaits, IdlePCs
<1>10. SleepInv'
  BY <1>3 DEF CoreType, SleepInv
<1>11. NoLostWakeup'
  <2>1. CASE kd = "EXCLUSIVE"
    BY <1>2, <1>3, <2>1 DEF CoreType, WaitInv, NoLostWakeup, KeyWaits, FreeWaits, Excluding
  <2>2. CASE kd = "DOWNGRADED"
    BY <1>3, <2>2 DEF CoreType, NoLostWakeup, MutexSleepers, MutexWaits
  <2> QED  BY <2>1, <2>2
<1> QED  BY <1>2, <1>5, <1>6, <1>7, <1>8, <1>9, <1>10, <1>11

\* A thread begins to wait in upgrade().
LEMMA UpgradeStep ==
  ASSUME Core, NEW t \in Threads, pc[t] \in IdlePCs, NEW k \in Listed,
         kind[k] = "DOWNGRADED", HasNext(k),
         keys' = keys, kind' = [kind EXCEPT ![k] = "PENDING"],
         pc' = [pc EXCEPT ![t] = "upgrade"], cur' = [cur EXCEPT ![t] = k],
         asleep' = asleep \cup {t}, num_waiting' = num_waiting + 1,
         UNCHANGED <<owner, held, interrupts>>
  PROVE  Core'
<1> USE DEF Core
<1>1. /\ keys \in Seq(Keys) /\ kind \in [Keys -> Kinds] /\ k \in Keys
      /\ \A u \in Threads : cur[u] # k
  BY MutexAssumption DEF CoreType, WaitInv, Listed, KeyWaits, FreeWaits
<1>2. /\ kind' \in [Keys -> Kinds]
      /\ ListInv' /\ QueueOrder'
      /\ Listed' = Listed
      /\ \A l \in Keys : SharedBehind(l) => SharedBehind(l)'
      /\ \A l \in Keys : HasNext(l)' <=> HasNext(l)
      /\ ExclusiveHead => ExclusiveHead'
  <2>1. "PENDING" \in ListKinds \ {"SHARED"} /\ "PENDING" \in Excluding
    BY DEF ListKinds, Excluding
  <2> QED  BY <1>1, <2>1, RekindList
<1>3. SharedBehind(k)
  BY DEF SharedBehind, QueueOrder
<1>4. /\ \A u \in Threads \ {t} : pc'[u] = pc[u] /\ cur'[u] = cur[u]
      /\ pc'[t] = "upgrade" /\ cur'[t] = k
      /\ \A l \in Keys \ {k} : kind'[l] = kind[l]
      /\ kind'[k] = "PENDING"
  BY <1>1 DEF CoreType
<1>5. CoreType'
  BY <1>1, <1>2 DEF CoreType, PCs, MutexWaits
<1>6. NumWaiting'
  <2>1. Cardinality(Waiting)' = Cardinality(Waiting) + 1 /\ Cardinality(Waiting) \in Nat
    BY WaitCount DEF CoreType, IdlePCs, MutexWaits, PCs
  <2> QED  BY <2>1 DEF NumWaiting, Waiting, CoreType
<1>7. KeyInv'
  BY <1>1, <1>4 DEF KeyInv, CoreType
<1>8. WaitInv'
  <2>1. \A u \in Threads \ {t} : cur[u] \in Keys => kind'[cur[u]] = kind[cur[u]]
    BY <1>1, <1>4
  <2> QED  BY <1>1, <1>4, <2>1 DEF CoreType, WaitInv, KeyWaits, FreeWaits
<1>9. UpgradeOrder' /\ SleepInv' /\ NoLostWakeup'
  BY <1>1, <1>2, <1>3, <1>4 DEF CoreType, WaitInv, UpgradeOrder, SleepInv,
     NoLostWakeup, KeyWaits, FreeWaits
<1> QED  BY <1>2, <1>5, <1>6, <1>7, <1>8, <1>9

\* A thread begins to wait in shared_lock(), with a key outside the list.
LEMMA SharedWaitStep ==
  ASSUME Core, NEW t \in Threads, pc[t] \in IdlePCs, NEW k \in Fresh, ExclusiveHead,
         SetKey(k, t, "INITIALIZED"), keys' = keys,
         pc' = [pc EXCEPT ![t] = "shared_lock"], cur' = [cur EXCEPT ![t] = k],
         asleep' = asleep \cup {t}, num_waiting' = num_waiting + 1,
         UNCHANGED <<held, interrupts>>
  PROVE  Core'
<1> USE DEF Core
<1>1. /\ k \in Keys /\ kind[k] = "UNINITIALIZED" /\ k \notin Listed /\ k \notin held
      /\ kind' = [kind EXCEPT ![k] = "INITIALIZED"]
      /\ owner' = [owner EXCEPT ![k] = t]
      /\ \A u \in Threads : cur[u] # k
  BY MutexAssumption DEF Fresh, SetKey, ListInv, KeyInv, WaitInv, CoreType, KeyWaits, FreeWaits
<1>2. /\ \A u \in Threads \ {t} : pc'[u] = pc[u] /\ cur'[u] = cur[u]
      /\ pc'[t] = "shared_lock" /\ cur'[t] = k
      /\ \A l \in Keys \ {k} : kind'[l] = kind[l]
      /\ kind'[k] = "INITIALIZED"
  BY <1>1 DEF CoreType
<1>3. CoreType'
  BY <1>1 DEF CoreType, PCs, MutexWaits, Kinds
<1>4. Listed' = Listed /\ \A i \in DOMAIN keys : kind'[keys[i]] = kind[keys[i]]
  BY <1>1, <1>2 DEF Listed, CoreType
<1>5. ListInv' /\ QueueOrder' /\ ExclusiveHead'
  BY <1>1, <1>2, <1>4 DEF ListInv, QueueOrder, ExclusiveHead, CoreType
<1>6. \A l \in Keys : /\ SharedBehind(l) => SharedBehind(l)'
                      /\ HasNext(l)' <=> HasNext(l)
  BY <1>4 DEF SharedBehind, HasNext
<1>7. KeyInv'
  BY <1>1, <1>2 DEF KeyInv, CoreType
<1>8. WaitInv'
  <2>1. \A u \in Threads \ {t} : cur[u] \in Keys => kind'[cur[u]] = kind[cur[u]]
    BY <1>1, <1>2
  <2> QED  BY <1>1, <1>2, <2>1 DEF CoreType, WaitInv, KeyWaits, FreeWaits
<1>9. UpgradeOrder' /\ SleepInv' /\ NoLostWakeup'
  BY <1>1, <1>2, <1>5, <1>6 DEF CoreType, WaitInv, UpgradeOrder, SleepInv,
     NoLostWakeup, KeyWaits, FreeWaits
<1>10. NumWaiting'
  <2>1. Cardinality(Waiting)' = Cardinality(Waiting) + 1 /\ Cardinality(Waiting) \in Nat
    BY WaitCount DEF CoreType, IdlePCs, MutexWaits, PCs
  <2> QED  BY <2>1 DEF NumWaiting, Waiting, CoreType
<1> QED  BY <1>3, <1>5, <1>7, <1>8, <1>9, <1>10

\* A thread that was woken for nothing goes back to sleep.
LEMMA AgainStep ==
  ASSUME Core, NEW t \in Threads, SleepAgain(t),
         \/ pc[t] \in KeyWaits /\ HasNext(cur[t])
         \/ pc[t] = "shared_lock" /\ ExclusiveHead
  PROVE  Core'
<1> USE DEF Core
<1>1. /\ asleep' = asleep \cup {t}
      /\ UNCHANGED <<keys, kind, owner, num_waiting, pc, cur, held, interrupts>>
  BY DEF SleepAgain, mutexVars, progVars
<1>2. /\ Listed' = Listed
      /\ ExclusiveHead' <=> ExclusiveHead
      /\ \A l : SharedBehind(l)' <=> SharedBehind(l)
      /\ \A l : HasNext(l)' <=> HasNext(l)
  BY <1>1 DEF Listed, ExclusiveHead, SharedBehind, HasNext
<1>3. CoreType' /\ ListInv' /\ KeyInv' /\ QueueOrder' /\ WaitInv' /\ UpgradeOrder'
  BY <1>1, <1>2 DEF CoreType, ListInv, KeyInv, QueueOrder, WaitInv, UpgradeOrder
<1>4. NumWaiting'
  BY <1>1 DEF NumWaiting
<1>5. SleepInv' /\ NoLostWakeup'
  BY <1>1, <1>2 DEF SleepInv, NoLostWakeup, KeyWaits, FreeWaits
<1> QED  BY <1>3, <1>4, <1>5

-----------------------------------------------------------------------------
(* Where a new key is linked.                                              *)

\* A non-empty set of positions has a first one.
LEMMA FirstExists ==
  ASSUME NEW I \in SUBSET Nat, I # {}
  PROVE  First(I) \in I
<1> DEFINE less == {ss \in Nat \X Nat : ss[1] < ss[2]}
<1>1. OpToRel(<, Nat) = less
  BY Zenon DEF OpToRel
<1>2. PICK i \in I : \A j \in I : ~(<<j, i>> \in less)
  BY <1>1, NatLessThanWellFounded, WFMin
<1>3. ASSUME NEW j \in I
      PROVE  i <= j
  <2>1. i \in Nat /\ j \in Nat
    OBVIOUS
  <2>2. <<j, i>> \notin less
    BY <1>2
  <2>3. ~(j < i)
    BY <2>1, <2>2
  <2> QED  BY <2>1, <2>3
<1> QED  BY <1>3 DEF First

\* An empty list.
LEMMA LinkFirst ==
  ASSUME keys = <<>>, NEW k \in Keys
  PROVE  <<k>> = LinkAfter(0, k) /\ Len(keys) = 0 /\ ~ExclusiveHead
<1>1. keys \in Seq(Keys) /\ 0 \in 0..Len(keys) /\ Len(keys) = 0
  OBVIOUS
<1>2. /\ LinkAfter(0, k) \in Seq(Keys)
      /\ Len(LinkAfter(0, k)) = 1
      /\ LinkAfter(0, k)[1] = k
  BY <1>1, LinkFacts
<1> QED  BY <1>1, <1>2 DEF ExclusiveHead

\* A shared key is linked behind no exclusive key and before shared keys only.
LEMMA SharedPlace ==
  ASSUME CoreType, QueueOrder, ListInv, NEW i,
         \/ ~ExclusiveHead /\ i = IF DowngradedHead THEN 1 ELSE 0
         \/ \E t \in Threads : CanShare(t) /\ i = SharedPrev(t)
  PROVE  Place(i, "SHARED")
<1> USE DEF Place
<1>1. CASE ~ExclusiveHead /\ i = IF DowngradedHead THEN 1 ELSE 0
  <2>1. \A j \in 1..Len(keys) : kind[keys[j]] \in ListKinds \ {"PENDING"} \/ j > 1
    BY <1>1 DEF CoreType, ListInv, Listed, ExclusiveHead, Excluding, ListKinds, Kinds
  <2>2. CASE DowngradedHead
    BY <1>1, <2>2 DEF CoreType, QueueOrder, DowngradedHead
  <2>3. CASE ~DowngradedHead
    <3>1. \A j \in 1..Len(keys) : kind[keys[1]] = "SHARED"
      BY <1>1, <2>1, <2>3 DEF CoreType, ExclusiveHead, DowngradedHead, Excluding, ListKinds
    <3> QED  BY <1>1, <2>3, <3>1 DEF CoreType, QueueOrder
  <2> QED  BY <2>2, <2>3
<1>2. ASSUME NEW t \in Threads, CanShare(t), i = SharedPrev(t)
      PROVE  Place(i, "SHARED")
  <2>1. CASE OwnSharedIdx(t) = {}
    BY <1>1, <1>2, <2>1 DEF CanShare, SharedPrev
  <2>2. CASE OwnSharedIdx(t) # {}
    <3>1. i \in OwnSharedIdx(t)
      <4>1. OwnSharedIdx(t) \in SUBSET Nat
        BY DEF OwnSharedIdx, OwnIdx, CoreType
      <4>2. First(OwnSharedIdx(t)) \in OwnSharedIdx(t)
        BY <2>2, <4>1, FirstExists
      <4> QED  BY <1>2, <2>2, <4>2 DEF SharedPrev
    <3>2. i \in 1..Len(keys) /\ kind[keys[i]] \notin Excluding
      BY <3>1 DEF OwnSharedIdx, OwnIdx, CoreType
    <3> QED  BY <3>2 DEF QueueOrder, CoreType, Excluding
  <2> QED  BY <2>1, <2>2
<1> QED  BY <1>1, <1>2

-----------------------------------------------------------------------------
(* The steps that several actions have in common preserve the invariant.   *)

LEMMA StutterStep ==
  ASSUME IInv, UNCHANGED vars
  PROVE  IInv'
<1> USE DEF vars
<1>1. TypeOK' /\ ListInv' /\ KeyInv' /\ WaitInv'
  BY DEF IInv, TypeOK, ListInv, KeyInv, WaitInv, Listed
<1>2. QueueOrder' /\ UpgradeOrder' /\ NumWaiting' /\ SleepInv' /\ NoLostWakeup'
  BY DEF IInv, QueueOrder, UpgradeOrder, SharedBehind, NumWaiting, SleepInv,
         NoLostWakeup, HasNext, ExclusiveHead
<1> QED  BY <1>1, <1>2 DEF IInv

\* A thread gets a key without waiting.
LEMMA AcquireStep ==
  ASSUME IInv, NEW t \in Threads, pc[t] = "run", NEW k \in Fresh, NEW ks, NEW kd,
         \/ keys = <<>> /\ ks = <<k>> /\ kd = "EXCLUSIVE"
         \/ CanShare(t) /\ ks = LinkAfter(SharedPrev(t), k) /\ kd = "SHARED",
         Acquire(t, k, ks, kd)
  PROVE  IInv'
<1>1. RestOK /\ Core
  BY InvParts
<1>2. /\ keys' = ks /\ SetKey(k, t, kd) /\ held' = held \cup {k}
      /\ UNCHANGED <<num_waiting, prog, condition, pending, leaked, interrupts,
                     cond_prog, disabler, pc, cur, timed, asleep, todo>>
  BY DEF Acquire, threadVars
<1>3. "run" \in IdlePCs /\ pc' = [pc EXCEPT ![t] = "run"]
  BY <1>1, <1>2 DEF Core, CoreType, IdlePCs
<1>4. CASE keys = <<>> /\ ks = <<k>> /\ kd = "EXCLUSIVE"
  <2>1. k \in Keys
    BY DEF Fresh
  <2>2. keys' = LinkAfter(0, k) /\ Place(0, kd)
    BY <1>2, <1>4, <2>1, LinkFirst DEF Place
  <2>3. Core'
    BY <1>1, <1>2, <1>3, <2>2, GrantStep
  <2> QED  BY <1>1, <1>2, <2>3, InvPartsNext DEF RestOK
<1>5. CASE CanShare(t) /\ ks = LinkAfter(SharedPrev(t), k) /\ kd = "SHARED"
  <2>1. Place(SharedPrev(t), kd)
    BY <1>1, <1>5, SharedPlace DEF Core
  <2>2. Core'
    BY <1>1, <1>2, <1>3, <1>5, <2>1, GrantStep
  <2> QED  BY <1>1, <1>2, <2>2, InvPartsNext DEF RestOK
<1> QED  BY <1>4, <1>5

\* The exit hook leaves the types of the other variables alone.
LEMMA ExitRest ==
  ASSUME RestOK, NEW t \in Threads, NEW nw, ExitHook(t, nw)
  PROVE  /\ prog' \in BOOLEAN /\ condition' \in BOOLEAN /\ pending' \subseteq Requests
         /\ cond_prog' \in BOOLEAN /\ disabler' \in Threads \cup {NoThread}
         /\ timed' \subseteq Threads /\ todo' \in [Threads -> SUBSET Requests]
         /\ leaked' \subseteq Keys
BY DEF RestOK, ExitHook

\* Another thread that waits is counted in num_waiting.
LEMMA OthersWait ==
  ASSUME Core, NEW t \in Threads, NEW u \in Threads \ {t}, pc[u] \in MutexWaits
  PROVE  (IF pc[t] \in MutexWaits THEN num_waiting - 1 ELSE num_waiting) > 0
<1>1. pc \in [Threads -> PCs] /\ num_waiting = Cardinality(Waiting) + interrupts
      /\ interrupts \in Nat
  BY MutexAssumption DEF Core, CoreType, NumWaiting, Waiting
<1>2. IsFiniteSet(Waiting) /\ Cardinality(Waiting) \in Nat \ {0}
  <2>1. IsFiniteSet(Waiting)
    BY MutexAssumption, FS_Subset DEF Waiting
  <2> QED  BY <1>1, <2>1, SomebodyWaits
<1>3. CASE pc[t] \in MutexWaits
  <2>1. t \in Waiting /\ u \in Waiting \ {t}
    BY <1>3 DEF Waiting
  <2>2. /\ IsFiniteSet(Waiting \ {t})
        /\ Cardinality(Waiting \ {t}) = Cardinality(Waiting) - 1
    BY <1>2, <2>1, FS_RemoveElement
  <2>3. Cardinality(Waiting \ {t}) # 0 /\ Cardinality(Waiting \ {t}) \in Nat
    BY <2>1, <2>2, FS_EmptySet, FS_CardinalityType
  <2> QED  BY <1>1, <1>2, <1>3, <2>2, <2>3
<1>4. CASE pc[t] \notin MutexWaits
  BY <1>1, <1>2, <1>4
<1> QED  BY <1>3, <1>4

\* A key of the mutex goes away: exit_mutex_key_obj.
LEMMA ExitStep ==
  ASSUME IInv, NEW t \in Threads \ asleep, NEW k \in Listed,
         pc[t] \in IdlePCs \cup MutexWaits, \A u \in Threads \ {t} : cur[u] # k,
         keys' = Unlinked(k), SetKey(k, NoThread, "UNINITIALIZED"),
         ExitHook(t, IF pc[t] \in MutexWaits THEN num_waiting - 1 ELSE num_waiting),
         held' \subseteq held \ {k}
  PROVE  IInv'
<1> DEFINE nw == IF pc[t] \in MutexWaits THEN num_waiting - 1 ELSE num_waiting
<1>1. RestOK /\ Core
  BY InvParts
<1>2. PICK w \in {"run", "grant"} : pc' = [pc EXCEPT ![t] = w]
  BY DEF ExitHook
<1>3. /\ num_waiting' = nw
      /\ asleep' = asleep \ WokenAtExit(nw)
      /\ cur' = [cur EXCEPT ![t] = NoKey]
      /\ interrupts' = interrupts
  BY DEF ExitHook
<1>4. \A u \in asleep' \ {t} : pc[u] \notin MutexWaits
  <2> SUFFICES ASSUME NEW u \in asleep \ {t}, pc[u] \in MutexWaits
               PROVE  u \notin asleep'
    BY <1>3
  <2>1. nw > 0
    BY <1>1, OthersWait DEF Core, CoreType
  <2> HIDE DEF nw
  <2> QED  BY <1>3, <2>1 DEF WokenAtExit, MutexSleepers
<1>5. /\ kind' = [kind EXCEPT ![k] = "UNINITIALIZED"]
      /\ owner' \in [Keys -> Threads \cup {NoThread}]
      /\ \A l \in Keys \ {k} : owner'[l] = owner[l]
  BY <1>1 DEF SetKey, Core, CoreType
<1>6. /\ w \in IdlePCs \cup {"wait"} /\ w \in IdlePCs
      /\ "UNINITIALIZED" \in FreeKinds
      /\ asleep' \subseteq asleep \cup {t} /\ t \notin asleep'
      /\ held' \subseteq held /\ k \notin held'
  BY <1>3 DEF IdlePCs, FreeKinds
<1>7. Core'
  <2> HIDE DEF IInv
  <2> QED  BY <1>1, <1>2, <1>3, <1>4, <1>5, <1>6, UnlinkStep
<1>8. RestOK'
  BY <1>1, ExitRest DEF RestOK
<1> QED  BY <1>7, <1>8, InvPartsNext

\* A thread stops waiting because its key is the last one of the list.
LEMMA WaitOverStep ==
  ASSUME IInv, NEW t \in Threads, NEW where \in KeyWaits, WaitOver(t, where)
  PROVE  IInv'
<1>1. RestOK /\ Core
  BY InvParts
<1>2. /\ t \in Threads \ asleep /\ pc[t] \in KeyWaits /\ ~HasNext(cur[t])
      /\ kind' = [kind EXCEPT ![cur[t]] = "EXCLUSIVE"]
      /\ num_waiting' = num_waiting - 1
      /\ held' = held \cup {cur[t]}
      /\ Resume(t)
      /\ UNCHANGED <<keys, owner, prog, condition, pending, asleep, todo, leaked,
                     interrupts, cond_prog, disabler>>
  BY DEF WaitOver, Awake
<1>3. cur[t] \in Listed
  BY <1>1, <1>2 DEF Core, WaitInv, ListInv
<1>4. Core'
  <2> DEFINE k == cur[t]
             kd == "EXCLUSIVE"
  <2>1. /\ k \in Listed /\ kd \in {"EXCLUSIVE", "DOWNGRADED"} /\ cur[t] = k
        /\ kind' = [kind EXCEPT ![k] = kd] /\ held' = held \cup {k}
        /\ kd = "EXCLUSIVE" => ~HasNext(k) /\ asleep' = asleep
        /\ kd = "DOWNGRADED" => SharedBehind(k) /\ asleep' = asleep \ MutexSleepers
    BY <1>2, <1>3
  <2> HIDE DEF k, kd
  <2> QED  BY <1>1, <1>2, <2>1, RekindStep
<1>5. RestOK'
  BY <1>1, <1>2 DEF RestOK, Resume
<1> QED  BY <1>4, <1>5, InvPartsNext

\* Resume() after an interrupt.
LEMMA InterruptedStep ==
  ASSUME IInv, NEW t \in Threads, pc[t] \in MutexWaits, t \notin asleep, Interrupted(t),
         \/ UNCHANGED <<kind, owner>>
         \/ pc[t] = "shared_lock" /\ SetKey(cur[t], NoThread, "UNINITIALIZED")
  PROVE  IInv'
<1>1. RestOK /\ Core
  BY InvParts
<1>2. /\ interrupts' = interrupts + 1 /\ interrupts' \in 0..MaxInterrupts
      /\ Resume(t)
      /\ UNCHANGED <<keys, num_waiting, prog, condition, pending, cond_prog,
                     disabler, asleep, todo, held, leaked>>
  BY <1>1, MutexAssumption DEF Interrupted, Core, CoreType
<1>3. PICK kd :
        /\ kd = kind[cur[t]] \/ (pc[t] = "shared_lock" /\ kd = "UNINITIALIZED")
        /\ kind' = [kind EXCEPT ![cur[t]] = kd]
        /\ owner' \in [Keys -> Threads \cup {NoThread}]
        /\ \A l \in Keys : owner'[l] = owner[l] \/ (l = cur[t] /\ kd = "UNINITIALIZED")
  <2>1. cur[t] \in Keys
    BY <1>1 DEF Core, WaitInv, MutexWaits, KeyWaits, FreeWaits
  <2>2. CASE UNCHANGED <<kind, owner>>
    BY <1>1, <2>2 DEF Core, CoreType
  <2>3. CASE pc[t] = "shared_lock" /\ SetKey(cur[t], NoThread, "UNINITIALIZED")
    BY <1>1, <2>1, <2>3 DEF Core, CoreType, SetKey
  <2> QED  BY <2>2, <2>3
<1>4. /\ pc[t] \in KeyWaits \cup FreeWaits
      /\ num_waiting' \in Nat
      /\ num_waiting' + interrupts =
           (IF pc[t] \in MutexWaits THEN num_waiting - 1 ELSE num_waiting) + interrupts'
  BY <1>1, <1>2, MutexAssumption DEF Core, CoreType, MutexWaits, KeyWaits, FreeWaits
<1>5. Core'
  BY <1>1, <1>2, <1>3, <1>4, LeaveStep
<1>6. RestOK'
  BY <1>1, <1>2 DEF RestOK, Resume
<1> QED  BY <1>5, <1>6, InvPartsNext

-----------------------------------------------------------------------------
(* Every action preserves the invariant.                                   *)

LEMMA LockStep ==
  ASSUME IInv, NEW t \in Threads, NEW type, NEW timeout, lock(t, type, timeout)
  PROVE  IInv'
<1>1. RestOK /\ Core
  BY InvParts
<1>2. pc[t] = "run" /\ cur[t] = NoKey /\ cur \in [Threads -> Keys \cup {NoKey}]
  BY <1>1 DEF lock, Call, Core, CoreType, WaitInv, KeyWaits, FreeWaits
<1>3. CASE UNCHANGED vars
  BY <1>3, StutterStep
<1>4. ASSUME keys = <<>>, NEW k \in Fresh, Acquire(t, k, <<k>>, "EXCLUSIVE")
      PROVE  IInv'
  BY <1>2, <1>4, AcquireStep
<1>5. CASE ExitHook(t, num_waiting) /\ UNCHANGED <<keys, kind, owner, held>>
  <2>1. PICK w \in {"run", "grant"} : pc' = [pc EXCEPT ![t] = w]
    BY <1>5 DEF ExitHook
  <2>2. /\ UNCHANGED <<num_waiting, cur, interrupts>>
        /\ asleep' \subseteq asleep
    BY <1>2, <1>5 DEF ExitHook
  <2>3. w \in IdlePCs /\ pc[t] \in IdlePCs
    BY <1>2 DEF IdlePCs
  <2>4. Core'
    BY <1>1, <1>5, <2>1, <2>2, <2>3, IdleStep
  <2>5. RestOK'
    BY <1>1, <1>5, ExitRest DEF RestOK
  <2> QED  BY <2>4, <2>5, InvPartsNext
<1>6. ASSUME keys # <<>>, NEW k \in Fresh, keys' = LinkAfter(0, k),
             SetKey(k, t, "PENDING"), Sleep(t, "lock", k, timeout, asleep),
             num_waiting' = num_waiting + 1,
             UNCHANGED <<prog, condition, pending, progVars, cond_prog, disabler>>
      PROVE  IInv'
  <2>1. /\ k \in Keys /\ kind[k] \in FreeKinds /\ k \notin held
        /\ \A u \in Threads \ {t} : cur[u] # k
    BY <1>1, MutexAssumption
       DEF Core, CoreType, KeyInv, WaitInv, Fresh, FreeKinds, KeyWaits, FreeWaits
  <2>2. /\ kind' = [kind EXCEPT ![k] = "PENDING"]
        /\ owner' \in [Keys -> Threads \cup {NoThread}] /\ owner'[k] \in Threads
        /\ \A l \in Keys \ {k} : owner'[l] = owner[l]
    BY <1>1, <1>6, <2>1 DEF SetKey, Core, CoreType
  <2>3. /\ pc' = [pc EXCEPT ![t] = "lock"] /\ cur' = [cur EXCEPT ![t] = k]
        /\ asleep' = asleep \cup {t} /\ UNCHANGED <<held, interrupts, todo>>
        /\ timed' \in {timed, timed \cup {t}}
    BY <1>6 DEF Sleep, progVars
  <2>4. pc[t] \in IdlePCs \cup {"wait"}
    BY <1>2 DEF IdlePCs
  <2>5. Core'
    BY <1>1, <1>6, <2>1, <2>2, <2>3, <2>4, QueueStep
  <2>6. RestOK'
    BY <1>1, <1>6, <2>3 DEF RestOK, progVars
  <2> QED  BY <2>5, <2>6, InvPartsNext
<1> QED  BY <1>3, <1>4, <1>5, <1>6 DEF lock

\* trylock(), try_shared_lock() and the two methods that return a future.
LEMMA TryStep ==
  ASSUME IInv, NEW t \in Threads, NEW type, NEW p,
         \/ trylock(t, type) \/ try_shared_lock(t, type)
         \/ p \in Promises /\ (future_lock(t, p) \/ future_shared_lock(t, p))
  PROVE  IInv'
<1>1. RestOK /\ Core
  BY InvParts
<1>2. pc[t] = "run"
  BY DEF trylock, try_shared_lock, future_lock, future_shared_lock, Call
<1>3. CASE UNCHANGED vars
  BY <1>3, StutterStep
<1>4. ASSUME keys = <<>>, NEW k \in Fresh, Acquire(t, k, <<k>>, "EXCLUSIVE")
      PROVE  IInv'
  BY <1>2, <1>4, AcquireStep
<1>5. ASSUME CanShare(t), NEW k \in Fresh,
             Acquire(t, k, LinkAfter(SharedPrev(t), k), "SHARED")
      PROVE  IInv'
  BY <1>2, <1>5, AcquireStep
<1>6. ASSUME p \in Promises, NEW is_shared \in BOOLEAN, Enqueue(t, p, is_shared)
      PROVE  IInv'
  <2>1. /\ UNCHANGED <<keys, kind, owner, num_waiting, prog, condition, pc, cur,
                       timed, asleep, held, leaked, interrupts, cond_prog, disabler>>
        /\ pc' = [pc EXCEPT ![t] = "run"]
    BY <1>1, <1>2, <1>6 DEF Enqueue, progVars, Core, CoreType
  <2>2. pending' \subseteq Requests /\ todo' \in [Threads -> SUBSET Requests]
    BY <1>1, <1>6 DEF Enqueue, Requests, RestOK
  <2>3. Core'
    BY <1>1, <1>2, <2>1, IdleStep DEF IdlePCs
  <2>4. RestOK'
    BY <1>1, <2>1, <2>2 DEF RestOK
  <2> QED  BY <2>3, <2>4, InvPartsNext
<1> QED
  BY <1>3, <1>4, <1>5, <1>6 DEF trylock, try_shared_lock, future_lock, future_shared_lock

(* f_mutex_shared_lock(): refused, granted at once or asleep behind a writer. *)
LEMMA SharedLockStep ==
  ASSUME IInv, NEW t \in Threads, NEW type, NEW timeout, shared_lock(t, type, timeout)
  PROVE  IInv'
<1>1. RestOK /\ Core
  BY InvParts
<1>2. pc[t] = "run" /\ pc[t] \in IdlePCs
  BY DEF shared_lock, Call, IdlePCs
<1>3. CASE UNCHANGED vars
  BY <1>3, StutterStep
<1>4. CASE /\ OwnSharedIdx(t) # {}
           /\ leaked' = leaked \cup {keys[First(OwnSharedIdx(t))]}
           /\ UNCHANGED <<mutexVars, threadVars, held, interrupts, cond_prog, disabler>>
  <2>1. keys[First(OwnSharedIdx(t))] \in Keys
    <3>1. OwnSharedIdx(t) \in SUBSET Nat
      BY <1>1 DEF OwnSharedIdx, OwnIdx, Core, CoreType
    <3>2. First(OwnSharedIdx(t)) \in DOMAIN keys
      BY <1>4, <3>1, FirstExists DEF OwnSharedIdx, OwnIdx
    <3> QED  BY <1>1, <3>2 DEF Core, CoreType
  <2>2. UNCHANGED <<keys, kind, owner, num_waiting, prog, condition, pending, pc, cur,
                    timed, asleep, todo, held, interrupts, cond_prog, disabler>>
    BY <1>4 DEF mutexVars, threadVars
  <2>3. pc' = [pc EXCEPT ![t] = "run"]
    BY <1>1, <1>2, <2>2 DEF Core, CoreType
  <2>4. Core'
    BY <1>1, <1>2, <2>2, <2>3, IdleStep
  <2>5. RestOK'
    BY <1>1, <1>4, <2>1, <2>2 DEF RestOK
  <2> QED  BY <2>4, <2>5, InvPartsNext
<1>5. ASSUME ~ExclusiveHead, NEW k \in Fresh,
             Acquire(t, k, LinkAfter(SharedPrev(t), k), "SHARED")
      PROVE  IInv'
  BY <1>2, <1>5, AcquireStep DEF CanShare
<1>6. ASSUME ExclusiveHead, NEW k \in Fresh, SetKey(k, t, "INITIALIZED"),
             Sleep(t, "shared_lock", k, timeout, asleep), num_waiting' = num_waiting + 1,
             UNCHANGED <<keys, prog, condition, pending, progVars, cond_prog, disabler>>
      PROVE  IInv'
  <2>1. /\ pc' = [pc EXCEPT ![t] = "shared_lock"] /\ cur' = [cur EXCEPT ![t] = k]
        /\ asleep' = asleep \cup {t} /\ UNCHANGED <<held, leaked, interrupts, todo>>
        /\ timed' \in {timed, timed \cup {t}}
    BY <1>6 DEF Sleep, progVars
  <2>2. Core'
    BY <1>1, <1>2, <1>6, <2>1, SharedWaitStep
  <2>3. RestOK'
    BY <1>1, <1>6, <2>1 DEF RestOK
  <2> QED  BY <2>2, <2>3, InvPartsNext
<1> QED  BY <1>3, <1>4, <1>5, <1>6 DEF shared_lock

(* f_mutex_shared_lock() after its wait: the awakened reader is linked in. *)
LEMMA SharedGrantedStep ==
  ASSUME IInv, NEW t \in Threads, SharedGranted(t)
  PROVE  IInv'
<1>1. RestOK /\ Core
  BY InvParts
<1>2. /\ t \in Threads \ asleep /\ pc[t] = "shared_lock" /\ ~ExclusiveHead
      /\ kind' = [kind EXCEPT ![cur[t]] = "SHARED"]
      /\ num_waiting' = num_waiting - 1
      /\ held' = held \cup {cur[t]}
      /\ Resume(t)
      /\ UNCHANGED <<owner, prog, condition, pending, asleep, todo, leaked,
                     interrupts, cond_prog, disabler>>
  BY DEF SharedGranted, Awake
<1>3. PICK i : keys' = LinkAfter(i, cur[t]) /\ Place(i, "SHARED")
  <2>1. Place(IF DowngradedHead THEN 1 ELSE 0, "SHARED")
    BY <1>1, <1>2, SharedPlace DEF Core
  <2> QED  BY <2>1 DEF SharedGranted
<1>4. pc[t] \in FreeWaits /\ pc[t] \in MutexWaits
  BY <1>2 DEF FreeWaits, MutexWaits
<1>5. Core'
  BY <1>1, <1>2, <1>3, <1>4, ReceiveStep
<1>6. RestOK'
  BY <1>1, <1>2 DEF RestOK, Resume
<1> QED  BY <1>5, <1>6, InvPartsNext

\* The waits that end without a key.
LEMMA TimedOutStep ==
  ASSUME IInv, NEW t \in Threads,
         LockTimedOut(t) \/ SharedTimedOut(t) \/ UpgradeTimedOut(t)
  PROVE  IInv'
<1>1. RestOK /\ Core
  BY InvParts
<1>2. /\ t \in Threads \ asleep
      /\ num_waiting - 1 \in Nat
  <2>1. t \in Threads \ asleep /\ pc[t] \in MutexWaits
    BY DEF LockTimedOut, SharedTimedOut, UpgradeTimedOut, Awake, MutexWaits
  <2>2. Cardinality(Waiting) \in Nat \ {0}
    BY <1>1, <2>1, SomebodyWaits DEF Core, CoreType
  <2> QED  BY <1>1, <2>1, <2>2, MutexAssumption DEF Core, CoreType, NumWaiting, Waiting
<1>3. CASE LockTimedOut(t)
  <2>1. pc[t] = "lock" /\ pc[t] \in MutexWaits /\ pc[t] \in KeyWaits
    BY <1>3 DEF LockTimedOut, Awake, MutexWaits, KeyWaits
  <2>2. /\ cur[t] \in Listed /\ cur[t] \notin held
        /\ \A u \in Threads \ {t} : cur[u] # cur[t]
    BY <1>1, <2>1, MutexAssumption DEF Core, WaitInv, ListInv
  <2> QED  BY <1>2, <1>3, <2>1, <2>2, ExitStep DEF LockTimedOut
<1>4. CASE SharedTimedOut(t)
  <2>1. /\ pc[t] = "shared_lock" /\ SetKey(cur[t], NoThread, "UNINITIALIZED")
        /\ num_waiting' = num_waiting - 1 /\ Resume(t)
        /\ UNCHANGED <<keys, prog, condition, pending, asleep, todo, held, leaked,
                       interrupts, cond_prog, disabler>>
    BY <1>4 DEF SharedTimedOut, Awake, progVars
  <2>2. /\ pc[t] \in KeyWaits \cup FreeWaits /\ pc[t] \in MutexWaits
        /\ cur[t] \in Keys
        /\ kind' = [kind EXCEPT ![cur[t]] = "UNINITIALIZED"]
        /\ owner' \in [Keys -> Threads \cup {NoThread}]
        /\ \A l \in Keys : owner'[l] = owner[l] \/ l = cur[t]
    BY <1>1, <2>1 DEF Core, CoreType, WaitInv, SetKey, KeyWaits, FreeWaits, MutexWaits
  <2>3. /\ num_waiting' \in Nat /\ interrupts' \in 0..MaxInterrupts
        /\ num_waiting' + interrupts =
             (IF pc[t] \in MutexWaits THEN num_waiting - 1 ELSE num_waiting) + interrupts'
    BY <1>1, <1>2, <2>1, <2>2 DEF Core, CoreType
  <2>4. Core'
    BY <1>1, <1>2, <2>1, <2>2, <2>3, LeaveStep
  <2>5. RestOK'
    BY <1>1, <2>1 DEF RestOK, Resume
  <2> QED  BY <2>4, <2>5, InvPartsNext
<1>5. CASE UpgradeTimedOut(t)
  <2>1. /\ pc[t] = "upgrade"
        /\ kind' = [kind EXCEPT ![cur[t]] = "DOWNGRADED"]
        /\ num_waiting' = num_waiting - 1 /\ Resume(t)
        /\ asleep' = asleep \ MutexSleepers
        /\ UNCHANGED <<keys, owner, prog, condition, pending, todo, held, leaked,
                       interrupts, cond_prog, disabler>>
    BY <1>5 DEF UpgradeTimedOut, Rekind, Awake, progVars
  <2>2. pc[t] \in KeyWaits /\ cur[t] \in Listed /\ SharedBehind(cur[t])
    BY <1>1, <2>1 DEF Core, WaitInv, ListInv, UpgradeOrder, KeyWaits
  <2>3. Core'
    <3> DEFINE k == cur[t]
               kd == "DOWNGRADED"
    <3>1. /\ k \in Listed /\ kd \in {"EXCLUSIVE", "DOWNGRADED"} /\ cur[t] = k
          /\ kind' = [kind EXCEPT ![k] = kd] /\ held' \subseteq held \cup {k}
          /\ kd = "EXCLUSIVE" => ~HasNext(k) /\ asleep' = asleep
          /\ kd = "DOWNGRADED" => SharedBehind(k) /\ asleep' = asleep \ MutexSleepers
      BY <2>1, <2>2
    <3> HIDE DEF k, kd
    <3> QED  BY <1>1, <1>2, <2>1, <2>2, <3>1, RekindStep
  <2>4. RestOK'
    BY <1>1, <2>1 DEF RestOK, Resume
  <2> QED  BY <2>3, <2>4, InvPartsNext
<1> QED  BY <1>3, <1>4, <1>5

\* A key that is not in the list, and that no call waits with, goes away.
LEMMA ForgetStep ==
  ASSUME Core, NEW k \in Keys \ Listed, \A u \in Threads : cur[u] # k,
         held' = held \ {k}, SetKey(k, NoThread, "UNINITIALIZED"),
         UNCHANGED <<keys, num_waiting, pc, cur, asleep, interrupts>>
  PROVE  Core'
<1> USE DEF Core
<1>1. /\ kind' = [kind EXCEPT ![k] = "UNINITIALIZED"]
      /\ owner' = [owner EXCEPT ![k] = NoThread]
      /\ \A l \in Keys \ {k} : kind'[l] = kind[l] /\ owner'[l] = owner[l]
      /\ kind'[k] = "UNINITIALIZED"
  BY DEF SetKey, CoreType
<1>2. CoreType'
  BY <1>1 DEF CoreType, Kinds
<1>3. Listed' = Listed /\ \A i \in DOMAIN keys : kind'[keys[i]] = kind[keys[i]]
  BY <1>1 DEF Listed, CoreType
<1>4. ListInv' /\ QueueOrder' /\ (ExclusiveHead' <=> ExclusiveHead)
  BY <1>1, <1>3 DEF ListInv, QueueOrder, ExclusiveHead, CoreType
<1>5. \A l \in Keys : /\ SharedBehind(l) => SharedBehind(l)'
                      /\ HasNext(l)' <=> HasNext(l)
  BY <1>3 DEF SharedBehind, HasNext
<1>6. KeyInv' /\ WaitInv'
  <2>1. \A u \in Threads : cur[u] \in Keys => kind'[cur[u]] = kind[cur[u]]
    BY <1>1
  <2> QED  BY <1>1, <2>1 DEF KeyInv, WaitInv, CoreType
<1>7. UpgradeOrder' /\ SleepInv' /\ NoLostWakeup' /\ NumWaiting'
  BY <1>4, <1>5 DEF CoreType, WaitInv, UpgradeOrder, SleepInv, NoLostWakeup,
     NumWaiting, KeyWaits, FreeWaits
<1> QED  BY <1>2, <1>4, <1>6, <1>7

(* A woken waiter that finds its condition still false goes back to sleep. *)
LEMMA WaitsStep ==
  ASSUME IInv, NEW t \in Threads,
         LockWaits(t) \/ SharedWaits(t) \/ UpgradeWaits(t) \/ WaitWaits(t)
  PROVE  IInv'
<1>1. RestOK /\ Core
  BY InvParts
<1>2. /\ SleepAgain(t)
      /\ \/ pc[t] \in KeyWaits /\ HasNext(cur[t])
         \/ pc[t] = "shared_lock" /\ ExclusiveHead
  BY DEF LockWaits, SharedWaits, UpgradeWaits, WaitWaits, Awake, KeyWaits
<1>3. Core'
  BY <1>1, <1>2, AgainStep
<1>4. RestOK'
  BY <1>1, <1>2 DEF RestOK, SleepAgain, mutexVars, progVars
<1> QED  BY <1>3, <1>4, InvPartsNext

(* A waiter that leaves its wait through an error, its key unlinked or left behind. *)
LEMMA InterruptStep ==
  ASSUME IInv, NEW t \in Threads, Interrupt(t)
  PROVE  IInv'
<1>1. /\ pc[t] \in MutexWaits /\ t \notin asleep /\ Interrupted(t)
      /\ \/ UNCHANGED <<kind, owner>>
         \/ pc[t] = "shared_lock" /\ SetKey(cur[t], NoThread, "UNINITIALIZED")
  BY DEF Interrupt, LockInterrupted, SharedInterrupted, UpgradeInterrupted,
         WaitInterrupted, Awake, MutexWaits
<1> QED  BY <1>1, InterruptedStep

\* downgrade(), upgrade() and try_upgrade().
LEMMA KeyStep ==
  ASSUME IInv, NEW t \in Threads, NEW k, NEW timeout,
         downgrade(t, k) \/ upgrade(t, k, timeout) \/ try_upgrade(t, k)
  PROVE  IInv'
<1>1. RestOK /\ Core
  BY InvParts
<1>2. /\ pc[t] = "run" /\ pc[t] \in IdlePCs /\ k \in held /\ k \in Keys
      /\ t \in Threads \ asleep
  <2>1. pc[t] = "run" /\ k \in held
    BY DEF downgrade, upgrade, try_upgrade, Call
  <2> QED  BY <1>1, <2>1 DEF Core, CoreType, SleepInv, IdlePCs, KeyWaits, FreeWaits
<1>3. CASE UNCHANGED vars
  BY <1>3, StutterStep
<1>4. ASSUME NEW kd \in {"EXCLUSIVE", "DOWNGRADED"},
             kind[k] \in {"EXCLUSIVE", "DOWNGRADED"}, Rekind(k, kd, num_waiting),
             kd = "EXCLUSIVE" => ~HasNext(k) /\ asleep' = asleep,
             kd = "DOWNGRADED" => SharedBehind(k) /\ asleep' = asleep \ MutexSleepers,
             UNCHANGED <<pc, cur, timed, todo, progVars, cond_prog, disabler>>
      PROVE  IInv'
  <2>1. /\ k \in Listed
        /\ kind' = [kind EXCEPT ![k] = kd]
        /\ held' \subseteq held \cup {k}
        /\ UNCHANGED <<pc, cur, num_waiting, keys, owner, interrupts>>
    BY <1>1, <1>2, <1>4 DEF Core, ListInv, Rekind, progVars
  <2>2. Core'
    BY <1>1, <1>2, <1>4, <2>1, RekindStep
  <2>3. RestOK'
    BY <1>1, <1>4 DEF RestOK, Rekind, progVars
  <2> QED  BY <2>2, <2>3, InvPartsNext
<1>5. CASE downgrade(t, k) /\ kind[k] = "EXCLUSIVE" /\ ~UNCHANGED vars
  <2>1. SharedBehind(k)
    BY <1>1, <1>5 DEF Core, QueueOrder, SharedBehind
  <2> QED  BY <1>4, <1>5, <2>1 DEF downgrade
<1>6. CASE /\ kind[k] = "DOWNGRADED" /\ HasNext(k)
           /\ Rekind(k, "PENDING", num_waiting + 1)
           /\ Sleep(t, "upgrade", k, timeout, asleep)
           /\ UNCHANGED <<progVars, cond_prog, disabler>>
  <2>1. /\ k \in Listed
        /\ kind' = [kind EXCEPT ![k] = "PENDING"]
        /\ pc' = [pc EXCEPT ![t] = "upgrade"] /\ cur' = [cur EXCEPT ![t] = k]
        /\ asleep' = asleep \cup {t} /\ num_waiting' = num_waiting + 1
        /\ timed' \in {timed, timed \cup {t}}
        /\ UNCHANGED <<keys, owner, held, leaked, interrupts, prog, condition, pending,
                       todo, cond_prog, disabler>>
    BY <1>1, <1>2, <1>6 DEF Core, ListInv, Rekind, Sleep, progVars
  <2>2. Core'
    BY <1>1, <1>2, <1>6, <2>1, UpgradeStep
  <2>3. RestOK'
    BY <1>1, <2>1 DEF RestOK
  <2> QED  BY <2>2, <2>3, InvPartsNext
<1>7. CASE /\ asleep' = asleep \ MutexSleepers
           /\ UNCHANGED <<mutexVars, pc, cur, timed, todo, progVars, cond_prog, disabler>>
  <2>1. /\ pc' = [pc EXCEPT ![t] = "run"] /\ asleep' \subseteq asleep
        /\ UNCHANGED <<keys, kind, owner, num_waiting, cur, held, interrupts>>
    BY <1>1, <1>2, <1>7 DEF Core, CoreType, mutexVars, progVars
  <2>2. Core'
    BY <1>1, <1>2, <2>1, IdleStep
  <2>3. RestOK'
    BY <1>1, <1>7 DEF RestOK, mutexVars, progVars
  <2> QED  BY <2>2, <2>3, InvPartsNext
<1>8. CASE /\ kind[k] = "DOWNGRADED" /\ ~HasNext(k)
           /\ Rekind(k, "EXCLUSIVE", num_waiting)
           /\ UNCHANGED <<threadVars, progVars, cond_prog, disabler>>
  BY <1>4, <1>8 DEF threadVars
<1>9. CASE downgrade(t, k)
  BY <1>3, <1>5, <1>9 DEF downgrade
<1>10. CASE upgrade(t, k, timeout)
  BY <1>3, <1>6, <1>7, <1>8, <1>10 DEF upgrade
<1>11. CASE try_upgrade(t, k)
  BY <1>3, <1>8, <1>11 DEF try_upgrade
<1> QED  BY <1>9, <1>10, <1>11

(* A key that is dropped: exit_mutex_key_obj() unlinks it and wakes the waiters. *)
LEMMA ReleaseStep ==
  ASSUME IInv, NEW t \in Threads, NEW k, Release(t, k) \/ DropLeaked(t, k)
  PROVE  IInv'
<1>1. RestOK /\ Core
  BY InvParts
<1>2. /\ pc[t] = "run" /\ pc[t] \in IdlePCs /\ pc[t] \notin MutexWaits
      /\ k \in held /\ k \in Keys /\ t \in Threads \ asleep
      /\ \A u \in Threads : cur[u] # k
  <2>1. pc[t] = "run" /\ k \in held /\ \A u \in Threads : cur[u] # k
    BY DEF Release, DropLeaked
  <2> QED
    BY <1>1, <2>1 DEF Core, CoreType, SleepInv, IdlePCs, MutexWaits, KeyWaits, FreeWaits
<1>3. CASE Release(t, k) /\ k \in Listed
  BY <1>2, <1>3, ExitStep DEF Release
<1>4. CASE Release(t, k) /\ k \notin Listed
  <2>1. /\ held' = held \ {k} /\ SetKey(k, NoThread, "UNINITIALIZED")
        /\ UNCHANGED <<keys, num_waiting, prog, condition, pending, pc, cur, timed,
                       asleep, todo, leaked, interrupts, cond_prog, disabler>>
    BY <1>4 DEF Release, threadVars
  <2>2. Core'
    BY <1>1, <1>2, <1>4, <2>1, ForgetStep
  <2>3. RestOK'
    BY <1>1, <2>1 DEF RestOK
  <2> QED  BY <2>2, <2>3, InvPartsNext
<1>5. CASE DropLeaked(t, k)
  <2>1. /\ held' = held \ {k} /\ pc' = [pc EXCEPT ![t] = "run"]
        /\ UNCHANGED <<keys, kind, owner, num_waiting, prog, condition, pending, cur,
                       timed, asleep, todo, leaked, interrupts, cond_prog, disabler>>
    BY <1>1, <1>2, <1>5 DEF DropLeaked, mutexVars, threadVars, Core, CoreType
  <2>2. Core'
    BY <1>1, <1>2, <2>1, IdleStep
  <2>3. RestOK'
    BY <1>1, <2>1 DEF RestOK
  <2> QED  BY <2>2, <2>3, InvPartsNext
<1> QED  BY <1>3, <1>4, <1>5

\* The loop over the pending futures.
LEMMA GrantLoopStep ==
  ASSUME IInv, NEW t \in Threads, Grant(t)
  PROVE  IInv'
<1>1. RestOK /\ Core
  BY InvParts
<1>2. /\ pc[t] = "grant" /\ pc[t] \in IdlePCs
      /\ UNCHANGED <<num_waiting, prog, condition, cur, timed, asleep, leaked,
                     interrupts, cond_prog, disabler>>
  BY DEF Grant, IdlePCs
<1>3. PICK w \in IdlePCs : pc' = [pc EXCEPT ![t] = w]
  BY <1>1, <1>2 DEF Grant, GrantEnds, GrantNext, IdlePCs, Core, CoreType
<1>4. todo' \in [Threads -> SUBSET Requests] /\ pending' \subseteq Requests
  BY <1>1 DEF Grant, GrantEnds, GrantNext, GrantTo, RestOK
<1>5. RestOK'
  BY <1>1, <1>2, <1>4 DEF RestOK
<1>6. CASE UNCHANGED <<keys, kind, owner, pending, held>>
  <2>1. Core'
    BY <1>1, <1>2, <1>3, <1>6, IdleStep
  <2> QED  BY <1>5, <2>1, InvPartsNext
<1>7. ASSUME NEW e, NEW k \in Fresh, keys = <<>>, GrantTo(t, e, k, <<k>>, "EXCLUSIVE")
      PROVE  IInv'
  <2>1. keys' = LinkAfter(0, k) /\ Place(0, "EXCLUSIVE")
    BY <1>7, LinkFirst DEF Place, GrantTo, Fresh
  <2>2. Core'
    BY <1>1, <1>2, <1>3, <1>7, <2>1, GrantStep DEF GrantTo
  <2> QED  BY <1>5, <2>2, InvPartsNext
<1>8. ASSUME NEW e, NEW k \in Fresh, CanShare(t),
             GrantTo(t, e, k, LinkAfter(SharedPrev(t), k), "SHARED")
      PROVE  IInv'
  <2>1. Place(SharedPrev(t), "SHARED")
    BY <1>1, <1>8, SharedPlace DEF Core
  <2>2. Core'
    BY <1>1, <1>2, <1>3, <1>8, <2>1, GrantStep DEF GrantTo
  <2> QED  BY <1>5, <2>2, InvPartsNext
<1> QED  BY <1>6, <1>7, <1>8 DEF Grant

(* f_cond_wait(): the key leaves the list and the thread waits on the condition. *)
LEMMA CondWaitStep ==
  ASSUME IInv, NEW t \in Threads, NEW k, NEW timeout, wait(t, k, timeout)
  PROVE  IInv'
<1>1. RestOK /\ Core
  BY InvParts
<1>2. CASE UNCHANGED vars
  BY <1>2, StutterStep
<1>3. CASE ~UNCHANGED vars
  <2>1. /\ pc[t] = "run" /\ k \in held /\ kind[k] = "EXCLUSIVE"
        /\ keys' = Unlinked(k)
        /\ kind' = [kind EXCEPT ![k] = "INITIALIZED"]
        /\ Sleep(t, "wait", k, timeout, asleep \ MutexSleepers)
        /\ UNCHANGED <<owner, num_waiting, prog, condition, pending, held, leaked,
                       interrupts, cond_prog, disabler>>
    BY <1>3 DEF wait, Call, progVars
  <2>2. /\ pc' = [pc EXCEPT ![t] = "wait"] /\ cur' = [cur EXCEPT ![t] = k]
        /\ asleep' = (asleep \ MutexSleepers) \cup {t} /\ todo' = todo
        /\ timed' \in {timed, timed \cup {t}}
    BY <2>1 DEF Sleep
  <2>3. /\ k \in Keys /\ k \in Listed /\ owner[k] \in Threads
        /\ \A u \in Threads \ {t} : cur[u] # k
    BY <1>1, <2>1, MutexAssumption
       DEF Core, CoreType, ListInv, KeyInv, WaitInv, KeyWaits, FreeWaits
  <2>4. /\ pc[t] \in IdlePCs \cup MutexWaits /\ pc[t] \notin MutexWaits
        /\ asleep' \subseteq asleep \cup {t}
        /\ \A u \in asleep' \ {t} : pc[u] \notin MutexWaits
        /\ held' \subseteq held
    BY <2>1, <2>2 DEF IdlePCs, MutexWaits, MutexSleepers
  <2>5. /\ owner' \in [Keys -> Threads \cup {NoThread}]
        /\ \A l \in Keys \ {k} : owner'[l] = owner[l]
        /\ owner'[k] \in Threads
        /\ "INITIALIZED" \in FreeKinds /\ "wait" \in IdlePCs \cup {"wait"}
    BY <1>1, <2>1, <2>3 DEF Core, CoreType, FreeKinds
  <2>6. Core'
    BY <1>1, <2>1, <2>2, <2>3, <2>4, <2>5, UnlinkStep
  <2>7. RestOK'
    BY <1>1, <2>1, <2>2 DEF RestOK
  <2> QED  BY <2>6, <2>7, InvPartsNext
<1> QED  BY <1>2, <1>3

(* f_cond_wait() after the signal: the key is queued again, or is granted at once. *)
LEMMA WaitWakesStep ==
  ASSUME IInv, NEW t \in Threads, WaitWakes(t)
  PROVE  IInv'
<1>1. RestOK /\ Core
  BY InvParts
<1>2. /\ pc[t] = "wait" /\ t \in Threads \ asleep
      /\ UNCHANGED <<owner, prog, condition, pending, todo, held, leaked, interrupts,
                     cond_prog, disabler>>
  BY DEF WaitWakes, Awake, progVars
<1>3. /\ pc[t] \in FreeWaits /\ pc[t] \notin MutexWaits
      /\ cur[t] \in Keys /\ kind[cur[t]] = "INITIALIZED"
      /\ \A u \in Threads \ {t} : cur[u] # cur[t]
  BY <1>1, <1>2, MutexAssumption DEF Core, WaitInv, FreeWaits, MutexWaits
<1>4. RestOK'
  BY <1>1, <1>2 DEF RestOK, WaitWakes, Resume
<1>5. CASE Resume(t) /\ UNCHANGED <<keys, kind, num_waiting, asleep>>
  <2>1. /\ kind' = [kind EXCEPT ![cur[t]] = kind[cur[t]]]
        /\ owner' \in [Keys -> Threads \cup {NoThread}]
        /\ \A l \in Keys : owner'[l] = owner[l]
        /\ num_waiting' \in Nat /\ interrupts' \in 0..MaxInterrupts
        /\ num_waiting' + interrupts = num_waiting + interrupts'
    BY <1>1, <1>2, <1>5 DEF Core, CoreType
  <2>2. Core'
    BY <1>1, <1>2, <1>3, <1>5, <2>1, LeaveStep
  <2> QED  BY <1>4, <2>2, InvPartsNext
<1>6. CASE /\ keys = <<>> /\ keys' = <<cur[t]>>
           /\ kind' = [kind EXCEPT ![cur[t]] = "EXCLUSIVE"]
           /\ Resume(t) /\ UNCHANGED <<num_waiting, asleep>>
  <2>1. keys' = LinkAfter(0, cur[t]) /\ Place(0, "EXCLUSIVE") /\ ~ExclusiveHead
    BY <1>3, <1>6, LinkFirst DEF Place
  <2>2. Core'
    BY <1>1, <1>2, <1>3, <1>6, <2>1, ReceiveStep
  <2> QED  BY <1>4, <2>2, InvPartsNext
<1>7. CASE /\ keys # <<>> /\ keys' = LinkAfter(0, cur[t])
           /\ kind' = [kind EXCEPT ![cur[t]] = "PENDING"]
           /\ num_waiting' = num_waiting + 1
           /\ pc' = [pc EXCEPT ![t] = "relock"]
           /\ asleep' = asleep \cup {t} /\ cur' = cur
  <2>1. /\ cur' = [cur EXCEPT ![t] = cur[t]]
        /\ owner' \in [Keys -> Threads \cup {NoThread}] /\ owner'[cur[t]] \in Threads
        /\ \A l \in Keys \ {cur[t]} : owner'[l] = owner[l]
        /\ kind[cur[t]] \in FreeKinds /\ pc[t] \in IdlePCs \cup {"wait"}
    BY <1>1, <1>2, <1>3, <1>7 DEF Core, CoreType, KeyInv, FreeKinds
  <2>2. Core'
    BY <1>1, <1>2, <1>3, <1>7, <2>1, QueueStep
  <2> QED  BY <1>4, <2>2, InvPartsNext
<1> QED  BY <1>5, <1>6, <1>7 DEF WaitWakes

\* Steps after which some threads are awake and some keys not held any more.
LEMMA WakeStep ==
  ASSUME Core, asleep' \subseteq asleep,
         UNCHANGED <<keys, kind, owner, num_waiting, pc, cur, held, interrupts>>
  PROVE  Core'
<1>1. CoreType' /\ ListInv' /\ KeyInv' /\ WaitInv' /\ QueueOrder'
  BY DEF Core, CoreType, ListInv, KeyInv, WaitInv, QueueOrder, Listed
<1>2. UpgradeOrder' /\ NumWaiting' /\ SleepInv' /\ NoLostWakeup'
  BY DEF Core, UpgradeOrder, SharedBehind, NumWaiting, SleepInv, NoLostWakeup,
         HasNext, ExclusiveHead
<1> QED  BY <1>1, <1>2 DEF Core

\* signal(), broadcast(), timeouts, _disable_threads() and destruction.
LEMMA OtherStep ==
  ASSUME IInv, NEW t \in Threads,
         \/ signal(t) \/ broadcast(t) \/ TimeoutWake(t) \/ disable_threads(t)
         \/ destruct_mutex(t) \/ destruct_cond(t) \/ DestructCondEnds(t)
  PROVE  IInv'
<1>1. RestOK /\ Core
  BY InvParts
<1>2. CASE signal(t) \/ broadcast(t) \/ TimeoutWake(t) \/ disable_threads(t)
             \/ destruct_mutex(t)
  <2>1. /\ asleep' \subseteq asleep
        /\ UNCHANGED <<keys, kind, owner, num_waiting, pc, cur, held, interrupts>>
    BY <1>2 DEF signal, broadcast, TimeoutWake, disable_threads, destruct_mutex,
                mutexVars, threadVars, progVars
  <2>2. Core'
    BY <1>1, <2>1, WakeStep
  <2>3. RestOK'
    BY <1>1, <1>2 DEF RestOK, signal, broadcast, TimeoutWake, disable_threads,
                      destruct_mutex, mutexVars, threadVars, progVars
  <2> QED  BY <2>2, <2>3, InvPartsNext
<1>3. CASE destruct_cond(t) \/ DestructCondEnds(t)
  <2>1. pc[t] \in IdlePCs /\ cur[t] = NoKey
    BY <1>1, <1>3 DEF destruct_cond, DestructCondEnds, Call, Awake, IdlePCs, Core,
                      WaitInv, KeyWaits, FreeWaits
  <2>2. /\ asleep' \subseteq asleep
        /\ UNCHANGED <<keys, kind, owner, num_waiting, cur, held, interrupts>>
        /\ RestOK'
    BY <1>1, <1>3, <2>1 DEF destruct_cond, DestructCondEnds, Resume, mutexVars, progVars,
                            RestOK, Core, CoreType
  <2>3. PICK w \in IdlePCs : pc' = [pc EXCEPT ![t] = w]
    BY <1>1, <1>3, <2>1 DEF destruct_cond, DestructCondEnds, Resume, IdlePCs, Core, CoreType
  <2>4. Core'
    BY <1>1, <2>1, <2>2, <2>3, IdleStep
  <2> QED  BY <2>2, <2>4, InvPartsNext
<1> QED  BY <1>2, <1>3

-----------------------------------------------------------------------------
(* The theorems.                                                           *)

\* Every step of every thread preserves the invariant.
LEMMA NextInv == IInv /\ [Next]_vars => IInv'
<1> SUFFICES ASSUME IInv, [Next]_vars
             PROVE  IInv'
  OBVIOUS
<1>1. ASSUME NEW t \in Threads, ProgramStep(t)
      PROVE  IInv'
  BY <1>1, LockStep, SharedLockStep, TryStep, KeyStep, ReleaseStep, CondWaitStep,
     OtherStep DEF ProgramStep
<1>2. ASSUME NEW t \in Threads, Continue(t)
      PROVE  IInv'
  <2>1. CASE LockGranted(t) \/ UpgradeGranted(t) \/ WaitRelocked(t)
    BY <2>1, WaitOverStep DEF LockGranted, UpgradeGranted, WaitRelocked, KeyWaits
  <2> QED  BY <1>2, <2>1, TimedOutStep, WaitsStep, SharedGrantedStep, WaitWakesStep,
              GrantLoopStep, OtherStep DEF Continue
<1>3. ASSUME NEW t \in Threads, Interrupt(t) \/ TimeoutWake(t)
      PROVE  IInv'
  BY <1>3, InterruptStep, OtherStep
<1> QED  BY <1>1, <1>2, <1>3, StutterStep DEF Next

\* The invariant is inductive: it holds when the mutex and the condition have
\* been created, and every step of every thread preserves it.
THEOREM Invariance == Spec => []IInv
<1>1. Init => IInv
  <2> SUFFICES ASSUME Init
               PROVE  IInv
    OBVIOUS
  <2>1. TypeOK /\ ListInv /\ KeyInv /\ WaitInv /\ QueueOrder
    BY MutexAssumption DEF Init, TypeOK, ListInv, Listed, KeyInv, WaitInv, QueueOrder,
       Kinds, PCs, KeyWaits, FreeWaits
  <2>2. UpgradeOrder /\ SleepInv /\ NoLostWakeup
    BY DEF Init, UpgradeOrder, SleepInv, NoLostWakeup
  <2>3. NumWaiting
    <3>1. {t \in Threads : pc[t] \in MutexWaits} = {}
      BY DEF Init, MutexWaits
    <3> QED  BY <3>1, FS_EmptySet DEF Init, NumWaiting
  <2> QED  BY <2>1, <2>2, <2>3 DEF IInv
<1> QED  BY <1>1, NextInv, PTL DEF Spec

\* The variables keep their types; num_waiting never becomes negative, although
\* f_mutex_lock(), upgrade() and wait() decrement it in several places.
THEOREM TypeCorrect == Spec => []TypeOK
<1>1. IInv => TypeOK
  BY DEF IInv
<1> QED  BY <1>1, Invariance, PTL

\* No exclusive key of the mutex has a key beside it that is not waiting.
THEOREM MutualExclusion == Spec => []Exclusion
<1>1. ASSUME IInv
      PROVE  Exclusion
  <2> SUFFICES ASSUME NEW k \in Listed, NEW l \in Listed \ {k}, kind[k] = "EXCLUSIVE"
               PROVE  kind[l] = "PENDING"
    BY DEF Exclusion
  <2>1. PICK i \in 1..Len(keys), j \in 1..Len(keys) : keys[i] = k /\ keys[j] = l
    BY <1>1 DEF IInv, TypeOK, Listed
  <2>2. j < i
    BY <1>1, <2>1 DEF IInv, TypeOK, QueueOrder
  <2> QED  BY <1>1, <2>1, <2>2 DEF IInv, TypeOK, QueueOrder
<1> QED  BY <1>1, Invariance, PTL

\* The order of the list, on which "key->next == NULL" as the condition for an
\* exclusive lock depends.
THEOREM ListOrder == Spec => []QueueOrder
<1>1. IInv => QueueOrder
  BY DEF IInv
<1> QED  BY <1>1, Invariance, PTL

\* m->num_waiting is the number of waiting threads, plus one for every wait that
\* an interrupt ended.
THEOREM WaitersCounted == Spec => []NumWaiting
<1>1. IInv => NumWaiting
  BY DEF IInv
<1> QED  BY <1>1, Invariance, PTL

\* A thread asleep on m->condition has a key before it, or an exclusive key, to
\* wait for: no co_broadcast() was missed or skipped.
THEOREM WakeupsKept == Spec => []NoLostWakeup
<1>1. IInv => NoLostWakeup
  BY DEF IInv
<1> QED  BY <1>1, Invariance, PTL

-----------------------------------------------------------------------------
(* The implementation of ReadersWriters.  A step changes the grant of one  *)
(* key at most; what the order of the list says about the other keys is    *)
(* what the abstract step requires.  First the grants, key by key.         *)

Reads(k) == kind[k] \in {"SHARED", "DOWNGRADED"} \/ InUpgrade(k)
Writes(k) == kind[k] = "EXCLUSIVE"

\* The keys of the list are the ones with such a kind.
LEMMA GrantedByKind ==
  IInv => /\ ReadingKeys = {k \in Keys : Reads(k)}
          /\ WritingKeys = {k \in Keys : Writes(k)}
          /\ {k \in Listed : InUpgrade(k)} = {k \in Keys : InUpgrade(k)}
<1> SUFFICES ASSUME IInv
             PROVE  /\ ReadingKeys = {k \in Keys : Reads(k)}
                    /\ WritingKeys = {k \in Keys : Writes(k)}
                    /\ {k \in Listed : InUpgrade(k)} = {k \in Keys : InUpgrade(k)}
  OBVIOUS
<1>1. Listed \subseteq Keys
  BY DEF IInv, TypeOK, Listed
<1>2. \A k \in Keys : InUpgrade(k) => k \in Listed
  BY DEF IInv, WaitInv, ListInv, InUpgrade, KeyWaits
<1>3. \A k \in Keys : kind[k] \in {"SHARED", "DOWNGRADED", "EXCLUSIVE"} => k \in Listed
  BY DEF IInv, ListInv
<1> QED  BY <1>1, <1>2, <1>3 DEF ReadingKeys, WritingKeys, Reads, Writes

Readers == Granted(ReadingKeys)
Writers == Granted(WritingKeys)
Upgrading == Granted({k \in Listed : InUpgrade(k)})
Grant1(k) == <<k, owner[k]>>

\* The grants of the keys other than k.
OtherReaders(k) == Granted({l \in Keys \ {k} : Reads(l)})
OtherWriters(k) == Granted({l \in Keys \ {k} : Writes(l)})
OtherUpgrading(k) == Granted({l \in Keys \ {k} : InUpgrade(l)})

KeyByKey ==
  \A k \in Keys :
    /\ Readers = OtherReaders(k) \cup (IF Reads(k) THEN {Grant1(k)} ELSE {})
    /\ Writers = OtherWriters(k) \cup (IF Writes(k) THEN {Grant1(k)} ELSE {})
    /\ Upgrading = OtherUpgrading(k) \cup (IF InUpgrade(k) THEN {Grant1(k)} ELSE {})

\* The grants are those of the other keys and that of k.
LEMMA WithOthers == IInv => KeyByKey
<1> SUFFICES ASSUME IInv, NEW k \in Keys
             PROVE  /\ Readers = OtherReaders(k) \cup (IF Reads(k) THEN {Grant1(k)} ELSE {})
                    /\ Writers = OtherWriters(k) \cup (IF Writes(k) THEN {Grant1(k)} ELSE {})
                    /\ Upgrading = OtherUpgrading(k)
                                     \cup (IF InUpgrade(k) THEN {Grant1(k)} ELSE {})
  BY DEF KeyByKey
<1>1. Readers = Granted({l \in Keys : Reads(l)})
  BY GrantedByKind DEF Readers
<1>2. Writers = Granted({l \in Keys : Writes(l)})
  BY GrantedByKind DEF Writers
<1>3. Upgrading = Granted({l \in Keys : InUpgrade(l)})
  BY GrantedByKind DEF Upgrading
<1>4. Readers = OtherReaders(k) \cup (IF Reads(k) THEN {Grant1(k)} ELSE {})
  BY <1>1 DEF OtherReaders, Granted, Grant1
<1>5. Writers = OtherWriters(k) \cup (IF Writes(k) THEN {Grant1(k)} ELSE {})
  BY <1>2 DEF OtherWriters, Granted, Grant1
<1>6. Upgrading = OtherUpgrading(k) \cup (IF InUpgrade(k) THEN {Grant1(k)} ELSE {})
  BY <1>3 DEF OtherUpgrading, Granted, Grant1
<1> QED  BY <1>4, <1>5, <1>6

\* A step that may change the grant of k and of no other key.
OnlyKey(k) ==
  \A l \in Keys \ {k} :
    /\ Reads(l)' <=> Reads(l)
    /\ Writes(l)' <=> Writes(l)
    /\ InUpgrade(l)' <=> InUpgrade(l)
    /\ Reads(l) \/ Writes(l) => owner'[l] = owner[l]

\* A step that touches key k alone keeps the grants of the others.
LEMMA SameOthers ==
  ASSUME NEW k \in Keys, OnlyKey(k)
  PROVE  /\ OtherReaders(k)' = OtherReaders(k)
         /\ OtherWriters(k)' = OtherWriters(k)
         /\ OtherUpgrading(k)' = OtherUpgrading(k)
<1>1. /\ {l \in Keys \ {k} : Reads(l)}' = {l \in Keys \ {k} : Reads(l)}
      /\ {l \in Keys \ {k} : Writes(l)}' = {l \in Keys \ {k} : Writes(l)}
      /\ {l \in Keys \ {k} : InUpgrade(l)}' = {l \in Keys \ {k} : InUpgrade(l)}
  BY DEF OnlyKey
<1>2. \A l \in Keys \ {k} : InUpgrade(l) => owner'[l] = owner[l]
  BY DEF OnlyKey, Reads
<1> QED  BY <1>1, <1>2 DEF OnlyKey, OtherReaders, OtherWriters, OtherUpgrading, Granted

-----------------------------------------------------------------------------
(* The abstract steps.                                                     *)

RWStep == [RW!Next]_(RW!vars)

\* What a step does to the grants, in terms of k.
LEMMA GrantsBefore ==
  ASSUME IInv, IInv', NEW k \in Keys, OnlyKey(k)
  PROVE  /\ Readers = OtherReaders(k) \cup (IF Reads(k) THEN {Grant1(k)} ELSE {})
         /\ Writers = OtherWriters(k) \cup (IF Writes(k) THEN {Grant1(k)} ELSE {})
         /\ Upgrading = OtherUpgrading(k) \cup (IF InUpgrade(k) THEN {Grant1(k)} ELSE {})
         /\ Readers' = OtherReaders(k) \cup (IF Reads(k)' THEN {Grant1(k)'} ELSE {})
         /\ Writers' = OtherWriters(k) \cup (IF Writes(k)' THEN {Grant1(k)'} ELSE {})
         /\ Upgrading' = OtherUpgrading(k) \cup (IF InUpgrade(k)' THEN {Grant1(k)'} ELSE {})
<1>1. KeyByKey
  BY WithOthers
<1>2. KeyByKey'
  BY WithOthers, PTL
<1> QED  BY <1>1, <1>2, SameOthers DEF KeyByKey

\* The grants of other keys are other grants; there are none if no key has one.
LEMMA OtherGrants ==
  ASSUME NEW k \in Keys
  PROVE  /\ \A o : <<k, o>> \notin OtherReaders(k) \cup OtherWriters(k) \cup OtherUpgrading(k)
         /\ (\A l \in Keys \ {k} : ~Reads(l)) => OtherReaders(k) = {} /\ OtherUpgrading(k) = {}
         /\ (\A l \in Keys \ {k} : ~Writes(l)) => OtherWriters(k) = {}
         /\ (\A l \in Keys \ {k} : ~InUpgrade(l)) => OtherUpgrading(k) = {}
BY DEF OtherReaders, OtherWriters, OtherUpgrading, Granted, Reads

\* The step is not seen.
LEMMA NoGrant ==
  ASSUME IInv, IInv', NEW k \in Keys, OnlyKey(k),
         ~Reads(k), ~Writes(k), ~Reads(k)', ~Writes(k)'
  PROVE  RWStep
<1>1. ~InUpgrade(k) /\ ~InUpgrade(k)'
  BY DEF Reads
<1> QED  BY <1>1, GrantsBefore DEF RWStep, RW!vars, Readers, Writers, Upgrading

\* A shared key.
LEMMA SharedGrant ==
  ASSUME IInv, IInv', NEW k \in Keys, OnlyKey(k), NEW t \in Threads,
         ~Reads(k), ~Writes(k), Reads(k)', ~Writes(k)', ~InUpgrade(k)', owner'[k] = t,
         \A l \in Keys : ~Writes(l),
         \/ \A l \in Keys : ~InUpgrade(l)
         \/ \E l \in Keys : Reads(l) /\ owner[l] = t
  PROVE  RWStep
<1>1. /\ ~InUpgrade(k) /\ Grant1(k)' = <<k, t>> /\ OtherWriters(k) = {}
  BY OtherGrants DEF Reads, Grant1
<1>2. Upgrading = {} \/ \E l \in Keys : <<l, t>> \in Readers
  <2>1. CASE \A l \in Keys : ~InUpgrade(l)
    BY <2>1, GrantsBefore, OtherGrants
  <2>2. ASSUME NEW l \in Keys, Reads(l), owner[l] = t
        PROVE  <<l, t>> \in Readers
    BY <2>2, WithOthers DEF KeyByKey, Grant1
  <2> QED  BY <2>1, <2>2
<1>3. /\ Writers = {} /\ Writers' = {}
      /\ Readers' = Readers \cup {<<k, t>>}
      /\ Upgrading' = Upgrading
  BY <1>1, GrantsBefore
<1>4. RW!AcquireShared(k, t)
  BY <1>2, <1>3 DEF RW!AcquireShared, Readers, Writers, Upgrading
<1> QED  BY <1>4 DEF RWStep, RW!Next

\* An exclusive key.
LEMMA ExclusiveGrant ==
  ASSUME IInv, IInv', NEW k \in Keys, OnlyKey(k), NEW t \in Threads,
         \A l \in Keys : ~Reads(l) /\ ~Writes(l),
         ~Reads(k)', Writes(k)', owner'[k] = t
  PROVE  RWStep
<1>1. /\ ~InUpgrade(k) /\ ~InUpgrade(k)' /\ Grant1(k)' = <<k, t>>
      /\ OtherReaders(k) = {} /\ OtherWriters(k) = {} /\ OtherUpgrading(k) = {}
  BY OtherGrants DEF Reads, Grant1
<1>2. /\ Readers = {} /\ Writers = {} /\ Upgrading = {}
      /\ Readers' = {} /\ Writers' = {<<k, t>>} /\ Upgrading' = {}
  BY <1>1, GrantsBefore
<1>3. RW!AcquireExclusive(k, t)
  BY <1>2 DEF RW!AcquireExclusive, Readers, Writers, Upgrading
<1> QED  BY <1>3 DEF RWStep, RW!Next

\* The grant of k is lost.
LEMMA GrantLost ==
  ASSUME IInv, IInv', NEW k \in Keys, OnlyKey(k), owner[k] \in Threads,
         Reads(k) \/ Writes(k), ~Reads(k)', ~Writes(k)'
  PROVE  RWStep
<1>1. ~InUpgrade(k)' /\ Grant1(k) \in RW!Grants
  BY DEF Reads, Grant1, RW!Grants
<1>2. Grant1(k) \notin OtherReaders(k) \cup OtherWriters(k) \cup OtherUpgrading(k)
  BY OtherGrants DEF Grant1
<1>3. /\ Grant1(k) \in Readers \cup Writers
      /\ Readers' = Readers \ {Grant1(k)}
      /\ Writers' = Writers \ {Grant1(k)}
      /\ Upgrading' = Upgrading \ {Grant1(k)}
  BY <1>1, <1>2, GrantsBefore
<1>4. RW!Release(Grant1(k))
  BY <1>3 DEF RW!Release, Readers, Writers, Upgrading
<1> QED  BY <1>1, <1>4 DEF RWStep, RW!Next

\* The grant of k is another one, which the order of the list allows.
LEMMA GrantChanges ==
  ASSUME IInv, IInv', NEW k \in Keys, OnlyKey(k), owner'[k] = owner[k], owner[k] \in Threads,
         \A l \in Keys \ {k} : ~Writes(l) /\ ~InUpgrade(l),
         \/ /\ Writes(k) /\ ~Reads(k) /\ Reads(k)' /\ ~Writes(k)' /\ ~InUpgrade(k)'
            /\ \A l \in Keys \ {k} : ~Reads(l)
         \/ /\ Reads(k) /\ ~Writes(k) /\ Writes(k)' /\ ~Reads(k)'
            /\ \A l \in Keys \ {k} : ~Reads(l)
         \/ /\ Reads(k) /\ ~Writes(k) /\ Reads(k)' /\ ~Writes(k)'
            /\ InUpgrade(k)' # InUpgrade(k)
  PROVE  RWStep
<1>1. /\ Grant1(k)' = Grant1(k) /\ Grant1(k) \in RW!Grants
      /\ OtherWriters(k) = {} /\ OtherUpgrading(k) = {}
  BY OtherGrants DEF Grant1, RW!Grants
<1>2. InUpgrade(k) \in BOOLEAN /\ InUpgrade(k)' \in BOOLEAN
  BY DEF InUpgrade
<1> USE DEF Readers, Writers, Upgrading
<1>3. CASE Writes(k) /\ ~Reads(k) /\ Reads(k)' /\ ~Writes(k)' /\ ~InUpgrade(k)'
             /\ \A l \in Keys \ {k} : ~Reads(l)
  <2>1. OtherReaders(k) = {} /\ ~InUpgrade(k)
    BY <1>3, OtherGrants DEF Reads
  <2>2. RW!Downgrade(Grant1(k))
    BY <1>1, <1>3, <2>1, GrantsBefore DEF RW!Downgrade
  <2> QED  BY <1>1, <2>2 DEF RWStep, RW!Next
<1>4. CASE Reads(k) /\ ~Writes(k) /\ Writes(k)' /\ ~Reads(k)'
             /\ \A l \in Keys \ {k} : ~Reads(l)
  <2>1. OtherReaders(k) = {} /\ ~InUpgrade(k)'
    BY <1>4, OtherGrants DEF Reads
  <2>2. RW!Upgrade(Grant1(k))
    BY <1>1, <1>4, <2>1, GrantsBefore DEF RW!Upgrade
  <2> QED  BY <1>1, <2>2 DEF RWStep, RW!Next
<1>5. CASE Reads(k) /\ ~Writes(k) /\ Reads(k)' /\ ~Writes(k)' /\ InUpgrade(k)'
             /\ ~InUpgrade(k)
  <2>1. RW!AskUpgrade(Grant1(k))
    BY <1>1, <1>5, GrantsBefore DEF RW!AskUpgrade
  <2> QED  BY <1>1, <2>1 DEF RWStep, RW!Next
<1>6. CASE Reads(k) /\ ~Writes(k) /\ Reads(k)' /\ ~Writes(k)' /\ ~InUpgrade(k)'
             /\ InUpgrade(k)
  <2>1. RW!RefuseUpgrade(Grant1(k))
    BY <1>1, <1>6, GrantsBefore DEF RW!RefuseUpgrade
  <2> QED  BY <1>1, <2>1 DEF RWStep, RW!Next
<1> QED  BY <1>2, <1>3, <1>4, <1>5, <1>6

-----------------------------------------------------------------------------
(* What the order of the list says of the other keys.                      *)

\* A key that is not waiting has no exclusive key and no upgrade beside it,
\* unless it is shared.
LEMMA NobodyBeside ==
  ASSUME IInv, NEW k \in Keys, kind[k] \in {"EXCLUSIVE", "DOWNGRADED"}
  PROVE  /\ \A l \in Keys \ {k} : ~Writes(l) /\ ~InUpgrade(l)
         /\ ~InUpgrade(k)
         /\ kind[k] = "EXCLUSIVE" => \A l \in Keys \ {k} : ~Reads(l)
<1>1. PICK i \in 1..Len(keys) : keys[i] = k
  BY DEF IInv, ListInv, Listed, TypeOK
<1>2. ~InUpgrade(k)
  BY DEF IInv, WaitInv, InUpgrade, KeyWaits
<1>3. ASSUME NEW l \in Keys \ {k}, l \in Listed
      PROVE  /\ kind[l] \in {"PENDING", "SHARED"}
             /\ ~InUpgrade(l)
             /\ kind[k] = "EXCLUSIVE" => kind[l] = "PENDING"
  <2>1. PICK j \in 1..Len(keys) : keys[j] = l
    BY <1>3 DEF IInv, Listed, TypeOK
  <2>2. i # j /\ i \in DOMAIN keys /\ j \in DOMAIN keys
    BY <1>1, <2>1 DEF IInv, TypeOK
  <2>3. CASE i < j
    <3>1. kind[l] = "SHARED" /\ kind[k] # "EXCLUSIVE"
      BY <1>1, <2>1, <2>2, <2>3 DEF IInv, QueueOrder
    <3> QED  BY <3>1 DEF IInv, WaitInv, InUpgrade, KeyWaits
  <2>4. CASE j < i
    <3>1. kind[l] = "PENDING"
      BY <1>1, <2>1, <2>2, <2>4 DEF IInv, QueueOrder
    <3>2. ~InUpgrade(l)
      BY <1>1, <2>1, <2>2, <2>4 DEF IInv, UpgradeOrder, SharedBehind, InUpgrade
    <3> QED  BY <3>1, <3>2
  <2> QED  BY <2>2, <2>3, <2>4
<1>4. \A l \in Keys : l \notin Listed => ~Writes(l) /\ ~Reads(l) /\ ~InUpgrade(l)
  BY DEF IInv, ListInv, WaitInv, InUpgrade, KeyWaits, Reads, Writes
<1> QED  BY <1>2, <1>3, <1>4 DEF Reads, Writes

\* Beside a key that is being upgraded there are waiting keys and shared keys.
LEMMA AlongUpgrade ==
  ASSUME IInv, NEW k \in Keys, InUpgrade(k)
  PROVE  \A l \in Keys \ {k} : ~Writes(l) /\ ~InUpgrade(l)
<1>1. kind[k] = "PENDING" /\ k \in Listed /\ SharedBehind(k)
  BY DEF IInv, WaitInv, ListInv, UpgradeOrder, InUpgrade, KeyWaits
<1>2. PICK i \in 1..Len(keys) : keys[i] = k
  BY <1>1 DEF IInv, Listed, TypeOK
<1>3. ASSUME NEW l \in Keys \ {k}, Writes(l) \/ InUpgrade(l)
      PROVE  FALSE
  <2>1. kind[l] \in Excluding /\ l \in Listed
    BY <1>3 DEF IInv, WaitInv, ListInv, InUpgrade, KeyWaits, Writes, Excluding
  <2>2. PICK j \in 1..Len(keys) : keys[j] = l
    BY <2>1 DEF IInv, Listed, TypeOK
  <2>3. i # j /\ i \in DOMAIN keys /\ j \in DOMAIN keys
    BY <1>2, <2>2 DEF IInv, TypeOK
  <2>4. CASE i < j
    BY <1>1, <1>2, <2>1, <2>2, <2>3, <2>4 DEF SharedBehind, Excluding
  <2>5. CASE j < i
    <3>1. kind[l] # "EXCLUSIVE"
      BY <1>2, <2>2, <2>3, <2>5 DEF IInv, QueueOrder
    <3>2. SharedBehind(l)
      BY <1>3, <3>1 DEF IInv, UpgradeOrder, InUpgrade, Writes
    <3> QED  BY <1>1, <1>2, <2>2, <2>3, <2>5, <3>2 DEF SharedBehind
  <2> QED  BY <2>3, <2>4, <2>5
<1> QED  BY <1>3

\* Before the last key of the list there are only waiting keys, if it is not
\* shared.
LEMMA NobodyBehind ==
  ASSUME IInv, NEW k \in Listed, ~HasNext(k), kind[k] # "SHARED"
  PROVE  \A l \in Keys \ {k} : ~Reads(l) /\ ~Writes(l) /\ ~InUpgrade(l)
<1>1. PICK i \in 1..Len(keys) : keys[i] = k
  BY DEF IInv, Listed, TypeOK
<1>2. i = Len(keys) /\ i \in DOMAIN keys
  BY <1>1 DEF HasNext, IInv, TypeOK
<1>3. ASSUME NEW l \in Keys \ {k}, l \in Listed
      PROVE  kind[l] = "PENDING" /\ ~InUpgrade(l)
  <2>1. PICK j \in 1..Len(keys) : keys[j] = l
    BY <1>3 DEF IInv, Listed, TypeOK
  <2>2. j < i /\ j \in DOMAIN keys
    BY <1>1, <1>2, <2>1 DEF IInv, TypeOK
  <2>3. kind[l] = "PENDING"
    BY <1>1, <1>2, <2>1, <2>2 DEF IInv, QueueOrder
  <2>4. ~InUpgrade(l)
    BY <1>1, <1>2, <2>1, <2>2 DEF IInv, UpgradeOrder, SharedBehind, InUpgrade
  <2> QED  BY <2>3, <2>4
<1>4. \A l \in Keys : l \notin Listed => ~Writes(l) /\ ~Reads(l) /\ ~InUpgrade(l)
  BY DEF IInv, ListInv, WaitInv, InUpgrade, KeyWaits, Reads, Writes
<1> QED  BY <1>3, <1>4 DEF Reads, Writes

\* Who may get a shared key.
LEMMA MayShare ==
  ASSUME IInv, NEW t \in Threads, CanShare(t)
  PROVE  /\ \A l \in Keys : ~Writes(l)
         /\ \/ \A l \in Keys : ~InUpgrade(l)
            \/ \E l \in Keys : Reads(l) /\ owner[l] = t
<1>1. \A l \in Keys : Writes(l) \/ InUpgrade(l) => l \in Listed
  BY DEF IInv, ListInv, WaitInv, InUpgrade, KeyWaits, Writes
<1>2. CASE OwnSharedIdx(t) # {}
  <2>1. PICK i \in 1..Len(keys) : owner[keys[i]] = t /\ kind[keys[i]] \notin Excluding
    BY <1>2 DEF OwnSharedIdx, OwnIdx, IInv, TypeOK
  <2>2. keys[i] \in Keys /\ keys[i] \in Listed
    BY <2>1 DEF IInv, TypeOK, Listed
  <2>3. kind[keys[i]] \in {"SHARED", "DOWNGRADED"}
    BY <2>1, <2>2 DEF IInv, ListInv, TypeOK, Kinds, Excluding
  <2>4. \A l \in Keys : ~Writes(l)
    <3> SUFFICES ASSUME NEW l \in Keys, Writes(l) PROVE FALSE
      OBVIOUS
    <3>1. \A m \in Keys \ {l} : ~Reads(m)
      BY NobodyBeside DEF Writes
    <3> QED  BY <2>2, <2>3, <3>1 DEF Reads, Writes
  <2> QED  BY <2>1, <2>2, <2>3, <2>4 DEF Reads
<1>3. CASE ~ExclusiveHead
  <2> SUFFICES ASSUME NEW l \in Keys, Writes(l) \/ InUpgrade(l) PROVE FALSE
    OBVIOUS
  <2>1. PICK j \in 1..Len(keys) : keys[j] = l
    BY <1>1 DEF IInv, Listed, TypeOK
  <2>2. kind[l] \in Excluding
    BY DEF Writes, InUpgrade, IInv, WaitInv, KeyWaits, Excluding
  <2>3. j # 1 /\ 1 \in DOMAIN keys /\ j \in DOMAIN keys /\ 1 < j
    BY <1>3, <2>1, <2>2 DEF ExclusiveHead, IInv, TypeOK
  <2>4. kind[keys[1]] \notin Excluding
    BY <1>3, <2>3 DEF ExclusiveHead, IInv, TypeOK
  <2> QED  BY <2>1, <2>2, <2>3, <2>4 DEF IInv, QueueOrder, Excluding
<1> QED  BY <1>2, <1>3 DEF CanShare

-----------------------------------------------------------------------------
(* The steps of the mutex, one abstract step for each.                     *)

\* Nobody is inside upgrade() before or after what thread t does.
LEMMA SameUpgrades ==
  ASSUME NEW t \in Threads, pc[t] # "upgrade", pc'[t] # "upgrade",
         \A u \in Threads \ {t} : pc'[u] = pc[u] /\ cur'[u] = cur[u]
  PROVE  \A k \in Keys : InUpgrade(k)' <=> InUpgrade(k)
BY DEF InUpgrade

\* A step that leaves the kinds and owners alone is not seen.
LEMMA UnseenStep ==
  ASSUME IInv, IInv', UNCHANGED <<kind, owner>>,
         \A k \in Keys : InUpgrade(k)' <=> InUpgrade(k)
  PROVE  RWStep
<1>1. CASE Keys = {}
  <2>1. Readers = {} /\ Writers = {} /\ Upgrading = {}
    BY <1>1, GrantedByKind DEF Readers, Writers, Upgrading, Granted
  <2>2. Listed = {} /\ Listed' = {}
    BY <1>1 DEF IInv, TypeOK, Listed
  <2>3. Readers' = {} /\ Writers' = {} /\ Upgrading' = {}
    BY <2>2 DEF Readers, Writers, Upgrading, Granted, ReadingKeys, WritingKeys
  <2> QED  BY <2>1, <2>3 DEF RWStep, RW!vars, Readers, Writers, Upgrading
<1>2. ASSUME NEW k \in Keys
      PROVE  RWStep
  <2>1. OnlyKey(k) /\ (Reads(k)' <=> Reads(k)) /\ (Writes(k)' <=> Writes(k))
           /\ (InUpgrade(k)' <=> InUpgrade(k)) /\ Grant1(k)' = Grant1(k)
    BY DEF OnlyKey, Reads, Writes, Grant1
  <2> QED  BY <2>1, GrantsBefore DEF RWStep, RW!vars, Readers, Writers, Upgrading
<1> QED  BY <1>1, <1>2

\* A step that sets the kind of k, and perhaps its owner.
LEMMA KindStep ==
  ASSUME IInv, NEW k \in Keys, NEW kd \in Kinds, kind' = [kind EXCEPT ![k] = kd],
         owner' = owner \/ \E o : owner' = [owner EXCEPT ![k] = o],
         \A l \in Keys \ {k} : InUpgrade(l)' <=> InUpgrade(l)
  PROVE  /\ OnlyKey(k)
         /\ kind'[k] = kd
         /\ Reads(k)' <=> kd \in {"SHARED", "DOWNGRADED"} \/ InUpgrade(k)'
         /\ Writes(k)' <=> kd = "EXCLUSIVE"
<1>1. kind'[k] = kd /\ \A l \in Keys \ {k} : kind'[l] = kind[l]
  BY DEF IInv, TypeOK
<1>2. \A l \in Keys \ {k} : owner'[l] = owner[l]
  BY DEF IInv, TypeOK
<1> QED  BY <1>1, <1>2 DEF OnlyKey, Reads, Writes

\* A key that is not in use has no grant.
LEMMA FreeKey ==
  ASSUME IInv, NEW k \in Keys, kind[k] \in FreeKinds
  PROVE  ~Reads(k) /\ ~Writes(k) /\ ~InUpgrade(k)
BY DEF IInv, WaitInv, FreeKinds, Reads, Writes, InUpgrade, KeyWaits

\* An empty list has no grants.
LEMMA NoKeys ==
  ASSUME IInv, keys = <<>>
  PROVE  \A l \in Keys : ~Reads(l) /\ ~Writes(l) /\ ~InUpgrade(l)
<1>1. Listed = {}
  BY DEF Listed
<1> QED  BY <1>1, FreeKey DEF IInv, ListInv, FreeKinds

\* A new key: lock() and trylock() of an unlocked mutex, shared_lock() and
\* try_shared_lock() next to shared keys, and the futures that get their key.
LEMMA NewKey ==
  ASSUME IInv, IInv', NEW t \in Threads, NEW k \in Fresh,
         NEW kd \in {"SHARED", "EXCLUSIVE"}, SetKey(k, t, kd),
         kd = "EXCLUSIVE" => keys = <<>>,
         kd = "SHARED" => CanShare(t),
         \A l \in Keys : InUpgrade(l)' <=> InUpgrade(l)
  PROVE  RWStep
<1>1. k \in Keys /\ kind[k] \in FreeKinds
  BY DEF Fresh, FreeKinds
<1>2. ~Reads(k) /\ ~Writes(k) /\ ~InUpgrade(k)
  BY <1>1, FreeKey
<1>3. /\ OnlyKey(k) /\ ~InUpgrade(k)'
      /\ Reads(k)' <=> kd = "SHARED"
      /\ Writes(k)' <=> kd = "EXCLUSIVE"
  <2>1. owner' = [owner EXCEPT ![k] = t] /\ kd \in Kinds
    BY DEF SetKey, Kinds
  <2>2. kind' = [kind EXCEPT ![k] = kd]
    BY DEF SetKey
  <2> QED  BY <1>1, <1>2, <2>1, <2>2, KindStep
<1>4. owner'[k] = t
  BY <1>1 DEF SetKey, IInv, TypeOK
<1>5. CASE kd = "EXCLUSIVE"
  BY <1>1, <1>3, <1>4, <1>5, NoKeys, ExclusiveGrant
<1>6. CASE kd = "SHARED"
  BY <1>1, <1>2, <1>3, <1>4, <1>6, MayShare, SharedGrant
<1> QED  BY <1>5, <1>6

\* A key that lock(), shared_lock() or a try makes at once adds one grant, and only
\* when the readers-writers lock allows it.
LEMMA AcquireGrant ==
  ASSUME IInv, IInv', NEW t \in Threads, NEW k \in Fresh, NEW ks,
         NEW kd \in {"SHARED", "EXCLUSIVE"}, Acquire(t, k, ks, kd),
         kd = "EXCLUSIVE" => keys = <<>>,
         kd = "SHARED" => CanShare(t)
  PROVE  RWStep
<1>1. SetKey(k, t, kd) /\ UNCHANGED <<pc, cur>>
  BY DEF Acquire, threadVars
<1>2. \A l \in Keys : InUpgrade(l)' <=> InUpgrade(l)
  BY <1>1 DEF InUpgrade
<1> QED  BY <1>1, <1>2, NewKey

\* A thread that is not inside upgrade() gives a key a kind that is no grant.
LEMMA KeyWithoutGrant ==
  ASSUME IInv, IInv', NEW t \in Threads, NEW k \in Keys, NEW kd \in FreeKinds \cup {"PENDING"},
         kind' = [kind EXCEPT ![k] = kd],
         owner' = owner \/ \E o : owner' = [owner EXCEPT ![k] = o],
         pc[t] # "upgrade", pc'[t] # "upgrade", ~InUpgrade(k),
         \A u \in Threads \ {t} : pc'[u] = pc[u] /\ cur'[u] = cur[u]
  PROVE  RWStep
<1>1. \A l \in Keys : InUpgrade(l)' <=> InUpgrade(l)
  BY SameUpgrades
<1>2. OnlyKey(k) /\ ~Reads(k)' /\ ~Writes(k)'
  BY <1>1, KindStep DEF FreeKinds, Kinds
<1>3. CASE Reads(k) \/ Writes(k)
  <2>1. owner[k] \in Threads
    BY <1>3 DEF Reads, Writes, IInv, KeyInv
  <2> QED  BY <1>2, <1>3, <2>1, GrantLost
<1>4. CASE ~Reads(k) /\ ~Writes(k)
  BY <1>2, <1>4, NoGrant
<1> QED  BY <1>3, <1>4

\* A step without effect.
LEMMA StutterGrant ==
  ASSUME IInv, IInv', UNCHANGED vars
  PROVE  RWStep
<1>1. UNCHANGED <<kind, owner>> /\ \A k \in Keys : InUpgrade(k)' <=> InUpgrade(k)
  BY DEF vars, InUpgrade
<1> QED  BY <1>1, UnseenStep

\* exit_mutex_key_obj changes what the calling thread does, and no grant.
LEMMA ExitHookUnseen ==
  ASSUME IInv, NEW t \in Threads, NEW nw, ExitHook(t, nw)
  PROVE  /\ pc'[t] # "upgrade"
         /\ \A u \in Threads \ {t} : pc'[u] = pc[u] /\ cur'[u] = cur[u]
BY DEF ExitHook, IInv, TypeOK

\* lock() takes an unlocked mutex, gives up, or queues a key that waits.
LEMMA LockGrant ==
  ASSUME IInv, IInv', NEW t \in Threads, NEW type, NEW timeout, lock(t, type, timeout)
  PROVE  RWStep
<1>1. pc[t] = "run"
  BY DEF lock, Call
<1>2. CASE UNCHANGED vars
  BY <1>2, StutterGrant
<1>3. ASSUME keys = <<>>, NEW k \in Fresh, Acquire(t, k, <<k>>, "EXCLUSIVE")
      PROVE  RWStep
  BY <1>3, AcquireGrant
<1>4. CASE ExitHook(t, num_waiting) /\ UNCHANGED <<keys, kind, owner, held>>
  BY <1>1, <1>4, ExitHookUnseen, SameUpgrades, UnseenStep
<1>5. ASSUME NEW k \in Fresh, SetKey(k, t, "PENDING"), Sleep(t, "lock", k, timeout, asleep)
      PROVE  RWStep
  <2>1. k \in Keys /\ ~InUpgrade(k)
    BY FreeKey DEF Fresh, FreeKinds
  <2>2. pc'[t] # "upgrade" /\ \A u \in Threads \ {t} : pc'[u] = pc[u] /\ cur'[u] = cur[u]
    BY <1>5 DEF Sleep, IInv, TypeOK
  <2>3. kind' = [kind EXCEPT ![k] = "PENDING"] /\ owner' = [owner EXCEPT ![k] = t]
    BY <1>5 DEF SetKey
  <2> QED  BY <1>1, <2>1, <2>2, <2>3, KeyWithoutGrant
<1> QED  BY <1>2, <1>3, <1>4, <1>5 DEF lock

\* trylock(), try_shared_lock() and the futures.
LEMMA TryGrant ==
  ASSUME IInv, IInv', NEW t \in Threads,
         \/ \E type \in LockTypes : trylock(t, type) \/ try_shared_lock(t, type)
         \/ \E p \in Promises : future_lock(t, p) \/ future_shared_lock(t, p)
  PROVE  RWStep
<1>1. CASE UNCHANGED vars
  BY <1>1, StutterGrant
<1>2. ASSUME keys = <<>>, NEW k \in Fresh, Acquire(t, k, <<k>>, "EXCLUSIVE")
      PROVE  RWStep
  BY <1>2, AcquireGrant
<1>3. ASSUME CanShare(t), NEW k \in Fresh, Acquire(t, k, LinkAfter(SharedPrev(t), k), "SHARED")
      PROVE  RWStep
  BY <1>3, AcquireGrant
<1>4. ASSUME NEW p, NEW b, Enqueue(t, p, b)
      PROVE  RWStep
  <2>1. UNCHANGED <<kind, owner, pc, cur>>
    BY <1>4 DEF Enqueue
  <2> QED  BY <2>1, UnseenStep DEF InUpgrade
<1>5. CASE \E type \in LockTypes : trylock(t, type)
  BY <1>1, <1>2, <1>5 DEF trylock
<1>6. CASE \E type \in LockTypes : try_shared_lock(t, type)
  BY <1>1, <1>3, <1>6 DEF try_shared_lock
<1>7. CASE \E p \in Promises : future_lock(t, p)
  BY <1>2, <1>4, <1>7 DEF future_lock
<1>8. CASE \E p \in Promises : future_shared_lock(t, p)
  BY <1>3, <1>4, <1>8 DEF future_shared_lock
<1> QED  BY <1>5, <1>6, <1>7, <1>8

\* shared_lock() takes a shared key, fails, or waits outside of the list.
LEMMA SharedLockGrant ==
  ASSUME IInv, IInv', NEW t \in Threads, NEW type, NEW timeout, shared_lock(t, type, timeout)
  PROVE  RWStep
<1>1. pc[t] = "run"
  BY DEF shared_lock, Call
<1>2. CASE UNCHANGED vars
  BY <1>2, StutterGrant
<1>3. CASE UNCHANGED <<mutexVars, threadVars, held, interrupts, cond_prog, disabler>>
  <2>1. UNCHANGED <<kind, owner, pc, cur>>
    BY <1>3 DEF mutexVars, threadVars
  <2> QED  BY <2>1, UnseenStep DEF InUpgrade
<1>4. ASSUME ~ExclusiveHead, NEW k \in Fresh,
             Acquire(t, k, LinkAfter(SharedPrev(t), k), "SHARED")
      PROVE  RWStep
  BY <1>4, AcquireGrant DEF CanShare
<1>5. ASSUME NEW k \in Fresh, SetKey(k, t, "INITIALIZED"),
             Sleep(t, "shared_lock", k, timeout, asleep)
      PROVE  RWStep
  <2>1. k \in Keys /\ ~InUpgrade(k)
    BY FreeKey DEF Fresh, FreeKinds
  <2>2. pc'[t] # "upgrade" /\ \A u \in Threads \ {t} : pc'[u] = pc[u] /\ cur'[u] = cur[u]
    BY <1>5 DEF Sleep, IInv, TypeOK
  <2>3. kind' = [kind EXCEPT ![k] = "INITIALIZED"] /\ owner' = [owner EXCEPT ![k] = t]
    BY <1>5 DEF SetKey
  <2> QED  BY <1>1, <2>1, <2>2, <2>3, KeyWithoutGrant DEF FreeKinds
<1> QED  BY <1>2, <1>3, <1>4, <1>5 DEF shared_lock

\* A wait in shared_lock() ends with the key.
LEMMA SharedGrantedGrant ==
  ASSUME IInv, IInv', NEW t \in Threads, SharedGranted(t)
  PROVE  RWStep
<1>1. /\ pc[t] = "shared_lock" /\ ~ExclusiveHead
      /\ kind' = [kind EXCEPT ![cur[t]] = "SHARED"] /\ owner' = owner
      /\ Resume(t)
  BY DEF SharedGranted, Awake
<1>2. cur[t] \in Keys /\ kind[cur[t]] = "INITIALIZED"
  BY <1>1 DEF IInv, WaitInv, FreeWaits
<1>3. /\ ~Reads(cur[t]) /\ ~Writes(cur[t]) /\ ~InUpgrade(cur[t])
      /\ owner[cur[t]] \in Threads
  BY <1>2, FreeKey DEF FreeKinds, IInv, KeyInv
<1>4. \A l \in Keys : InUpgrade(l)' <=> InUpgrade(l)
  <2>1. pc'[t] # "upgrade" /\ \A u \in Threads \ {t} : pc'[u] = pc[u] /\ cur'[u] = cur[u]
    BY <1>1 DEF Resume, IInv, TypeOK
  <2> QED  BY <1>1, <2>1, SameUpgrades
<1>5. PICK k \in Keys, o \in Threads : k = cur[t] /\ o = owner[k]
  BY <1>2, <1>3
<1>6. OnlyKey(k) /\ Reads(k)' /\ ~Writes(k)' /\ ~InUpgrade(k)' /\ owner'[k] = o
  <2>1. kind' = [kind EXCEPT ![k] = "SHARED"] /\ "SHARED" \in Kinds
    BY <1>1, <1>5 DEF Kinds
  <2> QED  BY <1>1, <1>3, <1>4, <1>5, <2>1, KindStep
<1>7. CanShare(o)
  BY <1>1 DEF CanShare
<1> QED  BY <1>3, <1>5, <1>6, <1>7, MayShare, SharedGrant

\* The wait of lock() or shared_lock() ends without a key.
LEMMA TimedOutGrant ==
  ASSUME IInv, IInv', NEW t \in Threads,
         LockTimedOut(t) \/ SharedTimedOut(t) \/ SharedInterrupted(t)
  PROVE  RWStep
<1>1. pc[t] \in {"lock", "shared_lock"}
  BY DEF LockTimedOut, SharedTimedOut, SharedInterrupted, Awake
<1>2. cur[t] \in Keys
  BY <1>1 DEF IInv, WaitInv, KeyWaits, FreeWaits
<1>3. ~InUpgrade(cur[t])
  BY <1>1, <1>2, MutexAssumption DEF InUpgrade, IInv, WaitInv
<1>4. SetKey(cur[t], NoThread, "UNINITIALIZED")
  BY DEF LockTimedOut, SharedTimedOut, SharedInterrupted
<1>5. pc'[t] # "upgrade" /\ \A u \in Threads \ {t} : pc'[u] = pc[u] /\ cur'[u] = cur[u]
  <2>1. Resume(t) => pc'[t] # "upgrade"
                       /\ \A u \in Threads \ {t} : pc'[u] = pc[u] /\ cur'[u] = cur[u]
    BY DEF Resume, IInv, TypeOK
  <2>2. Resume(t) \/ ExitHook(t, num_waiting - 1)
    BY DEF LockTimedOut, SharedTimedOut, SharedInterrupted, Interrupted
  <2> QED  BY <2>1, <2>2, ExitHookUnseen
<1>6. PICK k \in Keys : k = cur[t]
  BY <1>2
<1>7. /\ kind' = [kind EXCEPT ![k] = "UNINITIALIZED"]
      /\ owner' = [owner EXCEPT ![k] = NoThread]
  BY <1>4, <1>6 DEF SetKey
<1> QED  BY <1>1, <1>3, <1>5, <1>6, <1>7, KeyWithoutGrant DEF FreeKinds

\* The other waits that an interrupt ends: the grant of a key that was being
\* upgraded is lost, and the key waits for ever.
LEMMA InterruptedGrant ==
  ASSUME IInv, IInv', NEW t \in Threads,
         LockInterrupted(t) \/ UpgradeInterrupted(t) \/ WaitInterrupted(t)
  PROVE  RWStep
<1>1. /\ pc[t] \in KeyWaits
      /\ UNCHANGED <<kind, owner>>
      /\ Resume(t)
  BY DEF LockInterrupted, UpgradeInterrupted, WaitInterrupted, Awake, Interrupted, KeyWaits
<1>2. PICK k \in Keys : k = cur[t] /\ kind[k] = "PENDING" /\ owner[k] \in Threads
  BY <1>1 DEF IInv, WaitInv, KeyInv
<1>3. pc'[t] = "run" /\ \A u \in Threads \ {t} : pc'[u] = pc[u] /\ cur'[u] = cur[u]
  BY <1>1 DEF Resume, IInv, TypeOK
<1>4. CASE pc[t] # "upgrade"
  BY <1>1, <1>3, <1>4, SameUpgrades, UnseenStep
<1>5. CASE pc[t] = "upgrade"
  <2>1. \A u \in Threads \ {t} : cur[u] # k
    BY <1>2, MutexAssumption DEF IInv, WaitInv
  <2>2. InUpgrade(k) /\ ~InUpgrade(k)' /\ \A l \in Keys \ {k} : InUpgrade(l)' <=> InUpgrade(l)
    BY <1>2, <1>3, <1>5, <2>1 DEF InUpgrade
  <2>3. OnlyKey(k) /\ Reads(k) /\ ~Reads(k)' /\ ~Writes(k)'
    BY <1>1, <1>2, <2>2 DEF OnlyKey, Reads, Writes
  <2> QED  BY <1>2, <2>3, GrantLost
<1> QED  BY <1>4, <1>5

\* A wait for the exclusive lock ends: in lock() and wait() a grant begins, in
\* upgrade() the shared grant becomes exclusive.
LEMMA WaitOverGrant ==
  ASSUME IInv, IInv', NEW t \in Threads, NEW where \in KeyWaits, WaitOver(t, where)
  PROVE  RWStep
<1>1. /\ pc[t] = where /\ ~HasNext(cur[t])
      /\ kind' = [kind EXCEPT ![cur[t]] = "EXCLUSIVE"] /\ owner' = owner
      /\ Resume(t)
  BY DEF WaitOver, Awake
<1>2. PICK k \in Keys : k = cur[t] /\ kind[k] = "PENDING" /\ owner[k] \in Threads /\ k \in Listed
  BY <1>1 DEF IInv, WaitInv, KeyInv, ListInv
<1>3. pc'[t] = "run" /\ \A u \in Threads \ {t} : pc'[u] = pc[u] /\ cur'[u] = cur[u]
  BY <1>1 DEF Resume, IInv, TypeOK
<1>4. \A u \in Threads \ {t} : cur[u] # k
  BY <1>2, MutexAssumption DEF IInv, WaitInv
<1>5. \A l \in Keys \ {k} : ~Reads(l) /\ ~Writes(l) /\ ~InUpgrade(l)
  BY <1>1, <1>2, NobodyBehind
<1>6. /\ InUpgrade(k) <=> where = "upgrade"
      /\ ~InUpgrade(k)'
      /\ \A l \in Keys \ {k} : InUpgrade(l)' <=> InUpgrade(l)
  BY <1>1, <1>2, <1>3, <1>4 DEF InUpgrade
<1>7. OnlyKey(k) /\ ~Reads(k)' /\ Writes(k)'
  <2>1. kind' = [kind EXCEPT ![k] = "EXCLUSIVE"] /\ "EXCLUSIVE" \in Kinds
    BY <1>1, <1>2 DEF Kinds
  <2> QED  BY <1>1, <1>6, <2>1, KindStep
<1>8. ~Writes(k) /\ (Reads(k) <=> InUpgrade(k))
  BY <1>2 DEF Reads, Writes
<1>9. CASE where = "upgrade"
  BY <1>1, <1>2, <1>5, <1>6, <1>7, <1>8, <1>9, GrantChanges
<1>10. CASE where # "upgrade"
  BY <1>1, <1>2, <1>5, <1>6, <1>7, <1>8, <1>10, ExclusiveGrant
<1> QED  BY <1>9, <1>10

\* The upgrade is refused.
LEMMA UpgradeTimedOutGrant ==
  ASSUME IInv, IInv', NEW t \in Threads, UpgradeTimedOut(t)
  PROVE  RWStep
<1>1. /\ pc[t] = "upgrade" /\ Resume(t)
      /\ kind' = [kind EXCEPT ![cur[t]] = "DOWNGRADED"] /\ owner' = owner
  BY DEF UpgradeTimedOut, Awake, Rekind
<1>2. PICK k \in Keys : k = cur[t] /\ kind[k] = "PENDING" /\ owner[k] \in Threads
  BY <1>1 DEF IInv, WaitInv, KeyInv, KeyWaits
<1>3. pc'[t] = "run" /\ \A u \in Threads \ {t} : pc'[u] = pc[u] /\ cur'[u] = cur[u]
  BY <1>1 DEF Resume, IInv, TypeOK
<1>4. \A u \in Threads \ {t} : cur[u] # k
  BY <1>2, MutexAssumption DEF IInv, WaitInv
<1>5. InUpgrade(k) /\ ~InUpgrade(k)' /\ \A l \in Keys \ {k} : InUpgrade(l)' <=> InUpgrade(l)
  BY <1>1, <1>2, <1>3, <1>4 DEF InUpgrade
<1>6. OnlyKey(k) /\ Reads(k) /\ ~Writes(k) /\ Reads(k)' /\ ~Writes(k)' /\ kind'[k] = "DOWNGRADED"
  <2>1. kind' = [kind EXCEPT ![k] = "DOWNGRADED"] /\ "DOWNGRADED" \in Kinds
    BY <1>1, <1>2 DEF Kinds
  <2>2. Reads(k) /\ ~Writes(k)
    BY <1>2, <1>5 DEF Reads, Writes
  <2> QED  BY <1>1, <1>5, <2>1, <2>2, KindStep
<1>7. \A l \in Keys \ {k} : ~Writes(l) /\ ~InUpgrade(l)
  BY <1>2, <1>5, AlongUpgrade
<1> QED  BY <1>1, <1>2, <1>5, <1>6, <1>7, GrantChanges

\* downgrade(), try_upgrade() and upgrade().
LEMMA KeyGrant ==
  ASSUME IInv, IInv', NEW t \in Threads, NEW k \in Keys,
         \/ downgrade(t, k) \/ try_upgrade(t, k)
         \/ \E timeout \in Timeouts : upgrade(t, k, timeout)
  PROVE  RWStep
<1>1. pc[t] = "run" /\ k \in held /\ owner[k] \in Threads
  BY DEF downgrade, try_upgrade, upgrade, Call, IInv, KeyInv
<1>2. CASE UNCHANGED vars
  BY <1>2, StutterGrant
<1>3. CASE UNCHANGED <<mutexVars, pc, cur, timed, todo, progVars, cond_prog, disabler>>
  <2>1. UNCHANGED <<kind, owner, pc, cur>>
    BY <1>3 DEF mutexVars
  <2> QED  BY <2>1, UnseenStep DEF InUpgrade
<1>4. CASE kind[k] = "EXCLUSIVE" /\ Rekind(k, "DOWNGRADED", num_waiting) /\ UNCHANGED <<pc, cur>>
  <2>1. kind' = [kind EXCEPT ![k] = "DOWNGRADED"] /\ "DOWNGRADED" \in Kinds /\ owner' = owner
    BY <1>4 DEF Rekind, Kinds
  <2>2. /\ \A l \in Keys \ {k} : ~Writes(l) /\ ~InUpgrade(l) /\ ~Reads(l)
        /\ ~InUpgrade(k) /\ Writes(k) /\ ~Reads(k)
    BY <1>4, NobodyBeside DEF Writes, Reads
  <2>3. \A l \in Keys : InUpgrade(l)' <=> InUpgrade(l)
    BY <1>4 DEF InUpgrade
  <2>4. OnlyKey(k) /\ Reads(k)' /\ ~Writes(k)' /\ ~InUpgrade(k)'
    BY <2>1, <2>2, <2>3, KindStep
  <2> QED  BY <1>1, <2>1, <2>2, <2>4, GrantChanges
<1>5. CASE /\ kind[k] = "DOWNGRADED" /\ ~HasNext(k)
           /\ Rekind(k, "EXCLUSIVE", num_waiting) /\ UNCHANGED threadVars
  <2>1. kind' = [kind EXCEPT ![k] = "EXCLUSIVE"] /\ "EXCLUSIVE" \in Kinds /\ owner' = owner
    BY <1>5 DEF Rekind, Kinds
  <2>2. k \in Listed
    BY <1>5 DEF IInv, ListInv
  <2>3. \A l \in Keys \ {k} : ~Writes(l) /\ ~InUpgrade(l) /\ ~Reads(l)
    BY <1>5, <2>2, NobodyBehind
  <2>4. ~InUpgrade(k) /\ ~Writes(k) /\ Reads(k)
    BY <1>5, NobodyBeside DEF Writes, Reads
  <2>5. \A l \in Keys : InUpgrade(l)' <=> InUpgrade(l)
    BY <1>5 DEF InUpgrade, threadVars
  <2>6. OnlyKey(k) /\ ~Reads(k)' /\ Writes(k)' /\ ~InUpgrade(k)'
    BY <2>1, <2>4, <2>5, KindStep
  <2> QED  BY <1>1, <2>1, <2>3, <2>4, <2>6, GrantChanges
<1>6. ASSUME NEW timeout \in Timeouts, kind[k] = "DOWNGRADED",
             Rekind(k, "PENDING", num_waiting + 1), Sleep(t, "upgrade", k, timeout, asleep)
      PROVE  RWStep
  <2>1. kind' = [kind EXCEPT ![k] = "PENDING"] /\ "PENDING" \in Kinds /\ owner' = owner
    BY <1>6 DEF Rekind, Kinds
  <2>2. /\ \A l \in Keys \ {k} : ~Writes(l) /\ ~InUpgrade(l)
        /\ ~InUpgrade(k) /\ ~Writes(k) /\ Reads(k)
    BY <1>6, NobodyBeside DEF Writes, Reads
  <2>3. /\ pc'[t] = "upgrade" /\ cur'[t] = k
        /\ \A u \in Threads \ {t} : pc'[u] = pc[u] /\ cur'[u] = cur[u]
    BY <1>6 DEF Sleep, IInv, TypeOK
  <2>4. InUpgrade(k)' /\ \A l \in Keys \ {k} : InUpgrade(l)' <=> InUpgrade(l)
    BY <1>1, <2>3 DEF InUpgrade
  <2>5. OnlyKey(k) /\ Reads(k)' /\ ~Writes(k)'
    BY <2>1, <2>4, KindStep
  <2> QED  BY <1>1, <2>1, <2>2, <2>4, <2>5, GrantChanges
<1>7. CASE downgrade(t, k)
  BY <1>2, <1>4, <1>7 DEF downgrade
<1>8. CASE try_upgrade(t, k)
  BY <1>2, <1>5, <1>8 DEF try_upgrade
<1>9. CASE \E timeout \in Timeouts : upgrade(t, k, timeout)
  BY <1>2, <1>3, <1>5, <1>6, <1>9 DEF upgrade
<1> QED  BY <1>7, <1>8, <1>9

\* The program gives up a key, or a reference to one that keeps its grant.
LEMMA ReleaseGrant ==
  ASSUME IInv, IInv', NEW t \in Threads, NEW k \in Keys, Release(t, k) \/ DropLeaked(t, k)
  PROVE  RWStep
<1>1. CASE Release(t, k)
  <2>1. /\ pc[t] = "run" /\ ~InUpgrade(k)
        /\ kind' = [kind EXCEPT ![k] = "UNINITIALIZED"]
        /\ owner' = [owner EXCEPT ![k] = NoThread]
    BY <1>1 DEF Release, InUpgrade, SetKey
  <2>2. pc'[t] # "upgrade" /\ \A u \in Threads \ {t} : pc'[u] = pc[u] /\ cur'[u] = cur[u]
    <3>1. CASE k \in Listed
      <4>1. ExitHook(t, num_waiting)
        BY <1>1, <3>1 DEF Release
      <4> QED  BY <4>1, ExitHookUnseen
    <3>2. CASE k \notin Listed
      BY <1>1, <2>1, <3>2 DEF Release, threadVars
    <3> QED  BY <3>1, <3>2
  <2> QED  BY <2>1, <2>2, KeyWithoutGrant DEF FreeKinds
<1>2. CASE DropLeaked(t, k)
  <2>1. UNCHANGED <<kind, owner, pc, cur>>
    BY <1>2 DEF DropLeaked, mutexVars, threadVars
  <2> QED  BY <2>1, UnseenStep DEF InUpgrade
<1> QED  BY <1>1, <1>2

\* The loop over the pending futures.
LEMMA GrantLoopGrant ==
  ASSUME IInv, IInv', NEW t \in Threads, Grant(t)
  PROVE  RWStep
<1>1. /\ pc[t] = "grant" /\ pc'[t] # "upgrade"
      /\ \A u \in Threads \ {t} : pc'[u] = pc[u] /\ cur'[u] = cur[u]
  BY DEF Grant, GrantEnds, GrantNext, IInv, TypeOK
<1>2. \A l \in Keys : InUpgrade(l)' <=> InUpgrade(l)
  BY <1>1, SameUpgrades
<1>3. CASE UNCHANGED <<keys, kind, owner, pending, held>>
  BY <1>2, <1>3, UnseenStep
<1>4. ASSUME NEW e, keys = <<>>, NEW k \in Fresh, GrantTo(t, e, k, <<k>>, "EXCLUSIVE")
      PROVE  RWStep
  BY <1>2, <1>4, NewKey DEF GrantTo
<1>5. ASSUME NEW e, CanShare(t), NEW k \in Fresh,
             GrantTo(t, e, k, LinkAfter(SharedPrev(t), k), "SHARED")
      PROVE  RWStep
  BY <1>2, <1>5, NewKey DEF GrantTo
<1> QED  BY <1>3, <1>4, <1>5 DEF Grant

\* wait() gives up the exclusive key and takes it back.
LEMMA CondWaitGrant ==
  ASSUME IInv, IInv', NEW t \in Threads, NEW k \in Keys, NEW timeout, wait(t, k, timeout)
  PROVE  RWStep
<1>1. CASE UNCHANGED vars
  BY <1>1, StutterGrant
<1>2. CASE /\ pc[t] = "run" /\ kind[k] = "EXCLUSIVE"
           /\ kind' = [kind EXCEPT ![k] = "INITIALIZED"] /\ owner' = owner
           /\ Sleep(t, "wait", k, timeout, asleep \ MutexSleepers)
  <2>1. ~InUpgrade(k)
    BY <1>2, NobodyBeside
  <2>2. pc'[t] # "upgrade" /\ \A u \in Threads \ {t} : pc'[u] = pc[u] /\ cur'[u] = cur[u]
    BY <1>2 DEF Sleep, IInv, TypeOK
  <2> QED  BY <1>2, <2>1, <2>2, KeyWithoutGrant DEF FreeKinds
<1> QED  BY <1>1, <1>2 DEF wait, Call

\* wait() that wakes up holds a key outside the list: no grant changes.
LEMMA WaitWakesGrant ==
  ASSUME IInv, IInv', NEW t \in Threads, WaitWakes(t)
  PROVE  RWStep
<1>1. pc[t] = "wait" /\ owner' = owner
  BY DEF WaitWakes, Awake
<1>2. PICK k \in Keys : k = cur[t] /\ kind[k] = "INITIALIZED" /\ owner[k] \in Threads
  BY <1>1 DEF IInv, WaitInv, KeyInv, FreeWaits
<1>3. ~Reads(k) /\ ~Writes(k) /\ ~InUpgrade(k)
  BY <1>2, FreeKey DEF FreeKinds
<1>4. pc'[t] # "upgrade" /\ \A u \in Threads \ {t} : pc'[u] = pc[u] /\ cur'[u] = cur[u]
  BY DEF WaitWakes, Resume, IInv, TypeOK
<1>5. \A l \in Keys : InUpgrade(l)' <=> InUpgrade(l)
  BY <1>1, <1>4, SameUpgrades
<1>6. CASE kind' = kind
  BY <1>1, <1>5, <1>6, UnseenStep
<1>7. CASE keys = <<>> /\ kind' = [kind EXCEPT ![k] = "EXCLUSIVE"]
  <2>1. OnlyKey(k) /\ ~Reads(k)' /\ Writes(k)'
    BY <1>1, <1>3, <1>5, <1>7, KindStep DEF Kinds
  <2> QED  BY <1>1, <1>2, <1>7, <2>1, NoKeys, ExclusiveGrant
<1>8. CASE kind' = [kind EXCEPT ![k] = "PENDING"]
  BY <1>1, <1>3, <1>4, <1>8, KeyWithoutGrant
<1> QED  BY <1>2, <1>6, <1>7, <1>8 DEF WaitWakes

\* The steps that only send threads to sleep or wake them, and the end of the
\* mutex and of the condition.
LEMMA OtherGrant ==
  ASSUME IInv, IInv', NEW t \in Threads,
         \/ LockWaits(t) \/ SharedWaits(t) \/ UpgradeWaits(t) \/ WaitWaits(t)
         \/ signal(t) \/ broadcast(t) \/ TimeoutWake(t) \/ disable_threads(t)
         \/ destruct_mutex(t) \/ destruct_cond(t) \/ DestructCondEnds(t)
  PROVE  RWStep
<1>1. UNCHANGED <<kind, owner>>
  BY DEF LockWaits, SharedWaits, UpgradeWaits, WaitWaits, SleepAgain, signal, broadcast,
         TimeoutWake, disable_threads, destruct_mutex, destruct_cond, DestructCondEnds,
         mutexVars
<1>2. CASE UNCHANGED <<pc, cur>>
  BY <1>1, <1>2, UnseenStep DEF InUpgrade
<1>3. CASE destruct_cond(t) \/ DestructCondEnds(t)
  <2>1. /\ pc[t] # "upgrade" /\ pc'[t] # "upgrade"
        /\ \A u \in Threads \ {t} : pc'[u] = pc[u] /\ cur'[u] = cur[u]
    BY <1>3 DEF destruct_cond, DestructCondEnds, Call, Awake, Resume, IInv, TypeOK
  <2> QED  BY <1>1, <2>1, SameUpgrades, UnseenStep
<1> QED
  BY <1>2, <1>3 DEF LockWaits, SharedWaits, UpgradeWaits, WaitWaits, SleepAgain, signal,
     broadcast, TimeoutWake, disable_threads, destruct_mutex, mutexVars, threadVars

-----------------------------------------------------------------------------
(* The theorem.                                                            *)

LEMMA GrantsAtFirst == Init => RW!Init
<1> SUFFICES ASSUME Init
             PROVE  RW!Init
  OBVIOUS
<1>1. Listed = {}
  BY DEF Init, Listed
<1> QED  BY <1>1 DEF RW!Init, Granted, ReadingKeys, WritingKeys

\* Every step of the mutex is a step of the readers-writers lock, or none.
LEMMA StepGrant == IInv /\ IInv' /\ [Next]_vars => RWStep
<1> SUFFICES ASSUME IInv, IInv', [Next]_vars
             PROVE  RWStep
  OBVIOUS
<1>1. ASSUME NEW t \in Threads, ProgramStep(t)
      PROVE  RWStep
  BY <1>1, LockGrant, SharedLockGrant, TryGrant, KeyGrant, ReleaseGrant, CondWaitGrant,
     OtherGrant DEF ProgramStep
<1>2. ASSUME NEW t \in Threads, Continue(t)
      PROVE  RWStep
  <2>1. CASE LockGranted(t) \/ UpgradeGranted(t) \/ WaitRelocked(t)
    BY <2>1, WaitOverGrant DEF LockGranted, UpgradeGranted, WaitRelocked, KeyWaits
  <2> QED  BY <1>2, <2>1, TimedOutGrant, UpgradeTimedOutGrant, OtherGrant,
              SharedGrantedGrant, WaitWakesGrant, GrantLoopGrant DEF Continue
<1>3. ASSUME NEW t \in Threads, Interrupt(t) \/ TimeoutWake(t)
      PROVE  RWStep
  BY <1>3, InterruptedGrant, TimedOutGrant, OtherGrant DEF Interrupt
<1> QED  BY <1>1, <1>2, <1>3, StutterGrant DEF Next

\* The mutex implements the readers-writers lock: no shared key beside an
\* exclusive one, no writer between downgrade() and the end of upgrade(), and no
\* new reader once upgrade() has been called, other than in a thread that reads
\* already, whatever waits, timeouts and interrupts come between.
THEOREM MutexImplements == Spec => ImplementsReadersWriters
<1>1. IInv /\ IInv' /\ [Next]_vars => [RW!Next]_(RW!vars)
  BY StepGrant DEF RWStep
<1> QED  BY <1>1, GrantsAtFirst, Invariance, NextInv, PTL
         DEF Spec, ImplementsReadersWriters, RW!Spec

-----------------------------------------------------------------------------
(* No future is forgotten.                                                 *)

\* A key that is not free is in the list.
LEMMA SomeKey ==
  ASSUME IInv', NEW k \in Keys, kind'[k] \notin FreeKinds
  PROVE  keys' # <<>>
<1>1. k \in Listed'
  BY DEF IInv, ListInv, FreeKinds
<1> QED  BY <1>1 DEF Listed

\* A key with a next one is not alone.
LEMMA NextKey ==
  ASSUME IInv, NEW k \in Keys, HasNext(k)
  PROVE  \E l \in Keys \ {k} : kind[l] \notin FreeKinds
<1>1. PICK i \in 1..Len(keys) : i < Len(keys) /\ keys[i] = k
  BY DEF HasNext, IInv, TypeOK
<1>2. keys[Len(keys)] \in Keys /\ Len(keys) \in DOMAIN keys /\ i \in DOMAIN keys
  BY <1>1 DEF IInv, TypeOK
<1>3. keys[Len(keys)] # k
  BY <1>1, <1>2 DEF IInv, ListInv
<1>4. keys[Len(keys)] \in Listed
  BY <1>2 DEF Listed
<1> QED  BY <1>2, <1>3, <1>4 DEF IInv, ListInv, FreeKinds

\* If m->num_waiting is positive and no wait was interrupted, a thread waits.
LEMMA CountedWaits ==
  ASSUME IInv, interrupts = 0, num_waiting # 0
  PROVE  \E t \in Threads : pc[t] \in MutexWaits
<1>1. num_waiting = Cardinality(Waiting) + interrupts /\ num_waiting \in Nat
  BY DEF IInv, NumWaiting, TypeOK, Waiting
<1>2. IsFiniteSet(Waiting)
  BY MutexAssumption, FS_Subset DEF Waiting
<1>3. Cardinality(Waiting) \in Nat
  BY <1>2, FS_CardinalityType
<1>4. Cardinality(Waiting) # 0
  BY <1>1, <1>3
<1>5. Waiting # {}
  BY <1>4, FS_EmptySet
<1> QED  BY <1>5 DEF Waiting

\* What a step has to see to.
LEMMA FutureStep ==
  ASSUME FutureInv,
         pending' # {} => prog',
         \/ keys' # <<>> \/ interrupts' # 0 \/ \E u \in Threads : CanGrant(u)'
         \/ /\ pending' \subseteq pending /\ interrupts' = interrupts
            /\ keys' = <<>> => keys = <<>>
            /\ \A u \in Threads : CanGrant(u) => CanGrant(u)'
  PROVE  FutureInv'
<1>1. CASE keys' # <<>> \/ interrupts' # 0
  BY <1>1 DEF FutureInv
<1>2. CASE \E u \in Threads : CanGrant(u)'
  BY <1>2 DEF FutureInv
<1>3. CASE /\ pending' \subseteq pending /\ interrupts' = interrupts
           /\ keys' = <<>> => keys = <<>>
           /\ \A u \in Threads : CanGrant(u) => CanGrant(u)'
  BY <1>3 DEF FutureInv
<1> QED  BY <1>1, <1>2, <1>3

\* Nobody else stops waiting or granting.
LEMMA FutureKept ==
  ASSUME IInv, FutureInv, NEW t \in Threads, ~CanGrant(t) \/ CanGrant(t)',
         \A u \in Threads \ {t} : pc'[u] = pc[u] /\ todo'[u] = todo[u],
         pending' \subseteq pending, prog' = prog, interrupts' = interrupts,
         keys' = <<>> => keys = <<>>
  PROVE  FutureInv'
<1>1. \A u \in Threads : CanGrant(u) => CanGrant(u)'
  BY DEF CanGrant
<1>2. pending' # {} => prog'
  BY DEF FutureInv
<1> QED  BY <1>1, <1>2, FutureStep

\* A thread in lock(), unlock() or the condition's methods grants nothing.
LEMMA Idle ==
  ASSUME NEW t \in Threads, pc[t] \in {"run", "exit_cond"}
  PROVE  ~CanGrant(t)
BY DEF CanGrant, MutexWaits

\* lock(), trylock(), shared_lock(), try_shared_lock(), future_lock() and
\* future_shared_lock() leave the mutex locked.
LEMMA LocksFuture ==
  ASSUME IInv, IInv', FutureInv, NEW t \in Threads,
         \/ \E type \in LockTypes :
              \/ \E timeout \in Timeouts :
                   lock(t, type, timeout) \/ shared_lock(t, type, timeout)
              \/ trylock(t, type) \/ try_shared_lock(t, type)
         \/ \E p \in Promises : future_lock(t, p) \/ future_shared_lock(t, p)
  PROVE  FutureInv'
<1>1. prog' = prog /\ prog
  BY DEF lock, shared_lock, trylock, try_shared_lock, future_lock, future_shared_lock,
         Acquire, ExitHook, Enqueue, mutexVars, vars
<1>2. CASE UNCHANGED <<keys, pending, interrupts, pc, todo>>
  BY <1>1, <1>2, FutureStep DEF CanGrant
<1>3. CASE keys' # <<>>
  BY <1>1, <1>3, FutureStep
<1>4. ASSUME NEW k \in Fresh, NEW ks, NEW kd \in ListKinds, Acquire(t, k, ks, kd)
      PROVE  keys' # <<>>
  <2>1. k \in Keys /\ kind'[k] = kd
    BY <1>4 DEF Fresh, Acquire, SetKey, IInv, TypeOK
  <2> QED  BY <2>1, SomeKey DEF ListKinds, FreeKinds
<1>5. ASSUME NEW k \in Fresh, SetKey(k, t, "PENDING")
      PROVE  keys' # <<>>
  <2>1. k \in Keys /\ kind'[k] = "PENDING"
    BY <1>5 DEF Fresh, SetKey, IInv, TypeOK
  <2> QED  BY <2>1, SomeKey DEF FreeKinds
<1>6. ASSUME NEW type, NEW timeout, lock(t, type, timeout)
      PROVE  UNCHANGED <<keys, pending, interrupts, pc, todo>> \/ keys' # <<>>
  BY <1>4, <1>5, <1>6 DEF lock, vars, ListKinds
<1>7. ~CanShare(t) \/ ExclusiveHead => keys # <<>>
  BY DEF CanShare, ExclusiveHead
<1>8. ASSUME NEW type, NEW timeout, shared_lock(t, type, timeout)
      PROVE  UNCHANGED <<keys, pending, interrupts, pc, todo>> \/ keys' # <<>>
  BY <1>4, <1>7, <1>8 DEF shared_lock, vars, ListKinds, mutexVars, threadVars
<1>9. ASSUME NEW type, trylock(t, type) \/ try_shared_lock(t, type)
      PROVE  UNCHANGED <<keys, pending, interrupts, pc, todo>> \/ keys' # <<>>
  BY <1>4, <1>9 DEF trylock, try_shared_lock, vars, ListKinds
<1>10. ASSUME NEW p, future_lock(t, p) \/ future_shared_lock(t, p)
       PROVE  keys' # <<>>
  BY <1>4, <1>7, <1>10 DEF future_lock, future_shared_lock, Enqueue, ListKinds
<1> QED  BY <1>2, <1>3, <1>6, <1>8, <1>9, <1>10

\* A key is given up: the last one leaves a thread to grant the futures, or
\* threads that will lock the mutex.
LEMMA ReleaseFuture ==
  ASSUME IInv, IInv', FutureInv, NEW t \in Threads, NEW k \in Keys,
         Release(t, k) \/ DropLeaked(t, k)
  PROVE  FutureInv'
<1>1. pc[t] = "run" /\ ~CanGrant(t)
  BY Idle DEF Release, DropLeaked
<1>2. CASE UNCHANGED <<keys, pending, prog, interrupts, pc, todo>>
  BY <1>1, <1>2, FutureKept
<1>3. CASE ExitHook(t, num_waiting)
  <2>1. prog' = prog /\ pending' = pending /\ interrupts' = interrupts
    BY <1>3 DEF ExitHook
  <2>2. ASSUME interrupts = 0, num_waiting # 0
        PROVE  \E u \in Threads : CanGrant(u)'
    <3>1. PICK u \in Threads : pc[u] \in MutexWaits
      BY <2>2, CountedWaits
    <3>2. u # t
      BY <1>1, <3>1 DEF MutexWaits
    <3>3. pc'[u] = pc[u]
      BY <1>3, <3>2 DEF ExitHook, IInv, TypeOK
    <3> QED  BY <3>1, <3>3 DEF CanGrant
  <2>3. ASSUME num_waiting = 0, pending # {}
        PROVE  CanGrant(t)'
    <3>1. GrantsAtExit(num_waiting)
      BY <2>3 DEF GrantsAtExit, FutureInv
    <3>2. pc'[t] = "grant" /\ todo'[t] = pending
      BY <1>3, <3>1 DEF ExitHook, IInv, TypeOK
    <3> QED  BY <2>1, <3>2 DEF CanGrant
  <2> QED  BY <2>1, <2>2, <2>3 DEF FutureInv
<1> QED
  BY <1>2, <1>3 DEF Release, DropLeaked, mutexVars, threadVars

\* downgrade(), upgrade() and try_upgrade() keep the key in the list, and so do
\* the ends of their waits, and of the waits of lock(), shared_lock(), wait().
LEMMA KeyFuture ==
  ASSUME IInv, IInv', FutureInv, NEW t \in Threads, NEW k \in Keys,
         \/ downgrade(t, k) \/ try_upgrade(t, k)
         \/ \E timeout \in Timeouts : upgrade(t, k, timeout)
  PROVE  FutureInv'
<1>1. /\ prog' = prog /\ pending' = pending /\ keys' = keys
      /\ todo' = todo /\ interrupts' = interrupts
  BY DEF downgrade, try_upgrade, upgrade, Rekind, Sleep, vars, mutexVars, threadVars, progVars
<1>2. pc[t] = "run" /\ ~CanGrant(t)
  BY Idle DEF downgrade, try_upgrade, upgrade, Call
<1>3. \A u \in Threads \ {t} : pc'[u] = pc[u]
  BY DEF downgrade, try_upgrade, upgrade, Sleep, vars, mutexVars, threadVars, IInv, TypeOK
<1> QED  BY <1>1, <1>2, <1>3, FutureKept

\* A call that takes its key, or gives up, with its key in the list: the list is not
\* empty, or the exit hook visits the futures that are queued.
LEMMA WaitOverFuture ==
  ASSUME IInv, IInv', FutureInv, NEW t \in Threads,
         \/ \E where \in KeyWaits : WaitOver(t, where)
         \/ SharedGranted(t) \/ SharedTimedOut(t) \/ LockTimedOut(t) \/ UpgradeTimedOut(t)
  PROVE  FutureInv'
<1>1. prog' = prog /\ pending' = pending /\ cur[t] \in Keys
  BY DEF WaitOver, SharedGranted, SharedTimedOut, LockTimedOut, UpgradeTimedOut, Rekind,
         ExitHook, Awake, IInv, WaitInv, KeyWaits, FreeWaits
<1>2. keys' # <<>>
  <2>1. CASE (\E where \in KeyWaits : WaitOver(t, where)) \/ SharedGranted(t)
    <3>1. kind'[cur[t]] \in {"EXCLUSIVE", "SHARED"}
      BY <1>1, <2>1 DEF WaitOver, SharedGranted, IInv, TypeOK
    <3> QED  BY <1>1, <3>1, SomeKey DEF FreeKinds
  <2>2. CASE SharedTimedOut(t)
    BY <2>2 DEF SharedTimedOut, ExclusiveHead
  <2>3. CASE LockTimedOut(t) \/ UpgradeTimedOut(t)
    <3>1. PICK l \in Keys \ {cur[t]} : kind[l] \notin FreeKinds
      BY <1>1, <2>3, NextKey DEF LockTimedOut, UpgradeTimedOut
    <3>2. kind'[l] = kind[l]
      BY <1>1, <2>3 DEF LockTimedOut, UpgradeTimedOut, SetKey, Rekind, IInv, TypeOK
    <3> QED  BY <3>1, <3>2, SomeKey
  <2> QED  BY <2>1, <2>2, <2>3
<1> QED  BY <1>1, <1>2, FutureStep DEF FutureInv

\* After an interrupt nothing is promised.
LEMMA InterruptFuture ==
  ASSUME IInv, IInv', FutureInv, NEW t \in Threads, Interrupt(t)
  PROVE  FutureInv'
<1>1. interrupts' = interrupts + 1 /\ prog' = prog /\ pending' = pending
  BY DEF Interrupt, LockInterrupted, SharedInterrupted, UpgradeInterrupted, WaitInterrupted,
         Interrupted
<1>2. interrupts' # 0
  BY <1>1, MutexAssumption DEF IInv, TypeOK
<1> QED  BY <1>1, <1>2, FutureStep DEF FutureInv

\* The loop ends early only after it has locked the mutex, or when it is locked.
LEMMA GrantLoopFuture ==
  ASSUME IInv, IInv', FutureInv, NEW t \in Threads, Grant(t)
  PROVE  FutureInv'
<1>1. prog' = prog /\ interrupts' = interrupts /\ pending' \subseteq pending
  BY DEF Grant, GrantTo
<1>2. CASE todo[t] \cap pending = {} /\ UNCHANGED <<keys, pending>> /\ GrantEnds(t)
  <2>1. pending # {} => ~CanGrant(t)
    BY <1>2 DEF CanGrant, Grant, MutexWaits
  <2>2. \A u \in Threads \ {t} : pc'[u] = pc[u] /\ todo'[u] = todo[u]
    BY <1>2 DEF GrantEnds, IInv, TypeOK
  <2>3. CASE pending = {}
    BY <1>1, <2>3 DEF FutureInv
  <2> QED  BY <1>1, <1>2, <2>1, <2>2, <2>3, FutureKept
<1>3. CASE keys' # <<>>
  BY <1>1, <1>3, FutureStep DEF FutureInv
<1>4. ASSUME NEW e, NEW k \in Fresh, NEW ks, NEW kd \in ListKinds, GrantTo(t, e, k, ks, kd)
      PROVE  keys' # <<>>
  <2>1. k \in Keys /\ kind'[k] = kd
    BY <1>4 DEF Fresh, GrantTo, SetKey, IInv, TypeOK
  <2> QED  BY <2>1, SomeKey DEF ListKinds, FreeKinds
<1>5. ~CanShare(t) => keys # <<>>
  BY DEF CanShare, ExclusiveHead
<1> QED  BY <1>2, <1>3, <1>4, <1>5 DEF Grant, ListKinds

\* wait() unlocks the mutex until its thread locks it again.
LEMMA CondWaitFuture ==
  ASSUME IInv, IInv', FutureInv, NEW t \in Threads,
         WaitWakes(t) \/ \E k \in Keys, timeout \in Timeouts : wait(t, k, timeout)
  PROVE  FutureInv'
<1>1. prog' = prog /\ pending' = pending
  BY DEF WaitWakes, wait, vars
<1>2. CASE WaitWakes(t)
  <2>1. CASE ~prog
    BY <1>1, <2>1 DEF FutureInv
  <2>2. CASE prog
    <3>1. cur[t] \in Keys /\ kind'[cur[t]] \in {"EXCLUSIVE", "PENDING"}
      BY <1>2, <2>2 DEF WaitWakes, Awake, IInv, WaitInv, FreeWaits, TypeOK
    <3>2. keys' # <<>>
      BY <3>1, SomeKey DEF FreeKinds
    <3> QED  BY <1>1, <3>2, FutureStep DEF FutureInv
  <2> QED  BY <2>1, <2>2
<1>3. CASE UNCHANGED vars
  BY <1>1, <1>3, FutureStep DEF FutureInv, vars, CanGrant
<1>4. ASSUME NEW k, NEW timeout, Sleep(t, "wait", k, timeout, asleep \ MutexSleepers)
      PROVE  FutureInv'
  <2>1. pc'[t] = "wait"
    BY <1>4 DEF Sleep, IInv, TypeOK
  <2>2. CanGrant(t)'
    BY <2>1 DEF CanGrant
  <2> QED  BY <1>1, <2>2, FutureStep DEF FutureInv
<1> QED  BY <1>2, <1>3, <1>4 DEF wait

\* The steps that only send threads to sleep or wake them, and the end of the
\* mutex, whose futures are dropped, and of the condition.
LEMMA OtherFuture ==
  ASSUME IInv, IInv', FutureInv, NEW t \in Threads,
         \/ LockWaits(t) \/ SharedWaits(t) \/ UpgradeWaits(t) \/ WaitWaits(t)
         \/ signal(t) \/ broadcast(t) \/ TimeoutWake(t) \/ disable_threads(t)
         \/ destruct_mutex(t) \/ destruct_cond(t) \/ DestructCondEnds(t)
  PROVE  FutureInv'
<1>1. CASE destruct_mutex(t)
  BY <1>1 DEF destruct_mutex, FutureInv
<1>2. CASE UNCHANGED <<keys, pending, prog, interrupts, pc, todo>>
  BY <1>2, FutureStep DEF FutureInv, CanGrant
<1>3. CASE destruct_cond(t) \/ DestructCondEnds(t)
  <2>1. ~CanGrant(t)
    BY <1>3, Idle DEF destruct_cond, DestructCondEnds, Call, Awake
  <2>2. /\ UNCHANGED <<keys, pending, prog, interrupts, todo>>
        /\ \A u \in Threads \ {t} : pc'[u] = pc[u]
    BY <1>3 DEF destruct_cond, DestructCondEnds, Resume, mutexVars, progVars, IInv, TypeOK
  <2> QED  BY <2>1, <2>2, FutureKept
<1> QED
  BY <1>1, <1>2, <1>3 DEF LockWaits, SharedWaits, UpgradeWaits, WaitWaits, SleepAgain, signal,
     broadcast, TimeoutWake, disable_threads, mutexVars, threadVars, progVars

\* Every step leaves a key, or a thread that will grant, behind a queued future.
LEMMA NextFuture == IInv /\ IInv' /\ FutureInv /\ [Next]_vars => FutureInv'
<1> SUFFICES ASSUME IInv, IInv', FutureInv, [Next]_vars
             PROVE  FutureInv'
  OBVIOUS
<1>1. ASSUME NEW t \in Threads, ProgramStep(t)
      PROVE  FutureInv'
  BY <1>1, LocksFuture, KeyFuture, ReleaseFuture, CondWaitFuture, OtherFuture DEF ProgramStep
<1>2. ASSUME NEW t \in Threads, Continue(t)
      PROVE  FutureInv'
  <2>1. LockGranted(t) \/ UpgradeGranted(t) \/ WaitRelocked(t) =>
          \E where \in KeyWaits : WaitOver(t, where)
    BY DEF LockGranted, UpgradeGranted, WaitRelocked, KeyWaits
  <2> QED  BY <1>2, <2>1, WaitOverFuture, CondWaitFuture, GrantLoopFuture, OtherFuture
           DEF Continue
<1>3. ASSUME NEW t \in Threads, Interrupt(t) \/ TimeoutWake(t)
      PROVE  FutureInv'
  BY <1>3, InterruptFuture, OtherFuture
<1>4. CASE UNCHANGED vars
  BY <1>4, FutureStep DEF FutureInv, vars, CanGrant
<1> QED  BY <1>1, <1>2, <1>3, <1>4 DEF Next

\* While no wait is interrupted, a mutex that is not locked has no pending future
\* without a thread that will grant it, or will lock and unlock the mutex.
THEOREM FuturesKept == Spec => []NoForgottenFuture
<1>1. Init => FutureInv
  BY DEF Init, FutureInv
<1>2. Spec => []FutureInv
  BY <1>1, NextFuture, Invariance, NextInv, PTL DEF Spec
<1>3. FutureInv => NoForgottenFuture
  BY DEF FutureInv, NoForgottenFuture, CanGrant
<1> QED  BY <1>2, <1>3, PTL

-----------------------------------------------------------------------------
(* No key is lost but by an interrupt.                                     *)

\* A key of the list that no call will give back.
Orphan(k) ==
  /\ kind[k] \notin FreeKinds
  /\ k \notin held \cup leaked
  /\ \A t \in Threads : cur[t] # k
Orphans == {k \in Keys : Orphan(k)}
HoldingWaits == {"upgrade", "relock", "wait"}

OrphansListed == OrphanKeys \ leaked = Orphans
OrphansFinite == IsFiniteSet(Orphans)

\* The orphans, told by the kinds of the keys instead of by the list.
LEMMA OrphanSet == IInv => OrphansListed
<1> SUFFICES ASSUME IInv
             PROVE  OrphanKeys \ leaked = Orphans
  BY DEF OrphansListed
<1>1. Listed = {k \in Keys : kind[k] \notin FreeKinds}
  <2>1. Listed \subseteq Keys
    BY DEF IInv, TypeOK, Listed
  <2> QED  BY <2>1 DEF IInv, ListInv, FreeKinds
<1> QED  BY <1>1 DEF OrphanKeys, Orphans, Orphan

\* The list is finite, and so are its orphans.
LEMMA FiniteOrphans == IInv => OrphansFinite
<1> SUFFICES ASSUME IInv
             PROVE  IsFiniteSet(Orphans)
  BY DEF OrphansFinite
<1>1. Len(keys) \in Nat /\ DOMAIN keys = 1..Len(keys)
  BY DEF IInv, TypeOK
<1>2. IsFiniteSet(1..Len(keys))
  BY <1>1, FS_Interval
<1>3. keys \in Surjection(1..Len(keys), Listed)
  <2>1. keys \in [1..Len(keys) -> Listed]
    BY <1>1 DEF Listed, IInv, TypeOK
  <2>2. \A k \in Listed : \E i \in 1..Len(keys) : keys[i] = k
    BY <1>1 DEF Listed
  <2> QED  BY <2>1, <2>2 DEF Surjection
<1>4. IsFiniteSet(Listed)
  BY <1>2, <1>3, FS_Surjection
<1>5. Orphans \subseteq Listed
  BY DEF IInv, ListInv, Orphans, Orphan, FreeKinds
<1> QED  BY <1>4, <1>5, FS_Subset

\* A step makes no orphan, or it is an interrupt and makes one.
LEMMA OrphanStep ==
  ASSUME IInv, IInv', OrphansExplained,
         \/ Orphans' \subseteq Orphans /\ interrupts' >= interrupts
         \/ interrupts' = interrupts + 1 /\ \E k \in Keys : Orphans' \subseteq Orphans \cup {k}
  PROVE  OrphansExplained'
<1>1. OrphanKeys \ leaked = Orphans /\ IsFiniteSet(Orphans)
  BY OrphanSet, FiniteOrphans DEF OrphansListed, OrphansFinite
<1>2. OrphanKeys' \ leaked' = Orphans'
  <2>1. OrphansListed'
    BY OrphanSet, PTL
  <2> QED  BY <2>1 DEF OrphansListed
<1>3. IsFiniteSet(Orphans')
  <2>1. OrphansFinite'
    BY FiniteOrphans, PTL
  <2> QED  BY <2>1 DEF OrphansFinite
<1>4. /\ Cardinality(Orphans) \in Nat /\ Cardinality(Orphans') \in Nat
      /\ interrupts \in Nat /\ interrupts' \in Nat
      /\ Cardinality(Orphans) <= interrupts
  <2>1. Cardinality(Orphans) \in Nat /\ Cardinality(Orphans') \in Nat
    BY <1>1, <1>3, FS_CardinalityType
  <2>2. interrupts \in Nat /\ interrupts' \in Nat
    BY MutexAssumption DEF IInv, TypeOK
  <2>3. Cardinality(Orphans) <= interrupts
    BY <1>1 DEF OrphansExplained
  <2> QED  BY <2>1, <2>2, <2>3
<1>5. CASE Orphans' \subseteq Orphans /\ interrupts' >= interrupts
  <2>1. Cardinality(Orphans') <= Cardinality(Orphans)
    BY <1>1, <1>5, FS_Subset
  <2> QED  BY <1>2, <1>4, <1>5, <2>1 DEF OrphansExplained
<1>6. ASSUME interrupts' = interrupts + 1,
             NEW k \in Keys, Orphans' \subseteq Orphans \cup {k}
      PROVE  OrphansExplained'
  <2>1. /\ IsFiniteSet(Orphans \cup {k})
        /\ Cardinality(Orphans \cup {k}) <= Cardinality(Orphans) + 1
    BY <1>1, <1>4, FS_AddElement
  <2>2. Cardinality(Orphans') <= Cardinality(Orphans \cup {k})
    BY <1>6, <2>1, FS_Subset
  <2>3. Cardinality(Orphans \cup {k}) \in Nat
    BY <2>1, FS_CardinalityType
  <2> QED  BY <1>2, <1>4, <1>6, <2>1, <2>2, <2>3 DEF OrphansExplained
<1> QED  BY <1>5, <1>6

\* What a step that deals with one key k has to see to: k is free, or somebody
\* has it.
LEMMA KeyCared ==
  ASSUME IInv, HeldInv, NEW t \in Threads, NEW k \in Keys, leaked \subseteq leaked',
         \A l \in Keys \ {k} : kind'[l] = kind[l] /\ (l \in held <=> l \in held'),
         \A u \in Threads \ {t} : pc'[u] = pc[u] /\ cur'[u] = cur[u],
         k \in held => k \in held' \/ \A u \in Threads \ {t} : cur[u] # k,
         cur[t] \in {k, NoKey} \/ cur'[t] = cur[t],
         pc'[t] \in HoldingWaits => cur'[t] \in held',
         kind'[k] \in FreeKinds \/ k \in held' \cup leaked' \/ cur'[t] = k
  PROVE  HeldInv' /\ Orphans' \subseteq Orphans
<1>1. HeldInv'
  <2> SUFFICES ASSUME NEW u \in Threads, pc'[u] \in HoldingWaits
               PROVE  cur'[u] \in held'
    BY DEF HeldInv, HoldingWaits
  <2>1. CASE u # t
    <3>1. cur[u] \in held /\ cur[u] \in Keys
      BY <2>1 DEF HeldInv, HoldingWaits, IInv, TypeOK
    <3> QED  BY <2>1, <3>1
  <2> QED  BY <2>1
<1>2. ASSUME NEW l \in Keys, Orphan(l)'
      PROVE  Orphan(l)
  <2>1. l # k
    BY <1>2 DEF Orphan
  <2>2. \A u \in Threads : cur'[u] # l
    BY <1>2 DEF Orphan
  <2>3. \A u \in Threads : cur[u] # l
    BY <2>1, <2>2, MutexAssumption
  <2> QED  BY <1>2, <2>1, <2>3 DEF Orphan
<1> QED  BY <1>1, <1>2 DEF Orphans

\* What a step that deals with no key has to see to.
LEMMA NoKeyCared ==
  ASSUME IInv, HeldInv, UNCHANGED <<kind, held, cur>>, leaked \subseteq leaked',
         \A u \in Threads : pc'[u] \in HoldingWaits => pc[u] \in HoldingWaits
  PROVE  HeldInv' /\ Orphans' \subseteq Orphans
<1>1. HeldInv'
  BY DEF HeldInv, HoldingWaits
<1>2. \A l \in Keys : Orphan(l)' => Orphan(l)
  BY DEF Orphan
<1> QED  BY <1>1, <1>2 DEF Orphans

Cared == HeldInv' /\ Orphans' \subseteq Orphans /\ interrupts' >= interrupts

\* interrupts is a number.
LEMMA SameInterrupts ==
  ASSUME IInv, interrupts' = interrupts
  PROVE  interrupts' >= interrupts
BY MutexAssumption DEF IInv, TypeOK

\* A thread that is not inside a call that waits has no current key.
LEMMA AtRest ==
  ASSUME IInv, NEW t \in Threads, pc[t] \notin KeyWaits \cup FreeWaits
  PROVE  cur[t] = NoKey
BY DEF IInv, WaitInv

\* A key made at once is held by the program.
LEMMA AcquireCared ==
  ASSUME IInv, HeldInv, NEW t \in Threads, NEW k \in Fresh, NEW ks, NEW kd,
         Acquire(t, k, ks, kd)
  PROVE  Cared
<1>1. k \in Keys
  BY DEF Fresh
<1>2. /\ kind' = [kind EXCEPT ![k] = kd] /\ held' = held \cup {k}
      /\ UNCHANGED <<pc, cur, leaked, interrupts>>
  BY DEF Acquire, SetKey, threadVars
<1>3. \A l \in Keys \ {k} : kind'[l] = kind[l] /\ (l \in held <=> l \in held')
  BY <1>1, <1>2 DEF IInv, TypeOK
<1>4. pc'[t] \in HoldingWaits => cur'[t] \in held'
  BY <1>2 DEF HeldInv, HoldingWaits
<1> QED  BY <1>1, <1>2, <1>3, <1>4, KeyCared, SameInterrupts DEF Cared

\* lock() and shared_lock(), whichever way they go, abandon no key.
LEMMA LockCared ==
  ASSUME IInv, HeldInv, NEW t \in Threads, NEW type, NEW timeout,
         lock(t, type, timeout) \/ shared_lock(t, type, timeout)
  PROVE  Cared
<1>1. pc[t] = "run" /\ cur[t] = NoKey
  BY AtRest DEF lock, shared_lock, Call, KeyWaits, FreeWaits
<1>2. CASE UNCHANGED <<kind, held, pc, cur, interrupts>> /\ leaked \subseteq leaked'
  BY <1>2, NoKeyCared, SameInterrupts DEF Cared
<1>3. CASE ExitHook(t, num_waiting) /\ UNCHANGED <<keys, kind, owner, held>>
  <2>1. /\ cur' = cur /\ interrupts' = interrupts /\ leaked' = leaked
        /\ \A u \in Threads : pc'[u] = pc[u] \/ pc'[u] \in {"run", "grant"}
    BY <1>1, <1>3 DEF ExitHook, IInv, TypeOK
  <2>2. \A u \in Threads : pc'[u] \in HoldingWaits => pc[u] \in HoldingWaits
    BY <2>1 DEF HoldingWaits
  <2> QED  BY <1>3, <2>1, <2>2, NoKeyCared, SameInterrupts DEF Cared
<1>4. ASSUME NEW k \in Fresh, NEW kd, SetKey(k, t, kd), UNCHANGED progVars,
             NEW where \in {"lock", "shared_lock"}, Sleep(t, where, k, timeout, asleep)
      PROVE  Cared
  <2>1. k \in Keys
    BY DEF Fresh
  <2>2. /\ kind' = [kind EXCEPT ![k] = kd] /\ held' = held
        /\ leaked' = leaked /\ interrupts' = interrupts
        /\ pc' = [pc EXCEPT ![t] = where] /\ cur' = [cur EXCEPT ![t] = k]
    BY <1>4 DEF SetKey, Sleep, progVars
  <2>3. \A l \in Keys \ {k} : kind'[l] = kind[l]
    BY <2>1, <2>2 DEF IInv, TypeOK
  <2>4. /\ pc'[t] \notin HoldingWaits /\ cur'[t] = k
        /\ \A u \in Threads \ {t} : pc'[u] = pc[u] /\ cur'[u] = cur[u]
    BY <2>2 DEF IInv, TypeOK, HoldingWaits
  <2> QED  BY <1>1, <2>1, <2>2, <2>3, <2>4, KeyCared, SameInterrupts DEF Cared
<1>5. CASE lock(t, type, timeout)
  BY <1>2, <1>3, <1>4, <1>5, AcquireCared DEF lock, vars
<1>6. CASE shared_lock(t, type, timeout)
  BY <1>2, <1>4, <1>6, AcquireCared DEF shared_lock, vars, mutexVars, threadVars
<1> QED  BY <1>5, <1>6

\* The tries and the futures abandon no key.
LEMMA TryCared ==
  ASSUME IInv, HeldInv, NEW t \in Threads,
         \/ \E type \in LockTypes : trylock(t, type) \/ try_shared_lock(t, type)
         \/ \E p \in Promises : future_lock(t, p) \/ future_shared_lock(t, p)
  PROVE  Cared
<1>1. CASE UNCHANGED <<kind, held, pc, cur, interrupts, leaked>>
  BY <1>1, NoKeyCared, SameInterrupts DEF Cared
<1>2. CASE \E type \in LockTypes : trylock(t, type) \/ try_shared_lock(t, type)
  BY <1>1, <1>2, AcquireCared DEF trylock, try_shared_lock, vars
<1>3. CASE \E p \in Promises : future_lock(t, p) \/ future_shared_lock(t, p)
  BY <1>1, <1>3, AcquireCared DEF future_lock, future_shared_lock, Enqueue, progVars
<1> QED  BY <1>2, <1>3

\* downgrade(), upgrade(), try_upgrade() and wait() have a key.
LEMMA KeyOpCared ==
  ASSUME IInv, HeldInv, NEW t \in Threads, NEW k \in Keys,
         \/ downgrade(t, k) \/ try_upgrade(t, k)
         \/ \E timeout \in Timeouts : upgrade(t, k, timeout) \/ wait(t, k, timeout)
  PROVE  Cared
<1>1. pc[t] = "run" /\ cur[t] = NoKey /\ k \in held
  BY AtRest DEF downgrade, try_upgrade, upgrade, wait, Call, KeyWaits, FreeWaits
<1>2. held' = held /\ leaked' = leaked /\ interrupts' = interrupts
  BY DEF downgrade, try_upgrade, upgrade, wait, vars, progVars
<1>3. \A l \in Keys \ {k} : kind'[l] = kind[l]
  BY DEF downgrade, try_upgrade, upgrade, wait, Rekind, vars, mutexVars, IInv, TypeOK
<1>4. \/ UNCHANGED <<pc, cur>>
      \/ \E where \in {"upgrade", "wait"} :
           pc' = [pc EXCEPT ![t] = where] /\ cur' = [cur EXCEPT ![t] = k]
  BY DEF downgrade, try_upgrade, upgrade, wait, Sleep, vars, threadVars
<1>5. /\ \A u \in Threads \ {t} : pc'[u] = pc[u] /\ cur'[u] = cur[u]
      /\ pc'[t] \in HoldingWaits => cur'[t] \in held'
  BY <1>1, <1>2, <1>4 DEF IInv, TypeOK, HoldingWaits
<1> QED  BY <1>1, <1>2, <1>3, <1>5, KeyCared, SameInterrupts DEF Cared

\* A key the program drops leaves the list, unless shared_lock() leaked a
\* reference to it.
LEMMA ReleaseCared ==
  ASSUME IInv, HeldInv, NEW t \in Threads, NEW k \in Keys, Release(t, k) \/ DropLeaked(t, k)
  PROVE  Cared
<1>1. /\ pc[t] = "run" /\ cur[t] = NoKey /\ held' = held \ {k}
      /\ \A u \in Threads : cur[u] # k
  BY AtRest DEF Release, DropLeaked, KeyWaits, FreeWaits
<1>2. leaked' = leaked /\ interrupts' = interrupts
  BY DEF Release, DropLeaked, ExitHook
<1>3. \A l \in Keys \ {k} : kind'[l] = kind[l]
  BY DEF Release, DropLeaked, SetKey, mutexVars, IInv, TypeOK
<1>4. kind'[k] \in FreeKinds \/ k \in leaked'
  BY <1>2 DEF Release, DropLeaked, SetKey, FreeKinds, IInv, TypeOK
<1>5. /\ \A u \in Threads \ {t} : pc'[u] = pc[u] /\ cur'[u] = cur[u]
      /\ pc'[t] \notin HoldingWaits
  <2>1. CASE ExitHook(t, num_waiting)
    BY <2>1 DEF ExitHook, IInv, TypeOK, HoldingWaits
  <2>2. CASE UNCHANGED <<pc, cur>>
    BY <1>1, <2>2 DEF HoldingWaits
  <2> QED  BY <2>1, <2>2 DEF Release, DropLeaked, threadVars
<1> QED  BY <1>1, <1>2, <1>3, <1>4, <1>5, KeyCared, SameInterrupts DEF Cared

\* The end of a wait: the key is given to the program, which may have had it
\* before, or is destructed.
LEMMA WaitEndCared ==
  ASSUME IInv, HeldInv, NEW t \in Threads,
         \/ \E where \in KeyWaits : WaitOver(t, where)
         \/ SharedGranted(t) \/ SharedTimedOut(t) \/ SharedInterrupted(t)
         \/ LockTimedOut(t) \/ UpgradeTimedOut(t)
         \/ UpgradeInterrupted(t) \/ WaitInterrupted(t) \/ WaitWakes(t)
  PROVE  Cared
<1>1. pc[t] \in KeyWaits \cup FreeWaits
  BY DEF WaitOver, SharedGranted, SharedTimedOut, SharedInterrupted, LockTimedOut,
         UpgradeTimedOut, UpgradeInterrupted, WaitInterrupted, WaitWakes, Awake,
         KeyWaits, FreeWaits
<1>2. PICK k \in Keys : k = cur[t]
  BY <1>1 DEF IInv, WaitInv
<1>3. /\ \A l \in Keys \ {k} : kind'[l] = kind[l]
      /\ leaked' = leaked
  BY <1>2 DEF WaitOver, SharedGranted, SharedTimedOut, SharedInterrupted, LockTimedOut,
         UpgradeTimedOut, UpgradeInterrupted, WaitInterrupted, WaitWakes, Interrupted,
         SetKey, Rekind, ExitHook, progVars, IInv, TypeOK
<1>4. held' \in {held, held \cup {k}}
  BY <1>2 DEF WaitOver, SharedGranted, SharedTimedOut, SharedInterrupted, LockTimedOut,
         UpgradeTimedOut, UpgradeInterrupted, WaitInterrupted, WaitWakes, Interrupted,
         progVars
<1>5. kind'[k] \in FreeKinds \/ k \in held'
  <2>1. CASE (\E where \in KeyWaits : WaitOver(t, where)) \/ SharedGranted(t)
    BY <1>2, <2>1 DEF WaitOver, SharedGranted
  <2>2. CASE SharedTimedOut(t) \/ SharedInterrupted(t) \/ LockTimedOut(t)
    BY <1>2, <2>2 DEF SharedTimedOut, SharedInterrupted, LockTimedOut, SetKey, FreeKinds,
       IInv, TypeOK
  <2>3. CASE UpgradeTimedOut(t) \/ UpgradeInterrupted(t) \/ WaitInterrupted(t) \/ WaitWakes(t)
    BY <1>2, <1>4, <2>3 DEF UpgradeTimedOut, UpgradeInterrupted, WaitInterrupted, WaitWakes,
       Awake, HeldInv
  <2> QED  BY <2>1, <2>2, <2>3
<1>6. \/ Resume(t) \/ ExitHook(t, num_waiting - 1)
      \/ pc[t] = "wait" /\ pc' = [pc EXCEPT ![t] = "relock"] /\ UNCHANGED cur
  BY DEF WaitOver, SharedGranted, SharedTimedOut, SharedInterrupted, LockTimedOut,
         UpgradeTimedOut, UpgradeInterrupted, WaitInterrupted, WaitWakes, Interrupted, Awake
<1>7. \A u \in Threads \ {t} : pc'[u] = pc[u] /\ cur'[u] = cur[u]
  BY <1>6 DEF Resume, ExitHook, IInv, TypeOK
<1>8. pc'[t] \in HoldingWaits => cur'[t] \in held'
  <2>1. CASE Resume(t) \/ ExitHook(t, num_waiting - 1)
    BY <2>1 DEF Resume, ExitHook, IInv, TypeOK, HoldingWaits
  <2>2. CASE pc[t] = "wait" /\ UNCHANGED cur
    BY <1>4, <2>2 DEF HeldInv
  <2> QED  BY <1>6, <2>1, <2>2
<1>9. interrupts' >= interrupts
  <2>1. interrupts' \in {interrupts, interrupts + 1}
    BY DEF WaitOver, SharedGranted, SharedTimedOut, SharedInterrupted, LockTimedOut,
           UpgradeTimedOut, UpgradeInterrupted, WaitInterrupted, WaitWakes, Interrupted,
           ExitHook, progVars
  <2> QED  BY <2>1, MutexAssumption DEF IInv, TypeOK
<1> QED  BY <1>2, <1>3, <1>4, <1>5, <1>7, <1>8, <1>9, KeyCared DEF Cared

\* The exit hook gives the keys it makes to the promises it resolves.
LEMMA GrantLoopCared ==
  ASSUME IInv, HeldInv, NEW t \in Threads, Grant(t)
  PROVE  Cared
<1>1. /\ pc[t] = "grant" /\ cur[t] = NoKey
      /\ UNCHANGED <<cur, leaked, interrupts>>
      /\ \A u \in Threads \ {t} : pc'[u] = pc[u]
      /\ pc'[t] \notin HoldingWaits
  BY AtRest DEF Grant, GrantEnds, GrantNext, KeyWaits, FreeWaits, IInv, TypeOK, HoldingWaits
<1>2. CASE UNCHANGED <<kind, held>>
  BY <1>1, <1>2, NoKeyCared, SameInterrupts DEF Cared
<1>3. ASSUME NEW e, NEW k \in Fresh, NEW ks, NEW kd, GrantTo(t, e, k, ks, kd)
      PROVE  Cared
  <2>1. k \in Keys /\ held' = held \cup {k}
    BY <1>3 DEF Fresh, GrantTo
  <2>2. \A l \in Keys \ {k} : kind'[l] = kind[l]
    BY <1>3, <2>1 DEF GrantTo, SetKey, IInv, TypeOK
  <2> QED  BY <1>1, <2>1, <2>2, KeyCared, SameInterrupts DEF Cared
<1> QED  BY <1>2, <1>3 DEF Grant

\* The remaining steps change no key.
LEMMA OtherCared ==
  ASSUME IInv, HeldInv, NEW t \in Threads,
         \/ LockWaits(t) \/ SharedWaits(t) \/ UpgradeWaits(t) \/ WaitWaits(t)
         \/ signal(t) \/ broadcast(t) \/ TimeoutWake(t) \/ disable_threads(t)
         \/ destruct_mutex(t) \/ destruct_cond(t) \/ DestructCondEnds(t)
  PROVE  Cared
<1>1. UNCHANGED <<kind, held, leaked, interrupts>>
  BY DEF LockWaits, SharedWaits, UpgradeWaits, WaitWaits, SleepAgain, signal, broadcast,
         TimeoutWake, disable_threads, destruct_mutex, destruct_cond, DestructCondEnds,
         mutexVars, progVars
<1>2. CASE UNCHANGED <<pc, cur>>
  BY <1>1, <1>2, NoKeyCared, SameInterrupts DEF Cared
<1>3. CASE destruct_cond(t) \/ DestructCondEnds(t)
  <2>1. pc[t] \in {"run", "exit_cond"} /\ cur[t] = NoKey
    BY <1>3, AtRest DEF destruct_cond, DestructCondEnds, Call, Awake, KeyWaits, FreeWaits
  <2>2. cur' = cur /\ \A u \in Threads : pc'[u] = pc[u] \/ pc'[u] \in {"run", "exit_cond"}
    BY <1>3, <2>1 DEF destruct_cond, DestructCondEnds, Resume, IInv, TypeOK
  <2>3. \A u \in Threads : pc'[u] \in HoldingWaits => pc[u] \in HoldingWaits
    BY <2>2 DEF HoldingWaits
  <2> QED  BY <1>1, <2>2, <2>3, NoKeyCared, SameInterrupts DEF Cared
<1> QED
  BY <1>2, <1>3 DEF LockWaits, SharedWaits, UpgradeWaits, WaitWaits, SleepAgain, signal,
     broadcast, TimeoutWake, disable_threads, destruct_mutex, mutexVars, threadVars

\* An interrupted lock() loses its key.
LEMMA LockInterruptedOrphan ==
  ASSUME IInv, HeldInv, NEW t \in Threads, LockInterrupted(t)
  PROVE  /\ HeldInv' /\ interrupts' = interrupts + 1
         /\ \E k \in Keys : Orphans' \subseteq Orphans \cup {k}
<1>1. /\ pc[t] = "lock" /\ UNCHANGED <<kind, held, leaked>> /\ interrupts' = interrupts + 1
      /\ pc' = [pc EXCEPT ![t] = "run"] /\ cur' = [cur EXCEPT ![t] = NoKey]
  BY DEF LockInterrupted, Interrupted, Awake, Resume
<1>2. /\ \A u \in Threads \ {t} : pc'[u] = pc[u] /\ cur'[u] = cur[u]
      /\ pc'[t] = "run"
  BY <1>1 DEF IInv, TypeOK
<1>3. HeldInv'
  BY <1>1, <1>2 DEF HeldInv
<1>4. cur[t] \in Keys
  BY <1>1 DEF IInv, WaitInv, KeyWaits
<1>5. \A l \in Keys \ {cur[t]} : Orphan(l)' => Orphan(l)
  BY <1>1, <1>2 DEF Orphan
<1> QED  BY <1>1, <1>3, <1>4, <1>5 DEF Orphans

OrphanInv == HeldInv /\ OrphansExplained

\* Every step keeps the orphans within the number of interrupted waits.
LEMMA NextOrphan == IInv /\ IInv' /\ OrphanInv /\ [Next]_vars => OrphanInv'
<1> SUFFICES ASSUME IInv, IInv', OrphanInv, [Next]_vars
             PROVE  OrphanInv'
  OBVIOUS
<1> HeldInv /\ OrphansExplained
  BY DEF OrphanInv
<1>1. Cared => OrphanInv'
  BY OrphanStep DEF Cared, OrphanInv
<1>2. ASSUME NEW t \in Threads, ProgramStep(t)
      PROVE  Cared
  BY <1>2, LockCared, TryCared, KeyOpCared, ReleaseCared, OtherCared DEF ProgramStep
<1>3. ASSUME NEW t \in Threads, Continue(t)
      PROVE  Cared
  <2>1. LockGranted(t) \/ UpgradeGranted(t) \/ WaitRelocked(t) =>
          \E where \in KeyWaits : WaitOver(t, where)
    BY DEF LockGranted, UpgradeGranted, WaitRelocked, KeyWaits
  <2> QED  BY <1>3, <2>1, WaitEndCared, GrantLoopCared, OtherCared DEF Continue
<1>4. ASSUME NEW t \in Threads, LockInterrupted(t)
      PROVE  OrphanInv'
  BY <1>4, LockInterruptedOrphan, OrphanStep DEF OrphanInv
<1>5. ASSUME NEW t \in Threads, Interrupt(t) \/ TimeoutWake(t), ~LockInterrupted(t)
      PROVE  Cared
  BY <1>5, WaitEndCared, OtherCared DEF Interrupt
<1>6. CASE UNCHANGED vars
  BY <1>6, NoKeyCared, SameInterrupts, <1>1 DEF Cared, vars
<1> QED  BY <1>1, <1>2, <1>3, <1>4, <1>5, <1>6 DEF Next

\* A key that nobody can give up any more is one that a recursive shared_lock()
\* leaked a reference to, or there was an interrupt for it.
THEOREM KeysNotLost == Spec => []OrphansExplained
<1>1. Init => OrphanInv
  <2> SUFFICES ASSUME Init
               PROVE  OrphanInv
    OBVIOUS
  <2>1. OrphanKeys \ leaked = {}
    BY DEF Init, OrphanKeys, Listed
  <2>2. Cardinality(OrphanKeys \ leaked) = 0
    BY <2>1, FS_EmptySet
  <2> QED  BY <2>2 DEF Init, OrphanInv, HeldInv, OrphansExplained
<1>2. Spec => []OrphanInv
  BY <1>1, NextOrphan, Invariance, NextInv, PTL DEF Spec
<1>3. OrphanInv => OrphansExplained
  BY DEF OrphanInv
<1> QED  BY <1>2, <1>3, PTL

=============================================================================
