-------------------------- MODULE ThreadFifo_proofs --------------------------
(***************************************************************************)
(* Theorems about Thread.Fifo, for every set of threads and values, every  *)
(* choice of methods and every length of the buffer.                       *)
(***************************************************************************)
EXTENDS ThreadFifo, SequenceTheorems, TLAPS

-----------------------------------------------------------------------------
(* The ring.                                                               *)

\* The remainder of an index that has passed the end of the buffer at most
\* once.
LEMMA Wrap ==
  ASSUME NEW a \in Nat, a < 2 * Length
  PROVE  a % Length = IF a < Length THEN a ELSE a - Length
<1> Length \in Nat \ {0}
  BY FifoAssumption
<1>1. CASE a < Length
  BY <1>1
<1>2. CASE ~(a < Length)
  <2>1. a \in Length..2 * Length - 1
    BY <1>2
  <2>2. a % Length = a - Length
    BY <2>1
  <2> QED  BY <1>2, <2>2
<1> QED  BY <1>1, <1>2

\* The slot of the value number i + 1, or of the next one to come.
Place(i) == IF ptr + i < Length THEN ptr + i ELSE ptr + i - Length

\* The fields that the methods compute with.
FifoType ==
  /\ buffer \in [Slots -> Values \cup {Zero}]
  /\ ptr \in Slots
  /\ num \in 0..Length

\* The slot is in the buffer, and no two of them are the same.
LEMMA PlaceFacts ==
  ASSUME FifoType
  PROVE  /\ \A i \in 0..Length - 1 : (ptr + i) % Length = Place(i) /\ Place(i) \in Slots
         /\ \A i, j \in 0..Length - 1 : Place(i) = Place(j) => i = j
         /\ Place(0) = ptr
<1> Length \in Nat \ {0} /\ ptr \in Nat /\ ptr < Length
  BY FifoAssumption DEF FifoType, Slots
<1>1. ASSUME NEW i \in 0..Length - 1
      PROVE  (ptr + i) % Length = Place(i) /\ Place(i) \in Slots
  <2>1. ptr + i \in Nat /\ ptr + i < 2 * Length
    OBVIOUS
  <2>2. (ptr + i) % Length = Place(i)
    BY <2>1, Wrap DEF Place
  <2> QED  BY <2>2 DEF Place, Slots
<1>2. ASSUME NEW i \in 0..Length - 1, NEW j \in 0..Length - 1, Place(i) = Place(j)
      PROVE  i = j
  BY <1>2 DEF Place
<1>3. Place(0) = ptr
  BY DEF Place
<1> QED  BY <1>1, <1>2, <1>3

\* The contents are a sequence of num values.
LEMMA ContentsFacts ==
  ASSUME FifoType
  PROVE  /\ Contents \in Seq(Values \cup {Zero})
         /\ Len(Contents) = num
         /\ \A i \in 1..num : Contents[i] = buffer[Place(i - 1)]
         /\ Contents = <<>> <=> num = 0
<1>1. num \in Nat /\ num <= Length /\ Length \in Nat
  BY FifoAssumption DEF FifoType
<1>2. \A i \in 1..num : i - 1 \in 0..Length - 1
  BY <1>1
<1>3. \A i \in 1..num : At(i - 1) = buffer[Place(i - 1)] /\ Place(i - 1) \in Slots
  BY <1>2, PlaceFacts DEF At
<1>4. Contents = [i \in 1..num |-> At(i - 1)]
  BY DEF Contents
<1>5. \A i \in 1..num : At(i - 1) \in Values \cup {Zero}
  BY <1>3 DEF FifoType
<1>6. Contents \in Seq(Values \cup {Zero}) /\ Len(Contents) = num
  BY <1>1, <1>4, <1>5, IsASeq
<1> QED  BY <1>3, <1>4, <1>6, <1>1, EmptySeq

\* The first value leaves the fifo.
LEMMA TakeFirstFacts ==
  ASSUME FifoType, num # 0,
         buffer' = [buffer EXCEPT ![ptr] = Zero],
         ptr' = (ptr + 1) % Length,
         num' = num - 1
  PROVE  /\ FifoType'
         /\ Contents # <<>> /\ Head(Contents) = buffer[ptr]
         /\ Contents' = Tail(Contents)
         /\ buffer[ptr] \in Values \cup {Zero}
<1>1. /\ Length \in Nat \ {0} /\ ptr \in Nat /\ ptr < Length /\ ptr \in Slots
      /\ num \in Nat /\ num <= Length /\ num > 0
  BY FifoAssumption DEF FifoType, Slots
<1>2. ptr' = IF ptr + 1 < Length THEN ptr + 1 ELSE ptr + 1 - Length
  BY <1>1, Wrap
<1>3. ptr' \in Slots /\ num' \in 0..Length
  BY <1>1, <1>2 DEF Slots
<1>4. /\ buffer' \in [Slots -> Values \cup {Zero}]
      /\ \A p \in Slots : p # ptr => buffer'[p] = buffer[p]
      /\ buffer[ptr] \in Values \cup {Zero}
  BY <1>1 DEF FifoType
<1>5. FifoType'
  BY <1>3, <1>4 DEF FifoType
<1>6. /\ Contents \in Seq(Values \cup {Zero}) /\ Len(Contents) = num
      /\ \A i \in 1..num : Contents[i] = buffer[Place(i - 1)]
      /\ Contents # <<>>
  BY <1>1, ContentsFacts
<1>7. /\ Contents' \in Seq(Values \cup {Zero}) /\ Len(Contents') = num - 1
      /\ \A i \in 1..num - 1 : Contents'[i] = buffer'[Place(i - 1)']
  <2>1. (FifoType => /\ Contents \in Seq(Values \cup {Zero}) /\ Len(Contents) = num
                     /\ \A i \in 1..num : Contents[i] = buffer[Place(i - 1)])'
    BY ContentsFacts, PTL
  <2> QED  BY <1>5, <2>1
<1>8. \A i \in 1..num - 1 : Place(i - 1)' = Place(i) /\ Place(i) \in Slots /\ Place(i) # ptr
  <2> SUFFICES ASSUME NEW i \in 1..num - 1
               PROVE  Place(i - 1)' = Place(i) /\ Place(i) \in Slots /\ Place(i) # ptr
    OBVIOUS
  <2>1. i \in 0..Length - 1 /\ 0 \in 0..Length - 1 /\ i # 0
    BY <1>1
  <2>2. Place(i) \in Slots /\ Place(i) # ptr
    BY <2>1, PlaceFacts
  <2>3. Place(i - 1)' = IF ptr' + (i - 1) < Length THEN ptr' + (i - 1) ELSE ptr' + (i - 1) - Length
    BY DEF Place
  <2>4. Place(i - 1)' = Place(i)
    BY <1>1, <1>2, <2>1, <2>3 DEF Place
  <2> QED  BY <2>2, <2>4
<1>9. \A i \in 1..num - 1 : Contents'[i] = Contents[i + 1]
  <2> TAKE i \in 1..num - 1
  <2>1. Contents'[i] = buffer[Place(i)]
    BY <1>4, <1>7, <1>8
  <2>2. i + 1 \in 1..num /\ (i + 1) - 1 = i
    BY <1>1
  <2>3. Contents[i + 1] = buffer[Place((i + 1) - 1)]
    BY <1>6, <2>2
  <2> QED  BY <2>1, <2>2, <2>3
<1>10. /\ Tail(Contents) \in Seq(Values \cup {Zero}) /\ Len(Tail(Contents)) = num - 1
       /\ \A i \in 1..num - 1 : Tail(Contents)[i] = Contents[i + 1]
  BY <1>1, <1>6, HeadTailProperties
<1>11. Contents' = Tail(Contents)
  BY <1>1, <1>7, <1>9, <1>10, SeqEqual
<1>12. Head(Contents) = buffer[ptr]
  <2>1. Head(Contents) = Contents[1] /\ 1 \in 1..num /\ 1 - 1 = 0
    BY <1>1, <1>6
  <2>2. Contents[1] = buffer[Place(1 - 1)]
    BY <1>6, <2>1
  <2> QED  BY <2>1, <2>2, PlaceFacts
<1> QED  BY <1>4, <1>5, <1>6, <1>11, <1>12

\* A value comes last.
LEMMA PutFacts ==
  ASSUME FifoType, num # Length, NEW v \in Values \cup {Zero},
         buffer' = [buffer EXCEPT ![(ptr + num) % Length] = v],
         ptr' = ptr, num' = num + 1
  PROVE  FifoType' /\ Contents' = Append(Contents, v)
<1>1. /\ Length \in Nat \ {0} /\ num \in Nat /\ num < Length /\ num \in 0..Length - 1
  BY FifoAssumption DEF FifoType, Slots
<1>2. (ptr + num) % Length = Place(num) /\ Place(num) \in Slots
  BY <1>1, PlaceFacts
<1>3. /\ buffer' \in [Slots -> Values \cup {Zero}] /\ buffer'[Place(num)] = v
      /\ \A p \in Slots : p # Place(num) => buffer'[p] = buffer[p]
  BY <1>2 DEF FifoType
<1>4. FifoType'
  BY <1>1, <1>3 DEF FifoType
<1>5. /\ Contents \in Seq(Values \cup {Zero}) /\ Len(Contents) = num
      /\ \A i \in 1..num : Contents[i] = buffer[Place(i - 1)]
  BY ContentsFacts
<1>6. /\ Contents' \in Seq(Values \cup {Zero}) /\ Len(Contents') = num + 1
      /\ \A i \in 1..num + 1 : Contents'[i] = buffer'[Place(i - 1)']
  <2>1. (FifoType => /\ Contents \in Seq(Values \cup {Zero}) /\ Len(Contents) = num
                     /\ \A i \in 1..num : Contents[i] = buffer[Place(i - 1)])'
    BY ContentsFacts, PTL
  <2> QED  BY <1>4, <2>1
<1>7. \A i \in 1..num + 1 : Place(i - 1)' = Place(i - 1)
  BY DEF Place
<1>8. /\ Append(Contents, v) \in Seq(Values \cup {Zero})
      /\ Len(Append(Contents, v)) = num + 1
      /\ Append(Contents, v)[num + 1] = v
      /\ \A i \in 1..num : Append(Contents, v)[i] = Contents[i]
  BY <1>1, <1>5
<1>9. \A i \in 1..num + 1 : Contents'[i] = Append(Contents, v)[i]
  <2> TAKE i \in 1..num + 1
  <2>1. Contents'[i] = buffer'[Place(i - 1)]
    BY <1>6, <1>7
  <2>2. CASE i = num + 1
    <3>1. i - 1 = num
      BY <1>1, <2>2
    <3> QED  BY <1>3, <1>8, <2>1, <2>2, <3>1
  <2>3. CASE i \in 1..num
    <3>1. i - 1 \in 0..Length - 1 /\ i - 1 # num
      BY <1>1, <2>3
    <3>2. Place(i - 1) \in Slots /\ Place(i - 1) # Place(num)
      BY <1>1, <3>1, PlaceFacts
    <3>3. Contents'[i] = Contents[i]
      BY <1>3, <1>5, <2>1, <2>3, <3>2
    <3> QED  BY <1>8, <2>3, <3>3
  <2>4. i = num + 1 \/ i \in 1..num
    BY <1>1
  <2> QED  BY <2>2, <2>3, <2>4
<1>10. Contents' = Append(Contents, v)
  BY <1>1, <1>6, <1>8, <1>9, SeqEqual
<1> QED  BY <1>4, <1>10

\* A slice is a function of its length.
LEMMA SliceIs ==
  ASSUME NEW a \in Int, NEW b \in Int, NEW n \in Nat,
         (IF b < a THEN 0 ELSE b - a + 1) = n
  PROVE  Slice(a, b) = [i \in 1..n |-> buffer[a + i - 1]]
BY DEF Slice

\* What read_all_unlocked() puts together from one or two slices is the
\* contents, also when the values end at the end of the buffer.
LEMMA AllValuesFacts ==
  ASSUME FifoType, num > 1
  PROVE  AllValues = Contents
<1>1. /\ Length \in Nat \ {0} /\ ptr \in Nat /\ ptr < Length
      /\ num \in Nat /\ num <= Length
  BY FifoAssumption DEF FifoType, Slots
<1>2. /\ Contents \in Seq(Values \cup {Zero}) /\ Len(Contents) = num
      /\ \A i \in 1..num : Contents[i] = buffer[Place(i - 1)]
  BY ContentsFacts
<1>3. CASE ptr + num < Length
  <2>1. AllValues = Slice(ptr, ptr + num - 1)
    BY <1>3 DEF AllValues
  <2>2. (IF ptr + num - 1 < ptr THEN 0 ELSE ptr + num - 1 - ptr + 1) = num
    BY <1>1
  <2>3. AllValues = [i \in 1..num |-> buffer[ptr + i - 1]]
    <3>1. Slice(ptr, ptr + num - 1) = [i \in 1..num |-> buffer[ptr + i - 1]]
      BY <1>1, <2>2, SliceIs
    <3> QED  BY <2>1, <3>1
  <2>4. \A i \in 1..num : Place(i - 1) = ptr + i - 1
    BY <1>1, <1>3 DEF Place
  <2>5. \A i \in 1..num : AllValues[i] = Contents[i]
    BY <1>2, <2>3, <2>4
  <2>6. Contents = [i \in 1..num |-> Contents[i]]
    BY <1>2
  <2> QED  BY <2>3, <2>5, <2>6
<1>4. CASE ~(ptr + num < Length)
  <2> DEFINE m == Length - ptr
             k == num - m
             s1 == Slice(ptr, Length - 1)
             s2 == Slice(0, num - (Length - ptr) - 1)
  <2>0. m \in Nat \ {0} /\ k \in Nat /\ m + k = num /\ m <= num
    BY <1>1, <1>4
  <2>1. AllValues = s1 \o s2
    BY <1>4 DEF AllValues
  <2>2. s1 = [i \in 1..m |-> buffer[ptr + i - 1]]
    <3>1. (IF Length - 1 < ptr THEN 0 ELSE Length - 1 - ptr + 1) = m
      BY <1>1
    <3> QED  BY <3>1 DEF Slice
  <2>3. s2 = [i \in 1..k |-> buffer[0 + i - 1]]
    <3>1. (IF num - (Length - ptr) - 1 < 0 THEN 0 ELSE num - (Length - ptr) - 1 - 0 + 1) = k
      BY <1>1, <2>0
    <3> QED  BY <3>1 DEF Slice
  <2>4. \A i \in 1..m : ptr + i - 1 = Place(i - 1) /\ ptr + i - 1 \in Slots
    BY <1>1 DEF Place, Slots
  <2>5. \A i \in 1..k : 0 + i - 1 = Place(m + i - 1) /\ 0 + i - 1 \in Slots
    BY <1>1, <2>0 DEF Place, Slots
  <2>6. s1 \in Seq(Values \cup {Zero}) /\ Len(s1) = m
    <3>1. \A i \in 1..m : buffer[ptr + i - 1] \in Values \cup {Zero}
      BY <2>4 DEF FifoType
    <3> HIDE DEF s1, m
    <3> QED  BY <2>0, <2>2, <3>1, IsASeq
  <2>7. s2 \in Seq(Values \cup {Zero}) /\ Len(s2) = k
    <3>1. \A i \in 1..k : buffer[0 + i - 1] \in Values \cup {Zero}
      BY <2>5 DEF FifoType
    <3> HIDE DEF s2, k
    <3> QED  BY <2>0, <2>3, <3>1, IsASeq
  <2>8. \A i \in 1..m : s1[i] = Contents[i]
    <3> TAKE i \in 1..m
    <3>1. i \in 1..num
      BY <2>0
    <3>2. s1[i] = buffer[ptr + i - 1]
      BY <2>2
    <3> QED  BY <1>2, <2>4, <3>1, <3>2
  <2>9. \A i \in 1..k : s2[i] = Contents[m + i]
    <3> TAKE i \in 1..k
    <3>1. m + i \in 1..num
      BY <2>0
    <3>2. s2[i] = buffer[0 + i - 1]
      BY <2>3
    <3>3. Contents[m + i] = buffer[Place(m + i - 1)]
      <4>1. PICK j \in 1..num : j = m + i
        BY <3>1
      <4>2. Contents[j] = buffer[Place(j - 1)]
        BY <1>2
      <4>3. j - 1 = m + i - 1
        BY <1>1, <2>0, <4>1
      <4> QED  BY <4>1, <4>2, <4>3, Zenon
    <3> QED  BY <2>5, <3>2, <3>3
  <2> HIDE DEF s1, s2, m, k
  <2>10. /\ s1 \o s2 \in Seq(Values \cup {Zero}) /\ Len(s1 \o s2) = num
         /\ \A i \in 1..num : (s1 \o s2)[i] = IF i <= m THEN s1[i] ELSE s2[i - m]
    BY <2>0, <2>6, <2>7
  <2>11. \A i \in 1..num : (s1 \o s2)[i] = Contents[i]
    <3> TAKE i \in 1..num
    <3>1. CASE i <= m
      BY <2>0, <2>8, <2>10, <3>1
    <3>2. CASE ~(i <= m)
      <4>1. i - m \in 1..k /\ m + (i - m) = i
        BY <2>0, <3>2
      <4> QED  BY <2>9, <2>10, <3>2, <4>1
    <3> QED  BY <3>1, <3>2
  <2> QED  BY <1>2, <2>1, <2>10, <2>11, SeqEqual
<1> QED  BY <1>3, <1>4

-----------------------------------------------------------------------------
(* The threads.                                                            *)

\* The rest of the types.
ControlType ==
  /\ key \in Threads \cup {NoThread}
  /\ op \in [Threads -> AllOps \cup {"none"}]
  /\ arg \in [Threads -> Values \cup {Zero}]
  /\ pc \in [Threads -> PCs]
  /\ result \in [Threads -> [got : Seq(Values \cup {Zero}), items : Nat]]

\* The invariant in two parts.
LEMMA Parts == IInv <=> FifoType /\ ControlType /\ ArgInv /\ ResultInv /\ NoSleeper
BY DEF IInv, TypeOK, FifoType, ControlType

\* The same for the next state.
LEMMA PartsNext == FifoType' /\ ControlType' /\ ArgInv' /\ ResultInv' /\ NoSleeper' => IInv'
BY DEF IInv, TypeOK, FifoType, ControlType

\* What a step has to be in the abstract queue.
QStep == Q!Next \/ UNCHANGED Q!vars

\* A fifo that is left alone keeps its contents.
LEMMA SameFifo ==
  ASSUME FifoType, UNCHANGED fifoVars
  PROVE  FifoType' /\ Contents' = Contents /\ num' = num
BY DEF fifoVars, FifoType, Contents, At

\* A thread goes on while no call returns and nobody is woken.
LEMMA QuietStep ==
  ASSUME IInv, NEW t \in Threads, NEW where \in PCs \ {"unlock", "return"},
         Goto(t, where, {}), UNCHANGED <<fifoVars, result>>,
         key' \in Threads \cup {NoThread},
         op' \in [Threads -> AllOps \cup {"none"}],
         arg' \in [Threads -> Values \cup {Zero}],
         \A u \in Threads \ {t} : op'[u] = op[u] /\ arg'[u] = arg[u],
         op'[t] \in {"write", "try_write"} => arg'[t] \in Values,
         pc[t] \notin {"unlock", "return"},
         where = "r_wait" => num = 0,
         where = "w_wait" => num = Length
  PROVE  IInv' /\ QStep
<1>0. FifoType /\ ControlType /\ ArgInv /\ ResultInv /\ NoSleeper
  BY Parts
<1>1. FifoType' /\ Contents' = Contents /\ num' = num
  BY <1>0, SameFifo
<1>2. /\ pc' \in [Threads -> PCs] /\ pc'[t] = where
      /\ \A u \in Threads \ {t} : pc'[u] = pc[u]
  BY <1>0 DEF Goto, ControlType
<1>3. ControlType'
  BY <1>0, <1>2 DEF ControlType
<1>4. ArgInv'
  BY <1>0 DEF ArgInv
<1>5. ResultInv'
  BY <1>0, <1>2 DEF ResultInv
<1>6. NoSleeper'
  BY <1>0, <1>1, <1>2 DEF NoSleeper
<1>7. Returned' = Returned
  <2>1. \A u \in Threads : Returned'[u] = Returned[u]
    <3> TAKE u \in Threads
    <3>1. CASE u = t
      BY <1>0, <3>1 DEF Returned, ResultInv
    <3>2. CASE u # t
      BY <3>2 DEF Returned
    <3> QED  BY <3>1, <3>2
  <2> QED  BY <2>1 DEF Returned
<1>8. QStep
  BY <1>1, <1>7 DEF QStep, Q!vars
<1> QED  BY <1>1, <1>3, <1>4, <1>5, <1>6, <1>8, PartsNext

\* A call gets its result, at once or before it drops the key, and wakes W.
LEMMA ResultStep ==
  ASSUME IInv, NEW t \in Threads, NEW where \in {"unlock", "return"}, NEW W,
         NEW values \in Seq(Values \cup {Zero}), NEW n \in Nat,
         Return(t, values, n), Goto(t, where, W), UNCHANGED <<key, op, arg>>,
         FifoType',
         \A u \in Threads : pc'[u] = "r_wait" => num' = 0,
         \A u \in Threads : pc'[u] = "w_wait" => num' = Length,
         op[t] = "peek" => UNCHANGED fifoVars,
         \A u \in W : u \notin Threads \/ pc[u] \in {"r_wait", "w_wait"}
  PROVE  /\ IInv'
         /\ op[t] # "peek" => Q!Return(t, values, n)
         /\ op[t] = "peek" => QStep
<1>0. FifoType /\ ControlType /\ ArgInv /\ ResultInv /\ NoSleeper
  BY Parts
<1>1. /\ result' = [result EXCEPT ![t] = [got |-> values, items |-> n]]
      /\ result' \in [Threads -> [got : Seq(Values \cup {Zero}), items : Nat]]
      /\ result'[t] = [got |-> values, items |-> n]
      /\ \A u \in Threads \ {t} : result'[u] = result[u]
  BY <1>0 DEF Return, ControlType
<1>2. /\ pc' \in [Threads -> PCs] /\ pc'[t] = where
      /\ \A u \in Threads \ {t} : pc'[u] = IF u \in W THEN "lock" ELSE pc[u]
  BY <1>0 DEF Goto, ControlType, PCs
<1>3. ControlType'
  BY <1>0, <1>1, <1>2 DEF ControlType
<1>4. ArgInv'
  BY <1>0 DEF ArgInv
<1>5. ResultInv'
  BY <1>0, <1>1, <1>2 DEF ResultInv
<1>6. NoSleeper'
  BY DEF NoSleeper
<1>7. ASSUME op[t] # "peek" PROVE Q!Return(t, values, n)
  <2>1. Returned' = [Returned EXCEPT ![t] = [got |-> values, items |-> n]]
    BY <1>1, <1>7 DEF Returned
  <2> QED  BY <2>1 DEF Q!Return
<1>8. ASSUME op[t] = "peek" PROVE QStep
  <2>1. Returned' = Returned
    BY <1>1, <1>8 DEF Returned
  <2>2. Contents' = Contents
    BY <1>0, <1>8, SameFifo
  <2> QED  BY <2>1, <2>2 DEF QStep, Q!vars
<1> QED  BY <1>3, <1>4, <1>5, <1>6, <1>7, <1>8, PartsNext

\* A result without a change of the fifo.
LEMMA LookStep ==
  ASSUME IInv, NEW t \in Threads, NEW where \in {"unlock", "return"},
         NEW values \in Seq(Values \cup {Zero}), NEW n \in Nat,
         Return(t, values, n), Goto(t, where, {}), UNCHANGED <<fifoVars, key, op, arg>>,
         op[t] # "peek" => values = <<>> /\ n \in {0, num}
  PROVE  IInv' /\ QStep
<1>0. FifoType /\ ControlType /\ NoSleeper
  BY Parts
<1>1. FifoType' /\ Contents' = Contents /\ num' = num
  BY <1>0, SameFifo
<1>2. \A u \in Threads : pc'[u] \in {"r_wait", "w_wait"} => pc'[u] = pc[u]
  BY DEF Goto
<1>3. /\ IInv'
      /\ op[t] # "peek" => Q!Return(t, values, n)
      /\ op[t] = "peek" => QStep
  <2>1. UNCHANGED fifoVars /\ UNCHANGED <<key, op, arg>>
    OBVIOUS
  <2>2. /\ \A u \in Threads : pc'[u] = "r_wait" => num' = 0
        /\ \A u \in Threads : pc'[u] = "w_wait" => num' = Length
    BY <1>0, <1>1, <1>2 DEF NoSleeper
  <2> DEFINE W == {}
  <2>3. Goto(t, where, W) /\ \A u \in W : u \notin Threads \/ pc[u] \in {"r_wait", "w_wait"}
    OBVIOUS
  <2> HIDE DEF W
  <2> QED  BY <1>1, <2>1, <2>2, <2>3, ResultStep
<1>4. CASE op[t] # "peek" /\ n = 0
  <2>1. Q!End(t)
    BY <1>1, <1>3, <1>4 DEF Q!End
  <2> QED  BY <1>3, <2>1 DEF QStep, Q!Next
<1>5. CASE op[t] # "peek" /\ n = num
  <2>1. Q!Size(t)
    BY <1>0, <1>1, <1>3, <1>5, ContentsFacts DEF Q!Size
  <2> QED  BY <1>3, <2>1 DEF QStep, Q!Next
<1> QED  BY <1>3, <1>4, <1>5

\* Nothing to return.
LEMMA NothingFacts == <<>> \in Seq(Values \cup {Zero}) /\ 0 \in Nat
OBVIOUS

\* The first value is returned, and every writer that sleeps is woken.
LEMMA TakeStep ==
  ASSUME IInv, NEW t \in Threads, num # 0, op[t] # "peek",
         buffer' = [buffer EXCEPT ![ptr] = Zero],
         ptr' = (ptr + 1) % Length, num' = num - 1,
         Finish(t, w_sleepers, <<buffer[ptr]>>, 0)
  PROVE  IInv' /\ QStep
<1>0. FifoType /\ ControlType /\ NoSleeper
  BY Parts
<1>1. /\ FifoType' /\ Contents # <<>> /\ Head(Contents) = buffer[ptr]
      /\ Contents' = Tail(Contents) /\ buffer[ptr] \in Values \cup {Zero}
  BY <1>0, TakeFirstFacts
<1>2. \A u \in Threads : pc'[u] # "w_wait" /\ pc'[u] # "r_wait"
  BY <1>0 DEF Finish, Goto, w_sleepers, NoSleeper
<1>3. <<buffer[ptr]>> \in Seq(Values \cup {Zero})
  BY <1>1
<1>4. \A u \in w_sleepers : pc[u] \in {"r_wait", "w_wait"}
  BY DEF w_sleepers
<1>5. IInv' /\ Q!Return(t, <<buffer[ptr]>>, 0)
  BY <1>1, <1>2, <1>3, <1>4, ResultStep DEF Finish
<1>6. Q!Read(t)
  BY <1>1, <1>5 DEF Q!Read
<1> QED  BY <1>5, <1>6 DEF QStep, Q!Next

\* read_unlocked() makes its broadcast whatever num is.
LEMMA ReadUnlockedStep ==
  ASSUME IInv, NEW t \in Threads, num # 0, op[t] # "peek", read_unlocked(t)
  PROVE  IInv' /\ QStep
<1>1. (IF read_tres < Length /\ num # read_tres THEN {} ELSE w_sleepers) = w_sleepers
  BY FifoAssumption DEF read_tres
<1>2. Finish(t, w_sleepers, <<buffer[ptr]>>, 0)
  BY <1>1, Zenon DEF read_unlocked
<1> QED  BY <1>2, TakeStep DEF read_unlocked

\* write_unlocked() puts the value last and wakes every reader that sleeps.
LEMMA WriteUnlockedStep ==
  ASSUME IInv, NEW t \in Threads, num # Length, op[t] \in {"write", "try_write"},
         write_unlocked(t)
  PROVE  IInv' /\ QStep
<1>0. FifoType /\ ControlType /\ NoSleeper /\ ArgInv
  BY Parts
<1>1. (IF write_tres # 0 /\ num # write_tres THEN {} ELSE r_sleepers) = r_sleepers
  BY DEF write_tres
<1>2. Finish(t, r_sleepers, <<>>, num + 1)
  BY <1>1, Zenon DEF write_unlocked
<1>3. arg[t] \in Values
  BY <1>0 DEF ArgInv
<1>4. FifoType' /\ Contents' = Append(Contents, arg[t]) /\ num' = num + 1
  BY <1>0, <1>3, PutFacts DEF write_unlocked
<1>5. \A u \in Threads : pc'[u] # "w_wait" /\ pc'[u] # "r_wait"
  BY <1>0, <1>2 DEF Finish, Goto, r_sleepers, NoSleeper
<1>6. \A u \in r_sleepers : pc[u] \in {"r_wait", "w_wait"}
  BY DEF r_sleepers
<1>7. num \in Nat /\ num < Length /\ num + 1 \in Nat
  BY <1>0, FifoAssumption DEF FifoType
<1>8. IInv' /\ Q!Return(t, <<>>, num + 1)
  BY <1>2, <1>4, <1>5, <1>6, <1>7, NothingFacts, ResultStep DEF Finish
<1>9. Q!Write(t, arg[t])
  BY <1>0, <1>4, <1>7, <1>8, ContentsFacts DEF Q!Write
<1> QED  BY <1>3, <1>8, <1>9 DEF QStep, Q!Next

\* read_all_unlocked() in all its cases.
LEMMA ReadAllStep ==
  ASSUME IInv, NEW t \in Threads, op[t] # "peek", read_all_unlocked(t)
  PROVE  IInv' /\ QStep
<1>0. FifoType /\ ControlType /\ NoSleeper
  BY Parts
<1>1. CASE num = 0
  <2>1. Finish(t, {}, <<>>, 0) /\ UNCHANGED fifoVars
    BY <1>1 DEF read_all_unlocked
  <2> QED  BY <2>1, NothingFacts, LookStep DEF Finish
<1>2. CASE num = 1
  <2>1. /\ buffer' = [buffer EXCEPT ![ptr] = Zero]
        /\ ptr' = (ptr + 1) % Length /\ num' = 0
        /\ Finish(t, w_sleepers, <<buffer[ptr]>>, 0)
    BY <1>2 DEF read_all_unlocked
  <2>2. num' = num - 1 /\ num # 0
    BY <1>2, <2>1
  <2> QED  BY <2>1, <2>2, TakeStep
<1>3. CASE num > 1
  <2>1. /\ buffer' = [i \in Slots |-> Zero] /\ ptr' = 0 /\ num' = 0
        /\ Finish(t, w_sleepers, AllValues, 0)
    BY <1>3 DEF read_all_unlocked
  <2>2. FifoType'
    BY <2>1, FifoAssumption DEF FifoType, Slots
  <2>3. Contents' = <<>>
    BY <2>1 DEF Contents
  <2>4. AllValues = Contents /\ Contents \in Seq(Values \cup {Zero}) /\ Contents # <<>>
    BY <1>0, <1>3, AllValuesFacts, ContentsFacts
  <2>5. \A u \in Threads : pc'[u] # "w_wait" /\ pc'[u] # "r_wait"
    BY <1>0, <1>3, <2>1 DEF Finish, Goto, w_sleepers, NoSleeper
  <2>6. \A u \in w_sleepers : pc[u] \in {"r_wait", "w_wait"}
    BY DEF w_sleepers
  <2>7. IInv' /\ Q!Return(t, Contents, 0)
    BY <2>1, <2>2, <2>4, <2>5, <2>6, ResultStep DEF Finish
  <2>8. Q!ReadAll(t)
    BY <2>3, <2>4, <2>7 DEF Q!ReadAll
  <2> QED  BY <2>7, <2>8 DEF QStep, Q!Next
<1> QED  BY <1>0, <1>1, <1>2, <1>3 DEF FifoType, read_all_unlocked

\* A thread that starts to wait.
LEMMA WaitStep ==
  ASSUME IInv, NEW t \in Threads, pc[t] = "body",
         NEW where \in {"r_wait", "w_wait"}, Wait(t, where),
         where = "r_wait" => num = 0,
         where = "w_wait" => num = Length
  PROVE  IInv' /\ QStep
<1>0. ControlType /\ ArgInv
  BY Parts
<1>1. where \in PCs \ {"unlock", "return"}
  BY DEF PCs
<1>2. /\ key' = NoThread /\ Goto(t, where, {}) /\ UNCHANGED <<fifoVars, result>>
      /\ op' = op /\ arg' = arg
  BY DEF Wait
<1> QED  BY <1>0, <1>1, <1>2, QuietStep DEF ControlType, ArgInv

\* The methods, with the key.
LEMMA BodyStep ==
  ASSUME IInv, NEW t \in Threads,
         \/ read(t) \/ try_read(t) \/ peek(t) \/ read_array(t) \/ try_read_array(t)
         \/ write(t) \/ try_write(t)
  PROVE  IInv' /\ QStep
<1>0. FifoType /\ pc[t] = "body"
  BY Parts DEF read, try_read, peek, read_array, try_read_array, write, try_write, InBody
<1>1. CASE read(t)
  BY <1>0, <1>1, WaitStep, ReadUnlockedStep DEF read, InBody
<1>2. CASE try_read(t)
  BY <1>0, <1>2, NothingFacts, LookStep, ReadUnlockedStep DEF try_read, InBody, Finish
<1>3. CASE peek(t)
  <2> DEFINE values == IF num \in 1..Length - 1 THEN <<buffer[num]>> ELSE <<>>
  <2>1. values \in Seq(Values \cup {Zero})
    <3>1. CASE num \in 1..Length - 1
      <4>1. buffer[num] \in Values \cup {Zero}
        BY <1>0, <3>1 DEF FifoType, Slots
      <4> QED  BY <3>1, <4>1
    <3>2. CASE num \notin 1..Length - 1
      BY <3>2
    <3> QED  BY <3>1, <3>2
  <2>2. op[t] = "peek" /\ Finish(t, {}, values, 0) /\ UNCHANGED fifoVars
    BY <1>3 DEF peek, InBody
  <2> HIDE DEF values
  <2> QED  BY <2>1, <2>2, NothingFacts, LookStep DEF Finish
<1>4. CASE read_array(t)
  BY <1>0, <1>4, WaitStep, ReadAllStep DEF read_array, InBody
<1>5. CASE try_read_array(t)
  BY <1>0, <1>5, ReadAllStep DEF try_read_array, InBody
<1>6. CASE write(t)
  BY <1>0, <1>6, WaitStep, WriteUnlockedStep DEF write, InBody
<1>7. CASE try_write(t)
  BY <1>0, <1>7, NothingFacts, LookStep, WriteUnlockedStep DEF try_write, InBody, Finish
<1> QED  BY <1>1, <1>2, <1>3, <1>4, <1>5, <1>6, <1>7

\* The test without the mutex.
LEMMA CheckStep ==
  ASSUME IInv, NEW t \in Threads, check(t)
  PROVE  IInv' /\ QStep
<1>0. FifoType /\ ControlType /\ ArgInv /\ num \in Nat
  BY Parts DEF FifoType
<1>1. CASE ReturnAtOnce(t, <<>>, num)
  BY <1>0, <1>1, NothingFacts, LookStep DEF ReturnAtOnce
<1>2. CASE ReturnAtOnce(t, <<>>, 0)
  BY <1>0, <1>2, NothingFacts, LookStep DEF ReturnAtOnce
<1>3. CASE Goto(t, "lock", {}) /\ UNCHANGED <<fifoVars, key, op, arg, result>>
  <2>1. pc[t] = "check" /\ "lock" \in PCs \ {"unlock", "return"}
    BY DEF check, PCs
  <2> QED  BY <1>0, <1>3, <2>1, QuietStep DEF ControlType, ArgInv
<1> QED  BY <1>1, <1>2, <1>3 DEF check

\* The program calls a method.
LEMMA CallStep ==
  ASSUME IInv, NEW t \in Threads, NEW o \in Ops, Call(t, o)
  PROVE  IInv' /\ QStep
<1>0. ControlType /\ ArgInv /\ o \in AllOps
  BY Parts, FifoAssumption
<1>1. PICK v \in (IF o \in {"write", "try_write"} THEN Values ELSE {Zero}) :
        arg' = [arg EXCEPT ![t] = v]
  BY DEF Call
<1> DEFINE where == IF o \in {"read", "read_array", "write"} THEN "lock" ELSE "check"
<1>2. /\ pc[t] = "idle" /\ op' = [op EXCEPT ![t] = o]
      /\ Goto(t, where, {}) /\ UNCHANGED <<fifoVars, result>> /\ key' = key
  BY DEF Call
<1>3. where \in PCs \ {"unlock", "return"} /\ where \notin {"r_wait", "w_wait"}
  BY DEF PCs
<1>4. v \in Values \cup {Zero} /\ (o \in {"write", "try_write"} => v \in Values)
  OBVIOUS
<1>5. /\ op' \in [Threads -> AllOps \cup {"none"}]
      /\ arg' \in [Threads -> Values \cup {Zero}]
      /\ op'[t] = o /\ arg'[t] = v
      /\ \A u \in Threads \ {t} : op'[u] = op[u] /\ arg'[u] = arg[u]
  BY <1>0, <1>1, <1>2, <1>4 DEF ControlType
<1>6. key' \in Threads \cup {NoThread}
  BY <1>0, <1>2 DEF ControlType
<1> HIDE DEF where
<1> QED  BY <1>2, <1>3, <1>4, <1>5, <1>6, QuietStep

\* The mutex is locked, and dropped.
LEMMA LockStep ==
  ASSUME IInv, NEW t \in Threads, lock(t) \/ unlock(t)
  PROVE  IInv' /\ QStep
<1>0. FifoType /\ ControlType /\ ArgInv /\ ResultInv /\ NoSleeper
  BY Parts
<1>1. CASE lock(t)
  <2>1. /\ pc[t] = "lock" /\ key' = t /\ Goto(t, "body", {})
        /\ UNCHANGED <<fifoVars, result>> /\ op' = op /\ arg' = arg
        /\ "body" \in PCs \ {"unlock", "return"}
    BY <1>1 DEF lock, PCs
  <2> QED  BY <1>0, <2>1, QuietStep DEF ControlType, ArgInv
<1>2. CASE unlock(t)
  <2>1. /\ pc[t] = "unlock" /\ key' = NoThread /\ Goto(t, "return", {})
        /\ UNCHANGED fifoVars /\ result' = result /\ op' = op /\ arg' = arg
    BY <1>2 DEF unlock
  <2>2. /\ pc' \in [Threads -> PCs] /\ pc'[t] = "return"
        /\ \A u \in Threads \ {t} : pc'[u] = pc[u]
    BY <1>0, <2>1 DEF Goto, ControlType, PCs
  <2>3. FifoType' /\ Contents' = Contents /\ num' = num
    BY <1>0, <2>1, SameFifo
  <2>4. ControlType' /\ ArgInv'
    BY <1>0, <2>1, <2>2 DEF ControlType, ArgInv
  <2>5. ResultInv' /\ NoSleeper'
    BY <1>0, <2>1, <2>2, <2>3 DEF ResultInv, NoSleeper
  <2>6. Returned' = Returned
    BY <2>1 DEF Returned
  <2> QED  BY <2>3, <2>4, <2>5, <2>6, PartsNext DEF QStep, Q!vars
<1> QED  BY <1>1, <1>2

\* The program gets the result.
LEMMA ReturnStep ==
  ASSUME IInv, NEW t \in Threads, return(t)
  PROVE  IInv' /\ QStep
<1>0. FifoType /\ ControlType /\ ArgInv /\ ResultInv /\ NoSleeper
  BY Parts
<1>1. /\ pc[t] = "return" /\ op' = [op EXCEPT ![t] = "none"]
      /\ arg' = [arg EXCEPT ![t] = Zero] /\ UNCHANGED fifoVars /\ key' = key
      /\ result' = [result EXCEPT ![t] = [got |-> <<>>, items |-> 0]]
  BY DEF return, Return
<1>2. /\ pc' \in [Threads -> PCs] /\ pc'[t] = "idle"
      /\ \A u \in Threads \ {t} : pc'[u] = pc[u]
  BY <1>0 DEF return, Goto, ControlType, PCs
<1>3. FifoType' /\ Contents' = Contents /\ num' = num
  BY <1>0, <1>1, SameFifo
<1>4. /\ result' \in [Threads -> [got : Seq(Values \cup {Zero}), items : Nat]]
      /\ result'[t] = [got |-> <<>>, items |-> 0]
      /\ \A u \in Threads \ {t} : result'[u] = result[u]
  BY <1>0, <1>1, NothingFacts DEF ControlType
<1>5. ControlType' /\ ArgInv'
  BY <1>0, <1>1, <1>2, <1>4 DEF ControlType, ArgInv
<1>6. ResultInv' /\ NoSleeper'
  BY <1>0, <1>2, <1>3, <1>4 DEF ResultInv, NoSleeper
<1>7. Returned' = [Returned EXCEPT ![t] = [got |-> <<>>, items |-> 0]]
  BY <1>0, <1>1, <1>4 DEF Returned, ControlType
<1>8. Q!End(t)
  BY <1>3, <1>7 DEF Q!End, Q!Return
<1> QED  BY <1>3, <1>5, <1>6, <1>8, PartsNext DEF QStep, Q!Next

-----------------------------------------------------------------------------
(* The theorems.                                                           *)

\* create(): a new Fifo is empty.
LEMMA InitInv == Init => IInv /\ Q!Init
<1> SUFFICES ASSUME Init PROVE IInv /\ Q!Init
  OBVIOUS
<1>1. FifoType
  BY FifoAssumption DEF Init, FifoType, Slots
<1>2. ControlType /\ ArgInv
  BY NothingFacts DEF Init, ControlType, ArgInv, PCs
<1>3. ResultInv /\ NoSleeper
  BY DEF Init, ResultInv, NoSleeper
<1>4. Contents = <<>>
  BY <1>1, ContentsFacts DEF Init
<1>5. Returned = [t \in Threads |-> [got |-> <<>>, items |-> 0]]
  BY DEF Init, Returned
<1> QED  BY <1>1, <1>2, <1>3, <1>4, <1>5, Parts DEF Q!Init, Q!Nothing

\* Every step keeps the invariant, and is a step of the queue.
LEMMA NextStep == IInv /\ [Next]_vars => IInv' /\ [Q!Next]_(Q!vars)
<1> SUFFICES ASSUME IInv, [Next]_vars PROVE IInv' /\ QStep
  BY DEF QStep
<1>1. ASSUME NEW t \in Threads, Continue(t) PROVE IInv' /\ QStep
  BY <1>1, CheckStep, LockStep, ReturnStep, BodyStep DEF Continue
<1>2. ASSUME NEW t \in Threads, NEW o \in Ops, Call(t, o) PROVE IInv' /\ QStep
  BY <1>2, CallStep
<1>3. CASE UNCHANGED vars
  <2>0. FifoType /\ ControlType /\ ArgInv /\ ResultInv /\ NoSleeper
    BY Parts
  <2>1. /\ UNCHANGED fifoVars /\ key' = key /\ op' = op /\ arg' = arg /\ pc' = pc
        /\ result' = result
    BY <1>3 DEF vars, fifoVars
  <2>2. FifoType' /\ Contents' = Contents /\ num' = num
    BY <2>0, <2>1, SameFifo
  <2>3. ControlType' /\ ArgInv' /\ ResultInv' /\ NoSleeper'
    BY <2>0, <2>1, <2>2 DEF ControlType, ArgInv, ResultInv, NoSleeper
  <2>4. Returned' = Returned
    BY <2>1 DEF Returned
  <2> QED  BY <2>2, <2>3, <2>4, PartsNext DEF QStep, Q!vars
<1> QED  BY <1>1, <1>2, <1>3 DEF Next

\* IInv holds in every state of a Fifo.
THEOREM Invariance == Spec => []IInv
BY InitInv, NextStep, PTL DEF Spec

\* Every field keeps its type: ptr and num stay within the buffer.
THEOREM FifoTypeCorrect == Spec => []TypeOK
<1>1. IInv => TypeOK
  BY DEF IInv
<1> QED  BY <1>1, Invariance, PTL

\* No reader of a Fifo sleeps beside a value, and no writer beside a free
\* slot: whoever changes num wakes all of them before it drops the key.
THEOREM FifoNoSleeper == Spec => []NoSleeper
<1>1. IInv => NoSleeper
  BY DEF IInv
<1> QED  BY <1>1, Invariance, PTL

\* A Fifo is one shared queue of at most Length values: for any number of
\* threads every call except peek() takes effect at one moment, values leave
\* in the order in which they came, and none is lost or read twice.
THEOREM FifoImplements == Spec => ImplementsQueue
BY InitInv, NextStep, Invariance, PTL DEF Spec, ImplementsQueue, Q!Spec

=============================================================================
