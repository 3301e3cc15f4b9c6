------------------------- MODULE ThreadQueue_proofs -------------------------
(***************************************************************************)
(* Theorems about ThreadQueue, for every set of threads and values, every  *)
(* length of the first buffer and every bound on the number of items.      *)
(***************************************************************************)
EXTENDS ThreadQueue, SequenceTheorems, TLAPS

-----------------------------------------------------------------------------
(* The values in the queue as a sequence.                                  *)

\* size is the number of values between the two pointers.
LEMMA SizeFacts ==
  ASSUME TypeOK
  PROVE  /\ size \in Nat
         /\ r_ptr + size = w_ptr
         /\ size = 0 <=> w_ptr = r_ptr
         /\ Len(buffer) \in Nat /\ w_ptr <= Len(buffer)
         /\ w_ptr \in Nat
  BY DEF TypeOK, size

\* The contents are a sequence of as many values.
LEMMA ContentsFacts ==
  ASSUME TypeOK
  PROVE  /\ Contents \in Seq(Values \cup {Zero})
         /\ Len(Contents) = size
         /\ \A i \in 1..size : Contents[i] = buffer[r_ptr + i]
         /\ Contents = <<>> <=> w_ptr = r_ptr
<1>1. \A i \in 1..size : buffer[r_ptr + i] \in Values \cup {Zero}
  BY SizeFacts DEF TypeOK
<1>2. Contents \in Seq(Values \cup {Zero}) /\ Len(Contents) = size
  BY <1>1, SizeFacts, IsASeq DEF Contents
<1>3. \A i \in 1..size : Contents[i] = buffer[r_ptr + i]
  BY DEF Contents
<1> QED  BY <1>2, <1>3, SizeFacts, EmptySeq

\* An allocated array has its length, and zeroes only.
LEMMA AllocateFacts ==
  ASSUME NEW n \in Nat
  PROVE  /\ allocate(n) \in Seq(Values \cup {Zero})
         /\ Len(allocate(n)) = n
         /\ \A i \in 1..n : allocate(n)[i] = Zero
  BY IsASeq DEF allocate

-----------------------------------------------------------------------------
(* The steps that move or keep the values.                                 *)

\* A step that leaves the buffer, and at most lets go of the key or takes it.
LEMMA SameBuffer ==
  ASSUME IInv, UNCHANGED queueVars
  PROVE  /\ NoStaleReference'
         /\ size' = size
         /\ Contents' = Contents
         /\ buffer' \in Seq(Values \cup {Zero}) /\ r_ptr' \in Nat
         /\ w_ptr' \in r_ptr'..Len(buffer')
<1>1. buffer' = buffer /\ r_ptr' = r_ptr /\ w_ptr' = w_ptr
  BY DEF queueVars
<1> QED  BY <1>1 DEF NoStaleReference, size, Contents, IInv, TypeOK

\* TakeFirst: the first value leaves the queue.
LEMMA TakeFirstFacts ==
  ASSUME IInv, NEW t \in Threads, TakeFirst(t), w_ptr # r_ptr
  PROVE  /\ NoStaleReference'
         /\ size' = size - 1
         /\ buffer' \in Seq(Values \cup {Zero}) /\ r_ptr' \in Nat
         /\ w_ptr' \in r_ptr'..Len(buffer')
         /\ Contents' = Tail(Contents)
         /\ Contents # <<>>
         /\ buffer[r_ptr + 1] = Head(Contents)
         /\ buffer[r_ptr + 1] \in Values \cup {Zero}
<1>1. /\ buffer \in Seq(Values \cup {Zero}) /\ r_ptr \in Nat /\ w_ptr \in Nat
      /\ r_ptr < w_ptr /\ w_ptr <= Len(buffer) /\ Len(buffer) \in Nat
      /\ size \in Nat /\ size > 0 /\ r_ptr + size = w_ptr
  BY SizeFacts DEF TypeOK, IInv
<1>2. /\ buffer' = [buffer EXCEPT ![r_ptr + 1] = Zero]
      /\ r_ptr' = r_ptr + 1
      /\ w_ptr' = w_ptr
  BY DEF TakeFirst
<1>3. /\ buffer' \in Seq(Values \cup {Zero})
      /\ Len(buffer') = Len(buffer)
      /\ \A j \in 1..Len(buffer) : buffer'[j] = IF j = r_ptr + 1 THEN Zero ELSE buffer[j]
  BY <1>1, <1>2
<1>4. size' = size - 1
  BY <1>1, <1>2 DEF size
<1>5. NoStaleReference'
  <2> SUFFICES ASSUME NEW i \in DOMAIN buffer'
               PROVE  buffer'[i] = Zero <=> i \notin r_ptr' + 1..w_ptr'
    BY DEF NoStaleReference
  <2>1. i \in 1..Len(buffer) /\ i \in DOMAIN buffer
    BY <1>1, <1>3
  <2> QED  BY <1>1, <1>2, <1>3, <2>1 DEF NoStaleReference, IInv
<1>6. w_ptr' \in r_ptr'..Len(buffer') /\ r_ptr' \in Nat
  BY <1>1, <1>2, <1>3
<1>7. /\ Contents \in Seq(Values \cup {Zero}) /\ Len(Contents) = size
      /\ Contents # <<>>
      /\ \A i \in 1..size : Contents[i] = buffer[r_ptr + i]
  BY ContentsFacts, <1>1 DEF IInv
<1>8. Head(Contents) = buffer[r_ptr + 1] /\ buffer[r_ptr + 1] \in Values \cup {Zero}
  BY <1>1, <1>7
<1>9. Contents' = Tail(Contents)
  <2>1. Contents' = [i \in 1..(size - 1) |-> buffer'[r_ptr' + i]]
    BY <1>4 DEF Contents
  <2>2. \A i \in 1..(size - 1) : buffer'[r_ptr' + i] = Contents[i + 1]
    <3> TAKE i \in 1..(size - 1)
    <3>1. Contents[i + 1] = buffer[r_ptr + (i + 1)]
      BY <1>1, <1>7
    <3> QED  BY <1>1, <1>2, <1>3, <3>1
  <2>3. \A i \in 1..(size - 1) : Contents[i + 1] \in Values \cup {Zero}
    BY <1>1, <1>7
  <2>4. Contents' \in [1..(size - 1) -> Values \cup {Zero}]
    BY <2>1, <2>2, <2>3
  <2>5. Contents' \in Seq(Values \cup {Zero}) /\ Len(Contents') = size - 1
    BY <2>4, <1>1
  <2>6. /\ Tail(Contents) \in Seq(Values \cup {Zero})
        /\ Len(Tail(Contents)) = size - 1
        /\ \A i \in 1..(size - 1) : Tail(Contents)[i] = Contents[i + 1]
    BY <1>1, <1>7, HeadTailProperties
  <2>7. \A i \in 1..Len(Contents') : Contents'[i] = Tail(Contents)[i]
    BY <2>1, <2>2, <2>5, <2>6
  <2> QED  BY <2>5, <2>6, <2>7, SeqEqual
<1> QED  BY <1>3, <1>4, <1>5, <1>6, <1>7, <1>8, <1>9

\* read_all_unlocked() with several values: the queue is empty afterwards.
LEMMA TakeAllFacts ==
  ASSUME IInv, r_ptr' = 0, w_ptr' = 0, buffer' = allocate(Len(buffer))
  PROVE  /\ NoStaleReference'
         /\ size' = 0
         /\ buffer' \in Seq(Values \cup {Zero}) /\ r_ptr' \in Nat
         /\ w_ptr' \in r_ptr'..Len(buffer')
         /\ Contents' = <<>>
<1>1. Len(buffer) \in Nat
  BY SizeFacts DEF IInv
<1>2. /\ buffer' \in Seq(Values \cup {Zero}) /\ Len(buffer') = Len(buffer)
      /\ \A i \in 1..Len(buffer) : buffer'[i] = Zero
  BY <1>1, AllocateFacts
<1>3. size' = 0
  BY DEF size
<1>4. Contents' = <<>>
  BY <1>3 DEF Contents
<1>5. DOMAIN buffer' = 1..Len(buffer)
  BY <1>2
<1> QED  BY <1>1, <1>2, <1>3, <1>4, <1>5 DEF NoStaleReference

\* write(): the value comes last, in the old buffer or in a longer one.
LEMMA WriteFacts ==
  ASSUME IInv, NEW t \in Threads, write(t)
  PROVE  /\ NoStaleReference'
         /\ size' = size + 1
         /\ buffer' \in Seq(Values \cup {Zero}) /\ r_ptr' \in Nat
         /\ w_ptr' \in r_ptr'..Len(buffer')
         /\ Contents' = Append(Contents, arg[t])
<1>1. /\ buffer \in Seq(Values \cup {Zero}) /\ r_ptr \in Nat /\ w_ptr \in Nat
      /\ r_ptr <= w_ptr /\ w_ptr <= Len(buffer) /\ Len(buffer) \in Nat
      /\ size \in Nat /\ r_ptr + size = w_ptr
  BY SizeFacts DEF TypeOK, IInv
<1>2. arg[t] \in Values /\ arg[t] # Zero
  BY QueueAssumption DEF ArgInv, write, InBody, IInv
<1>3. \A i \in 1..Len(buffer) : buffer[i] = Zero <=> i \notin r_ptr + 1..w_ptr
  BY <1>1 DEF NoStaleReference, IInv
<1>4. PICK n \in Nat, r \in Nat :
        /\ r_ptr' = r
        /\ w_ptr' = r + size + 1
        /\ r + size + 1 <= n
        /\ buffer' = [i \in 1..n |->
             IF i \in r + 1..r + size THEN buffer[r_ptr + (i - r)]
             ELSE IF i = r + size + 1 THEN arg[t] ELSE Zero]
  <2>1. CASE Full
    <3>1. /\ buffer' = [Grown EXCEPT ![size + 1] = arg[t]]
          /\ w_ptr' = size + 1 /\ r_ptr' = 0
      BY <2>1 DEF write
    <3>2. Len(buffer) - r_ptr = size
      BY <1>1, <2>1 DEF Full
    <3>3. Grown = [i \in 1..(2 * size + 1) |-> IF i <= size THEN buffer[r_ptr + i] ELSE Zero]
      BY <3>2 DEF Grown
    <3> DEFINE new == [i \in 1..(2 * size + 1) |->
                         IF i \in 0 + 1..0 + size THEN buffer[r_ptr + (i - 0)]
                         ELSE IF i = 0 + size + 1 THEN arg[t] ELSE Zero]
    <3>4. buffer' = [i \in 1..(2 * size + 1) |-> IF i = size + 1 THEN arg[t] ELSE Grown[i]]
      BY <3>1, <3>3
    <3>5. \A i \in 1..(2 * size + 1) :
            (IF i = size + 1 THEN arg[t] ELSE Grown[i]) = new[i]
      BY <3>3, <1>1
    <3>6. buffer' = new
      BY <3>4, <3>5
    <3>7. 0 \in Nat /\ 2 * size + 1 \in Nat /\ 0 + size + 1 <= 2 * size + 1
      BY <1>1
    <3>8. r_ptr' = 0 /\ w_ptr' = 0 + size + 1
      BY <3>1, <1>1
    <3> USE <3>7
    <3> WITNESS 2 * size + 1 \in Nat, 0 \in Nat
    <3> QED  BY <3>6, <3>8
  <2>2. CASE ~Full
    <3>1. /\ buffer' = [buffer EXCEPT ![w_ptr + 1] = arg[t]]
          /\ w_ptr' = w_ptr + 1 /\ r_ptr' = r_ptr
      BY <2>2 DEF write
    <3>2. w_ptr + 1 <= Len(buffer)
      BY <1>1, <2>2 DEF Full
    <3> DEFINE new == [i \in 1..Len(buffer) |->
                         IF i \in r_ptr + 1..r_ptr + size THEN buffer[r_ptr + (i - r_ptr)]
                         ELSE IF i = r_ptr + size + 1 THEN arg[t] ELSE Zero]
    <3>3. buffer' = [i \in 1..Len(buffer) |-> IF i = w_ptr + 1 THEN arg[t] ELSE buffer[i]]
      <4>1. DOMAIN buffer = 1..Len(buffer)
        BY <1>1
      <4> QED  BY <3>1, <4>1
    <3>4. \A i \in 1..Len(buffer) :
            (IF i = w_ptr + 1 THEN arg[t] ELSE buffer[i]) = new[i]
      BY <1>1, <1>3
    <3>5. buffer' = new
      BY <3>3, <3>4
    <3> QED  BY <3>1, <3>2, <3>5, <1>1
  <2> QED  BY <2>1, <2>2
<1>5. size' = size + 1
  BY <1>1, <1>4 DEF size
<1>6. \A i \in 1..size : buffer[r_ptr + i] \in Values /\ buffer[r_ptr + i] # Zero
  BY <1>1, <1>3
<1>7. \A i \in 1..n :
        /\ buffer'[i] \in Values \cup {Zero}
        /\ buffer'[i] = Zero <=> i \notin r + 1..r + size + 1
  <2> TAKE i \in 1..n
  <2>1. CASE i \in r + 1..r + size
    <3>1. i - r \in 1..size
      BY <2>1, <1>1
    <3>2. buffer'[i] = buffer[r_ptr + (i - r)]
      BY <2>1, <1>4
    <3> QED  BY <2>1, <3>1, <3>2, <1>1, <1>6
  <2>2. CASE i = r + size + 1
    BY <2>2, <1>1, <1>2, <1>4
  <2>3. CASE i \notin r + 1..r + size /\ i # r + size + 1
    BY <2>3, <1>1, <1>4
  <2> QED  BY <2>1, <2>2, <2>3
<1>8. buffer' \in Seq(Values \cup {Zero}) /\ Len(buffer') = n
  <2>1. buffer' \in [1..n -> Values \cup {Zero}]
    BY <1>4, <1>7
  <2> QED  BY <2>1
<1>9. NoStaleReference'
  BY <1>4, <1>7, <1>8 DEF NoStaleReference
<1>10. Contents' = Append(Contents, arg[t])
  <2>1. Contents \in Seq(Values \cup {Zero}) /\ Len(Contents) = size
        /\ \A i \in 1..size : Contents[i] = buffer[r_ptr + i]
    BY ContentsFacts DEF IInv
  <2>2. Append(Contents, arg[t])
          = [i \in 1..(size + 1) |-> IF i = size + 1 THEN arg[t] ELSE Contents[i]]
    BY <2>1, <1>1
  <2>3. Contents' = [i \in 1..(size + 1) |-> buffer'[r + i]]
    BY <1>4, <1>5 DEF Contents
  <2>4. \A i \in 1..(size + 1) :
          buffer'[r + i] = IF i = size + 1 THEN arg[t] ELSE Contents[i]
    <3> TAKE i \in 1..(size + 1)
    <3>1. r + i \in 1..n /\ (r + i) - r = i
      BY <1>1, <1>4
    <3>2. CASE i = size + 1
      BY <3>1, <3>2, <1>1, <1>4
    <3>3. CASE i \in 1..size
      <4>1. buffer'[r + i] = buffer[r_ptr + i]
        BY <3>1, <3>3, <1>1, <1>4
      <4> QED  BY <4>1, <3>3, <2>1
    <3> QED  BY <3>2, <3>3, <1>1
  <2> QED  BY <2>2, <2>3, <2>4
<1>11. w_ptr' \in r_ptr'..Len(buffer') /\ r_ptr' \in Nat
  BY <1>1, <1>4, <1>8
<1> QED  BY <1>5, <1>8, <1>9, <1>10, <1>11

-----------------------------------------------------------------------------
(* The invariant.                                                          *)

\* The part of the invariant that is about the threads.
ControlInv ==
  /\ key \in Threads \cup {NoThread}
  /\ op \in [Threads -> AllOps \cup {"none"}]
  /\ arg \in [Threads -> Values \cup {Zero}]
  /\ pc \in [Threads -> PCs]
  /\ result \in [Threads -> [got : Seq(Values \cup {Zero}), items : Nat]]
  /\ KeyInv
  /\ ArgInv

\* The threads that write() has still to wake are owed a broadcast.
Owed(t) == op[t] = "write" /\ pc[t] \in {"unlock", "broadcast"}

\* The invariant from its parts: the buffer, the threads, and the sleepers.
LEMMA Parts ==
  ASSUME ControlInv', NoStaleReference', RoomInv', NoSleeper',
         buffer' \in Seq(Values \cup {Zero}), r_ptr' \in Nat,
         w_ptr' \in r_ptr'..Len(buffer')
  PROVE  IInv'
  BY DEF ControlInv, IInv, TypeOK

\* The end of a body: nobody is in a body any more, and nobody woke up.
LEMMA FinishFacts ==
  ASSUME IInv, NEW t \in Threads, pc[t] = "body",
         NEW values \in Seq(Values \cup {Zero}), NEW n \in Nat,
         Finish(t, values, n)
  PROVE  /\ ControlInv'
         /\ RoomInv'
         /\ \A u \in Threads : pc'[u] = "r_wait" => pc[u] = "r_wait"
         /\ \A u \in Threads : Owed(u) => Owed(u)'
         /\ op'[t] = op[t] /\ pc'[t] = "unlock"
         /\ Q!Return(t, values, n)
<1>1. /\ result' = [result EXCEPT ![t] = [got |-> values, items |-> n]]
      /\ pc' = [pc EXCEPT ![t] = "unlock"]
      /\ key' = key /\ op' = op /\ arg' = arg
  BY DEF Finish, Return, Goto
<1>2. /\ pc \in [Threads -> PCs] /\ op \in [Threads -> AllOps \cup {"none"}]
      /\ result \in [Threads -> [got : Seq(Values \cup {Zero}), items : Nat]]
      /\ key = t /\ key \in Threads \cup {NoThread}
      /\ arg \in [Threads -> Values \cup {Zero}] /\ KeyInv /\ ArgInv
  BY DEF IInv, TypeOK, KeyInv
<1>3. pc' \in [Threads -> PCs]
  BY <1>1, <1>2 DEF PCs
<1>4. result' \in [Threads -> [got : Seq(Values \cup {Zero}), items : Nat]]
  BY <1>1, <1>2
<1>5. KeyInv' /\ ArgInv'
  BY <1>1, <1>2 DEF KeyInv, ArgInv
<1>6. RoomInv'
  <2>1. \A u \in Threads : pc'[u] # "body"
    BY <1>1, <1>2 DEF KeyInv
  <2> QED  BY <2>1 DEF RoomInv
<1>7. Q!Return(t, values, n)
  BY <1>1 DEF Q!Return
<1>8. /\ \A u \in Threads : pc'[u] = "r_wait" => pc[u] = "r_wait"
      /\ \A u \in Threads : Owed(u) => Owed(u)'
      /\ op'[t] = op[t] /\ pc'[t] = "unlock"
  BY <1>1, <1>2 DEF Owed
<1> QED  BY <1>1, <1>2, <1>3, <1>4, <1>5, <1>6, <1>7, <1>8 DEF ControlInv

\* A sleeper has a reason to sleep also afterwards.
LEMMA SleepersFacts ==
  ASSUME IInv,
         \A u \in Threads : pc'[u] = "r_wait" => pc[u] = "r_wait",
         \A u \in Threads : Owed(u) => Owed(u)',
         \/ r_ptr = w_ptr => r_ptr' = w_ptr'
         \/ \E u \in Threads : Owed(u)'
  PROVE  NoSleeper'
  BY DEF IInv, NoSleeper, Owed

\* A body that changes nothing, whatever it returns.
LEMMA FinishOnly ==
  ASSUME IInv, NEW t \in Threads, pc[t] = "body",
         NEW values \in Seq(Values \cup {Zero}), NEW n \in Nat,
         Finish(t, values, n), UNCHANGED queueVars
  PROVE  IInv'
<1>1. r_ptr' = r_ptr /\ w_ptr' = w_ptr
  BY DEF queueVars
<1> QED  BY <1>1, FinishFacts, SameBuffer, SleepersFacts, Parts

\* A body that takes the first value.
LEMMA FinishTakeFirst ==
  ASSUME IInv, NEW t \in Threads, pc[t] = "body", TakeFirst(t), w_ptr # r_ptr
  PROVE  IInv'
<1>1. /\ buffer[r_ptr + 1] \in Values \cup {Zero}
      /\ Finish(t, <<buffer[r_ptr + 1]>>, 0)
  BY TakeFirstFacts DEF TakeFirst
<1>2. <<buffer[r_ptr + 1]>> \in Seq(Values \cup {Zero}) /\ 0 \in Nat
  BY <1>1
<1> QED  BY <1>1, <1>2, TakeFirstFacts, FinishFacts, SleepersFacts, Parts

\* Nothing to return.
LEMMA NothingFacts == <<>> \in Seq(Values \cup {Zero}) /\ 0 \in Nat
  OBVIOUS

\* A thread that starts to wait lets go of the key.
LEMMA WaitStep ==
  ASSUME IInv, NEW t \in Threads, pc[t] = "body", w_ptr = r_ptr, Wait(t)
  PROVE  IInv'
<1>1. /\ pc' = [pc EXCEPT ![t] = "r_wait"] /\ key' = NoThread
      /\ op' = op /\ arg' = arg /\ result' = result
      /\ UNCHANGED queueVars /\ r_ptr' = r_ptr /\ w_ptr' = w_ptr
  BY DEF Wait, Goto, queueVars
<1>2. ControlInv'
  BY <1>1, QueueAssumption DEF ControlInv, IInv, TypeOK, KeyInv, ArgInv, PCs
<1>3. RoomInv'
  BY <1>1, SameBuffer DEF RoomInv, IInv, TypeOK
<1>4. NoSleeper'
  BY <1>1 DEF NoSleeper
<1> QED  BY <1>1, <1>2, <1>3, <1>4, SameBuffer, Parts

\* read_all_unlocked() in all its cases.
LEMMA ReadAllStep ==
  ASSUME IInv, NEW t \in Threads, pc[t] = "body", read_all_unlocked(t)
  PROVE  IInv'
<1>1. CASE size = 0
  <2>1. Finish(t, <<>>, 0) /\ UNCHANGED queueVars
    BY <1>1 DEF read_all_unlocked
  <2> QED  BY <2>1, NothingFacts, FinishOnly
<1>2. CASE size = 1
  <2>1. TakeFirst(t) /\ w_ptr # r_ptr
    BY <1>2, SizeFacts DEF read_all_unlocked, IInv
  <2> QED  BY <2>1, FinishTakeFirst
<1>3. CASE size \notin {0, 1}
  <2>1. /\ r_ptr' = 0 /\ w_ptr' = 0 /\ buffer' = allocate(Len(buffer))
        /\ Finish(t, Contents, 0)
    BY <1>3 DEF read_all_unlocked
  <2>2. Contents \in Seq(Values \cup {Zero}) /\ 0 \in Nat
    BY ContentsFacts DEF IInv
  <2> QED  BY <2>1, <2>2, TakeAllFacts, FinishFacts, SleepersFacts, Parts
<1> QED  BY <1>1, <1>2, <1>3

\* A call that returns before it has locked the mutex.
LEMMA AtOnceStep ==
  ASSUME IInv, NEW t \in Threads, pc[t] = "check",
         NEW values \in Seq(Values \cup {Zero}), NEW n \in Nat,
         ReturnAtOnce(t, values, n)
  PROVE  IInv'
<1>1. /\ result' = [result EXCEPT ![t] = [got |-> values, items |-> n]]
      /\ pc' = [pc EXCEPT ![t] = "return"]
      /\ key' = key /\ op' = op /\ arg' = arg
      /\ UNCHANGED queueVars /\ r_ptr' = r_ptr /\ w_ptr' = w_ptr
  BY DEF ReturnAtOnce, Return, Goto, queueVars
<1>2. result' \in [Threads -> [got : Seq(Values \cup {Zero}), items : Nat]]
  BY <1>1 DEF IInv, TypeOK
<1>3. ControlInv'
  BY <1>1, <1>2 DEF ControlInv, IInv, TypeOK, KeyInv, ArgInv, PCs
<1>4. RoomInv'
  BY <1>1, SameBuffer DEF RoomInv, IInv, TypeOK
<1>5. NoSleeper'
  BY <1>1, SleepersFacts DEF Owed, IInv, TypeOK
<1> QED  BY <1>1, <1>3, <1>4, <1>5, SameBuffer, Parts

\* size(), and the test before the mutex is locked.
LEMMA CheckStep ==
  ASSUME IInv, NEW t \in Threads, check(t)
  PROVE  IInv'
<1>1. pc[t] = "check"
  BY DEF check
<1>2. CASE ReturnAtOnce(t, <<>>, size)
  BY <1>1, <1>2, NothingFacts, SizeFacts, AtOnceStep DEF IInv
<1>3. CASE ReturnAtOnce(t, <<>>, 0)
  BY <1>1, <1>3, NothingFacts, AtOnceStep
<1>4. CASE Goto(t, "lock") /\ UNCHANGED <<queueVars, key, op, arg, result>>
  <2>1. /\ pc' = [pc EXCEPT ![t] = "lock"]
        /\ key' = key /\ op' = op /\ arg' = arg /\ result' = result
        /\ UNCHANGED queueVars /\ r_ptr' = r_ptr /\ w_ptr' = w_ptr
    BY <1>4 DEF Goto, queueVars
  <2>2. ControlInv'
    BY <1>1, <2>1 DEF ControlInv, IInv, TypeOK, KeyInv, ArgInv, PCs
  <2>3. RoomInv'
    BY <2>1, SameBuffer DEF RoomInv, IInv, TypeOK
  <2>4. NoSleeper'
    BY <1>1, <2>1, SleepersFacts DEF Owed, IInv, TypeOK
  <2> QED  BY <2>1, <2>2, <2>3, <2>4, SameBuffer, Parts
<1> QED  BY <1>2, <1>3, <1>4 DEF check

\* The program calls a method.
LEMMA CallStep ==
  ASSUME IInv, NEW t \in Threads, NEW o \in Ops, Call(t, o)
  PROVE  IInv'
<1>1. PICK v \in (IF o = "write" THEN Values ELSE {Zero}) :
        /\ pc[t] = "idle"
        /\ pc' = [pc EXCEPT ![t] = IF o \in {"read", "read_array", "write"}
                                     THEN "lock" ELSE "check"]
        /\ op' = [op EXCEPT ![t] = o] /\ arg' = [arg EXCEPT ![t] = v]
        /\ key' = key /\ result' = result
        /\ UNCHANGED queueVars /\ r_ptr' = r_ptr /\ w_ptr' = w_ptr
  BY DEF Call, Goto, queueVars
<1>2. v \in Values \cup {Zero} /\ (o = "write" => v \in Values) /\ o \in AllOps
  BY QueueAssumption
<1>3. pc' \in [Threads -> PCs] /\ op' \in [Threads -> AllOps \cup {"none"}]
      /\ arg' \in [Threads -> Values \cup {Zero}]
  BY <1>1, <1>2 DEF IInv, TypeOK, PCs
<1>4. KeyInv' /\ ArgInv'
  BY <1>1, <1>2 DEF KeyInv, ArgInv, IInv, TypeOK
<1>5. ControlInv'
  BY <1>1, <1>3, <1>4 DEF ControlInv, IInv, TypeOK
<1>6. RoomInv'
  BY <1>1, SameBuffer DEF RoomInv, IInv, TypeOK
<1>7. NoSleeper'
  BY <1>1, SleepersFacts DEF Owed, IInv, TypeOK
<1> QED  BY <1>1, <1>5, <1>6, <1>7, SameBuffer, Parts

\* The mutex is locked: the thread is alone in a body, with room to write.
LEMMA LockStep ==
  ASSUME IInv, NEW t \in Threads, lock(t)
  PROVE  IInv'
<1>1. /\ pc[t] = "lock" /\ key = NoThread /\ key' = t
      /\ pc' = [pc EXCEPT ![t] = "body"]
      /\ op[t] = "write" => size < MaxItems
      /\ op' = op /\ arg' = arg /\ result' = result
      /\ UNCHANGED queueVars /\ r_ptr' = r_ptr /\ w_ptr' = w_ptr
  BY DEF lock, Goto, queueVars
<1>2. ControlInv'
  BY <1>1, QueueAssumption DEF ControlInv, IInv, TypeOK, KeyInv, ArgInv, PCs
<1>3. RoomInv'
  BY <1>1, SameBuffer DEF RoomInv, IInv, TypeOK
<1>4. NoSleeper'
  BY <1>1, SleepersFacts DEF Owed, IInv, TypeOK
<1> QED  BY <1>1, <1>2, <1>3, <1>4, SameBuffer, Parts

\* The key is dropped; a writer still owes its broadcast.
LEMMA UnlockStep ==
  ASSUME IInv, NEW t \in Threads, unlock(t)
  PROVE  IInv'
<1>1. /\ pc[t] = "unlock" /\ key' = NoThread
      /\ pc' = [pc EXCEPT ![t] = IF op[t] = "write" THEN "broadcast" ELSE "return"]
      /\ op' = op /\ arg' = arg /\ result' = result
      /\ UNCHANGED queueVars /\ r_ptr' = r_ptr /\ w_ptr' = w_ptr
  BY DEF unlock, Goto, queueVars
<1>2. ControlInv'
  BY <1>1, QueueAssumption DEF ControlInv, IInv, TypeOK, KeyInv, ArgInv, PCs
<1>3. RoomInv'
  BY <1>1, SameBuffer DEF RoomInv, IInv, TypeOK
<1>4. NoSleeper'
  BY <1>1, SleepersFacts DEF Owed, IInv, TypeOK
<1> QED  BY <1>1, <1>2, <1>3, <1>4, SameBuffer, Parts

\* r_cond::broadcast() leaves no sleeper.
LEMMA BroadcastStep ==
  ASSUME IInv, NEW t \in Threads, broadcast(t)
  PROVE  IInv'
<1>1. /\ pc[t] = "broadcast" /\ key' = key
      /\ pc' = [u \in Threads |-> IF u = t THEN "return"
                                  ELSE IF pc[u] = "r_wait" THEN "lock" ELSE pc[u]]
      /\ op' = op /\ arg' = arg /\ result' = result
      /\ UNCHANGED queueVars
  BY DEF broadcast
<1>2. ControlInv'
  BY <1>1 DEF ControlInv, IInv, TypeOK, KeyInv, ArgInv, PCs
<1>3. RoomInv'
  BY <1>1, SameBuffer DEF RoomInv, IInv, TypeOK
<1>4. NoSleeper'
  BY <1>1 DEF NoSleeper
<1> QED  BY <1>1, <1>2, <1>3, <1>4, SameBuffer, Parts

\* The program gets the result.
LEMMA ReturnStep ==
  ASSUME IInv, NEW t \in Threads, return(t)
  PROVE  IInv'
<1>1. /\ pc[t] = "return" /\ key' = key
      /\ pc' = [pc EXCEPT ![t] = "idle"]
      /\ op' = [op EXCEPT ![t] = "none"] /\ arg' = [arg EXCEPT ![t] = Zero]
      /\ result' = [result EXCEPT ![t] = [got |-> <<>>, items |-> 0]]
      /\ UNCHANGED queueVars /\ r_ptr' = r_ptr /\ w_ptr' = w_ptr
  BY DEF return, Goto, Return, queueVars
<1>2. result' \in [Threads -> [got : Seq(Values \cup {Zero}), items : Nat]]
  BY <1>1, NothingFacts DEF IInv, TypeOK
<1>3. ControlInv'
  BY <1>1, <1>2 DEF ControlInv, IInv, TypeOK, KeyInv, ArgInv, PCs
<1>4. RoomInv'
  BY <1>1, SameBuffer DEF RoomInv, IInv, TypeOK
<1>5. NoSleeper'
  BY <1>1, SleepersFacts DEF Owed, IInv, TypeOK
<1> QED  BY <1>1, <1>3, <1>4, <1>5, SameBuffer, Parts

\* write(): the writer owes the sleepers a broadcast from here on.
LEMMA WriteStep ==
  ASSUME IInv, NEW t \in Threads, write(t)
  PROVE  IInv'
<1>1. pc[t] = "body" /\ op[t] = "write" /\ Finish(t, <<>>, size + 1)
  BY DEF write, InBody
<1>2. size + 1 \in Nat
  BY SizeFacts DEF IInv
<1>3. /\ ControlInv' /\ RoomInv'
      /\ \A u \in Threads : pc'[u] = "r_wait" => pc[u] = "r_wait"
      /\ \A u \in Threads : Owed(u) => Owed(u)'
      /\ op'[t] = op[t] /\ pc'[t] = "unlock"
  BY <1>1, <1>2, NothingFacts, FinishFacts
<1>4. Owed(t)'
  BY <1>1, <1>3 DEF Owed
<1>5. NoSleeper'
  BY <1>3, <1>4, SleepersFacts
<1> QED  BY <1>3, <1>5, WriteFacts, Parts

\* The methods that read or look.
LEMMA ReadStep ==
  ASSUME IInv, NEW t \in Threads,
         \/ read(t) \/ try_read(t) \/ peek(t)
         \/ read_array(t) \/ try_read_array(t) \/ peek_array(t)
  PROVE  IInv'
<1>1. pc[t] = "body"
  BY DEF read, try_read, peek, read_array, try_read_array, peek_array, InBody
<1>2. CASE w_ptr = r_ptr /\ Wait(t)
  BY <1>1, <1>2, WaitStep
<1>3. CASE w_ptr # r_ptr /\ TakeFirst(t)
  BY <1>1, <1>3, FinishTakeFirst
<1>4. CASE Finish(t, <<>>, 0) /\ UNCHANGED queueVars
  BY <1>1, <1>4, NothingFacts, FinishOnly
<1>5. CASE w_ptr # r_ptr /\ Finish(t, <<buffer[r_ptr + 1]>>, 0) /\ UNCHANGED queueVars
  <2>1. buffer[r_ptr + 1] \in Values \cup {Zero}
    BY <1>5 DEF IInv, TypeOK
  <2>2. <<buffer[r_ptr + 1]>> \in Seq(Values \cup {Zero}) /\ 0 \in Nat
    BY <2>1
  <2> QED  BY <1>1, <1>5, <2>2, FinishOnly
<1>6. CASE Finish(t, Contents, 0) /\ UNCHANGED queueVars
  BY <1>1, <1>6, NothingFacts, ContentsFacts, FinishOnly DEF IInv
<1>7. CASE read_all_unlocked(t)
  BY <1>1, <1>7, ReadAllStep
<1> QED
  BY <1>2, <1>3, <1>4, <1>5, <1>6, <1>7
  DEF read, try_read, peek, read_array, try_read_array, peek_array

\* create(): a new Queue is empty.
LEMMA InitStep == Init => IInv
<1> SUFFICES ASSUME Init PROVE IInv
  OBVIOUS
<1>1. /\ buffer \in Seq(Values \cup {Zero}) /\ Len(buffer) = FirstLength
      /\ \A i \in 1..FirstLength : buffer[i] = Zero
  BY QueueAssumption, AllocateFacts DEF Init
<1>2. TypeOK
  BY <1>1, NothingFacts, QueueAssumption DEF Init, TypeOK, PCs
<1>3. NoStaleReference
  BY <1>1 DEF Init, NoStaleReference
<1>4. KeyInv /\ ArgInv /\ RoomInv /\ NoSleeper
  BY QueueAssumption DEF Init, KeyInv, ArgInv, RoomInv, NoSleeper
<1> QED  BY <1>2, <1>3, <1>4 DEF IInv

\* A step that changes nothing.
LEMMA Stutter ==
  ASSUME IInv, UNCHANGED vars
  PROVE  IInv'
<1>1. /\ UNCHANGED queueVars /\ r_ptr' = r_ptr /\ w_ptr' = w_ptr
      /\ key' = key /\ op' = op /\ arg' = arg /\ pc' = pc /\ result' = result
  BY DEF vars, queueVars
<1>2. ControlInv'
  BY <1>1 DEF ControlInv, IInv, TypeOK, KeyInv, ArgInv
<1>3. RoomInv' /\ NoSleeper'
  BY <1>1, SameBuffer DEF RoomInv, NoSleeper, IInv
<1> QED  BY <1>1, <1>2, <1>3, SameBuffer, Parts

\* IInv holds in every state of a Queue.
THEOREM Invariance == Spec => []IInv
<1>1. IInv /\ [Next]_vars => IInv'
  <2> SUFFICES ASSUME IInv, [Next]_vars PROVE IInv'
    OBVIOUS
  <2>1. ASSUME NEW t \in Threads, NEW o \in Ops, Call(t, o) PROVE IInv'
    BY <2>1, CallStep
  <2>2. ASSUME NEW t \in Threads, Continue(t) PROVE IInv'
    BY <2>2, CheckStep, LockStep, UnlockStep, ReturnStep, BroadcastStep, ReadStep,
       WriteStep
    DEF Continue
  <2> QED  BY <2>1, <2>2, Stutter DEF Next
<1> QED  BY <1>1, InitStep, PTL DEF Spec

\* Every field keeps its type, r_ptr <= w_ptr <= sizeof(buffer), and every
\* index of the buffer that the methods use is in range.
THEOREM QueueTypeCorrect == Spec => []TypeOK
<1>1. IInv => TypeOK
  BY DEF IInv
<1> QED  BY <1>1, Invariance, PTL

\* No reader of a Queue sleeps beside data, unless a write() that has put it
\* there is about to call r_cond::broadcast().
THEOREM QueueNoSleeper == Spec => []NoSleeper
<1>1. IInv => NoSleeper
  BY DEF IInv
<1> QED  BY <1>1, Invariance, PTL

-----------------------------------------------------------------------------
(* The buffer implements the queue.                                        *)

\* What a step has to be in the abstract queue.
QStep == Q!Next \/ UNCHANGED Q!vars

\* A step that is not seen.
LEMMA Unseen ==
  ASSUME IInv, UNCHANGED queueVars, result' = result
  PROVE  QStep
  BY SameBuffer DEF QStep, Q!vars

\* A body that returns without a change of the queue.
LEMMA SeenReturn ==
  ASSUME IInv, NEW t \in Threads, UNCHANGED queueVars,
         NEW values, NEW n, Q!Return(t, values, n),
         \/ values = <<>> /\ n = size
         \/ values = <<>> /\ n = 0
         \/ values = Contents /\ n = 0
         \/ values = <<buffer[r_ptr + 1]>> /\ n = 0 /\ w_ptr # r_ptr
  PROVE  QStep
<1>1. Contents' = Contents
  BY SameBuffer
<1>2. CASE values = <<>> /\ n = size
  <2>1. Q!Size(t)
    BY <1>1, <1>2, ContentsFacts DEF IInv, Q!Size
  <2> QED  BY <2>1 DEF QStep, Q!Next
<1>3. CASE values = <<>> /\ n = 0
  <2>1. Q!End(t)
    BY <1>1, <1>3 DEF Q!End
  <2> QED  BY <2>1 DEF QStep, Q!Next
<1>4. CASE values = Contents /\ n = 0
  <2>1. Q!PeekAll(t)
    BY <1>1, <1>4 DEF Q!PeekAll
  <2> QED  BY <2>1 DEF QStep, Q!Next
<1>5. CASE values = <<buffer[r_ptr + 1]>> /\ n = 0 /\ w_ptr # r_ptr
  <2>1. Contents # <<>> /\ Head(Contents) = buffer[r_ptr + 1]
    <3>1. size \in Nat /\ size # 0
      BY <1>5, SizeFacts DEF IInv
    <3> QED  BY <3>1, ContentsFacts, <1>5 DEF IInv
  <2>2. Q!Peek(t)
    BY <1>1, <1>5, <2>1 DEF Q!Peek
  <2> QED  BY <2>2 DEF QStep, Q!Next
<1> QED  BY <1>2, <1>3, <1>4, <1>5

\* A body that takes the first value is a Read of the queue.
LEMMA SeenTakeFirst ==
  ASSUME IInv, NEW t \in Threads, TakeFirst(t), w_ptr # r_ptr
  PROVE  QStep
<1>1. Q!Return(t, <<buffer[r_ptr + 1]>>, 0)
  BY DEF TakeFirst, Finish, Return, Q!Return
<1>2. Q!Read(t)
  BY <1>1, TakeFirstFacts DEF Q!Read
<1> QED  BY <1>2 DEF QStep, Q!Next

\* read_all_unlocked() fails, reads the only value or reads all of them.
LEMMA SeenReadAll ==
  ASSUME IInv, NEW t \in Threads, read_all_unlocked(t)
  PROVE  QStep
<1>1. CASE size = 0
  <2>1. Q!Return(t, <<>>, 0) /\ UNCHANGED queueVars
    BY <1>1 DEF read_all_unlocked, Finish, Return, Q!Return
  <2> QED  BY <2>1, SeenReturn
<1>2. CASE size = 1
  <2>1. TakeFirst(t) /\ w_ptr # r_ptr
    BY <1>2, SizeFacts DEF read_all_unlocked, IInv
  <2> QED  BY <2>1, SeenTakeFirst
<1>3. CASE size \notin {0, 1}
  <2>1. /\ r_ptr' = 0 /\ w_ptr' = 0 /\ buffer' = allocate(Len(buffer))
        /\ Q!Return(t, Contents, 0)
    BY <1>3 DEF read_all_unlocked, Finish, Return, Q!Return
  <2>2. Contents' = <<>>
    BY <2>1, TakeAllFacts
  <2>3. Contents # <<>>
    BY <1>3, SizeFacts, ContentsFacts DEF IInv
  <2>4. Q!ReadAll(t)
    BY <2>1, <2>2, <2>3 DEF Q!ReadAll
  <2> QED  BY <2>4 DEF QStep, Q!Next
<1> QED  BY <1>1, <1>2, <1>3

\* write() is a Write of the value it was called with.
LEMMA SeenWrite ==
  ASSUME IInv, NEW t \in Threads, write(t)
  PROVE  QStep
<1>1. pc[t] = "body" /\ op[t] = "write" /\ Q!Return(t, <<>>, size + 1)
  BY DEF write, InBody, Finish, Return, Q!Return
<1>2. arg[t] \in Values /\ size < MaxItems /\ Len(Contents) = size
  BY <1>1, ContentsFacts DEF IInv, ArgInv, RoomInv
<1>3. Q!Write(t, arg[t])
  BY <1>1, <1>2, WriteFacts DEF Q!Write
<1> QED  BY <1>2, <1>3 DEF QStep, Q!Next

\* Every method that reads or looks is one operation of the queue.
LEMMA SeenRead ==
  ASSUME IInv, NEW t \in Threads,
         \/ read(t) \/ try_read(t) \/ peek(t)
         \/ read_array(t) \/ try_read_array(t) \/ peek_array(t)
  PROVE  QStep
<1>1. CASE w_ptr = r_ptr /\ Wait(t)
  BY <1>1, Unseen DEF Wait
<1>2. CASE w_ptr # r_ptr /\ TakeFirst(t)
  BY <1>2, SeenTakeFirst
<1>3. CASE Finish(t, <<>>, 0) /\ UNCHANGED queueVars
  <2>1. Q!Return(t, <<>>, 0)
    BY <1>3 DEF Finish, Return, Q!Return
  <2> QED  BY <1>3, <2>1, SeenReturn
<1>4. CASE w_ptr # r_ptr /\ Finish(t, <<buffer[r_ptr + 1]>>, 0) /\ UNCHANGED queueVars
  <2>1. Q!Return(t, <<buffer[r_ptr + 1]>>, 0)
    BY <1>4 DEF Finish, Return, Q!Return
  <2> QED  BY <1>4, <2>1, SeenReturn
<1>5. CASE Finish(t, Contents, 0) /\ UNCHANGED queueVars
  <2>1. Q!Return(t, Contents, 0)
    BY <1>5 DEF Finish, Return, Q!Return
  <2> QED  BY <1>5, <2>1, SeenReturn
<1>6. CASE read_all_unlocked(t)
  BY <1>6, SeenReadAll
<1> QED
  BY <1>1, <1>2, <1>3, <1>4, <1>5, <1>6
  DEF read, try_read, peek, read_array, try_read_array, peek_array

\* The test before the mutex is locked is a ReadFails or a Size, or not seen.
LEMMA SeenCheck ==
  ASSUME IInv, NEW t \in Threads, check(t)
  PROVE  QStep
<1>1. CASE ReturnAtOnce(t, <<>>, size)
  <2>1. Q!Return(t, <<>>, size) /\ UNCHANGED queueVars
    BY <1>1 DEF ReturnAtOnce, Return, Q!Return
  <2> QED  BY <2>1, SeenReturn
<1>2. CASE ReturnAtOnce(t, <<>>, 0)
  <2>1. Q!Return(t, <<>>, 0) /\ UNCHANGED queueVars
    BY <1>2 DEF ReturnAtOnce, Return, Q!Return
  <2> QED  BY <2>1, SeenReturn
<1>3. CASE UNCHANGED <<queueVars, key, op, arg, result>>
  BY <1>3, Unseen
<1> QED  BY <1>1, <1>2, <1>3 DEF check

\* The caller gets what the call returned.
LEMMA SeenEnd ==
  ASSUME IInv, NEW t \in Threads, return(t)
  PROVE  QStep
<1>1. Q!Return(t, <<>>, 0) /\ UNCHANGED queueVars
  BY DEF return, Return, Q!Return
<1> QED  BY <1>1, SeenReturn

\* A Queue is one shared queue of values: for any number of threads, whatever
\* the buffer's length and however it grows, every call takes effect at one
\* moment, values leave in the order in which they came, and none is lost or
\* read twice.
THEOREM QueueImplements == Spec => ImplementsQueue
<1>1. Init => Q!Init
  <2> SUFFICES ASSUME Init PROVE Q!Init
    OBVIOUS
  <2>1. Contents = <<>>
    BY InitStep, ContentsFacts DEF Init, IInv
  <2> QED  BY <2>1 DEF Init, Q!Init, Q!Nothing
<1>2. IInv /\ [Next]_vars => [Q!Next]_(Q!vars)
  <2> SUFFICES ASSUME IInv, [Next]_vars PROVE QStep
    BY DEF QStep
  <2>1. ASSUME NEW t \in Threads, NEW o \in Ops, Call(t, o) PROVE QStep
    BY <2>1, Unseen DEF Call
  <2>2. ASSUME NEW t \in Threads, Continue(t) PROVE QStep
    <3>1. CASE lock(t) \/ unlock(t) \/ broadcast(t)
      BY <3>1, Unseen DEF lock, unlock, broadcast
    <3> QED
      BY <2>2, <3>1, SeenCheck, SeenEnd, SeenRead, SeenWrite DEF Continue
  <2>3. CASE UNCHANGED vars
    BY <2>3, Unseen DEF vars, queueVars
  <2> QED  BY <2>1, <2>2, <2>3 DEF Next
<1> QED  BY <1>1, <1>2, Invariance, PTL DEF Spec, ImplementsQueue, Q!Spec

=============================================================================
