------------------------- MODULE ResourceCount_proofs ------------------------
(***************************************************************************)
(* Theorems about Thread.ResourceCount, for every set of users, every set  *)
(* of levels and every bound on the keys: the counter is the number of     *)
(* keys, for any number of waiters, and no wakeup is lost, for one waiter. *)
(***************************************************************************)
EXTENDS ResourceCount, FiniteSetTheorems, TLAPS

-----------------------------------------------------------------------------
(* The counter.                                                            *)

\* There are finitely many destructors at work, before and after a step.
LEMMA FewReleasing ==
  /\ IsFiniteSet(Releasing) /\ Cardinality(Releasing) \in Nat
  /\ IsFiniteSet(Releasing') /\ Cardinality(Releasing') \in Nat
<1>1. IsFiniteSet(Releasing) /\ IsFiniteSet(Releasing')
  BY CountAssumption, FS_Subset DEF Releasing
<1> QED  BY <1>1, FS_CardinalityType

\* No key is made or dropped.
LEMMA SameCount ==
  ASSUME TypeOK, CountInv, UNCHANGED <<count, keys>>,
         \A t \in Threads : pc'[t] = "release" <=> pc[t] = "release"
  PROVE  CountInv'
<1>1. Releasing' = Releasing
  BY DEF Releasing
<1> QED  BY <1>1 DEF CountInv

-----------------------------------------------------------------------------
(* The actions.                                                            *)

\* A signal wakes sleepers and nobody else.
LEMMA SignalFacts ==
  ASSUME TypeOK, NEW t \in Threads, pc[t] \in {"signal", "wakeup signal"}, signal(t)
  PROVE  /\ pc' \in [Threads -> PCs] /\ pc'[t] = "return"
         /\ \A u \in Threads \ {t} : pc'[u] = pc[u] \/ (pc[u] = "asleep" /\ pc'[u] = "wait")
         /\ Sleepers # {} => \E u \in Threads : pc[u] = "asleep" /\ pc'[u] = "wait"
<1>1. PICK W \in SUBSET Sleepers :
        /\ Sleepers # {} => W # {}
        /\ pc' = [u \in Threads |-> IF u = t THEN "return"
                                    ELSE IF u \in W THEN "wait" ELSE pc[u]]
  BY DEF signal
<1>2. \A u \in W : u \in Threads /\ pc[u] = "asleep" /\ u # t
  BY DEF Sleepers
<1>3. /\ pc' \in [Threads -> PCs] /\ pc'[t] = "return"
      /\ \A u \in Threads \ {t} : pc'[u] = pc[u] \/ (pc[u] = "asleep" /\ pc'[u] = "wait")
  BY <1>1, <1>2 DEF TypeOK, PCs
<1>4. ASSUME Sleepers # {} PROVE \E u \in Threads : pc[u] = "asleep" /\ pc'[u] = "wait"
  <2>1. PICK u \in W : TRUE
    BY <1>1, <1>4
  <2>2. u \in Threads /\ pc[u] = "asleep" /\ pc'[u] = "wait"
    BY <1>1, <1>2, <2>1
  <2> QED  BY <2>2
<1> QED  BY <1>3, <1>4

\* A thread locks the mutex for one of three reasons.
LEMMA LockFacts ==
  ASSUME TypeOK, NEW t \in Threads, lock(t)
  PROVE  /\ \/ pc[t] = "acquire" /\ pc'[t] = "acquired"
            \/ pc[t] = "wait" /\ pc'[t] = "check"
            \/ pc[t] = "wakeup" /\ pc'[t] = "wakeup signal"
         /\ pc' \in [Threads -> PCs] /\ \A u \in Threads \ {t} : pc'[u] = pc[u]
<1>1. PICK where \in Locks : pc[t] = where[1] /\ pc' = [pc EXCEPT ![t] = where[2]]
  BY DEF lock, Goto
<1>2. \/ where[1] = "acquire" /\ where[2] = "acquired"
      \/ where[1] = "wait" /\ where[2] = "check"
      \/ where[1] = "wakeup" /\ where[2] = "wakeup signal"
  <2>1. \/ where = <<"acquire", "acquired">> \/ where = <<"wait", "check">>
        \/ where = <<"wakeup", "wakeup signal">>
    BY DEF Locks
  <2>2. CASE where = <<"acquire", "acquired">>
    BY <2>2
  <2>3. CASE where = <<"wait", "check">>
    BY <2>3
  <2>4. CASE where = <<"wakeup", "wakeup signal">>
    BY <2>4
  <2> QED  BY <2>1, <2>2, <2>3, <2>4
<1>3. where[2] \in PCs
  BY <1>2 DEF PCs
<1> QED  BY <1>1, <1>2, <1>3 DEF TypeOK

\* One step of one thread t, where the others at most wake up: what is left to
\* show when the counter does not change.
Quiet(t) ==
  /\ UNCHANGED <<count, keys, level>>
  /\ pc' \in [Threads -> PCs] /\ callouts' \in Nat /\ mutex' \in Threads \cup {NoThread}
  /\ \A u \in Threads \ {t} : pc'[u] = pc[u] \/ (pc[u] = "asleep" /\ pc'[u] = "wait")
  /\ pc[t] # "release" /\ pc'[t] # "release"
  /\ pc'[t] \in {"acquired", "check", "sleep", "wakeup signal"} => mutex' = t
  /\ mutex' = mutex \/ mutex = NoThread \/ mutex = t
  /\ pc'[t] \in {"wait", "check", "sleep", "asleep"} => t \in Waiters
  /\ pc'[t] = "sleep" => ~Drained(t)
  /\ callouts > 0 => callouts' > 0 \/ pc'[t] = "wakeup"
  /\ pc[t] = "wakeup" => pc'[t] = "wakeup" \/ mutex = NoThread

\* Such a step keeps the invariant.
LEMMA QuietStep ==
  ASSUME IInv, NEW t \in Threads, Quiet(t)
  PROVE  IInv'
<1> USE DEF Quiet
<1>0. TypeOK /\ CountInv /\ MutexInv /\ WaiterInv /\ SleepInv
  BY DEF IInv
<1>1. TypeOK'
  BY <1>0 DEF TypeOK
<1>2. CountInv'
  BY <1>0, SameCount
<1>3. MutexInv'
  BY <1>0, CountAssumption DEF MutexInv
<1>4. WaiterInv'
  BY <1>0 DEF WaiterInv
<1>5. SleepInv'
  <2> SUFFICES ASSUME NEW u \in Threads, pc'[u] = "sleep", Drained(u)'
               PROVE  callouts' > 0 \/ \E w \in Threads : pc'[w] = "wakeup"
    BY DEF SleepInv
  <2>1. Drained(u)
    BY DEF Drained
  <2>2. u # t /\ pc[u] = "sleep"
    BY <2>1
  <2>3. mutex = u /\ mutex # NoThread
    BY <1>0, <2>2, CountAssumption DEF MutexInv
  <2>4. CASE callouts > 0
    BY <2>4
  <2>5. CASE \E w \in Threads : pc[w] = "wakeup"
    BY <2>3, <2>5
  <2> QED  BY <1>0, <2>1, <2>2, <2>4, <2>5 DEF SleepInv
<1> QED  BY <1>1, <1>2, <1>3, <1>4, <1>5 DEF IInv

\* The steps that leave the counter alone.
LEMMA QuietSteps ==
  ASSUME IInv, NEW t \in Threads,
         \/ lock(t) \/ Return(t) \/ ReleaseSignals(t) \/ Check(t) \/ Sleep(t)
         \/ async_wakeup(t) \/ WakeupSignals(t) \/ acquire(t)
  PROVE  IInv'
<1> SUFFICES Quiet(t)
  BY QuietStep
<1>0. TypeOK /\ MutexInv /\ WaiterInv /\ pc \in [Threads -> PCs] /\ callouts \in Nat
        /\ mutex \in Threads \cup {NoThread}
  BY DEF IInv, TypeOK
<1>1. CASE lock(t)
  <2>1. /\ UNCHANGED <<count, keys, level>> /\ callouts' = callouts
        /\ mutex = NoThread /\ mutex' = t
    BY <1>1 DEF lock
  <2> QED  BY <1>0, <1>1, <2>1, LockFacts DEF Quiet, WaiterInv
<1>2. CASE Return(t)
  <2>1. /\ UNCHANGED <<count, keys, level>> /\ callouts' = callouts
        /\ mutex' = mutex \/ mutex = t
        /\ pc[t] = "return" /\ mutex' \in Threads \cup {NoThread}
    BY <1>0, <1>2 DEF Return
  <2>2. /\ pc'[t] = "run" /\ pc' \in [Threads -> PCs]
        /\ \A u \in Threads \ {t} : pc'[u] = pc[u]
    BY <1>0, <1>2 DEF Return, Goto, PCs
  <2> QED  BY <1>0, <2>1, <2>2 DEF Quiet
<1>3. CASE ReleaseSignals(t) \/ WakeupSignals(t)
  <2>1. /\ UNCHANGED <<count, keys, level>> /\ callouts' = callouts /\ mutex' = mutex
        /\ pc[t] \in {"signal", "wakeup signal"} /\ signal(t)
    BY <1>3 DEF ReleaseSignals, WakeupSignals
  <2> QED  BY <1>0, <2>1, SignalFacts DEF Quiet
<1>4. CASE Check(t)
  <2>1. /\ UNCHANGED <<count, keys, level>> /\ callouts' = callouts /\ mutex' = mutex
        /\ pc[t] = "check" /\ mutex = t /\ t \in Waiters
    BY <1>0, <1>4 DEF Check, MutexInv, WaiterInv
  <2>2. /\ pc'[t] \in {"sleep", "return"} /\ pc' \in [Threads -> PCs]
        /\ pc'[t] = "sleep" => count > level[t]
        /\ \A u \in Threads \ {t} : pc'[u] = pc[u]
    BY <1>0, <1>4 DEF Check, Goto, PCs
  <2>3. pc'[t] = "sleep" => ~Drained(t)
    BY <1>0, <2>2 DEF Drained, TypeOK
  <2> QED  BY <1>0, <2>1, <2>2, <2>3 DEF Quiet
<1>5. CASE Sleep(t)
  <2>1. /\ UNCHANGED <<count, keys, level>> /\ callouts' = callouts /\ mutex' = NoThread
        /\ pc[t] = "sleep" /\ mutex = t /\ t \in Waiters
    BY <1>0, <1>5 DEF Sleep, MutexInv, WaiterInv
  <2>2. /\ pc'[t] = "asleep" /\ pc' \in [Threads -> PCs]
        /\ \A u \in Threads \ {t} : pc'[u] = pc[u]
    BY <1>0, <1>5 DEF Sleep, Goto, PCs
  <2> QED  BY <1>0, <2>1, <2>2 DEF Quiet
<1>6. CASE async_wakeup(t)
  <2>1. /\ UNCHANGED <<count, keys, level>> /\ callouts' \in Nat /\ mutex' = mutex
        /\ pc[t] = "run"
    BY <1>0, <1>6 DEF async_wakeup
  <2>2. /\ pc'[t] = "wakeup" /\ pc' \in [Threads -> PCs]
        /\ \A u \in Threads \ {t} : pc'[u] = pc[u]
    BY <1>0, <1>6 DEF async_wakeup, Goto, PCs
  <2> QED  BY <1>0, <2>1, <2>2 DEF Quiet
<1>7. CASE acquire(t)
  <2>1. /\ UNCHANGED <<count, keys, level>> /\ callouts' = callouts /\ mutex' = mutex
        /\ pc[t] = "run"
    BY <1>7 DEF acquire
  <2>2. /\ pc'[t] = "acquire" /\ pc' \in [Threads -> PCs]
        /\ \A u \in Threads \ {t} : pc'[u] = pc[u]
    BY <1>0, <1>7 DEF acquire, Goto, PCs
  <2> QED  BY <1>0, <2>1, <2>2 DEF Quiet
<1> QED  BY <1>1, <1>2, <1>3, <1>4, <1>5, <1>6, <1>7

\* The argument of wait_till_drained().
LEMMA WaitStep ==
  ASSUME IInv, NEW t \in Threads, NEW l \in Levels, wait_till_drained(t, l)
  PROVE  IInv'
<1>0. TypeOK /\ CountInv /\ MutexInv /\ WaiterInv /\ SleepInv
  BY DEF IInv
<1>1. /\ UNCHANGED <<count, keys>> /\ callouts' = callouts /\ mutex' = mutex
      /\ pc[t] = "run" /\ l \in Nat /\ t \in Waiters
  BY CountAssumption DEF wait_till_drained
<1>2. /\ pc'[t] = "wait" /\ pc' \in [Threads -> PCs]
      /\ \A u \in Threads \ {t} : pc'[u] = pc[u] /\ level'[u] = level[u]
      /\ level' \in [Threads -> Nat]
  BY <1>0, <1>1 DEF wait_till_drained, Goto, PCs, TypeOK
<1>3. TypeOK'
  BY <1>0, <1>1, <1>2 DEF TypeOK
<1>4. CountInv'
  BY <1>0, <1>1, <1>2, SameCount
<1>5. MutexInv' /\ WaiterInv'
  BY <1>0, <1>1, <1>2 DEF MutexInv, WaiterInv
<1>6. SleepInv'
  <2> SUFFICES ASSUME NEW u \in Threads, pc'[u] = "sleep", Drained(u)'
               PROVE  callouts' > 0 \/ \E w \in Threads : pc'[w] = "wakeup"
    BY DEF SleepInv
  <2>1. pc[u] = "sleep" /\ Drained(u)
    BY <1>1, <1>2 DEF Drained
  <2> QED  BY <1>0, <1>1, <1>2, <2>1 DEF SleepInv
<1> QED  BY <1>3, <1>4, <1>5, <1>6 DEF IInv

\* acquire() counts its key with the mutex held: nobody is about to sleep.
LEMMA AcquiredStep ==
  ASSUME IInv, NEW t \in Threads, Acquired(t)
  PROVE  IInv'
<1>0. TypeOK /\ CountInv /\ MutexInv /\ WaiterInv /\ SleepInv
  BY DEF IInv
<1>1. /\ count' = count + 1 /\ keys' = keys + 1 /\ callouts' = callouts /\ mutex' = mutex
      /\ level' = level /\ pc[t] = "acquired"
  BY DEF Acquired
<1>2. /\ pc'[t] = "return" /\ pc' \in [Threads -> PCs]
      /\ \A u \in Threads \ {t} : pc'[u] = pc[u]
  BY <1>0 DEF Acquired, Goto, PCs, TypeOK
<1>3. TypeOK'
  BY <1>0, <1>1, <1>2 DEF TypeOK
<1>4. CountInv'
  <2>1. Releasing' = Releasing
    BY <1>1, <1>2 DEF Releasing
  <2> QED  BY <1>0, <1>1, <2>1, FewReleasing DEF CountInv, TypeOK
<1>5. MutexInv' /\ WaiterInv'
  BY <1>0, <1>1, <1>2 DEF MutexInv, WaiterInv
<1>6. SleepInv'
  <2>1. \A u \in Threads : pc'[u] # "sleep"
    BY <1>0, <1>1, <1>2 DEF MutexInv
  <2> QED  BY <2>1 DEF SleepInv
<1> QED  BY <1>3, <1>4, <1>5, <1>6 DEF IInv

\* A key is dropped: its destructor is at work from here on.
LEMMA DestructStep ==
  ASSUME IInv, NEW t \in Threads, _destruct(t)
  PROVE  IInv'
<1>0. TypeOK /\ CountInv /\ MutexInv /\ WaiterInv /\ SleepInv
  BY DEF IInv
<1>1. /\ count' = count /\ keys > 0 /\ keys' = keys - 1 /\ callouts' = callouts
      /\ mutex' = IF mutex = NoThread THEN t ELSE mutex
      /\ level' = level /\ pc[t] = "run"
  BY DEF _destruct
<1>2. /\ pc'[t] = "release" /\ pc' \in [Threads -> PCs]
      /\ \A u \in Threads \ {t} : pc'[u] = pc[u]
  BY <1>0 DEF _destruct, Goto, PCs, TypeOK
<1>3. TypeOK'
  BY <1>0, <1>1, <1>2 DEF TypeOK
<1>4. CountInv'
  <2>1. Releasing' = Releasing \cup {t} /\ t \notin Releasing
    BY <1>1, <1>2 DEF Releasing
  <2>2. Cardinality(Releasing') = Cardinality(Releasing) + 1
    BY <2>1, FewReleasing, FS_AddElement
  <2> QED  BY <1>0, <1>1, <2>2, FewReleasing DEF CountInv, TypeOK
<1>5. MutexInv' /\ WaiterInv'
  BY <1>0, <1>1, <1>2, CountAssumption DEF MutexInv, WaiterInv
<1>6. SleepInv'
  <2> SUFFICES ASSUME NEW u \in Threads, pc'[u] = "sleep", Drained(u)'
               PROVE  callouts' > 0 \/ \E w \in Threads : pc'[w] = "wakeup"
    BY DEF SleepInv
  <2>1. pc[u] = "sleep" /\ Drained(u)
    BY <1>1, <1>2 DEF Drained
  <2> QED  BY <1>0, <1>1, <1>2, <2>1 DEF SleepInv
<1> QED  BY <1>3, <1>4, <1>5, <1>6 DEF IInv

\* The destructor lowers the counter.  If a waiter is about to sleep, it has
\* the mutex, and the destructor leaves a call_out.
LEMMA ReleaseStep ==
  ASSUME IInv, NEW t \in Threads, Release(t)
  PROVE  IInv'
<1>0. TypeOK /\ CountInv /\ MutexInv /\ WaiterInv /\ SleepInv
  BY DEF IInv
<1>1. /\ count' = count - 1 /\ keys' = keys /\ mutex' = mutex
      /\ callouts' = IF mutex = t THEN callouts ELSE callouts + 1
      /\ level' = level /\ pc[t] = "release"
  BY DEF Release
<1>2. /\ pc'[t] = "signal" /\ pc' \in [Threads -> PCs]
      /\ \A u \in Threads \ {t} : pc'[u] = pc[u]
  BY <1>0 DEF Release, Goto, PCs, TypeOK
<1>3. t \in Releasing /\ Releasing' = Releasing \ {t}
  BY <1>1, <1>2 DEF Releasing
<1>4. Cardinality(Releasing') = Cardinality(Releasing) - 1
  BY <1>3, FewReleasing, FS_RemoveElement
<1>5. count' = keys' + Cardinality(Releasing') /\ count' \in Nat
  BY <1>0, <1>1, <1>4, FewReleasing DEF CountInv, TypeOK
<1>6. TypeOK' /\ CountInv'
  BY <1>0, <1>1, <1>2, <1>5 DEF TypeOK, CountInv
<1>7. MutexInv' /\ WaiterInv'
  BY <1>0, <1>1, <1>2 DEF MutexInv, WaiterInv
<1>8. SleepInv'
  <2> SUFFICES ASSUME NEW u \in Threads, pc'[u] = "sleep"
               PROVE  callouts' > 0
    BY DEF SleepInv
  <2>1. u # t /\ mutex = u
    BY <1>0, <1>2 DEF MutexInv
  <2> QED  BY <1>0, <1>1, <2>1 DEF TypeOK
<1> QED  BY <1>6, <1>7, <1>8 DEF IInv

-----------------------------------------------------------------------------
(* The wakeups.                                                            *)

Coming == callouts > 0 \/ \E u \in Threads : pc[u] \in {"signal", "wakeup", "wakeup signal"}

\* The only waiter is woken by the next signal, whoever sends it.
LEMMA AllWoken ==
  ASSUME IInv, OneWaiter, NEW t \in Threads, pc[t] \in {"signal", "wakeup signal"}, signal(t)
  PROVE  \A u \in Threads : pc'[u] # "asleep"
<1>1. /\ \A u \in Threads \ {t} : pc'[u] = pc[u] \/ (pc[u] = "asleep" /\ pc'[u] = "wait")
      /\ pc'[t] = "return"
      /\ Sleepers # {} => \E u \in Threads : pc[u] = "asleep" /\ pc'[u] = "wait"
  BY SignalFacts DEF IInv
<1>2. \A u \in Threads : pc[u] = "asleep" => u \in Waiters /\ Sleepers # {}
  BY DEF IInv, WaiterInv, Sleepers
<1> QED  BY <1>1, <1>2 DEF OneWaiter

\* A step that lowers the counter, or after which a thread sleeps, comes with
\* a signal.
LEMMA SignalStep ==
  ASSUME IInv, SignalComes, OneWaiter, [Next]_vars
  PROVE  SignalComes'
<1>0. TypeOK /\ MutexInv /\ WaiterInv /\ SleepInv
  BY DEF IInv
<1>1. SignalComes <=> \A u \in Threads : pc[u] = "asleep" /\ Drained(u) => Coming
  BY DEF SignalComes, Sleepers, Coming
<1>2. SignalComes' <=> \A u \in Threads : pc'[u] = "asleep" /\ Drained(u)' => Coming'
  BY DEF SignalComes, Sleepers, Coming
<1>3. ASSUME NEW t \in Threads, pc[t] \in {"signal", "wakeup signal"}, signal(t)
      PROVE  SignalComes'
  BY <1>2, <1>3, AllWoken
<1>4. ASSUME NEW t \in Threads, Release(t)
      PROVE  SignalComes'
  <2>1. pc'[t] = "signal"
    BY <1>0, <1>4 DEF Release, Goto, TypeOK
  <2> QED  BY <1>2, <2>1 DEF Coming
<1>5. ASSUME NEW t \in Threads, Sleep(t)
      PROVE  SignalComes'
  <2>1. /\ pc[t] = "sleep" /\ UNCHANGED <<count, callouts, level>>
        /\ pc'[t] = "asleep" /\ \A u \in Threads \ {t} : pc'[u] = pc[u]
    BY <1>0, <1>5 DEF Sleep, Goto, TypeOK
  <2>2. \A u \in Threads : Drained(u)' = Drained(u)
    BY <2>1 DEF Drained
  <2>3. Coming => Coming'
    BY <2>1 DEF Coming
  <2>4. Drained(t) => Coming
    BY <1>0, <2>1 DEF SleepInv, Coming
  <2> QED  BY <1>1, <1>2, <2>1, <2>2, <2>3, <2>4
<1>6. ASSUME NEW t \in Threads, lock(t)
      PROVE  SignalComes'
  <2>2. UNCHANGED <<count, callouts, level>>
    BY <1>6 DEF lock
  <2>3. /\ \/ pc[t] \in {"acquire", "wait"} /\ pc'[t] \in {"acquired", "check"}
           \/ pc[t] = "wakeup" /\ pc'[t] = "wakeup signal"
        /\ \A u \in Threads \ {t} : pc'[u] = pc[u]
    BY <1>0, <1>6, LockFacts
  <2>4. \A u \in Threads : Drained(u)' = Drained(u)
    BY <2>2 DEF Drained
  <2>5. Coming => Coming'
    BY <2>2, <2>3 DEF Coming
  <2> QED  BY <1>1, <1>2, <2>3, <2>4, <2>5
<1>7. ASSUME NEW t \in Threads,
             \/ Return(t) \/ Acquired(t) \/ Check(t) \/ async_wakeup(t) \/ acquire(t)
             \/ _destruct(t) \/ \E l \in Levels : wait_till_drained(t, l)
      PROVE  SignalComes'
  <2>1. /\ pc[t] \in {"return", "acquired", "check", "run"}
        /\ pc'[t] # "asleep" /\ \A u \in Threads \ {t} : pc'[u] = pc[u]
    BY <1>0, <1>7 DEF Return, Acquired, Check, async_wakeup, acquire, _destruct,
                      wait_till_drained, Goto, TypeOK
  <2>2. /\ count' = count \/ count' = count + 1
        /\ \A u \in Threads \ {t} : level'[u] = level[u]
    BY <1>0, <1>7 DEF Return, Acquired, Check, async_wakeup, acquire, _destruct,
                      wait_till_drained, TypeOK
  <2>3. \A u \in Threads \ {t} : Drained(u)' => Drained(u)
    BY <1>0, <2>2 DEF Drained, TypeOK
  <2>4. callouts' = callouts \/ pc'[t] = "wakeup"
    BY <1>0, <1>7 DEF Return, Acquired, Check, async_wakeup, acquire, _destruct,
                      wait_till_drained, Goto, TypeOK
  <2>5. Coming => Coming'
    BY <2>1, <2>4 DEF Coming
  <2> QED  BY <1>1, <1>2, <2>1, <2>3, <2>5
<1>8. CASE UNCHANGED vars
  BY <1>1, <1>2, <1>8 DEF vars, Drained, Coming
<1>9. CASE Next
  <2>1. PICK t \in Threads :
          \/ Continue(t) \/ acquire(t) \/ _destruct(t)
          \/ \E l \in Levels : wait_till_drained(t, l)
    BY <1>9 DEF Next
  <2>2. CASE ReleaseSignals(t) \/ WakeupSignals(t)
    BY <1>3, <2>2 DEF ReleaseSignals, WakeupSignals
  <2> QED  BY <1>4, <1>5, <1>6, <1>7, <2>1, <2>2 DEF Continue
<1> QED  BY <1>8, <1>9

-----------------------------------------------------------------------------
(* The theorems.                                                           *)

\* The first state.
LEMMA InitInv == Init => IInv /\ SignalComes
<1> SUFFICES ASSUME Init PROVE IInv /\ SignalComes
  OBVIOUS
<1>1. TypeOK /\ MutexInv /\ WaiterInv /\ SleepInv
  BY DEF Init, TypeOK, MutexInv, WaiterInv, SleepInv, PCs
<1>2. Releasing = {} /\ Sleepers = {}
  BY DEF Init, Releasing, Sleepers
<1>3. CountInv
  BY <1>2, FS_EmptySet DEF Init, CountInv
<1> QED  BY <1>1, <1>2, <1>3 DEF IInv, SignalComes

\* Every step.
LEMMA NextInv == IInv /\ [Next]_vars => IInv'
<1> SUFFICES ASSUME IInv, [Next]_vars PROVE IInv'
  OBVIOUS
<1>1. ASSUME NEW t \in Threads, Continue(t) \/ acquire(t) \/ _destruct(t) PROVE IInv'
  BY <1>1, QuietSteps, AcquiredStep, DestructStep, ReleaseStep DEF Continue
<1>2. ASSUME NEW t \in Threads, NEW l \in Levels, wait_till_drained(t, l) PROVE IInv'
  BY <1>2, WaitStep
<1>3. CASE UNCHANGED vars
  BY <1>3 DEF vars, IInv, TypeOK, CountInv, Releasing, MutexInv, WaiterInv, SleepInv, Drained
<1> QED  BY <1>1, <1>2, <1>3 DEF Next

\* The inductive invariant, for any number of waiters.
THEOREM Invariance == Spec => []IInv
BY InitInv, NextInv, PTL DEF Spec

\* The counter is never below zero: it is the number of keys that the program
\* has, and of dropped keys whose destructor has yet to lower it, although
\* destructors lower it without the mutex.
THEOREM CountIsKeys == Spec => [](count \in Nat /\ CountInv)
<1>1. IInv => count \in Nat /\ CountInv
  BY DEF IInv, TypeOK
<1> QED  BY <1>1, Invariance, PTL

\* With one waiter no wakeup is lost: it never sleeps beside a counter that
\* has dipped to its level without a signal on the way.
THEOREM SignalSent == OneWaiter /\ Spec => []SignalComes
<1>1. OneWaiter /\ IInv /\ SignalComes /\ [Next]_vars => SignalComes'
  BY SignalStep
<1>2. OneWaiter => []OneWaiter
  <2>1. OneWaiter => OneWaiter'
    BY DEF OneWaiter
  <2> QED  BY <2>1, PTL
<1> QED  BY <1>1, <1>2, InitInv, Invariance, PTL DEF Spec

=============================================================================
