-------------------------- MODULE ThreadLife_proofs --------------------------
(***************************************************************************)
(* Proofs about two parts of the runtime that share no state: the life of  *)
(* a thread, for every set of threads, and, from "Numbers" on, the cycle   *)
(* check of the garbage collector, for every number of things and every    *)
(* graph of references between them.                                       *)
(***************************************************************************)
EXTENDS ThreadLife, GcCycle, FiniteSetTheorems, WellFoundedInduction, TLAPS

-----------------------------------------------------------------------------
(* The pending signals.                                                    *)

SignalType ==
  /\ flags \in [Threads -> SUBSET {THREAD_FLAG_TERM, THREAD_FLAG_INTR}]
  /\ num_pending_interrupts \in Nat
  /\ thread_interrupt_callback \in BOOLEAN

\* The signalled threads are finitely many.
LEMMA FewSignalled ==
  IsFiniteSet(Signalled) /\ Cardinality(Signalled) \in Nat
<1>1. IsFiniteSet(Signalled)
  BY LifeAssumption, FS_Subset DEF Signalled
<1> QED  BY <1>1, FS_CardinalityType

\* They are after a step.
LEMMA FewSignalledNext ==
  IsFiniteSet(Signalled') /\ Cardinality(Signalled') \in Nat
<1>1. IsFiniteSet(Signalled')
  BY LifeAssumption, FS_Subset DEF Signalled
<1> QED  BY <1>1, FS_CardinalityType

\* Nothing is signalled or served; a thread that has been cleaned up does not
\* count any more.
LEMMA QuietSignals ==
  ASSUME SignalType, SignalInv, UNCHANGED signals,
         \A u \in Threads : cleaned'[u] = 0 => cleaned[u] = 0
  PROVE  SignalType' /\ SignalInv'
<1>1. Signalled' \subseteq Signalled
  BY DEF Signalled, signals
<1>2. Cardinality(Signalled') <= Cardinality(Signalled)
  BY <1>1, FewSignalled, FS_Subset
<1>3. /\ num_pending_interrupts' = num_pending_interrupts
      /\ thread_interrupt_callback' = thread_interrupt_callback
      /\ flags' = flags
  BY DEF signals
<1>4. Cardinality(Signalled') <= num_pending_interrupts'
  BY <1>2, <1>3, FewSignalled, FewSignalledNext DEF SignalInv, SignalType
<1> QED  BY <1>3, <1>4 DEF SignalType, SignalInv

\* One of the threads that have signals is taken off the count.
LEMMA DropSignal ==
  ASSUME SignalType, SignalInv, NEW t \in Signalled, DropPending(1),
         Signalled' \subseteq Signalled \ {t},
         flags' \in [Threads -> SUBSET {THREAD_FLAG_TERM, THREAD_FLAG_INTR}]
  PROVE  SignalType' /\ SignalInv'
<1>1. /\ IsFiniteSet(Signalled \ {t})
      /\ Cardinality(Signalled \ {t}) = Cardinality(Signalled) - 1
  BY FewSignalled, FS_RemoveElement
<1>2. Cardinality(Signalled') <= Cardinality(Signalled) - 1
  BY <1>1, FS_Subset
<1>3. num_pending_interrupts' = num_pending_interrupts - 1
  BY DEF DropPending
<1>4. /\ Cardinality(Signalled') <= num_pending_interrupts'
      /\ num_pending_interrupts' \in Nat
  BY <1>2, <1>3, FewSignalled, FewSignalledNext DEF SignalInv, SignalType
<1>5. thread_interrupt_callback' = (num_pending_interrupts' # 0)
  BY <1>3 DEF DropPending
<1> QED  BY <1>4, <1>5 DEF SignalType, SignalInv

\* interrupt() and kill() of a thread whose object is there.
LEMMA SignalStep ==
  ASSUME SignalType, SignalInv, NEW u \in Threads,
         NEW flag \in {THREAD_FLAG_TERM, THREAD_FLAG_INTR},
         Signal(u, flag), cleaned' = cleaned, cleaned[u] = 0
  PROVE  SignalType' /\ SignalInv'
<1>1. flags' = [flags EXCEPT ![u] = @ \cup {flag}]
  BY DEF Signal
<1>2. flags' \in [Threads -> SUBSET {THREAD_FLAG_TERM, THREAD_FLAG_INTR}]
  BY <1>1 DEF SignalType
<1>3. flags'[u] # {} /\ \A t \in Threads \ {u} : flags'[t] = flags[t]
  BY <1>1 DEF SignalType
<1>4. Signalled' = Signalled \cup {u}
  BY <1>3 DEF Signalled
<1>5. CASE flags[u] = {}
  <2>1. u \notin Signalled
    BY <1>5 DEF Signalled
  <2>2. Cardinality(Signalled') = Cardinality(Signalled) + 1
    BY <1>4, <2>1, FewSignalled, FS_AddElement
  <2>3. /\ num_pending_interrupts' = num_pending_interrupts + 1
        /\ thread_interrupt_callback' = TRUE
    BY <1>5 DEF Signal
  <2>4. /\ Cardinality(Signalled') <= num_pending_interrupts'
        /\ num_pending_interrupts' \in Nat \ {0}
    BY <2>2, <2>3, FewSignalled DEF SignalInv, SignalType
  <2> QED  BY <1>2, <2>3, <2>4 DEF SignalType, SignalInv
<1>6. CASE flags[u] # {}
  <2>1. Signalled' = Signalled
    BY <1>4, <1>6 DEF Signalled
  <2>2. UNCHANGED <<num_pending_interrupts, thread_interrupt_callback>>
    BY <1>6 DEF Signal
  <2> QED  BY <1>2, <2>1, <2>2 DEF SignalType, SignalInv
<1> QED  BY <1>5, <1>6

\* cleanup_thread_state(), whichever thread's signals it clears.
LEMMA CleanupStep ==
  ASSUME TypeOK, SignalInv, NEW cur \in Threads, NEW th \in Threads,
         NEW newstatus, NEW newwaiting, cleaned[th] = 0,
         cleanup_thread_state(cur, th, newstatus, newwaiting)
  PROVE  /\ cleaned' \in [Threads -> Nat]
         /\ \A u \in Threads \ {th} : cleaned'[u] = cleaned[u]
         /\ cleaned'[th] = IF Needed(th, newstatus, newwaiting) THEN 0 ELSE 1
         /\ SignalType' /\ SignalInv'
<1>1. SignalType
  BY DEF TypeOK, SignalType
<1>2. CASE Needed(th, newstatus, newwaiting)
  <2>1. UNCHANGED <<cleaned, signals>>
    BY <1>2 DEF cleanup_thread_state
  <2> QED  BY <1>1, <1>2, <2>1, QuietSignals DEF TypeOK
<1>3. CASE ~Needed(th, newstatus, newwaiting)
  <2>1. cleaned' = [cleaned EXCEPT ![th] = @ + 1]
    BY <1>3 DEF cleanup_thread_state
  <2>2. /\ cleaned' \in [Threads -> Nat] /\ cleaned'[th] = 1
        /\ \A u \in Threads \ {th} : cleaned'[u] = cleaned[u]
    BY <2>1 DEF TypeOK
  <2>3. CASE flags[th] = {}
    <3>1. UNCHANGED signals
      BY <1>3, <2>3 DEF cleanup_thread_state
    <3>2. \A u \in Threads : cleaned'[u] = 0 => cleaned[u] = 0
      BY <2>2
    <3> QED  BY <1>1, <1>3, <2>2, <3>1, <3>2, QuietSignals
  <2>4. CASE flags[th] # {}
    <3>1. flags' = [flags EXCEPT ![cur] = {}] /\ DropPending(1)
      BY <1>3, <2>4 DEF cleanup_thread_state
    <3>2. flags' \in [Threads -> SUBSET {THREAD_FLAG_TERM, THREAD_FLAG_INTR}]
      BY <3>1 DEF TypeOK
    <3>3. \A u \in Threads : flags'[u] # {} => flags[u] # {}
      BY <3>1 DEF TypeOK
    <3>4. th \in Signalled /\ Signalled' \subseteq Signalled \ {th}
      BY <2>2, <2>4, <3>3 DEF Signalled
    <3> QED  BY <1>1, <1>3, <2>2, <3>1, <3>2, <3>4, DropSignal
  <2> QED  BY <2>3, <2>4
<1> QED  BY <1>2, <1>3

-----------------------------------------------------------------------------
(* The calls of wait().                                                    *)

LEMMA FewWaiters ==
  ASSUME NEW u
  PROVE  /\ IsFiniteSet(Waiters(u)) /\ Cardinality(Waiters(u)) \in Nat
         /\ IsFiniteSet(Waiters(u)') /\ Cardinality(Waiters(u)') \in Nat
<1>1. IsFiniteSet(Waiters(u)) /\ IsFiniteSet(Waiters(u)')
  BY LifeAssumption, FS_Subset DEF Waiters
<1> QED  BY <1>1, FS_CardinalityType

\* Nobody begins to wait.
LEMMA WaitersLeave ==
  ASSUME TypeOK, WaitInv, waiting' = waiting,
         \A t \in Threads : pc'[t] \in {"wait", "woken"} =>
           pc[t] \in {"wait", "woken"} /\ target'[t] = target[t]
  PROVE  WaitInv'
<1> SUFFICES ASSUME NEW u \in Threads
             PROVE  Cardinality(Waiters(u)') <= waiting[u]
  BY DEF WaitInv
<1>1. Waiters(u)' \subseteq Waiters(u)
  BY DEF Waiters
<1>2. Cardinality(Waiters(u)') <= Cardinality(Waiters(u))
  BY <1>1, FewWaiters, FS_Subset
<1>3. Cardinality(Waiters(u)) <= waiting[u] /\ waiting[u] \in Nat
  BY LifeAssumption DEF WaitInv, TypeOK
<1> QED  BY <1>2, <1>3, FewWaiters

\* A thread that is in wait() is counted.
LEMMA WaiterCounted ==
  ASSUME TypeOK, WaitInv, NEW t \in Threads, NEW u \in Threads, t \in Waiters(u)
  PROVE  /\ waiting[u] \in Nat \ {0}
         /\ Cardinality(Waiters(u) \ {t}) = Cardinality(Waiters(u)) - 1
<1>1. Cardinality(Waiters(u) \ {t}) = Cardinality(Waiters(u)) - 1
  BY FewWaiters, FS_RemoveElement
<1>2. Cardinality(Waiters(u)) # 0
  BY FewWaiters, FS_EmptySet
<1>3. Cardinality(Waiters(u)) <= waiting[u] /\ waiting[u] \in Nat
  BY DEF WaitInv, TypeOK
<1> QED  BY <1>1, <1>2, <1>3, FewWaiters, LifeAssumption

-----------------------------------------------------------------------------
(* The actions.                                                            *)

PCs == {"none", "new", "run", "create", "wait", "woken", "ended"}
Statuses == {"NOT_STARTED", "RUNNING", "EXITED", "ABORTED"}

\* The rest of the types.
ObjectType ==
  /\ status \in [Threads -> Statuses]
  /\ thread_obj \in [Threads -> BOOLEAN]
  /\ waiting \in [Threads -> Nat]
  /\ cleaned \in [Threads -> Nat]
  /\ pc \in [Threads -> PCs]
  /\ target \in [Threads -> Threads \cup {None}]

\* The type invariant in two parts: the thread objects and the interrupts.
LEMMA Types == TypeOK <=> ObjectType /\ SignalType
BY DEF TypeOK, ObjectType, SignalType, PCs, Statuses

\* The same after a step.
LEMMA TypesNext == ObjectType' /\ SignalType' => TypeOK'
BY DEF TypeOK, ObjectType, SignalType, PCs, Statuses

\* A thread that runs, waits or has not been started has not been cleaned up.
LEMMA NotCleaned ==
  ASSUME IInv, NEW u \in Threads,
         \/ thread_obj[u] \/ status[u] = "RUNNING"
         \/ \E t \in Threads : t \in Waiters(u)
  PROVE  cleaned[u] = 0
<1>1. CASE thread_obj[u] \/ status[u] = "RUNNING"
  BY <1>1 DEF IInv, CleanInv
<1>2. ASSUME NEW t \in Threads, t \in Waiters(u)
      PROVE  cleaned[u] = 0
  <2>1. waiting[u] \in Nat \ {0}
    BY <1>2, WaiterCounted DEF IInv
  <2> QED  BY <2>1 DEF IInv, CleanInv
<1> QED  BY <1>1, <1>2

\* f_thread_create: the new thread exists and its creator waits for it to start.
LEMMA CreateStep ==
  ASSUME IInv, NEW t \in Threads, NEW u \in Threads, f_thread_create(t, u)
  PROVE  IInv'
<1>1. /\ pc[t] = "run" /\ pc[u] = "none" /\ status[u] = "NOT_STARTED" /\ t # u
      /\ UNCHANGED <<object, signals>>
      /\ pc' = [pc EXCEPT ![t] = "create", ![u] = "new"]
      /\ target' = [target EXCEPT ![t] = u]
  BY DEF f_thread_create, Running
<1>2. UNCHANGED <<status, thread_obj, waiting, cleaned>>
  BY <1>1 DEF object
<1>3. /\ pc'[t] = "create" /\ pc'[u] = "new" /\ target'[t] = u
      /\ \A v \in Threads \ {t, u} : pc'[v] = pc[v]
      /\ \A v \in Threads \ {t} : target'[v] = target[v]
  BY <1>1 DEF IInv, TypeOK
<1>4. TypeOK'
  <2>1. ObjectType'
    BY <1>1, <1>2, Types DEF IInv, ObjectType, PCs
  <2>2. SignalType'
    BY <1>1, <1>2, Types, QuietSignals DEF IInv
  <2> QED  BY <2>1, <2>2, TypesNext
<1>5. StatusInv'
  BY <1>1, <1>2, <1>3 DEF IInv, StatusInv
<1>6. TargetInv'
  <2> SUFFICES ASSUME NEW v \in Threads, pc'[v] \in {"create", "wait", "woken"}
               PROVE  /\ target'[v] \in Threads
                      /\ pc'[v] = "create" => status[target'[v]] = "NOT_STARTED"
                      /\ pc'[v] = "wait" => status[target'[v]] = "RUNNING"
                      /\ pc'[v] = "woken" => status[target'[v]] \in {"EXITED", "ABORTED"}
    BY <1>2 DEF TargetInv, Ended
  <2>1. CASE v = t
    BY <1>1, <1>3, <2>1
  <2>2. CASE v \in Threads \ {t, u}
    BY <1>3, <2>2 DEF IInv, TargetInv, Ended
  <2> QED  BY <1>3, <2>1, <2>2
<1>7. WaitInv'
  BY <1>2, <1>3, WaitersLeave DEF IInv
<1>8. CleanInv' /\ SignalInv'
  BY <1>1, <1>2, Types, QuietSignals DEF IInv, CleanInv
<1> QED  BY <1>4, <1>5, <1>6, <1>7, <1>8 DEF IInv

\* new_thread_func: the thread runs and its creator is woken.
LEMMA StartStep ==
  ASSUME IInv, NEW u \in Threads, new_thread_func(u)
  PROVE  IInv'
<1>1. /\ pc[u] = "new" /\ status[u] = "NOT_STARTED" /\ thread_obj[u]
      /\ status' = [status EXCEPT ![u] = "RUNNING"]
      /\ UNCHANGED <<thread_obj, waiting, cleaned, signals>>
  BY DEF new_thread_func, IInv, StatusInv
<1>2. \A t \in Threads : t \in Sleepers(u) => pc[t] = "create"
  BY <1>1 DEF Sleepers, IInv, TargetInv
<1>3. /\ status'[u] = "RUNNING"
      /\ \A t \in Threads \ {u} : status'[t] = status[t]
      /\ \A t \in Threads : /\ t = u \/ t \in Sleepers(u) => pc'[t] = "run"
                            /\ ~(t = u \/ t \in Sleepers(u)) => pc'[t] = pc[t]
                            /\ t \notin Sleepers(u) => target'[t] = target[t]
  BY <1>1 DEF new_thread_func, IInv, TypeOK
<1>4. TypeOK'
  <2>1. pc' \in [Threads -> PCs] /\ target' \in [Threads -> Threads \cup {None}]
    BY Types DEF new_thread_func, IInv, ObjectType, PCs
  <2>2. ObjectType'
    BY <1>1, <2>1, Types DEF IInv, ObjectType, Statuses
  <2>3. SignalType'
    BY <1>1, Types, QuietSignals DEF IInv
  <2> QED  BY <2>2, <2>3, TypesNext
<1>5. StatusInv'
  BY <1>1, <1>2, <1>3 DEF IInv, StatusInv
<1>6. TargetInv'
  <2> SUFFICES ASSUME NEW t \in Threads, pc'[t] \in {"create", "wait", "woken"}
               PROVE  /\ target'[t] \in Threads
                      /\ pc'[t] = "create" => status'[target'[t]] = "NOT_STARTED"
                      /\ pc'[t] = "wait" => status'[target'[t]] = "RUNNING"
                      /\ pc'[t] = "woken" => status'[target'[t]] \in {"EXITED", "ABORTED"}
    BY DEF TargetInv, Ended
  <2>1. t # u /\ t \notin Sleepers(u) /\ pc'[t] = pc[t] /\ target'[t] = target[t]
    BY <1>3
  <2>2. target[t] \in Threads
    BY <2>1 DEF IInv, TargetInv
  <2>3. CASE target[t] = u
    BY <1>1, <2>1, <2>3 DEF Sleepers, IInv, TargetInv, Ended
  <2>4. CASE target[t] # u
    BY <1>3, <2>1, <2>2, <2>4 DEF IInv, TargetInv, Ended
  <2> QED  BY <2>3, <2>4
<1>7. WaitInv'
  BY <1>1, <1>3, WaitersLeave DEF IInv
<1>8. CleanInv' /\ SignalInv'
  <2>1. CleanInv'
    BY <1>1, <1>3 DEF IInv, CleanInv
  <2> QED  BY <1>1, <2>1, Types, QuietSignals DEF IInv
<1> QED  BY <1>4, <1>5, <1>6, <1>7, <1>8 DEF IInv

\* A thread ends, and those that wait for it are woken.
LEMMA EndStep ==
  ASSUME IInv, NEW t \in Threads, pc[t] \in {"run", "wait", "woken"},
         NEW newstatus \in {"EXITED", "ABORTED"}, EndThread(t, newstatus),
         cleaned' \in [Threads -> Nat],
         \A u \in Threads \ {t} : cleaned'[u] = cleaned[u],
         cleaned'[t] = IF thread_obj[t] \/ waiting[t] > 0 THEN 0 ELSE 1,
         SignalType', SignalInv'
  PROVE  IInv'
<1>1. /\ status[t] = "RUNNING"
      /\ status' = [status EXCEPT ![t] = newstatus]
      /\ UNCHANGED <<thread_obj, waiting>>
  BY DEF EndThread, IInv, StatusInv
<1>2. /\ status'[t] = newstatus /\ pc'[t] = "ended"
      /\ \A u \in Threads \ {t} : status'[u] = status[u] /\ target'[u] = target[u]
      /\ \A u \in Threads \ {t} : pc'[u] = IF u \in Sleepers(t) THEN "woken" ELSE pc[u]
  BY <1>1 DEF EndThread, IInv, TypeOK
<1>3. \A u \in Threads : u \in Sleepers(t) => pc[u] = "wait"
  BY <1>1 DEF Sleepers, IInv, TargetInv
<1>4. TypeOK'
  <2>1. pc' \in [Threads -> PCs] /\ target' \in [Threads -> Threads \cup {None}]
    BY Types DEF EndThread, IInv, ObjectType, PCs
  <2>2. ObjectType'
    BY <1>1, <2>1, Types DEF IInv, ObjectType, Statuses
  <2> QED  BY <2>2, TypesNext
<1>5. StatusInv'
  BY <1>1, <1>2, <1>3 DEF IInv, StatusInv
<1>6. TargetInv'
  <2> SUFFICES ASSUME NEW u \in Threads, pc'[u] \in {"create", "wait", "woken"}
               PROVE  /\ target'[u] \in Threads
                      /\ pc'[u] = "create" => status'[target'[u]] = "NOT_STARTED"
                      /\ pc'[u] = "wait" => status'[target'[u]] = "RUNNING"
                      /\ pc'[u] = "woken" => status'[target'[u]] \in {"EXITED", "ABORTED"}
    BY DEF TargetInv, Ended
  <2>1. u # t /\ target'[u] = target[u]
    BY <1>2
  <2>2. CASE u \in Sleepers(t)
    BY <1>2, <2>1, <2>2 DEF Sleepers
  <2>3. CASE u \notin Sleepers(t)
    <3>1. pc'[u] = pc[u] /\ target[u] \in Threads
      BY <1>2, <2>1, <2>3 DEF IInv, TargetInv
    <3>2. CASE target[u] = t
      BY <1>1, <1>2, <2>1, <2>3, <3>1, <3>2 DEF Sleepers
    <3>3. CASE target[u] # t
      BY <1>2, <2>1, <3>1, <3>3 DEF IInv, TargetInv, Ended
    <3> QED  BY <3>2, <3>3
  <2> QED  BY <2>2, <2>3
<1>7. WaitInv'
  BY <1>1, <1>2, <1>3, WaitersLeave DEF IInv
<1>8. CleanInv'
  BY <1>1, <1>2, LifeAssumption DEF IInv, CleanInv, TypeOK
<1> QED  BY <1>4, <1>5, <1>6, <1>7, <1>8 DEF IInv

\* thread_func_return: the thread ends; it cleans up after itself when its object
\* is gone already.
LEMMA ReturnStep ==
  ASSUME IInv, NEW t \in Threads, thread_func_return(t)
  PROVE  IInv'
<1>1. pc[t] = "run" /\ cleaned[t] = 0
  BY NotCleaned DEF thread_func_return, Running, IInv, StatusInv
<1>2. PICK newstatus \in {"EXITED", "ABORTED"} :
        /\ EndThread(t, newstatus)
        /\ IF thread_obj[t] THEN UNCHANGED <<cleaned, signals>>
                            ELSE cleanup_thread_state(t, t, newstatus, waiting[t])
  BY DEF thread_func_return
<1>3. CASE thread_obj[t]
  <2>1. UNCHANGED <<cleaned, signals>>
    BY <1>2, <1>3
  <2>2. SignalType' /\ SignalInv'
    BY <2>1, Types, QuietSignals DEF IInv
  <2> QED  BY <1>1, <1>2, <1>3, <2>1, <2>2, EndStep DEF IInv, TypeOK
<1>4. CASE ~thread_obj[t]
  <2>1. cleanup_thread_state(t, t, newstatus, waiting[t])
    BY <1>2, <1>4
  <2>2. /\ cleaned' \in [Threads -> Nat]
        /\ \A u \in Threads \ {t} : cleaned'[u] = cleaned[u]
        /\ cleaned'[t] = IF waiting[t] > 0 THEN 0 ELSE 1
        /\ SignalType' /\ SignalInv'
    BY <1>1, <2>1, CleanupStep DEF IInv, Needed
  <2> QED  BY <1>1, <1>2, <1>4, <2>2, EndStep
<1> QED  BY <1>3, <1>4

\* wait().
LEMMA WaitStep ==
  ASSUME IInv, NEW t \in Threads, NEW u \in Threads, f_thread_id_result(t, u)
  PROVE  IInv'
<1>1. /\ pc[t] = "run" /\ thread_obj[u] /\ status[u] # "NOT_STARTED"
      /\ UNCHANGED <<status, thread_obj, cleaned, signals>>
  BY DEF f_thread_id_result, Running, Known
<1>2. SignalType' /\ SignalInv'
  BY <1>1, Types, QuietSignals DEF IInv
<1>3. CASE Ended(u)
  <2>1. UNCHANGED <<waiting, pc, target>>
    BY <1>3 DEF f_thread_id_result
  <2>2. TypeOK' /\ StatusInv' /\ TargetInv' /\ CleanInv'
    BY <1>1, <1>2, <2>1, Types, TypesNext DEF IInv, ObjectType, StatusInv, TargetInv, CleanInv,
       Ended
  <2>3. WaitInv'
    BY <2>1, WaitersLeave DEF IInv
  <2> QED  BY <1>2, <2>2, <2>3 DEF IInv
<1>4. CASE ~Ended(u)
  <2>1. /\ status[u] = "RUNNING"
        /\ waiting' = [waiting EXCEPT ![u] = @ + 1]
        /\ pc' = [pc EXCEPT ![t] = "wait"]
        /\ target' = [target EXCEPT ![t] = u]
    BY <1>1, <1>4 DEF f_thread_id_result, Ended, IInv, TypeOK
  <2>2. /\ waiting'[u] = waiting[u] + 1 /\ waiting[u] \in Nat /\ waiting'[u] \in Nat
        /\ \A v \in Threads \ {u} : waiting'[v] = waiting[v]
        /\ pc'[t] = "wait" /\ target'[t] = u
        /\ \A v \in Threads \ {t} : pc'[v] = pc[v] /\ target'[v] = target[v]
    BY <1>1, <2>1, LifeAssumption DEF IInv, TypeOK
  <2>3. TypeOK'
    <3>1. ObjectType'
      BY <1>1, <2>1, <2>2, Types DEF IInv, ObjectType, PCs
    <3> QED  BY <1>2, <3>1, TypesNext
  <2>4. StatusInv' /\ TargetInv'
    BY <1>1, <2>1, <2>2 DEF IInv, StatusInv, TargetInv, Ended
  <2>5. WaitInv'
    <3> SUFFICES ASSUME NEW v \in Threads
                 PROVE  Cardinality(Waiters(v)') <= waiting'[v]
      BY DEF WaitInv
    <3>1. Cardinality(Waiters(v)) <= waiting[v]
      BY DEF IInv, WaitInv
    <3>2. CASE v = u
      <4>1. Waiters(u)' = Waiters(u) \cup {t} /\ t \notin Waiters(u)
        BY <1>1, <2>2 DEF Waiters
      <4>2. Cardinality(Waiters(u)') = Cardinality(Waiters(u)) + 1
        BY <4>1, FewWaiters, FS_AddElement
      <4> QED  BY <2>2, <3>1, <3>2, <4>2, FewWaiters
    <3>3. CASE v # u
      <4>1. Waiters(v)' = Waiters(v)
        BY <1>1, <2>2, <3>3 DEF Waiters
      <4> QED  BY <2>2, <3>1, <3>3, <4>1
    <3> QED  BY <3>2, <3>3
  <2>6. CleanInv'
    BY <1>1, <2>1, <2>2 DEF IInv, CleanInv
  <2> QED  BY <1>2, <2>3, <2>4, <2>5, <2>6 DEF IInv
<1> QED  BY <1>3, <1>4

\* The end of wait().
LEMMA WokenStep ==
  ASSUME IInv, NEW t \in Threads, f_thread_id_result_woken(t)
  PROVE  IInv'
<1>1. pc[t] = "woken" /\ target[t] \in Threads /\ Ended(target[t])
  BY DEF f_thread_id_result_woken, IInv, TargetInv
<1>2. PICK u \in Threads : u = target[t]
  BY <1>1
<1>3. t \in Waiters(u)
  BY <1>1, <1>2 DEF Waiters
<1>4. /\ waiting[u] \in Nat \ {0} /\ cleaned[u] = 0
      /\ Cardinality(Waiters(u) \ {t}) = Cardinality(Waiters(u)) - 1
  BY <1>3, WaiterCounted, NotCleaned DEF IInv
<1>5. /\ waiting' = [waiting EXCEPT ![u] = @ - 1]
      /\ pc' = [pc EXCEPT ![t] = "run"]
      /\ target' = [target EXCEPT ![t] = None]
      /\ IF thread_obj[u] THEN UNCHANGED <<cleaned, signals>>
                          ELSE cleanup_thread_state(t, u, status[u], waiting[u] - 1)
      /\ UNCHANGED <<status, thread_obj>>
  BY <1>2 DEF f_thread_id_result_woken
<1>6. /\ waiting'[u] = waiting[u] - 1 /\ waiting'[u] \in Nat
      /\ \A v \in Threads \ {u} : waiting'[v] = waiting[v]
      /\ pc'[t] = "run"
      /\ \A v \in Threads \ {t} : pc'[v] = pc[v] /\ target'[v] = target[v]
  BY <1>4, <1>5, LifeAssumption DEF IInv, TypeOK
<1>7. /\ cleaned' \in [Threads -> Nat]
      /\ \A v \in Threads \ {u} : cleaned'[v] = cleaned[v]
      /\ cleaned'[u] = IF thread_obj[u] \/ waiting[u] - 1 > 0 THEN 0 ELSE 1
      /\ SignalType' /\ SignalInv'
  <2>1. CASE thread_obj[u]
    BY <1>4, <1>5, <2>1, Types, QuietSignals DEF IInv, TypeOK
  <2>2. CASE ~thread_obj[u]
    <3>1. cleanup_thread_state(t, u, status[u], waiting[u] - 1)
      BY <1>5, <2>2
    <3>2. status[u] # "RUNNING"
      BY <1>1, <1>2 DEF Ended
    <3> QED  BY <1>4, <2>2, <3>1, <3>2, CleanupStep DEF IInv, Needed
  <2> QED  BY <2>1, <2>2
<1>8. TypeOK'
  <2>1. ObjectType'
    BY <1>5, <1>6, <1>7, Types DEF IInv, ObjectType, PCs
  <2> QED  BY <1>7, <2>1, TypesNext
<1>9. StatusInv' /\ TargetInv'
  BY <1>1, <1>5, <1>6 DEF IInv, StatusInv, TargetInv, Ended
<1>10. WaitInv'
  <2> SUFFICES ASSUME NEW v \in Threads
               PROVE  Cardinality(Waiters(v)') <= waiting'[v]
    BY DEF WaitInv
  <2>1. Cardinality(Waiters(v)) <= waiting[v]
    BY DEF IInv, WaitInv
  <2>2. CASE v = u
    <3>1. Waiters(u)' = Waiters(u) \ {t}
      BY <1>6 DEF Waiters
    <3> QED  BY <1>4, <1>6, <2>1, <2>2, <3>1, FewWaiters, LifeAssumption
  <2>3. CASE v # u
    <3>1. Waiters(v)' = Waiters(v)
      BY <1>2, <1>6, <2>3 DEF Waiters
    <3> QED  BY <1>6, <2>1, <2>3, <3>1
  <2> QED  BY <2>2, <2>3
<1>11. CleanInv'
  <2>1. status[u] # "RUNNING"
    BY <1>1, <1>2 DEF Ended
  <2> QED  BY <1>4, <1>5, <1>6, <1>7, <2>1, LifeAssumption DEF IInv, CleanInv
<1> QED  BY <1>7, <1>8, <1>9, <1>10, <1>11 DEF IInv

\* interrupt() and kill().
LEMMA InterruptStep ==
  ASSUME IInv, NEW t \in Threads, NEW u \in Threads,
         f_thread_id_interrupt(t, u) \/ f_thread_id_kill(t, u)
  PROVE  IInv'
<1>1. /\ UNCHANGED <<object, pc, target>> /\ thread_obj[u]
      /\ \E flag \in {THREAD_FLAG_TERM, THREAD_FLAG_INTR} : Signal(u, flag)
  BY DEF f_thread_id_interrupt, f_thread_id_kill, Known
<1>2. UNCHANGED <<status, thread_obj, waiting, cleaned>>
  BY <1>1 DEF object
<1>3. SignalType' /\ SignalInv'
  BY <1>1, <1>2, Types, NotCleaned, SignalStep DEF IInv
<1>4. TypeOK' /\ StatusInv' /\ TargetInv' /\ CleanInv'
  BY <1>1, <1>2, <1>3, Types, TypesNext DEF IInv, ObjectType, StatusInv, TargetInv, CleanInv,
     Ended
<1>5. WaitInv'
  BY <1>1, <1>2, WaitersLeave DEF IInv
<1> QED  BY <1>3, <1>4, <1>5 DEF IInv

\* check_thread_interrupt() throws, wherever the thread is.
LEMMA CheckStep ==
  ASSUME IInv, NEW t \in Threads, pc[t] \in {"run", "wait", "woken"}, ThrowInterrupt(t)
  PROVE  IInv'
<1>1. /\ pc[t] \in {"run", "wait", "woken"} /\ flags[t] # {} /\ cleaned[t] = 0
      /\ DropPending(1) /\ flags' = [flags EXCEPT ![t] = {}]
  BY NotCleaned DEF ThrowInterrupt, IInv, StatusInv
<1>2. ASSUME \A u \in Threads : cleaned'[u] = 0 => cleaned[u] = 0
      PROVE  SignalType' /\ SignalInv'
  <2>1. flags' \in [Threads -> SUBSET {THREAD_FLAG_TERM, THREAD_FLAG_INTR}]
    BY <1>1 DEF IInv, TypeOK
  <2>2. flags'[t] = {} /\ \A u \in Threads \ {t} : flags'[u] = flags[u]
    BY <1>1 DEF IInv, TypeOK
  <2>3. t \in Signalled /\ Signalled' \subseteq Signalled \ {t}
    BY <1>1, <1>2, <2>2 DEF Signalled
  <2> QED  BY <1>1, <2>1, <2>3, Types, DropSignal DEF IInv
<1>3. CASE /\ pc' = [pc EXCEPT ![t] = "run"]
           /\ target' = [target EXCEPT ![t] = None]
           /\ UNCHANGED object
  <2>1. UNCHANGED <<status, thread_obj, waiting, cleaned>>
    BY <1>3 DEF object
  <2>2. /\ pc'[t] = "run"
        /\ \A v \in Threads \ {t} : pc'[v] = pc[v] /\ target'[v] = target[v]
    BY <1>3 DEF IInv, TypeOK
  <2>3. SignalType' /\ SignalInv'
    BY <1>2, <2>1
  <2>4. TypeOK'
    <3>1. ObjectType'
      BY <1>3, <2>1, Types DEF IInv, ObjectType, PCs
    <3> QED  BY <2>3, <3>1, TypesNext
  <2>5. StatusInv' /\ TargetInv' /\ CleanInv'
    BY <1>1, <2>1, <2>2 DEF IInv, StatusInv, TargetInv, CleanInv, Ended
  <2>6. WaitInv'
    BY <2>1, <2>2, WaitersLeave DEF IInv
  <2> QED  BY <2>3, <2>4, <2>5, <2>6 DEF IInv
<1>4. CASE /\ EndThread(t, "ABORTED")
           /\ cleaned' = [cleaned EXCEPT ![t] =
                IF thread_obj[t] \/ waiting[t] > 0 THEN @ ELSE @ + 1]
  <2>1. /\ cleaned' \in [Threads -> Nat]
        /\ \A u \in Threads \ {t} : cleaned'[u] = cleaned[u]
        /\ cleaned'[t] = IF thread_obj[t] \/ waiting[t] > 0 THEN 0 ELSE 1
    BY <1>1, <1>4 DEF IInv, TypeOK
  <2>2. SignalType' /\ SignalInv'
    BY <1>1, <1>2, <2>1
  <2> QED  BY <1>1, <1>4, <2>1, <2>2, EndStep
<1>5. CASE pc' = [u \in Threads |-> "ended"] /\ UNCHANGED <<object, target>>
  <2>1. UNCHANGED <<status, thread_obj, waiting, cleaned>>
    BY <1>5 DEF object
  <2>2. SignalType' /\ SignalInv'
    BY <1>2, <2>1
  <2>3. TypeOK'
    <3>1. ObjectType'
      BY <1>5, <2>1, Types DEF IInv, ObjectType, PCs
    <3> QED  BY <2>2, <3>1, TypesNext
  <2>4. StatusInv' /\ TargetInv' /\ CleanInv'
    BY <1>5, <2>1 DEF IInv, StatusInv, TargetInv, CleanInv
  <2>5. WaitInv'
    BY <1>5, <2>1, WaitersLeave DEF IInv
  <2> QED  BY <2>2, <2>3, <2>4, <2>5 DEF IInv
<1> QED  BY <1>3, <1>4, <1>5 DEF ThrowInterrupt

\* The object is destructed.
LEMMA ExitStep ==
  ASSUME IInv, NEW t \in Threads, NEW u \in Threads, exit_thread_obj(t, u)
  PROVE  IInv'
<1>1. /\ thread_obj[u] /\ status[u] # "NOT_STARTED" /\ cleaned[u] = 0
      /\ thread_obj' = [thread_obj EXCEPT ![u] = FALSE]
      /\ cleanup_thread_state(t, u, status[u], waiting[u])
      /\ UNCHANGED <<status, waiting, pc, target>>
  BY NotCleaned DEF exit_thread_obj, Known
<1>2. /\ ~thread_obj'[u]
      /\ \A v \in Threads \ {u} : thread_obj'[v] = thread_obj[v]
      /\ thread_obj' \in [Threads -> BOOLEAN]
  BY <1>1 DEF IInv, TypeOK
<1>3. /\ cleaned' \in [Threads -> Nat]
      /\ \A v \in Threads \ {u} : cleaned'[v] = cleaned[v]
      /\ cleaned'[u] = IF status[u] = "RUNNING" \/ waiting[u] > 0 THEN 0 ELSE 1
      /\ SignalType' /\ SignalInv'
  BY <1>1, CleanupStep DEF IInv, Needed
<1>4. TypeOK'
  <2>1. ObjectType'
    BY <1>1, <1>2, <1>3, Types DEF IInv, ObjectType
  <2> QED  BY <1>3, <2>1, TypesNext
<1>5. StatusInv' /\ TargetInv'
  BY <1>1, <1>2 DEF IInv, StatusInv, TargetInv, Ended
<1>6. WaitInv'
  BY <1>1, WaitersLeave DEF IInv
<1>7. CleanInv'
  BY <1>1, <1>2, <1>3, LifeAssumption DEF IInv, CleanInv, TypeOK
<1> QED  BY <1>3, <1>4, <1>5, <1>6, <1>7 DEF IInv

-----------------------------------------------------------------------------
(* The theorems.                                                           *)

\* Every step of every thread preserves the invariant.
LEMMA NextInv == IInv /\ [Next]_vars => IInv'
<1> SUFFICES ASSUME IInv, [Next]_vars
             PROVE  IInv'
  OBVIOUS
<1>1. ASSUME NEW t \in Threads, Step(t)
      PROVE  IInv'
  BY <1>1, StartStep, WokenStep, CheckStep DEF Step, check_thread_interrupt
<1>2. ASSUME NEW t \in Threads, thread_func_return(t) \/ f_thread_id_result_spurious(t)
      PROVE  IInv'
  BY <1>2, ReturnStep, CheckStep DEF f_thread_id_result_spurious
<1>3. ASSUME NEW t \in Threads, NEW u \in Threads,
             \/ f_thread_create(t, u) \/ f_thread_id_result(t, u)
             \/ f_thread_id_interrupt(t, u) \/ f_thread_id_kill(t, u)
             \/ exit_thread_obj(t, u)
      PROVE  IInv'
  BY <1>3, CreateStep, WaitStep, InterruptStep, ExitStep
<1>4. CASE UNCHANGED vars
  <2>1. UNCHANGED <<status, thread_obj, waiting, cleaned, signals, pc, target>>
    BY <1>4 DEF vars, object
  <2>2. SignalType' /\ SignalInv'
    BY <2>1, Types, QuietSignals DEF IInv
  <2>3. TypeOK' /\ StatusInv' /\ TargetInv' /\ CleanInv'
    BY <2>1, <2>2, Types, TypesNext DEF IInv, ObjectType, StatusInv, TargetInv, CleanInv, Ended
  <2>4. WaitInv'
    BY <2>1, WaitersLeave DEF IInv
  <2> QED  BY <2>2, <2>3, <2>4 DEF IInv
<1> QED  BY <1>1, <1>2, <1>3, <1>4 DEF Next

\* The invariant is inductive.
THEOREM Invariance == Spec => []IInv
<1>1. Init => IInv
  <2> SUFFICES ASSUME Init
               PROVE  IInv
    OBVIOUS
  <2>1. TypeOK
    <3>1. SignalType
      BY DEF Init, SignalType
    <3>2. ObjectType
      BY LifeAssumption DEF Init, ObjectType, Statuses, PCs
    <3> QED  BY <3>1, <3>2, Types
  <2>4. \A t \in Threads :
          /\ status[t] = (IF t = Main THEN "RUNNING" ELSE "NOT_STARTED")
          /\ pc[t] = (IF t = Main THEN "run" ELSE "none")
          /\ thread_obj[t] /\ waiting[t] = 0 /\ cleaned[t] = 0
    BY DEF Init
  <2>5. StatusInv /\ TargetInv /\ CleanInv
    BY <2>4 DEF StatusInv, TargetInv, CleanInv
  <2>2. WaitInv
    <3> SUFFICES ASSUME NEW u \in Threads
                 PROVE  Cardinality(Waiters(u)) <= waiting[u]
      BY DEF WaitInv
    <3>1. Waiters(u) = {}
      BY DEF Init, Waiters
    <3> QED  BY <3>1, FS_EmptySet DEF Init
  <2>3. SignalInv
    <3>1. Signalled = {}
      BY DEF Init, Signalled
    <3> QED  BY <3>1, FS_EmptySet DEF Init, SignalInv
  <2> QED  BY <2>1, <2>2, <2>3, <2>5 DEF IInv
<1> QED  BY <1>1, NextInv, PTL DEF Spec

\* The variables keep their types: waiting and num_pending_interrupts are never
\* decremented below zero.
THEOREM TypeCorrect == Spec => []TypeOK
<1>1. IInv => TypeOK
  BY DEF IInv
<1> QED  BY <1>1, Invariance, PTL

\* cleanup_thread_state() frees the thread's condition once: not before the
\* thread has ended, its object is gone and nobody waits, and then it does.
THEOREM FreedOnce == Spec => []CleanedOnce
<1>1. ASSUME IInv
      PROVE  CleanedOnce
  <2> SUFFICES ASSUME NEW u \in Threads
               PROVE  /\ cleaned[u] > 0 => /\ cleaned[u] = 1 /\ status[u] # "RUNNING"
                                           /\ Users(u) = {} /\ ~thread_obj[u]
                      /\ ~thread_obj[u] /\ status[u] # "RUNNING" /\ waiting[u] = 0 => cleaned[u] = 1
                      /\ Cardinality(Users(u) \ {t \in Threads : pc[t] = "create"}) <= waiting[u]
    BY DEF CleanedOnce
  <2>1. Users(u) \ {t \in Threads : pc[t] = "create"} = Waiters(u)
    BY DEF Users, Waiters
  <2>2. Cardinality(Waiters(u)) <= waiting[u]
    BY <1>1 DEF IInv, WaitInv
  <2>3. ~thread_obj[u] /\ status[u] # "RUNNING" /\ waiting[u] = 0 => cleaned[u] = 1
    BY <1>1 DEF IInv, CleanInv
  <2>4. ASSUME cleaned[u] > 0
        PROVE  cleaned[u] = 1 /\ status[u] # "RUNNING" /\ ~thread_obj[u] /\ waiting[u] = 0
    BY <1>1, <2>4 DEF IInv, CleanInv
  <2>5. ASSUME cleaned[u] > 0
        PROVE  Users(u) = {}
    <3>1. Waiters(u) = {}
      <4>1. Cardinality(Waiters(u)) = 0
        BY <2>2, <2>4, <2>5, FewWaiters
      <4> QED  BY <4>1, FewWaiters, FS_EmptySet
    <3>2. \A t \in Threads : ~(pc[t] = "create" /\ target[t] = u)
      BY <1>1, <2>4, <2>5 DEF IInv, TargetInv, StatusInv
    <3> QED  BY <2>1, <3>1, <3>2 DEF Users
  <2> QED  BY <2>1, <2>2, <2>3, <2>4, <2>5
<1> QED  BY <1>1, Invariance, PTL

\* A thread with a pending signal finds the callback installed, although
\* cleanup_thread_state() may clear the signals of another thread.
THEOREM SignalsSeen == Spec => []InterruptSeen
<1>1. ASSUME IInv
      PROVE  InterruptSeen
  <2> SUFFICES ASSUME NEW t \in Threads, flags[t] # {}, cleaned[t] = 0
               PROVE  thread_interrupt_callback
    BY DEF InterruptSeen
  <2>1. t \in Signalled
    BY DEF Signalled
  <2>2. Cardinality(Signalled) # 0
    BY <2>1, FewSignalled, FS_EmptySet
  <2>3. num_pending_interrupts # 0
    BY <1>1, <2>2, FewSignalled DEF IInv, SignalInv, TypeOK
  <2> QED  BY <1>1, <2>3 DEF IInv, SignalInv
<1> QED  BY <1>1, Invariance, PTL

-----------------------------------------------------------------------------
(* Numbers.                                                                *)

\* A set of numbers has a least one.
LEMMA LeastNumber ==
  ASSUME NEW S, S \subseteq Nat, S # {}
  PROVE  \E k \in S : \A j \in S : k <= j
<1> DEFINE R == OpToRel(<, Nat)
<1>1. \A j, k \in Nat : <<j, k>> \in R <=> j < k
  BY DEF OpToRel
<1>2. IsWellFoundedOn(R, Nat)
  BY NatLessThanWellFounded
<1> HIDE DEF R
<1>3. \E k \in S : \A j \in S : ~(<<j, k>> \in R)
  BY <1>2, WFMin
<1>4. PICK k \in S : \A j \in S : ~(<<j, k>> \in R)
  BY <1>3
<1>5. \A j \in S : k <= j
  <2> SUFFICES ASSUME NEW j \in S
               PROVE  k <= j
    OBVIOUS
  <2>1. j \in Nat /\ k \in Nat
    OBVIOUS
  <2>2. ~(j < k)
    BY <1>1, <1>4, <2>1
  <2> QED  BY <2>1, <2>2
<1> QED  BY <1>5

\* A set of numbers up to n has a highest one, and Highest() is it.
LEMMA HighestNumber ==
  ASSUME NEW S, NEW n \in Nat, S \subseteq 1..n, S # {}
  PROVE  Highest(S) \in S /\ \A j \in S : j <= Highest(S)
<1> DEFINE R == {n - j : j \in S}
<1>1. R \subseteq Nat /\ R # {}
  <2>1. \A j \in S : n - j \in Nat
    OBVIOUS
  <2>2. \E j \in S : TRUE
    OBVIOUS
  <2> QED  BY <2>1, <2>2
<1>2. PICK k \in R : \A j \in R : k <= j
  BY <1>1, LeastNumber
<1>3. PICK h \in S : k = n - h
  BY <1>2
<1>4. \A j \in S : j <= h
  <2> SUFFICES ASSUME NEW j \in S
               PROVE  j <= h
    OBVIOUS
  <2>1. n - h <= n - j
    BY <1>2, <1>3
  <2> QED  BY <2>1
<1> QED  BY <1>4 DEF Highest

-----------------------------------------------------------------------------
(* The rotation of the stack.                                              *)

\* Where the frame at i was before the part from b was exchanged with that from p.
WasAt(b, p, i) ==
  IF i < b THEN i
  ELSE IF i <= b + (Len(stack) - p) THEN i + (p - b)
  ELSE i - (Len(stack) - p + 1)

\* What a concatenation of two sequences is.
LEMMA ConcatFacts ==
  ASSUME NEW s \in Seq(Things), NEW t \in Seq(Things)
  PROVE  /\ s \o t \in Seq(Things)
         /\ Len(s \o t) = Len(s) + Len(t)
         /\ Len(s) \in Nat /\ Len(t) \in Nat
         /\ \A i \in 1..Len(s) : (s \o t)[i] = s[i]
         /\ \A i \in 1..Len(t) : (s \o t)[Len(s) + i] = t[i]
  OBVIOUS

\* Rotated() moves the frames accordingly.
LEMMA RotatedFacts ==
  ASSUME stack \in Seq(Things), NEW b \in 1..Len(stack), NEW p \in 1..Len(stack), b < p
  PROVE  /\ Rotated(b, p) \in Seq(Things)
         /\ Len(Rotated(b, p)) = Len(stack)
         /\ \A i \in 1..Len(stack) :
              /\ WasAt(b, p, i) \in 1..Len(stack)
              /\ Rotated(b, p)[i] = stack[WasAt(b, p, i)]
<1> DEFINE A == SubSeq(stack, 1, b - 1)
           B == SubSeq(stack, p, Len(stack))
           C == SubSeq(stack, b, p - 1)
<1>1. /\ A \in Seq(Things) /\ Len(A) = b - 1 /\ \A i \in 1..(b - 1) : A[i] = stack[i]
      /\ B \in Seq(Things) /\ Len(B) = Len(stack) - p + 1
      /\ \A i \in 1..(Len(stack) - p + 1) : B[i] = stack[p + i - 1]
      /\ C \in Seq(Things) /\ Len(C) = p - b
      /\ \A i \in 1..(p - b) : C[i] = stack[b + i - 1]
  OBVIOUS
<1>2. Rotated(b, p) = A \o B \o C
  BY DEF Rotated
<1> HIDE DEF A, B, C
<1> DEFINE D == A \o B
<1>3. /\ D \in Seq(Things) /\ Len(D) = Len(A) + Len(B)
      /\ \A i \in 1..Len(A) : D[i] = A[i]
      /\ \A i \in 1..Len(B) : D[Len(A) + i] = B[i]
  BY <1>1, ConcatFacts
<1> HIDE DEF D
<1>4. /\ D \o C \in Seq(Things) /\ Len(D \o C) = Len(D) + Len(C)
      /\ \A i \in 1..Len(D) : (D \o C)[i] = D[i]
      /\ \A i \in 1..Len(C) : (D \o C)[Len(D) + i] = C[i]
  BY <1>1, <1>3, ConcatFacts
<1>5. /\ Len(stack) \in Nat
      /\ Len(D) = b + (Len(stack) - p)
      /\ Len(D \o C) = Len(stack)
  BY <1>1, <1>3, <1>4
<1>6. ASSUME NEW i \in 1..Len(stack)
      PROVE  /\ WasAt(b, p, i) \in 1..Len(stack)
             /\ (D \o C)[i] = stack[WasAt(b, p, i)]
  <2>1. CASE i < b
    <3>1. i \in 1..(b - 1) /\ i \in 1..Len(D)
      BY <1>5, <2>1
    <3>2. (D \o C)[i] = D[i] /\ D[i] = A[i] /\ A[i] = stack[i]
      BY <1>1, <1>3, <1>4, <3>1
    <3> QED  BY <2>1, <3>2 DEF WasAt
  <2>2. CASE ~(i < b) /\ i <= b + (Len(stack) - p)
    <3> DEFINE k == i - (b - 1)
    <3>1. k \in 1..(Len(stack) - p + 1) /\ i = (b - 1) + k /\ i \in 1..Len(D)
      BY <1>5, <2>2
    <3>2. p + k - 1 = i + (p - b) /\ i + (p - b) \in 1..Len(stack)
      BY <1>5, <2>2
    <3> HIDE DEF k
    <3>3. (D \o C)[i] = D[i] /\ D[i] = B[k] /\ B[k] = stack[p + k - 1]
      BY <1>1, <1>3, <1>4, <3>1
    <3> QED  BY <2>2, <3>2, <3>3 DEF WasAt
  <2>3. CASE ~(i < b) /\ ~(i <= b + (Len(stack) - p))
    <3> DEFINE k == i - (b + (Len(stack) - p))
    <3>1. k \in 1..(p - b) /\ i = Len(D) + k
      BY <1>5, <2>3
    <3>2. b + k - 1 = i - (Len(stack) - p + 1) /\ b + k - 1 \in 1..Len(stack)
      BY <1>5, <2>3
    <3> HIDE DEF k
    <3>3. (D \o C)[i] = C[k] /\ C[k] = stack[b + k - 1]
      BY <1>1, <1>4, <3>1
    <3> QED  BY <2>3, <3>2, <3>3 DEF WasAt
  <2> QED  BY <2>1, <2>2, <2>3
<1>7. Rotated(b, p) = D \o C
  BY <1>2 DEF D
<1> QED  BY <1>4, <1>5, <1>6, <1>7

\* Every place was some place, and different ones were different.
LEMMA WasAtFacts ==
  ASSUME stack \in Seq(Things), NEW b \in 1..Len(stack), NEW p \in 1..Len(stack), b < p
  PROVE  /\ \A i, j \in 1..Len(stack) : WasAt(b, p, i) = WasAt(b, p, j) => i = j
         /\ \A k \in 1..Len(stack) : \E i \in 1..Len(stack) : WasAt(b, p, i) = k
<1> DEFINE n == Len(stack)
<1>0. n \in Nat
  OBVIOUS
<1>1. \A i, j \in 1..n : WasAt(b, p, i) = WasAt(b, p, j) => i = j
  BY <1>0 DEF WasAt
<1>2. ASSUME NEW k \in 1..n
      PROVE  \E i \in 1..n : WasAt(b, p, i) = k
  <2>1. CASE k < b
    BY <1>0, <2>1 DEF WasAt
  <2>2. CASE p <= k
    <3>1. k - (p - b) \in 1..n /\ WasAt(b, p, k - (p - b)) = k
      BY <1>0, <2>2 DEF WasAt
    <3> QED  BY <3>1
  <2>3. CASE b <= k /\ k < p
    <3>1. k + (n - p + 1) \in 1..n /\ WasAt(b, p, k + (n - p + 1)) = k
      BY <1>0, <2>3 DEF WasAt
    <3> QED  BY <3>1
  <2> QED  BY <1>0, <2>1, <2>2, <2>3
<1> QED  BY <1>1, <1>2

\* The frames stay the same and different.
LEMMA RotatedRange ==
  ASSUME stack \in Seq(Things), NEW b \in 1..Len(stack), NEW p \in 1..Len(stack), b < p
  PROVE  /\ Range(Rotated(b, p)) = Range(stack)
         /\ IsInjective(stack) => IsInjective(Rotated(b, p))
<1>1. DOMAIN Rotated(b, p) = 1..Len(stack) /\ DOMAIN stack = 1..Len(stack)
  BY RotatedFacts
<1>2. \A i \in 1..Len(stack) : /\ WasAt(b, p, i) \in 1..Len(stack)
                              /\ Rotated(b, p)[i] = stack[WasAt(b, p, i)]
  BY RotatedFacts
<1>3. Range(Rotated(b, p)) \subseteq Range(stack)
  BY <1>1, <1>2 DEF Range
<1>4. Range(stack) \subseteq Range(Rotated(b, p))
  BY <1>1, <1>2, WasAtFacts DEF Range
<1>5. IsInjective(stack) => IsInjective(Rotated(b, p))
  <2> SUFFICES ASSUME IsInjective(stack), NEW i \in 1..Len(stack), NEW j \in 1..Len(stack),
                      Rotated(b, p)[i] = Rotated(b, p)[j]
               PROVE  i = j
    BY <1>1 DEF IsInjective
  <2>1. WasAt(b, p, i) = WasAt(b, p, j)
    BY <1>1, <1>2 DEF IsInjective
  <2> QED  BY <2>1, WasAtFacts
<1> QED  BY <1>3, <1>4, <1>5

-----------------------------------------------------------------------------
(* Cycles on a stack.                                                      *)

FlagFunctions == [Things -> SUBSET {"WEAK", "STRONG", "BROKEN"}]
IdFunctions == [Things -> Things]

\* The cycle of a frame does not begin before a frame where one begins.
LEMMA CycleStart ==
  ASSUME NEW s \in Seq(Things), NEW f, NEW c, OrderInv(s, f, c),
         NEW i \in 1..Len(s), NEW b \in 1..i, c[s[b]] = s[b]
  PROVE  \E k \in b..i : CycleFrom(s, c, k, i)
<1>1. PICK k \in 1..i : CycleFrom(s, c, k, i)
  BY DEF OrderInv
<1>2. CASE b <= k
  BY <1>1, <1>2
<1>3. CASE k < b
  <2>1. c[s[b]] = c[s[i]]
    BY <1>1, <1>3 DEF CycleFrom
  <2>2. s[b] = s[k]
    BY <1>1, <2>1 DEF CycleFrom
  <2>3. b \in DOMAIN s /\ k \in DOMAIN s
    OBVIOUS
  <2>4. b = k
    BY <2>2, <2>3 DEF OrderInv, IsInjective
  <2> QED  BY <1>3, <2>4
<1> QED  BY <1>2, <1>3

\* The name of a cycle is not above its frames.
LEMMA CycleBelow ==
  ASSUME NEW s \in Seq(Things), NEW f, NEW c, OrderInv(s, f, c),
         NEW i \in 1..Len(s), NEW k \in 1..Len(s), c[s[i]] = s[k]
  PROVE  k <= i
<1>1. PICK m \in 1..i : CycleFrom(s, c, m, i)
  BY DEF OrderInv
<1>2. s[m] = s[k] /\ m \in DOMAIN s /\ k \in DOMAIN s
  BY <1>1 DEF CycleFrom
<1>3. m = k
  BY <1>2 DEF OrderInv, IsInjective
<1> QED  BY <1>3

\* Below a frame where a cycle begins, a chain of strong links has only such frames.
LEMMA ChainDown ==
  ASSUME NEW s \in Seq(Things), NEW f, NEW c, OrderInv(s, f, c),
         NEW q \in 1..Len(s), NEW b \in 1..q,
         \A i \in (b + 1)..q : "STRONG" \in f[s[i]],
         c[s[q]] = s[q]
  PROVE  c[s[b]] = s[b]
<1> DEFINE S == {i \in b..q : c[s[i]] = s[i]}
<1>1. S \subseteq Nat /\ q \in S
  OBVIOUS
<1>2. PICK k \in S : \A j \in S : k <= j
  BY <1>1, LeastNumber
<1>3. k \in b..q /\ c[s[k]] = s[k]
  OBVIOUS
<1>4. CASE k = b
  BY <1>3, <1>4
<1>5. CASE k # b
  <2>1. k - 1 \in b..q /\ k - 1 \in 1..Len(s) /\ k \in 1..Len(s) /\ k \in (b + 1)..q
    BY <1>3, <1>5
  <2>2. c[s[k]] = c[s[k - 1]] \/ c[s[k - 1]] = s[k - 1]
    BY <2>1 DEF OrderInv
  <2>3. c[s[k - 1]] # s[k - 1]
    <3>1. ~(k <= k - 1)
      BY <1>3
    <3> QED  BY <1>2, <2>1, <3>1
  <2>4. c[s[k - 1]] = s[k]
    BY <1>3, <2>2, <2>3
  <2>5. k <= k - 1
    BY <2>1, <2>4, CycleBelow
  <2> QED  BY <1>3, <2>5
<1> QED  BY <1>4, <1>5

\* Above a frame that continues the cycle before it, a chain of strong links
\* belongs to that cycle.
LEMMA ChainUp ==
  ASSUME NEW s \in Seq(Things), NEW f, NEW c, OrderInv(s, f, c),
         NEW q \in 1..Len(s), NEW b \in 2..q,
         \A i \in (b + 1)..q : "STRONG" \in f[s[i]],
         c[s[b]] = c[s[b - 1]]
  PROVE  c[s[q]] = c[s[b]]
<1> DEFINE S == {i \in b..q : c[s[i]] # c[s[b]]}
<1> SUFFICES ASSUME c[s[q]] # c[s[b]]
             PROVE  FALSE
  OBVIOUS
<1>1. S \subseteq Nat /\ q \in S
  OBVIOUS
<1>2. PICK k \in S : \A j \in S : k <= j
  BY <1>1, LeastNumber
<1>3. k \in b..q /\ c[s[k]] # c[s[b]]
  OBVIOUS
<1>4. k # b
  BY <1>3
<1>5. k - 1 \in b..q /\ k - 1 \in 1..Len(s) /\ k \in 1..Len(s) /\ k \in (b + 1)..q
  BY <1>3, <1>4
<1>6. c[s[k - 1]] = c[s[b]]
  <2>1. ~(k <= k - 1)
    BY <1>3
  <2> QED  BY <1>2, <1>5, <2>1
<1>7. c[s[k - 1]] = s[k - 1]
  <2>1. c[s[k]] = c[s[k - 1]] \/ c[s[k - 1]] = s[k - 1]
    BY <1>5 DEF OrderInv
  <2> QED  BY <1>3, <1>6, <2>1
<1>8. b - 1 \in 1..Len(s) /\ c[s[b - 1]] = s[k - 1]
  BY <1>6, <1>7
<1>9. k - 1 <= b - 1
  BY <1>5, <1>8, CycleBelow
<1> QED  BY <1>5, <1>9

\* A new frame with a cycle of its own.
LEMMA PushOrder ==
  ASSUME NEW s \in Seq(Things), NEW f \in FlagFunctions, NEW c \in IdFunctions,
         OrderInv(s, f, c), NEW t \in Things, t \notin Range(s),
         NEW F, F \in {{}, {"WEAK"}, {"STRONG"}},
         F = {"STRONG"} => s # <<>> /\ c[s[Len(s)]] = s[Len(s)]
  PROVE  OrderInv(Append(s, t), [f EXCEPT ![t] = F], [c EXCEPT ![t] = t])
<1> DEFINE n == Len(s)
           s2 == Append(s, t)
           f2 == [f EXCEPT ![t] = F]
           c2 == [c EXCEPT ![t] = t]
<1>1. /\ n \in Nat /\ s2 \in Seq(Things) /\ Len(s2) = n + 1 /\ DOMAIN s2 = 1..(n + 1)
      /\ s2[n + 1] = t /\ \A i \in 1..n : s2[i] = s[i]
  OBVIOUS
<1>2. \A i \in 1..n : s[i] # t /\ s[i] \in Things
  BY DEF Range
<1>3. \A x \in Things : x # t => f2[x] = f[x] /\ c2[x] = c[x]
  BY DEF FlagFunctions, IdFunctions
<1>4. f2[t] = F /\ c2[t] = t
  BY DEF FlagFunctions, IdFunctions
<1> HIDE DEF s2, f2, c2
<1>5. IsInjective(s2)
  <2>1. \A i, j \in 1..n : s[i] = s[j] => i = j
    BY DEF OrderInv, IsInjective
  <2> QED  BY <1>1, <1>2, <2>1 DEF IsInjective
<1>6. \A j \in 1..n : s2[j] = s[j] /\ c2[s[j]] = c[s[j]] /\ f2[s[j]] = f[s[j]]
  BY <1>1, <1>2, <1>3
<1>7. ASSUME NEW i \in 1..n
      PROVE  /\ \E k \in 1..i : CycleFrom(s2, c2, k, i)
             /\ "WEAK" \in f2[s2[i]] => c2[s2[i]] = s2[i]
             /\ "STRONG" \in f2[s2[i]] =>
                  /\ i > 1
                  /\ "WEAK" \notin f2[s2[i]]
                  /\ "BROKEN" \notin f2[s2[i]]
                  /\ c2[s2[i]] = c2[s2[i - 1]] \/ c2[s2[i - 1]] = s2[i - 1]
  <2>1. PICK k \in 1..i : CycleFrom(s, c, k, i)
    BY DEF OrderInv
  <2>2. CycleFrom(s2, c2, k, i)
    BY <1>1, <1>6, <2>1 DEF CycleFrom
  <2>3. i > 1 => i - 1 \in 1..n
    BY <1>1
  <2>4. /\ "WEAK" \in f[s[i]] => c[s[i]] = s[i]
        /\ "STRONG" \in f[s[i]] =>
             /\ i > 1
             /\ "WEAK" \notin f[s[i]]
             /\ "BROKEN" \notin f[s[i]]
             /\ c[s[i]] = c[s[i - 1]] \/ c[s[i - 1]] = s[i - 1]
    BY DEF OrderInv
  <2> QED  BY <1>6, <2>2, <2>3, <2>4
<1>8. /\ \E k \in 1..(n + 1) : CycleFrom(s2, c2, k, n + 1)
      /\ "WEAK" \in f2[s2[n + 1]] => c2[s2[n + 1]] = s2[n + 1]
      /\ "STRONG" \in f2[s2[n + 1]] =>
           /\ n + 1 > 1
           /\ "WEAK" \notin f2[s2[n + 1]]
           /\ "BROKEN" \notin f2[s2[n + 1]]
           /\ c2[s2[n + 1]] = c2[s2[n + 1 - 1]] \/ c2[s2[n + 1 - 1]] = s2[n + 1 - 1]
  <2>1. CycleFrom(s2, c2, n + 1, n + 1)
    BY <1>1, <1>4 DEF CycleFrom
  <2>2. ASSUME F = {"STRONG"}
        PROVE  n \in 1..n /\ n + 1 > 1 /\ n + 1 - 1 = n /\ c2[s2[n]] = s2[n]
    <3>1. n \in 1..n
      BY <2>2, <1>1
    <3> QED  BY <1>1, <1>6, <2>2, <3>1
  <2> QED  BY <1>1, <1>4, <2>1, <2>2
<1>9. \A i \in 1..Len(s2) : i \in 1..n \/ i = n + 1
  BY <1>1
<1>10. OrderInv(s2, f2, c2)
  BY <1>5, <1>7, <1>8, <1>9 DEF OrderInv
<1> QED  BY <1>10 DEF s2, f2, c2

\* A sequence without its last element.
LEMMA ButLastFacts ==
  ASSUME NEW s \in Seq(Things), s # <<>>
  PROVE  /\ Len(s) \in Nat /\ Len(s) >= 1
         /\ SubSeq(s, 1, Len(s) - 1) \in Seq(Things)
         /\ Len(SubSeq(s, 1, Len(s) - 1)) = Len(s) - 1
         /\ DOMAIN SubSeq(s, 1, Len(s) - 1) = 1..(Len(s) - 1)
         /\ \A i \in 1..(Len(s) - 1) : SubSeq(s, 1, Len(s) - 1)[i] = s[i]
<1>1. Len(s) \in Nat /\ Len(s) >= 1 /\ DOMAIN s = 1..Len(s)
  OBVIOUS
<1>2. SubSeq(s, 1, Len(s) - 1) \in Seq(Things) /\ Len(SubSeq(s, 1, Len(s) - 1)) = Len(s) - 1
  BY <1>1
<1>3. \A i \in 1..(Len(s) - 1) : SubSeq(s, 1, Len(s) - 1)[i] = s[i]
  BY <1>1
<1> QED  BY <1>1, <1>2, <1>3

\* The frame on top goes; what is recorded of it then does not matter.
LEMMA PopOrder ==
  ASSUME NEW s \in Seq(Things), NEW f \in FlagFunctions, NEW c \in IdFunctions,
         OrderInv(s, f, c), s # <<>>,
         NEW c2 \in IdFunctions, \A x \in Things : x # s[Len(s)] => c2[x] = c[x]
  PROVE  OrderInv(SubSeq(s, 1, Len(s) - 1), f, c2)
<1> DEFINE n == Len(s)
           s2 == SubSeq(s, 1, n - 1)
<1>0. n \in Nat /\ n >= 1
  OBVIOUS
<1>1. /\ n \in Nat /\ n >= 1
      /\ s2 \in Seq(Things) /\ Len(s2) = n - 1 /\ DOMAIN s2 = 1..(n - 1)
      /\ \A i \in 1..(n - 1) : s2[i] = s[i]
  BY <1>0, ButLastFacts
<1>2. \A i, j \in 1..n : s[i] = s[j] => i = j
  BY DEF OrderInv, IsInjective
<1>3. \A j \in 1..(n - 1) : s2[j] = s[j] /\ c2[s[j]] = c[s[j]] /\ j \in 1..n
  BY <1>1, <1>2
<1> HIDE DEF s2
<1>4. IsInjective(s2)
  BY <1>1, <1>2 DEF IsInjective
<1>5. ASSUME NEW i \in 1..(n - 1)
      PROVE  /\ \E k \in 1..i : CycleFrom(s2, c2, k, i)
             /\ "WEAK" \in f[s2[i]] => c2[s2[i]] = s2[i]
             /\ "STRONG" \in f[s2[i]] =>
                  /\ i > 1
                  /\ "WEAK" \notin f[s2[i]]
                  /\ "BROKEN" \notin f[s2[i]]
                  /\ c2[s2[i]] = c2[s2[i - 1]] \/ c2[s2[i - 1]] = s2[i - 1]
  <2>1. PICK k \in 1..i : CycleFrom(s, c, k, i)
    BY <1>3 DEF OrderInv
  <2>2. CycleFrom(s2, c2, k, i)
    BY <1>1, <1>3, <2>1 DEF CycleFrom
  <2>3. i > 1 => i - 1 \in 1..(n - 1)
    BY <1>1
  <2> QED  BY <1>3, <2>2, <2>3 DEF OrderInv
<1>6. OrderInv(s2, f, c2)
  BY <1>1, <1>4, <1>5 DEF OrderInv
<1> QED  BY <1>6 DEF s2

\* The frames from q may join the cycle of the frame at q, if there is no weak
\* link among them: c2 gives them that cycle.
LEMMA JoinedOrder ==
  ASSUME NEW s \in Seq(Things), NEW f \in FlagFunctions, NEW c \in IdFunctions,
         OrderInv(s, f, c), NEW q \in 1..Len(s),
         \A i \in (q + 1)..Len(s) : "WEAK" \notin f[s[i]],
         NEW c2,
         \A i \in q..Len(s) : c2[s[i]] = c[s[q]],
         \A i \in 1..Len(s) : i <= q => c2[s[i]] = c[s[i]]
  PROVE  OrderInv(s, f, c2)
<1> DEFINE n == Len(s)
<1>1. n \in Nat /\ \A i \in 1..n : s[i] \in Things
  OBVIOUS
<1>2. \A i \in q..n : c2[s[i]] = c[s[q]]
  OBVIOUS
<1>3. \A i \in 1..n : i <= q => c2[s[i]] = c[s[i]]
  OBVIOUS
<1>4. PICK m \in 1..q : CycleFrom(s, c, m, q)
  BY DEF OrderInv
<1>5. ASSUME NEW i \in 1..n
      PROVE  /\ \E k \in 1..i : CycleFrom(s, c2, k, i)
             /\ "WEAK" \in f[s[i]] => c2[s[i]] = s[i]
             /\ "STRONG" \in f[s[i]] =>
                  /\ i > 1
                  /\ "WEAK" \notin f[s[i]]
                  /\ "BROKEN" \notin f[s[i]]
                  /\ c2[s[i]] = c2[s[i - 1]] \/ c2[s[i - 1]] = s[i - 1]
  <2>1. CASE i <= q
    <3>1. PICK k \in 1..i : CycleFrom(s, c, k, i)
      BY DEF OrderInv
    <3>2. CycleFrom(s, c2, k, i)
      BY <1>1, <1>3, <2>1, <3>1 DEF CycleFrom
    <3>3. i > 1 => i - 1 \in 1..n /\ i - 1 <= q
      BY <1>1, <2>1
    <3> QED  BY <1>3, <2>1, <3>2, <3>3 DEF OrderInv
  <2>2. CASE i > q
    <3>1. i \in (q + 1)..n /\ i - 1 \in q..n /\ i \in q..n /\ i > 1
      BY <1>1, <2>2
    <3>2. c2[s[i]] = c[s[q]] /\ c2[s[i - 1]] = c[s[q]]
      BY <1>2, <3>1
    <3>3. CycleFrom(s, c2, m, i)
      <4>1. ASSUME NEW j \in m..i
            PROVE  c2[s[j]] = c[s[q]]
        <5>1. CASE j <= q
          BY <1>1, <1>3, <1>4, <5>1 DEF CycleFrom
        <5>2. CASE j > q
          BY <1>1, <1>2, <5>2
        <5> QED  BY <5>1, <5>2
      <4> QED  BY <1>4, <3>2, <4>1 DEF CycleFrom
    <3> QED  BY <2>2, <3>1, <3>2, <3>3 DEF OrderInv
  <2> QED  BY <2>1, <2>2
<1> QED  BY <1>5 DEF OrderInv

\* mark_cycle(): the frames from q join the cycle of the frame at q.
LEMMA JoinOrder ==
  ASSUME NEW s \in Seq(Things), NEW f \in FlagFunctions, NEW c \in IdFunctions,
         OrderInv(s, f, c), NEW q \in 1..Len(s),
         \A i \in (q + 1)..Len(s) : "WEAK" \notin f[s[i]],
         NEW c2,
         \A u \in Things : c2[u] = IF \E i \in q..Len(s) : s[i] = u THEN c[s[q]] ELSE c[u]
  PROVE  OrderInv(s, f, c2)
<1>1. Len(s) \in Nat /\ \A i \in 1..Len(s) : s[i] \in Things
  OBVIOUS
<1>2. \A i, j \in 1..Len(s) : s[i] = s[j] => i = j
  BY DEF OrderInv, IsInjective
<1>3. \A i \in q..Len(s) : c2[s[i]] = c[s[q]]
  BY <1>1
<1>4. \A i \in 1..Len(s) : i <= q => c2[s[i]] = c[s[i]]
  BY <1>1, <1>2
<1> QED  BY <1>3, <1>4, JoinedOrder

\* break_weak(): cycles begin at both places of the rotation, so none is torn.
LEMMA RotateOrder ==
  ASSUME stack \in Seq(Things), NEW f \in FlagFunctions, NEW c \in IdFunctions,
         OrderInv(stack, f, c),
         NEW b \in 1..Len(stack), NEW p \in 1..Len(stack), b < p,
         c[stack[b]] = stack[b], c[stack[p]] = stack[p],
         "STRONG" \notin f[stack[b]], "STRONG" \notin f[stack[p]],
         NEW f2 \in FlagFunctions,
         \A x \in Things : /\ "WEAK" \in f2[x] <=> "WEAK" \in f[x]
                           /\ "STRONG" \in f2[x] <=> "STRONG" \in f[x]
                           /\ "BROKEN" \in f2[x] => "BROKEN" \in f[x] \/ x = stack[p]
  PROVE  OrderInv(Rotated(b, p), f2, c)
<1> DEFINE n == Len(stack)
           r == Rotated(b, p)
           w(i) == WasAt(b, p, i)
<1>0. n \in Nat /\ b \in 1..n /\ p \in 1..n
  OBVIOUS
<1>1. /\ Len(r) = n
      /\ \A i \in 1..n : w(i) \in 1..n /\ r[i] = stack[w(i)] /\ stack[i] \in Things
  BY RotatedFacts
<1>2. IsInjective(r)
  BY RotatedRange DEF OrderInv
<1>3. \A i \in 1..n : IF i < b THEN w(i) = i
                      ELSE IF i <= b + (n - p) THEN w(i) = i + (p - b)
                      ELSE w(i) = i - (n - p + 1)
  BY DEF WasAt
<1> HIDE DEF n, r, w
<1>4. ASSUME NEW i \in 1..n
      PROVE  \E k \in 1..i : CycleFrom(r, c, k, i)
  <2>1. CASE i < b
    <3>1. w(i) = i
      BY <1>3, <2>1
    <3>2. PICK k \in 1..i : CycleFrom(stack, c, k, i)
      BY DEF OrderInv, n
    <3>3. \A j \in k..i : j \in 1..n /\ j < b
      BY <1>0, <2>1
    <3>4. \A j \in k..i : r[j] = stack[j]
      BY <1>1, <1>3, <3>3
    <3>5. r[k] = stack[k] /\ r[i] = stack[i]
      BY <1>0, <3>4
    <3>6. CycleFrom(r, c, k, i)
      BY <3>2, <3>4, <3>5 DEF CycleFrom
    <3> QED  BY <3>6
  <2>2. CASE ~(i < b) /\ i <= b + (n - p)
    <3>1. w(i) = i + (p - b) /\ w(i) \in 1..n /\ p \in 1..w(i)
      BY <1>0, <1>1, <1>3, <2>2
    <3>2. PICK k \in p..w(i) : CycleFrom(stack, c, k, w(i))
      BY <3>1, CycleStart DEF n
    <3>3. k - (p - b) \in 1..i /\ w(k - (p - b)) = k /\ k - (p - b) \in 1..n
      BY <1>0, <1>3, <2>2, <3>1
    <3>4. ASSUME NEW j \in (k - (p - b))..i
          PROVE  j \in 1..n /\ w(j) \in k..w(i)
      <4>1. j \in 1..n /\ ~(j < b) /\ j <= b + (n - p)
        BY <1>0, <2>2, <3>1
      <4>2. w(j) = j + (p - b)
        BY <1>3, <4>1
      <4> QED  BY <1>0, <3>1, <4>1, <4>2
    <3>5. \A j \in (k - (p - b))..i : c[r[j]] = c[stack[w(i)]]
      <4> SUFFICES ASSUME NEW j \in (k - (p - b))..i
                   PROVE  c[r[j]] = c[stack[w(i)]]
        OBVIOUS
      <4>1. j \in 1..n /\ w(j) \in k..w(i)
        BY <3>4
      <4>2. r[j] = stack[w(j)]
        BY <1>1, <4>1
      <4> QED  BY <3>2, <4>1, <4>2 DEF CycleFrom
    <3>6. r[k - (p - b)] = stack[k] /\ r[i] = stack[w(i)]
      BY <1>1, <3>3
    <3>7. CycleFrom(r, c, k - (p - b), i)
      BY <3>2, <3>5, <3>6 DEF CycleFrom
    <3> QED  BY <3>3, <3>7
  <2>3. CASE ~(i < b) /\ ~(i <= b + (n - p))
    <3>1. w(i) = i - (n - p + 1) /\ w(i) \in 1..n /\ b \in 1..w(i) /\ w(i) < p
      BY <1>0, <1>1, <1>3, <2>3
    <3>2. PICK k \in b..w(i) : CycleFrom(stack, c, k, w(i))
      BY <3>1, CycleStart DEF n
    <3>3. /\ k + (n - p + 1) \in 1..i /\ w(k + (n - p + 1)) = k
          /\ k + (n - p + 1) \in 1..n
      BY <1>0, <1>3, <2>3, <3>1
    <3>4. ASSUME NEW j \in (k + (n - p + 1))..i
          PROVE  j \in 1..n /\ w(j) \in k..w(i)
      <4>1. j \in 1..n /\ ~(j < b) /\ ~(j <= b + (n - p))
        BY <1>0, <2>3, <3>1
      <4>2. w(j) = j - (n - p + 1)
        BY <1>3, <4>1
      <4> QED  BY <1>0, <3>1, <4>1, <4>2
    <3>5. \A j \in (k + (n - p + 1))..i : c[r[j]] = c[stack[w(i)]]
      <4> SUFFICES ASSUME NEW j \in (k + (n - p + 1))..i
                   PROVE  c[r[j]] = c[stack[w(i)]]
        OBVIOUS
      <4>1. j \in 1..n /\ w(j) \in k..w(i)
        BY <3>4
      <4>2. r[j] = stack[w(j)]
        BY <1>1, <4>1
      <4> QED  BY <3>2, <4>1, <4>2 DEF CycleFrom
    <3>6. r[k + (n - p + 1)] = stack[k] /\ r[i] = stack[w(i)]
      BY <1>1, <3>3
    <3>7. CycleFrom(r, c, k + (n - p + 1), i)
      BY <3>2, <3>5, <3>6 DEF CycleFrom
    <3> QED  BY <3>3, <3>7
  <2> QED  BY <2>1, <2>2, <2>3
<1>5. ASSUME NEW i \in 1..n
      PROVE  "WEAK" \in f2[r[i]] => c[r[i]] = r[i]
  <2>1. r[i] = stack[w(i)] /\ w(i) \in 1..n /\ r[i] \in Things
    BY <1>1
  <2>2. "WEAK" \in f[stack[w(i)]] => c[stack[w(i)]] = stack[w(i)]
    BY <2>1 DEF OrderInv, n
  <2> QED  BY <2>1, <2>2
<1>6. ASSUME NEW i \in 1..n, "STRONG" \in f2[r[i]]
      PROVE  /\ i > 1
             /\ "WEAK" \notin f2[r[i]]
             /\ "BROKEN" \notin f2[r[i]]
             /\ c[r[i]] = c[r[i - 1]] \/ c[r[i - 1]] = r[i - 1]
  <2>1. "STRONG" \in f[stack[w(i)]] /\ w(i) \in 1..n /\ w(i) # b /\ w(i) # p
    BY <1>1, <1>6
  <2>2. /\ w(i) > 1
        /\ "WEAK" \notin f[stack[w(i)]]
        /\ "BROKEN" \notin f[stack[w(i)]]
        /\ c[stack[w(i)]] = c[stack[w(i) - 1]] \/ c[stack[w(i) - 1]] = stack[w(i) - 1]
    BY <2>1 DEF OrderInv, n
  <2>3. i > 1 /\ i - 1 \in 1..n /\ w(i - 1) = w(i) - 1
    <3>1. w(i) \in 1..n /\ w(i) > 1 /\ w(i) # b /\ w(i) # p
      BY <2>1, <2>2
    <3>2. i # b /\ i # b + (n - p) + 1 /\ i > 1
      BY <1>0, <1>3, <3>1
    <3>3. i - 1 \in 1..n
      BY <1>0, <3>2
    <3> QED  BY <1>0, <1>3, <3>2, <3>3
  <2>4. stack[w(i)] # stack[p]
    BY <2>1
  <2> QED  BY <1>1, <2>2, <2>3, <2>4
<1>7. OrderInv(r, f2, c)
  BY <1>1, <1>2, <1>4, <1>5, <1>6 DEF OrderInv
<1> QED  BY <1>7 DEF r

\* break_at(): all that is rotated becomes one cycle, or joins the one before.
LEMMA RotateJoinOrder ==
  ASSUME stack \in Seq(Things), NEW f \in FlagFunctions, NEW c \in IdFunctions,
         OrderInv(stack, f, c),
         NEW b \in 1..Len(stack), NEW p \in 1..Len(stack), b < p,
         NEW f2 \in FlagFunctions, NEW c2 \in IdFunctions, NEW id \in Things,
         \A i \in 1..Len(stack) : i < b =>
           f2[stack[i]] = f[stack[i]] /\ c2[stack[i]] = c[stack[i]],
         \A i \in b..Len(stack) :
           /\ c2[stack[i]] = id
           /\ "WEAK" \notin f2[stack[i]]
           /\ "STRONG" \in f2[stack[i]] => "BROKEN" \notin f2[stack[i]],
         "STRONG" \notin f2[stack[p]],
         id = stack[p] \/ (b > 1 /\ id = c[stack[b - 1]])
  PROVE  OrderInv(Rotated(b, p), f2, c2)
<1> DEFINE n == Len(stack)
           r == Rotated(b, p)
           w(i) == WasAt(b, p, i)
<1>0. n \in Nat /\ b \in 1..n /\ p \in 1..n
  OBVIOUS
<1>1. /\ Len(r) = n
      /\ \A i \in 1..n : w(i) \in 1..n /\ r[i] = stack[w(i)] /\ stack[i] \in Things
  BY RotatedFacts
<1>2. IsInjective(r)
  BY RotatedRange DEF OrderInv
<1>3. /\ \A i \in 1..n : IF i < b THEN w(i) = i ELSE w(i) \in b..n
      /\ w(b) = p
      /\ \A i \in 1..n : w(i) = p => i = b
  BY DEF WasAt
<1> HIDE DEF n, r, w
<1>4. \A i \in 1..n : i < b => r[i] = stack[i] /\ f2[r[i]] = f[r[i]] /\ c2[r[i]] = c[r[i]]
  BY <1>1, <1>3 DEF n
<1>5. \A i \in b..n : /\ i \in 1..n
                      /\ c2[r[i]] = id
                      /\ "WEAK" \notin f2[r[i]]
                      /\ "STRONG" \in f2[r[i]] => "BROKEN" \notin f2[r[i]]
  BY <1>1, <1>3 DEF n
<1>6. \A i \in b..n : "STRONG" \in f2[r[i]] => i # b
  BY <1>1, <1>3
<1>7. ASSUME NEW i \in 1..n, i < b
      PROVE  /\ \E k \in 1..i : CycleFrom(r, c2, k, i)
             /\ "WEAK" \in f2[r[i]] => c2[r[i]] = r[i]
             /\ "STRONG" \in f2[r[i]] =>
                  /\ i > 1
                  /\ "WEAK" \notin f2[r[i]]
                  /\ "BROKEN" \notin f2[r[i]]
                  /\ c2[r[i]] = c2[r[i - 1]] \/ c2[r[i - 1]] = r[i - 1]
  <2>1. PICK k \in 1..i : CycleFrom(stack, c, k, i)
    BY DEF OrderInv, n
  <2>2. \A j \in k..i : r[j] = stack[j] /\ c2[r[j]] = c[stack[j]]
    <3>1. \A j \in k..i : j \in 1..n /\ j < b
      BY <1>0, <1>7
    <3> QED  BY <1>4, <3>1
  <2>3. CycleFrom(r, c2, k, i)
    BY <2>1, <2>2 DEF CycleFrom
  <2>4. i > 1 => i - 1 \in 1..n /\ i - 1 < b
    BY <1>0, <1>7
  <2>5. /\ "WEAK" \in f[stack[i]] => c[stack[i]] = stack[i]
        /\ "STRONG" \in f[stack[i]] =>
             /\ i > 1
             /\ "WEAK" \notin f[stack[i]]
             /\ "BROKEN" \notin f[stack[i]]
             /\ c[stack[i]] = c[stack[i - 1]] \/ c[stack[i - 1]] = stack[i - 1]
    BY DEF OrderInv, n
  <2> QED  BY <1>4, <1>7, <2>3, <2>4, <2>5
<1>8. ASSUME NEW i \in b..n
      PROVE  /\ \E k \in 1..i : CycleFrom(r, c2, k, i)
             /\ "WEAK" \in f2[r[i]] => c2[r[i]] = r[i]
             /\ "STRONG" \in f2[r[i]] =>
                  /\ i > 1
                  /\ "WEAK" \notin f2[r[i]]
                  /\ "BROKEN" \notin f2[r[i]]
                  /\ c2[r[i]] = c2[r[i - 1]] \/ c2[r[i - 1]] = r[i - 1]
  <2>1. \E k \in 1..i : CycleFrom(r, c2, k, i)
    <3>1. CASE id = stack[p]
      <4>1. r[b] = id /\ b \in 1..i /\ \A j \in b..i : j \in b..n
        BY <1>0, <1>1, <1>3, <3>1
      <4> QED  BY <1>5, <4>1 DEF CycleFrom
    <3>2. CASE b > 1 /\ id = c[stack[b - 1]]
      <4>1. b - 1 \in 1..n
        BY <1>0, <3>2
      <4>2. PICK k \in 1..(b - 1) : CycleFrom(stack, c, k, b - 1)
        BY <4>1 DEF OrderInv, n
      <4>3. k \in 1..i /\ k \in 1..n /\ k < b
        BY <1>0, <3>2
      <4>4. ASSUME NEW j \in k..i
            PROVE  c2[r[j]] = id
        <5>1. CASE j < b
          <6>1. j \in k..(b - 1) /\ j \in 1..n
            BY <1>0, <3>2, <5>1
          <6> QED  BY <1>4, <3>2, <4>2, <5>1, <6>1 DEF CycleFrom
        <5>2. CASE ~(j < b)
          <6>1. j \in b..n
            BY <1>0, <5>2
          <6> QED  BY <1>5, <6>1
        <5> QED  BY <5>1, <5>2
      <4>5. r[k] = id
        BY <1>4, <3>2, <4>2, <4>3 DEF CycleFrom
      <4>6. CycleFrom(r, c2, k, i)
        BY <1>5, <4>4, <4>5 DEF CycleFrom
      <4> QED  BY <4>3, <4>6
    <3> QED  BY <3>1, <3>2
  <2>2. ASSUME "STRONG" \in f2[r[i]]
        PROVE  i > 1 /\ i - 1 \in b..n
    <3>1. i # b
      BY <1>6, <2>2
    <3> QED  BY <1>0, <3>1
  <2> QED  BY <1>5, <2>1, <2>2
<1>9. \A i \in 1..n : i < b \/ i \in b..n
  BY <1>0
<1>10. OrderInv(r, f2, c2)
  BY <1>1, <1>2, <1>7, <1>8, <1>9 DEF OrderInv
<1> QED  BY <1>10 DEF r

-----------------------------------------------------------------------------
(* A link to a thing that has a frame.                                     *)

StackTypes ==
  stack \in Seq(Things) /\ rf_flags \in FlagFunctions /\ cycle_id \in IdFunctions

StackInv == StackTypes /\ OrderInv(stack, rf_flags, cycle_id)

\* Position() finds a frame.
LEMMA PositionFacts ==
  ASSUME StackInv
  PROVE  /\ \A t \in Range(stack) : Position(t) \in 1..Len(stack) /\ stack[Position(t)] = t
         /\ \A i \in 1..Len(stack) : Position(stack[i]) = i /\ stack[i] \in Things
<1>1. stack \in Seq(Things) /\ DOMAIN stack = 1..Len(stack)
  BY DEF StackInv, StackTypes
<1>2. \A i, j \in 1..Len(stack) : stack[i] = stack[j] => i = j
  BY <1>1 DEF StackInv, OrderInv, IsInjective
<1>3. \A t \in Range(stack) : Position(t) \in 1..Len(stack) /\ stack[Position(t)] = t
  <2> SUFFICES ASSUME NEW t \in Range(stack)
               PROVE  Position(t) \in 1..Len(stack) /\ stack[Position(t)] = t
    OBVIOUS
  <2>1. \E i \in DOMAIN stack : stack[i] = t
    BY DEF Range
  <2> QED  BY <1>1, <2>1 DEF Position
<1>4. \A i \in 1..Len(stack) : stack[i] \in Range(stack) /\ stack[i] \in Things
  BY <1>1 DEF Range
<1> QED  BY <1>2, <1>3, <1>4

\* The cycle of a thing leads to a frame on the stack.
LEMMA RootFacts ==
  ASSUME NEW t, t \in Range(stack) \/ OnPieceList(t)
  PROVE  Root(t) \in Range(stack)
BY DEF Root, OnPieceList

\* Where a rotation begins, and that a chain of strong links follows.
LEMMA RotateBegFacts ==
  ASSUME StackInv, NEW q \in 1..Len(stack)
  PROVE  /\ RotateBeg(q) \in 1..q
         /\ "STRONG" \notin rf_flags[stack[RotateBeg(q)]]
         /\ \A i \in (RotateBeg(q) + 1)..q : "STRONG" \in rf_flags[stack[i]]
<1> DEFINE S == {i \in 1..q : "STRONG" \notin rf_flags[stack[i]]}
<1>1. 1 \in 1..Len(stack) /\ Len(stack) \in Nat /\ q \in Nat
  BY DEF StackInv, StackTypes
<1>2. "STRONG" \notin rf_flags[stack[1]]
  BY <1>1 DEF StackInv, OrderInv
<1>3. S \subseteq 1..q /\ 1 \in S
  BY <1>1, <1>2
<1> HIDE DEF S
<1>4. Highest(S) \in S /\ \A j \in S : j <= Highest(S)
  BY <1>1, <1>3, HighestNumber
<1>5. RotateBeg(q) = Highest(S)
  BY DEF RotateBeg, S
<1>6. Highest(S) \in 1..q /\ "STRONG" \notin rf_flags[stack[Highest(S)]]
  BY <1>4 DEF S
<1>7. ASSUME NEW i \in (Highest(S) + 1)..q
      PROVE  "STRONG" \in rf_flags[stack[i]]
  <2>1. i \in 1..q /\ ~(i <= Highest(S))
    BY <1>1, <1>6
  <2>2. i \notin S
    BY <1>4, <2>1
  <2> QED  BY <2>1, <2>2 DEF S
<1> QED  BY <1>5, <1>6, <1>7

\* break_weak() keeps the order of the stack.
LEMMA BreakWeakOrder ==
  ASSUME StackInv, NEW t, t \in Range(stack) \/ OnPieceList(t),
         NEW pos \in 1..Len(stack), pos > Position(Root(t)),
         "WEAK" \in rf_flags[stack[pos]],
         break_weak(t, pos)
  PROVE  StackInv' /\ Range(stack') = Range(stack)
<1> DEFINE q == Position(Root(t))
<1>1. q \in 1..Len(stack) /\ stack[q] = Root(t) /\ Len(stack) \in Nat
  BY RootFacts, PositionFacts DEF StackInv, StackTypes
<1>2. PICK m \in 1..q : CycleFrom(stack, cycle_id, m, q)
  BY <1>1 DEF StackInv, OrderInv
<1>3. m \in 1..Len(stack) /\ m <= q
  BY <1>1
<1>4. stack[m] = cycle_id[Root(t)] /\ cycle_id[stack[m]] = stack[m]
  <2>1. m \in m..q
    BY <1>1
  <2> QED  BY <1>1, <1>2, <2>1 DEF CycleFrom
<1>5. Position(cycle_id[Root(t)]) = m
  BY <1>3, <1>4, PositionFacts
<1> DEFINE b == RotateBeg(m)
<1>6. /\ b \in 1..m
      /\ "STRONG" \notin rf_flags[stack[b]]
      /\ \A i \in (b + 1)..m : "STRONG" \in rf_flags[stack[i]]
  BY <1>3, RotateBegFacts
<1>7. stack' = Rotated(b, pos) /\ cycle_id' = cycle_id
  BY <1>5 DEF break_weak
<1> HIDE DEF q, b
<1>8. cycle_id[stack[b]] = stack[b]
  BY <1>3, <1>4, <1>6, ChainDown DEF StackInv, StackTypes
<1>9. b \in 1..Len(stack) /\ b < pos
  BY <1>1, <1>3, <1>6 DEF q
<1>10. cycle_id[stack[pos]] = stack[pos] /\ "STRONG" \notin rf_flags[stack[pos]]
  BY DEF StackInv, OrderInv
<1>11. stack[pos] \in Things
  BY PositionFacts
<1>12. rf_flags' = [rf_flags EXCEPT ![stack[pos]] = @ \cup {"BROKEN"}]
  BY DEF break_weak
<1>13. /\ rf_flags' \in FlagFunctions
       /\ \A x \in Things : /\ "WEAK" \in rf_flags'[x] <=> "WEAK" \in rf_flags[x]
                            /\ "STRONG" \in rf_flags'[x] <=> "STRONG" \in rf_flags[x]
                            /\ "BROKEN" \in rf_flags'[x] => "BROKEN" \in rf_flags[x] \/ x = stack[pos]
  BY <1>11, <1>12 DEF StackInv, StackTypes, FlagFunctions
<1>14. OrderInv(Rotated(b, pos), rf_flags', cycle_id)
  BY <1>6, <1>8, <1>9, <1>10, <1>13, RotateOrder DEF StackInv, StackTypes
<1>15. Rotated(b, pos) \in Seq(Things) /\ Range(Rotated(b, pos)) = Range(stack)
  BY <1>9, RotatedFacts, RotatedRange DEF StackInv, StackTypes
<1> QED  BY <1>7, <1>13, <1>14, <1>15 DEF StackInv, StackTypes

\* break_at() keeps the order of the stack.
LEMMA BreakAtOrder ==
  ASSUME StackInv, NEW t, t \in Range(stack) \/ OnPieceList(t), NEW strength,
         NEW pos \in 1..Len(stack), pos > Position(Root(t)),
         "STRONG" \notin rf_flags[stack[pos]],
         \A i \in 1..Len(stack) : i > Position(Root(t)) => "WEAK" \notin rf_flags[stack[i]],
         break_at(t, strength, pos)
  PROVE  StackInv' /\ Range(stack') = Range(stack)
<1> DEFINE q == Position(Root(t))
           n == Len(stack)
           b == RotateBeg(q)
           before == {cycle_id[stack[i]] : i \in {b - 1} \cap DOMAIN stack}
           id == IF cycle_id[stack[b]] \in before THEN cycle_id[Root(t)] ELSE stack[pos]
<1>1. q \in 1..n /\ stack[q] = Root(t) /\ n \in Nat /\ DOMAIN stack = 1..n
  BY RootFacts, PositionFacts DEF StackInv, StackTypes
<1>2. /\ b \in 1..q
      /\ "STRONG" \notin rf_flags[stack[b]]
      /\ \A i \in (b + 1)..q : "STRONG" \in rf_flags[stack[i]]
  BY <1>1, RotateBegFacts
<1>3. /\ stack' = Rotated(b, pos)
      /\ rf_flags' = [rf_flags EXCEPT
           ![stack[pos]] = @ \cup {"BROKEN"},
           ![stack[b]] = (@ \ {"WEAK", "BROKEN"}) \cup {f \in {"STRONG"} : strength = "strong"}]
      /\ cycle_id' = [u \in Things |->
           IF \E i \in b..n : stack[i] = u THEN id ELSE cycle_id[u]]
  BY DEF break_at
<1> HIDE DEF b
<1>4. b \in 1..n /\ b < pos /\ pos > q /\ b <= q
  BY <1>1, <1>2
<1>5. \A i \in 1..n : stack[i] \in Things
  BY PositionFacts
<1>6. \A i, j \in 1..n : stack[i] = stack[j] => i = j
  BY <1>1 DEF StackInv, OrderInv, IsInjective
<1>7. id \in Things /\ (id = stack[pos] \/ (b > 1 /\ id = cycle_id[stack[b - 1]]))
  <2>1. CASE cycle_id[stack[b]] \in before
    <3>1. b - 1 \in 1..n /\ cycle_id[stack[b]] = cycle_id[stack[b - 1]]
      BY <1>1, <2>1
    <3>2. b \in 2..q
      BY <1>2, <1>4, <3>1
    <3>3. cycle_id[stack[q]] = cycle_id[stack[b]]
      <4> HIDE DEF q, before, id
      <4>1. stack \in Seq(Things) /\ OrderInv(stack, rf_flags, cycle_id) /\ q \in 1..Len(stack)
        BY <1>1 DEF StackInv, StackTypes
      <4> QED  BY <1>2, <3>1, <3>2, <4>1, ChainUp
    <3>4. id = cycle_id[stack[b - 1]] /\ b > 1
      BY <1>1, <2>1, <3>1, <3>2, <3>3
    <3>5. cycle_id[stack[b - 1]] \in Things
      BY <1>5, <3>1 DEF StackInv, StackTypes, IdFunctions
    <3> QED  BY <3>4, <3>5
  <2>2. CASE cycle_id[stack[b]] \notin before
    BY <1>5, <2>2
  <2> QED  BY <2>1, <2>2
<1> HIDE DEF id, before, q, n
<1>8. /\ cycle_id' \in IdFunctions
      /\ \A i \in b..n : cycle_id'[stack[i]] = id
      /\ \A i \in 1..n : i < b => cycle_id'[stack[i]] = cycle_id[stack[i]]
  <2>1. cycle_id' \in IdFunctions
    BY <1>3, <1>7 DEF StackInv, StackTypes, IdFunctions
  <2>2. ASSUME NEW i \in b..n
        PROVE  cycle_id'[stack[i]] = id
    <3>1. i \in 1..n
      BY <1>1, <1>4
    <3> QED  BY <1>3, <1>5, <3>1
  <2>3. ASSUME NEW i \in 1..n, i < b
        PROVE  cycle_id'[stack[i]] = cycle_id[stack[i]]
    <3>1. \A j \in b..n : j \in 1..n /\ j # i
      BY <1>1, <1>4, <2>3
    <3>2. ~ \E j \in b..n : stack[j] = stack[i]
      BY <1>6, <3>1
    <3> QED  BY <1>3, <1>5, <3>2
  <2> QED  BY <2>1, <2>2, <2>3
<1>9. /\ rf_flags' \in FlagFunctions
      /\ rf_flags'[stack[pos]] = rf_flags[stack[pos]] \cup {"BROKEN"}
      /\ rf_flags'[stack[b]] = (rf_flags[stack[b]] \ {"WEAK", "BROKEN"})
                                 \cup {f \in {"STRONG"} : strength = "strong"}
      /\ \A x \in Things : x # stack[pos] /\ x # stack[b] => rf_flags'[x] = rf_flags[x]
  <2>1. stack[pos] \in Things /\ stack[b] \in Things /\ stack[pos] # stack[b]
    BY <1>4, <1>5, <1>6 DEF n
  <2> QED  BY <1>3, <2>1 DEF StackInv, StackTypes, FlagFunctions
<1>10. pos \in 1..n
  BY DEF n
<1>11. ASSUME NEW i \in 1..n, i < b
       PROVE  rf_flags'[stack[i]] = rf_flags[stack[i]]
  <2>1. i # pos /\ i # b
    BY <1>1, <1>4, <1>11
  <2> QED  BY <1>4, <1>5, <1>6, <1>9, <1>10, <2>1
<1>12. ASSUME NEW i \in b..n
       PROVE  /\ "WEAK" \notin rf_flags'[stack[i]]
              /\ "STRONG" \in rf_flags'[stack[i]] => "BROKEN" \notin rf_flags'[stack[i]]
  <2>1. i \in 1..n
    BY <1>1, <1>4
  <2>2. /\ "STRONG" \in rf_flags[stack[i]] => /\ "WEAK" \notin rf_flags[stack[i]]
                                              /\ "BROKEN" \notin rf_flags[stack[i]]
    BY <2>1 DEF StackInv, OrderInv, n
  <2>3. CASE i = b
    BY <1>9, <2>3
  <2>4. CASE i # b
    <3>1. "WEAK" \notin rf_flags[stack[i]]
      <4>1. CASE i > q
        BY <2>1, <4>1 DEF q, n
      <4>2. CASE ~(i > q)
        <5>1. i \in (b + 1)..q
          BY <1>1, <1>4, <2>4, <4>2
        <5> QED  BY <1>2, <2>2, <5>1
      <4> QED  BY <4>1, <4>2
    <3>2. CASE i = pos
      BY <1>9, <3>1, <3>2
    <3>3. CASE i # pos
      <4>1. rf_flags'[stack[i]] = rf_flags[stack[i]]
        BY <1>4, <1>5, <1>6, <1>9, <1>10, <2>1, <2>4, <3>3
      <4> QED  BY <2>2, <3>1, <4>1
    <3> QED  BY <3>2, <3>3
  <2> QED  BY <2>3, <2>4
<1>13. "STRONG" \notin rf_flags'[stack[pos]]
  BY <1>9
<1>14. OrderInv(Rotated(b, pos), rf_flags', cycle_id')
  BY <1>4, <1>7, <1>8, <1>9, <1>11, <1>12, <1>13, RotateJoinOrder DEF StackInv, StackTypes, n
<1>15. Rotated(b, pos) \in Seq(Things) /\ Range(Rotated(b, pos)) = Range(stack)
  BY <1>4, RotatedFacts, RotatedRange DEF StackInv, StackTypes, n
<1> QED  BY <1>3, <1>8, <1>9, <1>14, <1>15 DEF StackInv, StackTypes

\* Whatever a link to a thing with a frame does, the order of the stack is kept.
LEMMA CyclicRefOrder ==
  ASSUME StackInv, NEW t, t \in Range(stack) \/ OnPieceList(t), NEW strength,
         cyclic_ref(t, strength)
  PROVE  StackInv' /\ Range(stack') = Range(stack)
<1> DEFINE q == Position(Root(t))
           above == {i \in DOMAIN stack : i > q}
           Flagged(flag) == {i \in above : flag \in rf_flags[stack[i]]}
           nonstrong == {i \in above \ Flagged("STRONG") : strength = "strong"}
<1>1. /\ q \in 1..Len(stack) /\ stack[q] = Root(t)
      /\ Len(stack) \in Nat /\ DOMAIN stack = 1..Len(stack)
  BY RootFacts, PositionFacts DEF StackInv, StackTypes
<1>2. ASSUME NEW S, S \subseteq above, S # {}
      PROVE  Highest(S) \in S /\ Highest(S) \in 1..Len(stack) /\ Highest(S) > q
  <2>1. S \subseteq 1..Len(stack)
    BY <1>1, <1>2
  <2>2. Highest(S) \in S
    BY <1>1, <1>2, <2>1, HighestNumber
  <2> QED  BY <1>2, <2>1, <2>2
<1>3. CASE UNCHANGED order
  BY <1>3 DEF order, StackInv, StackTypes
<1>4. CASE Flagged("WEAK") # {} /\ break_weak(t, Highest(Flagged("WEAK")))
  <2>1. /\ Highest(Flagged("WEAK")) \in Flagged("WEAK")
        /\ Highest(Flagged("WEAK")) \in 1..Len(stack) /\ Highest(Flagged("WEAK")) > q
    BY <1>2, <1>4
  <2>2. "WEAK" \in rf_flags[stack[Highest(Flagged("WEAK"))]]
    BY <2>1
  <2> QED  BY <1>4, <2>1, <2>2, BreakWeakOrder
<1>5. ASSUME Flagged("WEAK") = {}
      PROVE  \A i \in 1..Len(stack) : i > q => "WEAK" \notin rf_flags[stack[i]]
  BY <1>1, <1>5
<1>6. CASE /\ Flagged("WEAK") = {} /\ Flagged("BROKEN") # {}
           /\ break_at(t, strength, Highest(Flagged("BROKEN")))
  <2>1. /\ Highest(Flagged("BROKEN")) \in Flagged("BROKEN")
        /\ Highest(Flagged("BROKEN")) \in 1..Len(stack) /\ Highest(Flagged("BROKEN")) > q
    BY <1>2, <1>6
  <2>2. "BROKEN" \in rf_flags[stack[Highest(Flagged("BROKEN"))]]
    BY <2>1
  <2>3. "STRONG" \notin rf_flags[stack[Highest(Flagged("BROKEN"))]]
    BY <2>1, <2>2 DEF StackInv, OrderInv
  <2> QED  BY <1>5, <1>6, <2>1, <2>3, BreakAtOrder
<1>7. CASE /\ Flagged("WEAK") = {} /\ nonstrong # {}
           /\ break_at(t, strength, Highest(nonstrong))
  <2>1. /\ Highest(nonstrong) \in nonstrong
        /\ Highest(nonstrong) \in 1..Len(stack) /\ Highest(nonstrong) > q
    BY <1>2, <1>7
  <2>2. "STRONG" \notin rf_flags[stack[Highest(nonstrong)]]
    BY <2>1
  <2> QED  BY <1>5, <1>7, <2>1, <2>2, BreakAtOrder
<1>8. CASE Flagged("WEAK") = {} /\ mark_cycle(t)
  <2>1. /\ cycle_id' = [u \in Things |-> IF \E i \in q..Len(stack) : stack[i] = u
                                         THEN cycle_id[stack[q]] ELSE cycle_id[u]]
        /\ stack' = stack /\ rf_flags' = rf_flags
    BY <1>1, <1>8 DEF mark_cycle
  <2>2. cycle_id[stack[q]] \in Things
    BY <1>1, PositionFacts DEF StackInv, StackTypes, IdFunctions
  <2>3. cycle_id' \in IdFunctions
    BY <2>1, <2>2 DEF StackInv, StackTypes, IdFunctions
  <2>4. \A i \in (q + 1)..Len(stack) : "WEAK" \notin rf_flags[stack[i]]
    BY <1>1, <1>5, <1>8
  <2> HIDE DEF q
  <2>5. OrderInv(stack, rf_flags, cycle_id')
    BY <1>1, <2>1, <2>4, JoinOrder DEF StackInv, StackTypes
  <2> QED  BY <2>1, <2>3, <2>5 DEF StackInv, StackTypes
<1>9. \/ UNCHANGED order
      \/ Flagged("WEAK") # {} /\ break_weak(t, Highest(Flagged("WEAK")))
      \/ /\ Flagged("WEAK") = {} /\ Flagged("BROKEN") # {}
         /\ break_at(t, strength, Highest(Flagged("BROKEN")))
      \/ /\ Flagged("WEAK") = {} /\ nonstrong # {}
         /\ break_at(t, strength, Highest(nonstrong))
      \/ Flagged("WEAK") = {} /\ mark_cycle(t)
  BY DEF cyclic_ref
<1> QED  BY <1>3, <1>4, <1>6, <1>7, <1>8, <1>9

-----------------------------------------------------------------------------
(* Paths.                                                                  *)

\* Paths whose inner things are up to n, from those up to n - 1.
Through(less, n) ==
  less \cup {p \in Things \X Things : <<p[1], n>> \in less /\ <<n, p[2]>> \in less}

ThroughAll(E, m, g) ==
  g = [n \in 0..m |-> IF n = 0 THEN E ELSE Through(g[n - 1], n)]

\* The recursive function in Paths() exists.
LEMMA ThroughExists ==
  ASSUME NEW E, NEW m \in Nat
  PROVE  \E g : ThroughAll(E, m, g)
<1> DEFINE S == {k \in Nat : ~ \E g : ThroughAll(E, k, g)}
<1> SUFFICES ASSUME S # {}
             PROVE  FALSE
  OBVIOUS
<1>1. PICK k \in S : \A j \in S : k <= j
  BY LeastNumber
<1>2. CASE k = 0
  <2>1. ThroughAll(E, 0, [n \in 0..0 |-> E])
    BY DEF ThroughAll
  <2> QED  BY <1>1, <1>2, <2>1
<1>3. CASE k # 0
  <2>1. k - 1 \in Nat /\ k - 1 \notin S
    BY <1>1, <1>3
  <2>2. PICK g : ThroughAll(E, k - 1, g)
    BY <2>1
  <2> DEFINE h == [n \in 0..k |-> IF n = k THEN Through(g[k - 1], k) ELSE g[n]]
  <2>3. ThroughAll(E, k, h)
    BY <1>1, <1>3, <2>2 DEF ThroughAll
  <2> QED  BY <1>1, <2>3
<1> QED  BY <1>2, <1>3

\* What Paths() is: the last value of that function.
LEMMA PathsThrough ==
  ASSUME NEW E
  PROVE  \E g : ThroughAll(E, N, g) /\ Paths(E) = g[N]
<1>1. PICK h : ThroughAll(E, N, h)
  BY ThroughExists, GcAssumption
<1> DEFINE g == CHOOSE f : f =
             [n \in 0..N |->
                IF n = 0 THEN E
                ELSE LET less == f[n - 1]
                     IN less \cup {p \in Things \X Things : <<p[1], n>> \in less /\ <<n, p[2]>> \in less}]
<1>2. h = [n \in 0..N |->
             IF n = 0 THEN E
             ELSE LET less == h[n - 1]
                  IN less \cup {p \in Things \X Things : <<p[1], n>> \in less /\ <<n, p[2]>> \in less}]
  BY <1>1 DEF ThroughAll, Through
<1>3. g = [n \in 0..N |->
             IF n = 0 THEN E
             ELSE LET less == g[n - 1]
                  IN less \cup {p \in Things \X Things : <<p[1], n>> \in less /\ <<n, p[2]>> \in less}]
  <2> HIDE DEF g
  <2> QED  BY <1>2 DEF g
<1>4. ThroughAll(E, N, g)
  <2> HIDE DEF g
  <2> QED  BY <1>3 DEF ThroughAll, Through
<1>5. Paths(E) = g[N]
  BY DEF Paths
<1> QED  BY <1>4, <1>5

\* The values of the function, one after the other.
LEMMA ThroughSteps ==
  ASSUME NEW E, NEW g, ThroughAll(E, N, g)
  PROVE  g[0] = E /\ \A n \in 1..N : g[n] = Through(g[n - 1], n)
<1>1. N \in Nat
  BY GcAssumption
<1>2. \A n \in 0..N : g[n] = IF n = 0 THEN E ELSE Through(g[n - 1], n)
  BY DEF ThroughAll
<1> QED  BY <1>1, <1>2

\* A path through n, and paths to and from n.
LEMMA ThroughFacts ==
  ASSUME NEW L, NEW n \in Things
  PROVE  /\ \A a, b \in Things :
              <<a, b>> \in Through(L, n) <=>
                <<a, b>> \in L \/ (<<a, n>> \in L /\ <<n, b>> \in L)
         /\ L \subseteq Through(L, n)
         /\ L \subseteq Things \X Things => Through(L, n) \subseteq Things \X Things
BY DEF Through

\* References are paths, and paths join.
LEMMA PathsJoin ==
  ASSUME NEW E, E \subseteq Things \X Things
  PROVE  /\ Paths(E) \subseteq Things \X Things
         /\ E \subseteq Paths(E)
         /\ \A a, k, b \in Things :
              <<a, k>> \in Paths(E) /\ <<k, b>> \in Paths(E) => <<a, b>> \in Paths(E)
<1>1. PICK g : ThroughAll(E, N, g) /\ Paths(E) = g[N]
  BY PathsThrough
<1>2. g[0] = E /\ \A n \in 1..N : g[n] = Through(g[n - 1], n)
  BY <1>1, ThroughSteps
<1> DEFINE Joined(n) ==
             /\ g[n] \subseteq Things \X Things
             /\ E \subseteq g[n]
             /\ \A k \in Things : k <= n =>
                  \A a, b \in Things :
                    <<a, k>> \in g[n] /\ <<k, b>> \in g[n] => <<a, b>> \in g[n]
           S == {n \in 0..N : ~Joined(n)}
<1>3. N \in Nat /\ Things = 1..N
  BY GcAssumption DEF Things
<1>4. Joined(0)
  BY <1>2, <1>3
<1>5. ASSUME NEW n \in 1..N, Joined(n - 1)
      PROVE  Joined(n)
  <2> DEFINE L == g[n - 1]
  <2>1. n \in Things /\ g[n] = Through(L, n)
    BY <1>2, <1>3
  <2>2. /\ L \subseteq Things \X Things /\ E \subseteq L
        /\ \A k \in Things : k <= n - 1 =>
             \A a, b \in Things : <<a, k>> \in L /\ <<k, b>> \in L => <<a, b>> \in L
    BY <1>5
  <2>3. /\ \A a, b \in Things :
             <<a, b>> \in g[n] <=> <<a, b>> \in L \/ (<<a, n>> \in L /\ <<n, b>> \in L)
        /\ L \subseteq g[n]
        /\ g[n] \subseteq Things \X Things
    BY <2>1, <2>2, ThroughFacts
  <2> HIDE DEF L
  <2>4. ASSUME NEW k \in Things, k <= n, NEW a \in Things, NEW b \in Things,
               <<a, k>> \in g[n], <<k, b>> \in g[n]
        PROVE  <<a, b>> \in g[n]
    <3>1. CASE k = n
      BY <2>3, <2>4, <3>1
    <3>2. CASE k # n
      <4>1. k <= n - 1
        BY <1>3, <2>4, <3>2
      <4>2. \A x, y \in Things : <<x, k>> \in L /\ <<k, y>> \in L => <<x, y>> \in L
        BY <2>2, <4>1
      <4> QED  BY <2>1, <2>3, <2>4, <4>2
    <3> QED  BY <3>1, <3>2
  <2> QED  BY <2>2, <2>3, <2>4
<1>6. Joined(N)
  <2> SUFFICES ASSUME ~Joined(N)
               PROVE  FALSE
    OBVIOUS
  <2> HIDE DEF Joined
  <2>1. S \subseteq Nat /\ N \in S
    BY <1>3
  <2>2. PICK n \in S : \A j \in S : n <= j
    BY <2>1, LeastNumber
  <2>3. n # 0 /\ n \in 0..N /\ ~Joined(n)
    BY <1>4, <2>2
  <2>4. n \in 1..N /\ n - 1 \in 0..N /\ ~(n <= n - 1)
    BY <1>3, <2>3
  <2>5. Joined(n - 1)
    BY <2>2, <2>4
  <2> QED  BY <1>5, <2>3, <2>4, <2>5
<1> QED  BY <1>1, <1>3, <1>6

\* A path does not leave a set that no reference leaves.
LEMMA PathsStay ==
  ASSUME NEW E, E \subseteq Things \X Things, NEW L,
         \A a, b \in Things : <<a, b>> \in E /\ a \in L => b \in L
  PROVE  \A a, b \in Things : <<a, b>> \in Paths(E) /\ a \in L => b \in L
<1>1. PICK g : ThroughAll(E, N, g) /\ Paths(E) = g[N]
  BY PathsThrough
<1>2. g[0] = E /\ \A n \in 1..N : g[n] = Through(g[n - 1], n)
  BY <1>1, ThroughSteps
<1> DEFINE Stays(n) == \A a, b \in Things : <<a, b>> \in g[n] /\ a \in L => b \in L
           S == {n \in 0..N : ~Stays(n)}
<1>3. N \in Nat /\ Things = 1..N
  BY GcAssumption DEF Things
<1>4. Stays(0)
  BY <1>2
<1>5. ASSUME NEW n \in 1..N, Stays(n - 1)
      PROVE  Stays(n)
  <2>1. n \in Things /\ g[n] = Through(g[n - 1], n)
    BY <1>2, <1>3
  <2>2. \A a, b \in Things :
          <<a, b>> \in g[n] <=>
            <<a, b>> \in g[n - 1] \/ (<<a, n>> \in g[n - 1] /\ <<n, b>> \in g[n - 1])
    BY <2>1, ThroughFacts
  <2> QED  BY <1>5, <2>1, <2>2
<1> HIDE DEF Stays
<1>6. Stays(N)
  <2> SUFFICES ASSUME ~Stays(N)
               PROVE  FALSE
    OBVIOUS
  <2>1. S \subseteq Nat /\ N \in S
    BY <1>3
  <2>2. PICK n \in S : \A j \in S : n <= j
    BY <2>1, LeastNumber
  <2>3. n # 0 /\ n \in 0..N /\ ~Stays(n)
    BY <1>4, <2>2
  <2>4. n \in 1..N /\ n - 1 \in 0..N /\ ~(n <= n - 1)
    BY <1>3, <2>3
  <2>5. Stays(n - 1)
    BY <2>2, <2>4
  <2> QED  BY <1>5, <2>3, <2>4, <2>5
<1> QED  BY <1>1, <1>6 DEF Stays

\* What live objects refer to is the least set with them that no reference leaves.
LEMMA ReachedFacts ==
  ASSUME DOMAIN refs \subseteq Pairs, live_obj \subseteq Things
  PROVE  /\ live_obj \subseteq Reached /\ Reached \subseteq Things
         /\ \A t \in Reached : Links(t) \subseteq Reached
         /\ \A L : live_obj \subseteq L /\ (\A t \in L : Links(t) \subseteq L) => Reached \subseteq L
<1> DEFINE E == DOMAIN refs
<1>1. E \subseteq Things \X Things
  BY DEF Pairs
<1>2. \A t, u \in Things : u \in Links(t) <=> <<t, u>> \in E
  BY DEF Links
<1>3. \A t : Links(t) \subseteq Things
  BY DEF Links
<1>4. /\ Paths(E) \subseteq Things \X Things
      /\ E \subseteq Paths(E)
      /\ \A a, k, b \in Things :
           <<a, k>> \in Paths(E) /\ <<k, b>> \in Paths(E) => <<a, b>> \in Paths(E)
  BY <1>1, PathsJoin
<1>5. \A u \in Things : u \in Reached <=>
        u \in live_obj \/ \E a \in live_obj : <<a, u>> \in Paths(E)
  <2>1. \A u \in Things : (\E a \in live_obj : <<a, u>> \in Paths(E)) => u \in Reached
    BY DEF Reached, AllPaths
  <2>2. ASSUME NEW u \in Reached, u \notin live_obj
        PROVE  \E a \in live_obj : <<a, u>> \in Paths(E)
    <3>1. PICK p \in Paths(E) : p[1] \in live_obj /\ u = p[2]
      BY <2>2 DEF Reached, AllPaths
    <3>2. p = <<p[1], p[2]>>
      BY <1>4, <3>1
    <3> QED  BY <3>1, <3>2
  <2>3. live_obj \subseteq Reached
    BY DEF Reached
  <2> QED  BY <2>1, <2>2, <2>3
<1>6. Reached \subseteq Things
  <2> SUFFICES ASSUME NEW u \in Reached, u \notin live_obj
               PROVE  u \in Things
    OBVIOUS
  <2>1. PICK p \in Paths(E) : u = p[2]
    BY DEF Reached, AllPaths
  <2> QED  BY <1>4, <2>1
<1> HIDE DEF E
<1>7. ASSUME NEW t \in Reached, NEW u \in Links(t)
      PROVE  u \in Reached
  <2>1. t \in Things /\ u \in Things
    BY <1>3, <1>6
  <2>2. <<t, u>> \in Paths(E)
    BY <1>2, <1>4, <2>1
  <2>3. CASE t \in live_obj
    BY <1>5, <2>1, <2>2, <2>3
  <2>4. CASE t \notin live_obj
    <3>1. PICK a \in live_obj : <<a, t>> \in Paths(E)
      BY <1>5, <2>1, <2>4
    <3>2. <<a, u>> \in Paths(E)
      BY <1>4, <2>1, <2>2, <3>1
    <3> QED  BY <1>5, <2>1, <3>2
  <2> QED  BY <2>3, <2>4
<1>8. ASSUME NEW L, live_obj \subseteq L, \A t \in L : Links(t) \subseteq L
      PROVE  Reached \subseteq L
  <2>1. \A a, b \in Things : <<a, b>> \in E /\ a \in L => b \in L
    BY <1>2, <1>8
  <2>2. \A a, b \in Things : <<a, b>> \in Paths(E) /\ a \in L => b \in L
    BY <1>1, <2>1, PathsStay
  <2>3. ASSUME NEW u \in Reached
        PROVE  u \in L
    BY <1>5, <1>6, <1>8, <2>2
  <2> QED  BY <2>3
<1>9. live_obj \subseteq Reached
  BY DEF Reached
<1> QED  BY <1>6, <1>7, <1>8, <1>9

-----------------------------------------------------------------------------
(* Lists of different things.                                              *)

\* The elements of a sequence with one more.
LEMMA AppendRange ==
  ASSUME NEW s \in Seq(Things), NEW x \in Things
  PROVE  /\ Append(s, x) \in Seq(Things)
         /\ Range(Append(s, x)) = Range(s) \cup {x}
         /\ IsInjective(s) /\ x \notin Range(s) => IsInjective(Append(s, x))
<1>1. /\ Append(s, x) \in Seq(Things) /\ Len(s) \in Nat
      /\ DOMAIN s = 1..Len(s) /\ DOMAIN Append(s, x) = 1..(Len(s) + 1)
      /\ Append(s, x)[Len(s) + 1] = x
      /\ \A i \in 1..Len(s) : Append(s, x)[i] = s[i]
  OBVIOUS
<1>2. \A i \in 1..(Len(s) + 1) : i \in 1..Len(s) \/ i = Len(s) + 1
  BY <1>1
<1>3. \A i \in 1..Len(s) : i \in 1..(Len(s) + 1) /\ i # Len(s) + 1
  BY <1>1
<1>4. Len(s) + 1 \in 1..(Len(s) + 1)
  BY <1>1
<1>5. Range(Append(s, x)) = Range(s) \cup {x}
  BY <1>1, <1>2, <1>3, <1>4 DEF Range
<1>6. IsInjective(s) /\ x \notin Range(s) => IsInjective(Append(s, x))
  BY <1>1, <1>2, <1>3 DEF IsInjective, Range
<1> QED  BY <1>1, <1>5, <1>6

\* The elements of two sequences together.
LEMMA ConcatRange ==
  ASSUME NEW s \in Seq(Things), NEW t \in Seq(Things)
  PROVE  /\ Range(s \o t) = Range(s) \cup Range(t)
         /\ IsInjective(s) /\ IsInjective(t) /\ Range(s) \cap Range(t) = {} => IsInjective(s \o t)
<1>1. /\ s \o t \in Seq(Things)
      /\ Len(s \o t) = Len(s) + Len(t)
      /\ Len(s) \in Nat /\ Len(t) \in Nat
      /\ \A i \in 1..Len(s) : (s \o t)[i] = s[i]
      /\ \A i \in 1..Len(t) : (s \o t)[Len(s) + i] = t[i]
  BY ConcatFacts
<1>2. /\ DOMAIN s = 1..Len(s) /\ DOMAIN t = 1..Len(t)
      /\ DOMAIN (s \o t) = 1..(Len(s) + Len(t))
  BY <1>1
<1>3. \A i \in 1..(Len(s) + Len(t)) :
        i \in 1..Len(s) \/ \E j \in 1..Len(t) : i = Len(s) + j
  <2> SUFFICES ASSUME NEW i \in 1..(Len(s) + Len(t)), i \notin 1..Len(s)
               PROVE  \E j \in 1..Len(t) : i = Len(s) + j
    OBVIOUS
  <2>1. i - Len(s) \in 1..Len(t) /\ i = Len(s) + (i - Len(s))
    BY <1>1
  <2> QED  BY <2>1
<1>4. /\ \A i \in 1..Len(s) : i \in 1..(Len(s) + Len(t))
      /\ \A i \in 1..Len(t) : Len(s) + i \in 1..(Len(s) + Len(t))
  BY <1>1
<1>5. Range(s \o t) = Range(s) \cup Range(t)
  <2>1. ASSUME NEW i \in 1..(Len(s) + Len(t))
        PROVE  (s \o t)[i] \in Range(s) \cup Range(t)
    <3>1. CASE i \in 1..Len(s)
      BY <1>1, <1>2, <3>1 DEF Range
    <3>2. CASE \E j \in 1..Len(t) : i = Len(s) + j
      BY <1>1, <1>2, <3>2 DEF Range
    <3> QED  BY <1>3, <3>1, <3>2
  <2>2. \A i \in 1..Len(s) : s[i] \in Range(s \o t)
    BY <1>1, <1>2, <1>4 DEF Range
  <2>3. \A i \in 1..Len(t) : t[i] \in Range(s \o t)
    BY <1>1, <1>2, <1>4 DEF Range
  <2>4. Range(s \o t) \subseteq Range(s) \cup Range(t)
    BY <1>2, <2>1 DEF Range
  <2>5. Range(s) \cup Range(t) \subseteq Range(s \o t)
    <3>1. Range(s) = {s[i] : i \in 1..Len(s)} /\ Range(t) = {t[i] : i \in 1..Len(t)}
      BY <1>2 DEF Range
    <3> QED  BY <2>2, <2>3, <3>1
  <2> QED  BY <2>4, <2>5
<1>6. ASSUME IsInjective(s), IsInjective(t), Range(s) \cap Range(t) = {},
             NEW i \in 1..(Len(s) + Len(t)), NEW j \in 1..(Len(s) + Len(t)),
             (s \o t)[i] = (s \o t)[j]
      PROVE  i = j
  <2>1. \A k \in 1..Len(s), m \in 1..Len(t) : s[k] # t[m]
    BY <1>2, <1>6 DEF Range
  <2>2. CASE i \in 1..Len(s) /\ j \in 1..Len(s)
    BY <1>1, <1>2, <1>6, <2>2 DEF IsInjective
  <2>3. CASE \E k, m \in 1..Len(t) : i = Len(s) + k /\ j = Len(s) + m
    <3>1. PICK k, m \in 1..Len(t) : i = Len(s) + k /\ j = Len(s) + m
      BY <2>3
    <3>2. t[k] = t[m]
      BY <1>1, <1>6, <3>1
    <3> QED  BY <1>2, <1>6, <3>1, <3>2 DEF IsInjective
  <2>4. CASE i \in 1..Len(s) /\ \E m \in 1..Len(t) : j = Len(s) + m
    BY <1>1, <1>6, <2>1, <2>4
  <2>5. CASE j \in 1..Len(s) /\ \E m \in 1..Len(t) : i = Len(s) + m
    BY <1>1, <1>6, <2>1, <2>5
  <2>6. /\ i \in 1..Len(s) \/ \E m \in 1..Len(t) : i = Len(s) + m
        /\ j \in 1..Len(s) \/ \E m \in 1..Len(t) : j = Len(s) + m
    BY <1>3
  <2> QED  BY <2>2, <2>3, <2>4, <2>5, <2>6
<1>7. IsInjective(s) /\ IsInjective(t) /\ Range(s) \cap Range(t) = {} => IsInjective(s \o t)
  BY <1>2, <1>6 DEF IsInjective
<1> QED  BY <1>5, <1>7

\* As long as it has elements, and no longer.
LEMMA LengthCounts ==
  ASSUME NEW s \in Seq(Things), IsInjective(s)
  PROVE  Cardinality(Range(s)) = Len(s)
<1>1. Len(s) \in Nat /\ DOMAIN s = 1..Len(s) /\ s \in [1..Len(s) -> Range(s)]
  BY DEF Range
<1>2. s \in Bijection(1..Len(s), Range(s))
  BY <1>1 DEF Bijection, Injection, Surjection, Range, IsInjective
<1>3. ExistsBijection(1..Len(s), Range(s))
  BY <1>2 DEF ExistsBijection
<1> QED  BY <1>1, <1>3, FS_CountingElements

\* The live objects among the first elements of q, as far as m.
KeptNext(list, x) == IF x \in live_obj THEN Append(list, x) ELSE list

KeptAll(q, m, g) ==
  g = [n \in 0..m |-> IF n = 0 THEN <<>> ELSE KeptNext(g[n - 1], q[n])]

\* The recursive function in LiveObjects() exists.
LEMMA KeptExists ==
  ASSUME NEW q, NEW m \in Nat
  PROVE  \E g : KeptAll(q, m, g)
<1> DEFINE S == {k \in Nat : ~ \E g : KeptAll(q, k, g)}
<1> SUFFICES ASSUME S # {}
             PROVE  FALSE
  OBVIOUS
<1>1. PICK k \in S : \A j \in S : k <= j
  BY LeastNumber
<1>2. CASE k = 0
  <2>1. KeptAll(q, 0, [n \in 0..0 |-> <<>>])
    BY DEF KeptAll
  <2> QED  BY <1>1, <1>2, <2>1
<1>3. CASE k # 0
  <2>1. k - 1 \in Nat /\ k - 1 \notin S
    BY <1>1, <1>3
  <2>2. PICK g : KeptAll(q, k - 1, g)
    BY <2>1
  <2> DEFINE h == [n \in 0..k |-> IF n = k THEN KeptNext(g[k - 1], q[k]) ELSE g[n]]
  <2>3. KeptAll(q, k, h)
    BY <1>1, <1>3, <2>2 DEF KeptAll
  <2> QED  BY <1>1, <2>3
<1> QED  BY <1>2, <1>3

\* What LiveObjects() is: the last value of that function.
LEMMA LiveObjectsKept ==
  ASSUME NEW q \in Seq(Things)
  PROVE  \E g : KeptAll(q, Len(q), g) /\ LiveObjects(q) = g[Len(q)]
<1>1. PICK h : KeptAll(q, Len(q), h)
  BY KeptExists
<1> DEFINE g == CHOOSE f : f =
             [n \in 0..Len(q) |->
                IF n = 0 THEN <<>>
                ELSE IF q[n] \in live_obj THEN Append(f[n - 1], q[n])
                ELSE f[n - 1]]
<1>2. h = [n \in 0..Len(q) |->
             IF n = 0 THEN <<>>
             ELSE IF q[n] \in live_obj THEN Append(h[n - 1], q[n])
             ELSE h[n - 1]]
  BY <1>1 DEF KeptAll, KeptNext
<1>3. g = [n \in 0..Len(q) |->
             IF n = 0 THEN <<>>
             ELSE IF q[n] \in live_obj THEN Append(g[n - 1], q[n])
             ELSE g[n - 1]]
  <2> HIDE DEF g
  <2> QED  BY <1>2 DEF g
<1>4. KeptAll(q, Len(q), g)
  <2> HIDE DEF g
  <2> QED  BY <1>3 DEF KeptAll, KeptNext
<1>5. LiveObjects(q) = g[Len(q)]
  BY DEF LiveObjects
<1> QED  BY <1>4, <1>5

\* The live objects of a cycle are in it once.
LEMMA LiveObjectsFacts ==
  ASSUME NEW q \in Seq(Things), IsInjective(q)
  PROVE  /\ LiveObjects(q) \in Seq(Things)
         /\ Range(LiveObjects(q)) = Range(q) \cap live_obj
         /\ IsInjective(LiveObjects(q))
<1>1. PICK g : KeptAll(q, Len(q), g) /\ LiveObjects(q) = g[Len(q)]
  BY LiveObjectsKept
<1>2. Len(q) \in Nat /\ DOMAIN q = 1..Len(q) /\ \A i \in 1..Len(q) : q[i] \in Things
  OBVIOUS
<1>3. /\ g[0] = <<>>
      /\ \A n \in 1..Len(q) :
           g[n] = IF q[n] \in live_obj THEN Append(g[n - 1], q[n]) ELSE g[n - 1]
  <2>1. \A n \in 0..Len(q) :
          g[n] = IF n = 0 THEN <<>>
                 ELSE IF q[n] \in live_obj THEN Append(g[n - 1], q[n]) ELSE g[n - 1]
    BY <1>1 DEF KeptAll, KeptNext
  <2> QED  BY <1>2, <2>1
<1> DEFINE First(n) == {q[i] : i \in 1..n}
           Kept(n) == /\ g[n] \in Seq(Things)
                      /\ Range(g[n]) = First(n) \cap live_obj
                      /\ IsInjective(g[n])
           S == {n \in 0..Len(q) : ~Kept(n)}
<1>4. Kept(0)
  <2>1. <<>> \in Seq(Things) /\ Range(<<>>) = {} /\ IsInjective(<<>>)
    BY DEF Range, IsInjective
  <2> QED  BY <1>3, <2>1
<1>5. ASSUME NEW n \in 1..Len(q), Kept(n - 1)
      PROVE  Kept(n)
  <2>1. \A i \in 1..n : i \in 1..(n - 1) \/ i = n
    BY <1>2
  <2>2. \A i \in 1..(n - 1) : i \in 1..n /\ i \in 1..Len(q) /\ i # n
    BY <1>2
  <2>3. n \in 1..n
    BY <1>2
  <2>4. First(n) = First(n - 1) \cup {q[n]} /\ q[n] \notin First(n - 1)
    BY <1>2, <2>1, <2>2, <2>3 DEF IsInjective
  <2>5. q[n] \in Things
    BY <1>2
  <2> HIDE DEF First
  <2>6. CASE q[n] \in live_obj
    <3>1. g[n] = Append(g[n - 1], q[n])
      BY <1>3, <2>6
    <3> QED  BY <1>5, <2>4, <2>5, <2>6, <3>1, AppendRange
  <2>7. CASE q[n] \notin live_obj
    BY <1>3, <1>5, <2>4, <2>7
  <2> QED  BY <2>6, <2>7
<1>6. Kept(Len(q))
  <2> SUFFICES ASSUME ~Kept(Len(q))
               PROVE  FALSE
    OBVIOUS
  <2> HIDE DEF Kept
  <2>1. S \subseteq Nat /\ Len(q) \in S
    BY <1>2
  <2>2. PICK n \in S : \A j \in S : n <= j
    BY <2>1, LeastNumber
  <2>3. n # 0 /\ n \in 0..Len(q) /\ ~Kept(n)
    BY <1>4, <2>2
  <2>4. n \in 1..Len(q) /\ n - 1 \in 0..Len(q) /\ ~(n <= n - 1)
    BY <1>2, <2>3
  <2>5. Kept(n - 1)
    BY <2>2, <2>4
  <2> QED  BY <1>5, <2>3, <2>4, <2>5
<1>7. First(Len(q)) = Range(q)
  BY <1>2 DEF Range
<1> QED  BY <1>1, <1>6, <1>7

-----------------------------------------------------------------------------
(* gc_cycle_push().                                                        *)

\* An empty sequence has no elements.
LEMMA EmptyRange ==
  Range(<<>>) = {}
BY DEF Range

\* The heap does not change in the pass, and so what it says does not.
LEMMA HeapSame ==
  ASSUME UNCHANGED heap
  PROVE  /\ refs' = refs /\ live_obj' = live_obj
         /\ Reached' = Reached
         /\ \A t : Links(t)' = Links(t)
BY DEF heap, Reached, AllPaths, Links

\* The types say the same as the order of the stack needs.
LEMMA TypesOfStack ==
  GcTypes => StackTypes
BY DEF GcTypes, StackTypes, FlagFunctions, IdFunctions

\* A link is that of the thing on top, the strong one first, or none.
LinkFrom(t, strength, from) ==
  \/ from = {} /\ strength = "normal" /\ stack = <<>>
  \/ /\ from = {Top} /\ stack # <<>> /\ ~mark_live
     /\ t \in link_top[Top] /\ strength = refs[<<Top, t>>]
     /\ \A u \in link_top[Top] : refs[<<Top, u>>] = "strong" => u = t

\* A step of the cycle check pass that comes with a link to t.
LinkStep(t, strength, from) ==
  /\ pass = "cycle"
  /\ LinkFrom(t, strength, from)
  /\ UNCHANGED <<heap, pass, kill_list>>
  /\ next' = next \/ (next' = next + 1 /\ next <= N /\ t = next)

\* The thing on top.
LEMMA TopFacts ==
  ASSUME StackTypes, stack # <<>>
  PROVE  Top \in Range(stack) /\ Top \in Things /\ Len(stack) \in 1..Len(stack)
<1>1. Len(stack) \in 1..Len(stack) /\ DOMAIN stack = 1..Len(stack) /\ stack \in Seq(Things)
  BY DEF StackTypes
<1> QED  BY <1>1 DEF Top, Range

\* Once a link has been followed, no strong one is left anywhere on the stack.
LEMMA StrongFollowed ==
  ASSUME LinkInv, NEW t \in Things, NEW strength, NEW from, LinkStep(t, strength, from),
         NEW x \in Range(stack), NEW u \in Things,
         u \in link_top[x], refs[<<x, u>>] = "strong"
  PROVE  x \in from /\ u = t
<1>1. x = Top
  BY DEF LinkInv
<1>2. stack # <<>>
  BY EmptyRange
<1> QED  BY <1>1, <1>2 DEF LinkStep, LinkFrom

\* The numbers of the things that have been visited.
LEMMA NextVisited ==
  ASSUME GcTypes, MarkInv, NEW t \in Things, NEW strength, NEW from,
         LinkStep(t, strength, from), checked \cup {t} \subseteq checked'
  PROVE  next' \in 1..N + 1 /\ \A x \in Things : x < next' => x \in checked'
<1>1. N \in Nat /\ next \in 1..N + 1 /\ Things = 1..N
  BY GcAssumption DEF GcTypes, Things
<1>2. next' \in 1..N + 1
  BY <1>1 DEF LinkStep
<1>3. ASSUME NEW x \in Things, x < next'
      PROVE  x \in checked'
  <2>1. x < next \/ x = t
    BY <1>1, <1>3 DEF LinkStep
  <2>2. x < next => x \in checked
    BY DEF MarkInv
  <2> QED  BY <2>1, <2>2
<1> QED  BY <1>2, <1>3

\* push_frame() keeps the invariant.
LEMMA PushFrameStep ==
  ASSUME GcInv, NEW t \in Things, NEW strength, NEW from,
         LinkStep(t, strength, from), push_frame(t, strength, from)
  PROVE  GcInv' /\ Gone' = Gone
<1> DEFINE F == CASE strength = "weak" -> {"WEAK"} [] strength = "strong" -> {"STRONG"} [] OTHER -> {}
<1>1. /\ refs' = refs /\ live_obj' = live_obj /\ pass' = pass /\ kill_list' = kill_list
      /\ pass = "cycle" /\ extra' = extra /\ mark_live' = mark_live /\ mark_links' = mark_links
      /\ Reached' = Reached /\ \A x : Links(x)' = Links(x)
  BY HeapSame DEF LinkStep, push_frame, dummy
<1>2. /\ t \notin checked
      /\ checked' = checked \cup {t}
      /\ live' = (live \cup ({t} \cap live_obj)) \cup {u \in {t} : from \cap live # {}}
      /\ stack' = Append(stack, t)
      /\ link_top' = [u \in Things |-> IF u = t THEN Links(t)
                                       ELSE IF u \in from THEN link_top[u] \ {t} ELSE link_top[u]]
      /\ rf_flags' = [rf_flags EXCEPT ![t] = F]
      /\ cycle_id' = [cycle_id EXCEPT ![t] = t]
      /\ piece' = [piece EXCEPT ![t] = <<>>]
  BY DEF push_frame, Entered
<1>3. F \in {{}, {"WEAK"}, {"STRONG"}} /\ (F = {"STRONG"} => strength = "strong")
  OBVIOUS
<1> HIDE DEF F
<1>4. GcTypes /\ StackTypes /\ OrderInv(stack, rf_flags, cycle_id) /\ LinkInv /\ MarkInv /\ PieceInv /\ KillInv
  BY TypesOfStack DEF GcInv
<1>5. from = {} \/ (from = {Top} /\ stack # <<>> /\ Top \in Range(stack) /\ Top \in Things /\ t \in Links(Top))
  BY <1>4, TopFacts DEF LinkStep, LinkFrom, LinkInv
<1>6. mark_links = {} /\ ~mark_live
  BY <1>4 DEF LinkStep, LinkFrom, LinkInv, MarkInv
<1>7. /\ stack \in Seq(Things) /\ Range(stack) \subseteq checked /\ t \notin Range(stack)
      /\ stack' \in Seq(Things) /\ Range(stack') = Range(stack) \cup {t}
      /\ stack' # <<>> /\ Top' = t
  <2>1. stack \in Seq(Things) /\ Range(stack) \subseteq checked
    BY <1>4 DEF StackTypes, PieceInv
  <2>2. stack' \in Seq(Things) /\ Range(stack') = Range(stack) \cup {t}
    BY <1>2, <2>1, AppendRange
  <2>3. stack' # <<>> /\ stack'[Len(stack')] = t
    BY <1>2, <2>1
  <2> QED  BY <1>2, <2>1, <2>2, <2>3 DEF Top
<1>8. Links(t) \subseteq Things
  BY DEF Links
<1>9. GcTypes'
  <2>1. OfStrength({"strong"})' = OfStrength({"strong"}) /\ (DOMAIN refs)' = DOMAIN refs
    BY <1>1 DEF OfStrength
  <2>2. /\ DOMAIN refs \subseteq Pairs
        /\ \A p, q \in OfStrength({"strong"}) : p[1] = q[1] => p = q
        /\ live_obj \subseteq Things /\ pass \in {"cycle", "kill"}
        /\ checked \subseteq Things /\ live \subseteq Things /\ extra \subseteq Things
        /\ mark_links \subseteq Things
        /\ link_top \in [Things -> SUBSET Things]
        /\ rf_flags \in [Things -> SUBSET {"WEAK", "STRONG", "BROKEN"}]
        /\ cycle_id \in [Things -> Things]
        /\ piece \in [Things -> Seq(Things)]
        /\ mark_live \in BOOLEAN
        /\ kill_list \in Seq(Things)
    BY <1>4 DEF GcTypes
  <2>3. checked' \subseteq Things /\ live' \subseteq Things /\ extra' \subseteq Things /\ mark_links' \subseteq Things
    BY <1>1, <1>2, <2>2
  <2>4. link_top' \in [Things -> SUBSET Things]
    BY <1>2, <1>8, <2>2
  <2>5. rf_flags' \in [Things -> SUBSET {"WEAK", "STRONG", "BROKEN"}]
    BY <1>2, <1>3, <2>2
  <2>6. cycle_id' \in [Things -> Things] /\ piece' \in [Things -> Seq(Things)]
    BY <1>2, <2>2
  <2>7. next' \in 1..N + 1
    BY <1>2, <1>4, NextVisited
  <2> QED  BY <1>1, <1>7, <2>1, <2>2, <2>3, <2>4, <2>5, <2>6, <2>7 DEF GcTypes
<1>10. OrderInv(stack, rf_flags, cycle_id)'
  <2>1. ASSUME F = {"STRONG"}
        PROVE  stack # <<>> /\ cycle_id[stack[Len(stack)]] = stack[Len(stack)]
    <3>1. strength = "strong"
      BY <1>3, <2>1
    <3>2. stack # <<>> /\ t \in link_top[Top] /\ refs[<<Top, t>>] = "strong"
      BY <3>1 DEF LinkStep, LinkFrom
    <3>3. Top \in Range(stack)
      BY <1>4, <3>2, TopFacts
    <3>4. cycle_id[Top] = Top
      BY <1>4, <3>2, <3>3 DEF LinkInv
    <3> QED  BY <3>2, <3>4 DEF Top
  <2>2. OrderInv(Append(stack, t), [rf_flags EXCEPT ![t] = F], [cycle_id EXCEPT ![t] = t])
    BY <1>3, <1>4, <1>7, <2>1, PushOrder DEF StackTypes
  <2> QED  BY <1>2, <2>2
<1>11. LinkInv'
  <2>1. /\ \A x \in Things : link_top[x] \subseteq Links(x)
        /\ \A x \in Things : link_top[x] # {} => x \in Range(stack)
    BY <1>4 DEF LinkInv
  <2>2. \A x \in Things : link_top'[x] \subseteq Links(x)
    BY <1>2, <2>1
  <2>3. \A x \in Things : link_top'[x] # {} => x \in Range(stack')
    BY <1>2, <1>7, <2>1
  <2>4. ASSUME NEW x \in Range(stack'), NEW u \in Things,
               u \in link_top'[x], refs[<<x, u>>] = "strong"
        PROVE  x = t /\ cycle_id'[x] = x
    <3>1. x \in Things
      BY <1>7 DEF Range
    <3>2. CASE x = t
      BY <1>2, <1>4, <3>2 DEF StackTypes, IdFunctions
    <3>3. CASE x # t
      <4>1. x \in Range(stack) /\ u \in link_top[x]
        BY <1>2, <1>7, <2>4, <3>1, <3>3
      <4>2. x \in from /\ u = t
        BY <1>4, <2>4, <4>1, StrongFollowed
      <4> QED  BY <1>2, <2>4, <3>1, <3>3, <4>2
    <3> QED  BY <3>2, <3>3
  <2> QED  BY <1>1, <1>6, <1>7, <2>2, <2>3, <2>4 DEF LinkInv
<1>12. MarkInv'
  <2>1. /\ live \subseteq Reached /\ live_obj \cap checked \subseteq live
        /\ \A x \in checked : Links(x) \subseteq checked \cup link_top[x]
        /\ \A x \in checked \cap live : Links(x) \subseteq live \cup link_top[x]
    BY <1>4, <1>6 DEF MarkInv
  <2>2. live_obj \subseteq Reached /\ \A x \in Reached : Links(x) \subseteq Reached
    BY <1>4, ReachedFacts DEF GcTypes
  <2>3. live' \subseteq Reached
    BY <1>2, <1>5, <2>1, <2>2
  <2>4. live_obj \cap checked' \subseteq live'
    BY <1>2, <2>1
  <2>5. checked \subseteq Things
    BY <1>4 DEF GcTypes
  <2>6. ASSUME NEW x \in checked'
        PROVE  Links(x) \subseteq checked' \cup link_top'[x]
    <3>1. CASE x = t
      BY <1>2, <3>1
    <3>2. CASE x # t
      <4>1. x \in checked /\ x \in Things
        BY <1>2, <2>5, <3>2
      <4>2. link_top'[x] = IF x \in from THEN link_top[x] \ {t} ELSE link_top[x]
        BY <1>2, <3>2, <4>1
      <4>3. Links(x) \subseteq checked \cup link_top[x]
        BY <2>1, <4>1
      <4>4. checked' = checked \cup {t}
        BY <1>2
      <4> QED  BY <4>2, <4>3, <4>4
    <3> QED  BY <3>1, <3>2
  <2>7. ASSUME NEW x \in checked' \cap live'
        PROVE  Links(x) \subseteq live' \cup link_top'[x] \cup mark_links'
    <3>1. CASE x = t
      BY <1>2, <3>1
    <3>2. CASE x # t
      <4>1. x \in checked \cap live /\ x \in Things
        BY <1>2, <2>5, <3>2
      <4>2. link_top'[x] = IF x \in from THEN link_top[x] \ {t} ELSE link_top[x]
        BY <1>2, <3>2, <4>1
      <4>3. Links(x) \subseteq live \cup link_top[x]
        BY <2>1, <4>1
      <4>4. x \in from => t \in live'
        BY <1>2, <4>1
      <4>5. live \subseteq live'
        BY <1>2
      <4> QED  BY <4>2, <4>3, <4>4, <4>5
    <3> QED  BY <3>1, <3>2
  <2>8. \A x \in Things : x < next' => x \in checked'
    BY <1>2, <1>4, NextVisited
  <2> QED  BY <1>1, <1>6, <2>3, <2>4, <2>6, <2>7, <2>8 DEF MarkInv
<1>13. /\ \A x \in Things : x # t => piece'[x] = piece[x]
       /\ piece'[t] = <<>>
       /\ piece[t] = <<>>
       /\ \A x \in Things : Range(piece[x]) \subseteq checked
  BY <1>2, <1>4, <1>7 DEF PieceInv, GcTypes
<1>14. \A x \in Things : piece'[x] = piece[x]
  BY <1>13
<1>15. PieceInv'
  <2>1. /\ \A x \in Things \ Range(stack) : piece[x] = <<>>
        /\ \A x \in Things : IsInjective(piece[x]) /\ Range(piece[x]) \subseteq checked \ Range(stack)
        /\ \A x, u \in Things : x # u => Range(piece[x]) \cap Range(piece[u]) = {}
    BY <1>4 DEF PieceInv
  <2>2. Range(stack') \subseteq checked'
    BY <1>2, <1>7
  <2>3. \A x \in Things \ Range(stack') : piece'[x] = <<>>
    BY <1>7, <1>14, <2>1
  <2>4. \A x \in Things : Range(piece[x]) \subseteq checked' \ Range(stack')
    BY <1>2, <1>7, <2>1
  <2> QED  BY <1>14, <2>1, <2>2, <2>3, <2>4 DEF PieceInv
<1>16. Gone' = Gone
  <2>1. \A x : OnPieceList(x) <=> \E u \in Range(stack) : x \in Range(piece[u])
    BY DEF OnPieceList
  <2>2. \A x : OnPieceList(x)' <=> \E u \in Range(stack') : x \in Range(piece'[u])
    BY DEF OnPieceList
  <2>3. Range(stack') \subseteq Things /\ Range(<<>>) = {}
    BY <1>7 DEF Range
  <2>4. \A x : OnPieceList(x)' <=> OnPieceList(x)
    BY <1>7, <1>13, <1>14, <2>1, <2>2, <2>3
  <2>5. Gone' = {x \in checked' : x \notin Range(stack') /\ ~OnPieceList(x)'}
    BY DEF Gone
  <2> QED  BY <1>2, <1>7, <2>4, <2>5 DEF Gone
<1>17. KillInv'
  <2>1. t \notin Gone
    BY <1>2 DEF Gone
  <2>2. \A x \in Gone : x \in live' <=> x \in live
    BY <1>2, <2>1
  <2> QED  BY <1>1, <1>4, <1>16, <2>2 DEF KillInv
<1> QED  BY <1>9, <1>10, <1>11, <1>12, <1>15, <1>16, <1>17 DEF GcInv

\* The part of the types that the marks do not touch.
HeapTypes ==
  /\ DOMAIN refs \subseteq Pairs
  /\ \A p, q \in OfStrength({"strong"}) : p[1] = q[1] => p = q
  /\ live_obj \subseteq Things

\* It stays, since the heap does.
LEMMA HeapTypesSame ==
  ASSUME GcTypes, UNCHANGED heap
  PROVE  HeapTypes'
<1>1. OfStrength({"strong"})' = OfStrength({"strong"}) /\ (DOMAIN refs)' = DOMAIN refs
  BY DEF heap, OfStrength
<1> QED  BY <1>1 DEF GcTypes, HeapTypes, heap

\* A thing is gone if it was, when the same things are on the stack and on lists.
LEMMA GoneSame ==
  ASSUME checked' = checked, Range(stack') = Range(stack), piece' = piece
  PROVE  Gone' = Gone
<1>1. \A x : OnPieceList(x)' <=> OnPieceList(x)
  BY DEF OnPieceList
<1>2. Gone' = {x \in checked' : x \notin Range(stack') /\ ~OnPieceList(x)'}
  BY DEF Gone
<1> QED  BY <1>1, <1>2 DEF Gone

\* A link to a thing that has been visited keeps the invariant.
LEMMA PushVisitedStep ==
  ASSUME GcInv, NEW t \in Things, NEW strength, NEW from,
         LinkStep(t, strength, from), push_visited(t, strength, from), push_live(t, from)
  PROVE  GcInv'
<1>1. /\ refs' = refs /\ live_obj' = live_obj /\ pass' = pass /\ kill_list' = kill_list
      /\ pass = "cycle" /\ Reached' = Reached /\ \A x : Links(x)' = Links(x)
      /\ UNCHANGED heap
  BY HeapSame DEF LinkStep
<1>2. /\ t \in checked
      /\ link_top' = [u \in Things |-> IF u \in from THEN link_top[u] \ {t} ELSE link_top[u]]
      /\ checked' = checked /\ piece' = piece
  BY DEF push_visited
<1>3. GcTypes /\ StackTypes /\ OrderInv(stack, rf_flags, cycle_id) /\ LinkInv /\ MarkInv /\ PieceInv /\ KillInv
  BY TypesOfStack DEF GcInv
<1>4. from = {} \/ (from = {Top} /\ stack # <<>> /\ Top \in Range(stack) /\ Top \in Things /\ t \in Links(Top))
  BY <1>3, TopFacts DEF LinkStep, LinkFrom, LinkInv
<1>5. mark_links = {} /\ ~mark_live
  BY <1>3 DEF LinkStep, LinkFrom, LinkInv, MarkInv
<1>6. StackInv' /\ Range(stack') = Range(stack)
  <2>1. CASE (t \in Range(stack) \/ OnPieceList(t)) /\ cyclic_ref(t, strength)
    BY <1>3, <2>1, CyclicRefOrder DEF StackInv
  <2>2. CASE UNCHANGED order
    BY <1>3, <2>2 DEF StackInv, StackTypes, order
  <2> QED  BY <2>1, <2>2 DEF push_visited
<1>7. \/ /\ t \notin live /\ t \notin live_obj /\ from \cap live # {}
         /\ live' = live \cup {t} /\ extra' = extra \ {t}
         /\ mark_live' = TRUE /\ mark_links' = Links(t)
      \/ /\ from \cap live # {} => t \in live
         /\ live' = live /\ extra' = extra /\ mark_live' = mark_live /\ mark_links' = mark_links
  <2>1. live_obj \cap checked \subseteq live
    BY <1>3 DEF MarkInv
  <2>2. Entered(t) = live
    BY <1>2, <2>1 DEF Entered
  <2>3. t \in live_obj => t \in live
    BY <1>2, <2>1
  <2>4. CASE Revives(t, from)
    BY <2>2, <2>3, <2>4 DEF push_live, Revives
  <2>5. CASE ~Revives(t, from)
    BY <1>2, <2>2, <2>5 DEF push_live, Revives, dummy
  <2> QED  BY <2>4, <2>5
<1>8. Links(t) \subseteq Things
  BY DEF Links
<1>9. GcTypes'
  <2>1. HeapTypes'
    BY <1>1, <1>3, HeapTypesSame
  <2>2. /\ pass \in {"cycle", "kill"}
        /\ checked \subseteq Things /\ live \subseteq Things /\ extra \subseteq Things
        /\ mark_links \subseteq Things
        /\ link_top \in [Things -> SUBSET Things]
        /\ piece \in [Things -> Seq(Things)]
        /\ mark_live \in BOOLEAN
        /\ kill_list \in Seq(Things)
    BY <1>3 DEF GcTypes
  <2>3. checked' \subseteq Things /\ live' \subseteq Things /\ extra' \subseteq Things /\ mark_links' \subseteq Things
    BY <1>2, <1>7, <1>8, <2>2
  <2>4. link_top' \in [Things -> SUBSET Things]
    BY <1>2, <2>2
  <2>5. mark_live' \in BOOLEAN
    BY <1>7, <2>2
  <2>6. next' \in 1..N + 1
    BY <1>2, <1>3, NextVisited
  <2>7. StackTypes'
    BY <1>6 DEF StackInv
  <2> QED  BY <1>1, <1>2, <2>1, <2>2, <2>3, <2>4, <2>5, <2>6, <2>7
           DEF GcTypes, HeapTypes, StackTypes, FlagFunctions, IdFunctions
<1>10. LinkInv'
  <2>1. /\ \A x \in Things : link_top[x] \subseteq Links(x)
        /\ \A x \in Things : link_top[x] # {} => x \in Range(stack)
    BY <1>3 DEF LinkInv
  <2>2. \A x \in Things : link_top'[x] \subseteq Links(x)
    BY <1>2, <2>1
  <2>3. \A x \in Things : link_top'[x] # {} => x \in Range(stack')
    BY <1>2, <1>6, <2>1
  <2>4. ASSUME NEW x \in Range(stack'), NEW u \in Things,
               u \in link_top'[x], refs[<<x, u>>] = "strong"
        PROVE  FALSE
    <3>1. x \in Things
      BY <1>3, <1>6 DEF PieceInv, GcTypes
    <3>2. x \in Range(stack) /\ u \in link_top[x]
      BY <1>2, <1>6, <2>4, <3>1
    <3>3. x \in from /\ u = t
      BY <1>3, <2>4, <3>2, StrongFollowed
    <3> QED  BY <1>2, <2>4, <3>1, <3>3
  <2>5. mark_live' => stack' # <<>>
    <3> SUFFICES ASSUME mark_live'
                 PROVE  stack' # <<>>
      OBVIOUS
    <3>1. from # {}
      BY <1>5, <1>7
    <3>2. Range(stack') # {}
      BY <1>4, <1>6, <3>1
    <3> QED  BY <3>2, EmptyRange
  <2> QED  BY <1>1, <2>2, <2>3, <2>4, <2>5 DEF LinkInv
<1>11. MarkInv'
  <2>1. /\ live \subseteq Reached /\ live_obj \cap checked \subseteq live
        /\ \A x \in checked : Links(x) \subseteq checked \cup link_top[x]
        /\ \A x \in checked \cap live : Links(x) \subseteq live \cup link_top[x]
    BY <1>3, <1>5 DEF MarkInv
  <2>2. live_obj \subseteq Reached /\ \A x \in Reached : Links(x) \subseteq Reached
    BY <1>3, ReachedFacts DEF GcTypes
  <2>3. from \cap live # {} => t \in Reached
    BY <1>4, <2>1, <2>2
  <2>4. live' \subseteq Reached /\ mark_links' \subseteq Reached /\ (mark_links' # {} => mark_live')
    BY <1>5, <1>7, <2>1, <2>2, <2>3
  <2>5. live \subseteq live' /\ live_obj \cap checked' \subseteq live'
    BY <1>2, <1>7, <2>1
  <2>6. checked \subseteq Things
    BY <1>3 DEF GcTypes
  <2>7. \A x \in checked : link_top'[x] = IF x \in from THEN link_top[x] \ {t} ELSE link_top[x]
    BY <1>2, <2>6
  <2>8. ASSUME NEW x \in checked'
        PROVE  Links(x) \subseteq checked' \cup link_top'[x]
    <3>1. x \in checked /\ checked' = checked /\ t \in checked
      BY <1>2
    <3>2. Links(x) \subseteq checked \cup link_top[x]
      BY <2>1, <3>1
    <3>3. link_top'[x] = IF x \in from THEN link_top[x] \ {t} ELSE link_top[x]
      BY <2>7, <3>1
    <3> QED  BY <3>1, <3>2, <3>3
  <2>9. ASSUME NEW x \in checked' \cap live'
        PROVE  Links(x) \subseteq live' \cup link_top'[x] \cup mark_links'
    <3>1. CASE x \in live
      <4>1. x \in from => t \in live'
        BY <1>7, <3>1
      <4>2. Links(x) \subseteq live \cup link_top[x]
        BY <1>2, <2>1, <3>1
      <4>3. link_top'[x] = IF x \in from THEN link_top[x] \ {t} ELSE link_top[x]
        BY <1>2, <2>7
      <4> QED  BY <2>5, <4>1, <4>2, <4>3
    <3>2. CASE x \notin live
      BY <1>7, <3>2
    <3> QED  BY <3>1, <3>2
  <2>10. \A x \in Things : x < next' => x \in checked'
    BY <1>2, <1>3, NextVisited
  <2> QED  BY <1>1, <2>4, <2>5, <2>8, <2>9, <2>10 DEF MarkInv
<1>12. PieceInv'
  BY <1>2, <1>3, <1>6 DEF PieceInv
<1>13. KillInv'
  <2>1. Gone' = Gone
    BY <1>2, <1>6, GoneSame
  <2>2. extra = {x \in Gone : x \in live_obj \/ x \notin live}
    BY <1>1, <1>3 DEF KillInv
  <2>3. extra' = {x \in Gone : x \in live_obj \/ x \notin live'}
    BY <1>7, <2>2
  <2> QED  BY <1>1, <1>3, <2>1, <2>3 DEF KillInv
<1> QED  BY <1>6, <1>9, <1>10, <1>11, <1>12, <1>13 DEF GcInv, StackInv

\* gc_cycle_push() keeps the invariant.
LEMMA CyclePushStep ==
  ASSUME GcInv, NEW t \in Things, NEW strength, NEW from,
         LinkStep(t, strength, from), gc_cycle_push(t, strength, from)
  PROVE  GcInv'
BY PushFrameStep, PushVisitedStep DEF gc_cycle_push

-----------------------------------------------------------------------------
(* The actions.                                                            *)

\* The next thing on the lists.
LEMMA CheckAllStep ==
  ASSUME GcInv, gc_cycle_check_all
  PROVE  GcInv'
<1>1. next \in Things
  BY GcAssumption DEF GcInv, GcTypes, gc_cycle_check_all, Things
<1>2. LinkStep(next, "normal", {})
  BY DEF LinkStep, LinkFrom, gc_cycle_check_all
<1>3. gc_cycle_push(next, "normal", {})
  BY DEF gc_cycle_check_all
<1> QED  BY <1>1, <1>2, <1>3, CyclePushStep

\* A link of the thing on top.
LEMMA FollowLinkStep ==
  ASSUME GcInv, follow_link
  PROVE  GcInv'
<1>1. PICK t \in link_top[Top] :
        /\ \A u \in link_top[Top] : refs[<<Top, u>>] = "strong" => u = t
        /\ gc_cycle_push(t, refs[<<Top, t>>], {Top})
  BY DEF follow_link
<1>2. stack # <<>> /\ ~mark_live /\ UNCHANGED <<heap, pass, next, kill_list>>
  BY DEF follow_link
<1>3. pass = "cycle"
  BY <1>2 DEF GcInv, GcTypes, LinkInv
<1>4. Top \in Things
  BY <1>2, TopFacts, TypesOfStack DEF GcInv
<1>5. t \in Things
  BY <1>4 DEF GcInv, GcTypes
<1>6. LinkStep(t, refs[<<Top, t>>], {Top})
  BY <1>1, <1>2, <1>3 DEF LinkStep, LinkFrom
<1> QED  BY <1>1, <1>5, <1>6, CyclePushStep

\* The parts of the invariant that say nothing of the marks.
LEMMA StackSame ==
  ASSUME GcInv, UNCHANGED <<heap, pass, checked, frames>>
  PROVE  /\ OrderInv(stack, rf_flags, cycle_id)'
         /\ PieceInv' /\ Gone' = Gone
         /\ Reached' = Reached /\ \A x : Links(x)' = Links(x)
         /\ HeapTypes' /\ StackTypes'
<1>1. /\ stack' = stack /\ rf_flags' = rf_flags /\ cycle_id' = cycle_id
      /\ piece' = piece /\ checked' = checked
  BY DEF frames, order
<1>2. OrderInv(stack, rf_flags, cycle_id)' /\ PieceInv' /\ StackTypes'
  BY <1>1, TypesOfStack DEF GcInv, PieceInv, StackTypes
<1>3. Gone' = Gone
  BY <1>1, GoneSame
<1> QED  BY <1>2, <1>3, HeapSame, HeapTypesSame DEF GcInv

\* A link of the dummy frame.
LEMMA FollowMarkStep ==
  ASSUME GcInv, follow_mark_link
  PROVE  GcInv'
<1>1. PICK t \in mark_links :
        IF t \in checked /\ t \notin Entered(t)
        THEN /\ live' = live \cup {t}
             /\ extra' = extra \ {t}
             /\ mark_links' = (mark_links \ {t}) \cup Links(t)
        ELSE /\ live' = Entered(t)
             /\ mark_links' = mark_links \ {t}
             /\ extra' = extra
  BY DEF follow_mark_link
<1>2. /\ mark_live /\ UNCHANGED <<heap, pass, next, checked, frames, mark_live, kill_list>>
      /\ refs' = refs /\ live_obj' = live_obj /\ checked' = checked
      /\ stack' = stack /\ cycle_id' = cycle_id /\ link_top' = link_top /\ piece' = piece
      /\ next' = next /\ pass' = pass /\ mark_live' = mark_live /\ kill_list' = kill_list
  BY DEF follow_mark_link, frames, order, heap
<1>3. GcTypes /\ LinkInv /\ MarkInv /\ KillInv
  BY DEF GcInv
<1>4. /\ OrderInv(stack, rf_flags, cycle_id)' /\ PieceInv' /\ Gone' = Gone
      /\ Reached' = Reached /\ \A x : Links(x)' = Links(x)
      /\ HeapTypes' /\ StackTypes'
  BY <1>2, StackSame
<1>5. Entered(t) = live \cup ({t} \cap live_obj)
  BY DEF Entered
<1>6. /\ live \subseteq Reached /\ mark_links \subseteq Reached
      /\ live_obj \cap checked \subseteq live
      /\ \A x \in checked : Links(x) \subseteq checked \cup link_top[x]
      /\ \A x \in checked \cap live : Links(x) \subseteq live \cup link_top[x] \cup mark_links
      /\ \A x \in Things : x < next => x \in checked
  BY <1>3 DEF MarkInv
<1>7. live_obj \subseteq Reached /\ Reached \subseteq Things /\ \A x \in Reached : Links(x) \subseteq Reached
  BY <1>3, ReachedFacts DEF GcTypes
<1>8. live' \subseteq Reached /\ mark_links' \subseteq Reached /\ live \subseteq live'
  BY <1>1, <1>5, <1>6, <1>7
<1>9. LinkInv'
  <2>1. Top' = Top
    BY <1>2 DEF Top
  <2> QED  BY <1>2, <1>3, <1>4, <2>1 DEF LinkInv
<1>10. GcTypes'
  <2>1. /\ checked \subseteq Things /\ extra \subseteq Things /\ pass \in {"cycle", "kill"}
        /\ next \in 1..N + 1 /\ link_top \in [Things -> SUBSET Things]
        /\ piece \in [Things -> Seq(Things)] /\ mark_live \in BOOLEAN /\ kill_list \in Seq(Things)
    BY <1>3 DEF GcTypes
  <2>2. extra' \subseteq Things /\ live' \subseteq Things /\ mark_links' \subseteq Things
    BY <1>1, <1>7, <1>8, <2>1
  <2> QED  BY <1>2, <1>4, <2>1, <2>2 DEF GcTypes, HeapTypes, StackTypes, FlagFunctions, IdFunctions
<1>11. ASSUME NEW x \in checked \cap live'
       PROVE  Links(x) \subseteq live' \cup link_top[x] \cup mark_links'
  <2>1. CASE t \in checked /\ t \notin Entered(t)
    <3>1. live' = live \cup {t} /\ mark_links' = (mark_links \ {t}) \cup Links(t)
      BY <1>1, <2>1
    <3>2. CASE x = t
      BY <3>1, <3>2
    <3>3. CASE x # t
      <4>1. Links(x) \subseteq live \cup link_top[x] \cup mark_links
        BY <1>6, <3>1, <3>3
      <4> QED  BY <3>1, <4>1
    <3> QED  BY <3>2, <3>3
  <2>2. CASE ~(t \in checked /\ t \notin Entered(t))
    <3>1. live' = live \cup ({t} \cap live_obj) /\ mark_links' = mark_links \ {t}
      BY <1>1, <1>5, <2>2
    <3>2. x \in checked \cap live
      BY <1>6, <3>1
    <3>3. Links(x) \subseteq live \cup link_top[x] \cup mark_links
      BY <1>6, <3>2
    <3>4. CASE t \in checked
      <4>1. t \in live'
        BY <1>5, <2>2, <3>1, <3>4
      <4> QED  BY <1>8, <3>1, <3>3, <4>1
    <3>5. CASE t \notin checked
      <4>1. Links(x) \subseteq checked \cup link_top[x]
        BY <1>6, <3>2
      <4> QED  BY <1>8, <3>1, <3>3, <3>5, <4>1
    <3> QED  BY <3>4, <3>5
  <2> QED  BY <2>1, <2>2
<1>12. MarkInv'
  BY <1>2, <1>4, <1>6, <1>8, <1>11 DEF MarkInv
<1>13. ASSUME pass = "cycle"
       PROVE  extra' = {x \in Gone : x \in live_obj \/ x \notin live'}
  <2>1. extra = {x \in Gone : x \in live_obj \/ x \notin live}
    BY <1>3, <1>13 DEF KillInv
  <2>2. CASE t \in checked /\ t \notin Entered(t)
    BY <1>1, <1>5, <2>1, <2>2
  <2>3. CASE ~(t \in checked /\ t \notin Entered(t))
    BY <1>1, <1>5, <2>1, <2>3
  <2> QED  BY <2>2, <2>3
<1>14. KillInv'
  BY <1>2, <1>3, <1>4, <1>13 DEF KillInv
<1> QED  BY <1>4, <1>9, <1>10, <1>12, <1>14 DEF GcInv

\* The dummy frame is popped.
LEMMA PopMarkStep ==
  ASSUME GcInv, pop_mark_live
  PROVE  GcInv'
<1>1. /\ mark_links = {} /\ mark_live' = FALSE
      /\ UNCHANGED <<heap, pass, checked, frames>>
      /\ refs' = refs /\ live_obj' = live_obj /\ checked' = checked /\ live' = live /\ extra' = extra
      /\ stack' = stack /\ cycle_id' = cycle_id /\ link_top' = link_top /\ piece' = piece
      /\ next' = next /\ pass' = pass /\ mark_links' = mark_links /\ kill_list' = kill_list
  BY DEF pop_mark_live, frames, order, heap
<1>2. GcTypes /\ LinkInv /\ MarkInv /\ KillInv
  BY DEF GcInv
<1>3. /\ OrderInv(stack, rf_flags, cycle_id)' /\ PieceInv' /\ Gone' = Gone
      /\ Reached' = Reached /\ \A x : Links(x)' = Links(x)
      /\ HeapTypes' /\ StackTypes'
  BY <1>1, StackSame
<1>4. LinkInv'
  <2>1. Top' = Top
    BY <1>1 DEF Top
  <2> QED  BY <1>1, <1>2, <1>3, <2>1 DEF LinkInv
<1>5. GcTypes'
  <2>1. /\ checked \subseteq Things /\ live \subseteq Things /\ extra \subseteq Things
        /\ mark_links \subseteq Things /\ pass \in {"cycle", "kill"}
        /\ next \in 1..N + 1 /\ link_top \in [Things -> SUBSET Things]
        /\ piece \in [Things -> Seq(Things)] /\ kill_list \in Seq(Things)
    BY <1>2 DEF GcTypes
  <2> QED  BY <1>1, <1>3, <2>1 DEF GcTypes, HeapTypes, StackTypes, FlagFunctions, IdFunctions
<1>6. MarkInv'
  BY <1>1, <1>2, <1>3 DEF MarkInv
<1>7. KillInv'
  BY <1>1, <1>2, <1>3 DEF KillInv
<1> QED  BY <1>3, <1>4, <1>5, <1>6, <1>7 DEF GcInv

\* The stack without its top.
LEMMA PoppedFacts ==
  ASSUME StackInv, Popped
  PROVE  /\ stack' \in Seq(Things)
         /\ Top \in Range(stack) /\ Top \in Things
         /\ Range(stack') = Range(stack) \ {Top}
         /\ Range(stack) \subseteq Things
         /\ \A c \in IdFunctions : (\A x \in Things : x # Top => c[x] = cycle_id[x]) =>
              OrderInv(stack', rf_flags, c)
<1> DEFINE n == Len(stack)
<1>1. stack \in Seq(Things) /\ stack # <<>> /\ stack' = SubSeq(stack, 1, n - 1)
  BY DEF StackInv, StackTypes, Popped
<1>2. /\ n \in Nat /\ n >= 1 /\ stack' \in Seq(Things)
      /\ DOMAIN stack' = 1..(n - 1) /\ \A i \in 1..(n - 1) : stack'[i] = stack[i]
  BY <1>1, ButLastFacts
<1>3. DOMAIN stack = 1..n /\ Top = stack[n] /\ n \in 1..n /\ \A i \in 1..n : stack[i] \in Things
  BY <1>1, <1>2 DEF Top
<1>4. \A i, j \in 1..n : stack[i] = stack[j] => i = j
  BY <1>3 DEF StackInv, OrderInv, IsInjective
<1>5. \A i \in 1..n : i \in 1..(n - 1) \/ i = n
  BY <1>2
<1>6. \A i \in 1..(n - 1) : i \in 1..n /\ i # n
  BY <1>2
<1>7. Range(stack') = {stack[i] : i \in 1..(n - 1)} /\ Range(stack) = {stack[i] : i \in 1..n}
  BY <1>2, <1>3 DEF Range
<1> HIDE DEF n
<1>8. Range(stack') = Range(stack) \ {Top}
  BY <1>3, <1>4, <1>5, <1>6, <1>7
<1>9. ASSUME NEW c \in IdFunctions, \A x \in Things : x # Top => c[x] = cycle_id[x]
      PROVE  OrderInv(stack', rf_flags, c)
  BY <1>1, <1>3, <1>9, PopOrder DEF StackInv, StackTypes, n
<1> QED  BY <1>2, <1>3, <1>7, <1>8, <1>9

\* What both ways to pop a frame have in common.
LEMMA PopStep ==
  ASSUME GcInv, Popped,
         UNCHANGED <<heap, pass, next, checked, live, link_top, rf_flags, dummy>>,
         cycle_id' \in IdFunctions, \A x \in Things : x # Top => cycle_id'[x] = cycle_id[x],
         piece' \in [Things -> Seq(Things)], extra' \subseteq Things, kill_list' \in Seq(Things)
  PROVE  GcTypes' /\ OrderInv(stack, rf_flags, cycle_id)' /\ LinkInv' /\ MarkInv'
<1>1. GcTypes /\ LinkInv /\ MarkInv /\ StackInv /\ StackTypes
  BY TypesOfStack DEF GcInv, StackInv
<1>2. /\ stack' \in Seq(Things) /\ Top \in Range(stack)
      /\ Range(stack') = Range(stack) \ {Top}
      /\ OrderInv(stack', rf_flags, cycle_id')
  BY <1>1, PoppedFacts
<1>3. /\ refs' = refs /\ live_obj' = live_obj /\ UNCHANGED heap
      /\ pass' = pass /\ next' = next /\ checked' = checked
      /\ live' = live /\ link_top' = link_top /\ rf_flags' = rf_flags
      /\ mark_live' = mark_live /\ mark_links' = mark_links
      /\ ~mark_live /\ stack # <<>> /\ link_top[Top] = {}
  BY DEF heap, dummy, Popped
<1>4. Reached' = Reached /\ \A x : Links(x)' = Links(x)
  BY <1>3, HeapSame
<1>5. GcTypes'
  <2>1. HeapTypes'
    BY <1>1, <1>3, HeapTypesSame
  <2>2. /\ pass \in {"cycle", "kill"} /\ next \in 1..N + 1
        /\ checked \subseteq Things /\ live \subseteq Things /\ mark_links \subseteq Things
        /\ link_top \in [Things -> SUBSET Things] /\ mark_live \in BOOLEAN
        /\ rf_flags \in [Things -> SUBSET {"WEAK", "STRONG", "BROKEN"}]
    BY <1>1 DEF GcTypes
  <2> QED  BY <1>2, <1>3, <2>1, <2>2 DEF GcTypes, HeapTypes, IdFunctions
<1>6. LinkInv'
  <2>1. /\ \A x \in Things : link_top[x] \subseteq Links(x)
        /\ \A x \in Things : link_top[x] # {} => x \in Range(stack)
        /\ \A x \in Range(stack), u \in Things :
             u \in link_top[x] /\ refs[<<x, u>>] = "strong" => x = Top
        /\ pass = "kill" => stack = <<>>
    BY <1>1 DEF LinkInv
  <2>2. \A x \in Things : link_top[x] # {} => x \in Range(stack')
    BY <1>2, <1>3, <2>1
  <2>3. \A x \in Range(stack'), u \in Things :
          ~(u \in link_top[x] /\ refs[<<x, u>>] = "strong")
    BY <1>2, <2>1
  <2>4. pass # "kill"
    BY <1>3, <2>1
  <2> QED  BY <1>3, <1>4, <2>1, <2>2, <2>3, <2>4 DEF LinkInv
<1>7. MarkInv'
  BY <1>1, <1>3, <1>4 DEF MarkInv
<1> QED  BY <1>2, <1>3, <1>5, <1>6, <1>7

\* A thing alone, in front of its cycle piece list.
LEMMA CycleOfTop ==
  ASSUME GcInv, Popped
  PROVE  /\ <<Top>> \o piece[Top] \in Seq(Things)
         /\ IsInjective(<<Top>> \o piece[Top])
         /\ Range(<<Top>> \o piece[Top]) = {Top} \cup Range(piece[Top])
<1>1. StackInv /\ PieceInv /\ piece \in [Things -> Seq(Things)]
  BY TypesOfStack DEF GcInv, StackInv, GcTypes
<1>2. Top \in Range(stack) /\ Top \in Things
  BY <1>1, PoppedFacts
<1>3. /\ piece[Top] \in Seq(Things) /\ IsInjective(piece[Top])
      /\ Top \notin Range(piece[Top])
  BY <1>1, <1>2 DEF PieceInv
<1> DEFINE one == <<Top>>
<1>4. one \in Seq(Things) /\ DOMAIN one = 1..1 /\ one[1] = Top
  BY <1>2
<1> HIDE DEF one
<1>5. Range(one) = {Top} /\ IsInjective(one)
  BY <1>4 DEF Range, IsInjective
<1>6. /\ one \o piece[Top] \in Seq(Things) /\ IsInjective(one \o piece[Top])
      /\ Range(one \o piece[Top]) = {Top} \cup Range(piece[Top])
  BY <1>3, <1>4, <1>5, ConcatFacts, ConcatRange
<1> QED  BY <1>6 DEF one

\* A frame goes to the cycle piece list of the one before it.
LEMMA PopPieceStep ==
  ASSUME GcInv, pop_piece
  PROVE  GcInv' /\ Gone' = Gone
<1> DEFINE n == Len(stack)
           before == stack[n - 1]
           list == <<Top>> \o piece[Top]
<1>1. /\ Popped /\ cycle_id[Top] # Top
      /\ piece' = [piece EXCEPT ![before] = list \o @, ![Top] = <<>>]
      /\ cycle_id' = [cycle_id EXCEPT ![Top] = before]
      /\ UNCHANGED <<heap, pass, next, checked, live, link_top, rf_flags, dummy>>
      /\ live_obj' = live_obj /\ pass' = pass /\ checked' = checked /\ live' = live
      /\ extra' = extra /\ kill_list' = kill_list
  BY DEF pop_piece, heap
<1>2. GcTypes /\ StackInv /\ StackTypes /\ PieceInv /\ KillInv
  BY TypesOfStack DEF GcInv, StackInv
<1>3. /\ Top \in Range(stack) /\ Top \in Things
      /\ Range(stack') = Range(stack) \ {Top} /\ Range(stack) \subseteq Things
  BY <1>1, <1>2, PoppedFacts
<1>4. n \in Nat /\ n \in 1..n /\ Top = stack[n] /\ DOMAIN stack = 1..n
  BY <1>1, <1>2, TopFacts DEF StackTypes, Popped, Top
<1>5. before \in Range(stack') /\ before \in Range(stack) /\ before \in Things /\ before # Top
  <2>1. PICK k \in 1..n : CycleFrom(stack, cycle_id, k, n)
    BY <1>2, <1>4 DEF StackInv, OrderInv
  <2>2. k # n
    BY <1>1, <1>4, <2>1 DEF CycleFrom
  <2>3. n - 1 \in 1..n /\ n - 1 # n
    <3>1. \A m \in Nat : \A j \in 1..m : j # m => m - 1 \in 1..m /\ m - 1 # m
      OBVIOUS
    <3> QED  BY <1>4, <2>2, <3>1
  <2>4. before # Top
    BY <1>2, <1>4, <2>3 DEF StackInv, OrderInv, IsInjective
  <2>5. before \in Range(stack)
    BY <1>4, <2>3 DEF Range
  <2> QED  BY <1>3, <2>4, <2>5
<1>6. list \in Seq(Things) /\ IsInjective(list) /\ Range(list) = {Top} \cup Range(piece[Top])
  BY <1>1, CycleOfTop
<1> HIDE DEF list, before, n
<1>7. /\ piece \in [Things -> Seq(Things)] /\ cycle_id \in IdFunctions
      /\ extra \subseteq Things /\ kill_list \in Seq(Things)
  BY <1>2 DEF GcTypes, StackTypes
<1>8. /\ \A x \in Things \ Range(stack) : piece[x] = <<>>
      /\ \A x \in Things : IsInjective(piece[x]) /\ Range(piece[x]) \subseteq checked \ Range(stack)
      /\ \A x, u \in Things : x # u => Range(piece[x]) \cap Range(piece[u]) = {}
      /\ Range(stack) \subseteq checked
  BY <1>2 DEF PieceInv
<1> DEFINE joined == list \o piece[before]
<1>9. /\ joined \in Seq(Things) /\ IsInjective(joined)
      /\ Range(joined) = {Top} \cup Range(piece[Top]) \cup Range(piece[before])
  <2>1. piece[before] \in Seq(Things) /\ IsInjective(piece[before])
    BY <1>5, <1>7, <1>8
  <2>2. Range(list) \cap Range(piece[before]) = {}
    BY <1>3, <1>5, <1>6, <1>8
  <2> QED  BY <1>6, <2>1, <2>2, ConcatFacts, ConcatRange
<1>10. /\ piece' \in [Things -> Seq(Things)]
       /\ piece'[before] = joined /\ piece'[Top] = <<>>
       /\ \A x \in Things : x # before /\ x # Top => piece'[x] = piece[x]
  <2>1. piece' = [piece EXCEPT ![before] = joined, ![Top] = <<>>]
    BY <1>1
  <2>2. joined \in Seq(Things) /\ <<>> \in Seq(Things)
    BY <1>9
  <2> HIDE DEF joined
  <2> QED  BY <1>3, <1>5, <1>7, <2>1, <2>2
<1> HIDE DEF joined
<1>11. cycle_id' \in IdFunctions /\ \A x \in Things : x # Top => cycle_id'[x] = cycle_id[x]
  BY <1>1, <1>3, <1>5, <1>7 DEF IdFunctions
<1>12. GcTypes' /\ OrderInv(stack, rf_flags, cycle_id)' /\ LinkInv' /\ MarkInv'
  BY <1>1, <1>7, <1>10, <1>11, PopStep
<1>13. /\ Range(piece'[before]) = {Top} \cup Range(piece[Top]) \cup Range(piece[before])
       /\ Range(piece'[Top]) = {}
       /\ \A x \in Things : x # before /\ x # Top => Range(piece'[x]) = Range(piece[x])
  BY <1>9, <1>10, EmptyRange
<1>14. PieceInv'
  <2>1. Range(stack') \subseteq checked'
    BY <1>1, <1>3, <1>8
  <2>2. \A x \in Things \ Range(stack') : piece'[x] = <<>>
    BY <1>3, <1>5, <1>8, <1>10
  <2>3. ASSUME NEW x \in Things
        PROVE  IsInjective(piece'[x]) /\ Range(piece'[x]) \subseteq checked' \ Range(stack')
    <3>1. CASE x = before
      <4>1. IsInjective(piece'[x])
        BY <1>9, <1>10, <3>1
      <4>2. Range(piece[Top]) \subseteq checked \ Range(stack)
        BY <1>3, <1>8
      <4>3. Range(piece[before]) \subseteq checked \ Range(stack)
        BY <1>5, <1>8
      <4>4. Top \in checked \ Range(stack') /\ Range(stack') \subseteq Range(stack)
        BY <1>3, <1>8
      <4>5. Range(piece'[x]) \subseteq checked \ Range(stack')
        BY <1>13, <3>1, <4>2, <4>3, <4>4
      <4> QED  BY <1>1, <4>1, <4>5
    <3>2. CASE x = Top
      BY <1>10, <1>13, <3>2 DEF IsInjective
    <3>3. CASE x # before /\ x # Top
      BY <1>1, <1>3, <1>8, <1>10, <3>3
    <3> QED  BY <3>1, <3>2, <3>3
  <2>4. ASSUME NEW x \in Things, NEW u \in Things, x # u, x # Top, u # Top, u # before
        PROVE  Range(piece'[x]) \cap Range(piece'[u]) = {}
    <3>1. CASE x = before
      BY <1>3, <1>5, <1>8, <1>13, <2>4, <3>1
    <3>2. CASE x # before
      BY <1>8, <1>13, <2>4, <3>2
    <3> QED  BY <3>1, <3>2
  <2>5. \A x, u \in Things : x # u => Range(piece'[x]) \cap Range(piece'[u]) = {}
    BY <1>13, <2>4
  <2> QED  BY <2>1, <2>2, <2>3, <2>5 DEF PieceInv
<1>15. Gone' = Gone
  <2>1. \A x : OnPieceList(x) <=> \E u \in Range(stack) : x \in Range(piece[u])
    BY DEF OnPieceList
  <2>2. \A x : OnPieceList(x)' <=> \E u \in Range(stack') : x \in Range(piece'[u])
    BY DEF OnPieceList
  <2>3. ASSUME NEW x, x # Top
        PROVE  OnPieceList(x)' <=> OnPieceList(x)
    <3>1. ASSUME OnPieceList(x)'
          PROVE  OnPieceList(x)
      <4>1. PICK u \in Range(stack') : x \in Range(piece'[u])
        BY <2>2, <3>1
      <4> QED  BY <1>3, <1>5, <1>13, <2>1, <2>3, <4>1
    <3>2. ASSUME OnPieceList(x)
          PROVE  OnPieceList(x)'
      <4>1. PICK u \in Range(stack) : x \in Range(piece[u])
        BY <2>1, <3>2
      <4>2. CASE u = Top \/ u = before
        BY <1>5, <1>13, <2>2, <4>1, <4>2
      <4>3. CASE u # Top /\ u # before
        BY <1>3, <1>13, <2>2, <4>1, <4>3
      <4> QED  BY <4>2, <4>3
    <3> QED  BY <3>1, <3>2
  <2>4. \A x : x = Top => OnPieceList(x)'
    BY <1>5, <1>13, <2>2
  <2>5. Gone' = {x \in checked' : x \notin Range(stack') /\ ~OnPieceList(x)'}
    BY DEF Gone
  <2>6. ASSUME NEW x
        PROVE  x \in Gone' <=> x \in Gone
    <3>1. CASE x = Top
      BY <1>3, <2>4, <2>5, <3>1 DEF Gone
    <3>2. CASE x # Top
      <4>1. x \in Range(stack') <=> x \in Range(stack)
        BY <1>3, <3>2
      <4> QED  BY <1>1, <2>3, <2>5, <3>2, <4>1 DEF Gone
    <3> QED  BY <3>1, <3>2
  <2> QED  BY <2>6
<1>16. KillInv'
  BY <1>1, <1>2, <1>15 DEF KillInv
<1> QED  BY <1>12, <1>14, <1>15, <1>16 DEF GcInv

\* A cycle is complete.
LEMMA PopCycleStep ==
  ASSUME GcInv, pop_cycle
  PROVE  GcInv' /\ Gone' = Gone \cup {Top} \cup Range(piece[Top])
<1> DEFINE list == <<Top>> \o piece[Top]
<1>1. /\ Popped
      /\ kill_list' = LiveObjects(list) \o kill_list
      /\ extra' = extra \cup {t \in Range(list) : t \in live_obj \/ t \notin live}
      /\ piece' = [piece EXCEPT ![Top] = <<>>]
      /\ UNCHANGED <<heap, pass, next, checked, live, link_top, rf_flags, dummy>>
      /\ live_obj' = live_obj /\ pass' = pass /\ checked' = checked /\ live' = live
      /\ cycle_id' = cycle_id
  BY DEF pop_cycle, heap
<1>2. GcTypes /\ StackInv /\ StackTypes /\ LinkInv /\ PieceInv /\ KillInv
  BY TypesOfStack DEF GcInv, StackInv
<1>3. /\ Top \in Range(stack) /\ Top \in Things
      /\ Range(stack') = Range(stack) \ {Top} /\ Range(stack) \subseteq Things
  BY <1>1, <1>2, PoppedFacts
<1>4. list \in Seq(Things) /\ IsInjective(list) /\ Range(list) = {Top} \cup Range(piece[Top])
  BY <1>1, CycleOfTop
<1> HIDE DEF list
<1>5. /\ piece \in [Things -> Seq(Things)] /\ cycle_id \in IdFunctions
      /\ extra \subseteq Things /\ kill_list \in Seq(Things)
  BY <1>2 DEF GcTypes, StackTypes
<1>6. pass = "cycle"
  BY <1>1, <1>2 DEF Popped, LinkInv, GcTypes
<1>7. /\ IsInjective(kill_list) /\ Range(kill_list) = live_obj \cap Gone
      /\ extra = {t \in Gone : t \in live_obj \/ t \notin live}
  BY <1>2, <1>6 DEF KillInv
<1>8. /\ LiveObjects(list) \in Seq(Things)
      /\ Range(LiveObjects(list)) = Range(list) \cap live_obj
      /\ IsInjective(LiveObjects(list))
  BY <1>4, LiveObjectsFacts
<1>9. Range(list) \subseteq Things /\ Range(list) \cap Gone = {} /\ Range(list) \subseteq checked
  <2>1. Range(list) \subseteq Things
    BY <1>4 DEF Range
  <2>2. Range(list) \cap Gone = {}
    BY <1>3, <1>4 DEF Gone, OnPieceList
  <2>3. Range(list) \subseteq checked
    BY <1>2, <1>3, <1>4 DEF PieceInv
  <2> QED  BY <2>1, <2>2, <2>3
<1>10. /\ kill_list' \in Seq(Things) /\ IsInjective(kill_list')
       /\ Range(kill_list') = live_obj \cap (Gone \cup Range(list))
  <2>1. Range(LiveObjects(list)) \cap Range(kill_list) = {}
    BY <1>7, <1>8, <1>9
  <2>2. /\ kill_list' \in Seq(Things) /\ IsInjective(kill_list')
        /\ Range(kill_list') = Range(LiveObjects(list)) \cup Range(kill_list)
    BY <1>1, <1>5, <1>7, <1>8, <2>1, ConcatFacts, ConcatRange
  <2> QED  BY <1>7, <1>8, <2>2
<1>11. /\ piece' \in [Things -> Seq(Things)] /\ piece'[Top] = <<>>
       /\ \A x \in Things : x # Top => piece'[x] = piece[x]
  BY <1>1, <1>3, <1>5
<1>12. GcTypes' /\ OrderInv(stack, rf_flags, cycle_id)' /\ LinkInv' /\ MarkInv'
  <2>1. extra' \subseteq Things
    BY <1>1, <1>5, <1>9
  <2> QED  BY <1>1, <1>5, <1>10, <1>11, <2>1, PopStep
<1>13. /\ \A x \in Things \ Range(stack) : piece[x] = <<>>
       /\ \A x \in Things : IsInjective(piece[x]) /\ Range(piece[x]) \subseteq checked \ Range(stack)
       /\ \A x, u \in Things : x # u => Range(piece[x]) \cap Range(piece[u]) = {}
       /\ Range(stack) \subseteq checked
  BY <1>2 DEF PieceInv
<1>14. PieceInv'
  <2>1. Range(stack') \subseteq checked' /\ Range(piece'[Top]) = {}
    BY <1>1, <1>3, <1>11, <1>13, EmptyRange
  <2>2. \A x \in Things \ Range(stack') : piece'[x] = <<>>
    BY <1>3, <1>11, <1>13
  <2>3. ASSUME NEW x \in Things
        PROVE  IsInjective(piece'[x]) /\ Range(piece'[x]) \subseteq checked' \ Range(stack')
    <3>1. CASE x = Top
      BY <1>11, <2>1, <3>1 DEF IsInjective
    <3>2. CASE x # Top
      BY <1>1, <1>3, <1>11, <1>13, <3>2
    <3> QED  BY <3>1, <3>2
  <2>4. \A x, u \in Things : x # u => Range(piece'[x]) \cap Range(piece'[u]) = {}
    BY <1>11, <1>13, <2>1
  <2> QED  BY <2>1, <2>2, <2>3, <2>4 DEF PieceInv
<1>15. Gone' = Gone \cup Range(list)
  <2>1. \A x : OnPieceList(x) <=> \E u \in Range(stack) : x \in Range(piece[u])
    BY DEF OnPieceList
  <2>2. \A x : OnPieceList(x)' <=> \E u \in Range(stack') : x \in Range(piece'[u])
    BY DEF OnPieceList
  <2>3. \A x : OnPieceList(x)' <=> \E u \in Range(stack) : u # Top /\ x \in Range(piece[u])
    BY <1>3, <1>11, <2>2
  <2>4. \A x \in Range(list) : x \notin Range(stack') /\ ~OnPieceList(x)'
    <3> SUFFICES ASSUME NEW x \in Range(list)
                 PROVE  x \notin Range(stack') /\ ~OnPieceList(x)'
      OBVIOUS
    <3>1. CASE x = Top
      BY <1>3, <1>13, <2>3, <3>1
    <3>2. CASE x \in Range(piece[Top])
      BY <1>3, <1>13, <2>3, <3>2
    <3> QED  BY <1>4, <3>1, <3>2
  <2>5. \A x : x \notin Range(list) => (OnPieceList(x)' <=> OnPieceList(x))
    BY <1>4, <2>1, <2>3
  <2>6. Gone' = {x \in checked' : x \notin Range(stack') /\ ~OnPieceList(x)'}
    BY DEF Gone
  <2>7. \A x : x \notin Range(list) => (x \in Range(stack') <=> x \in Range(stack))
    BY <1>3, <1>4
  <2>8. ASSUME NEW x
        PROVE  x \in Gone' <=> x \in Gone \cup Range(list)
    <3>1. CASE x \in Range(list)
      BY <1>1, <1>9, <2>4, <2>6, <3>1
    <3>2. CASE x \notin Range(list)
      BY <1>1, <2>5, <2>6, <2>7, <3>2 DEF Gone
    <3> QED  BY <3>1, <3>2
  <2> QED  BY <2>8
<1>16. KillInv'
  <2>1. extra' = {t \in Gone' : t \in live_obj \/ t \notin live}
    BY <1>1, <1>7, <1>15
  <2> QED  BY <1>1, <1>10, <1>15, <2>1 DEF KillInv
<1>17. Gone' = Gone \cup {Top} \cup Range(piece[Top])
  BY <1>4, <1>15
<1> QED  BY <1>12, <1>14, <1>16, <1>17 DEF GcInv

\* The free pass begins.
LEMMA FreeStep ==
  ASSUME GcInv, free
  PROVE  GcInv'
<1>1. /\ stack = <<>> /\ pass' = "kill" /\ extra' = extra \cap live
      /\ refs' = refs /\ live_obj' = live_obj /\ next' = next /\ checked' = checked
      /\ live' = live /\ stack' = stack /\ link_top' = link_top /\ rf_flags' = rf_flags
      /\ cycle_id' = cycle_id /\ piece' = piece /\ mark_live' = mark_live
      /\ mark_links' = mark_links /\ kill_list' = kill_list /\ UNCHANGED heap
  BY DEF free, CycleChecked, heap, frames, order, dummy
<1>2. /\ Reached' = Reached /\ \A x : Links(x)' = Links(x)
  BY <1>1, HeapSame
<1>3. GcTypes'
  <2>1. HeapTypes'
    BY <1>1, HeapTypesSame DEF GcInv
  <2> QED  BY <1>1, <2>1 DEF GcInv, GcTypes, HeapTypes
<1>4. OrderInv(stack, rf_flags, cycle_id)' /\ PieceInv'
  BY <1>1 DEF GcInv, PieceInv
<1>5. LinkInv'
  <2>1. Top' = Top
    BY <1>1 DEF Top
  <2> QED  BY <1>1, <1>2, <2>1 DEF GcInv, LinkInv
<1>6. MarkInv'
  BY <1>1, <1>2 DEF GcInv, MarkInv
<1>7. KillInv'
  BY <1>1 DEF KillInv
<1> QED  BY <1>3, <1>4, <1>5, <1>6, <1>7 DEF GcInv

\* An object is destructed.
LEMMA KillStep ==
  ASSUME GcInv, kill
  PROVE  GcInv'
<1>1. /\ pass = "kill" /\ pass' = pass /\ kill_list # <<>> /\ kill_list' = Tail(kill_list)
      /\ extra' = extra \ {Head(kill_list)}
      /\ refs' = refs /\ live_obj' = live_obj /\ next' = next /\ checked' = checked
      /\ live' = live /\ stack' = stack /\ link_top' = link_top /\ rf_flags' = rf_flags
      /\ cycle_id' = cycle_id /\ piece' = piece /\ mark_live' = mark_live
      /\ mark_links' = mark_links /\ UNCHANGED heap
  BY DEF kill, heap, frames, order, dummy
<1>2. /\ Reached' = Reached /\ \A x : Links(x)' = Links(x)
  BY <1>1, HeapSame
<1>3. GcTypes'
  <2>1. HeapTypes'
    BY <1>1, HeapTypesSame DEF GcInv
  <2>2. kill_list' \in Seq(Things)
    BY <1>1 DEF GcInv, GcTypes
  <2> QED  BY <1>1, <2>1, <2>2 DEF GcInv, GcTypes, HeapTypes
<1>4. OrderInv(stack, rf_flags, cycle_id)' /\ PieceInv'
  BY <1>1 DEF GcInv, PieceInv
<1>5. LinkInv'
  <2>1. Top' = Top
    BY <1>1 DEF Top
  <2> QED  BY <1>1, <1>2, <2>1 DEF GcInv, LinkInv
<1>6. MarkInv'
  BY <1>1, <1>2 DEF GcInv, MarkInv
<1>7. KillInv'
  BY <1>1 DEF KillInv
<1> QED  BY <1>3, <1>4, <1>5, <1>6, <1>7 DEF GcInv

\* The invariant does not depend on what has been destructed.
LEMMA GcInvSame ==
  ASSUME GcInv, UNCHANGED gc_vars
  PROVE  GcInv'
<1>1. /\ refs' = refs /\ live_obj' = live_obj /\ pass' = pass /\ next' = next
      /\ checked' = checked /\ live' = live /\ extra' = extra /\ stack' = stack
      /\ link_top' = link_top /\ rf_flags' = rf_flags /\ cycle_id' = cycle_id /\ piece' = piece
      /\ mark_live' = mark_live /\ mark_links' = mark_links /\ kill_list' = kill_list
      /\ UNCHANGED heap
  BY DEF gc_vars, heap, frames, order, dummy
<1>2. /\ Reached' = Reached /\ \A x : Links(x)' = Links(x)
  BY <1>1, HeapSame
<1>3. GcTypes'
  <2>1. HeapTypes'
    BY <1>1, HeapTypesSame DEF GcInv
  <2> QED  BY <1>1, <2>1 DEF GcInv, GcTypes, HeapTypes
<1>4. OrderInv(stack, rf_flags, cycle_id)' /\ PieceInv'
  BY <1>1 DEF GcInv, PieceInv
<1>5. LinkInv'
  <2>1. Top' = Top
    BY <1>1 DEF Top
  <2> QED  BY <1>1, <1>2, <2>1 DEF GcInv, LinkInv
<1>6. MarkInv'
  BY <1>1, <1>2 DEF GcInv, MarkInv
<1>7. KillInv'
  <2>1. Gone' = Gone
    BY <1>1, GoneSame
  <2> QED  BY <1>1, <2>1 DEF GcInv, KillInv
<1> QED  BY <1>3, <1>4, <1>5, <1>6, <1>7 DEF GcInv

\* The invariant holds when the pass begins.
LEMMA GcInitInv ==
  GcInit => GcInv
<1> SUFFICES ASSUME GcInit
             PROVE  GcInv
  OBVIOUS
<1>1. N \in Nat /\ N >= 1 /\ <<>> \in Seq(Things) /\ Len(<<>>) = 0 /\ DOMAIN <<>> = {}
  BY GcAssumption
<1>2. Range(<<>>) = {} /\ IsInjective(<<>>)
  BY <1>1, EmptyRange DEF IsInjective
<1>3. DOMAIN refs \subseteq Pairs
  <2>1. PICK E \in SUBSET Pairs : refs \in [E -> Strengths]
    BY DEF GcInit
  <2> QED  BY <2>1
<1>4. GcTypes
  <2>1. /\ \A p, q \in OfStrength({"strong"}) : p[1] = q[1] => p = q
        /\ live_obj \subseteq Things /\ {checked, live, extra, mark_links} \subseteq SUBSET Things
    BY DEF GcInit, ParentsOK
  <2>2. next \in 1..N + 1
    BY <1>1 DEF GcInit
  <2>3. /\ stack \in Seq(Things) /\ kill_list \in Seq(Things)
        /\ link_top \in [Things -> SUBSET Things]
        /\ rf_flags \in [Things -> SUBSET {"WEAK", "STRONG", "BROKEN"}]
        /\ cycle_id \in [Things -> Things]
        /\ piece \in [Things -> Seq(Things)]
    BY <1>1 DEF GcInit
  <2>4. pass \in {"cycle", "kill"} /\ mark_live \in BOOLEAN
    BY DEF GcInit
  <2> QED  BY <1>3, <2>1, <2>2, <2>3, <2>4 DEF GcTypes
<1>5. OrderInv(stack, rf_flags, cycle_id)
  BY <1>1, <1>2 DEF GcInit, OrderInv
<1>6. LinkInv
  BY <1>2 DEF GcInit, LinkInv
<1>7. MarkInv
  <2>1. \A t \in Things : ~(t < 1)
    BY <1>1 DEF Things
  <2> QED  BY <2>1 DEF GcInit, MarkInv
<1>8. PieceInv
  BY <1>2 DEF GcInit, PieceInv
<1>9. KillInv
  BY <1>2 DEF GcInit, KillInv, Gone
<1> QED  BY <1>4, <1>5, <1>6, <1>7, <1>8, <1>9 DEF GcInv

\* Every step keeps the invariant.
LEMMA GcNextInv ==
  GcInv /\ [GcNext]_gc_vars => GcInv'
<1> SUFFICES ASSUME GcInv, [GcNext]_gc_vars
             PROVE  GcInv'
  OBVIOUS
<1>1. CASE gc_cycle_check_all
  BY <1>1, CheckAllStep
<1>2. CASE follow_link
  BY <1>2, FollowLinkStep
<1>3. CASE follow_mark_link
  BY <1>3, FollowMarkStep
<1>4. CASE pop_mark_live
  BY <1>4, PopMarkStep
<1>5. CASE pop_piece
  BY <1>5, PopPieceStep
<1>6. CASE pop_cycle
  BY <1>6, PopCycleStep
<1>7. CASE free
  BY <1>7, FreeStep
<1>8. CASE kill
  BY <1>8, KillStep
<1>9. CASE done
  BY <1>9, GcInvSame DEF done
<1>10. CASE UNCHANGED gc_vars
  BY <1>10, GcInvSame
<1> QED  BY <1>1, <1>2, <1>3, <1>4, <1>5, <1>6, <1>7, <1>8, <1>9, <1>10 DEF GcNext

-----------------------------------------------------------------------------
(* The order of destruction: the kill list.                                *)

\* a has to be destructed before b: its parent, if there are no weak
\* references; or what it refers to single way, if there are no parents and
\* weak references are no part of a cycle.
GoesBefore(a, b) ==
  \/ OfStrength({"weak"}) = {} /\ <<a, b>> \in OfStrength({"strong"})
  \/ /\ OfStrength({"strong"}) = {} /\ WeakOneWay
     /\ <<a, b>> \in AllPaths /\ <<b, a>> \notin AllPaths

\* a is somewhere in front of b.
InOrder(s, a, b) == \E i, j \in DOMAIN s : i < j /\ s[i] = a /\ s[j] = b

\* What has to go first is in front on the kill list, as soon as it is gone
\* from the stack, and stays there till it has been destructed.
ListInv ==
  /\ IsInjective(kill_list)
  /\ \A a, b \in live_obj : GoesBefore(a, b) =>
       IF pass = "cycle" THEN a \in Gone => InOrder(kill_list, a, b)
       ELSE a \in destructed \/ (b \notin destructed /\ InOrder(kill_list, a, b))

\* Things stay in order when a sequence is extended.
LEMMA InOrderConcat ==
  ASSUME NEW s \in Seq(Things), NEW r \in Seq(Things), NEW a, NEW b
  PROVE  /\ InOrder(s, a, b) => InOrder(s \o r, a, b)
         /\ InOrder(r, a, b) => InOrder(s \o r, a, b)
         /\ a \in Range(s) /\ b \in Range(r) => InOrder(s \o r, a, b)
<1>1. /\ s \o r \in Seq(Things) /\ Len(s) \in Nat /\ Len(r) \in Nat
      /\ Len(s \o r) = Len(s) + Len(r)
      /\ DOMAIN s = 1..Len(s) /\ DOMAIN r = 1..Len(r)
      /\ \A i \in 1..Len(s) : (s \o r)[i] = s[i]
      /\ \A i \in 1..Len(r) : (s \o r)[Len(s) + i] = r[i]
  BY ConcatFacts
<1>2. DOMAIN (s \o r) = 1..(Len(s) + Len(r))
  BY <1>1
<1> DEFINE w == s \o r
<1> HIDE DEF w
<1>3. \A m, l \in Nat : /\ \A i \in 1..m : i \in 1..(m + l)
                        /\ \A i \in 1..l : m + i \in 1..(m + l)
                        /\ \A i \in 1..m, j \in 1..l : i < m + j
                        /\ \A i, j \in 1..l : i < j => m + i < m + j
  OBVIOUS
<1>4. ASSUME InOrder(s, a, b)
      PROVE  InOrder(w, a, b)
  <2>1. PICK i, j \in 1..Len(s) : i < j /\ s[i] = a /\ s[j] = b
    BY <1>1, <1>4 DEF InOrder
  <2>2. i \in DOMAIN w /\ j \in DOMAIN w /\ w[i] = a /\ w[j] = b
    BY <1>1, <1>2, <1>3, <2>1 DEF w
  <2> QED  BY <2>1, <2>2 DEF InOrder
<1>5. ASSUME InOrder(r, a, b)
      PROVE  InOrder(w, a, b)
  <2>1. PICK i, j \in 1..Len(r) : i < j /\ r[i] = a /\ r[j] = b
    BY <1>1, <1>5 DEF InOrder
  <2>2. /\ Len(s) + i \in DOMAIN w /\ Len(s) + j \in DOMAIN w
        /\ w[Len(s) + i] = a /\ w[Len(s) + j] = b
    BY <1>1, <1>2, <1>3, <2>1 DEF w
  <2>3. Len(s) + i < Len(s) + j
    BY <1>1, <1>3, <2>1
  <2> QED  BY <2>2, <2>3 DEF InOrder
<1>6. ASSUME a \in Range(s), b \in Range(r)
      PROVE  InOrder(w, a, b)
  <2>1. PICK i \in 1..Len(s) : s[i] = a
    BY <1>1, <1>6 DEF Range
  <2>2. PICK j \in 1..Len(r) : r[j] = b
    BY <1>1, <1>6 DEF Range
  <2>3. i \in DOMAIN w /\ Len(s) + j \in DOMAIN w /\ w[i] = a /\ w[Len(s) + j] = b
    BY <1>1, <1>2, <1>3, <2>1, <2>2 DEF w
  <2>4. i < Len(s) + j
    BY <1>1, <1>3, <2>1, <2>2
  <2> QED  BY <2>3, <2>4 DEF InOrder
<1> QED  BY <1>4, <1>5, <1>6 DEF w

\* An element after the others.
LEMMA InOrderAppend ==
  ASSUME NEW s \in Seq(Things), NEW x \in Things, NEW a, NEW b
  PROVE  /\ InOrder(s, a, b) => InOrder(Append(s, x), a, b)
         /\ a \in Range(s) => InOrder(Append(s, x), a, x)
<1> DEFINE one == <<x>>
<1>1. one \in Seq(Things) /\ x \in Range(one) /\ Append(s, x) = s \o one
  BY DEF Range
<1> HIDE DEF one
<1> QED  BY <1>1, InOrderConcat

\* LiveObjects() leaves the live objects in their order.
LEMMA LiveObjectsOrder ==
  ASSUME NEW q \in Seq(Things), NEW a \in live_obj, NEW b \in live_obj, InOrder(q, a, b)
  PROVE  InOrder(LiveObjects(q), a, b)
<1>1. PICK g : KeptAll(q, Len(q), g) /\ LiveObjects(q) = g[Len(q)]
  BY LiveObjectsKept
<1>2. Len(q) \in Nat /\ DOMAIN q = 1..Len(q) /\ \A i \in 1..Len(q) : q[i] \in Things
  OBVIOUS
<1>3. /\ g[0] = <<>>
      /\ \A n \in 1..Len(q) :
           g[n] = IF q[n] \in live_obj THEN Append(g[n - 1], q[n]) ELSE g[n - 1]
  <2>1. \A n \in 0..Len(q) :
          g[n] = IF n = 0 THEN <<>>
                 ELSE IF q[n] \in live_obj THEN Append(g[n - 1], q[n]) ELSE g[n - 1]
    BY <1>1 DEF KeptAll, KeptNext
  <2> QED  BY <1>2, <2>1
<1> DEFINE Kept(n) == /\ g[n] \in Seq(Things)
                      /\ \A i \in 1..n : q[i] \in live_obj => q[i] \in Range(g[n])
                      /\ \A i, j \in 1..n : i < j /\ q[i] \in live_obj /\ q[j] \in live_obj =>
                           InOrder(g[n], q[i], q[j])
           S == {n \in 0..Len(q) : ~Kept(n)}
<1>4. Kept(0)
  <2>1. <<>> \in Seq(Things) /\ 1..0 = {}
    OBVIOUS
  <2> QED  BY <1>3, <2>1
<1>5. ASSUME NEW n \in 1..Len(q), Kept(n - 1)
      PROVE  Kept(n)
  <2>1. \A i \in 1..n : i \in 1..(n - 1) \/ i = n
    BY <1>2
  <2>2. \A i, j \in 1..n : i < j => i \in 1..(n - 1)
    BY <1>2
  <2>3. q[n] \in Things
    BY <1>2
  <2>4. CASE q[n] \in live_obj
    <3>1. g[n] = Append(g[n - 1], q[n])
      BY <1>3, <2>4
    <3>2. g[n] \in Seq(Things) /\ Range(g[n]) = Range(g[n - 1]) \cup {q[n]}
      BY <1>5, <2>3, <3>1, AppendRange
    <3>3. \A i \in 1..n : q[i] \in live_obj => q[i] \in Range(g[n])
      BY <1>5, <2>1, <3>2
    <3>4. ASSUME NEW i \in 1..n, NEW j \in 1..n, i < j, q[i] \in live_obj, q[j] \in live_obj
          PROVE  InOrder(g[n], q[i], q[j])
      <4>1. i \in 1..(n - 1)
        BY <2>2, <3>4
      <4>2. CASE j = n
        BY <1>5, <2>3, <3>1, <3>4, <4>1, <4>2, InOrderAppend
      <4>3. CASE j \in 1..(n - 1)
        BY <1>5, <2>3, <3>1, <3>4, <4>1, <4>3, InOrderAppend
      <4> QED  BY <2>1, <4>2, <4>3
    <3> QED  BY <3>2, <3>3, <3>4
  <2>5. CASE q[n] \notin live_obj
    <3>1. g[n] = g[n - 1]
      BY <1>3, <2>5
    <3>2. \A i \in 1..n : q[i] \in live_obj => i \in 1..(n - 1)
      BY <2>1, <2>5
    <3> QED  BY <1>5, <3>1, <3>2
  <2> QED  BY <2>4, <2>5
<1>6. Kept(Len(q))
  <2> SUFFICES ASSUME ~Kept(Len(q))
               PROVE  FALSE
    OBVIOUS
  <2> HIDE DEF Kept
  <2>1. S \subseteq Nat /\ Len(q) \in S
    BY <1>2
  <2>2. PICK n \in S : \A j \in S : n <= j
    BY <2>1, LeastNumber
  <2>3. n # 0 /\ n \in 0..Len(q) /\ ~Kept(n)
    BY <1>4, <2>2
  <2>4. n \in 1..Len(q) /\ n - 1 \in 0..Len(q) /\ ~(n <= n - 1)
    BY <1>2, <2>3
  <2>5. Kept(n - 1)
    BY <2>2, <2>4
  <2> QED  BY <1>5, <2>3, <2>4, <2>5
<1>7. PICK i, j \in 1..Len(q) : i < j /\ q[i] = a /\ q[j] = b
  BY <1>2 DEF InOrder
<1> QED  BY <1>1, <1>6, <1>7

\* What has to go first depends on the heap alone.
LEMMA HeapOrder ==
  ASSUME UNCHANGED heap
  PROVE  /\ refs' = refs /\ live_obj' = live_obj
         /\ \A S : OfStrength(S)' = OfStrength(S)
         /\ AllPaths' = AllPaths /\ (WeakOneWay' <=> WeakOneWay)
         /\ \A a, b : GoesBefore(a, b)' <=> GoesBefore(a, b)
<1>1. refs' = refs /\ live_obj' = live_obj
  BY DEF heap
<1>2. \A S : OfStrength(S)' = OfStrength(S)
  BY <1>1 DEF OfStrength
<1>3. AllPaths' = AllPaths
  BY <1>1 DEF AllPaths
<1>4. WeakOneWay' <=> WeakOneWay
  BY <1>2, <1>3 DEF WeakOneWay
<1> QED  BY <1>1, <1>2, <1>3, <1>4 DEF GoesBefore

\* Nothing happens to the kill list.
LEMMA ListSame ==
  ASSUME ListInv, UNCHANGED <<heap, pass, kill_list, destructed>>, Gone' = Gone
  PROVE  ListInv'
<1>1. /\ kill_list' = kill_list /\ pass' = pass /\ destructed' = destructed
      /\ live_obj' = live_obj /\ \A a, b : GoesBefore(a, b)' <=> GoesBefore(a, b)
  BY HeapOrder
<1>2. ASSUME NEW a \in live_obj, NEW b \in live_obj, GoesBefore(a, b)'
      PROVE  IF pass' = "cycle" THEN a \in Gone' => InOrder(kill_list', a, b)
             ELSE a \in destructed' \/ (b \notin destructed' /\ InOrder(kill_list', a, b))
  BY <1>1, <1>2 DEF ListInv
<1> QED  BY <1>1, <1>2 DEF ListInv, InOrder

\* A cycle goes in front of the kill list.
LEMMA ListPop ==
  ASSUME GcInv, ListInv, pop_cycle,
         \A a, b \in live_obj :
           GoesBefore(a, b) /\ a \in Range(<<Top>> \o piece[Top]) =>
             b \in Gone \/ InOrder(<<Top>> \o piece[Top], a, b)
  PROVE  ListInv'
<1> DEFINE list == <<Top>> \o piece[Top]
<1>1. /\ Popped /\ kill_list' = LiveObjects(list) \o kill_list
      /\ UNCHANGED heap /\ pass' = pass
  BY DEF pop_cycle
<1>2. /\ GcInv' /\ Gone' = Gone \cup Range(list)
      /\ list \in Seq(Things) /\ IsInjective(list)
  BY <1>1, PopCycleStep, CycleOfTop
<1>3. \A a, b \in live_obj :
        GoesBefore(a, b) /\ a \in Range(list) => b \in Gone \/ InOrder(list, a, b)
  OBVIOUS
<1> HIDE DEF list
<1>4. /\ LiveObjects(list) \in Seq(Things)
      /\ Range(LiveObjects(list)) = Range(list) \cap live_obj
  BY <1>2, LiveObjectsFacts
<1>5. pass = "cycle"
  BY <1>1 DEF Popped, GcInv, LinkInv, GcTypes
<1>6. kill_list \in Seq(Things) /\ Range(kill_list) = live_obj \cap Gone
  BY <1>5 DEF GcInv, GcTypes, KillInv
<1>7. IsInjective(kill_list')
  BY <1>1, <1>2, <1>5 DEF GcInv, KillInv
<1>8. live_obj' = live_obj /\ \A a, b : GoesBefore(a, b)' <=> GoesBefore(a, b)
  BY <1>1, HeapOrder
<1>9. ASSUME NEW a \in live_obj, NEW b \in live_obj, GoesBefore(a, b), a \in Gone'
      PROVE  InOrder(kill_list', a, b)
  <2>1. CASE a \in Gone
    <3>1. InOrder(kill_list, a, b)
      BY <1>5, <1>9, <2>1 DEF ListInv
    <3> QED  BY <1>1, <1>4, <1>6, <3>1, InOrderConcat
  <2>2. CASE a \in Range(list)
    <3>1. CASE b \in Gone
      BY <1>1, <1>4, <1>6, <2>2, <3>1, InOrderConcat
    <3>2. CASE InOrder(list, a, b)
      <4>1. InOrder(LiveObjects(list), a, b)
        BY <1>2, <3>2, LiveObjectsOrder
      <4> QED  BY <1>1, <1>4, <1>6, <4>1, InOrderConcat
    <3> QED  BY <1>3, <1>9, <2>2, <3>1, <3>2
  <2> QED  BY <1>2, <1>9, <2>1, <2>2
<1>10. ASSUME NEW a \in live_obj', NEW b \in live_obj', GoesBefore(a, b)'
       PROVE  IF pass' = "cycle" THEN a \in Gone' => InOrder(kill_list, a, b)'
              ELSE a \in destructed' \/ (b \notin destructed' /\ InOrder(kill_list, a, b)')
  BY <1>1, <1>5, <1>8, <1>9, <1>10 DEF InOrder
<1> QED  BY <1>7, <1>10 DEF ListInv

\* The free pass leaves the live objects alone.
LEMMA ListFree ==
  ASSUME GcInv, ListInv, free
  PROVE  ListInv'
<1>1. /\ stack = <<>> /\ pass = "cycle" /\ next > N /\ pass' = "kill"
      /\ destructed' = Things \ live /\ kill_list' = kill_list /\ UNCHANGED heap
  BY DEF free, CycleChecked
<1>2. GcTypes /\ MarkInv
  BY DEF GcInv
<1>3. checked = Things
  <2>1. N \in Nat /\ next \in 1..N + 1 /\ Things = 1..N /\ checked \subseteq Things
    BY <1>2, GcAssumption DEF GcTypes, Things
  <2>2. \A t \in Things : t < next
    BY <1>1, <2>1
  <2> QED  BY <1>2, <2>1, <2>2 DEF MarkInv
<1>4. Gone = Things
  BY <1>1, <1>3, EmptyRange DEF Gone, OnPieceList
<1>5. live_obj \subseteq live /\ live_obj \subseteq Things
  BY <1>2, <1>3 DEF MarkInv, GcTypes
<1>6. live_obj' = live_obj /\ \A a, b : GoesBefore(a, b)' <=> GoesBefore(a, b)
  BY <1>1, HeapOrder
<1>7. ASSUME NEW a \in live_obj, NEW b \in live_obj, GoesBefore(a, b)
      PROVE  b \notin destructed' /\ InOrder(kill_list, a, b)
  BY <1>1, <1>4, <1>5, <1>7 DEF ListInv
<1>8. ASSUME NEW a \in live_obj', NEW b \in live_obj', GoesBefore(a, b)'
      PROVE  b \notin destructed' /\ InOrder(kill_list, a, b)'
  BY <1>1, <1>6, <1>7, <1>8 DEF InOrder
<1>9. IsInjective(kill_list')
  BY <1>1 DEF ListInv
<1> QED  BY <1>1, <1>8, <1>9 DEF ListInv

\* The first object on the kill list is destructed.
LEMMA ListKill ==
  ASSUME GcInv, ListInv, kill
  PROVE  ListInv'
<1> DEFINE n == Len(kill_list)
<1>1. /\ pass = "kill" /\ pass' = pass /\ kill_list # <<>> /\ kill_list' = Tail(kill_list)
      /\ destructed' = destructed \cup {Head(kill_list)} /\ UNCHANGED heap
  BY DEF kill
<1>2. kill_list \in Seq(Things)
  BY DEF GcInv, GcTypes
<1>3. /\ n \in Nat /\ n >= 1 /\ DOMAIN kill_list = 1..n /\ Head(kill_list) = kill_list[1]
      /\ DOMAIN kill_list' = 1..(n - 1)
      /\ \A i \in 1..(n - 1) : kill_list'[i] = kill_list[i + 1]
  BY <1>1, <1>2
<1>4. \A i, j \in 1..n : kill_list[i] = kill_list[j] => i = j
  BY <1>3 DEF ListInv, IsInjective
<1> HIDE DEF n
<1>5. live_obj' = live_obj /\ \A a, b : GoesBefore(a, b)' <=> GoesBefore(a, b)
  BY <1>1, HeapOrder
<1>6. IsInjective(kill_list')
  <2>1. ASSUME NEW i \in 1..(n - 1), NEW j \in 1..(n - 1), kill_list'[i] = kill_list'[j]
        PROVE  i = j
    <3>1. i + 1 \in 1..n /\ j + 1 \in 1..n /\ (i + 1 = j + 1 => i = j)
      BY <1>3
    <3> QED  BY <1>3, <1>4, <2>1, <3>1
  <2> QED  BY <1>3, <2>1 DEF IsInjective
<1>7. ASSUME NEW a \in live_obj, NEW b \in live_obj, GoesBefore(a, b)
      PROVE  a \in destructed' \/ (b \notin destructed' /\ InOrder(kill_list', a, b))
  <2>1. CASE a \in destructed'
    BY <2>1
  <2>2. CASE a \notin destructed'
    <3>1. a \notin destructed /\ a # kill_list[1]
      BY <1>1, <1>3, <2>2
    <3>2. b \notin destructed /\ InOrder(kill_list, a, b)
      BY <1>1, <1>7, <3>1 DEF ListInv
    <3>3. PICK i, j \in 1..n : i < j /\ kill_list[i] = a /\ kill_list[j] = b
      BY <1>3, <3>2 DEF InOrder
    <3>4. i # 1
      BY <3>1, <3>3
    <3>5. /\ i - 1 \in 1..(n - 1) /\ j - 1 \in 1..(n - 1) /\ i - 1 < j - 1
          /\ (i - 1) + 1 = i /\ (j - 1) + 1 = j /\ j # 1 /\ 1 \in 1..n
      BY <1>3, <3>3, <3>4
    <3>6. b # kill_list[1]
      BY <1>4, <3>3, <3>5
    <3>7. kill_list'[i - 1] = a /\ kill_list'[j - 1] = b
      BY <1>3, <3>3, <3>5
    <3>8. InOrder(kill_list', a, b)
      BY <1>3, <3>5, <3>7 DEF InOrder
    <3> QED  BY <1>1, <1>3, <3>2, <3>6, <3>8
  <2> QED  BY <2>1, <2>2
<1>8. ASSUME NEW a \in live_obj', NEW b \in live_obj', GoesBefore(a, b)'
      PROVE  a \in destructed' \/ (b \notin destructed' /\ InOrder(kill_list, a, b)')
  BY <1>5, <1>7, <1>8 DEF InOrder
<1> QED  BY <1>1, <1>6, <1>8 DEF ListInv

\* The list in the right order gives the right order of destruction.
LEMMA OrderOfList ==
  GcTypes /\ ListInv => DestructOrder
<1> SUFFICES ASSUME GcTypes, ListInv
             PROVE  DestructOrder
  OBVIOUS
<1>1. ASSUME pass = "kill", NEW a, NEW b, GoesBefore(a, b)
      PROVE  Before(a, b)
  BY <1>1 DEF ListInv, Before
<1>2. DOMAIN refs \subseteq Things \X Things
  BY DEF GcTypes, Pairs
<1>3. AllPaths \subseteq Things \X Things
  BY <1>2, PathsJoin DEF AllPaths
<1>4. \A p \in Things \X Things : p = <<p[1], p[2]>>
  OBVIOUS
<1>5. ASSUME OfStrength({"weak"}) = {}, pass = "kill", NEW p \in OfStrength({"strong"})
      PROVE  Before(p[1], p[2])
  <2>1. <<p[1], p[2]>> \in OfStrength({"strong"})
    BY <1>2, <1>4, <1>5 DEF OfStrength
  <2> QED  BY <1>1, <1>5, <2>1 DEF GoesBefore
<1>6. ASSUME pass = "kill", OfStrength({"strong"}) = {}, WeakOneWay,
             NEW p \in AllPaths, <<p[2], p[1]>> \notin AllPaths
      PROVE  Before(p[1], p[2])
  <2>1. <<p[1], p[2]>> \in AllPaths
    BY <1>3, <1>4
  <2> QED  BY <1>1, <1>6, <2>1 DEF GoesBefore
<1> QED  BY <1>5, <1>6 DEF DestructOrder, ChildrenFirst

-----------------------------------------------------------------------------
(* The order of destruction: parents.                                      *)

\* x is the frame at i or on its cycle piece list.
At(i, x) == x = stack[i] \/ x \in Range(piece[stack[i]])

\* The frames from i to j are kept together by rotate_rec_stack().
Chained(i, j) == \A k \in (i + 1)..j : "STRONG" \in rf_flags[stack[k]]

\* A child and its parent: the parent is behind it, in the same chain of frames
\* or on the same cycle piece list.
Together(c, p) ==
  \/ \E i, j \in 1..Len(stack) : i <= j /\ stack[i] = c /\ At(j, p) /\ Chained(i, j)
  \/ \E u \in Range(stack) : InOrder(piece[u], c, p)

\* A child whose link to its parent has been followed stays together with it.
\* Before the link of the thing on top is followed, the frames it is chained to
\* are its descendants, without anything on their lists.
ChildInv ==
  OfStrength({"weak"}) = {} =>
    /\ \A i \in 1..Len(stack) : "WEAK" \notin rf_flags[stack[i]]
    /\ \A c, p \in Things :
         <<c, p>> \in OfStrength({"strong"}) /\ c \in checked /\ p \notin link_top[c] =>
           c \in Gone \/ p \in Gone \/ Together(c, p)
    /\ \A u \in Things : stack # <<>> /\ u \in link_top[Top] /\ refs[<<Top, u>>] = "strong" =>
         \A i \in 1..Len(stack) : Chained(i, Len(stack)) =>
           /\ piece[stack[i]] = <<>>
           /\ i < Len(stack) => <<stack[i], Top>> \in Paths(OfStrength({"strong"}))

\* No object is among its own ancestors.
TreeOK == \A u \in Things : <<u, u>> \notin Paths(OfStrength({"strong"}))

\* Chains of frames that stay chains keep children and parents together.
LEMMA TogetherKept ==
  ASSUME NEW c, NEW p, Together(c, p),
         Range(stack) \subseteq Range(stack'),
         \A x \in Range(stack) : piece'[x] = piece[x],
         stack \in Seq(Things),
         \A i, j \in 1..Len(stack) : i <= j /\ Chained(i, j) =>
           \E i2, j2 \in 1..Len(stack') :
             /\ i2 <= j2 /\ stack'[i2] = stack[i] /\ stack'[j2] = stack[j]
             /\ \A k \in (i2 + 1)..j2 : "STRONG" \in rf_flags'[stack'[k]]
  PROVE  Together(c, p)'
<1>1. CASE \E i, j \in 1..Len(stack) : i <= j /\ stack[i] = c /\ At(j, p) /\ Chained(i, j)
  <2>1. PICK i, j \in 1..Len(stack) : i <= j /\ stack[i] = c /\ At(j, p) /\ Chained(i, j)
    BY <1>1
  <2>2. PICK i2, j2 \in 1..Len(stack') :
             /\ i2 <= j2 /\ stack'[i2] = stack[i] /\ stack'[j2] = stack[j]
             /\ \A k \in (i2 + 1)..j2 : "STRONG" \in rf_flags'[stack'[k]]
    BY <2>1
  <2>3. stack[j] \in Range(stack)
    BY DEF Range
  <2>4. p = stack'[j2] \/ p \in Range(piece'[stack'[j2]])
    BY <2>1, <2>2, <2>3 DEF At
  <2> QED  BY <2>1, <2>2, <2>4 DEF Together, At, Chained
<1>2. CASE \E u \in Range(stack) : InOrder(piece[u], c, p)
  <2>1. PICK u \in Range(stack) : InOrder(piece[u], c, p)
    BY <1>2
  <2>2. u \in Range(stack') /\ InOrder(piece'[u], c, p)
    BY <2>1
  <2> QED  BY <2>2 DEF Together, InOrder
<1> QED  BY <1>1, <1>2 DEF Together

\* Where the frame at i goes when the part from b is exchanged with that from p.
WentTo(b, p, i) ==
  IF i < b THEN i
  ELSE IF i < p THEN i + (Len(stack) - p + 1)
  ELSE i - (p - b)

\* A chain that is not cut by the rotation stays one.
LEMMA ChainRotated ==
  ASSUME stack \in Seq(Things), NEW b \in 1..Len(stack), NEW p \in 1..Len(stack), b < p,
         NEW i \in 1..Len(stack), NEW j \in 1..Len(stack), i <= j,
         ~(b \in (i + 1)..j), ~(p \in (i + 1)..j)
  PROVE  /\ WentTo(b, p, i) \in 1..Len(stack) /\ WentTo(b, p, j) \in 1..Len(stack)
         /\ WentTo(b, p, i) <= WentTo(b, p, j)
         /\ WasAt(b, p, WentTo(b, p, i)) = i /\ WasAt(b, p, WentTo(b, p, j)) = j
         /\ \A k \in (WentTo(b, p, i) + 1)..WentTo(b, p, j) :
              k \in 1..Len(stack) /\ WasAt(b, p, k) \in (i + 1)..j
<1> DEFINE n == Len(stack)
<1>1. n \in Nat
  OBVIOUS
<1> HIDE DEF n
<1>2. CASE j < b
  BY <1>1, <1>2 DEF WentTo, WasAt, n
<1>3. CASE i >= b /\ j < p
  BY <1>1, <1>3 DEF WentTo, WasAt, n
<1>4. CASE i >= p
  BY <1>1, <1>4 DEF WentTo, WasAt, n
<1>5. j < b \/ (i >= b /\ j < p) \/ i >= p
  BY <1>1 DEF n
<1> QED  BY <1>2, <1>3, <1>4, <1>5

\* The frames from p to the top go in front of those from b to q.
LEMMA ChainJoined ==
  ASSUME stack \in Seq(Things), NEW b \in 1..Len(stack), NEW p \in 1..Len(stack), b < p,
         NEW q \in b..(p - 1)
  PROVE  LET n == Len(stack)
         IN /\ WentTo(b, p, n) \in 1..n /\ WentTo(b, p, q) \in 1..n
            /\ WentTo(b, p, n) <= WentTo(b, p, q)
            /\ WasAt(b, p, WentTo(b, p, n)) = n /\ WasAt(b, p, WentTo(b, p, q)) = q
            /\ \A k \in (WentTo(b, p, n) + 1)..WentTo(b, p, q) :
                 k \in 1..n /\ WasAt(b, p, k) \in b..q
<1> DEFINE n == Len(stack)
<1>1. n \in Nat
  OBVIOUS
<1> HIDE DEF n
<1> QED  BY <1>1 DEF WentTo, WasAt, n

\* break_at() cuts no chain of frames, and chains the thing on top to the frame
\* that its strong link leads to.
LEMMA BreakAtChain ==
  ASSUME StackInv, NEW t, t \in Range(stack) \/ OnPieceList(t), NEW strength,
         NEW pos \in 1..Len(stack), pos > Position(Root(t)),
         "STRONG" \notin rf_flags[stack[pos]],
         \A i \in 1..Len(stack) : "WEAK" \notin rf_flags[stack[i]],
         break_at(t, strength, pos)
  PROVE  /\ \A i \in 1..Len(stack') : "WEAK" \notin rf_flags'[stack'[i]]
         /\ \A i, j \in 1..Len(stack) : i <= j /\ Chained(i, j) =>
              \E i2, j2 \in 1..Len(stack') :
                /\ i2 <= j2 /\ stack'[i2] = stack[i] /\ stack'[j2] = stack[j]
                /\ \A k \in (i2 + 1)..j2 : "STRONG" \in rf_flags'[stack'[k]]
         /\ strength = "strong" =>
              \E i2, j2 \in 1..Len(stack') :
                /\ i2 <= j2 /\ stack'[i2] = Top /\ stack'[j2] = Root(t)
                /\ \A k \in (i2 + 1)..j2 : "STRONG" \in rf_flags'[stack'[k]]
<1> DEFINE q == Position(Root(t))
           n == Len(stack)
           b == RotateBeg(q)
<1>1. /\ q \in 1..n /\ stack[q] = Root(t) /\ n \in Nat /\ DOMAIN stack = 1..n
      /\ stack \in Seq(Things) /\ pos \in 1..n /\ pos > q
  BY RootFacts, PositionFacts DEF StackInv, StackTypes
<1>2. /\ b \in 1..q
      /\ "STRONG" \notin rf_flags[stack[b]]
      /\ \A i \in (b + 1)..q : "STRONG" \in rf_flags[stack[i]]
  BY <1>1, RotateBegFacts
<1>3. /\ stack' = Rotated(b, pos)
      /\ rf_flags' = [rf_flags EXCEPT
           ![stack[pos]] = @ \cup {"BROKEN"},
           ![stack[b]] = (@ \ {"WEAK", "BROKEN"}) \cup {f \in {"STRONG"} : strength = "strong"}]
  BY DEF break_at
<1> HIDE DEF b
<1>4. b \in 1..n /\ b < pos /\ q \in b..(pos - 1)
  BY <1>1, <1>2
<1>5. \A i \in 1..n : stack[i] \in Things
  BY PositionFacts
<1>6. \A i, j \in 1..n : stack[i] = stack[j] => i = j
  BY <1>1 DEF StackInv, OrderInv, IsInjective
<1>7. \A i \in 1..n : "WEAK" \notin rf_flags[stack[i]]
  OBVIOUS
<1>8. Top = stack[n]
  BY DEF Top
<1> HIDE DEF n, q
<1>9. /\ rf_flags'[stack[pos]] = rf_flags[stack[pos]] \cup {"BROKEN"}
      /\ rf_flags'[stack[b]] = (rf_flags[stack[b]] \ {"WEAK", "BROKEN"})
                                 \cup {f \in {"STRONG"} : strength = "strong"}
      /\ \A x \in Things : x # stack[pos] /\ x # stack[b] => rf_flags'[x] = rf_flags[x]
  <2>1. stack[pos] \in Things /\ stack[b] \in Things /\ stack[pos] # stack[b]
    BY <1>1, <1>4, <1>5, <1>6
  <2> QED  BY <1>3, <2>1 DEF StackInv, StackTypes, FlagFunctions
<1>10. \A i \in 1..n : /\ "WEAK" \notin rf_flags'[stack[i]]
                       /\ "STRONG" \in rf_flags[stack[i]] => "STRONG" \in rf_flags'[stack[i]]
  BY <1>5, <1>7, <1>9
<1>11. /\ stack' \in Seq(Things) /\ Len(stack') = n
       /\ \A i \in 1..n : WasAt(b, pos, i) \in 1..n /\ stack'[i] = stack[WasAt(b, pos, i)]
  BY <1>1, <1>3, <1>4, RotatedFacts DEF n
<1>12. \A i \in 1..Len(stack') : "WEAK" \notin rf_flags'[stack'[i]]
  BY <1>10, <1>11
<1>13. ASSUME NEW i \in 1..n, NEW j \in 1..n, i <= j, Chained(i, j)
       PROVE  \E i2, j2 \in 1..Len(stack') :
                /\ i2 <= j2 /\ stack'[i2] = stack[i] /\ stack'[j2] = stack[j]
                /\ \A k \in (i2 + 1)..j2 : "STRONG" \in rf_flags'[stack'[k]]
  <2>1. ~(b \in (i + 1)..j) /\ ~(pos \in (i + 1)..j)
    BY <1>2, <1>13 DEF Chained
  <2> DEFINE i2 == WentTo(b, pos, i)
             j2 == WentTo(b, pos, j)
  <2>2. /\ i2 \in 1..n /\ j2 \in 1..n /\ i2 <= j2
        /\ WasAt(b, pos, i2) = i /\ WasAt(b, pos, j2) = j
        /\ \A k \in (i2 + 1)..j2 : k \in 1..n /\ WasAt(b, pos, k) \in (i + 1)..j
    BY <1>1, <1>4, <1>13, <2>1, ChainRotated DEF n
  <2> HIDE DEF i2, j2
  <2>3. stack'[i2] = stack[i] /\ stack'[j2] = stack[j]
    BY <1>11, <2>2
  <2>4. ASSUME NEW k \in (i2 + 1)..j2
        PROVE  "STRONG" \in rf_flags'[stack'[k]]
    <3>1. stack'[k] = stack[WasAt(b, pos, k)] /\ WasAt(b, pos, k) \in 1..n
      BY <1>11, <2>2
    <3>2. "STRONG" \in rf_flags[stack[WasAt(b, pos, k)]]
      BY <1>13, <2>2 DEF Chained
    <3> QED  BY <1>10, <3>1, <3>2
  <2> QED  BY <1>11, <2>2, <2>3, <2>4
<1>14. ASSUME strength = "strong"
       PROVE  \E i2, j2 \in 1..Len(stack') :
                /\ i2 <= j2 /\ stack'[i2] = Top /\ stack'[j2] = Root(t)
                /\ \A k \in (i2 + 1)..j2 : "STRONG" \in rf_flags'[stack'[k]]
  <2> DEFINE i2 == WentTo(b, pos, n)
             j2 == WentTo(b, pos, q)
  <2>1. /\ i2 \in 1..n /\ j2 \in 1..n /\ i2 <= j2
        /\ WasAt(b, pos, i2) = n /\ WasAt(b, pos, j2) = q
        /\ \A k \in (i2 + 1)..j2 : k \in 1..n /\ WasAt(b, pos, k) \in b..q
    BY <1>1, <1>4, ChainJoined DEF n
  <2> HIDE DEF i2, j2
  <2>2. stack'[i2] = Top /\ stack'[j2] = Root(t)
    BY <1>1, <1>8, <1>11, <2>1
  <2>3. ASSUME NEW k \in (i2 + 1)..j2
        PROVE  "STRONG" \in rf_flags'[stack'[k]]
    <3>1. stack'[k] = stack[WasAt(b, pos, k)] /\ WasAt(b, pos, k) \in 1..n
      BY <1>11, <2>1
    <3>2. WasAt(b, pos, k) = b \/ WasAt(b, pos, k) \in (b + 1)..q
      BY <1>1, <1>2, <2>1
    <3>3. "STRONG" \in rf_flags'[stack[b]]
      BY <1>9, <1>14
    <3> QED  BY <1>2, <1>10, <3>1, <3>2, <3>3
  <2> QED  BY <1>11, <2>1, <2>2, <2>3
<1> QED  BY <1>12, <1>13, <1>14 DEF n

\* Without weak references: a link to a thing that has a frame or is on a cycle
\* piece list cuts no chain, and a strong one brings the parent behind its child.
LEMMA CyclicRefChild ==
  ASSUME GcInv, ChildInv, TreeOK, OfStrength({"weak"}) = {},
         NEW t \in Things, t \in Range(stack) \/ OnPieceList(t),
         NEW strength, strength # "weak",
         stack # <<>>, t # Top,
         strength = "strong" => t \in link_top[Top] /\ refs[<<Top, t>>] = "strong",
         cyclic_ref(t, strength)
  PROVE  /\ \A i \in 1..Len(stack') : "WEAK" \notin rf_flags'[stack'[i]]
         /\ \A i, j \in 1..Len(stack) : i <= j /\ Chained(i, j) =>
              \E i2, j2 \in 1..Len(stack') :
                /\ i2 <= j2 /\ stack'[i2] = stack[i] /\ stack'[j2] = stack[j]
                /\ \A k \in (i2 + 1)..j2 : "STRONG" \in rf_flags'[stack'[k]]
         /\ strength = "strong" =>
              \E i2, j2 \in 1..Len(stack') :
                /\ i2 <= j2 /\ stack'[i2] = Top /\ stack'[j2] = Root(t)
                /\ \A k \in (i2 + 1)..j2 : "STRONG" \in rf_flags'[stack'[k]]
<1> DEFINE q == Position(Root(t))
           n == Len(stack)
           above == {i \in DOMAIN stack : i > q}
           Flagged(flag) == {i \in above : flag \in rf_flags[stack[i]]}
           nonstrong == {i \in above \ Flagged("STRONG") : strength = "strong"}
<1>1. StackInv /\ GcTypes /\ LinkInv /\ PieceInv
  BY TypesOfStack DEF GcInv, StackInv
<1>2. /\ q \in 1..n /\ stack[q] = Root(t)
      /\ n \in Nat /\ DOMAIN stack = 1..n /\ stack \in Seq(Things) /\ Top = stack[n]
  BY <1>1, RootFacts, PositionFacts DEF StackInv, StackTypes, Top
<1>3. \A i \in 1..n : "WEAK" \notin rf_flags[stack[i]]
  BY DEF ChildInv
<1>4. Flagged("WEAK") = {}
  BY <1>2, <1>3
<1>5. ASSUME NEW S, S \subseteq above, S # {}
      PROVE  Highest(S) \in S /\ Highest(S) \in 1..n /\ Highest(S) > q
  <2>1. S \subseteq 1..n
    BY <1>2, <1>5
  <2>2. Highest(S) \in S
    BY <1>2, <1>5, <2>1, HighestNumber
  <2> QED  BY <1>5, <2>1, <2>2
<1>6. ASSUME strength = "strong"
      PROVE  nonstrong # {}
  <2>1. \A i \in 1..n : Chained(i, n) =>
          piece[stack[i]] = <<>> /\ (i < n => <<stack[i], Top>> \in Paths(OfStrength({"strong"})))
    BY <1>6 DEF ChildInv
  <2>2. ~Chained(q, n)
    <3> SUFFICES ASSUME Chained(q, n)
                 PROVE  FALSE
      OBVIOUS
    <3>1. Range(piece[Root(t)]) = {} /\ (q < n => <<Root(t), Top>> \in Paths(OfStrength({"strong"})))
      BY <1>2, <2>1, EmptyRange
    <3>2. t = Root(t)
      BY <3>1 DEF Root, OnPieceList
    <3>3. q < n
      BY <1>2, <3>2
    <3>4. Top \in Things /\ <<Top, t>> \in OfStrength({"strong"})
      <4>1. t \in Links(Top) /\ Top \in Things
        BY <1>1, <1>6, TopFacts DEF LinkInv, StackInv
      <4> QED  BY <1>6, <4>1 DEF Links, OfStrength
    <3>5. OfStrength({"strong"}) \subseteq Things \X Things
      BY <1>1 DEF OfStrength, GcTypes, Pairs
    <3>6. <<t, t>> \in Paths(OfStrength({"strong"}))
      BY <3>1, <3>2, <3>3, <3>4, <3>5, PathsJoin
    <3> QED  BY <3>6 DEF TreeOK
  <2>3. PICK k \in (q + 1)..n : "STRONG" \notin rf_flags[stack[k]]
    BY <2>2 DEF Chained
  <2>4. k \in 1..n /\ k > q
    BY <1>2
  <2>5. k \in nonstrong
    BY <1>2, <1>6, <2>3, <2>4
  <2> QED  BY <2>5
<1>7. CASE UNCHANGED <<stack, rf_flags>> /\ strength # "strong"
  BY <1>2, <1>3, <1>7 DEF Chained
<1>8. CASE Flagged("BROKEN") # {} /\ break_at(t, strength, Highest(Flagged("BROKEN")))
  <2>1. /\ Highest(Flagged("BROKEN")) \in Flagged("BROKEN")
        /\ Highest(Flagged("BROKEN")) \in 1..n /\ Highest(Flagged("BROKEN")) > q
    BY <1>5, <1>8
  <2>2. "BROKEN" \in rf_flags[stack[Highest(Flagged("BROKEN"))]]
    BY <2>1
  <2>3. "STRONG" \notin rf_flags[stack[Highest(Flagged("BROKEN"))]]
    BY <1>1, <2>1, <2>2 DEF StackInv, OrderInv
  <2> QED  BY <1>1, <1>3, <1>8, <2>1, <2>3, BreakAtChain
<1>9. CASE nonstrong # {} /\ break_at(t, strength, Highest(nonstrong))
  <2>1. /\ Highest(nonstrong) \in nonstrong
        /\ Highest(nonstrong) \in 1..n /\ Highest(nonstrong) > q
    BY <1>5, <1>9
  <2>2. "STRONG" \notin rf_flags[stack[Highest(nonstrong)]]
    BY <2>1
  <2> QED  BY <1>1, <1>3, <1>9, <2>1, <2>2, BreakAtChain
<1>10. \/ Flagged("BROKEN") # {} /\ break_at(t, strength, Highest(Flagged("BROKEN")))
       \/ nonstrong # {} /\ break_at(t, strength, Highest(nonstrong))
       \/ nonstrong = {} /\ mark_cycle(t)
  BY <1>4 DEF cyclic_ref
<1>11. CASE nonstrong = {} /\ mark_cycle(t)
  <2>1. UNCHANGED <<stack, rf_flags>> /\ strength # "strong"
    BY <1>6, <1>11 DEF mark_cycle
  <2> QED  BY <1>7, <2>1
<1> QED  BY <1>8, <1>9, <1>10, <1>11

\* The stack and its frames are as before.
LEMMA ChildSame ==
  ASSUME ChildInv, UNCHANGED <<heap, checked, frames>>
  PROVE  ChildInv'
<1>1. /\ stack' = stack /\ rf_flags' = rf_flags /\ piece' = piece /\ link_top' = link_top
      /\ checked' = checked /\ refs' = refs
  BY DEF heap, frames, order
<1>2. /\ \A S : OfStrength(S)' = OfStrength(S)
      /\ Gone' = Gone /\ Top' = Top
  BY <1>1, GoneSame, HeapOrder DEF Top
<1>3. \A c, p : Together(c, p)' <=> Together(c, p)
  BY <1>1 DEF Together, At, Chained, InOrder
<1>4. \A i, j : Chained(i, j)' <=> Chained(i, j)
  BY <1>1 DEF Chained
<1> QED  BY <1>1, <1>2, <1>3, <1>4 DEF ChildInv

\* A new frame is behind its child, or begins a chain.
LEMMA PushFrameChild ==
  ASSUME GcInv, ChildInv, NEW t \in Things, NEW strength, NEW from,
         LinkStep(t, strength, from), push_frame(t, strength, from)
  PROVE  ChildInv'
<1> DEFINE n == Len(stack)
           F == CASE strength = "weak" -> {"WEAK"} [] strength = "strong" -> {"STRONG"} [] OTHER -> {}
           E == OfStrength({"strong"})
<1>1. /\ UNCHANGED heap /\ refs' = refs /\ Gone' = Gone
      /\ \A S : OfStrength(S)' = OfStrength(S)
  BY PushFrameStep, HeapOrder DEF LinkStep
<1> SUFFICES ASSUME OfStrength({"weak"}) = {}
             PROVE  ChildInv'
  BY <1>1 DEF ChildInv
<1>2. /\ t \notin checked
      /\ checked' = checked \cup {t}
      /\ stack' = Append(stack, t)
      /\ link_top' = [u \in Things |-> IF u = t THEN Links(t)
                                       ELSE IF u \in from THEN link_top[u] \ {t} ELSE link_top[u]]
      /\ rf_flags' = [rf_flags EXCEPT ![t] = F]
      /\ piece' = [piece EXCEPT ![t] = <<>>]
  BY DEF push_frame
<1>3. GcTypes /\ StackInv /\ StackTypes /\ LinkInv /\ PieceInv
  BY TypesOfStack DEF GcInv, StackInv
<1>4. /\ n \in Nat /\ stack \in Seq(Things) /\ DOMAIN stack = 1..n
      /\ Range(stack) \subseteq checked
      /\ \A i \in 1..n : stack[i] \in Range(stack) /\ stack[i] \in Things
  BY <1>3 DEF StackTypes, PieceInv, Range
<1>5. /\ Len(stack') = n + 1 /\ stack'[n + 1] = t /\ stack' # <<>> /\ Top' = t
      /\ \A i \in 1..n : stack'[i] = stack[i] /\ i \in 1..(n + 1)
      /\ Range(stack) \subseteq Range(stack')
  <2>1. /\ Len(stack') = n + 1 /\ stack'[n + 1] = t /\ stack' # <<>>
        /\ \A i \in 1..n : stack'[i] = stack[i] /\ i \in 1..(n + 1)
    BY <1>2, <1>4
  <2>2. Range(stack') = Range(stack) \cup {t}
    BY <1>2, <1>4, AppendRange
  <2> QED  BY <2>1, <2>2 DEF Top
<1>6. /\ \A x \in Things : piece'[x] = IF x = t THEN <<>> ELSE piece[x]
      /\ \A x \in Things : rf_flags'[x] = IF x = t THEN F ELSE rf_flags[x]
  BY <1>2, <1>3 DEF GcTypes
<1>7. \A x \in Range(stack) : piece'[x] = piece[x] /\ rf_flags'[x] = rf_flags[x] /\ x # t
  <2>1. \A x \in Range(stack) : x \in Things /\ x # t
    BY <1>2, <1>3, <1>4 DEF GcTypes
  <2> QED  BY <1>6, <2>1
<1>8. \/ from = {} /\ strength = "normal"
      \/ /\ from = {Top} /\ stack # <<>> /\ Top \in Range(stack) /\ Top \in Things
         /\ t \in link_top[Top] /\ <<Top, t>> \in DOMAIN refs /\ strength = refs[<<Top, t>>]
         /\ Top = stack[n] /\ n \in 1..n
  BY <1>3, <1>4, TopFacts DEF LinkStep, LinkFrom, LinkInv, Links, Top
<1>9. strength # "weak"
  BY <1>8 DEF OfStrength
<1>10. "WEAK" \notin F /\ ("STRONG" \in F <=> strength = "strong")
  BY <1>9
<1> HIDE DEF F
<1>11. \A i \in 1..(n + 1) : i \in 1..n \/ i = n + 1
  BY <1>4
<1>12. \A i \in 1..Len(stack') : "WEAK" \notin rf_flags'[stack'[i]]
  <2>1. \A i \in 1..n : "WEAK" \notin rf_flags[stack[i]]
    BY DEF ChildInv
  <2> QED  BY <1>4, <1>5, <1>6, <1>7, <1>10, <1>11, <2>1
<1>13. \A i, j \in 1..n : i <= j /\ Chained(i, j) =>
         \E i2, j2 \in 1..Len(stack') :
           /\ i2 <= j2 /\ stack'[i2] = stack[i] /\ stack'[j2] = stack[j]
           /\ \A k \in (i2 + 1)..j2 : "STRONG" \in rf_flags'[stack'[k]]
  <2> SUFFICES ASSUME NEW i \in 1..n, NEW j \in 1..n, i <= j, Chained(i, j)
               PROVE  /\ i \in 1..Len(stack') /\ j \in 1..Len(stack')
                      /\ i <= j /\ stack'[i] = stack[i] /\ stack'[j] = stack[j]
                      /\ \A k \in (i + 1)..j : "STRONG" \in rf_flags'[stack'[k]]
    OBVIOUS
  <2>1. \A k \in (i + 1)..j : k \in 1..n
    BY <1>4
  <2>2. \A k \in (i + 1)..j : "STRONG" \in rf_flags'[stack'[k]]
    BY <1>4, <1>5, <1>7, <2>1 DEF Chained
  <2> QED  BY <1>5, <2>2
<1>14. ASSUME NEW c \in Things, NEW p \in Things, <<c, p>> \in E, c \in checked', p \notin link_top'[c]
       PROVE  c \in Gone \/ p \in Gone \/ Together(c, p)'
  <2>1. c # t
    BY <1>2, <1>14 DEF Links, OfStrength
  <2>2. c \in checked /\ link_top'[c] = IF c \in from THEN link_top[c] \ {t} ELSE link_top[c]
    BY <1>2, <1>14, <2>1
  <2>3. CASE p \notin link_top[c]
    <3>1. c \in Gone \/ p \in Gone \/ Together(c, p)
      BY <1>14, <2>2, <2>3 DEF ChildInv
    <3>2. ASSUME Together(c, p)
          PROVE  Together(c, p)'
      BY <1>4, <1>5, <1>7, <1>13, <3>2, TogetherKept
    <3> QED  BY <3>1, <3>2
  <2>4. CASE p \in link_top[c]
    <3>1. c \in from /\ p = t
      BY <1>14, <2>2, <2>4
    <3>2. c = stack[n] /\ n \in 1..n /\ strength = "strong"
      BY <1>8, <1>14, <3>1 DEF OfStrength
    <3>3. n \in 1..Len(stack') /\ n + 1 \in 1..Len(stack') /\ n <= n + 1
      BY <1>4, <1>5, <3>2
    <3>4. \A k \in (n + 1)..(n + 1) : "STRONG" \in rf_flags'[stack'[k]]
      BY <1>4, <1>5, <1>6, <1>10, <3>2
    <3>5. stack'[n] = c /\ stack'[n + 1] = p
      BY <1>5, <3>1, <3>2
    <3> QED  BY <3>3, <3>4, <3>5 DEF Together, At, Chained
  <2> QED  BY <2>3, <2>4
<1>15. ASSUME NEW i \in 1..(n + 1), \A k \in (i + 1)..(n + 1) : "STRONG" \in rf_flags'[stack'[k]]
       PROVE  /\ piece'[stack'[i]] = <<>>
              /\ i < n + 1 => <<stack'[i], t>> \in Paths(E)
  <2>1. CASE i = n + 1
    BY <1>4, <1>5, <1>6, <2>1
  <2>2. CASE i \in 1..n
    <3>1. n + 1 \in (i + 1)..(n + 1)
      BY <1>4, <2>2
    <3>2. strength = "strong"
      BY <1>5, <1>6, <1>10, <1>15, <3>1
    <3>3. /\ stack # <<>> /\ t \in link_top[Top] /\ refs[<<Top, t>>] = "strong"
          /\ Top = stack[n] /\ n \in 1..n /\ Top \in Things /\ <<Top, t>> \in E
      BY <1>8, <3>2 DEF OfStrength
    <3>4. Chained(i, n)
      <4>1. \A k \in (i + 1)..n : k \in 1..n /\ k \in (i + 1)..(n + 1)
        BY <1>4, <2>2
      <4> QED  BY <1>4, <1>5, <1>7, <1>15, <4>1 DEF Chained
    <3>5. piece[stack[i]] = <<>> /\ (i < n => <<stack[i], Top>> \in Paths(E))
      BY <2>2, <3>3, <3>4 DEF ChildInv
    <3>6. E \subseteq Things \X Things
      BY <1>3 DEF OfStrength, GcTypes, Pairs
    <3>7. <<stack[i], t>> \in Paths(E)
      <4>1. E \subseteq Paths(E)
        BY <3>6, PathsJoin
      <4>2. CASE i = n
        BY <3>3, <4>1, <4>2
      <4>3. CASE i # n
        <5>1. i < n
          BY <2>2, <4>3
        <5>2. stack[i] \in Things
          BY <1>4, <2>2
        <5> HIDE DEF E
        <5> QED  BY <3>3, <3>5, <3>6, <4>1, <5>1, <5>2, PathsJoin
      <4> QED  BY <4>2, <4>3
    <3> QED  BY <1>4, <1>5, <1>7, <2>2, <3>5, <3>7
  <2> QED  BY <1>11, <2>1, <2>2
<1>16. ASSUME NEW i \in 1..Len(stack'), Chained(i, Len(stack))'
       PROVE  /\ piece'[stack'[i]] = <<>>
              /\ i < Len(stack') => <<stack'[i], Top'>> \in Paths(E)
  BY <1>5, <1>15, <1>16 DEF Chained
<1> QED  BY <1>1, <1>12, <1>14, <1>16 DEF ChildInv

\* A link to a visited thing.
LEMMA PushVisitedChild ==
  ASSUME GcInv, ChildInv, TreeOK, NEW t \in Things, NEW strength, NEW from,
         LinkStep(t, strength, from), push_visited(t, strength, from), push_live(t, from)
  PROVE  ChildInv' /\ Gone' = Gone
<1> DEFINE E == OfStrength({"strong"})
<1>1. /\ UNCHANGED heap /\ refs' = refs
      /\ \A S : OfStrength(S)' = OfStrength(S)
  BY HeapOrder DEF LinkStep
<1>2. /\ t \in checked
      /\ link_top' = [u \in Things |-> IF u \in from THEN link_top[u] \ {t} ELSE link_top[u]]
      /\ checked' = checked /\ piece' = piece
  BY DEF push_visited
<1>3. GcTypes /\ StackInv /\ StackTypes /\ LinkInv /\ PieceInv
  BY TypesOfStack DEF GcInv, StackInv
<1>4. StackInv' /\ Range(stack') = Range(stack)
  <2>1. CASE (t \in Range(stack) \/ OnPieceList(t)) /\ cyclic_ref(t, strength)
    BY <1>3, <2>1, CyclicRefOrder DEF StackInv
  <2>2. CASE UNCHANGED order
    BY <1>3, <2>2 DEF StackInv, StackTypes, order
  <2> QED  BY <2>1, <2>2 DEF push_visited
<1>5. Gone' = Gone
  BY <1>2, <1>4, GoneSame
<1> SUFFICES ASSUME OfStrength({"weak"}) = {}
             PROVE  ChildInv'
  BY <1>1, <1>5 DEF ChildInv
<1>6. \/ from = {} /\ strength = "normal" /\ stack = <<>>
      \/ /\ from = {Top} /\ stack # <<>> /\ Top \in Range(stack) /\ Top \in Things
         /\ t \in link_top[Top] /\ <<Top, t>> \in DOMAIN refs /\ strength = refs[<<Top, t>>]
  BY <1>3, TopFacts DEF LinkStep, LinkFrom, LinkInv, Links, Top
<1>7. strength # "weak"
  BY <1>6 DEF OfStrength
<1>8. \A i \in 1..Len(stack) : "WEAK" \notin rf_flags[stack[i]]
  BY DEF ChildInv
<1>9. Len(stack) \in Nat /\ stack \in Seq(Things)
  BY <1>3 DEF StackTypes
<1> DEFINE Weakless == \A i \in 1..Len(stack') : "WEAK" \notin rf_flags'[stack'[i]]
           Chains == \A i, j \in 1..Len(stack) : i <= j /\ Chained(i, j) =>
                       \E i2, j2 \in 1..Len(stack') :
                         /\ i2 <= j2 /\ stack'[i2] = stack[i] /\ stack'[j2] = stack[j]
                         /\ \A k \in (i2 + 1)..j2 : "STRONG" \in rf_flags'[stack'[k]]
           Chained2 == \E i2, j2 \in 1..Len(stack') :
                         /\ i2 <= j2 /\ stack'[i2] = Top /\ stack'[j2] = Root(t)
                         /\ \A k \in (i2 + 1)..j2 : "STRONG" \in rf_flags'[stack'[k]]
           Located == t \in Range(stack) \/ OnPieceList(t)
<1>10. Weakless /\ Chains /\ (strength = "strong" => t \in Gone \/ (Located /\ Chained2))
  <2>1. CASE Located /\ cyclic_ref(t, strength)
    <3>1. stack # <<>>
      BY <2>1, EmptyRange DEF OnPieceList
    <3>2. t # Top /\ t \in link_top[Top] /\ strength = refs[<<Top, t>>]
      BY <1>3, <1>6, <3>1 DEF GcTypes, Pairs
    <3>3. strength = "strong" => t \in link_top[Top] /\ refs[<<Top, t>>] = "strong"
      BY <3>2
    <3> QED  BY <1>7, <2>1, <3>1, <3>2, <3>3, CyclicRefChild
  <2>2. CASE ~Located /\ UNCHANGED order
    <3>1. stack' = stack /\ rf_flags' = rf_flags
      BY <2>2 DEF order
    <3>2. t \in Gone
      BY <1>2, <2>2 DEF Gone
    <3> QED  BY <1>8, <1>9, <3>1, <3>2 DEF Chained
  <2> QED  BY <2>1, <2>2 DEF push_visited
<1>11. ASSUME NEW c \in Things, NEW p \in Things, <<c, p>> \in E, c \in checked', p \notin link_top'[c]
       PROVE  c \in Gone \/ p \in Gone \/ Together(c, p)'
  <2>1. link_top'[c] = IF c \in from THEN link_top[c] \ {t} ELSE link_top[c]
    BY <1>2
  <2>2. CASE p \notin link_top[c]
    <3>1. c \in Gone \/ p \in Gone \/ Together(c, p)
      BY <1>2, <1>11, <2>2 DEF ChildInv
    <3>2. ASSUME Together(c, p)
          PROVE  Together(c, p)'
      <4>1. Range(stack) \subseteq Range(stack') /\ \A x \in Range(stack) : piece'[x] = piece[x]
        BY <1>2, <1>4
      <4> QED  BY <1>9, <1>10, <3>2, <4>1, TogetherKept
    <3> QED  BY <3>1, <3>2
  <2>3. CASE p \in link_top[c]
    <3>1. c \in from /\ p = t
      BY <1>11, <2>1, <2>3
    <3>2. c = Top /\ strength = "strong"
      BY <1>6, <1>11, <3>1 DEF OfStrength
    <3>3. CASE t \in Gone
      BY <3>1, <3>3
    <3>4. CASE Located /\ Chained2
      <4>1. p = Root(t) \/ p \in Range(piece'[Root(t)])
        BY <1>2, <3>1, <3>4 DEF Root, OnPieceList
      <4>2. PICK i2, j2 \in 1..Len(stack') :
              /\ i2 <= j2 /\ stack'[i2] = Top /\ stack'[j2] = Root(t)
              /\ \A k \in (i2 + 1)..j2 : "STRONG" \in rf_flags'[stack'[k]]
        BY <3>4
      <4>3. /\ i2 <= j2 /\ stack'[i2] = c /\ (p = stack'[j2] \/ p \in Range(piece'[stack'[j2]]))
            /\ \A k \in (i2 + 1)..j2 : "STRONG" \in rf_flags'[stack'[k]]
        BY <3>2, <4>1, <4>2
      <4> QED  BY <4>3 DEF Together, At, Chained
    <3> QED  BY <1>10, <3>2, <3>3, <3>4
  <2> QED  BY <2>2, <2>3
<1>12. ASSUME NEW u \in Things, stack' # <<>>, u \in link_top'[Top'], refs[<<Top', u>>] = "strong"
       PROVE  FALSE
  <2>1. Top' \in Range(stack') /\ Top' \in Things
    <3>1. StackTypes'
      BY <1>4 DEF StackInv
    <3>2. Len(stack') \in 1..Len(stack') /\ stack' \in Seq(Things)
      BY <1>12, <3>1 DEF StackTypes
    <3> QED  BY <3>2 DEF Top, Range
  <2> DEFINE x == Top'
  <2>2. x \in Range(stack) /\ x \in Things /\ u \in link_top'[x] /\ refs[<<x, u>>] = "strong"
    BY <1>4, <1>12, <2>1
  <2> HIDE DEF x
  <2>3. u \in link_top[x] /\ ~(x \in from /\ u = t)
    BY <1>2, <2>2
  <2> QED  BY <1>3, <2>2, <2>3, StrongFollowed
<1> HIDE DEF Chains, Chained2, Located
<1>13. Weakless
  BY <1>10
<1> QED  BY <1>1, <1>5, <1>11, <1>12, <1>13 DEF ChildInv

\* The stack without its top, place by place.
LEMMA PoppedPlaces ==
  ASSUME GcInv, Popped
  PROVE  /\ Len(stack) \in Nat /\ Len(stack) >= 1 /\ stack \in Seq(Things)
         /\ Len(stack') = Len(stack) - 1 /\ Top = stack[Len(stack)]
         /\ \A i \in 1..(Len(stack) - 1) : stack'[i] = stack[i]
         /\ \A i, j \in 1..Len(stack) : stack[i] = stack[j] => i = j
         /\ \A i \in 1..Len(stack) : stack[i] \in Things /\ stack[i] \in Range(stack)
         /\ Range(stack') = Range(stack) \ {Top}
<1>1. StackInv /\ stack \in Seq(Things) /\ stack # <<>> /\ DOMAIN stack = 1..Len(stack)
  BY TypesOfStack DEF GcInv, StackInv, StackTypes, Popped
<1>2. stack' = SubSeq(stack, 1, Len(stack) - 1)
  BY DEF Popped
<1>3. /\ Len(stack) \in Nat /\ Len(stack) >= 1
      /\ Len(stack') = Len(stack) - 1
      /\ \A i \in 1..(Len(stack) - 1) : stack'[i] = stack[i]
  BY <1>1, <1>2, ButLastFacts
<1>4. \A i, j \in 1..Len(stack) : stack[i] = stack[j] => i = j
  BY <1>1 DEF StackInv, OrderInv, IsInjective
<1>5. \A i \in 1..Len(stack) : stack[i] \in Things /\ stack[i] \in Range(stack)
  BY <1>1 DEF Range
<1> QED  BY <1>1, <1>3, <1>4, <1>5, PoppedFacts DEF Top

\* What happens to the cycle piece lists when a frame goes to one.
LEMMA PopPieceFacts ==
  ASSUME GcInv, pop_piece, NEW before, before = stack[Len(stack) - 1]
  PROVE  /\ Len(stack) - 1 \in 1..Len(stack) /\ before \in Range(stack') /\ before \in Things
         /\ before # Top
         /\ \E k \in 1..(Len(stack) - 1) : CycleFrom(stack, cycle_id, k, Len(stack))
         /\ <<Top>> \o piece[Top] \in Seq(Things) /\ piece[before] \in Seq(Things)
         /\ Range(<<Top>> \o piece[Top]) = {Top} \cup Range(piece[Top])
         /\ piece'[before] = (<<Top>> \o piece[Top]) \o piece[before]
         /\ Range(piece'[before]) = {Top} \cup Range(piece[Top]) \cup Range(piece[before])
         /\ \A x \in Things : x # before /\ x # Top => piece'[x] = piece[x]
<1> DEFINE n == Len(stack)
           list == <<Top>> \o piece[Top]
<1>1. /\ Popped /\ cycle_id[Top] # Top
      /\ piece' = [piece EXCEPT ![before] = list \o @, ![Top] = <<>>]
  BY DEF pop_piece
<1>2. GcTypes /\ StackInv /\ piece \in [Things -> Seq(Things)]
  BY TypesOfStack DEF GcInv, StackInv, GcTypes
<1>3. /\ n \in Nat /\ n >= 1 /\ Top = stack[n]
      /\ \A i, j \in 1..n : stack[i] = stack[j] => i = j
      /\ \A i \in 1..n : stack[i] \in Things /\ stack[i] \in Range(stack)
      /\ Range(stack') = Range(stack) \ {Top}
  BY <1>1, PoppedPlaces
<1>4. PICK k \in 1..n : CycleFrom(stack, cycle_id, k, n)
  <2>1. n \in 1..n
    BY <1>3
  <2> QED  BY <1>2, <2>1 DEF StackInv, OrderInv
<1>5. k # n
  BY <1>1, <1>3, <1>4 DEF CycleFrom
<1>6. n - 1 \in 1..n /\ n - 1 # n /\ k \in 1..(n - 1) /\ n \in 1..n
  <2>1. \A m \in Nat : \A j \in 1..m :
          j # m => m - 1 \in 1..m /\ m - 1 # m /\ j \in 1..(m - 1) /\ m \in 1..m
    OBVIOUS
  <2> QED  BY <1>3, <1>5, <2>1
<1>7. before \in Range(stack') /\ before \in Things /\ before # Top /\ Top \in Things
  BY <1>3, <1>6
<1>8. list \in Seq(Things) /\ Range(list) = {Top} \cup Range(piece[Top])
  BY <1>1, CycleOfTop
<1> HIDE DEF list
<1>9. piece[before] \in Seq(Things)
  BY <1>2, <1>7
<1>10. piece'[before] = list \o piece[before] /\ \A x \in Things : x # before /\ x # Top => piece'[x] = piece[x]
  BY <1>1, <1>2, <1>7
<1>11. Range(piece'[before]) = {Top} \cup Range(piece[Top]) \cup Range(piece[before])
  BY <1>8, <1>9, <1>10, ConcatRange
<1> QED  BY <1>4, <1>6, <1>7, <1>8, <1>9, <1>10, <1>11 DEF list

\* No strong link is left when a frame has been popped.
LEMMA PoppedStrong ==
  ASSUME GcInv, Popped, UNCHANGED <<heap, link_top>>, NEW u \in Things,
         stack' # <<>>, u \in link_top'[Top'], refs'[<<Top', u>>] = "strong"
  PROVE  FALSE
<1>1. refs' = refs /\ link_top' = link_top /\ LinkInv
  BY DEF heap, GcInv
<1>2. /\ Len(stack) \in Nat /\ Len(stack) >= 1 /\ Len(stack') = Len(stack) - 1
      /\ stack \in Seq(Things) /\ Range(stack') = Range(stack) \ {Top}
      /\ stack' = SubSeq(stack, 1, Len(stack) - 1)
  BY PoppedPlaces DEF Popped
<1>3. Len(stack') \in 1..Len(stack') /\ stack' \in Seq(Things)
  BY <1>2
<1>4. Top' \in Range(stack')
  BY <1>3 DEF Top, Range
<1> DEFINE x == Top'
<1>5. x \in Range(stack) /\ x # Top /\ u \in link_top[x] /\ refs[<<x, u>>] = "strong"
  BY <1>1, <1>2, <1>4
<1> HIDE DEF x
<1> QED  BY <1>1, <1>5 DEF LinkInv

\* A frame goes to the cycle piece list of the one before it.
LEMMA PopPieceChild ==
  ASSUME GcInv, ChildInv, pop_piece
  PROVE  ChildInv'
<1> DEFINE n == Len(stack)
           E == OfStrength({"strong"})
           before == stack[n - 1]
           list == <<Top>> \o piece[Top]
<1>1. /\ Popped /\ UNCHANGED <<heap, link_top>> /\ rf_flags' = rf_flags
      /\ checked' = checked /\ link_top' = link_top
  BY DEF pop_piece
<1>2. /\ Gone' = Gone /\ refs' = refs /\ \A S : OfStrength(S)' = OfStrength(S)
  BY <1>1, PopPieceStep, HeapOrder
<1> SUFFICES ASSUME OfStrength({"weak"}) = {}
             PROVE  ChildInv'
  BY <1>2 DEF ChildInv
<1>3. /\ n \in Nat /\ n >= 1 /\ Top = stack[n] /\ Len(stack') = n - 1
      /\ \A i \in 1..(n - 1) : stack'[i] = stack[i]
      /\ \A i, j \in 1..n : stack[i] = stack[j] => i = j
      /\ \A i \in 1..n : stack[i] \in Things /\ stack[i] \in Range(stack)
      /\ Range(stack') = Range(stack) \ {Top}
  BY <1>1, PoppedPlaces
<1>4. /\ n - 1 \in 1..n /\ before \in Range(stack') /\ before \in Things
      /\ list \in Seq(Things) /\ piece[before] \in Seq(Things)
      /\ Range(list) = {Top} \cup Range(piece[Top])
      /\ piece'[before] = list \o piece[before]
      /\ Range(piece'[before]) = {Top} \cup Range(piece[Top]) \cup Range(piece[before])
      /\ \A x \in Things : x # before /\ x # Top => piece'[x] = piece[x]
  BY PopPieceFacts
<1>5. Range(stack) \subseteq Things /\ piece[Top] \in Seq(Things) /\ Top \in Things
  <2>1. Top \in Things /\ Range(stack) \subseteq Things /\ piece \in [Things -> Seq(Things)]
    BY <1>1, TypesOfStack, PoppedFacts DEF GcInv, StackInv, GcTypes
  <2> QED  BY <2>1
<1>6. /\ \A i \in 1..(n - 1) : i \in 1..n /\ i # n
      /\ \A i \in 1..n : i \in 1..(n - 1) \/ i = n
      /\ n - 1 \in 1..(n - 1)
  BY <1>3, <1>4
<1>7. \A c, p : InOrder(piece[Top], c, p) \/ InOrder(piece[before], c, p) => InOrder(piece'[before], c, p)
  <2>1. <<Top>> \in Seq(Things)
    BY <1>5
  <2>2. \A c, p : InOrder(piece[Top], c, p) => InOrder(list, c, p)
    BY <1>5, <2>1, InOrderConcat
  <2> HIDE DEF list, before
  <2> QED  BY <1>4, <2>2, InOrderConcat
<1>8. \A p \in Range(piece[Top]) : InOrder(piece'[before], Top, p)
  <2>1. <<Top>> \in Seq(Things) /\ Top \in Range(<<Top>>)
    BY <1>5 DEF Range
  <2>2. \A p \in Range(piece[Top]) : InOrder(list, Top, p)
    BY <1>5, <2>1, InOrderConcat
  <2> HIDE DEF list, before
  <2> QED  BY <1>4, <2>2, InOrderConcat
<1>9. \A i \in 1..(n - 1) : Range(piece[stack[i]]) \subseteq Range(piece'[stack[i]])
  <2> SUFFICES ASSUME NEW i \in 1..(n - 1)
               PROVE  Range(piece[stack[i]]) \subseteq Range(piece'[stack[i]])
    OBVIOUS
  <2>1. stack[i] \in Things /\ stack[i] # Top
    BY <1>3, <1>4, <1>6
  <2> QED  BY <1>4, <2>1
<1> HIDE DEF list, n
<1>10. ASSUME NEW c \in Things, NEW p \in Things, c # p, Together(c, p)
       PROVE  Together(c, p)'
  <2>1. CASE \E u \in Range(stack) : InOrder(piece[u], c, p)
    <3>1. PICK u \in Range(stack) : InOrder(piece[u], c, p)
      BY <2>1
    <3>2. CASE u = Top \/ u = before
      <4>1. InOrder(piece'[before], c, p)
        BY <1>7, <3>1, <3>2
      <4> QED  BY <1>4, <4>1 DEF Together, InOrder
    <3>3. CASE u # Top /\ u # before
      <4>1. u \in Range(stack') /\ InOrder(piece'[u], c, p)
        BY <1>3, <1>4, <1>5, <3>1, <3>3
      <4> QED  BY <4>1 DEF Together, InOrder
    <3> QED  BY <3>2, <3>3
  <2>2. CASE \E i, j \in 1..n : i <= j /\ stack[i] = c /\ At(j, p) /\ Chained(i, j)
    <3>1. PICK i, j \in 1..n : i <= j /\ stack[i] = c /\ At(j, p) /\ Chained(i, j)
      BY <2>2
    <3>2. CASE i = n
      <4>1. j = n
        BY <1>3, <3>1, <3>2
      <4>2. c = Top /\ p \in Range(piece[Top])
        BY <1>3, <1>10, <3>1, <3>2, <4>1 DEF At
      <4>3. InOrder(piece'[before], c, p)
        BY <1>8, <4>2
      <4> QED  BY <1>4, <4>3 DEF Together, InOrder
    <3>3. CASE i # n
      <4>1. i \in 1..(n - 1) /\ i \in 1..Len(stack') /\ stack'[i] = c
        BY <1>3, <1>6, <3>1, <3>3
      <4>2. PICK j2 \in 1..(n - 1) : /\ i <= j2 /\ j2 <= j
                                     /\ p = stack[j2] \/ p \in Range(piece'[stack[j2]])
        <5>1. CASE j = n
          <6>1. i <= n - 1 /\ n - 1 <= j
            BY <1>3, <4>1, <5>1
          <6>2. p \in Range(piece'[before])
            BY <1>3, <1>4, <3>1, <5>1 DEF At
          <6> QED  BY <1>6, <6>1, <6>2
        <5>2. CASE j \in 1..(n - 1)
          BY <1>3, <1>9, <3>1, <5>2 DEF At
        <5> QED  BY <1>6, <5>1, <5>2
      <4>3. ASSUME NEW k \in (i + 1)..j2
            PROVE  "STRONG" \in rf_flags'[stack'[k]]
        <5>1. k \in 1..(n - 1) /\ k \in (i + 1)..j
          BY <1>3, <4>1, <4>2
        <5> QED  BY <1>1, <1>3, <3>1, <5>1 DEF Chained
      <4>4. /\ j2 \in 1..Len(stack') /\ i <= j2
            /\ p = stack'[j2] \/ p \in Range(piece'[stack'[j2]])
        BY <1>3, <4>2
      <4> QED  BY <4>1, <4>3, <4>4 DEF Together, At, Chained
    <3> QED  BY <3>2, <3>3
  <2> QED  BY <1>10, <2>1, <2>2 DEF Together, n
<1>11. \A i \in 1..Len(stack') : "WEAK" \notin rf_flags'[stack'[i]]
  <2>1. \A i \in 1..n : "WEAK" \notin rf_flags[stack[i]]
    BY DEF ChildInv, n
  <2> QED  BY <1>1, <1>3, <1>6, <2>1
<1>12. ASSUME NEW c \in Things, NEW p \in Things, <<c, p>> \in E, c \in checked, p \notin link_top[c]
       PROVE  c \in Gone \/ p \in Gone \/ Together(c, p)'
  <2>1. c # p
    BY <1>12 DEF OfStrength, GcInv, GcTypes, Pairs
  <2>2. c \in Gone \/ p \in Gone \/ Together(c, p)
    BY <1>12 DEF ChildInv
  <2> QED  BY <1>10, <2>1, <2>2
<1>13. \A u \in Things : ~(stack' # <<>> /\ u \in link_top'[Top'] /\ refs'[<<Top', u>>] = "strong")
  BY <1>1, PoppedStrong
<1> QED  BY <1>1, <1>2, <1>11, <1>12, <1>13 DEF ChildInv

\* What is on the cycle of the thing on top has been followed, and is not gone.
LEMMA CycleFollowed ==
  ASSUME GcInv, Popped, NEW a \in {Top} \cup Range(piece[Top])
  PROVE  /\ a \in Things /\ a \in checked /\ link_top[a] = {} /\ a \notin Gone
         /\ a \in Range(stack) => a = Top
         /\ \A u \in Range(stack) : a \in Range(piece[u]) => u = Top
<1>1. GcTypes /\ StackInv /\ LinkInv /\ PieceInv
  BY TypesOfStack DEF GcInv, StackInv
<1>2. Top \in Range(stack) /\ Top \in Things /\ Range(stack) \subseteq Things
  BY <1>1, PoppedFacts
<1>3. Range(piece[Top]) \subseteq checked \ Range(stack) /\ checked \subseteq Things
  BY <1>1, <1>2 DEF PieceInv, GcTypes
<1>4. link_top[Top] = {} /\ Top \in checked
  BY <1>1, <1>2 DEF Popped, PieceInv
<1>5. a \notin Gone
  BY <1>2 DEF Gone, OnPieceList
<1>6. ASSUME NEW u \in Range(stack), a \in Range(piece[u])
      PROVE  u = Top
  <2>1. a # Top /\ u \in Things
    BY <1>1, <1>2, <1>6 DEF PieceInv
  <2> QED  BY <1>1, <1>2, <1>6, <2>1 DEF PieceInv
<1>7. link_top[a] = {}
  BY <1>1, <1>3, <1>4 DEF LinkInv
<1> QED  BY <1>3, <1>4, <1>5, <1>6, <1>7

\* A cycle goes: what is on it is together with what is on it, or with what is
\* gone, and a child is in front of its parent.
LEMMA PopCycleChild ==
  ASSUME GcInv, ChildInv, pop_cycle
  PROVE  /\ ChildInv'
         /\ OfStrength({"weak"}) = {} =>
              \A a, b \in Things :
                <<a, b>> \in OfStrength({"strong"}) /\ a \in Range(<<Top>> \o piece[Top]) =>
                  b \in Gone \/ InOrder(<<Top>> \o piece[Top], a, b)
<1> DEFINE n == Len(stack)
           E == OfStrength({"strong"})
           list == <<Top>> \o piece[Top]
<1>1. /\ Popped /\ UNCHANGED <<heap, link_top>> /\ rf_flags' = rf_flags
      /\ checked' = checked /\ link_top' = link_top
      /\ piece' = [piece EXCEPT ![Top] = <<>>]
  BY DEF pop_cycle
<1>2. /\ Gone' = Gone \cup {Top} \cup Range(piece[Top])
      /\ refs' = refs /\ \A S : OfStrength(S)' = OfStrength(S)
  BY <1>1, PopCycleStep, HeapOrder
<1> SUFFICES ASSUME OfStrength({"weak"}) = {}
             PROVE  /\ ChildInv'
                    /\ \A a, b \in Things : <<a, b>> \in E /\ a \in Range(list) =>
                         b \in Gone \/ InOrder(list, a, b)
  BY <1>2 DEF ChildInv
<1>3. /\ n \in Nat /\ n >= 1 /\ Top = stack[n] /\ Len(stack') = n - 1
      /\ \A i \in 1..(n - 1) : stack'[i] = stack[i]
      /\ \A i, j \in 1..n : stack[i] = stack[j] => i = j
      /\ \A i \in 1..n : stack[i] \in Things /\ stack[i] \in Range(stack)
      /\ Range(stack') = Range(stack) \ {Top}
  BY <1>1, PoppedPlaces
<1>4. /\ \A i \in 1..(n - 1) : i \in 1..n /\ i # n
      /\ \A i \in 1..n : i \in 1..(n - 1) \/ i = n
      /\ n \in 1..n
  BY <1>3
<1>5. /\ piece \in [Things -> Seq(Things)] /\ Range(stack) \subseteq Things /\ Top \in Things
      /\ \A c, p \in Things : <<c, p>> \in E => c # p
  BY <1>1, TypesOfStack, PoppedFacts DEF GcInv, StackInv, GcTypes, OfStrength, Pairs
<1>6. \A x \in Things : x # Top => piece'[x] = piece[x]
  BY <1>1, <1>5
<1>7. \A i \in 1..(n - 1) : piece'[stack[i]] = piece[stack[i]]
  BY <1>3, <1>4, <1>6
<1>8. /\ list \in Seq(Things) /\ Range(list) = {Top} \cup Range(piece[Top])
      /\ \A p \in Range(piece[Top]) : InOrder(list, Top, p)
      /\ \A c, p : InOrder(piece[Top], c, p) => InOrder(list, c, p)
  <2>1. <<Top>> \in Seq(Things) /\ Top \in Range(<<Top>>) /\ piece[Top] \in Seq(Things)
    BY <1>5 DEF Range
  <2>2. list \in Seq(Things) /\ Range(list) = {Top} \cup Range(piece[Top])
    BY <1>1, CycleOfTop
  <2> QED  BY <2>1, <2>2, InOrderConcat
<1> HIDE DEF list, n
<1>9. ASSUME NEW c \in Things, NEW p \in Things, <<c, p>> \in E, c \in checked, p \notin link_top[c]
      PROVE  c \in Gone \/ p \in Gone \/ Together(c, p)
  BY <1>9 DEF ChildInv
<1>10. ASSUME NEW c \in Things, NEW p \in Things, Together(c, p)
       PROVE  c \in Gone' \/ p \in Gone' \/ Together(c, p)'
  <2>1. CASE \E u \in Range(stack) : InOrder(piece[u], c, p)
    <3>1. PICK u \in Range(stack) : InOrder(piece[u], c, p)
      BY <2>1
    <3>2. CASE u = Top
      BY <1>2, <3>1, <3>2 DEF InOrder, Range
    <3>3. CASE u # Top
      <4>1. u \in Range(stack') /\ InOrder(piece'[u], c, p)
        BY <1>3, <1>5, <1>6, <3>1, <3>3
      <4> QED  BY <4>1 DEF Together, InOrder
    <3> QED  BY <3>2, <3>3
  <2>2. CASE \E i, j \in 1..n : i <= j /\ stack[i] = c /\ At(j, p) /\ Chained(i, j)
    <3>1. PICK i, j \in 1..n : i <= j /\ stack[i] = c /\ At(j, p) /\ Chained(i, j)
      BY <2>2
    <3>2. CASE j = n
      BY <1>2, <1>3, <3>1, <3>2 DEF At
    <3>3. CASE j # n
      <4>1. i \in 1..(n - 1) /\ j \in 1..(n - 1)
        BY <1>3, <3>1, <3>3
      <4>2. /\ i \in 1..Len(stack') /\ j \in 1..Len(stack') /\ stack'[i] = c
            /\ p = stack'[j] \/ p \in Range(piece'[stack'[j]])
        BY <1>3, <1>7, <3>1, <4>1 DEF At
      <4>3. ASSUME NEW k \in (i + 1)..j
            PROVE  "STRONG" \in rf_flags'[stack'[k]]
        <5>1. k \in 1..(n - 1)
          BY <1>3, <4>1
        <5> QED  BY <1>1, <1>3, <3>1, <5>1 DEF Chained
      <4> QED  BY <3>1, <4>2, <4>3 DEF Together, At, Chained
    <3> QED  BY <3>2, <3>3
  <2> QED  BY <1>10, <2>1, <2>2 DEF Together, n
<1>11. \A i \in 1..Len(stack') : "WEAK" \notin rf_flags'[stack'[i]]
  <2>1. \A i \in 1..n : "WEAK" \notin rf_flags[stack[i]]
    BY DEF ChildInv, n
  <2> QED  BY <1>1, <1>3, <1>4, <2>1
<1>12. ASSUME NEW c \in Things, NEW p \in Things, <<c, p>> \in E, c \in checked, p \notin link_top[c]
       PROVE  c \in Gone' \/ p \in Gone' \/ Together(c, p)'
  <2>1. c \in Gone \/ p \in Gone \/ Together(c, p)
    BY <1>9, <1>12
  <2> QED  BY <1>2, <1>10, <2>1
<1>13. \A u \in Things : ~(stack' # <<>> /\ u \in link_top'[Top'] /\ refs'[<<Top', u>>] = "strong")
  BY <1>1, PoppedStrong
<1>14. ChildInv'
  BY <1>1, <1>2, <1>11, <1>12, <1>13 DEF ChildInv
<1>15. ASSUME NEW a \in Things, NEW b \in Things, <<a, b>> \in E, a \in Range(list)
       PROVE  b \in Gone \/ InOrder(list, a, b)
  <2>1. /\ a \in checked /\ link_top[a] = {} /\ a \notin Gone
        /\ a \in Range(stack) => a = Top
        /\ \A u \in Range(stack) : a \in Range(piece[u]) => u = Top
    BY <1>1, <1>8, <1>15, CycleFollowed
  <2>2. b \in Gone \/ Together(a, b)
    BY <1>9, <1>15, <2>1
  <2>3. CASE \E u \in Range(stack) : InOrder(piece[u], a, b)
    <3>1. PICK u \in Range(stack) : InOrder(piece[u], a, b)
      BY <2>3
    <3>2. a \in Range(piece[u])
      BY <3>1 DEF InOrder, Range
    <3> QED  BY <1>8, <2>1, <3>1, <3>2
  <2>4. CASE \E i, j \in 1..n : i <= j /\ stack[i] = a /\ At(j, b) /\ Chained(i, j)
    <3>1. PICK i, j \in 1..n : i <= j /\ stack[i] = a /\ At(j, b)
      BY <2>4
    <3>2. a = Top /\ i = n
      BY <1>3, <1>4, <2>1, <3>1
    <3>3. j = n
      BY <1>3, <3>1, <3>2
    <3>4. b \in Range(piece[Top])
      BY <1>3, <1>5, <1>15, <3>1, <3>2, <3>3 DEF At
    <3> QED  BY <1>8, <3>2, <3>4
  <2> QED  BY <2>2, <2>3, <2>4 DEF Together, n
<1> QED  BY <1>14, <1>15

-----------------------------------------------------------------------------
(* The order of destruction: references single way.                        *)

\* a refers to b, directly or not, or is b.
Reaches(a, b) == a = b \/ <<a, b>> \in AllPaths

\* No object has a parent, and weak references are no part of cycles.
OneWayHeap == OfStrength({"strong"}) = {} /\ WeakOneWay

\* The frames are a path of the references.
PathInv ==
  \A i \in 1..Len(stack) :
    /\ rf_flags[stack[i]] \subseteq {"WEAK"}
    /\ i > 1 => /\ <<stack[i - 1], stack[i]>> \in DOMAIN refs
                /\ "WEAK" \in rf_flags[stack[i]] => refs[<<stack[i - 1], stack[i]>>] = "weak"

\* Frames with the same cycle identifier are on a cycle, and so is what is on
\* their cycle piece lists.
BackInv ==
  \A i \in 1..Len(stack) :
    /\ Reaches(stack[i], cycle_id[stack[i]])
    /\ \A x \in Range(piece[stack[i]]) : Reaches(x, stack[i]) /\ Reaches(stack[i], x)

\* A link that has been followed down the stack has made a cycle of what is
\* between.
LowInv ==
  \A i, j \in 1..Len(stack) : \A x, u \in Things :
    At(i, x) /\ At(j, u) /\ u \in Links(x) /\ u \notin link_top[x] =>
      i <= j \/ cycle_id[stack[i]] = cycle_id[stack[j]]

\* What is gone refers to what is gone only.
GoneInv == \A x \in Gone : Links(x) \subseteq Gone

\* Without parents the stack is that of a depth first search.
SearchInv == OneWayHeap => PathInv /\ BackInv /\ LowInv /\ GoneInv

\* Reaching things.
LEMMA ReachFacts ==
  ASSUME GcTypes
  PROVE  /\ AllPaths \subseteq Things \X Things
         /\ \A a, b \in Things : <<a, b>> \in DOMAIN refs => a # b /\ Reaches(a, b)
         /\ \A a, k, b \in Things : Reaches(a, k) /\ Reaches(k, b) => Reaches(a, b)
<1>1. DOMAIN refs \subseteq Things \X Things /\ \A a, b : <<a, b>> \in DOMAIN refs => a # b
  BY DEF GcTypes, Pairs
<1> DEFINE E == DOMAIN refs
<1>2. AllPaths = Paths(E) /\ E \subseteq Things \X Things
  BY <1>1 DEF AllPaths
<1> HIDE DEF E
<1>3. /\ AllPaths \subseteq Things \X Things /\ E \subseteq AllPaths
      /\ \A a, k, b \in Things :
           <<a, k>> \in AllPaths /\ <<k, b>> \in AllPaths => <<a, b>> \in AllPaths
  BY <1>2, PathsJoin
<1> QED  BY <1>1, <1>3 DEF Reaches, E

\* A frame reaches those above it.
LEMMA StackPath ==
  ASSUME GcInv, PathInv, NEW i \in 1..Len(stack), NEW j \in i..Len(stack)
  PROVE  Reaches(stack[i], stack[j])
<1> DEFINE n == Len(stack)
           S == {k \in i..n : ~Reaches(stack[i], stack[k])}
<1>1. n \in Nat /\ \A k \in 1..n : stack[k] \in Things
  BY DEF GcInv, GcTypes
<1>2. SUFFICES ASSUME S # {}
               PROVE  FALSE
  OBVIOUS
<1>3. S \subseteq Nat
  BY <1>1
<1>4. PICK k \in S : \A m \in S : k <= m
  BY <1>2, <1>3, LeastNumber
<1>5. k # i /\ k \in i..n
  BY <1>4 DEF Reaches
<1>6. k \in 1..n /\ k > 1 /\ k - 1 \in 1..n /\ k - 1 \in i..n /\ ~(k <= k - 1)
  BY <1>1, <1>5
<1>7. Reaches(stack[i], stack[k - 1])
  BY <1>4, <1>6
<1>8. <<stack[k - 1], stack[k]>> \in DOMAIN refs
  BY <1>6 DEF PathInv
<1>9. GcTypes
  BY DEF GcInv
<1>10. Reaches(stack[k - 1], stack[k])
  BY <1>1, <1>6, <1>8, <1>9, ReachFacts
<1>11. Reaches(stack[i], stack[k])
  <2> DEFINE a == stack[i]
             b == stack[k - 1]
             c == stack[k]
  <2>1. a \in Things /\ b \in Things /\ c \in Things /\ Reaches(a, b) /\ Reaches(b, c)
    BY <1>1, <1>6, <1>7, <1>10
  <2> HIDE DEF a, b, c
  <2>2. Reaches(a, c)
    BY <1>9, <2>1, ReachFacts
  <2> QED  BY <2>2 DEF a, c
<1> QED  BY <1>4, <1>11

\* Where a thing is, if it is on the stack or on a cycle piece list.
LEMMA PlaceOf ==
  ASSUME GcInv, NEW t \in Things
  PROVE  /\ t \in Range(stack) \/ OnPieceList(t) =>
              /\ Position(Root(t)) \in 1..Len(stack) /\ At(Position(Root(t)), t)
              /\ stack[Position(Root(t))] = Root(t)
         /\ \A j \in 1..Len(stack) : At(j, t) =>
              (t \in Range(stack) \/ OnPieceList(t)) /\ t \in checked /\ t \notin Gone
         /\ \A i, j \in 1..Len(stack) : At(i, t) /\ At(j, t) => i = j
         /\ t \in checked \ Gone => t \in Range(stack) \/ OnPieceList(t)
<1>1. StackInv /\ PieceInv /\ GcTypes
  BY TypesOfStack DEF GcInv, StackInv
<1>2. /\ \A x \in Range(stack) : Position(x) \in 1..Len(stack) /\ stack[Position(x)] = x
      /\ \A i \in 1..Len(stack) : Position(stack[i]) = i /\ stack[i] \in Things
  BY <1>1, PositionFacts
<1>3. \A j \in 1..Len(stack) : stack[j] \in Range(stack)
  BY <1>1 DEF StackInv, StackTypes, Range
<1>4. ASSUME t \in Range(stack) \/ OnPieceList(t)
      PROVE  Root(t) \in Range(stack) /\ (t = Root(t) \/ t \in Range(piece[Root(t)]))
  BY <1>4 DEF Root, OnPieceList
<1>5. ASSUME t \in Range(stack) \/ OnPieceList(t)
      PROVE  /\ Position(Root(t)) \in 1..Len(stack) /\ At(Position(Root(t)), t)
             /\ stack[Position(Root(t))] = Root(t)
  <2> DEFINE r == Root(t)
  <2>1. r \in Range(stack) /\ (t = r \/ t \in Range(piece[r]))
    BY <1>4, <1>5
  <2> HIDE DEF r
  <2>2. Position(r) \in 1..Len(stack) /\ stack[Position(r)] = r
    BY <1>2, <2>1
  <2> QED  BY <2>1, <2>2 DEF At, r
<1>6. ASSUME NEW j \in 1..Len(stack), At(j, t)
      PROVE  (t \in Range(stack) \/ OnPieceList(t)) /\ t \in checked /\ t \notin Gone
  <2>1. t \in Range(stack) \/ OnPieceList(t)
    BY <1>3, <1>6 DEF At, OnPieceList
  <2>2. t \in checked
    BY <1>1, <1>2, <1>3, <1>6 DEF At, PieceInv
  <2> QED  BY <2>1, <2>2 DEF Gone
<1>7. ASSUME NEW i \in 1..Len(stack), NEW j \in 1..Len(stack), At(i, t), At(j, t)
      PROVE  i = j
  <2>1. stack[i] \in Range(stack) /\ stack[j] \in Range(stack) /\ stack[i] \in Things /\ stack[j] \in Things
    BY <1>2, <1>3
  <2>2. \A x \in Things : Range(piece[x]) \cap Range(stack) = {}
    BY <1>1 DEF PieceInv
  <2>3. stack[i] = stack[j]
    <3>1. CASE t = stack[i] \/ t = stack[j]
      BY <1>7, <2>1, <2>2, <3>1 DEF At
    <3>2. CASE t \in Range(piece[stack[i]]) /\ t \in Range(piece[stack[j]])
      BY <1>1, <2>1, <3>2 DEF PieceInv
    <3> QED  BY <1>7, <3>1, <3>2 DEF At
  <2> QED  BY <1>2, <2>3
<1> QED  BY <1>5, <1>6, <1>7 DEF Gone

\* Frames of the same cycle have those between them in it.
LEMMA SameCycle ==
  ASSUME GcInv, NEW j \in 1..Len(stack), NEW i \in j..Len(stack), NEW q \in j..i,
         cycle_id[stack[i]] = cycle_id[stack[j]]
  PROVE  cycle_id[stack[q]] = cycle_id[stack[i]]
<1>1. /\ \A a, b \in 1..Len(stack) : stack[a] = stack[b] => a = b
      /\ \A a \in 1..Len(stack) : \E k \in 1..a : CycleFrom(stack, cycle_id, k, a)
      /\ Len(stack) \in Nat /\ i \in 1..Len(stack)
  <2>1. Len(stack) \in Nat /\ DOMAIN stack = 1..Len(stack)
    BY DEF GcInv, GcTypes
  <2>2. OrderInv(stack, rf_flags, cycle_id)
    BY DEF GcInv
  <2> QED  BY <2>1, <2>2 DEF OrderInv, IsInjective
<1>2. PICK k \in 1..i : CycleFrom(stack, cycle_id, k, i)
  BY <1>1
<1>3. PICK m \in 1..j : CycleFrom(stack, cycle_id, m, j)
  BY <1>1
<1>4. stack[k] = stack[m] /\ k \in 1..Len(stack) /\ m \in 1..Len(stack)
  BY <1>1, <1>2, <1>3 DEF CycleFrom
<1>5. k = m
  BY <1>1, <1>4
<1>6. q \in k..i
  BY <1>1, <1>3, <1>5
<1> QED  BY <1>2, <1>6 DEF CycleFrom

\* The heap is the same, and what it says.
LEMMA HeapReach ==
  ASSUME UNCHANGED heap
  PROVE  /\ refs' = refs /\ AllPaths' = AllPaths /\ (OneWayHeap' <=> OneWayHeap)
         /\ \A x : Links(x)' = Links(x)
         /\ \A a, b : Reaches(a, b)' <=> Reaches(a, b)
BY HeapOrder, HeapSame DEF OneWayHeap, Reaches

\* The stack and its frames are as before.
LEMMA SearchSame ==
  ASSUME SearchInv, UNCHANGED <<heap, checked, frames>>
  PROVE  SearchInv'
<1>1. /\ stack' = stack /\ rf_flags' = rf_flags /\ piece' = piece /\ link_top' = link_top
      /\ checked' = checked /\ cycle_id' = cycle_id
  BY DEF heap, frames, order
<1>2. /\ refs' = refs /\ (OneWayHeap' <=> OneWayHeap) /\ AllPaths' = AllPaths
      /\ \A x : Links(x)' = Links(x)
      /\ Gone' = Gone
  BY <1>1, HeapReach, GoneSame
<1> SUFFICES ASSUME OneWayHeap
             PROVE  PathInv' /\ BackInv' /\ LowInv' /\ GoneInv'
  BY <1>2 DEF SearchInv
<1>3. PathInv /\ BackInv /\ LowInv /\ GoneInv
  BY DEF SearchInv
<1>4. PathInv'
  BY <1>1, <1>2, <1>3 DEF PathInv
<1>5. BackInv'
  BY <1>1, <1>2, <1>3 DEF BackInv, Reaches
<1>6. LowInv'
  BY <1>1, <1>2, <1>3 DEF LowInv, At
<1>7. GoneInv'
  BY <1>1, <1>2, <1>3 DEF GoneInv
<1> QED  BY <1>4, <1>5, <1>6, <1>7

\* A new frame extends the path.
LEMMA PushFrameSearch ==
  ASSUME GcInv, SearchInv, NEW t \in Things, NEW strength, NEW from,
         LinkStep(t, strength, from), push_frame(t, strength, from)
  PROVE  SearchInv'
<1> DEFINE n == Len(stack)
           F == CASE strength = "weak" -> {"WEAK"} [] strength = "strong" -> {"STRONG"} [] OTHER -> {}
<1>1. /\ UNCHANGED heap /\ refs' = refs /\ Gone' = Gone /\ AllPaths' = AllPaths
      /\ \A x : Links(x)' = Links(x)
      /\ (OneWayHeap' <=> OneWayHeap)
  BY PushFrameStep, HeapReach DEF LinkStep
<1> SUFFICES ASSUME OneWayHeap
             PROVE  PathInv' /\ BackInv' /\ LowInv' /\ GoneInv'
  BY <1>1 DEF SearchInv
<1>2. PathInv /\ BackInv /\ LowInv /\ GoneInv
  BY DEF SearchInv
<1>3. /\ t \notin checked
      /\ stack' = Append(stack, t)
      /\ link_top' = [u \in Things |-> IF u = t THEN Links(t)
                                       ELSE IF u \in from THEN link_top[u] \ {t} ELSE link_top[u]]
      /\ rf_flags' = [rf_flags EXCEPT ![t] = F]
      /\ cycle_id' = [cycle_id EXCEPT ![t] = t]
      /\ piece' = [piece EXCEPT ![t] = <<>>]
  BY DEF push_frame
<1>4. GcTypes /\ StackTypes /\ LinkInv /\ PieceInv
  BY TypesOfStack DEF GcInv
<1>5. /\ n \in Nat /\ stack \in Seq(Things) /\ Range(stack) \subseteq checked
      /\ \A i \in 1..n : stack[i] \in Range(stack) /\ stack[i] \in Things
  BY <1>4 DEF StackTypes, PieceInv, Range
<1>6. /\ Len(stack') = n + 1 /\ stack'[n + 1] = t
      /\ \A i \in 1..n : stack'[i] = stack[i]
  BY <1>3, <1>5
<1>7. \A i \in 1..n : stack[i] # t
  BY <1>3, <1>5
<1>8. /\ rf_flags'[t] = F /\ cycle_id'[t] = t /\ piece'[t] = <<>>
      /\ \A i \in 1..n : /\ rf_flags'[stack[i]] = rf_flags[stack[i]]
                         /\ cycle_id'[stack[i]] = cycle_id[stack[i]]
                         /\ piece'[stack[i]] = piece[stack[i]]
  BY <1>3, <1>4, <1>5, <1>7 DEF GcTypes
<1>9. \A i \in 1..(n + 1) : i \in 1..n \/ i = n + 1
  BY <1>5
<1>10. \/ from = {} /\ strength = "normal" /\ stack = <<>>
       \/ /\ from = {Top} /\ Top = stack[n] /\ n \in 1..n
          /\ <<Top, t>> \in DOMAIN refs /\ strength = refs[<<Top, t>>]
  BY <1>4, <1>5, TopFacts DEF LinkStep, LinkFrom, LinkInv, Links, Top
<1>11. strength # "strong"
  BY <1>10 DEF OneWayHeap, OfStrength
<1>12. F \subseteq {"WEAK"} /\ ("WEAK" \in F => strength = "weak")
  BY <1>11
<1> HIDE DEF F
<1>13. PathInv'
  <2>1. ASSUME NEW i \in 1..Len(stack')
        PROVE  /\ rf_flags'[stack'[i]] \subseteq {"WEAK"}
               /\ i > 1 => /\ <<stack'[i - 1], stack'[i]>> \in DOMAIN refs
                           /\ "WEAK" \in rf_flags'[stack'[i]] =>
                                refs[<<stack'[i - 1], stack'[i]>>] = "weak"
    <3>1. CASE i \in 1..n
      <4>1. i > 1 => i - 1 \in 1..n
        BY <1>5, <3>1
      <4> QED  BY <1>2, <1>6, <1>8, <3>1, <4>1 DEF PathInv
    <3>2. CASE i = n + 1
      <4>1. rf_flags'[stack'[i]] = F
        BY <1>6, <1>8, <3>2
      <4>2. ASSUME i > 1
            PROVE  stack'[i - 1] = Top /\ stack'[i] = t /\ from = {Top}
        <5>1. n \in 1..n /\ i - 1 = n
          BY <1>5, <3>2, <4>2
        <5>2. stack # <<>>
          BY <1>5, <5>1
        <5> QED  BY <1>6, <1>10, <3>2, <5>1, <5>2
      <4> QED  BY <1>10, <1>12, <4>1, <4>2
    <3> QED  BY <1>6, <1>9, <2>1, <3>1, <3>2
  <2> QED  BY <1>1, <2>1 DEF PathInv
<1>14. BackInv'
  <2>1. ASSUME NEW i \in 1..Len(stack')
        PROVE  /\ Reaches(stack'[i], cycle_id'[stack'[i]])
               /\ \A x \in Range(piece'[stack'[i]]) :
                    Reaches(x, stack'[i]) /\ Reaches(stack'[i], x)
    <3>1. CASE i \in 1..n
      BY <1>2, <1>6, <1>8, <3>1 DEF BackInv
    <3>2. CASE i = n + 1
      BY <1>6, <1>8, <3>2, EmptyRange DEF Reaches
    <3> QED  BY <1>6, <1>9, <3>1, <3>2
  <2> QED  BY <1>1, <2>1 DEF BackInv, Reaches
<1>15. ASSUME NEW i \in 1..(n + 1), NEW x \in Things, At(i, x)'
       PROVE  (i \in 1..n /\ At(i, x) /\ x # t) \/ (i = n + 1 /\ x = t)
  <2>1. CASE i \in 1..n
    <3>1. At(i, x)
      BY <1>6, <1>8, <1>15, <2>1 DEF At
    <3>2. x \in checked
      BY <2>1, <3>1, PlaceOf
    <3> QED  BY <1>3, <2>1, <3>1, <3>2
  <2>2. CASE i = n + 1
    BY <1>6, <1>8, <1>15, <2>2, EmptyRange DEF At
  <2> QED  BY <1>9, <2>1, <2>2
<1>16. LowInv'
  <2>1. ASSUME NEW i \in 1..(n + 1), NEW j \in 1..(n + 1), NEW x \in Things, NEW u \in Things,
               At(i, x)', At(j, u)', u \in Links(x), u \notin link_top'[x]
        PROVE  i <= j \/ cycle_id'[stack'[i]] = cycle_id'[stack'[j]]
    <3>1. x # t
      BY <1>3, <2>1
    <3>2. i \in 1..n /\ At(i, x)
      BY <1>15, <2>1, <3>1
    <3>3. CASE j = n + 1
      BY <1>5, <3>2, <3>3
    <3>4. CASE j \in 1..n /\ At(j, u) /\ u # t
      <4>1. u \notin link_top[x]
        BY <1>3, <2>1, <3>1, <3>4
      <4>2. i <= j \/ cycle_id[stack[i]] = cycle_id[stack[j]]
        BY <1>2, <2>1, <3>2, <3>4, <4>1 DEF LowInv
      <4> QED  BY <1>6, <1>8, <3>2, <3>4, <4>2
    <3> QED  BY <1>15, <2>1, <3>3, <3>4
  <2> QED  BY <1>1, <1>6, <2>1 DEF LowInv
<1>17. GoneInv'
  BY <1>1, <1>2 DEF GoneInv
<1> QED  BY <1>13, <1>14, <1>16, <1>17

\* A link down the stack closes a cycle: there is no weak reference in it to
\* break it at, and what is above joins the cycle.
LEMMA OnlyMarks ==
  ASSUME GcInv, SearchInv, OneWayHeap, NEW t \in Things, stack # <<>>,
         t \in Range(stack) \/ OnPieceList(t),
         <<Top, t>> \in DOMAIN refs, cyclic_ref(t, refs[<<Top, t>>])
  PROVE  /\ Reaches(Top, Root(t))
         /\ mark_cycle(t)
<1> DEFINE n == Len(stack)
           q == Position(Root(t))
           r == Root(t)
           strength == refs[<<Top, t>>]
           above == {i \in DOMAIN stack : i > q}
           Flagged(flag) == {i \in above : flag \in rf_flags[stack[i]]}
           nonstrong == {i \in above \ Flagged("STRONG") : strength = "strong"}
<1>1. PathInv /\ BackInv /\ GcTypes /\ StackInv
  BY TypesOfStack DEF SearchInv, GcInv, StackInv
<1>2. /\ n \in Nat /\ n \in 1..n /\ Top = stack[n] /\ DOMAIN stack = 1..n
      /\ \A i \in 1..n : stack[i] \in Things
      /\ \A i, j \in 1..n : stack[i] = stack[j] => i = j
  <2>1. Len(stack) \in Nat /\ DOMAIN stack = 1..Len(stack) /\ n \in 1..n
        /\ \A i \in 1..n : stack[i] \in Things
    BY <1>1, TopFacts DEF StackInv, StackTypes
  <2> QED  BY <1>1, <2>1 DEF StackInv, OrderInv, IsInjective, Top
<1>3. q \in 1..n /\ At(q, t) /\ stack[q] = r /\ r \in Things
  BY <1>2, PlaceOf
<1>4. /\ \A a, b \in Things : <<a, b>> \in DOMAIN refs => a # b /\ Reaches(a, b)
      /\ \A a, k, b \in Things : Reaches(a, k) /\ Reaches(k, b) => Reaches(a, b)
  BY <1>1, ReachFacts
<1>5. \A i \in 1..n, j \in 1..n : i <= j => Reaches(stack[i], stack[j])
  <2>1. \A i, j \in 1..n : i <= j => j \in i..n
    BY <1>2
  <2> QED  BY <1>1, <2>1, StackPath
<1> HIDE DEF q, r, n
<1>6. Reaches(t, r)
  BY <1>1, <1>3 DEF At, BackInv, Reaches, n
<1>7. Reaches(Top, t) /\ Top # t /\ Top \in Things
  BY <1>2, <1>4
<1>8. Reaches(Top, r)
  BY <1>3, <1>4, <1>6, <1>7
<1>9. strength # "weak"
  <2>1. q <= n
    BY <1>2, <1>3
  <2>2. Reaches(r, Top)
    BY <1>2, <1>3, <1>5, <2>1
  <2>3. Reaches(t, Top)
    BY <1>3, <1>4, <1>6, <1>7, <2>2
  <2>4. <<t, Top>> \in AllPaths
    BY <1>7, <2>3 DEF Reaches
  <2>5. WeakOneWay
    BY DEF OneWayHeap
  <2>6. ASSUME strength = "weak"
        PROVE  FALSE
    <3>1. <<Top, t>> \in OfStrength({"weak"})
      BY <2>6 DEF OfStrength
    <3> QED  BY <2>4, <2>5, <3>1 DEF WeakOneWay
  <2> QED  BY <2>6
<1>10. strength # "strong"
  BY DEF OneWayHeap, OfStrength
<1>11. ASSUME NEW i \in 1..n, i > q
       PROVE  "WEAK" \notin rf_flags[stack[i]] /\ "BROKEN" \notin rf_flags[stack[i]]
  <2>1. i > 1 /\ i - 1 \in 1..n /\ q <= i - 1 /\ i <= n /\ i - 1 # i
    BY <1>2, <1>3, <1>11
  <2>2. rf_flags[stack[i]] \subseteq {"WEAK"}
    BY <1>1 DEF PathInv, n
  <2>3. ASSUME "WEAK" \in rf_flags[stack[i]]
        PROVE  FALSE
    <3> DEFINE a == stack[i - 1]
               b == stack[i]
    <3>1. <<a, b>> \in DOMAIN refs /\ refs[<<a, b>>] = "weak"
      BY <1>1, <2>1, <2>3 DEF PathInv, n
    <3>2. a \in Things /\ b \in Things /\ a # b
      BY <1>2, <2>1
    <3>3. Reaches(b, Top) /\ Reaches(r, a)
      BY <1>2, <1>3, <1>5, <2>1
    <3> HIDE DEF a, b
    <3>4. Reaches(b, r)
      BY <1>3, <1>4, <1>7, <1>8, <3>2, <3>3
    <3>5. Reaches(b, a)
      BY <1>3, <1>4, <3>2, <3>3, <3>4
    <3>6. <<b, a>> \in AllPaths
      BY <3>2, <3>5 DEF Reaches
    <3>7. <<a, b>> \in OfStrength({"weak"}) /\ WeakOneWay
      BY <3>1 DEF OfStrength, OneWayHeap
    <3> QED  BY <3>6, <3>7 DEF WeakOneWay
  <2> QED  BY <2>2, <2>3
<1>12. Flagged("WEAK") = {} /\ Flagged("BROKEN") = {} /\ nonstrong = {}
  BY <1>2, <1>10, <1>11
<1>13. t # Top
  BY <1>7
<1>14. \/ t = Top \/ strength = "weak"
       \/ Flagged("WEAK") # {} \/ Flagged("BROKEN") # {} \/ nonstrong # {}
       \/ mark_cycle(t)
  BY DEF cyclic_ref, q
<1> QED  BY <1>8, <1>9, <1>12, <1>13, <1>14 DEF r

\* A link to a visited thing.
LEMMA PushVisitedSearch ==
  ASSUME GcInv, SearchInv, NEW t \in Things, NEW strength, NEW from,
         LinkStep(t, strength, from), push_visited(t, strength, from)
  PROVE  SearchInv'
<1> DEFINE n == Len(stack)
           q == Position(Root(t))
           Located == t \in Range(stack) \/ OnPieceList(t)
<1>1. /\ UNCHANGED heap /\ refs' = refs /\ AllPaths' = AllPaths
      /\ \A x : Links(x)' = Links(x)
      /\ (OneWayHeap' <=> OneWayHeap)
  BY HeapReach DEF LinkStep
<1> SUFFICES ASSUME OneWayHeap
             PROVE  PathInv' /\ BackInv' /\ LowInv' /\ GoneInv'
  BY <1>1 DEF SearchInv
<1>2. PathInv /\ BackInv /\ LowInv /\ GoneInv
  BY DEF SearchInv
<1>3. /\ t \in checked
      /\ link_top' = [u \in Things |-> IF u \in from THEN link_top[u] \ {t} ELSE link_top[u]]
      /\ checked' = checked /\ piece' = piece
  BY DEF push_visited
<1>4. GcTypes /\ StackTypes /\ LinkInv /\ PieceInv /\ StackInv
  BY TypesOfStack DEF GcInv, StackInv
<1>5. /\ n \in Nat /\ DOMAIN stack = 1..n
      /\ \A i \in 1..n : stack[i] \in Things
      /\ \A i, j \in 1..n : stack[i] = stack[j] => i = j
  <2>1. n \in Nat /\ DOMAIN stack = 1..n /\ \A i \in 1..n : stack[i] \in Things
    BY <1>4 DEF StackTypes
  <2> QED  BY <1>4, <2>1 DEF StackInv, OrderInv, IsInjective
<1>6. \/ from = {} /\ stack = <<>>
      \/ /\ from = {Top} /\ stack # <<>> /\ Top = stack[n] /\ n \in 1..n
         /\ t \in Links(Top) /\ <<Top, t>> \in DOMAIN refs /\ strength = refs[<<Top, t>>]
  BY <1>4, TopFacts DEF LinkStep, LinkFrom, LinkInv, Links, Top
<1>7. Located => /\ q \in 1..n /\ At(q, t) /\ stack[q] = Root(t)
                 /\ from = {Top} /\ Top = stack[n] /\ n \in 1..n
  <2>1. ASSUME Located
        PROVE  stack # <<>>
    BY <2>1, EmptyRange DEF OnPieceList
  <2> QED  BY <1>6, <2>1, PlaceOf
<1> DEFINE c == cycle_id
<1>8. /\ stack' = stack /\ rf_flags' = rf_flags
      /\ Located => Reaches(stack[n], stack[q])
      /\ \A i \in 1..n : cycle_id'[stack[i]] =
                           IF Located /\ i >= q THEN cycle_id[stack[q]] ELSE cycle_id[stack[i]]
  <2>1. CASE Located /\ cyclic_ref(t, strength)
    <3>1. stack # <<>> /\ <<Top, t>> \in DOMAIN refs /\ strength = refs[<<Top, t>>]
      BY <1>6, <2>1, EmptyRange DEF OnPieceList
    <3>2. Reaches(Top, Root(t)) /\ mark_cycle(t)
      BY <2>1, <3>1, OnlyMarks
    <3>3. /\ stack' = stack /\ rf_flags' = rf_flags
          /\ cycle_id' = [u \in Things |-> IF \E i \in q..n : stack[i] = u
                                           THEN cycle_id[Root(t)] ELSE cycle_id[u]]
      BY <3>2 DEF mark_cycle
    <3>4. q \in 1..n /\ stack[q] = Root(t) /\ Top = stack[n]
      BY <1>7, <2>1
    <3> HIDE DEF q, n
    <3>5. ASSUME NEW i \in 1..n
          PROVE  cycle_id'[stack[i]] = IF i >= q THEN cycle_id[stack[q]] ELSE cycle_id[stack[i]]
      <4>1. i >= q <=> \E j \in q..n : stack[j] = stack[i]
        <5>1. ASSUME i >= q
              PROVE  i \in q..n
          BY <1>5, <3>4, <5>1
        <5>2. ASSUME NEW j \in q..n, stack[j] = stack[i]
              PROVE  i >= q
          <6>1. j \in 1..n /\ j >= q
            BY <1>5, <3>4
          <6>2. i = j
            BY <1>5, <5>2, <6>1
          <6> QED  BY <6>1, <6>2
        <5> QED  BY <5>1, <5>2
      <4> QED  BY <1>5, <3>3, <3>4, <4>1
    <3> QED  BY <2>1, <3>2, <3>3, <3>4, <3>5
  <2>2. CASE ~Located /\ UNCHANGED order
    BY <2>2 DEF order
  <2> QED  BY <2>1, <2>2 DEF push_visited
<1>9. Gone' = Gone
  BY <1>3, <1>8, GoneSame
<1> HIDE DEF n, q, Located
<1>10. PathInv'
  BY <1>1, <1>2, <1>8 DEF PathInv
<1>11. ASSUME NEW i \in 1..n
       PROVE  Reaches(stack[i], cycle_id'[stack[i]])
  <2>1. Reaches(stack[i], cycle_id[stack[i]])
    BY <1>2 DEF BackInv, n
  <2>2. CASE Located /\ i >= q
    <3>1. q \in 1..n /\ n \in 1..n /\ n \in i..n
      BY <1>5, <1>7, <2>2
    <3>2. Reaches(stack[q], cycle_id[stack[q]])
      BY <1>2, <3>1 DEF BackInv, n
    <3>3. Reaches(stack[i], stack[n]) /\ Reaches(stack[n], stack[q])
      BY <1>2, <1>8, <2>2, <3>1, StackPath DEF n
    <3> DEFINE a == stack[i]
               b == stack[n]
               d == stack[q]
               e == cycle_id[stack[q]]
    <3>4. a \in Things /\ b \in Things /\ d \in Things /\ e \in Things
      BY <1>4, <1>5, <3>1 DEF GcTypes
    <3>5. Reaches(a, b) /\ Reaches(b, d) /\ Reaches(d, e)
      BY <3>2, <3>3
    <3>6. cycle_id'[stack[i]] = e
      BY <1>8, <2>2
    <3> HIDE DEF a, b, d, e
    <3>7. Reaches(a, d)
      BY <1>4, <3>4, <3>5, ReachFacts
    <3>8. Reaches(a, e)
      BY <1>4, <3>4, <3>5, <3>7, ReachFacts
    <3> QED  BY <3>6, <3>8 DEF a
  <2> QED  BY <1>8, <2>1, <2>2
<1>12. BackInv'
  <2>1. \A i \in 1..n : \A x \in Range(piece[stack[i]]) : Reaches(x, stack[i]) /\ Reaches(stack[i], x)
    BY <1>2 DEF BackInv, n
  <2> QED  BY <1>1, <1>3, <1>8, <1>11, <2>1 DEF BackInv, Reaches, n
<1>13. \A i, x : At(i, x)' <=> At(i, x)
  BY <1>3, <1>8 DEF At
<1>14. ASSUME NEW i \in 1..n, NEW j \in 1..n, j < i, cycle_id[stack[i]] = cycle_id[stack[j]]
       PROVE  cycle_id'[stack[i]] = cycle_id'[stack[j]]
  <2>1. CASE Located /\ q <= i /\ j < q
    <3>1. q \in j..i /\ i \in j..n
      BY <1>5, <1>7, <1>14, <2>1
    <3>2. cycle_id[stack[q]] = cycle_id[stack[i]]
      BY <1>14, <3>1, SameCycle DEF n
    <3>3. ~(j >= q) /\ i >= q
      BY <1>5, <1>7, <2>1
    <3> QED  BY <1>8, <1>14, <2>1, <3>2, <3>3
  <2>2. CASE ~(Located /\ q <= i /\ j < q)
    <3>1. Located => (i >= q <=> j >= q)
      BY <1>5, <1>7, <1>14, <2>2
    <3> QED  BY <1>8, <1>14, <3>1
  <2> QED  BY <2>1, <2>2
<1>15. LowInv'
  <2>1. ASSUME NEW i \in 1..n, NEW j \in 1..n, NEW x \in Things, NEW u \in Things,
               At(i, x), At(j, u), u \in Links(x), u \notin link_top'[x]
        PROVE  i <= j \/ cycle_id'[stack[i]] = cycle_id'[stack[j]]
    <3>1. CASE u \notin link_top[x]
      <4>1. i <= j \/ cycle_id[stack[i]] = cycle_id[stack[j]]
        BY <1>2, <2>1, <3>1 DEF LowInv, n
      <4>2. i <= j \/ j < i
        BY <1>5
      <4> QED  BY <1>14, <4>1, <4>2
    <3>2. CASE u \in link_top[x]
      <4>1. x \in from /\ u = t
        BY <1>3, <2>1, <3>2
      <4>2. Located
        BY <2>1, <4>1, PlaceOf DEF n, Located
      <4>3. x = stack[n] /\ n \in 1..n /\ q \in 1..n /\ At(q, t)
        BY <1>7, <4>1, <4>2
      <4>4. At(n, x)
        BY <4>3 DEF At
      <4>5. i = n /\ j = q
        BY <2>1, <4>1, <4>3, <4>4, PlaceOf DEF n
      <4>6. n >= q /\ q >= q
        BY <1>5, <4>3
      <4> QED  BY <1>8, <4>2, <4>3, <4>5, <4>6
    <3> QED  BY <3>1, <3>2
  <2> QED  BY <1>1, <1>8, <1>13, <2>1 DEF LowInv, n
<1>16. GoneInv'
  BY <1>1, <1>2, <1>9 DEF GoneInv
<1> QED  BY <1>10, <1>12, <1>15, <1>16

\* A frame goes to the cycle piece list of the one before it, whose cycle it is
\* part of.
LEMMA PopPieceSearch ==
  ASSUME GcInv, SearchInv, pop_piece
  PROVE  SearchInv'
<1> DEFINE n == Len(stack)
           before == stack[n - 1]
<1>1. /\ Popped /\ UNCHANGED heap /\ rf_flags' = rf_flags
      /\ link_top' = link_top
      /\ cycle_id' = [cycle_id EXCEPT ![Top] = before]
  BY DEF pop_piece
<1>2. /\ Gone' = Gone /\ refs' = refs /\ AllPaths' = AllPaths
      /\ \A x : Links(x)' = Links(x)
      /\ (OneWayHeap' <=> OneWayHeap)
  BY <1>1, PopPieceStep, HeapReach
<1> SUFFICES ASSUME OneWayHeap
             PROVE  PathInv' /\ BackInv' /\ LowInv' /\ GoneInv'
  BY <1>2 DEF SearchInv
<1>3. PathInv /\ BackInv /\ LowInv /\ GoneInv /\ GcTypes
  BY DEF SearchInv, GcInv
<1>4. /\ n \in Nat /\ n >= 1 /\ Top = stack[n] /\ Len(stack') = n - 1
      /\ \A i \in 1..(n - 1) : stack'[i] = stack[i]
      /\ \A i, j \in 1..n : stack[i] = stack[j] => i = j
      /\ \A i \in 1..n : stack[i] \in Things
  BY <1>1, PoppedPlaces
<1>5. /\ n - 1 \in 1..n /\ before \in Things /\ before # Top
      /\ \E k \in 1..(n - 1) : CycleFrom(stack, cycle_id, k, n)
      /\ Range(piece'[before]) = {Top} \cup Range(piece[Top]) \cup Range(piece[before])
      /\ \A x \in Things : x # before /\ x # Top => piece'[x] = piece[x]
  BY PopPieceFacts
<1>6. /\ \A i \in 1..(n - 1) : i \in 1..n /\ i # n
      /\ \A i \in 1..n : i \in 1..(n - 1) \/ i = n
      /\ n - 1 \in 1..(n - 1) /\ n \in 1..n /\ n > 1
  BY <1>4, <1>5
<1>7. PICK k \in 1..(n - 1) : CycleFrom(stack, cycle_id, k, n)
  BY <1>5
<1>8. cycle_id[before] = cycle_id[Top] /\ cycle_id[Top] = stack[k]
  <2>1. n - 1 \in k..n
    BY <1>4, <1>7
  <2> QED  BY <1>4, <1>7, <2>1 DEF CycleFrom
<1>9. \A i \in 1..(n - 1) : cycle_id'[stack[i]] = cycle_id[stack[i]]
  BY <1>1, <1>3, <1>4, <1>6 DEF GcTypes
<1>10. \A i \in 1..(n - 1) : i # n - 1 => piece'[stack[i]] = piece[stack[i]]
  BY <1>4, <1>5, <1>6
<1> DEFINE top == Top
<1>11. /\ Reaches(before, top) /\ Reaches(top, before) /\ top \in Things
  <2>1. Reaches(before, top)
    <3>1. <<before, top>> \in DOMAIN refs
      BY <1>3, <1>4, <1>6 DEF PathInv
    <3> QED  BY <1>3, <1>4, <1>5, <1>6, <3>1, ReachFacts
  <2>2. Reaches(top, stack[k])
    BY <1>3, <1>4, <1>6, <1>8 DEF BackInv
  <2>3. Reaches(stack[k], before)
    <3>1. k \in 1..n /\ n - 1 \in k..n
      BY <1>4, <1>6, <1>7
    <3> QED  BY <1>3, <3>1, StackPath
  <2>4. top \in Things /\ stack[k] \in Things /\ before \in Things
    BY <1>4, <1>5, <1>6
  <2> DEFINE d == stack[k]
  <2>5. Reaches(top, d) /\ Reaches(d, before) /\ d \in Things
    BY <2>2, <2>3, <2>4
  <2> HIDE DEF d, top, before
  <2> QED  BY <1>3, <2>1, <2>4, <2>5, ReachFacts
<1>12. ASSUME NEW x \in Range(piece[Top])
       PROVE  x \in Things /\ Reaches(x, before) /\ Reaches(before, x)
  <2>1. x \in Things
    <3>1. Top \in Things /\ piece[Top] \in Seq(Things)
      BY <1>3, <1>11 DEF GcTypes
    <3> QED  BY <3>1, <1>12 DEF Range
  <2>2. Reaches(x, top) /\ Reaches(top, x)
    BY <1>3, <1>4, <1>6, <1>12 DEF BackInv
  <2> HIDE DEF top, before
  <2> QED  BY <1>3, <1>5, <1>11, <2>1, <2>2, ReachFacts
<1> HIDE DEF n, before, top
<1>13. PathInv'
  <2>1. ASSUME NEW i \in 1..Len(stack')
        PROVE  /\ rf_flags'[stack'[i]] \subseteq {"WEAK"}
               /\ i > 1 => /\ <<stack'[i - 1], stack'[i]>> \in DOMAIN refs
                           /\ "WEAK" \in rf_flags'[stack'[i]] =>
                                refs[<<stack'[i - 1], stack'[i]>>] = "weak"
    <3>1. i \in 1..(n - 1) /\ i \in 1..n /\ (i > 1 => i - 1 \in 1..(n - 1))
      BY <1>4
    <3> QED  BY <1>1, <1>3, <1>4, <3>1 DEF PathInv, n
  <2> QED  BY <1>2, <2>1 DEF PathInv
<1>14. BackInv'
  <2>1. ASSUME NEW i \in 1..Len(stack')
        PROVE  /\ Reaches(stack'[i], cycle_id'[stack'[i]])
               /\ \A x \in Range(piece'[stack'[i]]) :
                    Reaches(x, stack'[i]) /\ Reaches(stack'[i], x)
    <3>1. i \in 1..(n - 1) /\ i \in 1..n /\ stack'[i] = stack[i]
      BY <1>4, <1>6
    <3>2. /\ Reaches(stack[i], cycle_id[stack[i]])
          /\ \A x \in Range(piece[stack[i]]) : Reaches(x, stack[i]) /\ Reaches(stack[i], x)
      BY <1>3, <3>1 DEF BackInv, n
    <3>3. CASE i = n - 1
      <4>1. stack[i] = before
        BY <3>3 DEF before, n
      <4> QED  BY <1>5, <1>9, <1>11, <1>12, <3>1, <3>2, <4>1 DEF top
    <3>4. CASE i # n - 1
      BY <1>9, <1>10, <3>1, <3>2, <3>4
    <3> QED  BY <3>3, <3>4
  <2> QED  BY <1>2, <2>1 DEF BackInv, Reaches
<1>15. ASSUME NEW i \in 1..(n - 1), NEW x \in Things, At(i, x)'
       PROVE  \E m \in 1..n : /\ At(m, x) /\ (m = i \/ (m = n /\ i = n - 1))
                              /\ cycle_id'[stack'[i]] = cycle_id[stack[m]]
  <2>1. i \in 1..n /\ stack'[i] = stack[i] /\ cycle_id'[stack'[i]] = cycle_id[stack[i]]
    BY <1>4, <1>6, <1>9
  <2>2. x = stack[i] \/ x \in Range(piece'[stack[i]])
    BY <1>15, <2>1 DEF At
  <2>3. CASE i # n - 1
    BY <1>10, <2>1, <2>2, <2>3 DEF At
  <2>4. CASE i = n - 1
    <3>1. stack[i] = before
      BY <2>4 DEF before, n
    <3>2. At(i, x) \/ At(n, x)
      BY <1>4, <1>5, <2>2, <3>1 DEF At
    <3>3. cycle_id'[stack'[i]] = cycle_id[stack[n]]
      BY <1>4, <1>8, <2>1, <3>1
    <3> QED  BY <1>6, <2>1, <2>4, <3>2, <3>3
  <2> QED  BY <2>3, <2>4
<1>16. LowInv'
  <2>1. ASSUME NEW i \in 1..(n - 1), NEW j \in 1..(n - 1), NEW x \in Things, NEW u \in Things,
               At(i, x)', At(j, u)', u \in Links(x), u \notin link_top[x]
        PROVE  i <= j \/ cycle_id'[stack'[i]] = cycle_id'[stack'[j]]
    <3>1. PICK a \in 1..n : /\ At(a, x) /\ (a = i \/ (a = n /\ i = n - 1))
                            /\ cycle_id'[stack'[i]] = cycle_id[stack[a]]
      BY <1>15, <2>1
    <3>2. PICK b \in 1..n : /\ At(b, u) /\ (b = j \/ (b = n /\ j = n - 1))
                            /\ cycle_id'[stack'[j]] = cycle_id[stack[b]]
      BY <1>15, <2>1
    <3>3. a <= b \/ cycle_id[stack[a]] = cycle_id[stack[b]]
      BY <1>3, <2>1, <3>1, <3>2 DEF LowInv, n
    <3>4. a <= b => i <= j
      BY <1>4, <3>1, <3>2
    <3> QED  BY <3>1, <3>2, <3>3, <3>4
  <2> QED  BY <1>1, <1>2, <1>4, <2>1 DEF LowInv
<1>17. GoneInv'
  BY <1>2, <1>3 DEF GoneInv
<1> QED  BY <1>13, <1>14, <1>16, <1>17

\* A cycle goes: it refers to itself and to what is gone only.
LEMMA PopCycleSearch ==
  ASSUME GcInv, SearchInv, pop_cycle
  PROVE  /\ SearchInv'
         /\ OneWayHeap =>
              \A a, b \in Things :
                <<a, b>> \in AllPaths /\ <<b, a>> \notin AllPaths
                  /\ a \in {Top} \cup Range(piece[Top]) => b \in Gone
<1> DEFINE n == Len(stack)
           C == {Top} \cup Range(piece[Top])
<1>1. /\ Popped /\ UNCHANGED heap /\ rf_flags' = rf_flags /\ cycle_id[Top] = Top
      /\ link_top' = link_top /\ cycle_id' = cycle_id
      /\ piece' = [piece EXCEPT ![Top] = <<>>]
  BY DEF pop_cycle
<1>2. /\ Gone' = Gone \cup C /\ refs' = refs /\ AllPaths' = AllPaths
      /\ \A x : Links(x)' = Links(x)
      /\ (OneWayHeap' <=> OneWayHeap)
  BY <1>1, PopCycleStep, HeapReach
<1> SUFFICES ASSUME OneWayHeap
             PROVE  /\ PathInv' /\ BackInv' /\ LowInv' /\ GoneInv'
                    /\ \A a, b \in Things :
                         <<a, b>> \in AllPaths /\ <<b, a>> \notin AllPaths /\ a \in C => b \in Gone
  BY <1>2 DEF SearchInv
<1>3. PathInv /\ BackInv /\ LowInv /\ GoneInv /\ GcTypes /\ MarkInv
  BY DEF SearchInv, GcInv
<1>4. /\ n \in Nat /\ n >= 1 /\ Top = stack[n] /\ Len(stack') = n - 1
      /\ \A i \in 1..(n - 1) : stack'[i] = stack[i]
      /\ \A i, j \in 1..n : stack[i] = stack[j] => i = j
      /\ \A i \in 1..n : stack[i] \in Things
  BY <1>1, PoppedPlaces
<1>5. /\ \A i \in 1..(n - 1) : i \in 1..n /\ i # n
      /\ n \in 1..n
  BY <1>4
<1>6. \A i \in 1..(n - 1) : piece'[stack[i]] = piece[stack[i]]
  BY <1>1, <1>3, <1>4, <1>5 DEF GcTypes
<1>7. \A x \in C : x \in Things /\ At(n, x) /\ x \in checked /\ link_top[x] = {}
  BY <1>1, <1>4, CycleFollowed DEF At
<1> HIDE DEF n
<1>8. PathInv'
  <2>1. ASSUME NEW i \in 1..Len(stack')
        PROVE  /\ rf_flags'[stack'[i]] \subseteq {"WEAK"}
               /\ i > 1 => /\ <<stack'[i - 1], stack'[i]>> \in DOMAIN refs
                           /\ "WEAK" \in rf_flags'[stack'[i]] =>
                                refs[<<stack'[i - 1], stack'[i]>>] = "weak"
    <3>1. i \in 1..(n - 1) /\ i \in 1..n /\ (i > 1 => i - 1 \in 1..(n - 1))
      BY <1>4
    <3> QED  BY <1>1, <1>3, <1>4, <3>1 DEF PathInv, n
  <2> QED  BY <1>2, <2>1 DEF PathInv
<1>9. BackInv'
  <2>1. ASSUME NEW i \in 1..Len(stack')
        PROVE  /\ Reaches(stack'[i], cycle_id'[stack'[i]])
               /\ \A x \in Range(piece'[stack'[i]]) :
                    Reaches(x, stack'[i]) /\ Reaches(stack'[i], x)
    <3>1. i \in 1..(n - 1) /\ i \in 1..n /\ stack'[i] = stack[i]
      BY <1>4, <1>5
    <3> QED  BY <1>1, <1>3, <1>6, <3>1 DEF BackInv, n
  <2> QED  BY <1>2, <2>1 DEF BackInv, Reaches
<1>10. LowInv'
  <2>1. \A x : \A i \in 1..(n - 1) : At(i, x)' => At(i, x)
    BY <1>4, <1>6 DEF At
  <2>2. ASSUME NEW i \in 1..(n - 1), NEW j \in 1..(n - 1), NEW x \in Things, NEW u \in Things,
               At(i, x)', At(j, u)', u \in Links(x), u \notin link_top[x]
        PROVE  i <= j \/ cycle_id'[stack'[i]] = cycle_id'[stack'[j]]
    <3>1. i \in 1..n /\ j \in 1..n /\ At(i, x) /\ At(j, u)
      BY <1>5, <2>1, <2>2
    <3>2. i <= j \/ cycle_id[stack[i]] = cycle_id[stack[j]]
      BY <1>3, <2>2, <3>1 DEF LowInv, n
    <3> QED  BY <1>1, <1>4, <3>2
  <2> QED  BY <1>1, <1>2, <1>4, <2>2 DEF LowInv
<1>11. ASSUME NEW x \in C, NEW u \in Links(x)
       PROVE  u \in Gone \cup C
  <2>1. u \in Things /\ u \in checked /\ u \notin link_top[x]
    BY <1>3, <1>7 DEF MarkInv, Links
  <2>2. CASE u \notin Gone
    <3>1. PICK j \in 1..n : At(j, u)
      BY <2>1, <2>2, PlaceOf DEF n
    <3>2. n <= j \/ cycle_id[stack[n]] = cycle_id[stack[j]]
      BY <1>3, <1>5, <1>7, <2>1, <3>1 DEF LowInv, n
    <3>3. n <= j
      <4>1. CASE cycle_id[stack[n]] = cycle_id[stack[j]]
        <5>1. cycle_id[stack[j]] = stack[n]
          BY <1>1, <1>4, <4>1
        <5>2. stack \in Seq(Things) /\ OrderInv(stack, rf_flags, cycle_id)
          BY DEF GcInv, GcTypes
        <5> QED  BY <1>5, <5>1, <5>2, CycleBelow DEF n
      <4> QED  BY <3>2, <4>1
    <3>4. j = n
      BY <1>4, <3>3
    <3> QED  BY <1>4, <3>1, <3>4 DEF At
  <2> QED  BY <2>2
<1>12. GoneInv'
  BY <1>2, <1>3, <1>11 DEF GoneInv
<1>13. ASSUME NEW a \in Things, NEW b \in Things,
              <<a, b>> \in AllPaths, <<b, a>> \notin AllPaths, a \in C
       PROVE  b \in Gone
  <2> DEFINE E == DOMAIN refs
             L == Gone \cup C
  <2>1. E \subseteq Things \X Things /\ AllPaths = Paths(E)
    BY <1>3 DEF GcTypes, Pairs, AllPaths
  <2>2. \A x, y \in Things : <<x, y>> \in E /\ x \in L => y \in L
    BY <1>3, <1>11 DEF GoneInv, Links
  <2>3. a \in L
    BY <1>13
  <2>4. b \in L
    <3> HIDE DEF E, L
    <3> QED  BY <1>13, <2>1, <2>2, <2>3, PathsStay
  <2>5. ASSUME b \in C
        PROVE  FALSE
    <3> DEFINE top == Top
    <3>1. Reaches(b, top) /\ Reaches(top, a) /\ top \in Things
      BY <1>3, <1>4, <1>5, <1>13, <2>5 DEF BackInv, Reaches, n
    <3> HIDE DEF top
    <3>2. Reaches(b, a)
      BY <1>3, <3>1, ReachFacts
    <3> QED  BY <1>13, <3>2 DEF Reaches
  <2> QED  BY <2>4, <2>5
<1> QED  BY <1>8, <1>9, <1>10, <1>12, <1>13

-----------------------------------------------------------------------------
(* The order of destruction: the actions.                                  *)

\* What the order of the kill list rests on.
OrderedInv == TreeOK /\ ChildInv /\ SearchInv /\ ListInv

\* No object becomes its own ancestor.
LEMMA TreeSame ==
  ASSUME TreeOK, UNCHANGED heap
  PROVE  TreeOK'
<1>1. OfStrength({"strong"})' = OfStrength({"strong"})
  BY HeapOrder
<1> QED  BY <1>1 DEF TreeOK

\* gc_cycle_push() keeps it.
LEMMA PushOrdered ==
  ASSUME GcInv, OrderedInv, NEW t \in Things, NEW strength, NEW from,
         LinkStep(t, strength, from), gc_cycle_push(t, strength, from), destructed' = destructed
  PROVE  OrderedInv'
<1>1. UNCHANGED heap /\ UNCHANGED <<heap, pass, kill_list, destructed>>
  BY DEF LinkStep
<1>2. TreeOK' /\ TreeOK /\ ChildInv /\ SearchInv /\ ListInv
  BY <1>1, TreeSame DEF OrderedInv
<1>3. CASE push_frame(t, strength, from)
  <2>1. ChildInv' /\ SearchInv' /\ Gone' = Gone
    BY <1>2, <1>3, PushFrameChild, PushFrameSearch, PushFrameStep
  <2> QED  BY <1>1, <1>2, <2>1, ListSame DEF OrderedInv
<1>4. CASE push_visited(t, strength, from) /\ push_live(t, from)
  <2>1. ChildInv' /\ SearchInv' /\ Gone' = Gone
    BY <1>2, <1>4, PushVisitedChild, PushVisitedSearch
  <2> QED  BY <1>1, <1>2, <2>1, ListSame DEF OrderedInv
<1> QED  BY <1>3, <1>4 DEF gc_cycle_push

\* A step that leaves the stack alone.
LEMMA OrderedSame ==
  ASSUME OrderedInv, UNCHANGED <<heap, pass, checked, frames, kill_list, destructed>>
  PROVE  OrderedInv'
<1>1. stack' = stack /\ checked' = checked /\ piece' = piece
  BY DEF frames, order
<1>2. Gone' = Gone
  BY <1>1, GoneSame
<1> QED  BY <1>2, TreeSame, ChildSame, SearchSame, ListSame DEF OrderedInv

\* Nothing has been visited at the start.
LEMMA OrderedInit ==
  GcInit => OrderedInv
<1> SUFFICES ASSUME GcInit
             PROVE  OrderedInv
  OBVIOUS
<1>1. /\ stack = <<>> /\ checked = {} /\ kill_list = <<>> /\ pass = "cycle"
      /\ Len(stack) = 0 /\ 1..Len(stack) = {} /\ DOMAIN kill_list = {}
  BY DEF GcInit
<1>2. Gone = {}
  BY <1>1 DEF Gone
<1>3. TreeOK
  BY DEF GcInit, ParentsOK, TreeOK
<1>4. ChildInv
  BY <1>1 DEF ChildInv
<1>5. SearchInv
  BY <1>1, <1>2 DEF SearchInv, PathInv, BackInv, LowInv, GoneInv
<1>6. ListInv
  BY <1>1, <1>2 DEF ListInv, IsInjective
<1> QED  BY <1>3, <1>4, <1>5, <1>6 DEF OrderedInv

\* A cycle goes to the kill list in an order that is right.
LEMMA PopCycleOrdered ==
  ASSUME GcInv, OrderedInv, pop_cycle
  PROVE  OrderedInv'
<1>1. Popped /\ UNCHANGED heap
  BY DEF pop_cycle
<1>2. TreeOK' /\ ChildInv /\ SearchInv /\ ListInv
  BY <1>1, TreeSame DEF OrderedInv
<1>3. ChildInv' /\ SearchInv'
  BY <1>2, PopCycleChild, PopCycleSearch
<1> DEFINE list == <<Top>> \o piece[Top]
<1>4. ASSUME NEW a \in live_obj, NEW b \in live_obj, GoesBefore(a, b), a \in Range(list)
      PROVE  b \in Gone \/ InOrder(list, a, b)
  <2>1. a \in Things /\ b \in Things
    BY DEF GcInv, GcTypes
  <2>2. Range(list) = {Top} \cup Range(piece[Top])
    BY <1>1, CycleOfTop
  <2>3. CASE OfStrength({"weak"}) = {} /\ <<a, b>> \in OfStrength({"strong"})
    BY <1>2, <1>4, <2>1, <2>3, PopCycleChild
  <2>4. CASE OneWayHeap /\ <<a, b>> \in AllPaths /\ <<b, a>> \notin AllPaths
    <3> HIDE DEF list
    <3> QED  BY <1>2, <1>4, <2>1, <2>2, <2>4, PopCycleSearch
  <2> QED  BY <1>4, <2>3, <2>4 DEF GoesBefore, OneWayHeap
<1>5. ListInv'
  BY <1>2, <1>4, ListPop
<1> QED  BY <1>2, <1>3, <1>5 DEF OrderedInv

\* Every step keeps it.
LEMMA OrderedNext ==
  GcInv /\ OrderedInv /\ [GcNext]_gc_vars => OrderedInv'
<1> SUFFICES ASSUME GcInv, OrderedInv, [GcNext]_gc_vars
             PROVE  OrderedInv'
  OBVIOUS
<1>1. CASE gc_cycle_check_all
  <2>1. next \in Things
    BY <1>1, GcAssumption DEF GcInv, GcTypes, gc_cycle_check_all, Things
  <2>2. LinkStep(next, "normal", {})
    BY <1>1 DEF LinkStep, LinkFrom, gc_cycle_check_all
  <2>3. gc_cycle_push(next, "normal", {}) /\ destructed' = destructed
    BY <1>1 DEF gc_cycle_check_all
  <2> QED  BY <2>1, <2>2, <2>3, PushOrdered
<1>2. CASE follow_link
  <2>1. PICK t \in link_top[Top] :
          /\ \A u \in link_top[Top] : refs[<<Top, u>>] = "strong" => u = t
          /\ gc_cycle_push(t, refs[<<Top, t>>], {Top})
    BY <1>2 DEF follow_link
  <2>2. stack # <<>> /\ ~mark_live /\ UNCHANGED <<heap, pass, next, kill_list, destructed>>
    BY <1>2 DEF follow_link
  <2>3. pass = "cycle"
    BY <2>2 DEF GcInv, GcTypes, LinkInv
  <2>4. Top \in Things
    BY <2>2, TopFacts, TypesOfStack DEF GcInv
  <2>5. t \in Things
    BY <2>4 DEF GcInv, GcTypes
  <2>6. LinkStep(t, refs[<<Top, t>>], {Top})
    BY <2>1, <2>2, <2>3 DEF LinkStep, LinkFrom
  <2> QED  BY <2>1, <2>2, <2>5, <2>6, PushOrdered
<1>3. CASE follow_mark_link \/ pop_mark_live
  <2>1. UNCHANGED <<heap, pass, checked, frames, kill_list, destructed>>
    BY <1>3 DEF follow_mark_link, pop_mark_live
  <2> QED  BY <2>1, OrderedSame
<1>4. CASE pop_piece
  <2>1. /\ UNCHANGED heap /\ UNCHANGED <<heap, pass, kill_list, destructed>>
    BY <1>4 DEF pop_piece
  <2>2. /\ TreeOK' /\ ChildInv' /\ SearchInv' /\ Gone' = Gone
    BY <1>4, <2>1, TreeSame, PopPieceChild, PopPieceSearch, PopPieceStep DEF OrderedInv
  <2> QED  BY <2>1, <2>2, ListSame DEF OrderedInv
<1>5. CASE pop_cycle
  BY <1>5, PopCycleOrdered
<1>6. CASE free
  <2>1. UNCHANGED heap /\ UNCHANGED <<heap, checked, frames>>
    BY <1>6 DEF free
  <2> QED  BY <1>6, <2>1, TreeSame, ChildSame, SearchSame, ListFree DEF OrderedInv
<1>7. CASE kill
  <2>1. UNCHANGED heap /\ UNCHANGED <<heap, checked, frames>>
    BY <1>7 DEF kill
  <2> QED  BY <1>7, <2>1, TreeSame, ChildSame, SearchSame, ListKill DEF OrderedInv
<1>8. CASE done \/ UNCHANGED gc_vars
  <2>1. UNCHANGED <<heap, pass, checked, frames, kill_list, destructed>>
    BY <1>8 DEF done, gc_vars
  <2> QED  BY <2>1, OrderedSame
<1> QED  BY <1>1, <1>2, <1>3, <1>4, <1>5, <1>6, <1>7, <1>8 DEF GcNext

-----------------------------------------------------------------------------
(* Theorems about the garbage collector.                                   *)

\* The inductive invariant of the cycle check holds, for every heap of
\* any size with at most one reference from a thing to another.
THEOREM GcInvariance == GcSpec => []GcInv
<1>1. GcInit => GcInv
  BY GcInitInv
<1>2. GcInv /\ [GcNext]_gc_vars => GcInv'
  BY GcNextInv
<1> QED  BY <1>1, <1>2, PTL DEF GcSpec

\* However the recursion stack is rotated, a cycle stays together on it and its
\* name is deepest, so that gc_cycle_pop() may take the cycle to be complete.
THEOREM CyclesTogether == GcSpec => []CyclesContinuous
<1>1. GcInv => CyclesContinuous
  <2> SUFFICES ASSUME GcInv
               PROVE  CyclesContinuous
    OBVIOUS
  <2>1. StackInv
    BY TypesOfStack DEF GcInv, StackInv
  <2>2. stack \in Seq(Things) /\ IsInjective(stack) /\ DOMAIN stack = 1..Len(stack)
    BY <2>1 DEF StackInv, StackTypes, OrderInv
  <2>3. Cardinality(Range(stack)) = Len(stack)
    BY <2>2, LengthCounts
  <2>4. ASSUME NEW i \in DOMAIN stack
        PROVE  /\ cycle_id[stack[i]] \in Range(stack)
               /\ Position(cycle_id[stack[i]]) <= i
               /\ \A j \in Position(cycle_id[stack[i]])..i : cycle_id[stack[j]] = cycle_id[stack[i]]
    <3>1. i \in 1..Len(stack) /\ Len(stack) \in Nat
      BY <2>2
    <3>2. PICK k \in 1..i : CycleFrom(stack, cycle_id, k, i)
      BY <2>1, <3>1 DEF StackInv, OrderInv
    <3>3. k \in 1..Len(stack) /\ k <= i
      BY <3>1
    <3>4. Position(cycle_id[stack[i]]) = k
      BY <2>1, <3>2, <3>3, PositionFacts DEF CycleFrom
    <3>5. cycle_id[stack[i]] \in Range(stack)
      BY <2>2, <3>2, <3>3 DEF CycleFrom, Range
    <3> QED  BY <3>2, <3>3, <3>4, <3>5 DEF CycleFrom
  <2> QED  BY <2>3, <2>4 DEF CyclesContinuous
<1> QED  BY <1>1, GcInvariance, PTL

\* When the cycle check is over the gc keeps exactly what live objects refer
\* to, frees the rest once, and destructs every live object once, whatever the
\* order in which gc_cycle_check_all_*() and the links led to the things.
THEOREM VerdictRight == GcSpec => []Verdict
<1>1. GcInv => Verdict
  <2> SUFFICES ASSUME GcInv, CycleChecked
               PROVE  /\ live = Reached
                      /\ Range(kill_list) = live_obj
                      /\ Len(kill_list) = Cardinality(live_obj)
                      /\ extra = live_obj \cup (Things \ live)
    BY DEF Verdict
  <2>1. stack = <<>> /\ pass = "cycle" /\ next > N
    BY DEF CycleChecked
  <2>2. GcTypes /\ LinkInv /\ MarkInv /\ KillInv
    BY DEF GcInv
  <2>3. Range(stack) = {}
    BY <2>1, EmptyRange
  <2>4. checked = Things
    <3>1. N \in Nat /\ next \in 1..N + 1 /\ Things = 1..N /\ checked \subseteq Things
      BY <2>2, GcAssumption DEF GcTypes, Things
    <3>2. \A t \in Things : t < next
      BY <2>1, <3>1
    <3> QED  BY <2>2, <3>1, <3>2 DEF MarkInv
  <2>5. (\A t \in Things : link_top[t] = {}) /\ mark_links = {}
    BY <2>1, <2>2, <2>3 DEF LinkInv, MarkInv
  <2>6. live_obj \subseteq Things /\ live \subseteq Things
    BY <2>2 DEF GcTypes
  <2>7. live_obj \subseteq live /\ live \subseteq Reached
    BY <2>2, <2>4, <2>6 DEF MarkInv
  <2>8. \A t \in live : Links(t) \subseteq live
    BY <2>2, <2>4, <2>5, <2>6 DEF MarkInv
  <2>9. Reached \subseteq live
    BY <2>2, <2>7, <2>8, ReachedFacts DEF GcTypes
  <2>10. Gone = Things
    BY <2>3, <2>4 DEF Gone, OnPieceList
  <2>11. /\ IsInjective(kill_list) /\ Range(kill_list) = live_obj
         /\ extra = {t \in Things : t \in live_obj \/ t \notin live}
    BY <2>1, <2>2, <2>6, <2>10 DEF KillInv
  <2>12. extra = live_obj \cup (Things \ live)
    BY <2>6, <2>11
  <2>13. Len(kill_list) = Cardinality(live_obj)
    BY <2>2, <2>11, LengthCounts DEF GcTypes
  <2> QED  BY <2>7, <2>9, <2>11, <2>12, <2>13
<1> QED  BY <1>1, GcInvariance, PTL

\* Objects are destructed in the right order: without weak references, before
\* their parents, however often the recursion stack is rotated; and without
\* parents, if weak references are no part of a cycle, before what they refer
\* to single way.
THEOREM DestructedInOrder == GcSpec => []DestructOrder
<1>1. GcInit => OrderedInv
  BY OrderedInit
<1>2. GcInv /\ OrderedInv /\ [GcNext]_gc_vars => OrderedInv'
  BY OrderedNext
<1>3. GcInv /\ OrderedInv => DestructOrder
  BY OrderOfList DEF GcInv, OrderedInv
<1> QED  BY <1>1, <1>2, <1>3, GcInvariance, PTL DEF GcSpec

==============================================================================
