-------------------------- MODULE ThreadFarm_proofs --------------------------
(***************************************************************************)
(* Theorems about Thread.Farm, for every number of jobs, every set of      *)
(* handlers that is large enough for the limits, and every set of limits.  *)
(***************************************************************************)
EXTENDS ThreadFarm, FiniteSetTheorems, SequenceTheorems, TLAPS

-----------------------------------------------------------------------------
(* The list of free threads.                                               *)

\* A thread that was not free is put last.
LEMMA AppendFree ==
  ASSUME NEW S, NEW s \in Seq(S), IsInjective(s), NEW h, h \notin ToSet(s)
  PROVE  /\ Append(s, h) \in Seq(S \cup {h})
         /\ IsInjective(Append(s, h))
         /\ ToSet(Append(s, h)) = ToSet(s) \cup {h}
         /\ Append(s, h) # <<>>
<1> DEFINE r == Append(s, h)
<1>1. s \in Seq(S \cup {h})
  BY SeqDef
<1>2. /\ r \in Seq(S \cup {h})
      /\ Len(r) = Len(s) + 1 /\ Len(s) \in Nat
      /\ DOMAIN s = 1..Len(s) /\ DOMAIN r = 1..Len(r)
      /\ r[Len(s) + 1] = h
      /\ \A i \in 1..Len(s) : r[i] = s[i]
  BY <1>1
<1>3. DOMAIN r = DOMAIN s \cup {Len(s) + 1}
  BY <1>2
<1>4. \A i \in DOMAIN s : s[i] # h
  BY DEF ToSet
<1>5. IsInjective(r)
  BY <1>2, <1>3, <1>4 DEF IsInjective
<1>6. ToSet(r) = ToSet(s) \cup {h}
  BY <1>2, <1>3 DEF ToSet
<1> QED  BY <1>2, <1>5, <1>6

\* The first of the free threads is taken off.
LEMMA TailFree ==
  ASSUME NEW S, NEW s \in Seq(S), IsInjective(s), s # <<>>
  PROVE  /\ Head(s) \in ToSet(s) /\ Head(s) \in S
         /\ Tail(s) \in Seq(S)
         /\ IsInjective(Tail(s))
         /\ ToSet(Tail(s)) = ToSet(s) \ {Head(s)}
<1> DEFINE r == Tail(s)
<1>1. /\ r \in Seq(S)
      /\ Len(r) = Len(s) - 1 /\ Len(s) \in Nat /\ Len(r) \in Nat
      /\ DOMAIN s = 1..Len(s) /\ DOMAIN r = 1..Len(r)
      /\ \A i \in 1..Len(r) : r[i] = s[i + 1]
      /\ Head(s) = s[1] /\ 1 \in DOMAIN s /\ Head(s) \in S
  BY HeadTailProperties
<1>2. IsInjective(r)
  <2> SUFFICES ASSUME NEW i \in DOMAIN r, NEW j \in DOMAIN r, r[i] = r[j]
               PROVE  i = j
    BY DEF IsInjective
  <2>1. s[i + 1] = s[j + 1] /\ i + 1 \in DOMAIN s /\ j + 1 \in DOMAIN s
    BY <1>1
  <2>2. i + 1 = j + 1
    BY <2>1 DEF IsInjective
  <2> QED  BY <1>1, <2>2
<1>3. ToSet(r) \subseteq ToSet(s) \ {Head(s)}
  <2> SUFFICES ASSUME NEW i \in DOMAIN r
               PROVE  r[i] \in ToSet(s) \ {s[1]}
    BY <1>1 DEF ToSet
  <2>1. r[i] = s[i + 1] /\ i + 1 \in DOMAIN s /\ i + 1 # 1
    BY <1>1
  <2>2. s[i + 1] # s[1]
    BY <1>1, <2>1 DEF IsInjective
  <2> QED  BY <2>1, <2>2 DEF ToSet
<1>4. ToSet(s) \ {Head(s)} \subseteq ToSet(r)
  <2> SUFFICES ASSUME NEW i \in DOMAIN s, s[i] # s[1]
               PROVE  s[i] \in ToSet(r)
    BY <1>1 DEF ToSet
  <2>1. i - 1 \in DOMAIN r /\ r[i - 1] = s[i]
    BY <1>1
  <2> QED  BY <2>1 DEF ToSet
<1> QED  BY <1>1, <1>2, <1>3, <1>4 DEF ToSet

\* The free threads are threads of the farm.
LEMMA FreeThreads ==
  ASSUME TypeOK
  PROVE  ToSet(free_threads) \subseteq threads /\ ToSet(free_threads) \subseteq Handlers
BY DEF TypeOK, ToSet

-----------------------------------------------------------------------------
(* The jobs.                                                               *)

\* The queue is left alone.
LEMMA SameQueue ==
  ASSUME QueueInv, UNCHANGED <<job_queue, submitted>>
  PROVE  QueueInv' /\ Taken' = Taken
BY DEF QueueInv, Taken

\* Nothing is run, no handler is given a job and none forgets one.
LEMMA SamePlaces ==
  ASSUME PlaceInv, Taken' = Taken, UNCHANGED <<got, ran>>,
         \A h \in Handlers, j \in Jobs : Has(h, j)' <=> Has(h, j)
  PROVE  PlaceInv'
BY DEF PlaceInv

\* The names of the places where the threads are.
PcType ==
  /\ pc \in [Actors -> HandlerPCs \cup DispatcherPCs \cup SetterPCs]
  /\ pc[Dispatcher] \in DispatcherPCs /\ pc[Setter] \in SetterPCs
  /\ \A h \in Handlers : pc[h] \in HandlerPCs

\* The threads are different from each other.
LEMMA Different ==
  /\ Handlers \subseteq Actors /\ Dispatcher \in Actors /\ Setter \in Actors
  /\ Dispatcher # Setter /\ None # Dispatcher /\ None # Setter
  /\ Dispatcher \notin Handlers /\ Setter \notin Handlers /\ None \notin Handlers
  /\ None \notin Jobs
BY FarmAssumption DEF Actors, Jobs

\* A broadcast of ft_cond wakes no handler.
LEMMA FtWokenFacts ==
  ASSUME PcType
  PROVE  /\ FtWoken \in [Actors -> HandlerPCs \cup DispatcherPCs \cup SetterPCs]
         /\ \A h \in Handlers : FtWoken[h] = pc[h]
         /\ FtWoken[Dispatcher] = IF pc[Dispatcher] = "ft_wait" THEN "ft_woken"
                                  ELSE pc[Dispatcher]
         /\ FtWoken[Setter] = IF pc[Setter] = "ft_wait" THEN "ft_woken" ELSE pc[Setter]
BY Different DEF PcType, FtWoken, HandlerPCs, DispatcherPCs, SetterPCs

-----------------------------------------------------------------------------
(* The handlers.                                                           *)

\* A handler moves on without a change of its job.
LEMMA MoveStep ==
  ASSUME IInv, NEW h \in Handlers, NEW where \in HandlerPCs \ {"none"},
         Goto(h, where), ready' \in [Handlers -> BOOLEAN],
         UNCHANGED <<job_queue, mutex, pool, job, got, acquired, submitted, ran, high>>,
         pc[h] \notin {"none", "reset"},
         where = "run" => job[h] # None,
         where \in {"woken", "lock"} /\ job[h] = None =>
           mutex = Setter /\ free_threads # <<>>,
         pc[h] # "lock" \/ where = "lock",
         where \in {"lock", "reset"} => job[h] = None
  PROVE  IInv'
<1> USE Different
<1>0. TypeOK /\ MutexInv /\ PoolInv /\ DispatchInv /\ JobInv /\ DismissInv
        /\ QueueInv /\ PlaceInv
  BY DEF IInv
<1>1. /\ pc \in [Actors -> HandlerPCs \cup DispatcherPCs \cup SetterPCs]
      /\ pc' = [pc EXCEPT ![h] = where]
      /\ pc'[h] = where /\ \A a \in Actors \ {h} : pc'[a] = pc[a]
  BY <1>0 DEF TypeOK, Goto
<1>2. UNCHANGED <<threads, free_threads, max_num_threads>>
  BY DEF pool
<1>3. TypeOK'
  BY <1>0, <1>1, <1>2 DEF TypeOK
<1>4. MutexInv'
  BY <1>0, <1>1 DEF MutexInv
<1>5. PoolInv'
  BY <1>0, <1>1, <1>2 DEF PoolInv, ThreadLimit
<1>6. DispatchInv'
  BY <1>0, <1>1, <1>2 DEF DispatchInv
<1>7. JobInv'
  <2> SUFFICES ASSUME NEW g \in Handlers
               PROVE  /\ Idle(g)' => job'[g] = None \/ pc'[g] = "reset"
                      /\ pc'[g] = "run" => job'[g] # None
    BY DEF JobInv
  <2>1. Idle(g)' = Idle(g)
    BY <1>2 DEF Idle
  <2> QED  BY <1>0, <1>1, <2>1 DEF JobInv
<1>8. DismissInv'
  BY <1>0, <1>1, <1>2 DEF DismissInv, Dismissed
<1>9. QueueInv' /\ Taken' = Taken
  BY <1>0, SameQueue
<1>10. PlaceInv'
  <2>1. \A g \in Handlers, j \in Jobs : Has(g, j)' <=> Has(g, j)
    BY <1>1 DEF Has, Waiting
  <2> QED  BY <1>0, <1>9, <2>1, SamePlaces
<1> QED  BY <1>3, <1>4, <1>5, <1>6, <1>7, <1>8, <1>9, <1>10 DEF IInv

\* The handler runs the job: it was nowhere else, and had not been run.
LEMMA RunStep ==
  ASSUME IInv, NEW h \in Handlers, handler_run(h)
  PROVE  IInv'
<1> USE Different
<1>0. TypeOK /\ MutexInv /\ PoolInv /\ DispatchInv /\ JobInv /\ DismissInv
        /\ QueueInv /\ PlaceInv
  BY DEF IInv
<1>1. /\ pc \in [Actors -> HandlerPCs \cup DispatcherPCs \cup SetterPCs]
      /\ pc' = [pc EXCEPT ![h] = "lock"]
      /\ pc'[h] = "lock" /\ \A a \in Actors \ {h} : pc'[a] = pc[a]
      /\ pc[h] = "run"
  BY <1>0 DEF TypeOK, handler_run, Goto
<1>2. UNCHANGED <<job_queue, mutex, threads, free_threads, max_num_threads, job, ready,
                  got, acquired, submitted, high>>
  BY DEF pool, handler_run
<1>3. job[h] # None /\ job[h] \in Jobs
  BY <1>0, <1>1 DEF JobInv, TypeOK
<1>4. /\ ran' \in [Jobs -> Nat] /\ ran'[job[h]] = ran[job[h]] + 1
      /\ \A j \in Jobs \ {job[h]} : ran'[j] = ran[j]
  BY <1>0, <1>3 DEF TypeOK, handler_run
<1>5. TypeOK'
  BY <1>0, <1>1, <1>2, <1>4 DEF TypeOK, HandlerPCs
<1>6. MutexInv' /\ PoolInv' /\ DispatchInv'
  BY <1>0, <1>1, <1>2 DEF MutexInv, PoolInv, ThreadLimit, DispatchInv
<1>7. JobInv'
  <2> SUFFICES ASSUME NEW g \in Handlers
               PROVE  /\ Idle(g)' => job'[g] = None \/ pc'[g] = "reset"
                      /\ pc'[g] = "run" => job'[g] # None
    BY DEF JobInv
  <2>1. Idle(g)' = Idle(g)
    BY <1>2 DEF Idle
  <2> QED  BY <1>0, <1>1, <1>2, <2>1 DEF JobInv
<1>8. DismissInv'
  BY <1>0, <1>1, <1>2, <1>3 DEF DismissInv, Dismissed
<1>9. QueueInv' /\ Taken' = Taken
  BY <1>0, <1>2, SameQueue
<1>10. PlaceInv'
  <2> SUFFICES ASSUME NEW j \in Jobs
               PROVE  /\ got' = j \/ ran'[j] > 0 \/ (\E g \in Handlers : Has(g, j)')
                           <=> j <= Taken'
                      /\ got' = j => ran'[j] = 0
                      /\ \A g \in Handlers : Has(g, j)' =>
                           ran'[j] = 0 /\ got' # j /\ \A f \in Handlers : Has(f, j)' => f = g
                      /\ ran'[j] <= 1
    BY DEF PlaceInv
  <2>1. /\ ~Has(h, j)' /\ \A g \in Handlers : Has(g, j)' => Has(g, j)
        /\ \A g \in Handlers \ {h} : Has(g, j)' <=> Has(g, j)
    BY <1>1, <1>2 DEF Has, Waiting
  <2>2. Has(h, job[h])
    BY <1>1, <1>3 DEF Has, Waiting
  <2>3. CASE j = job[h]
    <3>1. ran[j] = 0 /\ got # j /\ j <= Taken /\ \A g \in Handlers : Has(g, j) => g = h
      BY <1>0, <2>2, <2>3 DEF PlaceInv
    <3>2. ran'[j] = 1 /\ \A g \in Handlers : ~Has(g, j)'
      BY <1>4, <2>1, <2>3, <3>1
    <3> QED  BY <1>2, <1>9, <3>1, <3>2
  <2>4. CASE j # job[h]
    <3>1. \A g \in Handlers : Has(g, j)' <=> Has(g, j)
      BY <2>1, <2>4 DEF Has
    <3> QED  BY <1>0, <1>2, <1>4, <1>9, <2>4, <3>1 DEF PlaceInv
  <2> QED  BY <2>3, <2>4
<1> QED  BY <1>5, <1>6, <1>7, <1>8, <1>9, <1>10 DEF IInv

\* The handler is free after its job.  Without a job it would be there only
\* while set_max_num_threads() has the mutex.
LEMMA FreeStep ==
  ASSUME IInv, NEW h \in Handlers, handler_lock(h)
  PROVE  IInv'
<1> USE Different
<1>0. TypeOK /\ MutexInv /\ PoolInv /\ DispatchInv /\ JobInv /\ DismissInv
        /\ QueueInv /\ PlaceInv
  BY DEF IInv
<1>1. job[h] # None /\ pc[h] = "lock" /\ mutex = None
  BY <1>0 DEF DismissInv, Dismissed, handler_lock
<1>2. /\ pc \in [Actors -> HandlerPCs \cup DispatcherPCs \cup SetterPCs]
      /\ pc' = [pc EXCEPT ![h] = "reset"]
      /\ pc'[h] = "reset" /\ \A a \in Actors \ {h} : pc'[a] = pc[a]
      /\ free_threads' = Append(free_threads, h)
  BY <1>0, <1>1 DEF TypeOK, handler_lock, Goto
<1>3. UNCHANGED <<job_queue, mutex, threads, max_num_threads, job, ready,
                  got, acquired, submitted, ran, high>>
  BY <1>1 DEF handler_lock
<1>4. h \notin ToSet(free_threads) /\ h # acquired /\ h \in threads
  BY <1>0, <1>1 DEF JobInv, Idle, PoolInv
<1>5. /\ free_threads' \in Seq(threads \cup {h}) /\ IsInjective(free_threads')
      /\ ToSet(free_threads)' = ToSet(free_threads) \cup {h}
      /\ free_threads' # <<>>
  BY <1>0, <1>2, <1>4, AppendFree DEF TypeOK
<1>6. threads \cup {h} = threads
  BY <1>4
<1>7. TypeOK'
  BY <1>0, <1>2, <1>3, <1>5, <1>6 DEF TypeOK, HandlerPCs
<1>8. MutexInv' /\ PoolInv'
  BY <1>0, <1>1, <1>2, <1>3 DEF MutexInv, PoolInv, ThreadLimit
<1>9. DispatchInv'
  BY <1>0, <1>2, <1>3, <1>4, <1>5 DEF DispatchInv
<1>10. JobInv'
  <2> SUFFICES ASSUME NEW g \in Handlers
               PROVE  /\ Idle(g)' => job'[g] = None \/ pc'[g] = "reset"
                      /\ pc'[g] = "run" => job'[g] # None
    BY DEF JobInv
  <2>1. Idle(g)' => Idle(g) \/ g = h
    BY <1>3, <1>5 DEF Idle
  <2> QED  BY <1>0, <1>2, <1>3, <2>1 DEF JobInv
<1>11. DismissInv'
  BY <1>0, <1>2, <1>3, <1>5 DEF DismissInv, Dismissed
<1>12. QueueInv' /\ Taken' = Taken
  BY <1>0, <1>3, SameQueue
<1>13. PlaceInv'
  <2>1. \A g \in Handlers, j \in Jobs : Has(g, j)' <=> Has(g, j)
    BY <1>1, <1>2, <1>3 DEF Has, Waiting
  <2> QED  BY <1>0, <1>3, <1>12, <2>1, SamePlaces
<1> QED  BY <1>7, <1>8, <1>9, <1>10, <1>11, <1>12, <1>13 DEF IInv

\* The handler forgets the job that it has run, whether or not the dispatcher
\* has acquired it by then.
LEMMA ResetStep ==
  ASSUME IInv, NEW h \in Handlers, handler_reset(h)
  PROVE  IInv'
<1> USE Different
<1>0. TypeOK /\ MutexInv /\ PoolInv /\ DispatchInv /\ JobInv /\ DismissInv
        /\ QueueInv /\ PlaceInv
  BY DEF IInv
<1>1. PcType
  BY <1>0 DEF TypeOK, PcType
<1>2. /\ pc' \in [Actors -> HandlerPCs \cup DispatcherPCs \cup SetterPCs]
      /\ pc[h] = "reset" /\ pc'[h] = "loop" /\ \A g \in Handlers \ {h} : pc'[g] = pc[g]
      /\ pc'[Dispatcher] = IF pc[Dispatcher] = "ft_wait" THEN "ft_woken" ELSE pc[Dispatcher]
      /\ pc'[Setter] = IF pc[Setter] = "ft_wait" THEN "ft_woken" ELSE pc[Setter]
  BY <1>1, FtWokenFacts DEF handler_reset, HandlerPCs
<1>3. UNCHANGED <<job_queue, mutex, threads, free_threads, max_num_threads, ready,
                  got, acquired, submitted, ran, high>>
  BY DEF pool, handler_reset
<1>4. /\ job' \in [Handlers -> Jobs \cup {None}] /\ job'[h] = None
      /\ \A g \in Handlers \ {h} : job'[g] = job[g]
  BY <1>0 DEF handler_reset, TypeOK
<1>5. PcType'
  BY <1>1, <1>2 DEF PcType, HandlerPCs, DispatcherPCs, SetterPCs
<1>6. TypeOK'
  BY <1>0, <1>3, <1>4, <1>5 DEF TypeOK, PcType
<1>7. MutexInv' /\ DispatchInv'
  BY <1>0, <1>2, <1>3 DEF MutexInv, DispatchInv
<1>8. PoolInv'
  BY <1>0, <1>2, <1>3 DEF PoolInv, ThreadLimit
<1>9. JobInv'
  <2> SUFFICES ASSUME NEW g \in Handlers
               PROVE  /\ Idle(g)' => job'[g] = None \/ pc'[g] = "reset"
                      /\ pc'[g] = "run" => job'[g] # None
    BY DEF JobInv
  <2>1. Idle(g)' = Idle(g)
    BY <1>3 DEF Idle
  <2> QED  BY <1>0, <1>2, <1>4, <2>1 DEF JobInv
<1>10. DismissInv'
  BY <1>0, <1>2, <1>3, <1>4 DEF DismissInv, Dismissed
<1>11. QueueInv' /\ Taken' = Taken
  BY <1>0, <1>3, SameQueue
<1>12. PlaceInv'
  <2>1. \A g \in Handlers, j \in Jobs : Has(g, j)' <=> Has(g, j)
    BY <1>2, <1>4 DEF Has, Waiting
  <2> QED  BY <1>0, <1>3, <1>11, <2>1, SamePlaces
<1> QED  BY <1>6, <1>7, <1>8, <1>9, <1>10, <1>11, <1>12 DEF IInv

\* Every step of a handler.
LEMMA HandlerStep ==
  ASSUME IInv, NEW h \in Handlers, handler(h)
  PROVE  IInv'
<1>0. TypeOK /\ DismissInv
  BY DEF IInv
<1>1. CASE handler_start(h)
  <2>1. ready' \in [Handlers -> BOOLEAN]
    BY <1>0, <1>1 DEF handler_start, TypeOK
  <2>2. /\ pc[h] = "start" /\ Goto(h, "loop") /\ "loop" \in HandlerPCs \ {"none"}
        /\ UNCHANGED <<job_queue, mutex, pool, job, got, acquired, submitted, ran, high>>
    BY <1>1 DEF handler_start, HandlerPCs
  <2> QED  BY <2>1, <2>2, MoveStep
<1>2. CASE handler_wait(h)
  <2>1. ready' \in [Handlers -> BOOLEAN]
    BY <1>0, <1>2 DEF handler_wait, TypeOK
  <2>2. /\ pc[h] = "loop" /\ Goto(h, "wait") /\ "wait" \in HandlerPCs \ {"none"}
        /\ UNCHANGED <<job_queue, mutex, pool, job, got, acquired, submitted, ran, high>>
    BY <1>2 DEF handler_wait, HandlerPCs
  <2> QED  BY <2>1, <2>2, MoveStep
<1>3. CASE handler_woken(h)
  <2> DEFINE where == IF job[h] = None THEN "lock" ELSE "run"
  <2>1. ready' \in [Handlers -> BOOLEAN]
    BY <1>0, <1>3 DEF handler_woken, TypeOK
  <2>2. /\ pc[h] = "woken" /\ Goto(h, where) /\ where \in HandlerPCs \ {"none"}
        /\ UNCHANGED <<job_queue, mutex, pool, job, got, acquired, submitted, ran, high>>
    BY <1>3 DEF handler_woken, HandlerPCs
  <2>3. job[h] = None => mutex = Setter /\ free_threads # <<>>
    BY <1>0, <2>2 DEF DismissInv, Dismissed
  <2>4. /\ where = "run" => job[h] # None
        /\ where \in {"woken", "lock"} /\ job[h] = None =>
             mutex = Setter /\ free_threads # <<>>
        /\ where \in {"lock", "reset"} => job[h] = None
        /\ pc[h] \notin {"none", "reset"} /\ pc[h] # "lock"
    BY <2>2, <2>3
  <2> HIDE DEF where
  <2> QED  BY <2>1, <2>2, <2>4, MoveStep
<1> QED  BY <1>1, <1>2, <1>3, RunStep, FreeStep, ResetStep DEF handler

-----------------------------------------------------------------------------
(* The dispatcher.                                                         *)

\* The first job of the queue has not been seen by anybody before.
LEMMA ReadStep ==
  ASSUME IInv, dispatcher_read
  PROVE  IInv'
<1> USE Different
<1>0. TypeOK /\ MutexInv /\ PoolInv /\ DispatchInv /\ JobInv /\ DismissInv
        /\ QueueInv /\ PlaceInv
  BY DEF IInv
<1>1. /\ pc \in [Actors -> HandlerPCs \cup DispatcherPCs \cup SetterPCs]
      /\ pc' = [pc EXCEPT ![Dispatcher] = "acquire"]
      /\ pc[Dispatcher] = "read" /\ pc'[Dispatcher] = "acquire"
      /\ \A a \in Actors \ {Dispatcher} : pc'[a] = pc[a]
  BY <1>0 DEF TypeOK, dispatcher_read, Goto
<1>2. UNCHANGED <<mutex, threads, free_threads, max_num_threads, job, ready,
                  acquired, submitted, ran, high>>
  BY DEF pool, dispatcher_read
<1>3. /\ job_queue \in Seq(Jobs) /\ job_queue # <<>>
      /\ job_queue' = Tail(job_queue) /\ got' = Head(job_queue)
  BY <1>0 DEF TypeOK, dispatcher_read
<1>4. /\ job_queue' \in Seq(Jobs) /\ got' \in Jobs
      /\ Len(job_queue) \in Nat /\ Len(job_queue') = Len(job_queue) - 1
      /\ DOMAIN job_queue = 1..Len(job_queue) /\ DOMAIN job_queue' = 1..Len(job_queue')
      /\ \A i \in DOMAIN job_queue' : job_queue'[i] = job_queue[i + 1] /\ i + 1 \in DOMAIN job_queue
      /\ got' = job_queue[1] /\ 1 \in DOMAIN job_queue
  BY <1>3, HeadTailProperties
<1>5. TypeOK'
  BY <1>0, <1>1, <1>2, <1>4 DEF TypeOK, DispatcherPCs
<1>6. MutexInv' /\ PoolInv'
  BY <1>0, <1>1, <1>2 DEF MutexInv, PoolInv, ThreadLimit
<1>7. DispatchInv'
  BY <1>0, <1>1, <1>2, <1>4 DEF DispatchInv
<1>8. JobInv'
  BY <1>0, <1>1, <1>2 DEF JobInv, Idle
<1>9. DismissInv'
  BY <1>0, <1>1, <1>2 DEF DismissInv, Dismissed
<1>10. submitted \in Nat /\ Taken \in Nat /\ Taken' = Taken + 1
  BY <1>0, <1>2, <1>4 DEF Taken, TypeOK, QueueInv
<1>11. got' = Taken + 1
  BY <1>0, <1>4 DEF QueueInv
<1>12. QueueInv'
  <2>1. ASSUME NEW i \in DOMAIN job_queue'
        PROVE  job_queue'[i] = Taken' + i
    <3>1. job_queue'[i] = Taken + (i + 1) /\ i \in Nat
      BY <1>0, <1>4 DEF QueueInv
    <3> QED  BY <1>10, <3>1
  <2> QED  BY <1>10, <2>1 DEF QueueInv
<1>13. PlaceInv'
  <2> SUFFICES ASSUME NEW j \in Jobs
               PROVE  /\ got' = j \/ ran'[j] > 0 \/ (\E g \in Handlers : Has(g, j)')
                           <=> j <= Taken'
                      /\ got' = j => ran'[j] = 0
                      /\ \A g \in Handlers : Has(g, j)' =>
                           ran'[j] = 0 /\ got' # j /\ \A f \in Handlers : Has(f, j)' => f = g
                      /\ ran'[j] <= 1
    BY DEF PlaceInv
  <2>1. \A g \in Handlers : Has(g, j)' = Has(g, j)
    BY <1>1, <1>2 DEF Has, Waiting
  <2>2. ran[j] \in Nat /\ j \in Nat
    BY <1>0 DEF TypeOK, Jobs
  <2>3. CASE j = got'
    <3>1. ~(j <= Taken)
      BY <1>10, <1>11, <2>3
    <3>2. ran[j] = 0 /\ \A g \in Handlers : ~Has(g, j)
      BY <1>0, <2>2, <3>1 DEF PlaceInv
    <3> QED  BY <1>2, <1>10, <1>11, <2>1, <2>3, <3>2
  <2>4. CASE j # got'
    <3>1. j <= Taken <=> j <= Taken'
      BY <1>10, <1>11, <2>2, <2>4
    <3>2. got # j
      BY <1>0, <1>1 DEF DispatchInv
    <3> QED  BY <1>0, <1>2, <2>1, <2>4, <3>1, <3>2 DEF PlaceInv
  <2> QED  BY <2>3, <2>4
<1> QED  BY <1>5, <1>6, <1>7, <1>8, <1>9, <1>12, <1>13 DEF IInv

\* The mutex is taken or dropped while the pool, the jobs and the handlers
\* stay as they are, and no handler is on its way out.
LEMMA LockStep ==
  ASSUME IInv, PcType', MutexInv',
         mutex' \in {None, Dispatcher, Setter},
         \A h \in Handlers : pc'[h] = pc[h],
         UNCHANGED <<job_queue, pool, job, ready, got, acquired, submitted, ran, high>>,
         pc[Dispatcher] = "read" <=> pc'[Dispatcher] = "read",
         pc[Dispatcher] = "run" <=> pc'[Dispatcher] = "run",
         pc'[Dispatcher] = "create" =>
           pc[Dispatcher] = "create" \/ Cardinality(threads) < high,
         mutex = Setter /\ free_threads # <<>> => mutex' = Setter
  PROVE  IInv'
<1> USE Different
<1>0. TypeOK /\ MutexInv /\ PoolInv /\ DispatchInv /\ JobInv /\ DismissInv
        /\ QueueInv /\ PlaceInv
  BY DEF IInv
<1>1. UNCHANGED <<threads, free_threads, max_num_threads>>
  BY DEF pool
<1>2. TypeOK'
  BY <1>0, <1>1 DEF TypeOK, PcType
<1>3. PoolInv'
  BY <1>0, <1>1 DEF PoolInv, ThreadLimit
<1>4. DispatchInv'
  BY <1>0, <1>1 DEF DispatchInv
<1>5. JobInv'
  BY <1>0, <1>1 DEF JobInv, Idle
<1>6. DismissInv'
  BY <1>0, <1>1 DEF DismissInv, Dismissed
<1>7. QueueInv' /\ Taken' = Taken
  BY <1>0, SameQueue
<1>8. PlaceInv'
  <2>1. \A g \in Handlers, j \in Jobs : Has(g, j)' <=> Has(g, j)
    BY DEF Has, Waiting
  <2> QED  BY <1>0, <1>7, <2>1, SamePlaces
<1> QED  BY <1>2, <1>3, <1>4, <1>5, <1>6, <1>7, <1>8 DEF IInv

\* A free thread is acquired: nobody is on the way out while the dispatcher
\* has the mutex.
LEMMA TakeStep ==
  ASSUME IInv, pc[Dispatcher] = "loop", free_threads # <<>>,
         acquired' = Head(free_threads), free_threads' = Tail(free_threads),
         mutex' = None, Goto(Dispatcher, "run"),
         UNCHANGED <<job_queue, threads, max_num_threads, job, ready, got, submitted,
                     ran, high>>
  PROVE  IInv'
<1> USE Different
<1>0. TypeOK /\ MutexInv /\ PoolInv /\ DispatchInv /\ JobInv /\ DismissInv
        /\ QueueInv /\ PlaceInv
  BY DEF IInv
<1>1. /\ pc \in [Actors -> HandlerPCs \cup DispatcherPCs \cup SetterPCs]
      /\ pc' = [pc EXCEPT ![Dispatcher] = "run"]
      /\ pc'[Dispatcher] = "run"
      /\ \A a \in Actors \ {Dispatcher} : pc'[a] = pc[a]
  BY <1>0 DEF TypeOK, Goto
<1>2. /\ acquired' \in ToSet(free_threads) /\ acquired' \in Handlers
      /\ free_threads' \in Seq(threads) /\ IsInjective(free_threads')
      /\ ToSet(free_threads)' = ToSet(free_threads) \ {acquired'}
  BY <1>0, TailFree DEF TypeOK
<1>3. mutex = Dispatcher /\ \A h \in Handlers : ~Dismissed(h)
  BY <1>0 DEF MutexInv, DismissInv
<1>4. TypeOK'
  BY <1>0, <1>1, <1>2 DEF TypeOK, DispatcherPCs
<1>5. MutexInv' /\ PoolInv'
  BY <1>0, <1>1, <1>3 DEF MutexInv, PoolInv, ThreadLimit
<1>6. DispatchInv'
  BY <1>0, <1>1, <1>2 DEF DispatchInv
<1>7. JobInv'
  <2> SUFFICES ASSUME NEW g \in Handlers
               PROVE  /\ Idle(g)' => job'[g] = None \/ pc'[g] = "reset"
                      /\ pc'[g] = "run" => job'[g] # None
    BY DEF JobInv
  <2>1. Idle(g)' => Idle(g)
    BY <1>2 DEF Idle
  <2> QED  BY <1>0, <1>1, <2>1 DEF JobInv
<1>8. DismissInv'
  BY <1>1, <1>3 DEF DismissInv, Dismissed
<1>9. QueueInv' /\ Taken' = Taken
  BY <1>0, SameQueue
<1>10. PlaceInv'
  <2>1. \A g \in Handlers, j \in Jobs : Has(g, j)' <=> Has(g, j)
    BY <1>1 DEF Has, Waiting
  <2> QED  BY <1>0, <1>9, <2>1, SamePlaces
<1> QED  BY <1>4, <1>5, <1>6, <1>7, <1>8, <1>9, <1>10 DEF IInv

\* There is always a thread to be made: the limits are no higher than the
\* number of handlers.
LEMMA RoomForOne ==
  ASSUME TypeOK, PoolInv, Cardinality(threads) < high
  PROVE  /\ \E h \in Handlers : pc[h] = "none"
         /\ IsFiniteSet(threads) /\ Cardinality(threads) \in Nat
<1>1. IsFiniteSet(threads) /\ IsFiniteSet(Handlers)
  BY FarmAssumption, FS_Subset DEF TypeOK
<1>2. Cardinality(threads) \in Nat /\ Cardinality(Handlers) \in Nat
  BY <1>1, FS_CardinalityType
<1>3. Cardinality(threads) < Cardinality(Handlers)
  BY <1>2 DEF PoolInv, TypeOK
<1>4. threads # Handlers
  BY <1>2, <1>3
<1> QED  BY <1>1, <1>2, <1>4 DEF PoolInv, TypeOK

\* A thread is made.  The limit in force may have been lowered since the
\* test, the highest limit has not.
LEMMA CreateStep ==
  ASSUME IInv, aquire_thread_create
  PROVE  IInv'
<1> USE Different
<1>0. TypeOK /\ MutexInv /\ PoolInv /\ DispatchInv /\ JobInv /\ DismissInv
        /\ QueueInv /\ PlaceInv
  BY DEF IInv
<1>1. pc[Dispatcher] = "create" /\ mutex = Dispatcher /\ Cardinality(threads) < high
  BY <1>0 DEF aquire_thread_create, MutexInv, PoolInv
<1> DEFINE h == CHOOSE g \in Handlers : pc[g] = "none"
<1>2. h \in Handlers /\ pc[h] = "none"
  BY <1>0, <1>1, RoomForOne
<1>3. /\ threads' = threads \cup {h}
      /\ free_threads' = Append(free_threads, h)
      /\ job' = [job EXCEPT ![h] = None]
      /\ ready' = [ready EXCEPT ![h] = FALSE]
      /\ pc' = [pc EXCEPT ![h] = "start", ![Dispatcher] = "loop"]
      /\ UNCHANGED <<job_queue, mutex, max_num_threads, got, acquired, submitted, ran, high>>
  BY DEF aquire_thread_create
<1> HIDE DEF h
<1>4. h \notin threads /\ h \notin ToSet(free_threads)
  BY <1>0, <1>2, FreeThreads DEF PoolInv
<1>5. /\ free_threads' \in Seq(threads') /\ IsInjective(free_threads')
      /\ ToSet(free_threads)' = ToSet(free_threads) \cup {h}
      /\ free_threads' # <<>>
  BY <1>0, <1>3, <1>4, AppendFree DEF TypeOK
<1>6. /\ pc \in [Actors -> HandlerPCs \cup DispatcherPCs \cup SetterPCs]
      /\ pc' \in [Actors -> HandlerPCs \cup DispatcherPCs \cup SetterPCs]
      /\ pc'[Dispatcher] = "loop" /\ pc'[h] = "start"
      /\ \A a \in Actors \ {h, Dispatcher} : pc'[a] = pc[a]
  BY <1>0, <1>2, <1>3 DEF TypeOK, DispatcherPCs, HandlerPCs
<1>7. /\ job' \in [Handlers -> Jobs \cup {None}] /\ job'[h] = None
      /\ \A g \in Handlers \ {h} : job'[g] = job[g]
      /\ ready' \in [Handlers -> BOOLEAN]
  BY <1>0, <1>2, <1>3 DEF TypeOK
<1>8. TypeOK'
  BY <1>0, <1>2, <1>3, <1>5, <1>6, <1>7 DEF TypeOK, DispatcherPCs, HandlerPCs
<1>9. MutexInv'
  BY <1>0, <1>1, <1>2, <1>3, <1>6 DEF MutexInv
<1>10. PoolInv'
  <2>1. Cardinality(threads') = Cardinality(threads) + 1
    BY <1>0, <1>1, <1>3, <1>4, RoomForOne, FS_AddElement
  <2>2. Cardinality(threads') <= high
    BY <1>0, <1>1, <2>1, RoomForOne DEF TypeOK
  <2>3. \A g \in Handlers : g \in threads' <=> pc'[g] # "none"
    BY <1>0, <1>2, <1>3, <1>6 DEF PoolInv
  <2> QED  BY <1>0, <1>3, <1>6, <2>2, <2>3 DEF PoolInv, ThreadLimit
<1>11. DispatchInv'
  BY <1>0, <1>1, <1>2, <1>3, <1>5, <1>6 DEF DispatchInv
<1>12. JobInv'
  <2> SUFFICES ASSUME NEW g \in Handlers
               PROVE  /\ Idle(g)' => job'[g] = None \/ pc'[g] = "reset"
                      /\ pc'[g] = "run" => job'[g] # None
    BY DEF JobInv
  <2>1. Idle(g)' => Idle(g) \/ g = h
    BY <1>3, <1>5 DEF Idle
  <2> QED  BY <1>0, <1>6, <1>7, <2>1 DEF JobInv
<1>13. DismissInv'
  BY <1>0, <1>1, <1>3, <1>5, <1>6, <1>7 DEF DismissInv, Dismissed
<1>14. QueueInv' /\ Taken' = Taken
  BY <1>0, <1>3, SameQueue
<1>15. PlaceInv'
  <2>1. \A g \in Handlers, j \in Jobs : Has(g, j)' <=> Has(g, j)
    BY <1>2, <1>6, <1>7 DEF Has, Waiting
  <2> QED  BY <1>0, <1>3, <1>14, <2>1, SamePlaces
<1> QED  BY <1>8, <1>9, <1>10, <1>11, <1>12, <1>13, <1>14, <1>15 DEF IInv

\* The job is handed over to the acquired thread, which has none.
LEMMA HandOverStep ==
  ASSUME IInv, run
  PROVE  IInv'
<1> USE Different
<1>0. TypeOK /\ MutexInv /\ PoolInv /\ DispatchInv /\ JobInv /\ DismissInv
        /\ QueueInv /\ PlaceInv
  BY DEF IInv
<1>1. /\ pc[Dispatcher] = "run" /\ acquired \in Handlers /\ got \in Jobs
      /\ pc[acquired] \in {"wait", "woken"}
      /\ acquired \notin ToSet(free_threads)
  BY <1>0 DEF run, JobMutexFree, DispatchInv, TypeOK
<1>5. PICK h \in Handlers : h = acquired
  BY <1>1
<1>2. /\ pc \in [Actors -> HandlerPCs \cup DispatcherPCs \cup SetterPCs]
      /\ pc' \in [Actors -> HandlerPCs \cup DispatcherPCs \cup SetterPCs]
      /\ pc'[Dispatcher] = "read" /\ pc'[h] = "woken"
      /\ \A a \in Actors \ {h, Dispatcher} : pc'[a] = pc[a]
  BY <1>0, <1>1, <1>5 DEF TypeOK, run, DispatcherPCs, HandlerPCs
<1>3. /\ job' \in [Handlers -> Jobs \cup {None}] /\ job'[h] = got
      /\ \A g \in Handlers \ {h} : job'[g] = job[g]
  BY <1>0, <1>1, <1>5 DEF TypeOK, run
<1>4. /\ got' = None /\ acquired' = None
      /\ UNCHANGED <<job_queue, mutex, threads, free_threads, max_num_threads, ready,
                     submitted, ran, high>>
  BY DEF run, pool
<1>6. TypeOK'
  BY <1>0, <1>2, <1>3, <1>4, <1>5 DEF TypeOK, DispatcherPCs, HandlerPCs
<1>7. MutexInv'
  BY <1>0, <1>1, <1>2, <1>4, <1>5 DEF MutexInv
<1>8. PoolInv'
  BY <1>0, <1>1, <1>2, <1>4, <1>5 DEF PoolInv, ThreadLimit
<1>9. DispatchInv'
  BY <1>0, <1>2, <1>4, FreeThreads DEF DispatchInv
<1>10. JobInv'
  <2> SUFFICES ASSUME NEW g \in Handlers
               PROVE  /\ Idle(g)' => job'[g] = None \/ pc'[g] = "reset"
                      /\ pc'[g] = "run" => job'[g] # None
    BY DEF JobInv
  <2>1. Idle(g)' => Idle(g) /\ g # h
    BY <1>1, <1>4, <1>5 DEF Idle
  <2> QED  BY <1>0, <1>2, <1>3, <2>1 DEF JobInv
<1>11. DismissInv'
  BY <1>0, <1>1, <1>2, <1>3, <1>4 DEF DismissInv, Dismissed
<1>12. QueueInv' /\ Taken' = Taken
  BY <1>0, <1>4, SameQueue
<1>13. PlaceInv'
  <2> SUFFICES ASSUME NEW j \in Jobs
               PROVE  /\ got' = j \/ ran'[j] > 0 \/ (\E g \in Handlers : Has(g, j)')
                           <=> j <= Taken'
                      /\ got' = j => ran'[j] = 0
                      /\ \A g \in Handlers : Has(g, j)' =>
                           ran'[j] = 0 /\ got' # j /\ \A f \in Handlers : Has(f, j)' => f = g
                      /\ ran'[j] <= 1
    BY DEF PlaceInv
  <2>1. \A g \in Handlers \ {h} : Has(g, j)' <=> Has(g, j)
    BY <1>2, <1>3 DEF Has, Waiting
  <2>2. CASE j = got
    <3>1. ran[j] = 0 /\ j <= Taken /\ \A g \in Handlers : ~Has(g, j)
      BY <1>0, <2>2 DEF PlaceInv
    <3>2. Has(h, j)' /\ \A g \in Handlers : Has(g, j)' => g = h
      BY <1>2, <1>3, <2>1, <2>2, <3>1 DEF Has, Waiting
    <3> QED  BY <1>4, <1>12, <3>1, <3>2
  <2>3. CASE j # got
    <3>1. ~Has(h, j)' /\ ~Has(h, j)
      BY <1>0, <1>1, <1>3, <1>5, <2>3 DEF Has, Waiting, JobInv, Idle
    <3>2. \A g \in Handlers : Has(g, j)' <=> Has(g, j)
      BY <2>1, <3>1
    <3>3. got' # j
      BY <1>4
    <3> QED  BY <1>0, <1>4, <1>12, <2>3, <3>2, <3>3 DEF PlaceInv
  <2> QED  BY <2>2, <2>3
<1> QED  BY <1>6, <1>7, <1>8, <1>9, <1>10, <1>11, <1>12, <1>13 DEF IInv

\* Every step of the dispatcher.
LEMMA DispatcherStep ==
  ASSUME IInv, dispatcher
  PROVE  IInv'
<1> USE Different
<1>0. TypeOK /\ MutexInv /\ PoolInv
  BY DEF IInv
<1>1. CASE aquire_thread_lock
  <2>1. /\ pc' \in [Actors -> HandlerPCs \cup DispatcherPCs \cup SetterPCs]
        /\ pc'[Dispatcher] = "loop" /\ \A a \in Actors \ {Dispatcher} : pc'[a] = pc[a]
        /\ pc[Dispatcher] \in {"acquire", "ft_woken"}
        /\ mutex = None /\ mutex' = Dispatcher
        /\ UNCHANGED <<job_queue, pool, job, ready, got, acquired, submitted, ran, high>>
    BY <1>0, <1>1 DEF TypeOK, aquire_thread_lock, Goto, DispatcherPCs
  <2>2. PcType'
    BY <1>0, <2>1 DEF TypeOK, PcType, DispatcherPCs
  <2>3. MutexInv'
    BY <1>0, <2>1 DEF MutexInv
  <2> QED  BY <2>1, <2>2, <2>3, LockStep
<1>2. CASE aquire_thread_loop
  <2>1. CASE free_threads # <<>>
    BY <1>2, <2>1, TakeStep DEF aquire_thread_loop
  <2>2. CASE free_threads = <<>> /\ HasRoom
    <3>1. /\ pc' \in [Actors -> HandlerPCs \cup DispatcherPCs \cup SetterPCs]
          /\ pc'[Dispatcher] = "create" /\ \A a \in Actors \ {Dispatcher} : pc'[a] = pc[a]
          /\ pc[Dispatcher] = "loop"
          /\ mutex' = mutex
          /\ UNCHANGED <<job_queue, pool, job, ready, got, acquired, submitted, ran, high>>
      BY <1>0, <1>2, <2>2 DEF TypeOK, aquire_thread_loop, Goto, DispatcherPCs, pool
    <3>2. PcType'
      BY <1>0, <3>1 DEF TypeOK, PcType, DispatcherPCs
    <3>3. MutexInv' /\ mutex = Dispatcher
      BY <1>0, <3>1 DEF MutexInv
    <3>4. IsFiniteSet(threads)
      BY <1>0, FarmAssumption, FS_Subset DEF TypeOK
    <3>5. Cardinality(threads) \in Nat
      BY <3>4, FS_CardinalityType
    <3>6. Cardinality(threads) < high
      BY <1>0, <2>2, <3>5 DEF HasRoom, PoolInv, TypeOK
    <3> QED  BY <3>1, <3>2, <3>3, <3>6, LockStep
  <2>3. CASE free_threads = <<>> /\ ~HasRoom
    <3>1. /\ pc' \in [Actors -> HandlerPCs \cup DispatcherPCs \cup SetterPCs]
          /\ pc'[Dispatcher] = "ft_wait" /\ \A a \in Actors \ {Dispatcher} : pc'[a] = pc[a]
          /\ pc[Dispatcher] = "loop"
          /\ mutex' = None
          /\ UNCHANGED <<job_queue, pool, job, ready, got, acquired, submitted, ran, high>>
      BY <1>0, <1>2, <2>3 DEF TypeOK, aquire_thread_loop, Goto, DispatcherPCs, pool
    <3>2. PcType'
      BY <1>0, <3>1 DEF TypeOK, PcType, DispatcherPCs
    <3>3. MutexInv' /\ mutex = Dispatcher
      BY <1>0, <3>1 DEF MutexInv
    <3> QED  BY <3>1, <3>2, <3>3, LockStep
  <2> QED  BY <2>1, <2>2, <2>3
<1> QED  BY <1>1, <1>2, ReadStep, CreateStep, HandOverStep DEF dispatcher, aquire_thread

-----------------------------------------------------------------------------
(* The program.                                                            *)

\* A new job is put last.
LEMMA SubmitStep ==
  ASSUME IInv, Submit
  PROVE  IInv'
<1> USE Different
<1>0. TypeOK /\ MutexInv /\ PoolInv /\ DispatchInv /\ JobInv /\ DismissInv
        /\ QueueInv /\ PlaceInv
  BY DEF IInv
<1>1. /\ UNCHANGED <<mutex, threads, free_threads, max_num_threads, job, ready, pc,
                     got, acquired, ran, high>>
      /\ submitted \in Nat /\ submitted < NumJobs
      /\ submitted' = submitted + 1 /\ job_queue' = Append(job_queue, submitted')
      /\ job_queue \in Seq(Jobs)
  BY <1>0 DEF Submit, pool, TypeOK
<1>2. submitted' \in Jobs /\ submitted' \in 0..NumJobs
  BY <1>1, FarmAssumption DEF Jobs
<1>3. /\ job_queue' \in Seq(Jobs)
      /\ Len(job_queue) \in Nat /\ Len(job_queue') = Len(job_queue) + 1
      /\ DOMAIN job_queue = 1..Len(job_queue)
      /\ DOMAIN job_queue' = DOMAIN job_queue \cup {Len(job_queue) + 1}
      /\ \A i \in DOMAIN job_queue : job_queue'[i] = job_queue[i]
      /\ job_queue'[Len(job_queue) + 1] = submitted'
  BY <1>1, <1>2
<1>4. TypeOK'
  BY <1>0, <1>1, <1>2, <1>3 DEF TypeOK
<1>5. MutexInv' /\ PoolInv' /\ DispatchInv' /\ JobInv' /\ DismissInv'
  BY <1>0, <1>1 DEF MutexInv, PoolInv, ThreadLimit, DispatchInv, JobInv, Idle,
                    DismissInv, Dismissed
<1>6. Taken' = Taken /\ Taken \in Nat
  BY <1>0, <1>1, <1>3 DEF Taken, QueueInv
<1>7. submitted' = Taken + (Len(job_queue) + 1)
  BY <1>1, <1>3 DEF Taken
<1>8. QueueInv'
  BY <1>0, <1>3, <1>6, <1>7 DEF QueueInv
<1>9. PlaceInv'
  <2>1. \A g \in Handlers, j \in Jobs : Has(g, j)' <=> Has(g, j)
    BY <1>1 DEF Has, Waiting
  <2> QED  BY <1>0, <1>1, <1>6, <2>1, SamePlaces
<1> QED  BY <1>4, <1>5, <1>8, <1>9 DEF IInv

\* The limit is changed, without the mutex.
LEMMA LimitStep ==
  ASSUME IInv, NEW to \in Limits, set_max_num_threads(to)
  PROVE  IInv'
<1> USE Different
<1>0. TypeOK /\ MutexInv /\ PoolInv /\ DispatchInv /\ JobInv /\ DismissInv
        /\ QueueInv /\ PlaceInv
  BY DEF IInv
<1>1. /\ UNCHANGED <<job_queue, mutex, threads, free_threads, job, ready,
                     got, acquired, submitted, ran>>
      /\ pc[Setter] = "idle" /\ max_num_threads' = to
      /\ high' = IF to > high THEN to ELSE high
  BY DEF set_max_num_threads
<1>2. /\ pc' \in [Actors -> HandlerPCs \cup DispatcherPCs \cup SetterPCs]
      /\ pc'[Setter] = "test" /\ \A a \in Actors \ {Setter} : pc'[a] = pc[a]
  BY <1>0 DEF TypeOK, set_max_num_threads, Goto, SetterPCs
<1>3. to \in Nat \ {0} /\ to <= Cardinality(Handlers) /\ high \in Nat
  BY <1>0, FarmAssumption DEF TypeOK
<1>4. high' \in Nat /\ to <= high' /\ high <= high' /\ high' <= Cardinality(Handlers)
  BY <1>0, <1>1, <1>3 DEF PoolInv
<1>5. TypeOK'
  BY <1>0, <1>1, <1>2, <1>3, <1>4 DEF TypeOK, SetterPCs
<1>6. MutexInv' /\ DispatchInv' /\ JobInv' /\ DismissInv'
  BY <1>0, <1>1, <1>2 DEF MutexInv, DispatchInv, JobInv, Idle, DismissInv, Dismissed
<1>7. PoolInv'
  <2>1. IsFiniteSet(threads)
    BY <1>0, FarmAssumption, FS_Subset DEF TypeOK
  <2>2. Cardinality(threads) \in Nat
    BY <2>1, FS_CardinalityType
  <2>3. /\ Cardinality(threads) <= high'
        /\ Cardinality(threads) < high => Cardinality(threads) < high'
    BY <1>0, <1>3, <1>4, <2>2 DEF PoolInv, ThreadLimit
  <2> QED  BY <1>0, <1>1, <1>2, <1>4, <2>3 DEF PoolInv, ThreadLimit
<1>8. QueueInv' /\ Taken' = Taken
  BY <1>0, <1>1, SameQueue
<1>9. PlaceInv'
  <2>1. \A g \in Handlers, j \in Jobs : Has(g, j)' <=> Has(g, j)
    BY <1>1, <1>2 DEF Has, Waiting
  <2> QED  BY <1>0, <1>1, <1>8, <2>1, SamePlaces
<1> QED  BY <1>5, <1>6, <1>7, <1>8, <1>9 DEF IInv

\* Every step of set_max_num_threads() after the first.
LEMMA SetterStep ==
  ASSUME IInv, setter
  PROVE  IInv'
<1> USE Different
<1>0. TypeOK /\ MutexInv /\ DismissInv /\ JobInv /\ PoolInv
  BY DEF IInv
<1>1. PcType
  BY <1>0 DEF TypeOK, PcType
<1>2. CASE set_max_num_threads_test
  <2>1. /\ pc[Setter] = "test" /\ mutex' = mutex
        /\ UNCHANGED <<job_queue, pool, job, ready, got, acquired, submitted, ran, high>>
    BY <1>2 DEF set_max_num_threads_test
  <2>2. /\ pc' \in [Actors -> HandlerPCs \cup DispatcherPCs \cup SetterPCs]
        /\ pc'[Setter] \in {"lock", "idle"} /\ \A h \in Handlers : pc'[h] = pc[h]
        /\ pc'[Dispatcher] \in {pc[Dispatcher], FtWoken[Dispatcher]}
    BY <1>1, <1>2, FtWokenFacts DEF set_max_num_threads_test, PcType, SetterPCs
  <2>3. \/ pc'[Dispatcher] = pc[Dispatcher]
        \/ pc[Dispatcher] = "ft_wait" /\ pc'[Dispatcher] = "ft_woken"
    BY <1>1, <2>2, FtWokenFacts
  <2>4. PcType'
    BY <1>1, <2>2, <2>3 DEF PcType, SetterPCs, DispatcherPCs
  <2>5. MutexInv'
    BY <1>0, <2>1, <2>2, <2>3 DEF MutexInv
  <2>6. mutex' \in {None, Dispatcher, Setter}
    BY <1>0, <2>1 DEF TypeOK
  <2> QED  BY <2>1, <2>2, <2>3, <2>4, <2>5, <2>6, LockStep
<1>3. CASE set_max_num_threads_lock
  <2>1. /\ pc[Setter] \in {"lock", "ft_woken"} /\ mutex = None
        /\ UNCHANGED <<job_queue, pool, job, ready, got, acquired, submitted, ran, high>>
    BY <1>3 DEF set_max_num_threads_lock
  <2>2. /\ pc' \in [Actors -> HandlerPCs \cup DispatcherPCs \cup SetterPCs]
        /\ \A a \in Actors \ {Setter} : pc'[a] = pc[a]
        /\ \/ pc'[Setter] = "signal" /\ mutex' = Setter
           \/ pc'[Setter] = "test" /\ mutex' = None
    BY <1>1, <1>3 DEF set_max_num_threads_lock, PcType, Goto, SetterPCs
  <2>3. PcType'
    BY <1>1, <2>2 DEF PcType, SetterPCs
  <2>4. MutexInv'
    BY <1>0, <2>1, <2>2 DEF MutexInv
  <2> QED  BY <2>1, <2>2, <2>3, <2>4, LockStep
<1>4. CASE set_max_num_threads_signal /\ free_threads # <<>>
  <2> DEFINE h == Head(free_threads)
  <2>1. h \in ToSet(free_threads) /\ h \in Handlers
    BY <1>0, <1>4, TailFree DEF TypeOK
  <2>2. /\ pc[Setter] = "signal" /\ mutex' = mutex /\ mutex = Setter
        /\ pc' = [pc EXCEPT ![h] = IF @ = "wait" THEN "woken" ELSE @]
        /\ UNCHANGED <<job_queue, pool, job, ready, got, acquired, submitted, ran, high>>
    BY <1>0, <1>4 DEF set_max_num_threads_signal, MutexInv
  <2> HIDE DEF h
  <2>3. CASE pc[h] = "wait"
    <3>1. Goto(h, "woken") /\ "woken" \in HandlerPCs \ {"none"}
      BY <1>1, <2>1, <2>2, <2>3 DEF PcType, Goto, HandlerPCs
    <3>2. ready' \in [Handlers -> BOOLEAN]
      BY <1>0, <2>2 DEF TypeOK
    <3> QED  BY <1>4, <2>1, <2>2, <2>3, <3>1, <3>2, MoveStep
  <2>4. CASE pc[h] # "wait"
    <3>1. pc' = pc
      BY <1>1, <2>1, <2>2, <2>4 DEF PcType
    <3>2. PcType' /\ MutexInv' /\ mutex' \in {None, Dispatcher, Setter}
      BY <1>0, <1>1, <2>2, <3>1 DEF PcType, MutexInv
    <3> QED  BY <2>2, <3>1, <3>2, LockStep
  <2> QED  BY <2>3, <2>4
<1>5. CASE set_max_num_threads_signal /\ free_threads = <<>>
  <2>1. /\ pc[Setter] = "signal" /\ mutex' = None /\ mutex = Setter
        /\ UNCHANGED <<job_queue, pool, job, ready, got, acquired, submitted, ran, high>>
    BY <1>0, <1>5 DEF set_max_num_threads_signal, MutexInv
  <2>2. /\ pc' \in [Actors -> HandlerPCs \cup DispatcherPCs \cup SetterPCs]
        /\ \A a \in Actors \ {Setter} : pc'[a] = pc[a]
        /\ pc'[Setter] \in {"ft_wait", "test"}
    BY <1>1, <1>5 DEF set_max_num_threads_signal, PcType, Goto, SetterPCs
  <2>3. PcType'
    BY <1>1, <2>2 DEF PcType, SetterPCs
  <2>4. MutexInv'
    BY <1>0, <2>1, <2>2 DEF MutexInv
  <2> QED  BY <1>5, <2>1, <2>2, <2>3, <2>4, LockStep
<1> QED  BY <1>2, <1>3, <1>4, <1>5 DEF setter

-----------------------------------------------------------------------------
(* The theorems.                                                           *)

LEMMA InitInv == Init => IInv
<1> SUFFICES ASSUME Init PROVE IInv
  OBVIOUS
<1> USE Different
<1>1. /\ job_queue = <<>> /\ free_threads = <<>> /\ threads = {}
      /\ mutex = None /\ got = None /\ acquired = None /\ submitted = 0
      /\ max_num_threads = DefaultLimit /\ high = DefaultLimit
      /\ job = [h \in Handlers |-> None] /\ ready = [h \in Handlers |-> FALSE]
      /\ ran = [j \in Jobs |-> 0]
  BY DEF Init
<1>2. /\ pc \in [Actors -> HandlerPCs \cup DispatcherPCs \cup SetterPCs]
      /\ pc[Dispatcher] = "read" /\ pc[Setter] = "idle"
      /\ \A h \in Handlers : pc[h] = "none"
  BY DEF Init, HandlerPCs, DispatcherPCs, SetterPCs
<1>3. Cardinality(threads) = 0 /\ DefaultLimit \in Nat \ {0}
        /\ DefaultLimit <= Cardinality(Handlers)
  BY <1>1, FS_EmptySet, FarmAssumption
<1>4. IsInjective(free_threads) /\ ToSet(free_threads) = {}
  BY <1>1 DEF IsInjective, ToSet
<1>5. TypeOK
  BY <1>1, <1>2, <1>3, <1>4, FarmAssumption
     DEF TypeOK, HandlerPCs, DispatcherPCs, SetterPCs
<1>6. MutexInv /\ DispatchInv
  BY <1>1, <1>2, <1>4 DEF MutexInv, DispatchInv
<1>7. PoolInv
  BY <1>1, <1>2, <1>3 DEF PoolInv, ThreadLimit
<1>8. JobInv /\ DismissInv
  BY <1>1, <1>2 DEF JobInv, Idle, DismissInv, Dismissed
<1>9. QueueInv
  BY <1>1 DEF QueueInv, Taken
<1>10. PlaceInv
  <2>1. Len(job_queue) = 0 /\ submitted = 0
    BY <1>1
  <2>2. Taken = 0
    BY <2>1 DEF Taken
  <2>3. \A j \in Jobs : ~(j <= Taken)
    BY <2>2, FarmAssumption DEF Jobs
  <2> QED  BY <1>1, <2>3 DEF PlaceInv, Has, Waiting
<1> QED  BY <1>5, <1>6, <1>7, <1>8, <1>9, <1>10 DEF IInv

\* Every step of the farm preserves the inductive invariant.
LEMMA NextInv == IInv /\ [Next]_vars => IInv'
<1> SUFFICES ASSUME IInv, [Next]_vars PROVE IInv'
  OBVIOUS
<1>1. CASE Next
  BY <1>1, HandlerStep, DispatcherStep, SetterStep, SubmitStep, LimitStep DEF Next
<1>2. CASE UNCHANGED vars
  BY <1>2 DEF vars, pool, IInv, TypeOK, MutexInv, PoolInv, ThreadLimit, DispatchInv,
       JobInv, Idle, DismissInv, Dismissed, QueueInv, Taken, PlaceInv, Has, Waiting
<1> QED  BY <1>1, <1>2

\* The inductive invariant of the farm holds in every reachable state.
THEOREM Invariance == Spec => []IInv
<1>1. Init => IInv
  BY InitInv
<1>2. IInv /\ [Next]_vars => IInv'
  BY NextInv
<1> QED  BY <1>1, <1>2, PTL DEF Spec

\* Every variable has its type, and no thread is free twice.
THEOREM TypeCorrect == Spec => []TypeOK
<1>1. IInv => TypeOK
  BY DEF IInv
<1> QED  BY <1>1, Invariance, PTL

\* The farm never has more threads than the highest limit so far, also when
\* set_max_num_threads() lowers the limit while the dispatcher makes one.
THEOREM LimitKept == Spec => []ThreadLimit
<1>1. IInv => ThreadLimit
  BY DEF IInv, PoolInv
<1> QED  BY <1>1, Invariance, PTL

\* A submitted job is in one place or has been run once, and no other job is
\* anywhere.
LEMMA KeptBecause == IInv => JobKept
<1> SUFFICES ASSUME IInv, NEW j \in Jobs
             PROVE  LET places == {i \in DOMAIN job_queue : job_queue[i] = j}
                                    \cup {a \in {Dispatcher} : got = j}
                                    \cup {h \in Handlers : job[h] = j /\ Waiting(h)}
                    IN  Cardinality(places) + ran[j] = IF j <= submitted THEN 1 ELSE 0
  BY DEF JobKept
<1> DEFINE queued == {i \in DOMAIN job_queue : job_queue[i] = j}
           read == {a \in {Dispatcher} : got = j}
           handed == {h \in Handlers : job[h] = j /\ Waiting(h)}
           places == queued \cup read \cup handed
<1>0. TypeOK /\ QueueInv /\ PlaceInv
  BY DEF IInv
<1>1. /\ j \in Nat /\ ran[j] \in Nat /\ Taken \in Nat /\ submitted \in Nat
      /\ Len(job_queue) \in Nat /\ submitted = Taken + Len(job_queue)
  BY <1>0 DEF TypeOK, QueueInv, Jobs, Taken
<1>2. DOMAIN job_queue = 1..Len(job_queue) /\ \A i \in DOMAIN job_queue : job_queue[i] = Taken + i
  BY <1>0 DEF TypeOK, QueueInv
<1>3. \A h \in handed : Has(h, j)
  BY DEF Has
<1>4. CASE ~(j <= submitted)
  <2>1. queued = {} /\ ~(j <= Taken)
    BY <1>1, <1>2, <1>4
  <2>2. ran[j] = 0 /\ read = {} /\ handed = {}
    BY <1>0, <1>1, <1>3, <2>1 DEF PlaceInv
  <2> QED  BY <1>4, <2>1, <2>2, FS_EmptySet
<1>5. CASE j <= submitted /\ ~(j <= Taken)
  <2>1. j - Taken \in DOMAIN job_queue /\ \A i \in queued : i = j - Taken
    BY <1>1, <1>2, <1>5
  <2>2. queued = {j - Taken}
    BY <1>1, <1>2, <2>1
  <2>3. ran[j] = 0 /\ read = {} /\ handed = {}
    BY <1>0, <1>1, <1>3, <1>5 DEF PlaceInv
  <2>4. Cardinality(places) = 1
    BY <2>2, <2>3, FS_Singleton
  <2> QED  BY <1>5, <2>3, <2>4
<1>6. CASE j <= Taken
  <2>1. queued = {} /\ j <= submitted
    BY <1>1, <1>2, <1>6
  <2>2. CASE got = j
    <3>1. ran[j] = 0 /\ handed = {}
      BY <1>0, <1>3, <2>2 DEF PlaceInv
    <3>2. places = {Dispatcher}
      BY <2>1, <2>2, <3>1
    <3>3. Cardinality(places) = 1
      BY <3>2, FS_Singleton
    <3> QED  BY <2>1, <3>1, <3>3
  <2>3. CASE got # j /\ \E h \in handed : TRUE
    <3>1. PICK h \in handed : TRUE
      BY <2>3
    <3>2. ran[j] = 0 /\ handed = {h}
      BY <1>0, <1>3, <3>1 DEF PlaceInv
    <3>3. places = {h}
      BY <2>1, <2>3, <3>2
    <3>4. Cardinality(places) = 1
      BY <3>3, FS_Singleton
    <3> QED  BY <2>1, <3>2, <3>4
  <2>4. CASE got # j /\ handed = {}
    <3>1. \A h \in Handlers : ~Has(h, j)
      BY <2>4 DEF Has
    <3>2. ran[j] = 1
      BY <1>0, <1>1, <1>6, <2>4, <3>1 DEF PlaceInv
    <3>3. places = {}
      BY <2>1, <2>4
    <3> QED  BY <2>1, <3>2, <3>3, FS_EmptySet
  <2> QED  BY <2>2, <2>3, <2>4
<1> QED  BY <1>4, <1>5, <1>6

\* From run() until it has been run, a job is in exactly one of the queue, the
\* hands of the dispatcher and those of one handler; then it has been run
\* once.  None is lost and none is run again.
THEOREM JobsKept == Spec => []JobKept
BY Invariance, KeptBecause, PTL
=============================================================================
