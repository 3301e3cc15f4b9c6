----------------------------- MODULE ThreadFarm -----------------------------
(***************************************************************************)
(* Thread.Farm of src/lib/modules/Thread.pmod/Farm.pike: a dispatcher      *)
(* thread that hands the jobs of a queue to a pool of handler threads.     *)
(*                                                                         *)
(* job_queue is a Thread.Queue and every mutex a Thread.Mutex, seen from   *)
(* the outside (modules ThreadQueue and PikeMutex).  A handler holds its   *)
(* job_mutex all the time except in cond->wait().                          *)
(***************************************************************************)
EXTENDS Integers, FiniteSets, SequencesExt

CONSTANTS
  NumJobs,           \* the jobs are numbered as they are submitted
  Handlers,          \* more than the farm ever needs
  DefaultLimit,      \* the first max_num_threads, 20 in the code
  Limits,            \* the arguments of set_max_num_threads()
  Dispatcher, Setter,  \* the dispatcher, the caller of set_max_num_threads()
  None

ASSUME FarmAssumption ==
  /\ DefaultLimit \in Nat \ {0}
  /\ Limits \subseteq Nat \ {0}
  /\ {Dispatcher, Setter, None} \cap Handlers = {}
  /\ Dispatcher # Setter /\ None \notin {Dispatcher, Setter}
  /\ NumJobs \in Nat
  /\ None \notin 1..NumJobs
  /\ IsFiniteSet(Handlers)
  /\ \A n \in Limits \cup {DefaultLimit} : n <= Cardinality(Handlers)

Jobs == 1..NumJobs

VARIABLES
  job_queue,
  mutex,             \* the thread that has the mutex of the farm
  threads, free_threads, max_num_threads,
  job, ready,        \* of each handler
  pc,                \* of each handler, the dispatcher and the setter
  got,               \* the job that the dispatcher has read
  acquired,          \* the handler that it has acquired
  submitted,         \* the number of jobs so far
  ran,               \* how often each job was run
  high               \* the highest limit so far

pool == <<threads, free_threads, max_num_threads>>
vars == <<job_queue, mutex, pool, job, ready, pc, got, acquired, submitted, ran, high>>

Actors == Handlers \cup {Dispatcher, Setter}
Goto(a, where) == pc' = [pc EXCEPT ![a] = where]

FtWokenMutant == pc

\* ft_cond->broadcast(): the dispatcher and the setter wait for it.
FtWoken == [a \in Actors |-> IF pc[a] = "ft_wait" THEN "ft_woken" ELSE pc[a]]

-----------------------------------------------------------------------------
(* The handlers.                                                           *)

\* The thread starts: it locks job_mutex and is ready.
handler_start(h) ==
  /\ pc[h] = "start"
  /\ ready' = [ready EXCEPT ![h] = TRUE]
  /\ Goto(h, "loop")
  /\ UNCHANGED <<job_queue, mutex, pool, job, got, acquired, submitted, ran, high>>

\* cond->wait(key), which drops job_mutex.
handler_wait(h) ==
  /\ pc[h] = "loop"
  /\ Goto(h, "wait")
  /\ UNCHANGED <<job_queue, mutex, pool, job, ready, got, acquired, submitted, ran, high>>

\* It has been woken, with or without a job.
handler_woken(h) ==
  /\ pc[h] = "woken"
  /\ Goto(h, IF job[h] = None THEN "lock" ELSE "run")
  /\ UNCHANGED <<job_queue, mutex, pool, job, ready, got, acquired, submitted, ran, high>>

\* The job is called, and its promise is settled with what it returns or
\* throws.
handler_run(h) ==
  /\ pc[h] = "run"
  /\ ran' = [ran EXCEPT ![job[h]] = @ + 1]
  /\ Goto(h, "lock")
  /\ UNCHANGED <<job_queue, mutex, pool, job, ready, got, acquired, submitted, high>>

\* With the mutex: after a job the handler is free again, without one it
\* leaves the farm.
handler_lock(h) ==
  /\ pc[h] = "lock"
  /\ mutex = None
  /\ IF job[h] # None
     THEN /\ free_threads' = Append(free_threads, h)
          /\ Goto(h, "reset")
          /\ UNCHANGED threads
     ELSE /\ threads' = threads \ {h}
          /\ free_threads' = SelectSeq(free_threads, LAMBDA g : g # h)
          /\ Goto(h, "none")
  /\ UNCHANGED <<job_queue, mutex, max_num_threads, job, ready, got, acquired,
                 submitted, ran, high>>

\* The dispatcher may have acquired the handler already.
handler_reset(h) ==
  /\ pc[h] = "reset"
  /\ job' = [job EXCEPT ![h] = None]
  /\ pc' = [FtWoken EXCEPT ![h] = "loop"]
  /\ UNCHANGED <<job_queue, mutex, pool, ready, got, acquired, submitted, ran, high>>

handler(h) ==
  \/ handler_start(h) \/ handler_wait(h) \/ handler_woken(h)
  \/ handler_run(h) \/ handler_lock(h) \/ handler_reset(h)

\* Handler()->run() waits until the handler is ready and has dropped its
\* job_mutex.
JobMutexFreeMutant(h) == ready[h]

JobMutexFree(h) == ready[h] /\ pc[h] \in {"wait", "woken"}

-----------------------------------------------------------------------------
(* The dispatcher.                                                         *)

dispatcher_read ==
  /\ pc[Dispatcher] = "read"
  /\ job_queue # <<>>
  /\ got' = Head(job_queue)
  /\ job_queue' = Tail(job_queue)
  /\ Goto(Dispatcher, "acquire")
  /\ UNCHANGED <<mutex, pool, job, ready, acquired, submitted, ran, high>>

\* aquire_thread() locks the mutex, or has it again after ft_cond->wait().
aquire_thread_lock ==
  /\ pc[Dispatcher] \in {"acquire", "ft_woken"}
  /\ mutex = None
  /\ mutex' = Dispatcher
  /\ Goto(Dispatcher, "loop")
  /\ UNCHANGED <<job_queue, pool, job, ready, got, acquired, submitted, ran, high>>

HasRoomMutant == Cardinality(threads) <= max_num_threads

HasRoom == Cardinality(threads) < max_num_threads

aquire_thread_loopMutant ==
  /\ pc[Dispatcher] = "loop"
  /\ \/ /\ free_threads # <<>>
        /\ acquired' = Head(free_threads)
        /\ mutex' = None
        /\ Goto(Dispatcher, "run")
     \/ /\ free_threads = <<>>
        /\ HasRoom
        /\ Goto(Dispatcher, "create")
        /\ UNCHANGED <<mutex, acquired>>
     \/ /\ free_threads = <<>>
        /\ ~HasRoom
        /\ mutex' = None
        /\ Goto(Dispatcher, "ft_wait")
        /\ UNCHANGED acquired
  /\ UNCHANGED <<job_queue, pool, job, ready, got, submitted, ran, high>>

\* A thread of the pool, a new thread, or a wait for one.
aquire_thread_loop ==
  /\ pc[Dispatcher] = "loop"
  /\ \/ /\ free_threads # <<>>
        /\ acquired' = Head(free_threads)
        /\ free_threads' = Tail(free_threads)
        /\ mutex' = None
        /\ Goto(Dispatcher, "run")
     \/ /\ free_threads = <<>>
        /\ HasRoom
        /\ Goto(Dispatcher, "create")
        /\ UNCHANGED <<mutex, free_threads, acquired>>
     \/ /\ free_threads = <<>>
        /\ ~HasRoom
        /\ mutex' = None
        /\ Goto(Dispatcher, "ft_wait")
        /\ UNCHANGED <<free_threads, acquired>>
  /\ UNCHANGED <<job_queue, threads, max_num_threads, job, ready, got, submitted, ran, high>>

\* Handler() starts a thread; other threads may run before it returns.
aquire_thread_create ==
  /\ pc[Dispatcher] = "create"
  /\ LET h == CHOOSE g \in Handlers : pc[g] = "none" IN
       /\ threads' = threads \cup {h}
       /\ free_threads' = Append(free_threads, h)
       /\ job' = [job EXCEPT ![h] = None]
       /\ ready' = [ready EXCEPT ![h] = FALSE]
       /\ pc' = [pc EXCEPT ![h] = "start", ![Dispatcher] = "loop"]
  /\ UNCHANGED <<job_queue, mutex, max_num_threads, got, acquired, submitted, ran, high>>

aquire_thread == aquire_thread_lock \/ aquire_thread_loop \/ aquire_thread_create

\* Handler()->run(): cond->signal() wakes the handler if it waits.
run ==
  /\ pc[Dispatcher] = "run"
  /\ JobMutexFree(acquired)
  /\ job' = [job EXCEPT ![acquired] = got]
  /\ pc' = [pc EXCEPT ![Dispatcher] = "read",
                      ![acquired] = IF @ = "wait" THEN "woken" ELSE @]
  /\ got' = None
  /\ acquired' = None
  /\ UNCHANGED <<job_queue, mutex, pool, ready, submitted, ran, high>>

dispatcher == dispatcher_read \/ aquire_thread \/ run

-----------------------------------------------------------------------------
(* The program.                                                            *)

\* run(), run_async() and, several times, run_multiple().
Submit ==
  /\ submitted < NumJobs
  /\ submitted' = submitted + 1
  /\ job_queue' = Append(job_queue, submitted')
  /\ UNCHANGED <<mutex, pool, job, ready, pc, got, acquired, ran, high>>

set_max_num_threads(to) ==
  /\ pc[Setter] = "idle"
  /\ max_num_threads' = to
  /\ high' = IF to > high THEN to ELSE high
  /\ Goto(Setter, "test")
  /\ UNCHANGED <<job_queue, mutex, threads, free_threads, job, ready, got, acquired,
                 submitted, ran>>

\* The loop test, without the mutex; then the last broadcast.
set_max_num_threads_test ==
  /\ pc[Setter] = "test"
  /\ pc' = IF Cardinality(threads) > max_num_threads
           THEN [pc EXCEPT ![Setter] = "lock"]
           ELSE [FtWoken EXCEPT ![Setter] = "idle"]
  /\ UNCHANGED <<job_queue, mutex, pool, job, ready, got, acquired, submitted, ran, high>>

set_max_num_threads_lock ==
  /\ pc[Setter] \in {"lock", "ft_woken"}
  /\ mutex = None
  /\ \/ /\ pc[Setter] = "lock"
        /\ mutex' = Setter
        /\ Goto(Setter, "signal")
     \/ /\ pc[Setter] = "ft_woken"      \* the key is dropped at the end of the loop
        /\ Goto(Setter, "test")
        /\ UNCHANGED mutex
  /\ UNCHANGED <<job_queue, pool, job, ready, got, acquired, submitted, ran, high>>

\* While there are free threads the first one is signalled, with the mutex
\* held; then a wait for ft_cond.
set_max_num_threads_signal ==
  /\ pc[Setter] = "signal"
  /\ IF free_threads # <<>>
     THEN /\ pc' = [pc EXCEPT ![Head(free_threads)] = IF @ = "wait" THEN "woken" ELSE @]
          /\ UNCHANGED mutex
     ELSE /\ Goto(Setter, IF Cardinality(threads) > max_num_threads THEN "ft_wait" ELSE "test")
          /\ mutex' = None
  /\ UNCHANGED <<job_queue, pool, job, ready, got, acquired, submitted, ran, high>>

setter == set_max_num_threads_test \/ set_max_num_threads_lock \/ set_max_num_threads_signal

-----------------------------------------------------------------------------

Init ==
  /\ job_queue = <<>>
  /\ mutex = None
  /\ threads = {}
  /\ free_threads = <<>>
  /\ max_num_threads = DefaultLimit
  /\ job = [h \in Handlers |-> None]
  /\ ready = [h \in Handlers |-> FALSE]
  /\ pc = [a \in Actors |-> IF a = Dispatcher THEN "read"
                            ELSE IF a = Setter THEN "idle" ELSE "none"]
  /\ got = None
  /\ acquired = None
  /\ submitted = 0
  /\ ran = [j \in Jobs |-> 0]
  /\ high = DefaultLimit

Next ==
  \/ \E h \in Handlers : handler(h)
  \/ dispatcher
  \/ setter
  \/ Submit
  \/ \E to \in Limits : set_max_num_threads(to)

Spec == Init /\ [][Next]_vars

\* Threads that can run are run, jobs return, and a lock() returns when the
\* mutex is dropped again and again (CallsReturn of module PikeMutex).
LiveSpec ==
  /\ Spec
  /\ \A h \in Handlers : SF_vars(handler(h))
  /\ SF_vars(dispatcher)
  /\ SF_vars(setter)

-----------------------------------------------------------------------------
(* Properties.                                                             *)

HandlerPCs == {"none", "start", "loop", "wait", "woken", "run", "lock", "reset"}
DispatcherPCs == {"read", "acquire", "loop", "ft_wait", "ft_woken", "create", "run"}
SetterPCs == {"idle", "test", "lock", "signal", "ft_wait", "ft_woken"}

\* Every variable has its type; no thread is free twice.
TypeOK ==
  /\ job_queue \in Seq(Jobs)
  /\ mutex \in {None, Dispatcher, Setter}
  /\ threads \subseteq Handlers
  /\ free_threads \in Seq(threads)
  /\ IsInjective(free_threads)
  /\ max_num_threads \in Nat \ {0}
  /\ job \in [Handlers -> Jobs \cup {None}]
  /\ ready \in [Handlers -> BOOLEAN]
  /\ got \in Jobs \cup {None}
  /\ acquired \in Handlers \cup {None}
  /\ submitted \in 0..NumJobs
  /\ ran \in [Jobs -> Nat]
  /\ high \in Nat
  /\ pc \in [Actors -> HandlerPCs \cup DispatcherPCs \cup SetterPCs]
  /\ pc[Dispatcher] \in DispatcherPCs /\ pc[Setter] \in SetterPCs
  /\ \A h \in Handlers : pc[h] \in HandlerPCs

\* A job that was handed over and not yet run.
Waiting(h) == job[h] # None /\ pc[h] \notin {"none", "lock", "reset"}

\* From run() until it has been run, a job is in exactly one place, the queue,
\* the dispatcher or one handler; then it has been run once and is in none.
\* So no job is lost, doubled or run again: no handler is given a second job
\* before it has forgotten the first, and none forgets a job that it was just
\* given.
JobKept ==
  \A j \in Jobs :
    LET places == {i \in DOMAIN job_queue : job_queue[i] = j}
                    \cup {a \in {Dispatcher} : got = j}
                    \cup {h \in Handlers : job[h] = j /\ Waiting(h)}
    IN  Cardinality(places) + ran[j] = IF j <= submitted THEN 1 ELSE 0

\* There are never more threads than the highest limit so far.  (When the
\* limit is lowered while the dispatcher makes a thread, there may be more
\* than the limit in force.)
ThreadLimit == Cardinality(threads) <= high

\* Every job is run in the end and its promise settled, unless
\* set_max_num_threads() lowers the limit below the number of threads: it
\* then keeps the mutex for ever.
JobRuns ==
  \A j \in Jobs :
    j <= submitted ~> ran[j] > 0 \/ pc[Setter] \in {"lock", "signal", "ft_wait"}

-----------------------------------------------------------------------------
(* The inductive invariant.                                                *)

MutexInv ==
  /\ mutex = Dispatcher <=> pc[Dispatcher] \in {"loop", "create"}
  /\ mutex = Setter <=> pc[Setter] = "signal"

\* A thread is in the farm until its loop ends, and the limit is kept also
\* when the dispatcher has decided to make another one.
PoolInv ==
  /\ \A h \in Handlers : h \in threads <=> pc[h] # "none"
  /\ max_num_threads <= high /\ high <= Cardinality(Handlers)
  /\ ThreadLimit
  /\ pc[Dispatcher] = "create" => Cardinality(threads) < high

DispatchInv ==
  /\ got # None <=> pc[Dispatcher] # "read"
  /\ acquired # None <=> pc[Dispatcher] = "run"
  /\ acquired \notin ToSet(free_threads)

\* A thread that is free, or that the dispatcher has taken, has no job, or has
\* yet to forget the one that it has run.
Idle(h) == h \in ToSet(free_threads) \/ h = acquired
JobInv ==
  \A h \in Handlers :
    /\ Idle(h) => job[h] = None \/ pc[h] = "reset"
    /\ pc[h] = "run" => job[h] # None

\* A thread that is woken without a job was signalled by set_max_num_threads(),
\* which keeps the mutex from then on.
Dismissed(h) == pc[h] \in {"woken", "lock"} /\ job[h] = None
DismissInv ==
  \A h \in Handlers : Dismissed(h) => mutex = Setter /\ free_threads # <<>>

\* The queue has the last jobs, in order; a job that has left it is in one
\* other place, or has been run.
Taken == submitted - Len(job_queue)
QueueInv ==
  /\ Taken \in Nat
  /\ \A i \in DOMAIN job_queue : job_queue[i] = Taken + i
Has(h, j) == job[h] = j /\ Waiting(h)
PlaceInv ==
  \A j \in Jobs :
    /\ got = j \/ ran[j] > 0 \/ (\E h \in Handlers : Has(h, j)) <=> j <= Taken
    /\ got = j => ran[j] = 0
    /\ \A h \in Handlers : Has(h, j) =>
         ran[j] = 0 /\ got # j /\ \A g \in Handlers : Has(g, j) => g = h
    /\ ran[j] <= 1

IInv ==
  /\ TypeOK
  /\ MutexInv
  /\ PoolInv
  /\ DispatchInv
  /\ JobInv
  /\ DismissInv
  /\ QueueInv
  /\ PlaceInv

=============================================================================
