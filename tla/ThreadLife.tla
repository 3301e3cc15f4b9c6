----------------------------- MODULE ThreadLife -----------------------------
(***************************************************************************)
(* The life of a Thread.Thread object, src/src/pike_threads.c: create(),   *)
(* the end of the thread function, wait(), interrupt(), kill() and the     *)
(* destruction of the object, which may come before, at or after the end.  *)
(*                                                                         *)
(* A step is what a thread does with the interpreter lock (module          *)
(* InterpreterLock) from one yield to the next.  The operating system's    *)
(* condition status_change and the thread id are freed by                  *)
(* cleanup_thread_state(), by whoever is the last to need them.            *)
(***************************************************************************)
EXTENDS Integers, FiniteSets

CONSTANTS
  Threads,
  Main,          \* the thread that runs first
  MaxWaiting,    \* bounds how far waiting is raised, in all threads together
  None

ASSUME LifeAssumption ==
  /\ Main \in Threads
  /\ IsFiniteSet(Threads)
  /\ None \notin Threads
  /\ MaxWaiting \in Nat \ {0}

VARIABLES
  status,        \* of each thread: "NOT_STARTED", "RUNNING", "EXITED", "ABORTED"
  thread_obj,    \* whether the object of the thread is not destructed
  flags,         \* the pending signals, THREAD_FLAG_TERM and THREAD_FLAG_INTR
  waiting,       \* how many wait() calls need status_change
  cleaned,       \* how often cleanup_thread_state() has freed it
  pc, target,    \* what each thread is in, and the thread that it waits for
  num_pending_interrupts,
  thread_interrupt_callback   \* whether it is installed

object == <<status, thread_obj, waiting, cleaned>>
signals == <<flags, num_pending_interrupts, thread_interrupt_callback>>
vars == <<object, signals, pc, target>>

THREAD_FLAG_TERM == "TERM"
THREAD_FLAG_INTR == "INTR"

Running(t) == pc[t] = "run"
\* The program has the object once create() has returned.
Known(t) == thread_obj[t] /\ status[t] # "NOT_STARTED"
Ended(t) == status[t] \in {"EXITED", "ABORTED"}

\* The threads that co_wait_interpreter() for a change of t's status.
Sleepers(t) == {u \in Threads : pc[u] \in {"create", "wait"} /\ target[u] = t}

-----------------------------------------------------------------------------
(* Helpers that change part of the state.                                  *)

\* A signal is taken back; the callback goes with the last one.
DropPending(n) ==
  /\ num_pending_interrupts' = num_pending_interrupts - n
  /\ thread_interrupt_callback' =
       IF n > 0 THEN num_pending_interrupts - n # 0 ELSE thread_interrupt_callback

NeededMutant(th, newstatus, newwaiting) == newstatus = "RUNNING"

\* Whether cleanup_thread_state() must leave th to someone else.
Needed(th, newstatus, newwaiting) == newstatus = "RUNNING" \/ newwaiting > 0

cleanup_thread_stateMutant(cur, th, newstatus, newwaiting) ==
  IF Needed(th, newstatus, newwaiting)
  THEN UNCHANGED <<cleaned, signals>>
  ELSE /\ cleaned' = [cleaned EXCEPT ![th] = @ + 1]
       /\ flags' = [flags EXCEPT ![cur] = {}]
       /\ DropPending(1)

\* cleanup_thread_state(th) in the thread cur, when the object is destructed
\* and status and waiting are as given.  The pending signals that it clears
\* are those of cur.
cleanup_thread_state(cur, th, newstatus, newwaiting) ==
  IF Needed(th, newstatus, newwaiting)
  THEN UNCHANGED <<cleaned, signals>>
  ELSE /\ cleaned' = [cleaned EXCEPT ![th] = @ + 1]
       /\ IF flags[th] # {}
          THEN flags' = [flags EXCEPT ![cur] = {}] /\ DropPending(1)
          ELSE UNCHANGED signals

-----------------------------------------------------------------------------
(* create() and the thread function.                                       *)

\* th_create() has made the thread; the caller waits until it has started.
f_thread_create(t, u) ==
  /\ Running(t)
  /\ status[u] = "NOT_STARTED"
  /\ pc[u] = "none"
  /\ pc' = [pc EXCEPT ![t] = "create", ![u] = "new"]
  /\ target' = [target EXCEPT ![t] = u]
  /\ UNCHANGED <<object, signals>>

\* new_thread_func() up to the call of the thread function.  The caller of
\* create() is woken by the broadcast and finds the status changed.
new_thread_func(u) ==
  /\ pc[u] = "new"
  /\ status' = [status EXCEPT ![u] = "RUNNING"]
  /\ pc' = [t \in Threads |-> IF t = u \/ t \in Sleepers(u) THEN "run" ELSE pc[t]]
  /\ target' = [t \in Threads |-> IF t \in Sleepers(u) THEN None ELSE target[t]]
  /\ UNCHANGED <<thread_obj, waiting, cleaned, signals>>

EndThreadMutant(t, newstatus) ==
  /\ status' = [status EXCEPT ![t] = newstatus]
  /\ pc' = [pc EXCEPT ![t] = "ended"]
  /\ target' = [target EXCEPT ![t] = None]
  /\ UNCHANGED <<thread_obj, waiting>>

\* The rest of new_thread_func(), after the thread function has returned or
\* thrown: the status, the broadcast, and the cleanup if the object is gone.
EndThread(t, newstatus) ==
  /\ status' = [status EXCEPT ![t] = newstatus]
  /\ pc' = [u \in Threads |-> IF u = t THEN "ended"
                              ELSE IF u \in Sleepers(t) THEN "woken" ELSE pc[u]]
  /\ target' = [target EXCEPT ![t] = None]
  /\ UNCHANGED <<thread_obj, waiting>>

thread_func_return(t) ==
  /\ Running(t)
  /\ t # Main
  /\ \E newstatus \in {"EXITED", "ABORTED"} :
       /\ EndThread(t, newstatus)
       /\ IF thread_obj[t] THEN UNCHANGED <<cleaned, signals>>
                           ELSE cleanup_thread_state(t, t, newstatus, waiting[t])

-----------------------------------------------------------------------------
(* wait().                                                                 *)

\* What is counted in waiting: the calls, and those left by an interrupt.
Counted == {c \in Threads \X (1..MaxWaiting) : c[2] <= waiting[c[1]]}

\* The call until it sleeps for the first time.
f_thread_id_result(t, u) ==
  /\ Running(t)
  /\ Known(u)
  /\ Cardinality(Counted) < MaxWaiting
  /\ IF Ended(u)
     THEN UNCHANGED <<waiting, pc, target>>
     ELSE /\ waiting' = [waiting EXCEPT ![u] = @ + 1]
          /\ pc' = [pc EXCEPT ![t] = "wait"]
          /\ target' = [target EXCEPT ![t] = u]
  /\ UNCHANGED <<status, thread_obj, cleaned, signals>>

\* It has been woken, and no signal is pending for it.
f_thread_id_result_woken(t) ==
  /\ pc[t] = "woken"
  /\ flags[t] = {} \/ ~thread_interrupt_callback
  /\ LET u == target[t] IN
     /\ waiting' = [waiting EXCEPT ![u] = @ - 1]
     /\ pc' = [pc EXCEPT ![t] = "run"]
     /\ target' = [target EXCEPT ![t] = None]
     /\ IF thread_obj[u] THEN UNCHANGED <<cleaned, signals>>
                         ELSE cleanup_thread_state(t, u, status[u], waiting[u] - 1)
  /\ UNCHANGED <<status, thread_obj>>

-----------------------------------------------------------------------------
(* interrupt(), kill() and how the thread gets to know of them.            *)

SignalMutant(u, flag) ==
  /\ flags' = [flags EXCEPT ![u] = @ \cup {flag}]
  /\ IF flags[u] = {} /\ num_pending_interrupts = 0
     THEN /\ num_pending_interrupts' = num_pending_interrupts + 1
          /\ thread_interrupt_callback' = TRUE
     ELSE UNCHANGED <<num_pending_interrupts, thread_interrupt_callback>>

Signal(u, flag) ==
  /\ flags' = [flags EXCEPT ![u] = @ \cup {flag}]
  /\ IF flags[u] = {}
     THEN /\ num_pending_interrupts' = num_pending_interrupts + 1
          /\ thread_interrupt_callback' = TRUE
     ELSE UNCHANGED <<num_pending_interrupts, thread_interrupt_callback>>

f_thread_id_interrupt(t, u) ==
  /\ Running(t)
  /\ Known(u)
  /\ Signal(u, THREAD_FLAG_INTR)
  /\ UNCHANGED <<object, pc, target>>

f_thread_id_kill(t, u) ==
  /\ Running(t)
  /\ Known(u)
  /\ Signal(u, THREAD_FLAG_TERM)
  /\ UNCHANGED <<object, pc, target>>

\* check_thread_interrupt() throws the error, in the thread's own code or in
\* wait(), where waiting stays as it is.  The program may catch an
\* interrupt; a kill or an uncaught interrupt ends the thread.
ThrowInterrupt(t) ==
  /\ thread_interrupt_callback
  /\ flags[t] # {}
  /\ DropPending(1)
  /\ flags' = [flags EXCEPT ![t] = {}]
  /\ \/ /\ THREAD_FLAG_TERM \notin flags[t]
        /\ pc' = [pc EXCEPT ![t] = "run"]
        /\ target' = [target EXCEPT ![t] = None]
        /\ UNCHANGED object
     \/ /\ t # Main
        /\ EndThread(t, "ABORTED")
        /\ cleaned' = [cleaned EXCEPT ![t] =
             IF thread_obj[t] \/ waiting[t] > 0 THEN @ ELSE @ + 1]
     \/ /\ t = Main
        /\ THREAD_FLAG_TERM \in flags[t]       \* the process ends
        /\ pc' = [u \in Threads |-> "ended"]
        /\ UNCHANGED <<object, target>>

\* At a yield of t, or when the end of the thread that it waits for has woken
\* it.
check_thread_interrupt(t) ==
  /\ pc[t] \in {"run", "woken"}
  /\ ThrowInterrupt(t)

\* In wait(), while the other thread still runs: th_kill(), another signal or
\* nothing at all may have woken t.  Without an interrupt it sleeps again.
f_thread_id_result_spurious(t) ==
  /\ pc[t] = "wait"
  /\ ThrowInterrupt(t)

-----------------------------------------------------------------------------
(* exit_thread_obj(), by destruct() or with the last reference.            *)

exit_thread_obj(t, u) ==
  /\ Running(t)
  /\ Known(u)
  /\ thread_obj' = [thread_obj EXCEPT ![u] = FALSE]
  /\ cleanup_thread_state(t, u, status[u], waiting[u])
  /\ UNCHANGED <<status, waiting, pc, target>>

-----------------------------------------------------------------------------

Init ==
  /\ status = [t \in Threads |-> IF t = Main THEN "RUNNING" ELSE "NOT_STARTED"]
  /\ thread_obj = [t \in Threads |-> TRUE]
  /\ flags = [t \in Threads |-> {}]
  /\ waiting = [t \in Threads |-> 0]
  /\ cleaned = [t \in Threads |-> 0]
  /\ pc = [t \in Threads |-> IF t = Main THEN "run" ELSE "none"]
  /\ target = [t \in Threads |-> None]
  /\ num_pending_interrupts = 0
  /\ thread_interrupt_callback = FALSE

\* What a thread does when it is let run, without a decision of the program.
Step(t) == new_thread_func(t) \/ f_thread_id_result_woken(t) \/ check_thread_interrupt(t)

Next ==
  \E t \in Threads :
    \/ Step(t)
    \/ f_thread_id_result_spurious(t)
    \/ thread_func_return(t)
    \/ \E u \in Threads :
         \/ f_thread_create(t, u) \/ f_thread_id_result(t, u)
         \/ f_thread_id_interrupt(t, u) \/ f_thread_id_kill(t, u)
         \/ exit_thread_obj(t, u)

Spec == Init /\ [][Next]_vars

\* A thread that can run is let run (module InterpreterLock).  Nothing need
\* wake a sleeping thread but the broadcast of EndThread.
LiveSpec == Spec /\ \A t \in Threads : WF_vars(Step(t))

-----------------------------------------------------------------------------
(* Properties.                                                             *)

\* Every variable has its type.
TypeOK ==
  /\ status \in [Threads -> {"NOT_STARTED", "RUNNING", "EXITED", "ABORTED"}]
  /\ thread_obj \in [Threads -> BOOLEAN]
  /\ flags \in [Threads -> SUBSET {THREAD_FLAG_TERM, THREAD_FLAG_INTR}]
  /\ waiting \in [Threads -> Nat]
  /\ cleaned \in [Threads -> Nat]
  /\ pc \in [Threads -> {"none", "new", "run", "create", "wait", "woken", "ended"}]
  /\ target \in [Threads -> Threads \cup {None}]
  /\ num_pending_interrupts \in Nat
  /\ thread_interrupt_callback \in BOOLEAN

Users(u) == {t \in Threads : pc[t] \in {"create", "wait", "woken"} /\ target[t] = u}

\* Whatever the order in which a thread ends, its object is destructed and
\* those that wait for it go on, cleanup_thread_state() frees the condition
\* once, when the thread does not run and nobody is in wait() for it; and it
\* is freed when all that has happened, except that an interrupted wait()
\* leaves waiting raised.
CleanedOnce ==
  \A u \in Threads :
    /\ cleaned[u] > 0 =>
         cleaned[u] = 1 /\ status[u] # "RUNNING" /\ Users(u) = {} /\ ~thread_obj[u]
    /\ ~thread_obj[u] /\ status[u] # "RUNNING" /\ waiting[u] = 0 => cleaned[u] = 1
    /\ Cardinality(Users(u) \ {t \in Threads : pc[t] = "create"}) <= waiting[u]

\* A thread with a pending signal finds the callback installed, however many
\* signals of other threads have been served, replaced or thrown away.
InterruptSeen ==
  \A t \in Threads :
    flags[t] # {} /\ cleaned[t] = 0 => thread_interrupt_callback

\* wait() returns, or is interrupted, when the thread has ended, also if its
\* object was destructed in the meantime.
WaitReturns ==
  \A t, u \in Threads :
    pc[t] \in {"wait", "woken"} /\ target[t] = u /\ Ended(u)
      ~> pc[t] \notin {"wait", "woken"}

-----------------------------------------------------------------------------
(* The inductive invariant.                                                *)

\* Which statuses go with what a thread is in; create() has not returned
\* before the thread has started, so nobody destructs the object before.
StatusInv ==
  \A t \in Threads :
    /\ pc[t] \in {"run", "create", "wait", "woken"} => status[t] = "RUNNING"
    /\ pc[t] \in {"none", "new"} => status[t] = "NOT_STARTED"
    /\ status[t] = "NOT_STARTED" => thread_obj[t]

TargetInv ==
  \A t \in Threads :
    /\ pc[t] \in {"create", "wait", "woken"} => target[t] \in Threads
    /\ pc[t] = "create" => status[target[t]] = "NOT_STARTED"
    /\ pc[t] = "wait" => status[target[t]] = "RUNNING"
    /\ pc[t] = "woken" => Ended(target[t])

\* waiting is not less than the number of calls; an interrupt makes it more.
Waiters(u) == {t \in Threads : pc[t] \in {"wait", "woken"} /\ target[t] = u}
WaitInv == \A u \in Threads : Cardinality(Waiters(u)) <= waiting[u]

CleanInv ==
  \A u \in Threads :
    cleaned[u] = IF ~thread_obj[u] /\ status[u] # "RUNNING" /\ waiting[u] = 0 THEN 1 ELSE 0

\* cleanup_thread_state() may clear the signals of the wrong thread, so there
\* can be fewer threads with signals than num_pending_interrupts says.
Signalled == {t \in Threads : flags[t] # {} /\ cleaned[t] = 0}
SignalInv ==
  /\ thread_interrupt_callback <=> num_pending_interrupts # 0
  /\ Cardinality(Signalled) <= num_pending_interrupts

IInv ==
  /\ TypeOK
  /\ StatusInv
  /\ TargetInv
  /\ WaitInv
  /\ CleanInv
  /\ SignalInv

=============================================================================
