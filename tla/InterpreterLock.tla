--------------------------- MODULE InterpreterLock --------------------------
(***************************************************************************)
(* The interpreter lock of src/src/pike_threads.c, what may keep a thread  *)
(* from running Pike code, and how threads begin and end.                  *)
(*                                                                         *)
(* A thread runs Pike code (pc = "run") with the interpreter lock and with *)
(* its state swapped in.  It gives the lock up in a THREADS_ALLOW section, *)
(* in a THREADS_ALLOW_UID section, which _disable_threads() waits for, and *)
(* in co_wait_interpreter().  An action is the code between two points     *)
(* where the thread takes or gives up the lock or takes a native mutex.    *)
(* An operator named ...Mutant is another one as a plausible bug would     *)
(* have it; no specification uses it.                                      *)
(*                                                                         *)
(* Rules of the program: LOCK_IMUTEX() and UNLOCK_IMUTEX() enclose C code  *)
(* that runs sections and nothing else, a thread does not end while it     *)
(* keeps threads disabled or compiles, and nobody waits in a circle: it is *)
(* the main thread that waits for others, when it is not compiling.        *)
(***************************************************************************)
EXTENDS Naturals, FiniteSets

CONSTANTS
  Threads, Main,
  NumIMs,        \* the length of interleave_list
  Ops,           \* what the threads do, within AllOps
  MaxDisabled,   \* nested calls of _disable_threads() (a bound)
  NoThread

AllOps == {"allow", "allow_uid", "imutex", "compile", "create", "wait"}

ASSUME LockAssumption ==
  /\ IsFiniteSet(Threads)
  /\ Main \in Threads
  /\ NoThread \notin Threads
  /\ NumIMs \in Nat
  /\ MaxDisabled \in Nat \ {0}
  /\ Ops \subseteq AllOps

VARIABLES
  interpreter_lock,         \* the thread that has it
  interpreter_lock_wanted,  \* the thread that has it
  threads_disabled, live_threads, num_threads,
  interleave_lock,          \* the thread that has it
  im,                       \* the thread that has each mutex of interleave_list
  lock_depth, Pike_compiler_thread,
  swapped, status,          \* of the thread states
  pc,                       \* where each thread is
  back,                     \* where it goes on when it has the interpreter lock
  check,                    \* whether threads must be enabled for that
  on,                       \* the condition it sleeps on
  want,                     \* the mutex of interleave_list that it locks next
  job,                      \* why it wants the compiler
  compiles,                 \* whether it compiles
  child                     \* the thread it has created, or waits for

nativeVars == <<interleave_lock, im>>
compilerVars == <<lock_depth, Pike_compiler_thread, compiles>>
disableVars == <<threads_disabled, live_threads>>
threadVars == <<num_threads, status>>
waitVars == <<back, check, on>>
lockVars == <<interpreter_lock, interpreter_lock_wanted>>
vars == <<lockVars, disableVars, nativeVars, compilerVars, threadVars, swapped,
          pc, waitVars, want, job, child>>

IMs == 1..NumIMs

\* The conditions: of a thread's status, and three of the interpreter's.
status_change(u) == <<"status_change", u>>
live_threads_change == <<"live_threads_change", NoThread>>
threads_disabled_change == <<"threads_disabled_change", NoThread>>
Pike_compiler_cond == <<"Pike_compiler_cond", NoThread>>

-----------------------------------------------------------------------------
(* Taking and giving up the interpreter lock.                              *)

\* pike_low_lock_interpreter() or, with mayWait, pike_lock_interpreter(), and
\* then the code at there.  The thread does not have the lock.
Lock(t, mayWait, there) ==
  /\ pc' = [pc EXCEPT ![t] = "wanted"]
  /\ back' = [back EXCEPT ![t] = there]
  /\ check' = [check EXCEPT ![t] = mayWait]
  /\ UNCHANGED on

\* co_wait(cond, &interpreter_lock), and then the code at there, where pcs is
\* pc with the changes that the step makes to other threads.
Sleep(t, cond, mayWait, there, pcs) ==
  /\ interpreter_lock' = NoThread
  /\ pc' = [pcs EXCEPT ![t] = "sleep"]
  /\ on' = [on EXCEPT ![t] = cond]
  /\ back' = [back EXCEPT ![t] = there]
  /\ check' = [check EXCEPT ![t] = mayWait]
  /\ UNCHANGED interpreter_lock_wanted

\* pike_low_wait_interpreter()
low_co_wait_interpreter(t, cond, there) == Sleep(t, cond, FALSE, there, pc)

\* pike_wait_interpreter(): the thread that has disabled threads may go on
\* while they are disabled.
co_wait_interpreter(t, cond, there) ==
  Sleep(t, cond, threads_disabled = 0, there, pc)

\* co_broadcast() on each of the conditions
Woken(conds) ==
  [u \in Threads |-> IF pc[u] = "sleep" /\ on[u] \in conds THEN "relock" ELSE pc[u]]

Goto(t, there) == pc' = [pc EXCEPT ![t] = there] /\ UNCHANGED waitVars

\* The thread has got the lock: threads_disabled_wait() if it must, or on.
Resume(t) ==
  \/ /\ check[t]
     /\ threads_disabled > 0
     /\ pc' = [pc EXCEPT ![t] = "sleep"]
     /\ on' = [on EXCEPT ![t] = threads_disabled_change]
     /\ UNCHANGED <<interpreter_lock, back, check>>
  \/ /\ ~(check[t] /\ threads_disabled > 0)
     /\ interpreter_lock' = t
     /\ pc' = [pc EXCEPT ![t] = back[t]]
     /\ back' = [back EXCEPT ![t] = "run"]
     /\ check' = [check EXCEPT ![t] = FALSE]
     /\ on' = [on EXCEPT ![t] = threads_disabled_change]

othersOfLock ==
  <<disableVars, nativeVars, compilerVars, threadVars, swapped, want, job, child>>

LockWanted(t) ==
  /\ pc[t] = "wanted"
  /\ interpreter_lock_wanted = NoThread
  /\ interpreter_lock_wanted' = t
  /\ Goto(t, "locking")
  /\ UNCHANGED <<interpreter_lock, othersOfLock>>

LockInterpreter(t) ==
  /\ pc[t] = "locking"
  /\ interpreter_lock = NoThread
  /\ interpreter_lock_wanted' = NoThread
  /\ Resume(t)
  /\ UNCHANGED othersOfLock

\* The end of co_wait(): the thread has been woken and locks the mutex.
Relock(t) ==
  /\ pc[t] = "relock"
  /\ interpreter_lock = NoThread
  /\ Resume(t)
  /\ UNCHANGED <<interpreter_lock_wanted, othersOfLock>>

\* A wakeup that nobody asked for, which POSIX allows.
SpuriousWakeup(t) ==
  /\ pc[t] = "sleep"
  /\ Goto(t, "relock")
  /\ UNCHANGED <<lockVars, othersOfLock>>

-----------------------------------------------------------------------------
(* Sections without the interpreter lock.                                  *)

\* The thread has a mutex of interleave_list between LOCK_IMUTEX() and
\* UNLOCK_IMUTEX().
HasIM(t) == interleave_lock # t /\ \E i \in IMs : im[i] = t

\* The thread is free to do what it likes.
Free(t) == pc[t] = "run" /\ ~HasIM(t)

SwapOut(t) == swapped' = [swapped EXCEPT ![t] = TRUE]
SwapIn(t) == swapped' = [swapped EXCEPT ![t] = FALSE]

\* pike_threads_allow() of a thread that goes on at there; inc is what it adds
\* to live_threads.
Allow(t, there, inc) ==
  /\ \/ /\ num_threads > 1
        /\ threads_disabled = 0
        /\ SwapOut(t)
        /\ live_threads' = live_threads + inc
        /\ interpreter_lock' = NoThread
     \/ /\ ~(num_threads > 1 /\ threads_disabled = 0)
        /\ UNCHANGED <<swapped, live_threads, interpreter_lock>>
  /\ Goto(t, there)
  /\ UNCHANGED interpreter_lock_wanted

\* pike_threads_disallow() of a thread that goes on at there.
Disallow(t, mayWait, there, unswapped) ==
  \/ swapped[t] /\ Lock(t, mayWait, there)
  \/ ~swapped[t] /\ Goto(t, unswapped)

\* THREADS_ALLOW()
threads_allow(t) ==
  /\ "allow" \in Ops
  /\ pc[t] = "run"
  /\ Allow(t, "allow", 0)
  /\ UNCHANGED <<threads_disabled, nativeVars, compilerVars, threadVars, want, job, child>>

\* THREADS_DISALLOW()
threads_disallow(t) ==
  /\ pc[t] = "allow"
  /\ Disallow(t, TRUE, "swap_in", "run")
  /\ UNCHANGED <<lockVars, othersOfLock>>

\* pike_swap_in_thread()
swap_in(t) ==
  /\ pc[t] = "swap_in"
  /\ SwapIn(t)
  /\ Goto(t, "run")
  /\ UNCHANGED <<lockVars, disableVars, nativeVars, compilerVars, threadVars, want, job, child>>

threads_allow_extMutant(t) ==
  /\ "allow_uid" \in Ops
  /\ pc[t] = "run"
  /\ Allow(t, "allow_uid", 0)
  /\ UNCHANGED <<threads_disabled, nativeVars, compilerVars, threadVars, want, job, child>>

\* THREADS_ALLOW_UID()
threads_allow_ext(t) ==
  /\ "allow_uid" \in Ops
  /\ pc[t] = "run"
  /\ Allow(t, "allow_uid", 1)
  /\ UNCHANGED <<threads_disabled, nativeVars, compilerVars, threadVars, want, job, child>>

\* THREADS_DISALLOW_UID()
threads_disallow_ext(t) ==
  /\ pc[t] = "allow_uid"
  /\ Disallow(t, FALSE, "not_live", "run")
  /\ UNCHANGED <<lockVars, othersOfLock>>

MayWaitMutant(t, there, pcs) ==
  /\ pc' = [pcs EXCEPT ![t] = there]
  /\ UNCHANGED <<lockVars, waitVars>>

\* threads_disabled_wait() of a thread that has the lock, after the broadcasts
\* that have made pc into pcs; then on at there.
MayWait(t, there, pcs) ==
  \/ /\ threads_disabled > 0
     /\ Sleep(t, threads_disabled_change, TRUE, there, pcs)
  \/ /\ threads_disabled = 0
     /\ pc' = [pcs EXCEPT ![t] = there]
     /\ UNCHANGED <<lockVars, waitVars>>

\* The rest of THREADS_DISALLOW_UID(), with the interpreter lock.
not_live(t) ==
  /\ pc[t] = "not_live"
  /\ live_threads' = live_threads - 1
  /\ MayWait(t, "swap_in", Woken({live_threads_change}))
  /\ UNCHANGED <<threads_disabled, nativeVars, compilerVars, threadVars, swapped,
                 want, job, child>>

-----------------------------------------------------------------------------
(* Interleave mutexes and the compiler lock.                               *)

\* LOCK_IMUTEX(), which does nothing if threads are disabled.
lock_imutex(t, i) ==
  /\ "imutex" \in Ops
  /\ Free(t)
  /\ threads_disabled = 0
  /\ want' = [want EXCEPT ![t] = i]
  /\ Allow(t, "imutex", 0)
  /\ UNCHANGED <<threads_disabled, nativeVars, compilerVars, threadVars, job, child>>

imutex(t) ==
  /\ pc[t] = "imutex"
  /\ im[want[t]] = NoThread
  /\ im' = [im EXCEPT ![want[t]] = t]
  /\ want' = [want EXCEPT ![t] = 0]
  /\ Disallow(t, TRUE, "swap_in", "run")
  /\ UNCHANGED <<lockVars, disableVars, interleave_lock, compilerVars, threadVars,
                 swapped, job, child>>

\* UNLOCK_IMUTEX(), which does nothing if threads are disabled.
unlock_imutex(t) ==
  /\ pc[t] = "run"
  /\ HasIM(t)
  /\ threads_disabled = 0
  /\ im' = [i \in IMs |-> IF im[i] = t THEN NoThread ELSE im[i]]
  /\ UNCHANGED <<lockVars, disableVars, interleave_lock, compilerVars, threadVars,
                 swapped, pc, waitVars, want, job, child>>

\* The thread starts to compile.
compile(t) ==
  /\ "compile" \in Ops
  /\ Free(t)
  /\ ~compiles[t]
  /\ job' = [job EXCEPT ![t] = "compile"]
  /\ Goto(t, "compiler")
  /\ UNCHANGED <<lockVars, disableVars, nativeVars, compilerVars, threadVars,
                 swapped, want, child>>

\* The compiler lock is somebody else's.
CompilerTaken(t) == lock_depth > 0 /\ Pike_compiler_thread # t

\* lock_pike_compiler().  A thread that wants to disable threads goes on in
\* low_init_threads_disable().
lock_pike_compiler(t) ==
  /\ pc[t] = "compiler"
  /\ \/ /\ CompilerTaken(t)
        /\ SwapOut(t)
        /\ co_wait_interpreter(t, Pike_compiler_cond, "compiler")
        /\ UNCHANGED <<compilerVars, job>>
     \/ /\ ~CompilerTaken(t)
        /\ SwapIn(t)
        /\ lock_depth' = lock_depth + 1
        /\ Pike_compiler_thread' = t
        /\ compiles' = [compiles EXCEPT ![t] = compiles[t] \/ job[t] = "compile"]
        /\ Goto(t, IF job[t] = "compile" THEN "run" ELSE "leave")
        /\ job' = [job EXCEPT ![t] = "none"]
        /\ UNCHANGED lockVars
  /\ UNCHANGED <<disableVars, nativeVars, threadVars, want, child>>

\* unlock_pike_compiler() when it has compiled.
unlock_pike_compiler(t) ==
  /\ Free(t)
  /\ compiles[t]
  /\ compiles' = [compiles EXCEPT ![t] = FALSE]
  /\ lock_depth' = lock_depth - 1
  /\ pc' = Woken({Pike_compiler_cond})
  /\ UNCHANGED <<lockVars, disableVars, nativeVars, Pike_compiler_thread, threadVars,
                 swapped, waitVars, want, job, child>>

-----------------------------------------------------------------------------
(* _disable_threads()                                                      *)

init_threads_disable(t) ==
  /\ Free(t)
  /\ \/ /\ threads_disabled = 0
        /\ job' = [job EXCEPT ![t] = "disable"]
        /\ Goto(t, "compiler")
        /\ UNCHANGED threads_disabled
     \/ /\ threads_disabled \in 1..MaxDisabled - 1
        /\ threads_disabled' = threads_disabled + 1
        /\ Goto(t, "live")
        /\ UNCHANGED job
  /\ UNCHANGED <<lockVars, live_threads, nativeVars, compilerVars, threadVars, swapped,
                 want, child>>

\* THREADS_ALLOW() of low_init_threads_disable(), with the compiler lock.
leave(t) ==
  /\ pc[t] = "leave"
  /\ Allow(t, "interleave", 0)
  /\ UNCHANGED <<threads_disabled, nativeVars, compilerVars, threadVars, want, job, child>>

\* mt_lock(&interleave_lock)
interleave(t) ==
  /\ pc[t] = "interleave"
  /\ interleave_lock = NoThread
  /\ interleave_lock' = t
  /\ want' = [want EXCEPT ![t] = 1]
  /\ Goto(t, "ims")
  /\ UNCHANGED <<lockVars, disableVars, im, compilerVars, threadVars, swapped, job, child>>

\* The loop over interleave_list, and THREADS_DISALLOW() at its end.
lock_ims(t) ==
  /\ pc[t] = "ims"
  /\ \/ /\ want[t] \in IMs
        /\ im[want[t]] = NoThread
        /\ im' = [im EXCEPT ![want[t]] = t]
        /\ want' = [want EXCEPT ![t] = want[t] + 1]
        /\ UNCHANGED <<pc, waitVars>>
     \/ /\ want[t] \notin IMs
        /\ want' = [want EXCEPT ![t] = 0]
        /\ Disallow(t, TRUE, "disable", "disable")
        /\ UNCHANGED im
  /\ UNCHANGED <<lockVars, disableVars, interleave_lock, compilerVars, threadVars,
                 swapped, job, child>>

disable(t) ==
  /\ pc[t] = "disable"
  /\ SwapIn(t)
  /\ threads_disabled' = 1
  /\ Goto(t, "live")
  /\ UNCHANGED <<lockVars, live_threads, nativeVars, compilerVars, threadVars, want,
                 job, child>>

liveMutant(t) ==
  /\ pc[t] = "live"
  /\ \/ /\ live_threads > 0
        /\ low_co_wait_interpreter(t, live_threads_change, "live")
        /\ UNCHANGED swapped
     \/ /\ live_threads = 0
        /\ SwapIn(t)
        /\ Goto(t, "run")
        /\ UNCHANGED lockVars
  /\ UNCHANGED <<disableVars, nativeVars, compilerVars, threadVars, want, job, child>>

\* The loop of init_threads_disable() that waits for the sections of
\* THREADS_ALLOW_UID() to end.
live(t) ==
  /\ pc[t] = "live"
  /\ \/ /\ live_threads > 0
        /\ SwapOut(t)
        /\ low_co_wait_interpreter(t, live_threads_change, "live")
     \/ /\ live_threads = 0
        /\ SwapIn(t)
        /\ Goto(t, "run")
        /\ UNCHANGED lockVars
  /\ UNCHANGED <<disableVars, nativeVars, compilerVars, threadVars, want, job, child>>

\* exit_threads_disable(): the object that _disable_threads() returned goes.
exit_threads_disable(t) ==
  /\ Free(t)
  /\ interleave_lock = t
  /\ threads_disabled' = threads_disabled - 1
  /\ \/ /\ threads_disabled > 1
        /\ UNCHANGED <<nativeVars, compilerVars, pc>>
     \/ /\ threads_disabled = 1
        /\ im' = [i \in IMs |-> NoThread]
        /\ interleave_lock' = NoThread
        /\ lock_depth' = lock_depth - 1
        /\ pc' = Woken({Pike_compiler_cond, threads_disabled_change})
        /\ UNCHANGED <<Pike_compiler_thread, compiles>>
  /\ UNCHANGED <<lockVars, live_threads, threadVars, swapped, waitVars, want, job, child>>

-----------------------------------------------------------------------------
(* Threads begin, end, and wait for each other.                            *)

createMutant(t, u) ==
  /\ "create" \in Ops
  /\ Free(t)
  /\ status[u] = "NOT_STARTED"
  /\ pc[u] = "off"
  /\ num_threads' = num_threads + 1
  /\ child' = [child EXCEPT ![t] = u]
  /\ SwapOut(t)
  /\ pc' = [pc EXCEPT ![t] = "create", ![u] = "wanted"]
  /\ back' = [back EXCEPT ![u] = "start"]
  /\ check' = [check EXCEPT ![u] = TRUE]
  /\ UNCHANGED <<lockVars, disableVars, nativeVars, compilerVars, status, on, want, job>>

\* f_thread_create() up to its wait; the new thread is in new_thread_func().
create(t, u) ==
  /\ "create" \in Ops
  /\ Free(t)
  /\ status[u] = "NOT_STARTED"
  /\ pc[u] = "off"
  /\ num_threads' = num_threads + 1
  /\ child' = [child EXCEPT ![t] = u]
  /\ SwapOut(t)
  /\ pc' = [pc EXCEPT ![t] = "create", ![u] = "wanted"]
  /\ back' = [back EXCEPT ![u] = "start"]
  /\ check' = [check EXCEPT ![u] = FALSE]
  /\ UNCHANGED <<lockVars, disableVars, nativeVars, compilerVars, status, on, want, job>>

\* The wait of f_thread_create(), and of Thread()->wait(), for a thread whose
\* status is none of these.
AwaitStatus(t, there, statuses) ==
  /\ pc[t] = there
  /\ \/ /\ status[child[t]] \in statuses
        /\ SwapOut(t)
        /\ co_wait_interpreter(t, status_change(child[t]), there)
        /\ UNCHANGED child
     \/ /\ status[child[t]] \notin statuses
        /\ SwapIn(t)
        /\ child' = [child EXCEPT ![t] = NoThread]
        /\ Goto(t, "run")
        /\ UNCHANGED lockVars
  /\ UNCHANGED <<disableVars, nativeVars, compilerVars, threadVars, want, job>>

created(t) == AwaitStatus(t, "create", {"NOT_STARTED"})

\* new_thread_func() when it has the interpreter lock.
start(u) ==
  /\ pc[u] = "start"
  /\ status' = [status EXCEPT ![u] = "RUNNING"]
  /\ MayWait(u, "swap_in", Woken({status_change(u)}))
  /\ UNCHANGED <<disableVars, nativeVars, compilerVars, num_threads, swapped, want, job,
                 child>>

\* The end of new_thread_func().
exit(t) ==
  /\ Free(t)
  /\ t # Main
  /\ interleave_lock # t
  /\ ~compiles[t]
  /\ status' = [status EXCEPT ![t] = "EXITED"]
  /\ num_threads' = num_threads - 1
  /\ SwapOut(t)
  /\ pc' = [Woken({status_change(t)}) EXCEPT ![t] = "off"]
  /\ interpreter_lock' = NoThread
  /\ UNCHANGED <<interpreter_lock_wanted, disableVars, nativeVars, compilerVars, waitVars,
                 want, job, child>>

\* Thread()->wait(), which is an error if threads are disabled.
wait(t, u) ==
  /\ "wait" \in Ops
  /\ Free(t)
  /\ t = Main
  /\ ~compiles[t]
  /\ threads_disabled = 0
  /\ u # t
  /\ status[u] # "NOT_STARTED"
  /\ child' = [child EXCEPT ![t] = u]
  /\ Goto(t, "wait")
  /\ UNCHANGED <<lockVars, disableVars, nativeVars, compilerVars, threadVars, swapped,
                 want, job>>

\* The loop of wait(); check_threads_etc() in it may give up the lock for a
\* while, which other steps can do just as well.
waited(t) == AwaitStatus(t, "wait", {"NOT_STARTED", "RUNNING"})

-----------------------------------------------------------------------------
(* The specification.                                                      *)

Init ==
  /\ interpreter_lock = Main
  /\ interpreter_lock_wanted = NoThread
  /\ threads_disabled = 0
  /\ live_threads = 0
  /\ num_threads = 1
  /\ interleave_lock = NoThread
  /\ im = [i \in IMs |-> NoThread]
  /\ lock_depth = 0
  /\ Pike_compiler_thread = NoThread
  /\ swapped = [t \in Threads |-> t # Main]
  /\ status = [t \in Threads |-> IF t = Main THEN "RUNNING" ELSE "NOT_STARTED"]
  /\ pc = [t \in Threads |-> IF t = Main THEN "run" ELSE "off"]
  /\ back = [t \in Threads |-> "run"]
  /\ check = [t \in Threads |-> FALSE]
  /\ on = [t \in Threads |-> threads_disabled_change]
  /\ want = [t \in Threads |-> 0]
  /\ job = [t \in Threads |-> "none"]
  /\ compiles = [t \in Threads |-> FALSE]
  /\ child = [t \in Threads |-> NoThread]

\* The steps that wait for a native mutex.
TakeMutex(t) ==
  \/ LockWanted(t) \/ LockInterpreter(t) \/ Relock(t)
  \/ imutex(t) \/ interleave(t) \/ lock_ims(t)

\* The steps of a call that has begun.
Continue(t) ==
  \/ TakeMutex(t)
  \/ threads_disallow(t) \/ swap_in(t) \/ threads_disallow_ext(t) \/ not_live(t)
  \/ lock_pike_compiler(t) \/ leave(t) \/ disable(t) \/ live(t)
  \/ created(t) \/ start(t) \/ waited(t)

\* The program gives back what it has.
GiveBack(t) ==
  unlock_imutex(t) \/ unlock_pike_compiler(t) \/ exit_threads_disable(t)

\* The program does something new.
Begin(t) ==
  \/ threads_allow(t) \/ threads_allow_ext(t)
  \/ \E i \in IMs : lock_imutex(t, i)
  \/ compile(t) \/ init_threads_disable(t) \/ exit(t)
  \/ \E u \in Threads : create(t, u) \/ wait(t, u)

Next == \E t \in Threads : Continue(t) \/ GiveBack(t) \/ Begin(t) \/ SpuriousWakeup(t)

Spec == Init /\ [][Next]_vars

\* The operating system schedules every thread and gives a mutex to every
\* thread that waits for it; check_threads() makes a running thread give up
\* the interpreter lock; and the program gives back what it has taken.
Fairness ==
  \A t \in Threads :
    /\ WF_vars(Continue(t))
    /\ SF_vars(TakeMutex(t))
    /\ SF_vars(threads_allow(t))
    /\ SF_vars(unlock_imutex(t))
    /\ SF_vars(unlock_pike_compiler(t))
    /\ SF_vars(exit_threads_disable(t))
    /\ SF_vars(exit_threads_disable(t) /\ threads_disabled = 1)

LiveSpec == Spec /\ Fairness

-----------------------------------------------------------------------------
(* Properties.                                                             *)

\* Every variable has its type.
TypeOK ==
  /\ {interpreter_lock, interpreter_lock_wanted, interleave_lock, Pike_compiler_thread}
       \subseteq Threads \cup {NoThread}
  /\ threads_disabled \in 0..MaxDisabled
  /\ {live_threads, num_threads, lock_depth} \subseteq Nat
  /\ im \in [IMs -> Threads \cup {NoThread}]
  /\ swapped \in [Threads -> BOOLEAN]
  /\ status \in [Threads -> {"NOT_STARTED", "RUNNING", "EXITED"}]
  /\ child \in [Threads -> Threads \cup {NoThread}]

\* A thread that runs Pike code is swapped in, and one that is swapped in has
\* the interpreter lock, so that there is one at most: pike_swap_in_thread()
\* never swaps a thread in over another one.
OneSwappedIn ==
  \A t \in Threads :
    /\ pc[t] = "run" => ~swapped[t]
    /\ ~swapped[t] => interpreter_lock = t

\* While threads are disabled no other thread runs Pike code or has a mutex of
\* interleave_list, and when _disable_threads() has returned no other thread
\* is in a section of THREADS_ALLOW_UID().
Halted ==
  \A t, u \in Threads :
    threads_disabled > 0 /\ interleave_lock = t /\ u # t =>
      /\ pc[u] # "run"
      /\ ~HasIM(u)
      /\ "not_live" \in {pc[u], back[u]} \/ pc[u] = "allow_uid" =>
           "live" \in {pc[t], back[t]}

\* Nobody hangs.  _disable_threads() returns when it has got the compiler lock,
\* whatever the other threads are doing.  A thread that creates another while
\* it keeps threads disabled goes on: the new thread tells it so before it
\* waits, and itself it does not wait.  And a thread that
\* threads_disabled_wait() holds up is woken up.
NobodyHangs ==
  \A t \in Threads :
    /\ pc[t] = "leave" ~> pc[t] = "run"
    /\ pc[t] = "create" /\ interleave_lock = t /\ threads_disabled > 0 ~> pc[t] = "run"
    /\ pc[t] = "sleep" /\ on[t] = threads_disabled_change ~> pc[t] # "sleep"

-----------------------------------------------------------------------------
(* The inductive invariant.                                                *)

Locking == {"wanted", "locking", "sleep", "relock"}   \* wants the interpreter lock
Holding == {"run", "swap_in", "not_live", "compiler", "leave", "disable", "live",
            "create", "wait", "start"}                \* has it
Section == {"allow", "allow_uid", "imutex", "interleave", "ims"}
Places == Locking \cup Holding \cup Section \cup {"off"}

\* The thread is at a place, or will be when it has the interpreter lock.
At(t, place) == pc[t] = place \/ back[t] = place

ControlInv ==
  /\ TypeOK
  /\ pc \in [Threads -> Places]
  /\ back \in [Threads -> Holding \ {"leave"}]
  /\ check \in [Threads -> BOOLEAN]
  /\ want \in [Threads -> Nat]
  /\ job \in [Threads -> {"none", "compile", "disable"}]
  /\ compiles \in [Threads -> BOOLEAN]

\* Who has the interpreter lock, and whose state is swapped in.
LockInv ==
  \A t \in Threads :
    /\ pc[t] \in Holding => interpreter_lock = t
    /\ ~swapped[t] => interpreter_lock = t
    /\ pc[t] = "run" => ~swapped[t]
    /\ pc[t] \in Locking => swapped[t] /\ back[t] # "run"
    /\ pc[t] \notin Locking => back[t] = "run"
    /\ pc[t] \in {"off", "not_live", "start"} => swapped[t]

\* Who has interleave_lock, and with it threads disabled or about to be.
DisableInv ==
  /\ threads_disabled > 0 => interleave_lock \in Threads
  /\ \A t \in Threads :
       /\ pc[t] = "ims" \/ At(t, "disable") => interleave_lock = t /\ threads_disabled = 0
       /\ At(t, "live") => interleave_lock = t /\ threads_disabled > 0
       /\ interleave_lock = t => threads_disabled > 0 \/ pc[t] = "ims" \/ At(t, "disable")

\* Who has the mutexes of interleave_list.
MutexInv ==
  \A t \in Threads :
    /\ pc[t] = "imutex" => want[t] \in IMs
    /\ pc[t] = "ims" => want[t] > 0 /\ \A i \in IMs : i < want[t] => im[i] = t
    /\ At(t, "disable") \/ (threads_disabled > 0 /\ interleave_lock = t) =>
         \A i \in IMs : im[i] = t

\* Where the other threads can be while threads are disabled; the ones that
\* need not wait for threads_disabled are on their way to a place where they do.
HaltInv ==
  \A t \in Threads :
    /\ pc[t] \in Locking /\ ~check[t] =>
         back[t] \in {"not_live", "start"} \/ (interleave_lock = t /\ threads_disabled > 0)
    /\ threads_disabled > 0 /\ interleave_lock # t =>
         /\ swapped[t]
         /\ pc[t] \in Locking \cup (Section \ {"ims"}) \cup {"off", "not_live", "start"}

\* The threads that live_threads and num_threads count.
Live == {u \in Threads : At(u, "not_live") \/ (pc[u] = "allow_uid" /\ swapped[u])}
Started == {u \in Threads : pc[u] # "off"}

CountInv ==
  /\ live_threads = Cardinality(Live)
  /\ num_threads = Cardinality(Started)
  /\ \A t \in Threads :
       threads_disabled > 0 /\ interleave_lock = t /\ ~At(t, "live") => Live = {}

\* _disable_threads() has the compiler lock.
Holds(t) == pc[t] \in {"leave", "interleave"} \/ interleave_lock = t

Depth(t) == (IF compiles[t] THEN 1 ELSE 0) + (IF Holds(t) THEN 1 ELSE 0)

CompilerInv ==
  /\ \A t \in Threads :
       /\ Depth(t) > 0 => Pike_compiler_thread = t /\ lock_depth = Depth(t)
       /\ At(t, "compiler") =>
            \/ job[t] = "compile" /\ ~compiles[t]
            \/ job[t] = "disable" /\ ~Holds(t)
  /\ (\A t \in Threads : Depth(t) = 0) => lock_depth = 0

IInv ==
  /\ ControlInv /\ LockInv /\ DisableInv /\ MutexInv /\ HaltInv /\ CountInv /\ CompilerInv

=============================================================================
