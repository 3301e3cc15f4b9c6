---------------------------- MODULE ResourceCount ---------------------------
(***************************************************************************)
(* Thread.ResourceCount and Thread.ResourceCountKey of                     *)
(* src/lib/modules/Thread.pmod/module.pmod: a counter of keys, and threads *)
(* that wait for it to fall to a level.                                    *)
(*                                                                         *)
(* The destructor of a key cannot wait for the mutex: if somebody has it,  *)
(* the counter is lowered and the condition signalled without it, and the  *)
(* backend signals once more with the mutex locked.                        *)
(***************************************************************************)
EXTENDS Naturals, FiniteSets

CONSTANTS
  Users,        \* the threads that acquire and drop keys
  Waiters,      \* the threads that call wait_till_drained()
  Backend,      \* the thread that runs the call_outs
  Levels,       \* the levels they wait for
  MaxCount,     \* keys and call_outs at one time (a bound)
  NoThread

Threads == Users \cup Waiters \cup {Backend}

ASSUME CountAssumption ==
  /\ NoThread \notin Threads
  /\ Levels \subseteq Nat
  /\ MaxCount \in Nat
  /\ IsFiniteSet(Threads)

VARIABLES
  count,        \* _count
  keys,         \* the ResourceCountKey objects the program has
  mutex,        \* the thread that has the key of _mutex
  callouts,     \* calls of async_wakeup() the backend has yet to make
  pc,           \* where each thread is
  level         \* the argument of wait_till_drained()

vars == <<count, keys, mutex, callouts, pc, level>>

Sleepers == {t \in Threads : pc[t] = "asleep"}
Drained(t) == level[t] >= count

Goto(t, where) == pc' = [pc EXCEPT ![t] = where]

-----------------------------------------------------------------------------
(* Steps shared by the methods.  An operator named ...Mutant is the next   *)
(* one as a plausible bug would have it; no specification uses it.         *)

\* _mutex->lock(); where[1] says who waits for it and where[2] goes on.
Locks == {<<"acquire", "acquired">>, <<"wait", "check">>, <<"wakeup", "wakeup signal">>}

lock(t) ==
  /\ mutex = NoThread
  /\ mutex' = t
  /\ \E where \in Locks : pc[t] = where[1] /\ Goto(t, where[2])
  /\ UNCHANGED <<count, keys, callouts, level>>

\* The local variable key goes out of scope.
Return(t) ==
  /\ pc[t] = "return"
  /\ mutex' = IF mutex = t THEN NoThread ELSE mutex
  /\ Goto(t, "run")
  /\ UNCHANGED <<count, keys, callouts, level>>

\* _cond->signal() wakes one thread, or more, if there is one; a woken thread
\* has to lock the mutex.
signal(t) ==
  \E W \in SUBSET Sleepers :
    /\ Sleepers # {} => W # {}
    /\ pc' = [u \in Threads |-> IF u = t THEN "return"
                                ELSE IF u \in W THEN "wait" ELSE pc[u]]

-----------------------------------------------------------------------------
(* The methods.                                                            *)

acquire(t) ==
  /\ pc[t] = "run"
  /\ t \in Users
  /\ count + callouts + Cardinality({u \in Threads : pc[u] \in {"acquire", "acquired"}})
       < MaxCount
  /\ Goto(t, "acquire")
  /\ UNCHANGED <<count, keys, mutex, callouts, level>>

Acquired(t) ==
  /\ pc[t] = "acquired"
  /\ count' = count + 1
  /\ keys' = keys + 1
  /\ Goto(t, "return")
  /\ UNCHANGED <<mutex, callouts, level>>

\* A key loses its last reference: trylock() in its _destruct().
_destruct(t) ==
  /\ pc[t] = "run"
  /\ t \in Users
  /\ keys > 0
  /\ keys' = keys - 1
  /\ mutex' = IF mutex = NoThread THEN t ELSE mutex
  /\ Goto(t, "release")
  /\ UNCHANGED <<count, callouts, level>>

ReleaseNoCallOutMutant(t) ==
  /\ pc[t] = "release"
  /\ count' = count - 1
  /\ Goto(t, "signal")
  /\ UNCHANGED <<keys, mutex, callouts, level>>

Release(t) ==
  /\ pc[t] = "release"
  /\ count' = count - 1
  /\ callouts' = IF mutex = t THEN callouts ELSE callouts + 1
  /\ Goto(t, "signal")
  /\ UNCHANGED <<keys, mutex, level>>

ReleaseSignalsMutant(t) ==
  /\ pc[t] = "signal"
  /\ Goto(t, "return")
  /\ UNCHANGED <<count, keys, mutex, callouts, level>>

ReleaseSignals(t) ==
  /\ pc[t] = "signal"
  /\ signal(t)
  /\ UNCHANGED <<count, keys, mutex, callouts, level>>

wait_till_drained(t, l) ==
  /\ pc[t] = "run"
  /\ t \in Waiters
  /\ level' = [level EXCEPT ![t] = l]
  /\ Goto(t, "wait")
  /\ UNCHANGED <<count, keys, mutex, callouts>>

\* while (_count > level)
Check(t) ==
  /\ pc[t] = "check"
  /\ Goto(t, IF count > level[t] THEN "sleep" ELSE "return")
  /\ UNCHANGED <<count, keys, mutex, callouts, level>>

\* _cond->wait(key)
Sleep(t) ==
  /\ pc[t] = "sleep"
  /\ mutex' = NoThread
  /\ Goto(t, "asleep")
  /\ UNCHANGED <<count, keys, callouts, level>>

\* The backend makes the call_out.
async_wakeup(t) ==
  /\ t = Backend
  /\ pc[t] = "run"
  /\ callouts > 0
  /\ callouts' = callouts - 1
  /\ Goto(t, "wakeup")
  /\ UNCHANGED <<count, keys, mutex, level>>

WakeupSignals(t) ==
  /\ pc[t] = "wakeup signal"
  /\ signal(t)
  /\ UNCHANGED <<count, keys, mutex, callouts, level>>

-----------------------------------------------------------------------------
(* The specification.                                                      *)

Init ==
  /\ count = 0
  /\ keys = 0
  /\ mutex = NoThread
  /\ callouts = 0
  /\ pc = [t \in Threads |-> "run"]
  /\ level = [t \in Threads |-> 0]

Continue(t) ==
  \/ lock(t) \/ Return(t) \/ Acquired(t) \/ Release(t) \/ ReleaseSignals(t)
  \/ Check(t) \/ Sleep(t) \/ async_wakeup(t) \/ WakeupSignals(t)

Next ==
  \E t \in Threads :
    \/ Continue(t) \/ acquire(t) \/ _destruct(t)
    \/ \E l \in Levels : wait_till_drained(t, l)

Spec == Init /\ [][Next]_vars

\* The interpreter schedules every thread, the mutex is given to every thread
\* that waits for it (CallsReturn of PikeMutex), and the backend runs.
Fairness ==
  \A t \in Threads : WF_vars(Continue(t)) /\ SF_vars(lock(t))

LiveSpec == Spec /\ Fairness

-----------------------------------------------------------------------------
(* Properties.                                                             *)

\* "Blocks until the resource-counter dips to max level": a thread that sleeps
\* although the counter has dipped has a signal on its way, from a destructor
\* or from the backend.
SignalComes ==
  \A t \in Sleepers : Drained(t) =>
    \/ callouts > 0
    \/ \E u \in Threads : pc[u] \in {"signal", "wakeup", "wakeup signal"}

\* wait_till_drained() returns if the counter dips to its level and stays
\* there, although the destructor may signal before the waiter sleeps.
DrainReturns ==
  \A t \in Waiters :
    pc[t] \in {"wait", "check", "sleep", "asleep"} /\ Drained(t)
      ~> pc[t] = "run" \/ ~Drained(t)

-----------------------------------------------------------------------------
(* The inductive invariant.                                                *)

PCs == {"run", "acquire", "acquired", "return", "release", "signal", "wait", "check",
        "sleep", "asleep", "wakeup", "wakeup signal"}

TypeOK ==
  /\ count \in Nat /\ keys \in Nat /\ callouts \in Nat
  /\ mutex \in Threads \cup {NoThread}
  /\ pc \in [Threads -> PCs]
  /\ level \in [Threads -> Nat]

\* The counter is the number of keys, and of keys whose destructor has yet to
\* lower it.
Releasing == {t \in Threads : pc[t] = "release"}
CountInv == count = keys + Cardinality(Releasing)

MutexInv ==
  \A t \in Threads :
    pc[t] \in {"acquired", "check", "sleep", "wakeup signal"} => mutex = t

WaiterInv ==
  \A t \in Threads : pc[t] \in {"wait", "check", "sleep", "asleep"} => t \in Waiters

\* The counter may dip between the test and the sleep, to a destructor that
\* does not get the mutex and signals before there is a sleeper.  The backend
\* signals again.
SleepInv ==
  \A t \in Threads : pc[t] = "sleep" /\ Drained(t) =>
    callouts > 0 \/ \E u \in Threads : pc[u] = "wakeup"

IInv == TypeOK /\ CountInv /\ MutexInv /\ WaiterInv /\ SleepInv

\* signal() wakes a thread that waits for another level than the one that the
\* counter has dipped to, so SignalComes is about one waiter.
OneWaiter == \A v, w \in Waiters : v = w

=============================================================================
