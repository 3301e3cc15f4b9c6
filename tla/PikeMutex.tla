------------------------------ MODULE PikeMutex ------------------------------
(***************************************************************************)
(* Thread.Mutex, Thread.MutexKey and Thread.Condition of                   *)
(* src/src/pike_threads.c, for one mutex and one condition variable.       *)
(*                                                                         *)
(* Every C function runs with the interpreter lock held, and gives it up   *)
(* only while it waits on a COND_T or between THREADS_ALLOW() and          *)
(* THREADS_DISALLOW().  An action is therefore the code from one such      *)
(* point to the next.  The doubly linked list m->key ... key->next is the  *)
(* sequence keys: keys[1] is m->key, and a key whose next pointer is NULL  *)
(* is the last element.                                                    *)
(*                                                                         *)
(* One rule is assumed of the Pike program: it does not destruct() a key   *)
(* while another thread is inside upgrade() or wait() on that very key     *)
(* (the C code would then use freed object storage).                       *)
(***************************************************************************)
EXTENDS Naturals, FiniteSets, SequencesExt

CONSTANTS
  Threads,        \* the Pike level threads
  Keys,           \* MutexKey objects that can exist at one time (a bound)
  Promises,       \* promises of future_lock() pending at one time (a bound)
  Ops,            \* the methods the program calls, a subset of AllOps
  LockTypes,      \* the values of the "type" argument it uses, within 0..2
  Timeouts,       \* the "seconds, nanos" arguments: see AllTimeouts
  MaxInterrupts,  \* bound on Thread.interrupt()/kill() hitting a wait
  NoThread, NoKey

AllOps == {"lock", "trylock", "shared_lock", "try_shared_lock",
           "future_lock", "future_shared_lock", "downgrade", "upgrade",
           "try_upgrade", "wait", "signal", "broadcast",
           "destruct_mutex", "destruct_cond", "disable_threads"}

\* No timeout (zero), a timeout, or negative seconds ("try lock").
AllTimeouts == {"none", "timed", "expired"}

ASSUME MutexAssumption ==
  /\ NoThread \notin Threads
  /\ NoKey \notin Keys
  /\ IsFiniteSet(Threads)
  /\ Ops \subseteq AllOps
  /\ LockTypes \subseteq 0..2
  /\ Timeouts \subseteq AllTimeouts
  /\ MaxInterrupts \in Nat

VARIABLES
  keys,          \* m->key and its next pointers
  kind,          \* key->kind; KEY_UNINITIALIZED is a key object not in use
  owner,         \* key->owner
  num_waiting,   \* m->num_waiting
  prog,          \* the Mutex object has not been destructed
  condition,     \* m->condition has not been through co_destroy()
  pending,       \* pending_mutex_futures[m]: promise and is_shared
  cond_prog,     \* the Condition object has not been destructed
  disabler,      \* the thread that holds _disable_threads(), or NoThread
  pc,            \* where each thread is
  cur,           \* the key of the call a thread is waiting in
  timed,         \* threads whose current wait has a timeout
  asleep,        \* threads in co_wait() that nobody has signalled
  todo,          \* nodes the loop of exit_mutex_key_obj has yet to visit
  held,          \* keys the Pike program has references to
  leaked,        \* keys with a reference that no code will ever free
  interrupts     \* waits that ended by an interrupt

mutexVars == <<keys, kind, owner, num_waiting, prog, condition, pending>>
threadVars == <<pc, cur, timed, asleep, todo>>
progVars == <<held, leaked, interrupts>>
vars == <<keys, kind, owner, num_waiting, prog, condition, pending, cond_prog,
          disabler, pc, cur, timed, asleep, todo, held, leaked, interrupts>>

Kinds == {"UNINITIALIZED", "INITIALIZED", "SHARED", "DOWNGRADED", "PENDING",
          "EXCLUSIVE"}
Excluding == {"PENDING", "EXCLUSIVE"}       \* kind >= KEY_PENDING

MutexWaits == {"lock", "shared_lock", "upgrade", "relock"}
PCs == MutexWaits \cup {"run", "wait", "grant", "exit_cond"}
Requests == [promise : Promises, shared : BOOLEAN]

-----------------------------------------------------------------------------
(* The key list.  An operator named ...Mutant is the next one as a         *)
(* plausible bug would have it; no specification uses it.                  *)

Listed == {keys[i] : i \in DOMAIN keys}
HasNextMutant(k) == \E i \in DOMAIN keys : i > 1 /\ keys[i] = k
HasNext(k) == \E i \in DOMAIN keys : i < Len(keys) /\ keys[i] = k
IndexOf(k) == CHOOSE i \in DOMAIN keys : keys[i] = k
Unlinked(k) == RemoveAt(keys, IndexOf(k))

\* Index 0 links the key first, as m->key.
LinkAfterMutant(i, k) == InsertAt(keys, 1, k)
LinkAfter(i, k) == InsertAt(keys, i + 1, k)

ExclusiveHeadMutant == keys # <<>> /\ kind[keys[1]] = "EXCLUSIVE"
ExclusiveHead == keys # <<>> /\ kind[keys[1]] \in Excluding
DowngradedHead == keys # <<>> /\ kind[keys[1]] = "DOWNGRADED"
Fresh == {k \in Keys : kind[k] = "UNINITIALIZED"}

OwnIdx(t) == {i \in DOMAIN keys : owner[keys[i]] = t}
OwnSharedIdx(t) == {i \in OwnIdx(t) : kind[keys[i]] \notin Excluding}
First(I) == CHOOSE i \in I : \A j \in I : i <= j

\* The first key of t in the list is exclusive, or is waiting to be.
OwnsExclusive(t) ==
  OwnIdx(t) # {} /\ kind[keys[First(OwnIdx(t))]] \in Excluding

\* Index of the key a new shared key is linked after; 0 links it first.
SharedPrev(t) ==
  IF OwnSharedIdx(t) # {} THEN First(OwnSharedIdx(t))
  ELSE IF DowngradedHead THEN 1 ELSE 0

-----------------------------------------------------------------------------
(* Steps shared by the actions.                                            *)

CanRun(t) == disabler \in {NoThread, t}     \* may hold the interpreter lock
Call(t, op) == pc[t] = "run" /\ CanRun(t) /\ op \in Ops
Awake(t, where) == pc[t] = where /\ t \notin asleep /\ CanRun(t)

MutexSleepersMutant == {t \in asleep : pc[t] \in MutexWaits \ {"relock"}}
MutexSleepers == {t \in asleep : pc[t] \in MutexWaits}
CondSleepers == {t \in asleep : pc[t] = "wait"}

Resume(t) ==
  /\ pc' = [pc EXCEPT ![t] = "run"]
  /\ cur' = [cur EXCEPT ![t] = NoKey]
  /\ timed' = timed \ {t}

\* co_wait_interpreter() or co_wait_interpreter_timeout(); sleepers are the
\* threads already asleep, without those that the call woke before.
Sleep(t, where, k, timeout, sleepers) ==
  /\ pc' = [pc EXCEPT ![t] = where]
  /\ cur' = [cur EXCEPT ![t] = k]
  /\ timed' = IF timeout = "none" THEN timed ELSE timed \cup {t}
  /\ asleep' = sleepers \cup {t}
  /\ UNCHANGED todo

SetKey(k, t, kd) ==
  /\ kind' = [kind EXCEPT ![k] = kd]
  /\ owner' = [owner EXCEPT ![k] = t]

\* A key object given to the program without waiting; ks is the new list.
Acquire(t, k, ks, kd) ==
  /\ keys' = ks
  /\ SetKey(k, t, kd)
  /\ held' = held \cup {k}
  /\ UNCHANGED <<num_waiting, prog, condition, pending, threadVars, leaked,
                 interrupts, cond_prog, disabler>>

\* exit_mutex_key_obj wakes the threads that wait for the mutex if there are
\* any, and otherwise looks at the pending futures: nw is m->num_waiting.
WokenAtExitMutant(nw) == IF nw > 1 THEN MutexSleepers ELSE {}
WokenAtExit(nw) == IF nw > 0 THEN MutexSleepers ELSE {}
GrantsAtExitMutant(nw) == nw > 0 /\ prog /\ pending # {}
GrantsAtExit(nw) == nw = 0 /\ prog /\ pending # {}

\* The second half of exit_mutex_key_obj, after the key has been unlinked,
\* for a key with key->mut set.
ExitHook(t, nw) ==
  /\ num_waiting' = nw
  /\ asleep' = asleep \ WokenAtExit(nw)
  /\ condition' = (condition /\ (nw > 0 \/ prog))
  /\ cur' = [cur EXCEPT ![t] = NoKey]
  /\ timed' = timed \ {t}
  /\ IF GrantsAtExit(nw)
       THEN /\ pc' = [pc EXCEPT ![t] = "grant"]
            /\ todo' = [todo EXCEPT ![t] = pending]
       ELSE /\ pc' = [pc EXCEPT ![t] = "run"]
            /\ UNCHANGED todo
  /\ UNCHANGED <<prog, pending, leaked, interrupts, cond_prog, disabler>>

\* A wait for the exclusive lock ends with key->next == NULL.
WaitOverMutant(t, where) ==
  /\ Awake(t, where)
  /\ ~HasNext(cur[t])
  /\ kind' = [kind EXCEPT ![cur[t]] = "EXCLUSIVE"]
  /\ held' = held \cup {cur[t]}
  /\ Resume(t)
  /\ UNCHANGED <<keys, owner, num_waiting, prog, condition, pending, asleep, todo,
                 leaked, interrupts, cond_prog, disabler>>

WaitOver(t, where) ==
  /\ Awake(t, where)
  /\ ~HasNext(cur[t])
  /\ kind' = [kind EXCEPT ![cur[t]] = "EXCLUSIVE"]
  /\ num_waiting' = num_waiting - 1
  /\ held' = held \cup {cur[t]}
  /\ Resume(t)
  /\ UNCHANGED <<keys, owner, prog, condition, pending, asleep, todo, leaked,
                 interrupts, cond_prog, disabler>>

\* An error thrown by check_threads_etc() after the wait: num_waiting is not
\* restored and no key is unlinked.
Interrupted(t) ==
  /\ interrupts < MaxInterrupts
  /\ interrupts' = interrupts + 1
  /\ Resume(t)
  /\ UNCHANGED <<keys, num_waiting, prog, condition, pending, cond_prog,
                 disabler, asleep, todo, held, leaked>>

SleepAgain(t) ==
  /\ asleep' = asleep \cup {t}
  /\ UNCHANGED <<mutexVars, progVars, cond_prog, disabler, pc, cur, timed,
                 todo>>

-----------------------------------------------------------------------------
(* Mutex()->lock(), trylock() and future_lock().                           *)

lock(t, type, timeout) ==
  /\ Call(t, "lock")
  /\ prog
  /\ \/ /\ type # 1
        /\ OwnIdx(t) # {}
        /\ UNCHANGED vars             \* error, or zero for type 2
     \/ /\ type = 1 \/ OwnIdx(t) = {}
        /\ \/ /\ keys = <<>>
              /\ \E k \in Fresh : Acquire(t, k, <<k>>, "EXCLUSIVE")
           \/ /\ keys # <<>>           \* the new key is destructed at once
              /\ disabler = t \/ timeout = "expired"
              /\ ExitHook(t, num_waiting)
              /\ UNCHANGED <<keys, kind, owner, held>>
           \/ /\ keys # <<>>
              /\ disabler # t
              /\ timeout # "expired"
              /\ \E k \in Fresh :
                   /\ keys' = LinkAfter(0, k)
                   /\ SetKey(k, t, "PENDING")
                   /\ Sleep(t, "lock", k, timeout, asleep)
              /\ num_waiting' = num_waiting + 1
              /\ UNCHANGED <<prog, condition, pending, progVars, cond_prog,
                             disabler>>

LockGranted(t) == WaitOver(t, "lock")

LockTimedOutMutant(t) ==
  /\ Awake(t, "lock")
  /\ HasNext(cur[t])
  /\ t \in timed
  /\ ExitHook(t, num_waiting - 1)
  /\ UNCHANGED <<keys, kind, owner, held>>

LockTimedOut(t) ==
  /\ Awake(t, "lock")
  /\ HasNext(cur[t])
  /\ t \in timed
  /\ keys' = Unlinked(cur[t])
  /\ SetKey(cur[t], NoThread, "UNINITIALIZED")
  /\ ExitHook(t, num_waiting - 1)
  /\ UNCHANGED held

LockWaits(t) == Awake(t, "lock") /\ HasNext(cur[t]) /\ SleepAgain(t)

\* The key stays in the list, with no reference but the one that
\* f_mutex_lock() lost.
LockInterrupted(t) ==
  Awake(t, "lock") /\ Interrupted(t) /\ UNCHANGED <<kind, owner>>

trylock(t, type) ==
  /\ Call(t, "trylock")
  /\ prog
  /\ \/ /\ type = 0
        /\ OwnIdx(t) # {}
        /\ UNCHANGED vars             \* error
     \/ /\ type # 0 \/ OwnIdx(t) = {}
        /\ keys # <<>>
        /\ UNCHANGED vars             \* zero
     \/ /\ keys = <<>>
        /\ \E k \in Fresh : Acquire(t, k, <<k>>, "EXCLUSIVE")

\* multiset_insert() into pending_mutex_futures[m].  A loop of
\* exit_mutex_key_obj that is under way meets the new node or not, as the
\* order of the multiset has it.
Enqueue(t, p, is_shared) ==
  LET e == [promise |-> p, shared |-> is_shared] IN
  /\ pending' = pending \cup {e}
  /\ \E G \in SUBSET {u \in Threads : pc[u] = "grant"} :
       todo' = [u \in Threads |-> IF u \in G THEN todo[u] \cup {e} ELSE todo[u]]
  /\ UNCHANGED <<keys, kind, owner, num_waiting, prog, condition, pc, cur,
                 timed, asleep, progVars, cond_prog, disabler>>

IsPending(p) == \E e \in pending : e.promise = p

future_lock(t, p) ==
  /\ Call(t, "future_lock")
  /\ prog
  /\ ~IsPending(p)
  /\ \/ /\ keys = <<>>
        /\ \E k \in Fresh : Acquire(t, k, <<k>>, "EXCLUSIVE")
     \/ /\ keys # <<>>
        /\ Enqueue(t, p, FALSE)

-----------------------------------------------------------------------------
(* Mutex()->shared_lock(), try_shared_lock() and future_shared_lock().     *)

shared_lock(t, type, timeout) ==
  /\ Call(t, "shared_lock")
  /\ prog
  /\ \/ /\ OwnsExclusive(t)
        /\ type # 1
        /\ UNCHANGED vars             \* error, or zero for type 2
     \/ /\ ~OwnsExclusive(t) \/ type = 1
        /\ \/ /\ OwnSharedIdx(t) # {}  \* prev_o is not freed on this path
              /\ ExclusiveHead
              /\ leaked' = leaked \cup {keys[First(OwnSharedIdx(t))]}
              /\ UNCHANGED <<mutexVars, threadVars, held, interrupts,
                             cond_prog, disabler>>
           \/ /\ ~ExclusiveHead
              /\ OwnSharedIdx(t) # {} \/ disabler # t
              /\ \E k \in Fresh :
                   Acquire(t, k, LinkAfter(SharedPrev(t), k), "SHARED")
           \/ /\ OwnSharedIdx(t) = {}
              /\ disabler = t
              /\ UNCHANGED vars             \* error
           \/ /\ OwnSharedIdx(t) = {}
              /\ ExclusiveHead
              /\ disabler # t
              /\ timeout = "expired"
              /\ UNCHANGED vars             \* zero
           \/ /\ OwnSharedIdx(t) = {}
              /\ ExclusiveHead
              /\ disabler # t
              /\ timeout # "expired"
              /\ \E k \in Fresh :
                   /\ SetKey(k, t, "INITIALIZED")
                   /\ Sleep(t, "shared_lock", k, timeout, asleep)
              /\ num_waiting' = num_waiting + 1
              /\ UNCHANGED <<keys, prog, condition, pending, progVars,
                             cond_prog, disabler>>

SharedGranted(t) ==
  /\ Awake(t, "shared_lock")
  /\ ~ExclusiveHead
  /\ keys' = LinkAfter(IF DowngradedHead THEN 1 ELSE 0, cur[t])
  /\ kind' = [kind EXCEPT ![cur[t]] = "SHARED"]
  /\ num_waiting' = num_waiting - 1
  /\ held' = held \cup {cur[t]}
  /\ Resume(t)
  /\ UNCHANGED <<owner, prog, condition, pending, asleep, todo, leaked,
                 interrupts, cond_prog, disabler>>

SharedTimedOut(t) ==
  /\ Awake(t, "shared_lock")
  /\ ExclusiveHead
  /\ t \in timed
  /\ SetKey(cur[t], NoThread, "UNINITIALIZED")
  /\ num_waiting' = num_waiting - 1
  /\ Resume(t)
  /\ UNCHANGED <<keys, prog, condition, pending, asleep, todo, progVars,
                 cond_prog, disabler>>

SharedWaits(t) == Awake(t, "shared_lock") /\ ExclusiveHead /\ SleepAgain(t)

SharedInterrupted(t) ==
  /\ Awake(t, "shared_lock")
  /\ Interrupted(t)
  /\ SetKey(cur[t], NoThread, "UNINITIALIZED")

\* f_mutex_try_shared_lock(), for the calls that do not throw.
CanShare(t) == OwnSharedIdx(t) # {} \/ ~ExclusiveHead

try_shared_lock(t, type) ==
  /\ Call(t, "try_shared_lock")
  /\ prog
  /\ \/ /\ OwnsExclusive(t)
        /\ type = 0
        /\ UNCHANGED vars             \* error
     \/ /\ ~OwnsExclusive(t) \/ type # 0
        /\ CanShare(t)
        /\ \E k \in Fresh :
             Acquire(t, k, LinkAfter(SharedPrev(t), k), "SHARED")
     \/ /\ ~OwnsExclusive(t) \/ type # 0
        /\ ~CanShare(t)
        /\ UNCHANGED vars             \* zero

future_shared_lock(t, p) ==
  /\ Call(t, "future_shared_lock")
  /\ prog
  /\ ~IsPending(p)
  /\ \/ /\ CanShare(t)
        /\ \E k \in Fresh :
             Acquire(t, k, LinkAfter(SharedPrev(t), k), "SHARED")
     \/ /\ ~CanShare(t)
        /\ Enqueue(t, p, TRUE)

-----------------------------------------------------------------------------
(* MutexKey()->downgrade(), upgrade() and try_upgrade(), and its exit hook. *)

\* A new kind for a key that stays where it is.
RekindMutant(k, kd, nw) ==
  /\ kind' = [kind EXCEPT ![k] = kd]
  /\ UNCHANGED <<keys, num_waiting, owner, prog, condition, pending>>
Rekind(k, kd, nw) ==
  /\ kind' = [kind EXCEPT ![k] = kd]
  /\ num_waiting' = nw
  /\ UNCHANGED <<keys, owner, prog, condition, pending>>

downgrade(t, k) ==
  /\ Call(t, "downgrade")
  /\ k \in held
  /\ \/ /\ kind[k] \notin Excluding
        /\ UNCHANGED vars
     \/ /\ kind[k] = "PENDING"
        /\ UNCHANGED vars             \* error
     \/ /\ kind[k] = "EXCLUSIVE"
        /\ Rekind(k, "DOWNGRADED", num_waiting)
        /\ asleep' = asleep \ MutexSleepers
        /\ UNCHANGED <<pc, cur, timed, todo, progVars, cond_prog, disabler>>

upgrade(t, k, timeout) ==
  /\ Call(t, "upgrade")
  /\ k \in held
  /\ \/ /\ kind[k] \in Excluding
        /\ UNCHANGED vars
     \/ /\ kind[k] \notin Excluding \cup {"DOWNGRADED"}
        /\ UNCHANGED vars             \* error
     \/ /\ kind[k] = "DOWNGRADED"
        /\ \/ /\ HasNext(k)
              /\ disabler = t
              /\ UNCHANGED vars             \* error
           \/ /\ HasNext(k)
              /\ disabler # t
              /\ timeout = "expired"
              /\ asleep' = asleep \ MutexSleepers
              /\ UNCHANGED <<mutexVars, pc, cur, timed, todo, progVars,
                             cond_prog, disabler>>
           \/ /\ HasNext(k)
              /\ disabler # t
              /\ timeout # "expired"
              /\ Rekind(k, "PENDING", num_waiting + 1)
              /\ Sleep(t, "upgrade", k, timeout, asleep)
              /\ UNCHANGED <<progVars, cond_prog, disabler>>
           \/ /\ ~HasNext(k)
              /\ Rekind(k, "EXCLUSIVE", num_waiting)
              /\ UNCHANGED <<threadVars, progVars, cond_prog, disabler>>

UpgradeGranted(t) == WaitOver(t, "upgrade")

UpgradeTimedOut(t) ==
  /\ Awake(t, "upgrade")
  /\ HasNext(cur[t])
  /\ t \in timed
  /\ Rekind(cur[t], "DOWNGRADED", num_waiting - 1)
  /\ asleep' = asleep \ MutexSleepers
  /\ Resume(t)
  /\ UNCHANGED <<todo, progVars, cond_prog, disabler>>

UpgradeWaits(t) == Awake(t, "upgrade") /\ HasNext(cur[t]) /\ SleepAgain(t)

UpgradeInterrupted(t) ==
  /\ Awake(t, "upgrade")
  /\ Interrupted(t)
  /\ UNCHANGED <<kind, owner>>

try_upgrade(t, k) ==
  /\ Call(t, "try_upgrade")
  /\ k \in held
  /\ \/ /\ kind[k] \in Excluding
        /\ UNCHANGED vars             \* one
     \/ /\ kind[k] \notin Excluding \cup {"DOWNGRADED"}
        /\ UNCHANGED vars             \* error
     \/ /\ kind[k] = "DOWNGRADED"
        /\ HasNext(k)
        /\ UNCHANGED vars             \* zero
     \/ /\ kind[k] = "DOWNGRADED"
        /\ ~HasNext(k)
        /\ Rekind(k, "EXCLUSIVE", num_waiting)
        /\ UNCHANGED <<threadVars, progVars, cond_prog, disabler>>

\* The program gives up a key: it drops the last reference, or destructs it.
\* In Pike any thread can unlock a mutex.
Release(t, k) ==
  /\ pc[t] = "run"
  /\ CanRun(t)
  /\ k \in held
  /\ \A u \in Threads : cur[u] # k
  /\ held' = held \ {k}
  /\ SetKey(k, NoThread, "UNINITIALIZED")
  /\ IF k \in Listed
       THEN keys' = Unlinked(k) /\ ExitHook(t, num_waiting)
       ELSE UNCHANGED <<keys, num_waiting, prog, condition, pending,
                        threadVars, leaked, interrupts, cond_prog, disabler>>

\* The program drops its last reference to a key that has one too many.
DropLeaked(t, k) ==
  /\ pc[t] = "run"
  /\ CanRun(t)
  /\ k \in held \cap leaked
  /\ \A u \in Threads : cur[u] # k
  /\ held' = held \ {k}
  /\ UNCHANGED <<mutexVars, threadVars, leaked, interrupts, cond_prog,
                 disabler>>

\* The loop over the pending futures in exit_mutex_key_obj: one step for
\* each node, since promise->success() runs Pike code.  An entry is invalid,
\* and zapped, only if the program has destructed its promise; it does not.
GrantTo(t, e, k, ks, kd) ==
  /\ keys' = ks
  /\ SetKey(k, t, kd)
  /\ held' = held \cup {k}
  /\ pending' = pending \ {e}

GrantEnds(t) ==
  pc' = [pc EXCEPT ![t] = "run"] /\ todo' = [todo EXCEPT ![t] = {}]

GrantNext(t, e) == todo' = [todo EXCEPT ![t] = @ \ {e}] /\ UNCHANGED pc

Grant(t) ==
  /\ pc[t] = "grant"
  /\ CanRun(t)
  /\ UNCHANGED <<num_waiting, prog, condition, cur, timed, asleep, leaked,
                 interrupts, cond_prog, disabler>>
  /\ \/ /\ todo[t] \cap pending = {}
        /\ GrantEnds(t)
        /\ UNCHANGED <<keys, kind, owner, pending, held>>
     \/ \E e \in todo[t] \cap pending :
          \/ /\ ~e.shared
             /\ keys = <<>>
             /\ \E k \in Fresh : GrantTo(t, e, k, <<k>>, "EXCLUSIVE")
             /\ GrantEnds(t)
          \/ /\ ~e.shared
             /\ keys # <<>>
             /\ GrantNext(t, e)
             /\ UNCHANGED <<keys, kind, owner, pending, held>>
          \/ /\ e.shared
             /\ CanShare(t)
             /\ \E k \in Fresh :
                  GrantTo(t, e, k, LinkAfter(SharedPrev(t), k), "SHARED")
             /\ GrantNext(t, e)
          \/ /\ e.shared
             /\ ~CanShare(t)
             /\ GrantEnds(t)
             /\ UNCHANGED <<keys, kind, owner, pending, held>>

-----------------------------------------------------------------------------
(* Condition()->wait(), signal() and broadcast().                          *)

wait(t, k, timeout) ==
  /\ Call(t, "wait")
  /\ cond_prog
  /\ k \in held
  /\ \/ /\ disabler = t \/ kind[k] # "EXCLUSIVE"
        /\ UNCHANGED vars             \* error
     \/ /\ disabler # t
        /\ kind[k] = "EXCLUSIVE"
        /\ keys' = Unlinked(k)
        /\ kind' = [kind EXCEPT ![k] = "INITIALIZED"]
        /\ Sleep(t, "wait", k, timeout, asleep \ MutexSleepers)
        /\ UNCHANGED <<owner, num_waiting, prog, condition, pending, progVars,
                       cond_prog, disabler>>

\* Signalled, or the timeout was reached: the key is locked again.
WaitWakes(t) ==
  /\ Awake(t, "wait")
  /\ \/ /\ ~prog
        /\ Resume(t)
        /\ UNCHANGED <<keys, kind, num_waiting, asleep>>
     \/ /\ prog
        /\ keys = <<>>
        /\ keys' = <<cur[t]>>
        /\ kind' = [kind EXCEPT ![cur[t]] = "EXCLUSIVE"]
        /\ Resume(t)
        /\ UNCHANGED <<num_waiting, asleep>>
     \/ /\ prog
        /\ keys # <<>>
        /\ keys' = LinkAfter(0, cur[t])
        /\ kind' = [kind EXCEPT ![cur[t]] = "PENDING"]
        /\ num_waiting' = num_waiting + 1
        /\ pc' = [pc EXCEPT ![t] = "relock"]
        /\ timed' = timed \ {t}
        /\ asleep' = asleep \cup {t}
        /\ UNCHANGED cur
  /\ UNCHANGED <<owner, prog, condition, pending, todo, progVars, cond_prog,
                 disabler>>

WaitRelocked(t) == WaitOver(t, "relock")

WaitWaits(t) == Awake(t, "relock") /\ HasNext(cur[t]) /\ SleepAgain(t)

WaitInterrupted(t) ==
  /\ Awake(t, "relock")
  /\ Interrupted(t)
  /\ UNCHANGED <<kind, owner>>

\* co_signal() wakes one thread, or more, if there is one.
signal(t) ==
  /\ Call(t, "signal")
  /\ cond_prog
  /\ \E W \in SUBSET CondSleepers :
       /\ CondSleepers # {} => W # {}
       /\ asleep' = asleep \ W
  /\ UNCHANGED <<mutexVars, pc, cur, timed, todo, progVars, cond_prog,
                 disabler>>

broadcast(t) ==
  /\ Call(t, "broadcast")
  /\ cond_prog
  /\ asleep' = asleep \ CondSleepers
  /\ UNCHANGED <<mutexVars, pc, cur, timed, todo, progVars, cond_prog,
                 disabler>>

-----------------------------------------------------------------------------
(* The end of the mutex and of the condition, timeouts, _disable_threads(). *)

destruct_mutex(t) ==
  /\ Call(t, "destruct_mutex")
  /\ prog
  /\ prog' = FALSE
  /\ pending' = {}
  /\ condition' = (keys # <<>>)
  /\ UNCHANGED <<keys, kind, owner, num_waiting, threadVars, progVars,
                 cond_prog, disabler>>

CondWaiters == {u \in Threads : pc[u] = "wait"}       \* c->wait_count

destruct_condMutant(t) ==
  /\ Call(t, "destruct_cond")
  /\ cond_prog
  /\ cond_prog' = FALSE
  /\ IF CondWaiters = {}
       THEN UNCHANGED pc
       ELSE pc' = [pc EXCEPT ![t] = "exit_cond"]
  /\ UNCHANGED <<mutexVars, cur, timed, asleep, todo, progVars, disabler>>

destruct_cond(t) ==
  /\ Call(t, "destruct_cond")
  /\ cond_prog
  /\ cond_prog' = FALSE
  /\ asleep' = asleep \ CondSleepers
  /\ IF CondWaiters = {}
       THEN UNCHANGED pc
       ELSE pc' = [pc EXCEPT ![t] = "exit_cond"]
  /\ UNCHANGED <<mutexVars, cur, timed, todo, progVars, disabler>>

\* The loop of exit_cond_obj has no other way out than wait_count == 0.
DestructCondEnds(t) ==
  /\ Awake(t, "exit_cond")
  /\ CondWaiters = {}
  /\ Resume(t)
  /\ UNCHANGED <<mutexVars, asleep, todo, progVars, cond_prog, disabler>>

\* The timeout of a wait is reached.
TimeoutWake(t) ==
  /\ t \in asleep \cap timed
  /\ asleep' = asleep \ {t}
  /\ UNCHANGED <<mutexVars, pc, cur, timed, todo, progVars, cond_prog,
                 disabler>>

\* _disable_threads(), and the end of the object that it returns.
disable_threads(t) ==
  /\ Call(t, "disable_threads")
  /\ disabler' = IF disabler = t THEN NoThread ELSE t
  /\ UNCHANGED <<mutexVars, threadVars, progVars, cond_prog>>

-----------------------------------------------------------------------------
(* The specification.                                                      *)

Init ==
  /\ keys = <<>>
  /\ kind = [k \in Keys |-> "UNINITIALIZED"]
  /\ owner = [k \in Keys |-> NoThread]
  /\ num_waiting = 0
  /\ prog = TRUE
  /\ condition = TRUE
  /\ pending = {}
  /\ cond_prog = TRUE
  /\ disabler = NoThread
  /\ pc = [t \in Threads |-> "run"]
  /\ cur = [t \in Threads |-> NoKey]
  /\ timed = {}
  /\ asleep = {}
  /\ todo = [t \in Threads |-> {}]
  /\ held = {}
  /\ leaked = {}
  /\ interrupts = 0

\* What the Pike program may do next in thread t.
ProgramStep(t) ==
  \/ \E type \in LockTypes :
       \/ \E timeout \in Timeouts :
            lock(t, type, timeout) \/ shared_lock(t, type, timeout)
       \/ trylock(t, type) \/ try_shared_lock(t, type)
  \/ \E p \in Promises : future_lock(t, p) \/ future_shared_lock(t, p)
  \/ \E k \in Keys :
       \/ downgrade(t, k) \/ try_upgrade(t, k)
       \/ Release(t, k) \/ DropLeaked(t, k)
       \/ \E timeout \in Timeouts : upgrade(t, k, timeout) \/ wait(t, k, timeout)
  \/ signal(t) \/ broadcast(t)
  \/ destruct_mutex(t) \/ destruct_cond(t) \/ disable_threads(t)

\* The rest of a C function in which thread t has waited or yielded.
Continue(t) ==
  \/ LockGranted(t) \/ LockTimedOut(t) \/ LockWaits(t)
  \/ SharedGranted(t) \/ SharedTimedOut(t) \/ SharedWaits(t)
  \/ UpgradeGranted(t) \/ UpgradeTimedOut(t) \/ UpgradeWaits(t)
  \/ WaitWakes(t) \/ WaitRelocked(t) \/ WaitWaits(t)
  \/ Grant(t) \/ DestructCondEnds(t)

Interrupt(t) ==
  \/ LockInterrupted(t) \/ SharedInterrupted(t)
  \/ UpgradeInterrupted(t) \/ WaitInterrupted(t)

Next ==
  \E t \in Threads :
    ProgramStep(t) \/ Continue(t) \/ Interrupt(t) \/ TimeoutWake(t)

Spec == Init /\ [][Next]_vars

\* For liveness: a thread that has a key of the mutex asks for no other.
OneKeyEach ==
  /\ leaked = {}
  /\ \A k, l \in held : k # l => owner[k] # owner[l]

\* Every thread that can run is scheduled, and the program gives every key
\* back.
Fairness ==
  /\ \A t \in Threads : WF_vars(Continue(t))
  /\ \A k \in Keys : WF_vars(\E t \in Threads : Release(t, k))

LiveSpec == Init /\ [][Next /\ OneKeyEach']_vars /\ Fairness

-----------------------------------------------------------------------------
(* Safety.                                                                 *)

\* Every variable has the type of the C field or set it stands for, and
\* m->num_waiting is never negative.
TypeOK ==
  /\ keys \in Seq(Keys)
  /\ kind \in [Keys -> Kinds]
  /\ owner \in [Keys -> Threads \cup {NoThread}]
  /\ num_waiting \in Nat
  /\ prog \in BOOLEAN
  /\ condition \in BOOLEAN
  /\ pending \subseteq Requests
  /\ cond_prog \in BOOLEAN
  /\ disabler \in Threads \cup {NoThread}
  /\ pc \in [Threads -> PCs]
  /\ cur \in [Threads -> Keys \cup {NoKey}]
  /\ timed \subseteq Threads
  /\ asleep \subseteq Threads
  /\ todo \in [Threads -> SUBSET Requests]
  /\ held \subseteq Keys
  /\ leaked \subseteq Keys
  /\ interrupts \in 0..MaxInterrupts

\* Mutual exclusion: beside a key that lock(), trylock(), upgrade(),
\* try_upgrade(), wait() or a future has made exclusive, every key of the
\* mutex belongs to a call that is still waiting.
Exclusion ==
  \A k \in Listed : kind[k] = "EXCLUSIVE" =>
    \A l \in Listed \ {k} : kind[l] = "PENDING"

\* The order of the list: waiting keys, then at most one key that is
\* exclusive, downgraded or being upgraded, then shared keys, which an
\* exclusive key never precedes.  key->next == NULL can therefore mean "may
\* become exclusive".
QueueOrder ==
  \A i, j \in DOMAIN keys : i < j =>
    /\ kind[keys[i]] # "EXCLUSIVE"
    /\ kind[keys[j]] = "SHARED" \/ kind[keys[i]] = "PENDING"

\* m->num_waiting counts the threads that wait on m->condition, and the waits
\* that an interrupt ended.
NumWaiting ==
  num_waiting = Cardinality({t \in Threads : pc[t] \in MutexWaits}) + interrupts

\* No wakeup is lost: a thread asleep on m->condition has somebody to wait
\* for.
NoLostWakeup ==
  \A t \in asleep :
    /\ pc[t] \in {"lock", "upgrade", "relock"} => HasNext(cur[t])
    /\ pc[t] = "shared_lock" => ExclusiveHead

\* A pending future is not forgotten: while there is one, the mutex is locked,
\* or a thread is about to grant it, or a thread has the mutex unlocked only
\* until it wakes up and locks it.  An interrupt breaks this: num_waiting then
\* stays positive, and exit_mutex_key_obj grants no future any more.
NoForgottenFuture ==
  pending # {} /\ interrupts = 0 =>
    \/ keys # <<>>
    \/ \E t \in Threads : pc[t] \in MutexWaits \cup {"grant", "wait"}

\* Keys that nobody can give up: the program has no reference to them, and no
\* call that waits will return them.
OrphanKeys == Listed \ (held \cup {cur[t] : t \in Threads})

\* "When the key is destructed or has no more references the mutex will
\* automatically be unlocked": a key that nobody can give up is one whose
\* lock(), upgrade() or wait() was interrupted, or one that a recursive
\* shared_lock() leaked a reference to.
OrphansExplained == Cardinality(OrphanKeys \ leaked) <= interrupts

-----------------------------------------------------------------------------
(* The inductive invariant: what links the key list, the kinds of the keys *)
(* and the waiting threads.                                                *)

KeyWaits == {"lock", "upgrade", "relock"}   \* with key in the list
FreeWaits == {"shared_lock", "wait"}        \* with key outside of it

ListInv ==
  /\ \A i, j \in DOMAIN keys : keys[i] = keys[j] => i = j
  /\ \A k \in Keys : k \in Listed <=> kind[k] \notin {"UNINITIALIZED", "INITIALIZED"}

KeyInv ==
  /\ \A k \in Keys : kind[k] # "UNINITIALIZED" => owner[k] \in Threads
  /\ \A k \in held : kind[k] # "UNINITIALIZED"

WaitInv ==
  /\ \A t \in Threads :
       /\ pc[t] \in KeyWaits => cur[t] \in Keys /\ kind[cur[t]] = "PENDING"
       /\ pc[t] \in FreeWaits => cur[t] \in Keys /\ kind[cur[t]] = "INITIALIZED"
       /\ pc[t] \notin KeyWaits \cup FreeWaits => cur[t] = NoKey
       /\ pc[t] \in {"lock", "shared_lock"} => cur[t] \notin held
  /\ \A t, u \in Threads : cur[t] = cur[u] /\ cur[t] # NoKey => t = u

\* Behind a key that is being upgraded there are only shared keys.
SharedBehind(k) ==
  \A i, j \in DOMAIN keys : keys[i] = k /\ i < j => kind[keys[j]] = "SHARED"
UpgradeOrder == \A t \in Threads : pc[t] = "upgrade" => SharedBehind(cur[t])

SleepInv == \A t \in asleep : pc[t] \in KeyWaits \cup FreeWaits

IInv ==
  /\ TypeOK
  /\ ListInv
  /\ KeyInv
  /\ WaitInv
  /\ QueueOrder
  /\ UpgradeOrder
  /\ NumWaiting
  /\ SleepInv
  /\ NoLostWakeup

\* For NoForgottenFuture: the thread that grants has yet to visit them all.
CanGrant(t) ==
  \/ pc[t] \in MutexWaits \cup {"wait"}
  \/ pc[t] = "grant" /\ pending \subseteq todo[t]
FutureInv ==
  /\ pending # {} => prog
  /\ pending # {} /\ interrupts = 0 /\ keys = <<>> => \E t \in Threads : CanGrant(t)

\* For OrphansExplained: upgrade() and wait() are called with a key.
HeldInv ==
  \A t \in Threads : pc[t] \in {"upgrade", "relock", "wait"} => cur[t] \in held

-----------------------------------------------------------------------------
(* What the mutex promises.  A key that waits for the exclusive lock is no *)
(* grant yet; one that is being upgraded still is.                         *)

InUpgrade(k) == \E t \in Threads : pc[t] = "upgrade" /\ cur[t] = k
Granted(S) == {<<k, owner[k]>> : k \in S}
ReadingKeys ==
  {k \in Listed : kind[k] \in {"SHARED", "DOWNGRADED"} \/ InUpgrade(k)}
WritingKeys == {k \in Listed : kind[k] = "EXCLUSIVE"}

RW == INSTANCE ReadersWriters WITH
        readers <- Granted(ReadingKeys),
        writers <- Granted(WritingKeys),
        upgrading <- Granted({k \in Listed : InUpgrade(k)})

\* The key list with its waits, wakeups, timeouts and interrupts implements
\* the readers-writers lock: no shared key beside an exclusive one, no writer
\* between downgrade() and the end of upgrade(), and no new reader once
\* upgrade() has been called, other than in a thread that reads already.
ImplementsReadersWriters == RW!Spec

-----------------------------------------------------------------------------
(* Liveness.                                                               *)

\* Calls that wait return.  A lock() does, whatever shared and exclusive locks
\* are taken meanwhile: new keys queue up before its key, not behind it.  An
\* upgrade() does once the concurrent shared keys are gone: no new ones are let
\* in.  A thread that was signalled in wait() locks the mutex again.  And
\* destructing a condition that threads wait for does not hang.
CallsReturn ==
  \A t \in Threads :
    /\ pc[t] \in {"lock", "upgrade", "exit_cond"} ~> pc[t] = "run"
    /\ pc[t] = "wait" /\ t \notin asleep ~> pc[t] = "run"

=============================================================================
