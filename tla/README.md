# Pike's thread synchronisation in TLA+

TLA+ modules for the parts of Pike that are hardest to test: the objects with
which Pike threads wait for each other, the futures built on them, and the
cycle check of the garbage collector. The reference is the C and Pike source
under `src/`; every definition of a component's module is translated from the
lines that `PROJECT.json` names under `map`.

## 1. Inventory

Pike is an interpreter for a C-like language. Most of it is sequential code
(compiler, byte code interpreter, arrays, mappings, string functions, protocol
libraries). Concurrency comes from one place: `src/src/pike_threads.c` and the Pike
modules built on it. The garbage collector is sequential, but its outcome
depends on the shape of the heap and on the order in which it is visited.

| Component | State | Operations | Hard behaviour | What makes it correct |
|---|---|---|---|---|
| **Mutex, MutexKey, Condition** (`pike_threads.c` 2180-4030) | list of keys `m->key`, kind and owner of each, `num_waiting`, `m->condition`, pending futures, `wait_count` | lock, trylock, shared_lock, try_shared_lock, future_lock, future_shared_lock, downgrade, upgrade, try_upgrade, dropping a key, wait, signal, broadcast, destruction | interleaved waits, timeouts, interrupts, keys that outlive the mutex, futures granted by the releasing thread | exclusion; no lost wakeup; every waiter is counted; a wait ends; a future is not forgotten |
| **Interpreter lock** (460-600, 748-1100) | `interpreter_lock`, `threads_disabled`, `live_threads`, `disabled_threads`, interleave mutexes | lock, unlock, wait, `_disable_threads()` and its end, `THREADS_ALLOW_UID` | lock order, threads that return from a system call while threads are disabled | at most one thread runs Pike code; disabling returns and lets nobody else run |
| **Thread objects** (1758-2060, 4030-4370) | status, `waiting`, result, flags, `num_pending_interrupts` | create, wait, interrupt, kill, exit | exit racing wait, interrupts | a wait returns; the state is freed once, by the last to need it; a pending interrupt is noticed |
| **Thread.Local, native thread farm** (4430-4700) | per-thread mapping; list of idle farmers | get, set; `th_farm()` | idle farmer reuse | a job runs once |
| **Thread.Fifo, Queue, ResourceCount** (`lib/modules/Thread.pmod/module.pmod`) | ring buffer `buffer, ptr, num`; `buffer, r_ptr, w_ptr`; a counter | read, write, try variants, peek, read_array | wraparound, growth, wakeups by threshold, reads outside the lock | values come out once and in order; nobody sleeps beside data or room |
| **Thread.Farm** (`Farm.pike`) | threads, free threads, job queue | run, run_async, set_max_num_threads | waiting with a mutex held | every job runs; the limit is reached |
| **Concurrent.Promise/Future** (`Concurrent.pmod`) | state, result, callbacks | success, failure, wait, get, on_success, on_failure, timeout, destructor | settling races with registering callbacks, tests without the lock | settled once; every callback called once; no rejection lost |
| **AggregatedPromise** (`Concurrent.pmod` 1190-1540) | results of the dependencies, limits, `started` | depend, limits, fold, first_completed, start | callbacks that count with the lock and decide without it | the verdict is that of the dependencies, and comes |
| **Backend, call_outs** (`backend.cmod`) | fd callbacks, heap of call_outs | event loop | mostly system calls | call_outs in time order |
| **Garbage collector** (`gc.c`) | markers, recursion stack, kill list | check, mark, cycle check, free and kill passes | a recursion stack that is rotated when a back reference is found | what live objects refer to is kept, the rest goes; objects are destructed in the documented order |
| **Data types, interpreter, compiler** | the C heap | | sequential | memory safety |
| **Libraries (SSL, Sql, Protocols, ...)** | | | protocol code | per library |

How they interact: every C function runs with the interpreter lock held and
gives it up only in `co_wait_interpreter()` or between `THREADS_ALLOW()` and
`THREADS_DISALLOW()`. Mutex and Condition are built on that. Fifo, Queue, Farm,
and Promise are Pike code over Mutex and Condition. `future_lock()` of a mutex
calls back into Promise when a key is released.

## 2. Plan

| Module | Models | State |
|---|---|---|
| `PikeMutex` | Mutex, MutexKey, Condition | done |
| `ReadersWriters` | abstract specification of a mutex with shared keys | done |
| `PikeMutex_proofs` | inductive invariant, safety theorems, refinement of `ReadersWriters` | done |
| `ThreadFifo`, `ThreadQueue` | Thread.Fifo and Thread.Queue over a mutex and conditions | done |
| `ValueQueue` | abstract specification of both: one shared queue of values | done |
| `ThreadQueue_proofs` | invariant, safety and refinement theorems of the Queue | done |
| `ResourceCount` | Thread.ResourceCount and its keys | done |
| `InterpreterLock` | interpreter lock, sections, `_disable_threads()`, interleave mutexes, compiler lock, start and end of threads | done |
| `ThreadLife` | start and end of threads, wait, interrupt, kill, cleanup of their state | done |
| `Promise`, `MCPromise` | Future and Promise: settling, callbacks, waiters, timeout(), destructor | done |
| `SettleOnce` | abstract specification of a future | done |
| `AggregatedPromise` | AggregatedPromise over futures seen from the outside | done |
| `ThreadFarm` | Thread.Farm: dispatcher, handlers, job queue, `set_max_num_threads()` | done |
| `GcCycle` | cycle check, free and kill passes of the garbage collector | done |
| `MCGcCycle` | `GcCycle` with the one heap of finding 7 | done |
| `InterpreterLock_proofs` | invariant and safety theorems of the interpreter lock | done |
| `ThreadFifo_proofs` | invariant, safety and refinement theorems of the Fifo | done |
| `ResourceCount_proofs` | the counter, and the wakeup of one waiter | done |
| `ThreadFarm_proofs` | invariant and safety theorems of the farm | done |
| `ThreadLife_proofs` | invariants and safety theorems of `ThreadLife`, and of `GcCycle` | done |
| `Promise_proofs` | callbacks called once, rejections heard, refinement of `SettleOnce`; the verdict of `AggregatedPromise` | done |

The order follows dependence: the mutex is what everything else stands on, the
interpreter lock is what makes its code atomic, and the Pike level classes use
it. Every safety invariant of the runs is proved; section 6 says what is only
model-checked.

## 3. The model of the mutex

### `PikeMutex`

One mutex, one condition variable, and any finite set of threads.

| Code | Model |
|---|---|
| `m->key` and the `next`/`prev` pointers | sequence `keys`, first element `m->key` |
| `key->kind`, `key->owner` | `kind`, `owner` (a key object that is not in use is `UNINITIALIZED`) |
| `m->num_waiting` | `num_waiting` |
| mutex object destructed; `m->condition` destroyed | `prog`, `condition` |
| `pending_mutex_futures[m]` | `pending`, a set of requests; `todo` is what the loop of the exit hook has still to visit |
| threads in `co_wait_interpreter()` | `pc`, `cur` (the key of the call), `timed`, `asleep` |
| references of the Pike program | `held`; `leaked` has the keys with a reference nobody will free |

An action is the code from one point where the interpreter lock is given up to
the next. `lock(t, type, timeout)` is `f_mutex_lock()` up to its wait;
`LockGranted`, `LockTimedOut`, `LockWaits` and `LockInterrupted` are what can
follow a return from the wait. `shared_lock`, `upgrade` and `wait` are split in the same way.
`Release` is `exit_mutex_key_obj()` with everything it does: unlinking,
waking, destroying the condition, or starting the loop over the futures, whose
steps are `Grant` because `promise->success()` runs Pike code. `TimeoutWake` is the
passing of time. A wakeup that a thread did not wait for is allowed: a signal may
wake more than one thread.

What is left out: `_sprintf()`, `current_locking_thread()`,
`current_locking_key()` (they read only), nested `_disable_threads()`, and the
order of the multiset of futures (any order is allowed, which is what a set of
promise objects gives), and the branch of the loop that zaps an invalid entry
(3445-3450), which only a promise destructed by the program can make. A mutex that is destructed in the middle of the loop
over the futures ends the loop. One rule is assumed of the program: it does not
`destruct()` a key while another thread is inside `upgrade()` or `wait()` with
that very key.

### `ReadersWriters`

The promise of a mutex in terms of grants (key, thread): shared by readers, or
held by one writer; a writer can become a reader without another writer coming
in between; a reader that was a writer can ask for the lock back, after which
only threads that read already get new shared keys. `PikeMutex` is shown to
implement it (`ImplementsReadersWriters`) with the mapping at the end of
`PikeMutex`: a pending key is no grant, a key that is being upgraded still is.

## 4. The models above and below the mutex

### `ThreadFifo`, `ThreadQueue` and `ValueQueue`

The variables are the fields of the classes (`buffer, ptr, num` and
`buffer, r_ptr, w_ptr`; the first slot of the buffer has index 1), the thread
that has the key of the mutex, and where each thread is in its call. A call goes
through the steps check (tests before the mutex is locked, `size()`), lock, body, unlock,
return; a body that waits gives up the key and comes back through lock. A body is one
action: it touches only state that the mutex protects, and the value that is read
without the key (`num`, or the two pointers) changes once in it. Pike changes
threads only at calls and at the end of loops, so `w_ptr == r_ptr` is read at one moment.
`Queue.write()` drops its key before `r_cond::broadcast()`; that is a step of its own.
`read_tres` and `write_tres` have the values `create()` gives them.
Interrupts of these classes are not modelled.

`ValueQueue` is a queue on which each call takes effect at one moment. Both
classes are shown to implement it, with the mapping of the buffer to a sequence
(`Contents` in `ThreadQueue`).
What `Fifo.peek()` returns is left out of the mapping, since it does not do what it
says (finding 3 in section 7).

### `ResourceCount`

`acquire()`, the destructor of a key with its `trylock()`, `wait_till_drained()`, and
`async_wakeup()`, which the backend calls if the destructor could not lock the
mutex. The backend is a thread of its own that serves call_outs; if the backend
thread itself waits in `wait_till_drained()` no such wakeup comes, which the model excludes.

### `InterpreterLock`

| Code | Model |
|---|---|
| `interpreter_lock`, `interpreter_lock_wanted`, `interleave_lock`, the locks of `interleave_list` | the thread that has each |
| `threads_disabled`, `live_threads`, `num_threads`, `lock_depth`, `Pike_compiler_thread`, `ts->swapped`, `ts->status` | variables of those names |
| local variable `owner` of `pike_wait_interpreter()`, and the choice between `low_` and other locking | `check`: whether the thread must wait for `threads_disabled` when it has the lock |
| the place in the code, the condition slept on, the rest of the call | `pc`, `on`, `back` |

`back`, `check` and `on` are locals of the functions and are reset when they
return. A wakeup that nobody asked for is always allowed; it stands also for the
timeouts of `pike_timedwait_interpreter()`. For that reason the absence of a
deadlock shows nothing here, and waiting is covered by the liveness properties.
The program keeps to three rules, named in the module: C code between
`LOCK_IMUTEX()` and `UNLOCK_IMUTEX()` runs sections and nothing else, a thread does not
end while it compiles or keeps threads disabled, and nobody waits in a circle.
A thread that waits for another in the middle of a compilation is such a circle
if the other one wants to compile or to disable threads.

### `ThreadLife`

`status`, `waiting`, `flags`, `num_pending_interrupts` and
`thread_interrupt_callback` are the fields and variables of those names; the
interpreter lock is what makes an action atomic. `cleaned` counts how often
`cleanup_thread_state()` has freed the condition and the thread id of a thread, which
is done by whoever comes last of the end of the thread, the end of the last `wait()`
and the destruction of the object. `cleanup_thread_state()` clears the signals of
the current thread instead of those of the thread it cleans up, and so does
the model. An interrupt that ends a `wait()` leaves `waiting` raised. A thread in
`wait()` may wake before the other thread has ended, for a signal or for no
reason (`f_thread_id_result_spurious`); it then throws the interrupt that is pending
for it, or sleeps again, which changes nothing. `MaxWaiting` bounds the sum of
`waiting` over all threads.

### `Promise`, `SettleOnce`, `MCPromise`

One promise, and the future that its `timeout()` returns. Pike code yields only at
calls and at the ends of loops, so an action is what a method does between two
calls; the code that holds `mux` makes no call that yields and is one
action with its `lock()`. A thread has a stack of frames, because `finalise()`
calls the callbacks itself as long as no backend runs (`callout` is then
`callnow`). The backend is a thread that runs the call_outs in any order, which allows
more than `backend_do_call_outs()` does: it keeps a heap by time, and attempts to keep
the order of call_outs with delay 0. `create()` is that without an executor.
`destruct` is `_destruct()` when the last reference is gone, for which the model knows
what keeps a reference (`Referenced`). A callback may throw.

`SettleOnce` says what a future is for: it gets one outcome and keeps it.
`Outcome` in `Promise` is the refinement mapping, and takes the two states of rejection
for one.

### `AggregatedPromise`

The dependencies are promises seen from the outside: each gets an outcome and then
calls the callback that was added for it once, at any time (which is
`OutcomeSeen` and `Progress` of `Promise`). `aggregate_cb` is split where the code
gives up the lock: it records and counts with it, and decides, folds and
settles without it. Its `try_success()` and `try_failure()` settle once
(`ImplementsSettleOnce`). `AggregateCorrect` has no exception for a mode. For
`first_completed()` it says what the code does and not what the documentation says:
`num_dependencies` is 1 there, so two successes are too many and reject the promise, and an
accepted failure that comes first fulfils it with the initial value (finding 5).

### `ThreadFarm`

The dispatcher, the handlers and a caller of `set_max_num_threads()`, with the
mutex of the farm, `job_mutex` and `ft_cond`. `handler_lock` and
`handler_reset` are two steps, since a handler is on `free_threads` before it has
forgotten its job. A job is a number; its promise is settled in the step that runs it.
`JobKept` is an equation: the places of a submitted job and the times it was run are
one together, so a job that is forgotten violates it as well as one that is run
twice. A job that a handler has run and not yet forgotten is in no place.

### `GcCycle`

One thing per marker; the things are those without external references, all of which
the cycle check visits. `stack`, `rf_flags`, `cycle_id`, `piece` and `link_top` are the
fields of `gc_rec_frame`; the dummy frame with `GC_MARK_LIVE` is `mark_live` and
`mark_links`. `gc_cycle_push` has a case for each way a link can end: a new
frame, a weak or nonstrong place to break the cycle at, no such place, a live
mark, or nothing. Links of one frame are followed in any order,
except that the strong one, which is enqueued last, comes first. The heap of the initial
state is arbitrary within these limits: a thing has at most one reference to another
thing, of one strength, and none to itself, and strong references are those of an object to its
parent, one per object and without cycles. The code follows several
references between two things one by one (`gc.c` 3677-3679); that, and a parent that is also
referred to in another way, is outside the model.

## 5. Runs

| Run | Instance | Shows |
|---|---|---|
| `mutex` | 2 threads, 3 keys, 1 promise, every method, lock types 0 and 1, all timeouts, 1 interrupt, destruction, `_disable_threads()` | `TypeOK`, `QueueOrder`, `NumWaiting`, `NoLostWakeup`, `Exclusion`, `NoForgottenFuture`, `OrphansExplained`, and the refinement of `ReadersWriters` |
| `mutex_live` | 3 threads, 3 keys, under fairness | `CallsReturn` |
| `fifo` | 2 threads, 3 slots, 2 values, all methods | `TypeOK`, the refinement of `ValueQueue`, `CallsReturn` |
| `queue` | 2 threads, first buffer of length 1, at most 2 items, all methods | `TypeOK`, `NoSleeper`, the refinement of `ValueQueue`, `ReadReturns` |
| `drain` | 2 users, 1 waiter, the backend, counter up to 3 | `SignalComes`, `DrainReturns` |
| `interpreter` | 2 threads, 1 interleave mutex, all operations, nested `_disable_threads()`, under fairness | `TypeOK`, `OneSwappedIn`, `Halted`, `NobodyHangs` |
| `promise` | 2 threads with half of the methods each, the backend, 1 success and 1 failure callback, a timeout | `TypeOK`, `OutcomeSeen`, `RejectionHeard`, the refinement of `SettleOnce`, `Progress` |
| `aggregate` | 3 dependencies, 3 modes, limits 0, 1 and none | `AggregateCorrect`, `AggregateSettles` |
| `farm` | 3 jobs, 4 handlers, limits 1 to 3 | `TypeOK`, `JobKept`, `ThreadLimit`, `JobRuns` |
| `thread_life` | 3 threads, `waiting` up to 2 in all | `TypeOK`, `CleanedOnce`, `InterruptSeen`, `WaitReturns` |
| `gc` | all heaps of 3 things with at most one reference from a thing to another, with every set of live objects | `CyclesContinuous`, `Verdict`, `DestructOrder` |
| `gc_parents` | one heap of 4 objects | that `ChildrenFirst`, the comment's claim, is violated (finding 7) |

**Bounds.** In `mutex` every method meets every other one, a thread may have
several keys, and what a third thread could do is covered by section 6, where
all its properties are proved for every number of threads; three keys give a waiting key, a downgraded or
exclusive key and a shared key, which are the three zones of the list, and also
two keys of one thread. Three slots make a Fifo wrap around in the middle of a
slice and on its edge; a first buffer of one slot makes a Queue grow from a
buffer that is full and from one whose front has been read. Two threads in
`interpreter` let one disable threads while the other is at any place of any
operation; the safety properties are proved for any number of
threads (section 6). Lock type 2 differs from 0 only in the return value.
One interrupt is enough for each wait to be interrupted in some behaviour.
In `promise` one thread keeps the promise and settles it, the other one has the
future; both reject or fulfil it, so that the two settle against each
other, against the timeout and against `_destruct()`. Three dependencies let two callbacks decide
on different counts while a third settles. Four handlers are more than any of
the limits, so a farm that makes a thread too many has one to make. Three
things are enough for the cycles within cycles that a rotation joins, and
the three invariants of `gc` are proved for every number of things (section 6).

**Deadlock** is checked in `interpreter` and `gc`. In the other runs all threads
may be waiting for something that the program need not do, which is a legal end
of a Pike program.

**Fairness** (`LiveSpec`). `Continue(t)` of `PikeMutex` is weakly fair: a thread that has been
woken and can take the interpreter lock gets it at some time, which is what
`co_wait_interpreter()` and the yielding of the interpreter lock in
`check_threads_swap()` give with a fair operating system. `Release` of each key is weakly
fair: the program gives back what it took; without that nothing can be said of any lock.
`OneKeyEach` restricts the program to one key per thread: a thread
that shares a mutex and locks it again deadlocks with itself, which is the
program's error. No fairness is assumed of calls or of timeouts. A
`shared_lock()` has no such guarantee and none is claimed: a stream of lock()
calls keeps it waiting.

In the queues every thread's steps are weakly fair and `lock` is strongly fair:
the mutex reaches every thread that waits for it, which is `CallsReturn` of
`PikeMutex`; the same holds for the threads of a farm, whose jobs also return.
In `Promise` and `AggregatedPromise` a thread that is in a method goes on,
the backend gets to every call_out and the time of a timeout passes; no
call and no outcome of a dependency is assumed. In `ThreadLife` a thread that can
run is let run; nothing is assumed to wake a sleeping thread but the broadcast at the
end of the other one. In `InterpreterLock` the steps that take a native mutex are
strongly fair (the operating system's mutexes do not starve a thread),
`threads_allow` is strongly fair because `check_threads()` makes a running
thread give up the lock when its slice is over, and the program gives
back what it took. `_disable_threads()` is claimed to return only from the point where
it has the compiler lock: threads that compile again and again can keep a
waiter in `lock_pike_compiler()`.

## 6. Proofs

`PikeMutex_proofs` proves, for every set of threads, keys and promises that
satisfies `MutexAssumption` (finite set of threads; `NoThread`, `NoKey` are not
among them), the theorem `Invariance`: `Spec => []IInv`, and from it
`TypeCorrect`, `MutualExclusion`, `ListOrder`, `WaitersCounted` and
`WakeupsKept`.

None of those properties is inductive by itself. `IInv` adds:

* `ListInv`: the list has no repetition and holds exactly the keys whose kind
  says so. Without it, unlinking a key could leave a second copy.
* `KeyInv`: a key in use has an owner, a key of the program is in use.
* `WaitInv`: what kind the key of a waiting call has, and that two calls never wait
  with the same key. A granted wait changes the kind of its own key, and this is why it
  changes nobody else's.
* `UpgradeOrder`: behind a key that is being upgraded there are only shared
  keys; `UpgradeTimedOut` turns it back to a downgraded key, which `QueueOrder` allows only
  there.
* `SleepInv`: only waiting threads are asleep.

The argument for exclusion: a key becomes exclusive only as the last
of the list, or as the only one (`key->next == NULL`); by `QueueOrder` a key that
is not last can be followed by a non-shared key only if it is pending, so keys
before the last one are pending. `NoLostWakeup` needs all exits from the list to wake the
sleepers when `num_waiting` is positive, and `NumWaiting` to know that it is positive
when somebody sleeps.

Each action has one lemma; steps that several actions share (linking, unlinking,
changing the kind of a key, counting waiters) have lemmas of their own.
`IInv` was also checked with TLC, with three threads and three keys.

Three more theorems rest on `IInv`:

* `MutexImplements`: `Spec => ImplementsReadersWriters`. Every action takes one
  of a few steps of the lists of granted keys (lemmas that end in `Grant`): it grants
  one key, takes one back, downgrades or upgrades one, or none. Why a granted key
  is allowed to be so follows from `QueueOrder`, `UpgradeOrder` and `WaitInv`.
* `FuturesKept`: `NoForgottenFuture`. It is not inductive, because the thread
  that grants visits the futures one by one; `FutureInv` says that a pending future
  of a mutex without keys has a thread that waits for the mutex, or one in the
  exit hook that has yet to visit all of them (`CanGrant`).
* `KeysNotLost`: `OrphansExplained`. Needs `HeldInv` (a thread in `upgrade()` or
  `wait()` was given a key of the program) besides `IInv`; the argument counts the
  keys nobody can give up against the interrupts.

`ThreadQueue_proofs` proves, for every set of threads and values, every length of the
first buffer and every bound on the number of items (`QueueAssumption`):
`Invariance`, from it `QueueTypeCorrect` and `QueueNoSleeper`, and
`QueueImplements`: `Spec => ImplementsQueue`. The invariant `IInv` of
`ThreadQueue` has, besides the properties, `KeyInv` (exactly the thread that has
the key is in a body or about to unlock, so a body finds the buffer as it left it),
`ArgInv` (a writer writes a value, never the zero that marks a free slot) and
`RoomInv` (the bound leaves room for the value of a writer that has the key).
`NoStaleReference` is needed for the growth of the buffer: the slots behind
`w_ptr` are free, so the new buffer is the old contents followed by zeroes. The
argument of the refinement: `Contents` is unchanged, loses its first value, becomes empty or
gets the value appended (lemmas `SameBuffer`, `TakeFirstFacts`, `TakeAllFacts`,
`WriteFacts`), and each body is then one operation of `ValueQueue`.

`InterpreterLock_proofs` proves, for every finite set of threads, every number of
interleave mutexes and every bound `MaxDisabled` of at least one
(`LockAssumption`), `Invariance` and from it `InterpreterTypeCorrect`,
`SwappedInOnce` (`OneSwappedIn`) and `OthersHalted` (`Halted`). The parts of its
`IInv`, each with one lemma that has one step for each action:

* `ControlInv`: the types, and the places a thread can be at.
* `LockInv`: a thread at a place that needs the interpreter lock has it, and only
  its holder is swapped in. This part is inductive given the types, and is what
  `OneSwappedIn` follows from.
* `DisableInv`: threads are disabled, or about to be, exactly by the owner of
  `interleave_lock`.
* `MutexInv`: that owner has every mutex of `interleave_list`, and while it collects
  them, the ones before the next it wants.
* `HaltInv`: while threads are disabled the others are swapped out, at
  places from which they must wait before they run. A thread that waits for
  the interpreter lock without a check of `threads_disabled` is the owner, or is
  on its way to a place that checks (the end of a `THREADS_ALLOW_UID()` section, the
  start of a thread). Without this, `Halted` is not inductive:
  the check is made when the thread gets the lock, several steps after it began to wait.
* `CountInv`: `live_threads` and `num_threads` are the cardinalities of the sets
  they count, and the first set is empty when `_disable_threads()` has returned.
* `CompilerInv`: `lock_depth` is what its one owner has taken, once for a
  compilation and once for `_disable_threads()`. It is needed to show that
  `lock_depth` never goes below zero.

`IInv` was also checked with TLC, with two threads and two interleave mutexes and with
three threads and one.

`ThreadFifo_proofs` proves, for every set of threads and values and every length of
at least one (`FifoAssumption`), `Invariance`, `FifoTypeCorrect`,
`FifoNoSleeper` and `FifoImplements`: `Spec => ImplementsQueue`. `TypeOK` of the
Fifo already says which slots hold values, also around the end of the
buffer; `IInv` adds `ArgInv` and `ResultInv` (what a call is about to write, and that
nothing is left over from an earlier call), which the refinement needs for the moment at
which a call takes effect, and `NoSleeper`. The lemmas on the ring
(reading the first item, reading all of them, appending one) are about `%` and are
proved from its definition by cases, wrapped around or not.

`ResourceCount_proofs` proves, for every finite set of threads, `Invariance` and
`CountIsKeys` (the destructor lowers the counter without the mutex, and it is
never negative: it counts the keys and the dropped keys whose destructor has not
come that far), with any number of waiters. `SignalSent` proves `SignalComes`
for one waiter (`OneWaiter`), which is the case in which it is true (finding 4).
The part that carries it is `SleepInv`: if the counter has dipped between the test and
the sleep, the destructor that did it found the mutex taken and left an
`async_wakeup()` to the backend.

`ThreadFarm_proofs` proves, for every finite set of handlers, every number of jobs and
all limits up to the number of handlers (`FarmAssumption`), `Invariance`,
`TypeCorrect`, `LimitKept` and `JobsKept`. Parts of `IInv`:

* `MutexInv`, `DispatchInv`: where the dispatcher is, and which job and handler it has.
* `PoolInv`: `threads` is the set of handlers whose loop has not ended, and a dispatcher that
  has decided to make a thread has room below the highest limit so far.
* `JobInv`: a handler on `free_threads`, or taken from it, has no job or has yet to
  forget the one it has run; `handler_reset` therefore never forgets a new job.
* `DismissInv`: a handler woken without a job was dismissed by
  `set_max_num_threads()`, which still has the mutex. Without it, such a handler could
  be handed a job on its way out.
* `QueueInv`, `PlaceInv`: the queue has the jobs submitted and not yet taken; a job
  that was taken has been run, or the dispatcher or exactly one handler has it, and a job that was
  not submitted is in none of these places. `JobKept` follows.

`ThreadLife_proofs` proves, for every finite set of threads (`LifeAssumption`),
`Invariance`, `TypeCorrect`, `FreedOnce` (`CleanedOnce`) and `SignalsSeen`
(`InterruptSeen`). `WaitInv` bounds the calls of `wait()` by the counter `waiting`, so
that none takes it below zero; `CleanInv` says that the state of a thread has been
cleaned up exactly if it has ended, its object is gone and `waiting` is zero;
`SignalInv` has an inequality, because the clean-up may clear the signals of the
wrong thread, so `num_pending_interrupts` can stay above the number of threads with
signals but not below.

The same module proves, for every number of things and every graph with at most one
reference from a thing to another (`GcAssumption`; `MaxRefs` is any number), `GcInvariance`:
`GcSpec => []GcInv`, and from it `CyclesTogether` (`CyclesContinuous`) and
`VerdictRight` (`Verdict`). `GcInv` is defined in `GcCycle`, and TLC has checked it on the instance of
`gc`. Its parts:

* `OrderInv`: the stack is a sequence of unbroken cycles, a cycle begins at every
  frame with a weak link to it, and a frame with a strong link to it is not flagged weak or
  broken and has the cycle of the frame before it, unless that one begins
  a cycle. `CyclesContinuous` is the first of these; it is not inductive without the
  others, because where a rotation may cut the stack is read from the
  flags. There is one lemma for each way to rearrange the stack (`JoinOrder`,
  `RotateJoinOrder`, ...), and they know sequences and flags only, not the collector.
* `LinkInv`: links are left in frames on the stack only, and a strong one only in the
  frame on top that has just been pushed.
* `MarkInv`: what a visited thing refers to is visited, or the link is still in
  `link_top`; if the thing is live, what it refers to is live, or the link is in
  `link_top` or in `mark_links` of the dummy frame. When the pass is over there are no
  such links, so `live` is closed under references.
* `PieceInv`: a visited thing is on the stack, on one cycle piece list, or gone.
* `KillInv`: the kill list and the extra references are those of the things that
  are gone, each once.

`Paths` and `LiveObjects` are recursive functions. What the proof needs of them is
got from the least number for which it fails (`LeastNumber`, from
`WFMin`), since the library's induction theorems cannot be used: that reachability
is the least set closed under references (`ReachedFacts`), and that `LiveObjects`
keeps the live objects of a list, each once and in their order.

`DestructedInOrder` (`DestructOrder`) needs more than `GcInv`, which does not say why
one cycle leaves the stack before another. `OrderedInv` is inductive
together with it. Its parts, which TLC has checked for three things with six references of
any strength, and for four with five, normal and strong:

* `ListInv`: of two live objects in a fixed order (`GoesBefore`), the one that goes first is
  in front on the kill list as soon as it is gone from the stack, and stays there till
  it is destructed. Cycles go in front of the list, so this asks two things of a cycle that
  is popped: that it is in order itself, and that what its objects go before is
  gone already.
* `ChildInv`, without weak references: a child whose link to its parent has been followed is
  `Together` with it, either below it in a chain of frames with `GC_PREV_STRONG` that no
  rotation cuts, or in front of it on the same cycle piece list. A rotation for a strong link
  brings the parent behind its child. It needs a frame above that of the parent without the
  flag, to be made there. If all frames up to the top had it, the parent would
  be a descendant of its child: `ChildInv` says that what the top is chained to are its
  descendants, as long as its strong link is still to be followed, and `TreeOK` that no object is
  among its own ancestors. `BreakAtChain` is the lemma on the rotation. With a weak reference
  the rotation of `break_weak()` sets no flag, and the invariant fails as in
  finding 7.
* `SearchInv`, without parents and with weak references that are part of no
  cycle: the stack is never rotated and is a path of the references
  (`PathInv`), because a weak link between two frames of a cycle would be part of that cycle. What is left is the
  argument of a depth first search for strongly connected components: frames and lists of one `cycle_id`
  reach each other (`BackInv`), a link that was followed down the stack has made a cycle of what is
  between (`LowInv`), and so what is gone refers to what is gone only (`GoneInv`).

`Promise_proofs` proves, for every set of threads and callbacks and every assignment of
methods to threads (`PromiseAssumption`; the callbacks of the program are not the lambdas of
`timeout()`, and its values are not the two errors), `Invariance`, `TypeCorrect`,
`OutcomeCorrect` (`OutcomeSeen`), `RejectionsHeard` (`RejectionHeard`) and
`SettledOnce`: `Spec => ImplementsSettleOnce`. The stacks are of any depth. Parts of
`IInv`:

* `StackInv`: which frames there are; the future of `timeout()` has no callbacks.
* `FrameInv`: what a frame has found out about the promise (`FrameNow`: the
  result it passes on, the outcome its callbacks are for) is still so when the frame
  goes on, although `mux` is not held in between; and no frame has a future that was
  destructed.
* `FieldInv`: a promise with an outcome has the value of a thread; the future of
  `timeout()` goes away only when its call_out is over and its lambdas are gone;
  `REJECTION_REPORTED` is set only after somebody has heard.
* `OnceInv`: every callback is in at most one place, namely a frame that will add
  or call it, a call_out, a list of a promise without outcome, or `called`
  (`PlaceInv`), and it is so only once it was added or by the frame that adds
  it (`AddedInv`). "Called at most once" is not inductive without it: a callback
  travels from a list to the `todo` of `finalise()`, to a call_out or a frame, and
  in the meantime other threads add, settle and destruct.
* `CalledInv`: what was called, was called with the result.

A step replaces the top frames of one thread (`NewTop`); lemmas on sequences of frames
say what the new stack holds, and one lemma per kind of step (a frame moves on,
a state is reported, a callback is added, scheduled, called) gives the
invariant. The refinement then has two steps that change the outcome:
`finalise_lock` of a future that is neither settled nor destructed, and `destruct`.
`IInv` was also checked with TLC on the instance of `promise`.

Of `AggregatedPromise` the module proves, for every number of dependencies, all
limits and the three modes (`AggregateAssumption`), `AggregateInvariance`:
`AggregateSpec => []AggregateInv`, from it `AggregateTruth` (`AggregateCorrect`), and
`NothingMissed`. Parts of `AggregateInv`:

* `MakingInv`: nothing is decided before `start()`, and then the number of
  dependencies is final.
* `RecordInv`: what is recorded is true, and a caller that has given up the lock
  has counted no more than is recorded now.
* `DecisionInv`: a decision is right when it is made and stays right until it is
  carried out, although other callers record, decide and settle in between. This
  is what `AggregateCorrect` lacks to be inductive.
* `SettledInv`: what the promise is settled with is right. A rejection is
  explained in every mode, by failures or by successes beyond `num_dependencies`.

`NothingMissed` is the part of `AggregateSettles` that needs no fairness: once the
promise is started and no callback is still to run, it is settled if the
dependencies require it. Its invariant `NoneMissedInv` says that, as long as the promise is
pending and what is recorded is enough to decide, some caller has counted all of it
or has yet to count.

Only model-checked:

* liveness (`CallsReturn`, `DrainReturns` and the others of section 5), because
  the prover cannot reason about fairness and `ENABLED`;
* `SignalComes` without `OneWaiter` is false (finding 4), so nothing is claimed for
  several waiters.

## 7. Findings

Where the code does not do what a comment or the documentation says, the
properties above say what remains true.

1. **An interrupted lock() leaves its key behind.**
   `check_threads_etc()` may throw while `f_mutex_lock()` waits
   (`pike_threads.c` 2431); the key stays in
   the list, with a reference that is never freed, and `num_waiting` stays raised. The
   mutex can never be locked again, although (2256-2258) "When the key is destructed or has
   no more references the mutex will automatically be unlocked." `OrphansExplained`
   says that nothing else leaves a key behind, with one exception: a recursive
   `shared_lock()` that meets a queued `lock()` returns 0 and does not free
   its reference to the old key (2735, 2825).
2. **The first key destroys the condition of a destructed mutex** (3369),
   where the comment (3199) says that the last one will; with two shared keys it is
   destroyed twice.
3. **Fifo.peek() returns the wrong slot** (`module.pmod` 130). It indexes the buffer with
   `num`, the number of items, instead of `ptr`; with a full Fifo the index is out of range.
4. **Two waiters, one signal** (`module.pmod` 491). The destructor of a
   `ResourceCountKey` calls `signal()`, so of two threads in
   `wait_till_drained()` one may sleep on although the counter is low enough.
   `SignalComes` and `DrainReturns` hold for one waiter.
5. **first_completed() need not give the first result** (`Concurrent.pmod`
   1262-1277; doc 1456-1457). Between the count and the decision other
   dependencies may settle: the fold then takes the last value of a mapping with several, and
   a second success makes `num_successes` larger than `num_dependencies`, which is 1, so
   that the promise can be rejected although no dependency has failed. `AggregateCorrect`
   allows this rejection (`TooManySuccesses` with one dependency) and no other without
   too many failures.
6. **set_max_num_threads() can hang** (`Farm.pike` 320-327; doc 307-309). When the limit is lowered below
   the number of threads and one of them is idle, the inner loop signals it with
   the mutex held that it needs to leave the farm. `JobRuns` excepts this. There can also be
   more threads than the limit when it is lowered between the test and the creation
   of a thread (145-147).
7. **The collector can destruct a parent before its child** (`gc.c` 2987-2999; the comment
   at 136-138 says "the gc will never destruct a parent object before all children have been
   destructed"), if there are weak references. Object 3 is the parent of 1 and of
   4, and 4 the parent of 2; 3 refers to 4, 4 to 2, and 1 to 2 with a weak
   reference, which is part of no cycle. The weak break rotates the
   stack for a link to the parent and does not set `GC_PREV_STRONG` on the
   frame the link leads to, as the break at 3016-3031 does; the link from 4 to its child 2
   then breaks the cycle of the two, and 4 is destructed first. The run
   `gc_parents` shows it. With a weak reference in a cycle three objects are enough: 1 to 2
   (weak), 2 to 1, 2 to 3 (weak) and 3 to its parent 2, where the order is 2, 1,
   3. `DestructOrder` says what can be relied on: children go first without weak references, and
   single way references count without parents, unless a weak one is part of a cycle.

Observed while reading: `cleanup_thread_state()` clears the signals of the current thread
where it means those of the thread it cleans up (`pike_threads.c` 4358), so an interrupt
that is pending for the current thread is lost, and no property says
otherwise; an interrupt of a thread
that has ended overwrites its result (`pike_threads.c` 4269); `current_locking_key()` and
`current_locking_thread()` (3072-3103) return `m->key` even if it is pending;
`try_upgrade()` (3668) returns 1 for a pending key; the unlocking part of
`wait()` wakes the threads but grants no pending future, which waits for the
next release; the owner of a key that a future gets is the releasing thread;
the "key/num_waiting confusion" branch at 3204 is reachable after an interrupt;
`_destruct()` of a promise does not wake threads in `wait()`, which an
explicit `destruct()` can meet.

## 8. Not modelled

See `components` in `PROJECT.json`. Adding and removing interleave mutexes
(`init_interleave_mutex()`, `exit_interleave_mutex()`) and
`call_with_interpreter()` are left out of `InterpreterLock`; `THREAD_FLAG_INHIBIT` and
the value a thread returns out of `ThreadLife`; the executor of a promise, an explicit `destruct()` of it and
the methods that only combine others (`delay()`, `map()`, `then()`, ...) out of `Promise`.
Of the garbage collector the check, mark and zap weak passes, the final
`gc_destruct_everything()` and what `_destruct()` does to the heap are left out. The
data types, the compiler and the byte code interpreter are sequential and far larger than a
model; the backend and the signal handler consist mostly of system calls; the
bundled libraries are users of the runtime. Mapped lines are therefore a small
share of the repository, most of which is libraries, tables and bindings.
