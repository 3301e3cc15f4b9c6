----------------------------- MODULE ThreadQueue ----------------------------
(***************************************************************************)
(* Thread.Queue of src/lib/modules/Thread.pmod/module.pmod: a buffer that  *)
(* grows, with a mutex (lock::) and one condition (r_cond::).              *)
(*                                                                         *)
(* The steps are those of ThreadFifo, with one more: write() drops its key *)
(* first and calls r_cond::broadcast() afterwards, and any thread may run  *)
(* in between.                                                             *)
(***************************************************************************)
EXTENDS Integers, SequencesExt

CONSTANTS
  Threads,
  Values,
  Ops,          \* the methods that the program calls, within AllOps
  FirstLength,  \* the length of the first buffer, 16 in the code
  MaxItems,     \* values in the queue at one time (a bound)
  NoThread, Zero

AllOps == {"read", "try_read", "peek", "read_array", "try_read_array",
           "peek_array", "write", "size"}

ASSUME QueueAssumption ==
  /\ FirstLength \in Nat
  /\ MaxItems \in Nat
  /\ NoThread \notin Threads
  /\ Zero \notin Values
  /\ Ops \subseteq AllOps

VARIABLES
  buffer, r_ptr, w_ptr,  \* the fields of the Queue; buffer[0] is buffer[1] here
  key,                   \* the thread that has the key of the mutex
  op,                    \* the call each thread is in, or "none"
  arg,                   \* the value it wants to write
  pc,                    \* where it is in the call
  result                 \* what the call returns

queueVars == <<buffer, r_ptr, w_ptr>>
vars == <<buffer, r_ptr, w_ptr, key, op, arg, pc, result>>

PCs == {"idle", "check", "lock", "body", "unlock", "return", "r_wait", "broadcast"}

allocate(n) == [i \in 1..n |-> Zero]
size == w_ptr - r_ptr
Contents == [i \in 1..size |-> buffer[r_ptr + i]]     \* buffer[r_ptr..w_ptr - 1]

-----------------------------------------------------------------------------
(* Steps shared by the methods.  An operator named ...Mutant is the next   *)
(* one as a plausible bug would have it; no specification uses it.         *)

Goto(t, where) == pc' = [pc EXCEPT ![t] = where]

Return(t, values, n) ==
  result' = [result EXCEPT ![t] = [got |-> values, items |-> n]]

\* The call returns without having locked the mutex.
ReturnAtOnce(t, values, n) ==
  /\ Return(t, values, n)
  /\ Goto(t, "return")
  /\ UNCHANGED <<queueVars, key, op, arg>>

\* The rest of the body; the key is dropped in the step unlock.
Finish(t, values, n) ==
  /\ Return(t, values, n)
  /\ Goto(t, "unlock")
  /\ UNCHANGED <<key, op, arg>>

\* r_cond::wait(key)
Wait(t) ==
  /\ key' = NoThread
  /\ Goto(t, "r_wait")
  /\ UNCHANGED <<queueVars, op, arg, result>>

-----------------------------------------------------------------------------
(* The methods.                                                            *)

Call(t, o) ==
  /\ pc[t] = "idle"
  /\ o \in Ops
  /\ op' = [op EXCEPT ![t] = o]
  /\ \E v \in IF o = "write" THEN Values ELSE {Zero} :
       arg' = [arg EXCEPT ![t] = v]
  /\ Goto(t, IF o \in {"read", "read_array", "write"} THEN "lock" ELSE "check")
  /\ UNCHANGED <<queueVars, key, result>>

\* size(), and the test that the try_ and peek methods make before they lock
\* the mutex.
check(t) ==
  /\ pc[t] = "check"
  /\ \/ /\ op[t] = "size"
        /\ ReturnAtOnce(t, <<>>, size)
     \/ /\ op[t] # "size"
        /\ w_ptr = r_ptr
        /\ ReturnAtOnce(t, <<>>, 0)
     \/ /\ op[t] # "size"
        /\ w_ptr # r_ptr
        /\ Goto(t, "lock")
        /\ UNCHANGED <<queueVars, key, op, arg, result>>

\* The bound MaxItems keeps a writer from going on.
lock(t) ==
  /\ pc[t] = "lock"
  /\ key = NoThread
  /\ op[t] = "write" => size < MaxItems
  /\ key' = t
  /\ Goto(t, "body")
  /\ UNCHANGED <<queueVars, op, arg, result>>

unlockMutant(t) ==
  /\ pc[t] = "unlock"
  /\ key' = NoThread
  /\ Goto(t, "return")
  /\ UNCHANGED <<queueVars, op, arg, result>>

unlock(t) ==
  /\ pc[t] = "unlock"
  /\ key' = NoThread
  /\ Goto(t, IF op[t] = "write" THEN "broadcast" ELSE "return")
  /\ UNCHANGED <<queueVars, op, arg, result>>

\* The program gets the result.
return(t) ==
  /\ pc[t] = "return"
  /\ op' = [op EXCEPT ![t] = "none"]
  /\ arg' = [arg EXCEPT ![t] = Zero]
  /\ Return(t, <<>>, 0)
  /\ Goto(t, "idle")
  /\ UNCHANGED <<queueVars, key>>

\* r_cond::broadcast() in write()
broadcast(t) ==
  /\ pc[t] = "broadcast"
  /\ pc' = [u \in Threads |-> IF u = t THEN "return"
                              ELSE IF pc[u] = "r_wait" THEN "lock" ELSE pc[u]]
  /\ UNCHANGED <<queueVars, key, op, arg, result>>

InBody(t, o) == pc[t] = "body" /\ op[t] = o

TakeFirst(t) ==
  /\ buffer' = [buffer EXCEPT ![r_ptr + 1] = Zero]
  /\ r_ptr' = r_ptr + 1
  /\ UNCHANGED w_ptr
  /\ Finish(t, <<buffer[r_ptr + 1]>>, 0)

read_all_unlocked(t) ==
  \/ /\ size = 0
     /\ Finish(t, <<>>, 0)
     /\ UNCHANGED queueVars
  \/ /\ size = 1
     /\ TakeFirst(t)
  \/ /\ size \notin {0, 1}
     /\ r_ptr' = 0
     /\ w_ptr' = 0
     /\ buffer' = allocate(Len(buffer))
     /\ Finish(t, Contents, 0)

read(t) ==
  /\ InBody(t, "read")
  /\ \/ w_ptr = r_ptr /\ Wait(t)
     \/ w_ptr # r_ptr /\ TakeFirst(t)

try_read(t) ==
  /\ InBody(t, "try_read")
  /\ \/ w_ptr = r_ptr /\ Finish(t, <<>>, 0) /\ UNCHANGED queueVars
     \/ w_ptr # r_ptr /\ TakeFirst(t)

peek(t) ==
  /\ InBody(t, "peek")
  /\ Finish(t, IF w_ptr = r_ptr THEN <<>> ELSE <<buffer[r_ptr + 1]>>, 0)
  /\ UNCHANGED queueVars

read_array(t) ==
  /\ InBody(t, "read_array")
  /\ \/ w_ptr = r_ptr /\ Wait(t)
     \/ w_ptr # r_ptr /\ read_all_unlocked(t)

try_read_array(t) == InBody(t, "try_read_array") /\ read_all_unlocked(t)

peek_array(t) ==
  /\ InBody(t, "peek_array")
  /\ Finish(t, Contents, 0)
  /\ UNCHANGED queueVars

FullMutant == w_ptr > Len(buffer)
Full == w_ptr >= Len(buffer)

\* buffer[r_ptr..], followed by one more free slot than it has elements.
GrownMutant == buffer \o allocate(Len(buffer) + 1)
Grown ==
  LET rest == Len(buffer) - r_ptr
  IN  [i \in 1..2 * rest + 1 |-> IF i <= rest THEN buffer[r_ptr + i] ELSE Zero]

write(t) ==
  /\ InBody(t, "write")
  /\ \/ /\ Full
        /\ buffer' = [Grown EXCEPT ![size + 1] = arg[t]]
        /\ w_ptr' = size + 1
        /\ r_ptr' = 0
     \/ /\ ~Full
        /\ buffer' = [buffer EXCEPT ![w_ptr + 1] = arg[t]]
        /\ w_ptr' = w_ptr + 1
        /\ UNCHANGED r_ptr
  /\ Finish(t, <<>>, size + 1)

-----------------------------------------------------------------------------
(* The specification.                                                      *)

Init ==
  /\ buffer = allocate(FirstLength)
  /\ r_ptr = 0
  /\ w_ptr = 0
  /\ key = NoThread
  /\ op = [t \in Threads |-> "none"]
  /\ arg = [t \in Threads |-> Zero]
  /\ pc = [t \in Threads |-> "idle"]
  /\ result = [t \in Threads |-> [got |-> <<>>, items |-> 0]]

Continue(t) ==
  \/ check(t) \/ lock(t) \/ unlock(t) \/ return(t) \/ broadcast(t)
  \/ read(t) \/ try_read(t) \/ peek(t)
  \/ read_array(t) \/ try_read_array(t) \/ peek_array(t) \/ write(t)

Next == \E t \in Threads : Continue(t) \/ \E o \in Ops : Call(t, o)

Spec == Init /\ [][Next]_vars

\* The interpreter schedules every thread, and the mutex is given to every
\* thread that waits for it (CallsReturn of PikeMutex).
Fairness ==
  \A t \in Threads :
    /\ WF_vars(Continue(t))
    /\ SF_vars(lock(t))

LiveSpec == Spec /\ Fairness

-----------------------------------------------------------------------------
(* Properties.                                                             *)

\* Every variable has the type of the field it stands for, and r_ptr never
\* passes w_ptr, nor w_ptr the end of the buffer.
TypeOK ==
  /\ buffer \in Seq(Values \cup {Zero})
  /\ r_ptr \in Nat
  /\ w_ptr \in r_ptr..Len(buffer)
  /\ key \in Threads \cup {NoThread}
  /\ op \in [Threads -> AllOps \cup {"none"}]
  /\ arg \in [Threads -> Values \cup {Zero}]
  /\ pc \in [Threads -> PCs]
  /\ result \in [Threads -> [got : Seq(Values \cup {Zero}), items : Nat]]

\* Nobody sleeps beside data: while a thread sleeps in read() or read_array()
\* the queue is empty, or a write() has yet to call r_cond::broadcast().
NoSleeper ==
  (\E t \in Threads : pc[t] = "r_wait") =>
    \/ w_ptr = r_ptr
    \/ \E t \in Threads : op[t] = "write" /\ pc[t] \in {"unlock", "broadcast"}

\* Only the slots between r_ptr and w_ptr hold a reference to a value.
NoStaleReference ==
  \A i \in DOMAIN buffer : buffer[i] = Zero <=> i \notin r_ptr + 1..w_ptr

\* The inductive invariant: who has the key, what a writer writes, and that
\* the bound leaves room for it.
KeyInv == \A t \in Threads : pc[t] \in {"body", "unlock"} <=> key = t
ArgInv == \A t \in Threads : op[t] = "write" => arg[t] \in Values
RoomInv == \A t \in Threads : pc[t] = "body" /\ op[t] = "write" => size < MaxItems
IInv ==
  /\ TypeOK
  /\ KeyInv
  /\ ArgInv
  /\ RoomInv
  /\ NoSleeper
  /\ NoStaleReference

Q == INSTANCE ValueQueue WITH queue <- Contents, Capacity <- MaxItems

\* The growing buffer implements the queue: values are returned once, by one
\* thread, in the order they were written, a snapshot is the queue at one
\* moment, and write() and size() return its length.
ImplementsQueue == Q!Spec

\* A reader returns, unless the queue is found empty again and again: the
\* broadcast that write() makes without the key is not lost.
ReadReturns ==
  \A t \in Threads :
    op[t] \in {"read", "read_array"} ~> pc[t] = "idle" \/ w_ptr = r_ptr

=============================================================================
