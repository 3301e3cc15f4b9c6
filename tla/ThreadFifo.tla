----------------------------- MODULE ThreadFifo -----------------------------
(***************************************************************************)
(* Thread.Fifo of src/lib/modules/Thread.pmod/module.pmod: a ring buffer   *)
(* with a mutex (lock::) and two conditions (r_cond::, w_cond::).          *)
(*                                                                         *)
(* The interpreter may switch threads anywhere in this code.  Everything   *)
(* between lock::lock() and the moment the key is dropped is one step, body, *)
(* since it uses only what the mutex protects and changes num once; the    *)
(* calls that look at num before they lock do so in a step of their own.   *)
(* The mutex is the one of PikeMutex, seen from the outside: key is the    *)
(* thread that has it.                                                     *)
(***************************************************************************)
EXTENDS Integers, SequencesExt

CONSTANTS
  Threads,
  Values,
  Ops,          \* the methods that the program calls, within AllOps
  Length,       \* sizeof(buffer), the argument of create()
  NoThread, Zero

AllOps == {"read", "try_read", "peek", "read_array", "try_read_array",
           "write", "try_write", "size"}

ASSUME FifoAssumption ==
  /\ Length \in Nat \ {0}
  /\ NoThread \notin Threads
  /\ Zero \notin Values
  /\ Ops \subseteq AllOps

VARIABLES
  buffer, ptr, num,    \* the fields of the Fifo
  key,                 \* the thread that has the key of the mutex
  op,                  \* the call each thread is in, or "none"
  arg,                 \* the value it wants to write
  pc,                  \* where it is in the call
  result               \* what the call returns

fifoVars == <<buffer, ptr, num>>
vars == <<buffer, ptr, num, key, op, arg, pc, result>>

Slots == 0..Length - 1
PCs == {"idle", "check", "lock", "body", "unlock", "return", "r_wait", "w_wait"}

\* create() sets both; a subclass may choose other thresholds.
read_tres == Length
write_tres == 0

At(i) == buffer[(ptr + i) % Length]
Contents == [i \in 1..num |-> At(i - 1)]

\* Slices as in buffer[a..b]: empty when b < a.
Slice(a, b) == [i \in 1..(IF b < a THEN 0 ELSE b - a + 1) |-> buffer[a + i - 1]]

-----------------------------------------------------------------------------
(* Steps shared by the methods.  An operator named ...Mutant is the next   *)
(* one as a plausible bug would have it; no specification uses it.         *)

r_sleepers == {t \in Threads : pc[t] = "r_wait"}
w_sleepers == {t \in Threads : pc[t] = "w_wait"}

\* Thread t goes to where, and the threads W are woken and lock the mutex.
Goto(t, where, W) ==
  pc' = [u \in Threads |-> IF u = t THEN where
                           ELSE IF u \in W THEN "lock" ELSE pc[u]]

Return(t, values, n) ==
  result' = [result EXCEPT ![t] = [got |-> values, items |-> n]]

\* The call returns without having locked the mutex.
ReturnAtOnce(t, values, n) ==
  /\ Return(t, values, n)
  /\ Goto(t, "return", {})
  /\ UNCHANGED <<fifoVars, key, op, arg>>

\* The rest of the body; the key is dropped in the step unlock.
Finish(t, W, values, n) ==
  /\ Return(t, values, n)
  /\ Goto(t, "unlock", W)
  /\ UNCHANGED <<key, op, arg>>

\* r_cond::wait(key) or w_cond::wait(key).
Wait(t, where) ==
  /\ key' = NoThread
  /\ Goto(t, where, {})
  /\ UNCHANGED <<fifoVars, op, arg, result>>

-----------------------------------------------------------------------------
(* The methods.                                                            *)

Call(t, o) ==
  /\ pc[t] = "idle"
  /\ o \in Ops
  /\ op' = [op EXCEPT ![t] = o]
  /\ \E v \in IF o \in {"write", "try_write"} THEN Values ELSE {Zero} :
       arg' = [arg EXCEPT ![t] = v]
  /\ Goto(t, IF o \in {"read", "read_array", "write"} THEN "lock" ELSE "check", {})
  /\ UNCHANGED <<fifoVars, key, result>>

\* size(), and the test that the try_ methods and peek() make before they
\* lock the mutex.
check(t) ==
  /\ pc[t] = "check"
  /\ \/ /\ op[t] = "size"
        /\ ReturnAtOnce(t, <<>>, num)
     \/ /\ op[t] \in {"try_read", "peek", "try_read_array"}
        /\ num = 0
        /\ ReturnAtOnce(t, <<>>, 0)
     \/ /\ op[t] = "try_write"
        /\ num = Length
        /\ ReturnAtOnce(t, <<>>, 0)
     \/ /\ op[t] # "size"
        /\ num # (IF op[t] = "try_write" THEN Length ELSE 0)
        /\ Goto(t, "lock", {})
        /\ UNCHANGED <<fifoVars, key, op, arg, result>>

lock(t) ==
  /\ pc[t] = "lock"
  /\ key = NoThread
  /\ key' = t
  /\ Goto(t, "body", {})
  /\ UNCHANGED <<fifoVars, op, arg, result>>

unlock(t) ==
  /\ pc[t] = "unlock"
  /\ key' = NoThread
  /\ Goto(t, "return", {})
  /\ UNCHANGED <<fifoVars, op, arg, result>>

\* The program gets the result.
return(t) ==
  /\ pc[t] = "return"
  /\ op' = [op EXCEPT ![t] = "none"]
  /\ arg' = [arg EXCEPT ![t] = Zero]
  /\ Return(t, <<>>, 0)
  /\ Goto(t, "idle", {})
  /\ UNCHANGED <<fifoVars, key>>

read_unlocked(t) ==
  /\ buffer' = [buffer EXCEPT ![ptr] = Zero]
  /\ ptr' = (ptr + 1) % Length
  /\ num' = num - 1
  /\ Finish(t, IF read_tres < Length /\ num # read_tres THEN {} ELSE w_sleepers,
            <<buffer[ptr]>>, 0)

write_unlockedMutant(t) ==
  /\ buffer' = [buffer EXCEPT ![(ptr + num) % Length] = arg[t]]
  /\ num' = num + 1
  /\ UNCHANGED ptr
  /\ Finish(t, IF num + 1 # write_tres THEN {} ELSE r_sleepers, <<>>, num + 1)

write_unlocked(t) ==
  /\ buffer' = [buffer EXCEPT ![(ptr + num) % Length] = arg[t]]
  /\ num' = num + 1
  /\ UNCHANGED ptr
  /\ Finish(t, IF write_tres # 0 /\ num # write_tres THEN {} ELSE r_sleepers,
            <<>>, num + 1)

AllValuesMutant ==
  IF ptr + num < Length
    THEN Slice(ptr, ptr + num - 1)
    ELSE Slice(ptr, Length - 1) \o Slice(0, num - (Length - ptr))

AllValues ==
  IF ptr + num < Length
    THEN Slice(ptr, ptr + num - 1)
    ELSE Slice(ptr, Length - 1) \o Slice(0, num - (Length - ptr) - 1)

read_all_unlocked(t) ==
  \/ /\ num = 0
     /\ Finish(t, {}, <<>>, 0)
     /\ UNCHANGED fifoVars
  \/ /\ num = 1
     /\ buffer' = [buffer EXCEPT ![ptr] = Zero]
     /\ ptr' = (ptr + 1) % Length
     /\ num' = 0
     /\ Finish(t, w_sleepers, <<buffer[ptr]>>, 0)
  \/ /\ num > 1
     /\ buffer' = [i \in Slots |-> Zero]
     /\ ptr' = 0
     /\ num' = 0
     /\ Finish(t, w_sleepers, AllValues, 0)

InBody(t, o) == pc[t] = "body" /\ op[t] = o

read(t) ==
  /\ InBody(t, "read")
  /\ \/ num = 0 /\ Wait(t, "r_wait")
     \/ num # 0 /\ read_unlocked(t)

try_readMutant(t) == InBody(t, "try_read") /\ read_unlocked(t)

try_read(t) ==
  /\ InBody(t, "try_read")
  /\ \/ num = 0 /\ Finish(t, {}, <<>>, 0) /\ UNCHANGED fifoVars
     \/ num # 0 /\ read_unlocked(t)

\* With num = sizeof(buffer) the index is out of range, an error.
peek(t) ==
  /\ InBody(t, "peek")
  /\ Finish(t, {}, IF num \in 1..Length - 1 THEN <<buffer[num]>> ELSE <<>>, 0)
  /\ UNCHANGED fifoVars

read_array(t) ==
  /\ InBody(t, "read_array")
  /\ \/ num = 0 /\ Wait(t, "r_wait")
     \/ num # 0 /\ read_all_unlocked(t)

try_read_array(t) == InBody(t, "try_read_array") /\ read_all_unlocked(t)

write(t) ==
  /\ InBody(t, "write")
  /\ \/ num = Length /\ Wait(t, "w_wait")
     \/ num # Length /\ write_unlocked(t)

try_write(t) ==
  /\ InBody(t, "try_write")
  /\ \/ num = Length /\ Finish(t, {}, <<>>, 0) /\ UNCHANGED fifoVars
     \/ num # Length /\ write_unlocked(t)

-----------------------------------------------------------------------------
(* The specification.                                                      *)

Init ==
  /\ buffer = [i \in Slots |-> Zero]
  /\ ptr = 0
  /\ num = 0
  /\ key = NoThread
  /\ op = [t \in Threads |-> "none"]
  /\ arg = [t \in Threads |-> Zero]
  /\ pc = [t \in Threads |-> "idle"]
  /\ result = [t \in Threads |-> [got |-> <<>>, items |-> 0]]

Continue(t) ==
  \/ check(t) \/ lock(t) \/ unlock(t) \/ return(t)
  \/ read(t) \/ try_read(t) \/ peek(t) \/ read_array(t) \/ try_read_array(t)
  \/ write(t) \/ try_write(t)

Next == \E t \in Threads : Continue(t) \/ \E o \in Ops : Call(t, o)

Spec == Init /\ [][Next]_vars

\* The interpreter schedules every thread, and the mutex is given to every
\* thread that waits for it (CallsReturn of PikeMutex).
Fairness ==
  \A t \in Threads :
    /\ WF_vars(Continue(t))
    /\ SF_vars(lock(t))

LiveSpec == Spec /\ Fairness

-----------------------------------------------------------------------------
(* Properties.                                                             *)

\* Every variable has the type of the field it stands for, and num and ptr
\* stay within the buffer.
TypeOK ==
  /\ buffer \in [Slots -> Values \cup {Zero}]
  /\ ptr \in Slots
  /\ num \in 0..Length
  /\ key \in Threads \cup {NoThread}
  /\ op \in [Threads -> AllOps \cup {"none"}]
  /\ arg \in [Threads -> Values \cup {Zero}]
  /\ pc \in [Threads -> PCs]
  /\ result \in [Threads -> [got : Seq(Values \cup {Zero}), items : Nat]]

\* What peek() returns is left out: it does not return the next value.
Returned == [t \in Threads |-> IF op[t] = "peek" THEN [got |-> <<>>, items |-> 0]
                               ELSE result[t]]

Q == INSTANCE ValueQueue WITH
       queue <- Contents, result <- Returned, Capacity <- Length

\* The ring buffer implements the queue: values are returned once, by one
\* thread, in the order they were written, and the number that write() and
\* size() return is the number of items at that moment.
ImplementsQueue == Q!Spec

\* Every call returns: a reader unless the fifo is found empty again and
\* again, a writer unless it is found full again and again, although
\* read_array() makes room for many writers with one broadcast.
CallsReturn ==
  \A t \in Threads :
    /\ op[t] \in {"read", "read_array"} ~> pc[t] = "idle" \/ num = 0
    /\ op[t] = "write" ~> pc[t] = "idle" \/ num = Length

-----------------------------------------------------------------------------
(* The inductive invariant.                                                *)

\* A writer has a value to write.
ArgInv == \A t \in Threads : op[t] \in {"write", "try_write"} => arg[t] \in Values

\* There is a result between the body of a call and its return only.
ResultInv ==
  \A t \in Threads :
    pc[t] \notin {"unlock", "return"} => result[t] = [got |-> <<>>, items |-> 0]

\* No reader sleeps beside a value, and no writer beside a free slot: the
\* broadcasts are made before the key is dropped.
NoSleeper ==
  \A t \in Threads :
    /\ pc[t] = "r_wait" => num = 0
    /\ pc[t] = "w_wait" => num = Length

IInv == TypeOK /\ ArgInv /\ ResultInv /\ NoSleeper

=============================================================================
