----------------------------- MODULE ValueQueue -----------------------------
(***************************************************************************)
(* What Thread.Fifo and Thread.Queue promise: one queue of values, shared  *)
(* by threads, on which every call takes effect at one moment.  result[t]  *)
(* is what a call of thread t is about to return: the values, and the      *)
(* number of items (for write() and size()).                               *)
(***************************************************************************)
EXTENDS Naturals, Sequences

CONSTANTS
  Threads,
  Values,
  Capacity      \* the number of values the queue can hold

VARIABLES queue, result

vars == <<queue, result>>

Results == [got : Seq(Values), items : Nat]
Nothing == [got |-> <<>>, items |-> 0]
Return(t, values, n) ==
  result' = [result EXCEPT ![t] = [got |-> values, items |-> n]]

Init == queue = <<>> /\ result = [t \in Threads |-> Nothing]

\* The call returns.
End(t) ==
  /\ Return(t, <<>>, 0)
  /\ UNCHANGED queue

Write(t, v) ==
  /\ Len(queue) < Capacity
  /\ queue' = Append(queue, v)
  /\ Return(t, <<>>, Len(queue) + 1)

\* try_write() on a full queue.
WriteFails(t) ==
  /\ Len(queue) = Capacity
  /\ Return(t, <<>>, 0)
  /\ UNCHANGED queue

Read(t) ==
  /\ queue # <<>>
  /\ queue' = Tail(queue)
  /\ Return(t, <<Head(queue)>>, 0)

\* try_read(), peek() and the like on an empty queue.
ReadFails(t) ==
  /\ queue = <<>>
  /\ Return(t, <<>>, 0)
  /\ UNCHANGED queue

ReadAll(t) ==
  /\ queue # <<>>
  /\ queue' = <<>>
  /\ Return(t, queue, 0)

Peek(t) ==
  /\ queue # <<>>
  /\ Return(t, <<Head(queue)>>, 0)
  /\ UNCHANGED queue

PeekAll(t) ==
  /\ Return(t, queue, 0)
  /\ UNCHANGED queue

Size(t) ==
  /\ Return(t, <<>>, Len(queue))
  /\ UNCHANGED queue

Next ==
  \E t \in Threads :
    \/ \E v \in Values : Write(t, v)
    \/ End(t) \/ WriteFails(t) \/ Read(t) \/ ReadFails(t) \/ ReadAll(t)
    \/ Peek(t) \/ PeekAll(t) \/ Size(t)

Spec == Init /\ [][Next]_vars

=============================================================================
