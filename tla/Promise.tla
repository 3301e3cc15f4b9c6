------------------------------ MODULE Promise ------------------------------
(***************************************************************************)
(* Concurrent.Promise and Concurrent.Future of                             *)
(* src/lib/modules/Concurrent.pmod: a future that threads settle, wait for *)
(* and add callbacks to, and the future that timeout() derives from it.    *)
(*                                                                         *)
(* A thread can be preempted before every function call and not elsewhere  *)
(* (FAST_CHECK_THREADS_ON_CALL), so a step is what a method does between   *)
(* two calls.  The code that holds mux makes no call that yields: it is    *)
(* one step, and no step finds mux taken.  What a thread is in is a stack  *)
(* of frames, since a callback may be called in the middle of finalise().  *)
(***************************************************************************)
EXTENDS Integers, SequencesExt

CONSTANTS
  Threads,
  Backend,        \* the thread that runs the call_outs
  SuccessCbs, FailureCbs,  \* callbacks that the program adds, each once
  Ops,            \* the methods that each thread calls, within AllOps
  None

AllOps == {"success", "failure", "try_success", "try_failure", "future",
           "on_success", "on_failure", "get", "try_get", "timeout"}

ASSUME PromiseAssumption ==
  /\ Backend \notin Threads
  /\ SuccessCbs \cap FailureCbs = {}
  /\ {"settle_success", "settle_failure"} \cap (SuccessCbs \cup FailureCbs) = {}
  /\ {"timed out", "broken"} \cap Threads = {}
  /\ Ops \in [Threads -> SUBSET AllOps]

VARIABLES
  state, result, success_cbs, failure_cbs,  \* the fields of each future
  stack,        \* the frames of each thread, the innermost first
  callout,      \* the module's: "callnow", then "call_out"
  queue,        \* the callbacks that are in a call_out
  timer,        \* the call_out of timeout(): "none", "armed" or "over"
  added,        \* the callbacks that were added
  called,       \* what each callback has been called with
  heard,        \* the futures with a rejection that was thrown or passed on
  complaints,   \* the futures that global_on_failure was called for
  destructed    \* the futures without references

fields == <<state, result, success_cbs, failure_cbs>>
history == <<added, called, heard>>
vars == <<fields, stack, callout, queue, timer, history, complaints, destructed>>

\* The future of the program, and the one that its timeout() returns.
P == "promise"
T == "timeout"
Futures == {P, T}

\* The lambdas that timeout() adds to the promise.
Links == {"settle_success", "settle_failure"}
Callbacks == SuccessCbs \cup FailureCbs \cup Links
OnSuccess == SuccessCbs \cup {"settle_success"}

Actors == Threads \cup {Backend}

NO_FUTURE == -1
PENDING == 0
FULFILLED == 1
REJECTED == 2
REJECTION_REPORTED == 3

\* What a thread settles the promise with is told apart by the thread.
Results == Threads \cup {"timed out", "broken"}

-----------------------------------------------------------------------------
(* Frames.  An operator named ...Mutant is the next one as a plausible bug *)
(* would have it; no specification uses it.                                *)

Frame(fn, f, arg, pc) == [fn |-> fn, fut |-> f, arg |-> arg, pc |-> pc, todo |-> <<>>]

Frames == UNION {ToSet(stack[a]) : a \in Actors}
Top(a) == Head(stack[a])
At(a, fn, pc) == stack[a] # <<>> /\ Top(a).fn = fn /\ Top(a).pc = pc

Push(a, frame) == stack' = [stack EXCEPT ![a] = <<frame>> \o @]
Return(a) == stack' = [stack EXCEPT ![a] = Tail(@)]
Become(a, frame) == stack' = [stack EXCEPT ![a] = <<frame>> \o Tail(@)]
Goto(a, pc) == Become(a, [Top(a) EXCEPT !.pc = pc])

\* The frame calls another one and continues at pc.
Call(a, pc, frame) ==
  stack' = [stack EXCEPT ![a] = <<frame, [Top(a) EXCEPT !.pc = pc]>> \o Tail(@)]

-----------------------------------------------------------------------------
(* Callbacks.                                                              *)

\* call_callback(): the callback cb of f goes to the backend, or is called
\* here and now.  The caller goes on with the frame rest.
call_callback(a, cb, f, rest) ==
  LET call == Frame("do_call_callback", f, [cb |-> cb, value |-> result[f]], "call") IN
  IF callout = "call_out"
  THEN /\ queue' = queue \cup {call}
       /\ Become(a, rest)
  ELSE /\ stack' = [stack EXCEPT ![a] = <<call, rest>> \o Tail(@)]
       /\ UNCHANGED queue

\* The effect of calling cb with value, for a callback of the program and
\* for the two lambdas of timeout(), which stop the call_out and settle its
\* future by try_success() or try_failure().
CallUser(cb, value) ==
  /\ cb \notin Links
  /\ called' = [called EXCEPT ![cb] = Append(@, value)]
  /\ UNCHANGED timer

SettleFrame(cb, value) ==
  Frame("try", T,
        [kind |-> IF cb \in OnSuccess THEN FULFILLED ELSE REJECTED,
         value |-> value, try |-> TRUE], "test")

remove_call_out == timer' = IF timer = "armed" THEN "over" ELSE timer

CallLink(cb, value) ==
  /\ cb \in Links
  /\ called' = [called EXCEPT ![cb] = Append(@, value)]
  /\ remove_call_out

\* A failure callback has been given the rejection.
Hear(f, cb) == heard' = IF cb \in OnSuccess THEN heard ELSE heard \cup {f}

do_call_callback_call(a) ==
  /\ At(a, "do_call_callback", "call")
  /\ LET fr == Top(a) cb == fr.arg.cb value == fr.arg.value IN
     /\ \/ /\ CallUser(cb, value)
           /\ \/ Goto(a, "called")
              \/ Return(a)               \* cb throws: global_on_failure(err)
        \/ /\ CallLink(cb, value)
           /\ Call(a, "called", SettleFrame(cb, value))
     /\ Hear(fr.fut, cb)
  /\ UNCHANGED <<fields, queue, added, callout, complaints, destructed>>

do_call_callback_doneMutant(a) ==
  /\ At(a, "do_call_callback", "called")
  /\ state' = [state EXCEPT ![Top(a).fut] = IF @ >= REJECTED THEN @ + 1 ELSE @]
  /\ Return(a)
  /\ UNCHANGED <<result, success_cbs, failure_cbs, queue, timer, history,
                 callout, complaints, destructed>>

do_call_callback_done(a) ==
  /\ At(a, "do_call_callback", "called")
  /\ state' = [state EXCEPT ![Top(a).fut] =
                 IF @ = REJECTED THEN REJECTION_REPORTED ELSE @]
  /\ Return(a)
  /\ UNCHANGED <<result, success_cbs, failure_cbs, queue, timer, history,
                 callout, complaints, destructed>>

do_call_callback(a) == do_call_callback_call(a) \/ do_call_callback_done(a)

\* The same for a promise that is no more; global_on_failure gets the error.
do_signal_call_callback(a) ==
  /\ At(a, "do_signal_call_callback", "call")
  /\ LET cb == Top(a).arg.cb value == Top(a).arg.value IN
       \/ /\ CallUser(cb, value)
          /\ Return(a)
       \/ /\ CallLink(cb, value)
          /\ Become(a, SettleFrame(cb, value))
  /\ UNCHANGED <<fields, queue, added, heard, callout, complaints, destructed>>

-----------------------------------------------------------------------------
(* The methods of Promise.                                                 *)

\* future().
future(a, f) ==
  /\ state' = [state EXCEPT ![f] = IF @ = NO_FUTURE THEN PENDING ELSE @]
  /\ UNCHANGED <<result, success_cbs, failure_cbs>>

\* try_success() and try_failure() look at the state without the lock.
try(a) ==
  /\ At(a, "try", "test")
  /\ IF state[Top(a).fut] > PENDING
     THEN Return(a)
     ELSE Become(a, [Top(a) EXCEPT !.fn = "finalise", !.pc = "lock"])
  /\ UNCHANGED <<fields, queue, timer, history, callout, complaints, destructed>>

finalise_lockMutant(a) ==
  /\ At(a, "finalise", "lock")
  /\ LET fr == Top(a) f == fr.fut IN
     IF state[f] <= PENDING \/ fr.arg.try
     THEN /\ state' = [state EXCEPT ![f] = fr.arg.kind]
          /\ result' = [result EXCEPT ![f] = fr.arg.value]
          /\ Become(a, [fr EXCEPT !.pc = "broadcast",
                !.todo = IF fr.arg.kind = FULFILLED THEN success_cbs[f]
                                                    ELSE failure_cbs[f]])
     ELSE Return(a) /\ UNCHANGED <<state, result>>
  /\ UNCHANGED <<success_cbs, failure_cbs, queue, timer, history, callout,
                 complaints, destructed>>

\* The part with the lock.  The call throws when the promise was settled
\* already, unless it is a try.
finalise_lock(a) ==
  /\ At(a, "finalise", "lock")
  /\ LET fr == Top(a) f == fr.fut IN
     IF state[f] <= PENDING
     THEN /\ state' = [state EXCEPT ![f] = fr.arg.kind]
          /\ result' = [result EXCEPT ![f] = fr.arg.value]
          /\ Become(a, [fr EXCEPT !.pc = "broadcast",
                !.todo = IF fr.arg.kind = FULFILLED THEN success_cbs[f]
                                                    ELSE failure_cbs[f]])
     ELSE Return(a) /\ UNCHANGED <<state, result>>
  /\ UNCHANGED <<success_cbs, failure_cbs, queue, timer, history, callout,
                 complaints, destructed>>

Awake(frames) ==
  IF frames # <<>> /\ Head(frames).pc = "sleep"
  THEN <<[Head(frames) EXCEPT !.pc = "lock"]>> \o Tail(frames)
  ELSE frames

\* cond->broadcast(), for every thread that waits for some future.
finalise_broadcast(a) ==
  /\ At(a, "finalise", "broadcast")
  /\ stack' = [b \in Actors |->
       IF b = a THEN <<[Top(a) EXCEPT !.pc = "schedule"]>> \o Tail(stack[a])
                ELSE Awake(stack[b])]
  /\ UNCHANGED <<fields, queue, timer, history, callout, complaints, destructed>>

finalise_scheduleMutant(a) ==
  /\ At(a, "finalise", "schedule")
  /\ LET fr == Top(a) IN
     IF Len(fr.todo) > 1
     THEN /\ call_callback(a, Head(fr.todo), fr.fut, [fr EXCEPT !.todo = Tail(@)])
          /\ UNCHANGED <<success_cbs, failure_cbs>>
     ELSE /\ success_cbs' = [success_cbs EXCEPT ![fr.fut] = <<>>]
          /\ failure_cbs' = [failure_cbs EXCEPT ![fr.fut] = <<>>]
          /\ Return(a)
          /\ UNCHANGED queue
  /\ UNCHANGED <<state, result, timer, history, callout, complaints, destructed>>

\* The callbacks, one after the other, without the lock; then they are freed.
finalise_schedule(a) ==
  /\ At(a, "finalise", "schedule")
  /\ LET fr == Top(a) IN
     IF fr.todo # <<>>
     THEN /\ call_callback(a, Head(fr.todo), fr.fut, [fr EXCEPT !.todo = Tail(@)])
          /\ UNCHANGED <<success_cbs, failure_cbs>>
     ELSE /\ success_cbs' = [success_cbs EXCEPT ![fr.fut] = <<>>]
          /\ failure_cbs' = [failure_cbs EXCEPT ![fr.fut] = <<>>]
          /\ Return(a)
          /\ UNCHANGED queue
  /\ UNCHANGED <<state, result, timer, history, callout, complaints, destructed>>

finalise(a) == finalise_lock(a) \/ finalise_broadcast(a) \/ finalise_schedule(a)

-----------------------------------------------------------------------------
(* The methods of Future.                                                  *)

on_success_lockMutant(a) ==
  /\ At(a, "on", "lock")
  /\ LET fr == Top(a) f == fr.fut cb == fr.arg IN
     IF state[f] <= PENDING
     THEN /\ success_cbs' = [success_cbs EXCEPT ![f] =
                               IF cb \in OnSuccess THEN Append(@, cb) ELSE @]
          /\ failure_cbs' = [failure_cbs EXCEPT ![f] =
                               IF cb \in OnSuccess THEN @ ELSE Append(@, cb)]
          /\ Return(a)
     ELSE /\ Goto(a, "call")
          /\ UNCHANGED <<success_cbs, failure_cbs>>
  /\ added' = added \cup {Top(a).arg}
  /\ UNCHANGED <<state, result, queue, timer, called, heard, callout,
                 complaints, destructed>>

\* on_success(cb) and on_failure(cb).
on_success_lock(a) ==
  /\ At(a, "on", "lock")
  /\ LET fr == Top(a) f == fr.fut cb == fr.arg IN
     \/ /\ state[f] <= PENDING
        /\ IF cb \in OnSuccess
           THEN /\ success_cbs' = [success_cbs EXCEPT ![f] = Append(@, cb)]
                /\ UNCHANGED failure_cbs
           ELSE /\ failure_cbs' = [failure_cbs EXCEPT ![f] = Append(@, cb)]
                /\ UNCHANGED success_cbs
        /\ Return(a)
     \/ /\ state[f] > PENDING
        /\ (state[f] = FULFILLED) = (cb \in OnSuccess)
        /\ Goto(a, "call")
        /\ UNCHANGED <<success_cbs, failure_cbs>>
     \/ /\ state[f] > PENDING
        /\ (state[f] = FULFILLED) # (cb \in OnSuccess)
        /\ Return(a)
        /\ UNCHANGED <<success_cbs, failure_cbs>>
  /\ added' = added \cup {Top(a).arg}
  /\ UNCHANGED <<state, result, queue, timer, called, heard, callout,
                 complaints, destructed>>

on_success_call(a) ==
  /\ At(a, "on", "call")
  /\ call_callback(a, Top(a).arg, Top(a).fut, [Top(a) EXCEPT !.pc = "return"])
  /\ UNCHANGED <<fields, timer, history, callout, complaints, destructed>>

on_success_return(a) ==
  /\ At(a, "on", "return")
  /\ Return(a)
  /\ UNCHANGED <<fields, queue, timer, history, callout, complaints, destructed>>

on_success(a) == on_success_lock(a) \/ on_success_call(a) \/ on_success_return(a)

\* wait(): a test without the lock, then one with it before each sleep.
wait_test(a) ==
  /\ At(a, "get", "wait")
  /\ Goto(a, IF state[Top(a).fut] <= PENDING THEN "lock" ELSE "result")
  /\ UNCHANGED <<fields, queue, timer, history, callout, complaints, destructed>>

wait_lock(a) ==
  /\ At(a, "get", "lock")
  /\ Goto(a, IF state[Top(a).fut] <= PENDING THEN "sleep" ELSE "result")
  /\ UNCHANGED <<fields, queue, timer, history, callout, complaints, destructed>>

wait(a) == wait_test(a) \/ wait_lock(a)

\* The result, or the rejection, which is thrown.
Result(a, f) ==
  IF state[f] >= REJECTED
  THEN /\ state' = [state EXCEPT ![f] = REJECTION_REPORTED]
       /\ heard' = heard \cup {f}
  ELSE UNCHANGED <<state, heard>>

get(a) ==
  /\ At(a, "get", "result")
  /\ Result(a, Top(a).fut)
  /\ Return(a)
  /\ UNCHANGED <<result, success_cbs, failure_cbs, queue, timer, added, called,
                 callout, complaints, destructed>>

try_get(a, f) ==
  /\ \/ /\ state[f] > PENDING
        /\ Result(a, f)
     \/ /\ state[f] <= PENDING
        /\ UNCHANGED <<state, heard>>
  /\ UNCHANGED <<result, success_cbs, failure_cbs, stack, queue, timer, added,
                 called, callout, complaints, destructed>>

\* timeout(): the call_out first, then the two callbacks, then future().
timeout_arm(a) ==
  /\ At(a, "timeout", "call_out")
  /\ timer' = "armed"
  /\ Goto(a, "on_success")
  /\ UNCHANGED <<fields, queue, history, callout, complaints, destructed>>

timeout_link(a) ==
  /\ \/ /\ At(a, "timeout", "on_success")
        /\ Call(a, "on_failure", Frame("on", P, "settle_success", "lock"))
     \/ /\ At(a, "timeout", "on_failure")
        /\ Call(a, "future", Frame("on", P, "settle_failure", "lock"))
  /\ UNCHANGED <<fields, queue, timer, history, callout, complaints, destructed>>

timeout_return(a) ==
  /\ At(a, "timeout", "future")
  /\ future(a, T)
  /\ Return(a)
  /\ UNCHANGED <<queue, timer, history, callout, complaints, destructed>>

timeout(a) == timeout_arm(a) \/ timeout_link(a) \/ timeout_return(a)

-----------------------------------------------------------------------------
(* The calls of the program, the backend and the destructor.               *)

Settlers == {"success", "failure", "try_success", "try_failure"}

\* Thread t calls the method o of the promise.
CallMethod(t, o) ==
  /\ stack[t] = <<>>
  /\ P \notin destructed
  /\ o \in Ops[t]
  /\ \/ /\ o \in Settlers
        /\ Push(t, Frame(IF o \in {"success", "failure"} THEN "finalise" ELSE "try", P,
                         [kind |-> IF o \in {"success", "try_success"} THEN FULFILLED
                                                                       ELSE REJECTED,
                          value |-> t, try |-> o \in {"try_success", "try_failure"}],
                         IF o \in {"success", "failure"} THEN "lock" ELSE "test"))
        /\ UNCHANGED fields
     \/ /\ o = "future"
        /\ future(t, P)
        /\ UNCHANGED stack
     \/ \E cb \in (IF o = "on_success" THEN SuccessCbs ELSE FailureCbs) \ added :
        /\ o \in {"on_success", "on_failure"}
        /\ \A fr \in Frames : fr.fn = "on" => fr.arg # cb
        /\ Push(t, Frame("on", P, cb, "lock"))
        /\ UNCHANGED fields
     \/ /\ o = "timeout"
        /\ timer = "none"
        /\ \A fr \in Frames : fr.fn # "timeout"
        /\ Push(t, Frame("timeout", P, None, "call_out"))
        /\ UNCHANGED fields
     \/ /\ o = "get"
        /\ Push(t, Frame("get", P, None, "wait"))
        /\ UNCHANGED fields
  /\ UNCHANGED <<queue, timer, history, callout, complaints, destructed>>

\* The result of timeout() is known when the call has returned.
TimeoutKnown ==
  /\ timer # "none"
  /\ T \notin destructed
  /\ \A fr \in Frames : fr.fn # "timeout"

GetTimeout(t) ==
  /\ stack[t] = <<>>
  /\ TimeoutKnown
  /\ "get" \in Ops[t]
  /\ Push(t, Frame("get", T, None, "wait"))
  /\ UNCHANGED <<fields, queue, timer, history, callout, complaints, destructed>>

TryGet(t) ==
  /\ stack[t] = <<>>
  /\ "try_get" \in Ops[t]
  /\ \/ P \notin destructed /\ try_get(t, P)
     \/ TimeoutKnown /\ try_get(t, T)

\* The first round of the backend.
auto_use_backend(a) ==
  /\ a = Backend
  /\ stack[a] = <<>>
  /\ callout = "callnow"
  /\ callout' = "call_out"
  /\ UNCHANGED <<fields, stack, queue, timer, history, complaints, destructed>>

\* The backend calls what a call_out of delay 0 holds.  The code keeps a heap
\* by time and only attempts to keep the order of calls with delay 0; here
\* they come in any order, which allows more than the code does.
call_out(a) ==
  /\ a = Backend
  /\ stack[a] = <<>>
  /\ \E call \in queue :
       /\ queue' = queue \ {call}
       /\ Push(a, call)
  /\ UNCHANGED <<fields, timer, history, callout, complaints, destructed>>

TimedOut ==
  Frame("try", T, [kind |-> REJECTED, value |-> "timed out", try |-> TRUE], "test")

\* The time of timeout() is up.
call_out_timeout(a) ==
  /\ a = Backend
  /\ stack[a] = <<>>
  /\ timer = "armed"
  /\ timer' = "over"
  /\ Push(a, TimedOut)
  /\ UNCHANGED <<fields, queue, history, callout, complaints, destructed>>

\* The frames and the call_outs keep a reference to their future.  The
\* lambdas of timeout() and its call_out keep the future of timeout().
Mentions(fr, f) ==
  \/ fr.fut = f /\ fr.fn # "do_signal_call_callback"
  \/ f = T /\ (\/ fr.fn = "timeout"
               \/ fr.fn = "on" /\ fr.arg \in Links
               \/ fr.fn \in {"do_call_callback", "do_signal_call_callback"} /\ fr.arg.cb \in Links
               \/ ToSet(fr.todo) \cap Links # {})

Referenced(f) ==
  \/ \E fr \in Frames : Mentions(fr, f)
  \/ \E call \in queue : Mentions(call, f)
  \/ f = T /\ (\/ timer \in {"none", "armed"}
               \/ (ToSet(success_cbs[P]) \cup ToSet(failure_cbs[P])) \cap Links # {})

destructMutant(f) ==
  /\ f \notin destructed
  /\ ~Referenced(f)
  /\ destructed' = destructed \cup {f}
  /\ state' = [state EXCEPT ![f] =
       IF @ = PENDING THEN REJECTION_REPORTED ELSE @]
  /\ queue' = queue \cup
       {Frame("do_signal_call_callback", f, [cb |-> cb, value |-> "broken"], "call") :
          cb \in IF state[f] = PENDING THEN ToSet(failure_cbs[f]) ELSE {}}
  /\ heard' = IF state[f] = PENDING /\ failure_cbs[f] # <<>> THEN heard \cup {f} ELSE heard
  /\ complaints' = IF state'[f] = REJECTED THEN complaints \cup {f} ELSE complaints
  /\ failure_cbs' = [failure_cbs EXCEPT ![f] = <<>>]
  /\ success_cbs' = [success_cbs EXCEPT ![f] = <<>>]
  /\ result' = [result EXCEPT ![f] = None]
  /\ UNCHANGED <<stack, callout, timer, added, called>>

\* The last reference to f goes away and _destruct() runs.  Nobody else has
\* access to f, so it is one step.
destruct(f) ==
  /\ f \notin destructed
  /\ ~Referenced(f)
  /\ destructed' = destructed \cup {f}
  /\ state' = [state EXCEPT ![f] =
       IF @ = PENDING
       THEN IF failure_cbs[f] = <<>> THEN REJECTED ELSE REJECTION_REPORTED
       ELSE @]
  /\ queue' = queue \cup
       {Frame("do_signal_call_callback", f, [cb |-> cb, value |-> "broken"], "call") :
          cb \in IF state[f] = PENDING THEN ToSet(failure_cbs[f]) ELSE {}}
  /\ heard' = IF state[f] = PENDING /\ failure_cbs[f] # <<>> THEN heard \cup {f} ELSE heard
  /\ complaints' = IF state'[f] = REJECTED THEN complaints \cup {f} ELSE complaints
  /\ failure_cbs' = [failure_cbs EXCEPT ![f] = <<>>]
  /\ success_cbs' = [success_cbs EXCEPT ![f] = <<>>]
  /\ result' = [result EXCEPT ![f] = None]
  /\ UNCHANGED <<stack, callout, timer, added, called>>

-----------------------------------------------------------------------------

\* create() without an executor.
Init ==
  /\ state = [f \in Futures |-> NO_FUTURE]
  /\ result = [f \in Futures |-> None]
  /\ success_cbs = [f \in Futures |-> <<>>]
  /\ failure_cbs = [f \in Futures |-> <<>>]
  /\ stack = [a \in Actors |-> <<>>]
  /\ callout = "callnow"
  /\ queue = {}
  /\ timer = "none"
  /\ added = {}
  /\ called = [cb \in Callbacks |-> <<>>]
  /\ heard = {}
  /\ complaints = {}
  /\ destructed = {}

\* A step of the frame that a is in.
Step(a) ==
  \/ do_call_callback(a) \/ do_signal_call_callback(a)
  \/ try(a) \/ finalise(a) \/ on_success(a) \/ wait(a) \/ get(a) \/ timeout(a)

Next ==
  \/ \E a \in Actors : Step(a)
  \/ \E t \in Threads : (\E o \in Ops[t] : CallMethod(t, o)) \/ GetTimeout(t) \/ TryGet(t)
  \/ auto_use_backend(Backend) \/ call_out(Backend) \/ call_out_timeout(Backend)
  \/ \E f \in Futures : destruct(f)

Spec == Init /\ [][Next]_vars

\* A thread that can run is run; the backend gets to each call_out; the time
\* of a timeout passes.  The program need not call anything or drop anything.
LiveSpec ==
  /\ Spec
  /\ \A a \in Actors : WF_vars(Step(a))
  /\ WF_vars(call_out(Backend))
  /\ SF_vars(call_out_timeout(Backend))

-----------------------------------------------------------------------------
(* Properties.                                                             *)

\* Every field of the promises, and every frame of a thread, has its type.
TypeOK ==
  /\ state \in [Futures -> NO_FUTURE..REJECTION_REPORTED]
  /\ result \in [Futures -> Results \cup {None}]
  /\ success_cbs \in [Futures -> Seq(OnSuccess)]
  /\ failure_cbs \in [Futures -> Seq(Callbacks \ OnSuccess)]
  /\ \A fr \in Frames \cup queue : fr.fut \in Futures /\ fr.todo \in Seq(Callbacks)
  /\ callout \in {"callnow", "call_out"}
  /\ timer \in {"none", "armed", "over"}
  /\ added \subseteq Callbacks
  /\ called \in [Callbacks -> Seq(Results)]
  /\ heard \subseteq Futures /\ complaints \subseteq Futures /\ destructed \subseteq Futures

Gone == <<REJECTION_REPORTED, None>>

\* The outcome that a caller sees; both states of rejection are one.
Outcome ==
  [f \in Futures |->
    IF f \in destructed THEN Gone
    ELSE IF state[f] <= PENDING THEN <<PENDING, None>>
    ELSE <<IF state[f] = FULFILLED THEN FULFILLED ELSE REJECTED, result[f]>>]

Once == INSTANCE SettleOnce
  WITH Outcomes <- {FULFILLED, REJECTED} \X Results,
       Pending <- <<PENDING, None>>, outcome <- Outcome

\* However many threads, timeouts and callbacks try to settle a future, one
\* of them does, and the outcome stays what it is (finalise() and the tests
\* of try_success() and try_failure() without the lock).
ImplementsSettleOnce == Once!Spec

\* A callback is called at most once, in the outcome that it was added for,
\* and with the result of the promise or, for a failure callback of a
\* promise that was dropped, with its last error.
OutcomeSeen ==
  \A cb \in Callbacks :
    /\ Len(called[cb]) <= 1
    /\ \A v \in ToSet(called[cb]) :
         IF P \in destructed
         THEN v = "broken" => cb \notin OnSuccess
         ELSE IF cb \in OnSuccess THEN Outcome[P] = <<FULFILLED, v>>
                                  ELSE Outcome[P] = <<REJECTED, v>>

\* A rejection does not get lost: when a rejected promise is destructed, get()
\* or try_get() has thrown the error, a failure callback has got it or is
\* going to, or global_on_failure is called (the states REJECTED and
\* REJECTION_REPORTED, and _destruct()).
RejectionHeard ==
  \A f \in destructed : state[f] >= REJECTED => f \in heard \cup complaints

Waiting(t, f) == \E fr \in ToSet(stack[t]) : fr.fn = "get" /\ fr.fut = f

\* A callback that was added is called when the promise has got the outcome
\* that it is for, whether it was added before, after or while that happened;
\* a promise that is dropped calls its failure callbacks.  wait() and get()
\* return when the future has an outcome: the test without the lock and the
\* broadcast after the lock lose no wakeup.  The future of timeout() is
\* settled, whatever becomes of the promise, and its call_out is not left
\* behind.
Progress ==
  /\ \A cb \in SuccessCbs :
       cb \in added /\ state[P] = FULFILLED ~> called[cb] # <<>>
  /\ \A cb \in FailureCbs :
       cb \in added /\ state[P] >= REJECTED ~> called[cb] # <<>>
  /\ \A t \in Threads, f \in Futures :
       Waiting(t, f) /\ state[f] > PENDING ~> ~Waiting(t, f)
  /\ timer # "none" ~> state[T] > PENDING /\ timer = "over"

-----------------------------------------------------------------------------
(* The inductive invariant.                                                *)

\* The frames of each method.  The promise is settled by the program, the
\* future of timeout() by the timeout and by what becomes of the promise; it
\* has no callbacks.
SettleArgs(f) ==
  [kind : {FULFILLED, REJECTED}, value : IF f = P THEN Threads ELSE Results, try : BOOLEAN]
TryFrames(f) ==
  [fn : {"try"}, fut : {f}, arg : SettleArgs(f), pc : {"test"}, todo : {<<>>}]
FinaliseFrames(f) ==
  [fn : {"finalise"}, fut : {f}, arg : SettleArgs(f),
   pc : {"lock", "broadcast", "schedule"}, todo : Seq(Callbacks)]
OnFrames ==
  [fn : {"on"}, fut : {P}, arg : Callbacks, pc : {"lock", "call", "return"}, todo : {<<>>}]
GetFrames ==
  [fn : {"get"}, fut : Futures, arg : {None}, pc : {"wait", "lock", "sleep", "result"},
   todo : {<<>>}]
TimeoutFrames ==
  [fn : {"timeout"}, fut : {P}, arg : {None},
   pc : {"call_out", "on_success", "on_failure", "future"}, todo : {<<>>}]
CallFrames ==
  [fn : {"do_call_callback"}, fut : {P}, arg : [cb : Callbacks, value : Threads],
   pc : {"call", "called"}, todo : {<<>>}]
SignalFrames ==
  [fn : {"do_signal_call_callback"}, fut : {P},
   arg : [cb : Callbacks \ OnSuccess, value : {"broken"}], pc : {"call"}, todo : {<<>>}]
AllFrames ==
  TryFrames(P) \cup TryFrames(T) \cup FinaliseFrames(P) \cup FinaliseFrames(T)
    \cup OnFrames \cup GetFrames \cup TimeoutFrames \cup CallFrames \cup SignalFrames

StackInv ==
  /\ stack \in [Actors -> Seq(AllFrames)]
  /\ queue \subseteq {fr \in CallFrames \cup SignalFrames : fr.pc = "call"}

\* The promise has the outcome that cb is for.
For(cb) == state[P] > PENDING /\ (state[P] = FULFILLED <=> cb \in OnSuccess)

\* What a frame has found out stays true until it is used.
FrameNow(fr) ==
  /\ fr.fn = "do_call_callback" =>
       /\ For(fr.arg.cb) /\ fr.arg.value = result[P]
       /\ fr.pc = "called" /\ fr.arg.cb \notin OnSuccess => P \in heard
  /\ fr.fn = "do_signal_call_callback" => P \in destructed
  /\ fr.fn = "on" =>
       /\ fr.pc = "call" => For(fr.arg)
       /\ fr.arg \in Links => timer # "none"
  /\ fr.fn = "finalise" =>
       /\ fr.pc = "lock" \/ fr.fut = T => fr.todo = <<>>
       /\ IsInjective(fr.todo)
       /\ \A cb \in ToSet(fr.todo) : For(cb)
  /\ fr.fn = "timeout" /\ fr.pc # "call_out" => timer # "none"

\* Nobody has a future that is no more.
Unmentioned(fr) == \A f \in destructed : ~Mentions(fr, f)

FrameInv == \A fr \in Frames \cup queue : FrameNow(fr) /\ Unmentioned(fr)

FieldInv ==
  /\ success_cbs[T] = <<>> /\ failure_cbs[T] = <<>>
  /\ state[P] > PENDING /\ P \notin destructed => result[P] \in Threads
  /\ T \in destructed =>
       timer = "over" /\ (ToSet(success_cbs[P]) \cup ToSet(failure_cbs[P])) \cap Links = {}
  /\ Links \cap added # {} => timer # "none"
  /\ \A f \in Futures : state[f] = REJECTION_REPORTED => f \in heard

\* A callback is in one place: with a frame that will add or call it, in a
\* call_out, in the lists of a promise without outcome, or it has been called.
Holds(fr, cb) ==
  \/ fr.fn = "on" /\ fr.pc \in {"lock", "call"} /\ fr.arg = cb
  \/ fr.fn = "finalise" /\ cb \in ToSet(fr.todo)
  \/ /\ fr.fn \in {"do_call_callback", "do_signal_call_callback"}
     /\ fr.pc = "call" /\ fr.arg.cb = cb
  \/ /\ fr.fn = "timeout"
     /\ \/ fr.pc \in {"call_out", "on_success"} /\ cb \in Links
        \/ fr.pc = "on_failure" /\ cb = "settle_failure"
Adds(fr) == fr.fn = "timeout" \/ (fr.fn = "on" /\ fr.pc = "lock")
InFrames(frames, cb) == \E i \in DOMAIN frames : Holds(frames[i], cb)
Alone(frames, cb) ==
  \A i, j \in DOMAIN frames : Holds(frames[i], cb) /\ Holds(frames[j], cb) => i = j
InStacks(cb) == \E a \in Actors : InFrames(stack[a], cb)
InQueue(cb) == \E call \in queue : call.arg.cb = cb
InList(cb) ==
  state[P] <= PENDING /\ cb \in ToSet(success_cbs[P]) \cup ToSet(failure_cbs[P])
WasCalled(cb) == called[cb] # <<>>

PlaceInv(cb) ==
  /\ \A a \in Actors : Alone(stack[a], cb)
  /\ \A a, b \in Actors : InFrames(stack[a], cb) /\ InFrames(stack[b], cb) => a = b
  /\ InStacks(cb) => ~InQueue(cb) /\ ~InList(cb) /\ ~WasCalled(cb)
  /\ InQueue(cb) => ~InList(cb) /\ ~WasCalled(cb)
  /\ InList(cb) => ~WasCalled(cb)
AddedInv(cb) ==
  /\ \A fr \in Frames : Holds(fr, cb) => (Adds(fr) <=> cb \notin added)
  /\ InQueue(cb) \/ InList(cb) \/ WasCalled(cb) => cb \in added
OnceInv ==
  /\ \A cb \in Callbacks : PlaceInv(cb) /\ AddedInv(cb)
  /\ \A p, q \in queue : p.arg.cb = q.arg.cb => p = q
  /\ state[P] <= PENDING => IsInjective(success_cbs[P]) /\ IsInjective(failure_cbs[P])

CalledInv ==
  \A cb \in Callbacks :
    /\ Len(called[cb]) <= 1
    /\ \A v \in ToSet(called[cb]) :
         /\ P \notin destructed => For(cb) /\ v = result[P]
         /\ v = "broken" => cb \notin OnSuccess

IInv ==
  /\ TypeOK
  /\ StackInv
  /\ FrameInv
  /\ FieldInv
  /\ OnceInv
  /\ CalledInv
  /\ RejectionHeard

=============================================================================
