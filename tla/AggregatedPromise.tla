------------------------- MODULE AggregatedPromise -------------------------
(***************************************************************************)
(* Concurrent.AggregatedPromise of src/lib/modules/Concurrent.pmod: one    *)
(* promise made of several futures, as results(), all(), fold(),           *)
(* first_completed() and race() use it.                                    *)
(*                                                                         *)
(* The dependencies are seen from the outside (module Promise): each gets  *)
(* one outcome, and then calls the callback that was added for it once, at *)
(* any later time.  In the mode without backend callbacks run in the       *)
(* thread that settles the dependency, so several may run at once.         *)
(***************************************************************************)
EXTENDS Integers, FiniteSets

CONSTANTS
  N,            \* the number of dependencies
  Modes,        \* within {"results", "fold", "first_completed"}
  MaxLimits,    \* the arguments of max_failures()
  MinLimits,    \* the arguments of min_failures()
  Main          \* the thread that makes the promise

Deps == 0..N - 1

ASSUME AggregateAssumption ==
  /\ N \in Nat \ {0}
  /\ Modes \subseteq {"results", "fold", "first_completed"}
  /\ MaxLimits \subseteq 0..N
  /\ MinLimits \subseteq 0..N
  /\ Main \notin Deps

VARIABLES
  num_dependencies, started, mode,
  min_failure_threshold, max_failure_threshold,
  dependency_results,   \* the indices with a successful and with a failed result
  aggregate_state, aggregate_result,   \* of the aggregated promise
  outcome,              \* of each dependency
  callbacks_added,      \* the callbacks that are added: <<dependency, outcome>>
  pc,                   \* of Main and of the callback of each dependency
  counts                \* what aggregate_cb() has counted, in each of them

promise == <<num_dependencies, started, mode, min_failure_threshold, max_failure_threshold>>
aggregate == <<aggregate_state, aggregate_result>>
aggregate_vars == <<promise, dependency_results, aggregate, outcome, callbacks_added, pc, counts>>

Callers == Deps \cup {Main}
Settled == {d \in Deps : outcome[d] # "pending"}
Succeeded == {d \in Deps : outcome[d] = "success"}
Failed == {d \in Deps : outcome[d] = "failure"}

GoOn(a, where) == pc' = [pc EXCEPT ![a] = where]
NoCount == [o \in {"success", "failure"} |-> 0]

-----------------------------------------------------------------------------
(* Main makes the promise: depend(), the limits, the mode, and start().    *)

\* depend() of the next future: its index, then its two callbacks.
depend_index ==
  /\ pc[Main] = "depend"
  /\ num_dependencies < N
  /\ num_dependencies' = num_dependencies + 1
  /\ GoOn(Main, "on_failure")
  /\ UNCHANGED <<started, mode, min_failure_threshold, max_failure_threshold,
                 dependency_results, aggregate, outcome, callbacks_added, counts>>

depend_add ==
  /\ \/ /\ pc[Main] = "on_failure"
        /\ callbacks_added' = callbacks_added \cup {<<num_dependencies - 1, "failure">>}
        /\ GoOn(Main, "on_success")
     \/ /\ pc[Main] = "on_success"
        /\ callbacks_added' = callbacks_added \cup {<<num_dependencies - 1, "success">>}
        /\ GoOn(Main, IF num_dependencies < N THEN "depend" ELSE "limits")
  /\ UNCHANGED <<promise, dependency_results, aggregate, outcome, counts>>

depend == depend_index \/ depend_add

\* max_failures(), any_results() and min_failures().
set_limits ==
  /\ pc[Main] = "limits"
  /\ max_failure_threshold' \in MaxLimits \cup {-1}
  /\ min_failure_threshold' \in MinLimits
  /\ GoOn(Main, "mode")
  /\ UNCHANGED <<num_dependencies, started, mode, dependency_results, aggregate,
                 outcome, callbacks_added, counts>>

\* fold() and first_completed(); without them the result is an array.
set_mode ==
  /\ pc[Main] = "mode"
  /\ mode' \in Modes
  /\ num_dependencies' = IF mode' = "first_completed" THEN 1 ELSE num_dependencies
  /\ GoOn(Main, "start")
  /\ UNCHANGED <<started, min_failure_threshold, max_failure_threshold,
                 dependency_results, aggregate, outcome, callbacks_added, counts>>

startMutant ==
  /\ pc[Main] = "start"
  /\ started' = TRUE
  /\ GoOn(Main, "done")
  /\ UNCHANGED <<num_dependencies, mode, min_failure_threshold, max_failure_threshold,
                 dependency_results, aggregate, outcome, callbacks_added, counts>>

\* start(), called by fold() and first_completed(), and else by on_success(),
\* on_failure(), wait() or get().
start ==
  /\ pc[Main] = "start"
  /\ started' = TRUE
  /\ GoOn(Main, "lock")
  /\ UNCHANGED <<num_dependencies, mode, min_failure_threshold, max_failure_threshold,
                 dependency_results, aggregate, outcome, callbacks_added, counts>>

-----------------------------------------------------------------------------
(* aggregate_cb(), as a callback of a dependency or from start().          *)

\* The dependency calls the callback.  num_dependencies is not 0 any more.
aggregate_cb_call(d) ==
  /\ pc[d] = "none"
  /\ <<d, outcome[d]>> \in callbacks_added
  /\ GoOn(d, "lock")
  /\ UNCHANGED <<promise, dependency_results, aggregate, outcome, callbacks_added, counts>>

\* results[idx] = value, in the mapping that the callback was added with.
Recorded(a) ==
  IF a = Main THEN dependency_results
  ELSE [dependency_results EXCEPT ![outcome[a]] = @ \cup {a}]

Sizes == [o \in {"success", "failure"} |-> Cardinality(dependency_results[o])]

\* The part with the lock.
aggregate_cb_lock(a) ==
  /\ pc[a] = "lock"
  /\ \/ /\ aggregate_state = "pending"
        /\ dependency_results' = Recorded(a)
        /\ counts' = [counts EXCEPT ![a] = IF started THEN Sizes' ELSE NoCount]
        /\ GoOn(a, IF started THEN "decide" ELSE "done")
     \/ /\ aggregate_state # "pending"
        /\ GoOn(a, "done")
        /\ UNCHANGED <<dependency_results, counts>>
  /\ UNCHANGED <<promise, aggregate, outcome, callbacks_added>>

VerdictMutant(a) ==
  LET num_successes == counts[a]["success"]
      num_failures  == counts[a]["failure"]
  IN  IF \/ max_failure_threshold >= 0 /\ num_failures > max_failure_threshold
         \/ num_successes + min_failure_threshold >= num_dependencies
      THEN "failure"
      ELSE IF num_successes + num_failures < num_dependencies THEN "more"
      ELSE IF num_failures < min_failure_threshold THEN "failure"
      ELSE "success"

\* The tests after the lock is dropped, on what was counted with it.
Verdict(a) ==
  LET num_successes == counts[a]["success"]
      num_failures  == counts[a]["failure"]
  IN  IF \/ max_failure_threshold >= 0 /\ num_failures > max_failure_threshold
         \/ num_successes + min_failure_threshold > num_dependencies
      THEN "failure"
      ELSE IF num_successes + num_failures < num_dependencies THEN "more"
      ELSE IF num_failures < min_failure_threshold THEN "failure"
      ELSE "success"

\* The values that the folding function gives from dependency_results[0]:
\* all of them in one, or for first_completed() the last one of the mapping.
\* Without any it is the initial value.
Folded ==
  IF mode = "first_completed" /\ dependency_results["success"] # {}
  THEN {{d} : d \in dependency_results["success"]}
  ELSE {dependency_results["success"]}

aggregate_cb_decide(a) ==
  /\ pc[a] = "decide"
  /\ \/ /\ Verdict(a) = "more"
        /\ GoOn(a, "done")
     \/ /\ Verdict(a) = "failure"
        /\ GoOn(a, "try_failure")
     \/ /\ Verdict(a) = "success"
        /\ mode = "results"
        /\ GoOn(a, "try_success")
     \/ /\ Verdict(a) = "success"
        /\ mode # "results"
        /\ GoOn(a, "fold")
  /\ counts' = [counts EXCEPT ![a] = NoCount]
  /\ UNCHANGED <<promise, dependency_results, aggregate, outcome, callbacks_added>>

\* finalise(), for try_success() and try_failure(): at most once.
Settle(a, newstate, value) ==
  /\ GoOn(a, "done")
  /\ IF aggregate_state = "pending"
     THEN aggregate_state' = newstate /\ aggregate_result' = value
     ELSE UNCHANGED aggregate
  /\ UNCHANGED <<promise, dependency_results, outcome, callbacks_added, counts>>

aggregate_cb_try(a) ==
  \/ pc[a] = "try_failure" /\ Settle(a, "rejected", {})
  \/ pc[a] = "try_success" /\ Settle(a, "fulfilled", dependency_results["success"])

\* The folding function of fold() may throw, to reject the promise.
aggregate_cb_fold(a) ==
  /\ pc[a] = "fold"
  /\ \/ \E value \in Folded : Settle(a, "fulfilled", value)
     \/ mode = "fold" /\ Settle(a, "fold error", {})

aggregate_cb(a) ==
  \/ aggregate_cb_lock(a) \/ aggregate_cb_decide(a)
  \/ aggregate_cb_fold(a) \/ aggregate_cb_try(a)

-----------------------------------------------------------------------------

\* finalise() of a dependency, whose callbacks are called later.
SettleDependency(d, o) ==
  /\ outcome[d] = "pending"
  /\ outcome' = [outcome EXCEPT ![d] = o]
  /\ UNCHANGED <<promise, dependency_results, aggregate, callbacks_added, pc, counts>>

AggregateInit ==
  /\ num_dependencies = 0
  /\ started = FALSE
  /\ mode = "results"
  /\ min_failure_threshold = 0
  /\ max_failure_threshold = 0
  /\ dependency_results = [o \in {"success", "failure"} |-> {}]
  /\ aggregate_state = "pending"
  /\ aggregate_result = {}
  /\ outcome = [d \in Deps |-> "pending"]
  /\ callbacks_added = {}
  /\ pc = [a \in Callers |-> IF a = Main THEN "depend" ELSE "none"]
  /\ counts = [a \in Callers |-> NoCount]

MainStep == depend \/ set_limits \/ set_mode \/ start

AggregateNext ==
  \/ MainStep
  \/ \E a \in Callers : aggregate_cb(a)
  \/ \E d \in Deps : aggregate_cb_call(d) \/ \E o \in {"success", "failure"} : SettleDependency(d, o)

AggregateSpec == AggregateInit /\ [][AggregateNext]_aggregate_vars

\* Threads that can run are run, and settled dependencies call their
\* callbacks (Progress of module Promise).  No dependency need settle.
AggregateLiveSpec ==
  /\ AggregateSpec
  /\ WF_aggregate_vars(MainStep)
  /\ \A a \in Callers : WF_aggregate_vars(aggregate_cb(a))
  /\ \A d \in Deps : WF_aggregate_vars(aggregate_cb_call(d))

-----------------------------------------------------------------------------
(* Properties.                                                             *)

NumFailed == Cardinality(Failed)
NumSucceeded == Cardinality(Succeeded)
TooManyFailures == max_failure_threshold >= 0 /\ NumFailed > max_failure_threshold
TooManySuccesses == NumSucceeded + min_failure_threshold > num_dependencies

\* The aggregate tells the truth about its dependencies although it counts
\* with the lock and decides without it.  What it has recorded of a
\* dependency is true.  It is rejected, in every mode, only when more have
\* failed than max_failures() accepts, or more have succeeded than
\* min_failures() leaves room for among num_dependencies.  It is fulfilled
\* only when the failures that min_failures() asks for are there: with the
\* results of all that succeeded, when all have settled and not too many
\* failed, or for first_completed() with one result, or with the initial
\* value if a failure came first and is accepted.
\* For first_completed() num_dependencies is 1, so two successes are too many
\* and reject the promise although nothing failed: the documentation says
\* otherwise (finding 5 of the README), and the first clause on rejection
\* says no more than what the code keeps.
AggregateCorrect ==
  /\ dependency_results["success"] \subseteq Succeeded
  /\ dependency_results["failure"] \subseteq Failed
  /\ aggregate_state = "rejected" => TooManyFailures \/ TooManySuccesses
  /\ aggregate_state = "fulfilled" => NumFailed >= min_failure_threshold
  /\ aggregate_state = "fulfilled" /\ mode # "first_completed" =>
       /\ Settled = Deps
       /\ aggregate_result = Succeeded
       /\ ~TooManyFailures
  /\ aggregate_state = "fulfilled" /\ mode = "first_completed" =>
       \/ \E d \in Succeeded : aggregate_result = {d}
       \/ aggregate_result = {} /\ Failed # {} /\ max_failure_threshold # 0

\* No result is missed between depend() and start(), or between the threads
\* that count: when all dependencies have settled (one, for
\* first_completed()), or too many have failed, the aggregate is settled.
AggregateSettles ==
  /\ started /\ Settled = Deps ~> aggregate_state # "pending"
  /\ started /\ TooManyFailures ~> aggregate_state # "pending"
  /\ started /\ mode = "first_completed" /\ Settled # {} ~> aggregate_state # "pending"

=============================================================================
