----------------------------- MODULE MCPromise -----------------------------
(* Promise with two threads that share the calls between them: one keeps   *)
(* the promise, the other has the future.                                  *)
EXTENDS Promise

CONSTANTS t1, t2

MCOps == (t1 :> {"try_success", "future", "on_failure", "get"}) @@
         (t2 :> {"failure", "on_success", "try_get", "timeout"})

=============================================================================
