----------------------------- MODULE SettleOnce -----------------------------
(***************************************************************************)
(* What Concurrent.Promise and its subclasses promise about a future: it   *)
(* gets an outcome at most once, keeps it, and is at some time gone.       *)
(***************************************************************************)
CONSTANTS
  Futures,
  Outcomes,
  Pending, Gone     \* neither is in Outcomes

VARIABLE outcome

Init == outcome = [f \in Futures |-> Pending]

Settle(f, o) ==
  /\ outcome[f] = Pending
  /\ outcome' = [outcome EXCEPT ![f] = o]

Drop(f) ==
  /\ outcome[f] # Gone
  /\ outcome' = [outcome EXCEPT ![f] = Gone]

Next == \E f \in Futures : Drop(f) \/ \E o \in Outcomes : Settle(f, o)

Spec == Init /\ [][Next]_outcome

=============================================================================
