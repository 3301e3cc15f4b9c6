--------------------------- MODULE ReadersWriters ---------------------------
(***************************************************************************)
(* What the keys of a Thread.Mutex promise: a lock that is shared by       *)
(* readers or held by one writer.  A grant is a pair <<key, thread>>.      *)
(*                                                                         *)
(* A writer may become a reader without letting another writer in between, *)
(* and a reader that was a writer may ask to become one again.  From then  *)
(* on only threads that are readers already get new shared keys, and the   *)
(* request ends with the lock, with a refusal, or with the loss of the     *)
(* grant.                                                                  *)
(***************************************************************************)
CONSTANTS Keys, Threads

VARIABLES readers, writers, upgrading

vars == <<readers, writers, upgrading>>

Grants == Keys \X Threads

Init == readers = {} /\ writers = {} /\ upgrading = {}

AcquireShared(k, t) ==
  /\ writers = {}
  /\ upgrading # {} => \E l \in Keys : <<l, t>> \in readers
  /\ readers' = readers \cup {<<k, t>>}
  /\ UNCHANGED <<writers, upgrading>>

AcquireExclusive(k, t) ==
  /\ readers = {}
  /\ writers = {}
  /\ writers' = {<<k, t>>}
  /\ UNCHANGED <<readers, upgrading>>

Downgrade(g) ==
  /\ writers = {g}
  /\ writers' = {}
  /\ readers' = {g}
  /\ UNCHANGED upgrading

AskUpgrade(g) ==
  /\ g \in readers
  /\ upgrading = {}
  /\ upgrading' = {g}
  /\ UNCHANGED <<readers, writers>>

\* With or without having asked before.
Upgrade(g) ==
  /\ readers = {g}
  /\ readers' = {}
  /\ writers' = {g}
  /\ upgrading' = {}

RefuseUpgrade(g) ==
  /\ upgrading = {g}
  /\ upgrading' = {}
  /\ UNCHANGED <<readers, writers>>

Release(g) ==
  /\ g \in readers \cup writers
  /\ readers' = readers \ {g}
  /\ writers' = writers \ {g}
  /\ upgrading' = upgrading \ {g}

Next ==
  \/ \E k \in Keys, t \in Threads : AcquireShared(k, t) \/ AcquireExclusive(k, t)
  \/ \E g \in Grants :
       Downgrade(g) \/ AskUpgrade(g) \/ Upgrade(g) \/ RefuseUpgrade(g) \/ Release(g)

Spec == Init /\ [][Next]_vars

=============================================================================
