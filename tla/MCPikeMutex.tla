---------------------------- MODULE MCPikeMutex -----------------------------
(* PikeMutex for TLC: threads, keys and promises are interchangeable.      *)
EXTENDS PikeMutex

Symmetry == Permutations(Threads) \cup Permutations(Keys)
              \cup Permutations(Promises)

=============================================================================
