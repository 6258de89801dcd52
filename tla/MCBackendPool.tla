--------------------------- MODULE MCBackendPool ----------------------------
(* Instances of BackendPool for TLC. *)
EXTENDS BackendPool, TLC

Symmetric == Permutations(Borrowers) \cup Permutations(Fds)
=============================================================================
