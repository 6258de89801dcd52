---------------------------- MODULE MCRequestPath ----------------------------
(* RequestPath for TLC: borrowers and descriptors are interchangeable. *)
EXTENDS RequestPath, TLC

Symmetric == Permutations(Borrowers) \cup Permutations(Fds)
=============================================================================
