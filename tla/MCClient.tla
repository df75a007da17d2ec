------------------------------ MODULE MCClient ------------------------------
(* Client on a small instance: two interchangeable threads.                *)
EXTENDS ClientService, TLC

Symmetry == Permutations(Threads)
=============================================================================
