------------------------------ MODULE MCLogger ------------------------------
(* Logger on a small instance: callers and loggers are interchangeable.    *)
EXTENDS Logger, TLC

Symmetry == Permutations(Callers) \cup Permutations(Loggers)
=============================================================================
