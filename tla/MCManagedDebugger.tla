------------------------- MODULE MCManagedDebugger -------------------------
(* Instances of ManagedDebugger for TLC.                                   *)
EXTENDS ManagedDebugger, TLC

CONSTANTS t1, t2, w1, w2

(* The threads and the worker slots are interchangeable.                   *)
Symmetry == Permutations(Threads) \cup Permutations(Workers)
=============================================================================
