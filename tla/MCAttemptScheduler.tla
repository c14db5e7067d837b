------------------------- MODULE MCAttemptScheduler -------------------------
(* TLC instance of AttemptScheduler.                                       *)
EXTENDS AttemptScheduler, TLC

(* Keys are interchangeable.                                               *)
Symmetry == Permutations(Key)
=============================================================================
