--------------------------- MODULE MCPlateauLoop ---------------------------
(* TLC instances of PlateauLoop.                                           *)
EXTENDS PlateauLoop, TLC

(* Roadblocks are interchangeable.                                         *)
Symmetry == Permutations(Key)
=============================================================================
