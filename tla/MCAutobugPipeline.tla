------------------------- MODULE MCAutobugPipeline -------------------------
(* TLC instances of AutobugPipeline.                                       *)
EXTENDS AutobugPipeline, TLC

(* Threads, and seeds of the same +cov class, are interchangeable.         *)
Symmetry == Permutations(Worker) \cup Permutations(Seed \ CovSeed)
=============================================================================
