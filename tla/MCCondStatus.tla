---------------------------- MODULE MCCondStatus ----------------------------
(* TLC instances of CondStatus.                                            *)
EXTENDS CondStatus, TLC

(* Seeds, branches and threads are interchangeable.                        *)
Symmetry == Permutations(Seed) \cup Permutations(Branch) \cup Permutations(Loader)
=============================================================================
