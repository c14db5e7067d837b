------------------------------- MODULE Tables -------------------------------
(* A table is a function from the keys it has.                             *)

(* The table with an entry written, that was there or not.                 *)
With(table, key, value) == [k \in DOMAIN table \cup {key} |-> IF k = key THEN value ELSE table[k]]
=============================================================================
