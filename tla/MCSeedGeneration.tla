-------------------------- MODULE MCSeedGeneration --------------------------
(* TLC instances of SeedGeneration.                                        *)
EXTENDS SeedGeneration, TLC

CONSTANTS e, d1, big

(* Generator scripts of any output, with a queue of their own.             *)
Flag ==
    [data |-> {e, d1}, large |-> {}, oneQueue |-> FALSE, generator |-> TRUE, rejecting |-> TRUE,
     layouts |-> Kinds \X {0, 1}, errMax |-> 0, emptyMax |-> 0, dupMax |-> 0, maxId |-> 1]

(* Direct generation: one queue for the output and the leftovers.          *)
Direct == [Flag EXCEPT !.oneQueue = TRUE, !.dupMax = 1, !.maxId = 2]

(* The same with repairs of scripts that print errors ...                  *)
Erring == [Direct EXCEPT !.data = {d1}, !.errMax = 1, !.maxId = 1]

(* ... and with both kinds of repair, for scripts that write files.        *)
Repaired ==
    [Direct EXCEPT !.layouts = {<<"none", 0>>, <<"file", 0>>}, !.errMax = 1, !.emptyMax = 1,
                   !.maxId = 1]

(* Mutation scripts, with outputs that are empty or too large.             *)
Mutate ==
    [Flag EXCEPT !.data = Data, !.large = {big}, !.generator = FALSE,
                 !.layouts = {<<"file", 0>>, <<"none", 1>>}, !.maxId = 2]

AllSettings == {Flag, Direct, Erring, Repaired, Mutate}
=============================================================================
