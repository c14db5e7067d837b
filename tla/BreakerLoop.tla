---------------------------- MODULE BreakerLoop ----------------------------
(* The standalone repair loop for seeds a parser refuses (breaker/loop.py, *)
(* run by integrations/libxml_xmllint_breaker.py): the seed is executed,   *)
(* what the parser says picks a family of rewriting rules, and the texts   *)
(* they give are executed and scored one after the other.  The texts       *)
(* themselves are left out: a rule gives some distinct candidates.         *)
EXTENDS Naturals, Sequences, FiniteSets, SequencesExt

CONSTANTS Message,       \* what can be found on stderr
          FamiliesOf,    \* of a message: the families with a pattern for it
          MaxCandidates  \* max_candidates

VARIABLES step, base, left, best, clean
breakerVars == <<step, base, left, best, clean>>

----------------------------------------------------------------------------
(* normalize_xmllint_stderr: the first family of the table that has a      *)
(* matching pattern.  The patterns of the last one occur before it.        *)
Table == <<"tag_mismatch", "attr_construct_error", "entity_undefined", "invalid_charref",
           "namespace_error", "doctype_error", "unterminated_cdata", "unterminated_comment",
           "extra_content", "multiple_roots">>

Diagnose(stderr) ==
    LET matching == {i \in DOMAIN Table : \E m \in stderr : Table[i] \in FamiliesOf[m]}
    IN  CASE stderr = {}   -> "no_error"
          [] matching = {} -> "unknown_parse_error"
          [] OTHER         -> Table[CHOOSE i \in matching : \A j \in matching : i <= j]

(* How many texts the rules of a family give: at most one per defect they  *)
(* look for, and the general repair if they find none.                     *)
Rules(family) ==
    CASE family \in {"attr_construct_error", "entity_undefined", "invalid_charref",
                     "doctype_error"} -> 3
      [] family \in {"tag_mismatch", "namespace_error", "unterminated_cdata",
                     "unterminated_comment"} -> 2
      [] OTHER -> 1

(* choose_structured_text_candidates drops equal texts and stops after the *)
(* one that reaches the limit.                                             *)
Candidates(family) == {n \in 1 .. Rules(family) : n = 1 \/ n <= MaxCandidates}

----------------------------------------------------------------------------
(* execute_target: the process ends, is killed after timeout_sec, or does  *)
(* not start.  Whether the target line is hit is never found out.          *)
Exec ==
    LET families == {Diagnose(s) : s \in SUBSET Message}
    IN  [end : {"exit"}, rc : {"zero", "other", "minus_one"}, family : families, fast : BOOLEAN]
        \cup [end : {"timeout"}, rc : {"other"}, family : families, fast : BOOLEAN]
        \cup [end : {"no_start"}, rc : {"minus_one"}, family : {"unknown_parse_error"}, fast : {TRUE}]

(* fast: sooner than the baseline; one that did not start took no time.    *)
Possible(e) == base.end = "no_start" => ~e.fast \/ e.end = "no_start"
Faster(e) == e.fast /\ base.end # "no_start"

If(condition, points) == IF condition THEN points ELSE 0

(* score_exec_result, in quarters of a point: what the parser said, and    *)
(* the whole.                                                              *)
Recognised(e) == If(e.family # "unknown_parse_error", 4)           \* mutant
ForMessage(e) ==
    If(e.family = "no_error", 8) + If(e.family \notin {"no_error", "unknown_parse_error"}, 4)

Score(e) ==
      If(e.end = "exit", 4) + If(e.end # "timeout", 2)
    + If(e.rc = "zero", 8) + If(e.rc = "other", 2)
    + ForMessage(e)
    + If(e.family # base.family, 4)
    + If(base.rc # "zero" /\ e.rc = "zero", 6)
    + If(Faster(e), 1)

IsClean(e) == e.rc = "zero" /\ e.family = "no_error"

----------------------------------------------------------------------------
None == <<>>
Init == step = "start" /\ base = None /\ left = 0 /\ best = None /\ clean = FALSE

Baseline(e) ==
    /\ step = "start" /\ step' = "loop"
    /\ base' = [e EXCEPT !.fast = FALSE]
    /\ left' \in Candidates(e.family)
    /\ UNCHANGED <<best, clean>>

Try(e) ==
    /\ step = "loop" /\ left > 0 /\ Possible(e)
    /\ best' = IF best = None THEN e ELSE IF Score(e) > Score(best) THEN e ELSE best
    /\ clean' = (clean \/ IsClean(e))
    /\ left' = left - 1
    /\ UNCHANGED <<step, base>>

Summarise ==
    /\ step = "loop" /\ left = 0
    /\ step' = "done" /\ UNCHANGED <<base, left, best, clean>>

Next == (step = "start" /\ \E e \in Exec : Baseline(e)) \/ (step = "loop" /\ \E e \in Exec : Try(e)) \/ Summarise

Spec == Init /\ [][Next]_breakerVars

----------------------------------------------------------------------------
TypeOK ==
    /\ step \in {"start", "loop", "done"} /\ left \in 0 .. 3
    /\ base # None => [base EXCEPT !.fast = TRUE] \in Exec
    /\ best # None => best \in Exec

(* The loop exists to repair: if the parser complained about the seed and  *)
(* one of the candidates is accepted without a word, the best candidate is *)
(* accepted too, whatever the others gain by exiting well, by a different  *)
(* message or by speed.                                                    *)
RepairWins ==
    step = "done" /\ base.family # "no_error" /\ clean => IsClean(best)
=============================================================================
