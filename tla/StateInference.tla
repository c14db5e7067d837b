------------------------- MODULE StateInference -------------------------
(* How an attempt learns which input bytes set the state its branch tests  *)
(* (handle_roadblock_simplified, the classes of LLM/state_machine_analyzer *)
(* and LLM/multi_stage_analyzer): known mappings, then the model's view of *)
(* the slice, then the functions that set the state up, then the analysis  *)
(* of the slice alone, and at last the hints kept for the project.         *)
(* Every question to the model may fail and be asked again                 *)
(* (LLMUtil.get_response), give something unusable, or an answer.  What is *)
(* said about a variable is data; a mapping is its variable and the        *)
(* analysis it comes from.                                                 *)
EXTENDS Naturals, FiniteSets, FiniteSetsExt, TLC

CONSTANTS
    Var,       \* names the model may give to state variables
    Known,     \* those the tables of the project map to input offsets
    Patterned, \* those whose setup function follows from their name
    Norm,      \* the name without profile-> and the like, as a function
    MaxVars,   \* how many variables the model names at once
    MaxTries   \* LLM_MAX_RETRIES

VARIABLES
    pc,        \* what the analysis is at
    stage,     \* on whose behalf
    vars,      \* the variables named last, each with its confidence
    maps,      \* the mappings found for them
    todo,      \* those not yet decided on, and what was decided
    decided,
    cache,     \* names whose setup function is remembered
    funcs,     \* whether one has a function to slice
    about,     \* the one the model is asked about
    tries,     \* failed requests for the question at hand
    res        \* the result of the stages

infVars == <<pc, stage, vars, maps, todo, decided, cache, funcs, about, tries, res>>

Nothing == <<>>
NoResult == [vars |-> Nothing, maps |-> {}, hints |-> {}, complete |-> FALSE, stage |-> "none"]

Init ==
    /\ pc = "idle" /\ stage = "none"
    /\ vars = Nothing /\ maps = {} /\ todo = {} /\ decided = Nothing
    /\ cache = {} /\ funcs = FALSE /\ about = {} /\ tries = 0
    /\ res = NoResult

Asking == {"extract", "map", "depend", "setup"}

----------------------------------------------------------------------------
(* Where the stages lead.                                                  *)

(* infer_state_machine begins with the variables of the slice.             *)
Infer(s) ==
    /\ stage' = s /\ pc' = "extract"
    /\ vars' = Nothing /\ maps' = {}
    /\ UNCHANGED <<todo, decided, cache, funcs, about>>

(* A list of hints ends the search if it is not empty.                     *)
Deliver(r) ==
    /\ res' = r
    /\ IF r.hints # {} THEN pc' = "done" /\ UNCHANGED <<stage, vars, maps, todo, decided, cache, funcs, about>>
       ELSE Infer("phase2")

FallBack == pc' = "fallback" /\ UNCHANGED <<stage, vars, maps, todo, decided, cache, funcs, about, res>>

NeedsExtendedAnalysis(r) == ~r.complete /\ \E v \in DOMAIN r.vars : r.vars[v] # "high"

(* Variables that were known keep what was said of them; the rest of the   *)
(* new result replaces the old as far as it is given.                      *)
KeepsMappings(old, new) == [old EXCEPT !.hints = new.hints, !.complete = new.complete]    \* mutant
Replace(old, new) ==
    [old EXCEPT !.maps = IF new.mapped THEN new.maps ELSE @,
                !.hints = new.hints, !.complete = new.complete]
MergeResults(old, new) == [Replace(old, new) EXCEPT !.vars = @ @@ new.vars]

(* The end of an inference for one of the stages: found says whether it    *)
(* got as far as the variables, mapped whether to a list of mappings.      *)
Inferred(found, mapped, ms) ==
    CASE stage = "stage2" ->
           LET r == IF found THEN [vars |-> vars, maps |-> ms, hints |-> ms,
                                   complete |-> FALSE, stage |-> "stage2"]
                    ELSE [res EXCEPT !.stage = "stage2"]
           IN  IF NeedsExtendedAnalysis(r) THEN res' = r /\ Infer("stage3") ELSE Deliver(r)
      [] stage = "extended" ->
           LET new == [vars |-> decided, mapped |-> mapped, maps |-> ms, hints |-> ms,
                       complete |-> \A v \in DOMAIN decided : decided[v] = "high"]
               r == IF found THEN MergeResults(res, new) ELSE [res EXCEPT !.complete = FALSE]
           IN  Deliver([r EXCEPT !.stage = IF r.complete THEN "stage3" ELSE "stage3_incomplete"])
      [] stage = "phase2" ->
           IF found /\ ms # {} THEN /\ pc' = "done" /\ maps' = ms
                                    /\ UNCHANGED <<stage, vars, todo, decided, cache, funcs, about, res>>
           ELSE FallBack

----------------------------------------------------------------------------
(* The first stage answers for itself if every name it recognises in the   *)
(* slice and the branch is known.                                          *)
Stage1Complete(named) == named # {} /\ named \subseteq Known
Stage1(named) ==
    LET ms == {[var |-> v, of |-> "stage1"] : v \in named}
    IN  [vars |-> [v \in named |-> "high"], maps |-> ms, hints |-> ms,
         complete |-> TRUE, stage |-> "stage1"]

(* The query: an unusable slice has no analysis.                           *)
Start(valid, named) ==
    /\ pc = "idle" /\ UNCHANGED tries
    /\ IF ~valid THEN FallBack
       ELSE IF Stage1Complete(named) THEN Deliver(Stage1(named))
       ELSE Infer("stage2") /\ UNCHANGED res

(* get_response sleeps and asks again after any exception but the last.    *)
Retry ==
    /\ pc \in Asking /\ tries + 1 < MaxTries
    /\ tries' = tries + 1
    /\ UNCHANGED <<pc, stage, vars, maps, todo, decided, cache, funcs, about, res>>

(* StateVariableExtractor.extract                                          *)
Named == UNION {[S -> IF stage = "stage2" THEN {"high", "low"} ELSE {"low"}]
                   : S \in UNION {kSubset(n, Var) : n \in 0 .. MaxVars}}

Extract(answer) ==
    /\ pc = "extract" /\ tries' = 0 /\ UNCHANGED res
    /\ vars' = answer
    /\ IF stage = "stage3"
       THEN /\ pc' = "decide" /\ todo' = DOMAIN answer
            /\ UNCHANGED <<stage, maps, decided, cache, funcs, about>>
       ELSE pc' = "map" /\ UNCHANGED <<stage, maps, todo, decided, cache, funcs, about>>

ExtractFails ==
    /\ pc = "extract" /\ tries' = 0
    /\ IF stage = "stage3" THEN Deliver([res EXCEPT !.complete = FALSE, !.stage = "stage3_incomplete"])
       ELSE Inferred(FALSE, FALSE, {})

(* map_state_to_input adds the mappings of the format to the model's; a    *)
(* failure loses both.                                                     *)
Mapped(answer) == {[var |-> v, of |-> stage] : v \in answer \cup (DOMAIN vars \cap Known)}
MapStateToInput(answer) ==
    /\ pc = "map" /\ pc' = "depend" /\ tries' = 0
    /\ maps' = Mapped(answer)
    /\ UNCHANGED <<stage, vars, todo, decided, cache, funcs, about, res>>

MapFails == pc = "map" /\ tries' = 0 /\ Inferred(TRUE, FALSE, {})

(* The dependencies, or that there are none, end the inference.            *)
Depend == pc = "depend" /\ tries' = 0 /\ Inferred(TRUE, TRUE, maps)

----------------------------------------------------------------------------
(* decide_extended_analysis, variable by variable.                         *)
Decided(v, confidence, sliced) ==
    /\ todo' = todo \ {v} /\ decided' = decided @@ (v :> confidence)
    /\ funcs' = (funcs \/ sliced)
    /\ pc' = "decide"
    /\ about' = {}
    /\ UNCHANGED <<stage, vars, maps, res>>

DecideKnown(v) ==
    /\ pc = "decide" /\ v \in todo \cap Known
    /\ Decided(v, "high", FALSE) /\ UNCHANGED <<cache, tries>>

(* infer_setup_function: remembered, by its name, or by asking.            *)
InferSetupFunction(v) ==
    /\ pc = "decide" /\ v \in todo \ Known
    /\ Norm[v] \in cache \cup Patterned
    /\ Decided(v, "medium", TRUE)
    /\ cache' = cache \cup {Norm[v]} /\ UNCHANGED tries

AskSetupFunction(v) ==
    /\ pc = "decide" /\ v \in todo \ Known
    /\ Norm[v] \notin cache \cup Patterned
    /\ pc' = "setup" /\ about' = {v}
    /\ UNCHANGED <<stage, vars, maps, todo, decided, cache, funcs, tries, res>>

(* What the model says is remembered under the name as it was given.       *)
SetupAnswered(func) ==
    /\ pc = "setup" /\ tries' = 0
    /\ \E v \in about : Decided(v, IF func THEN "medium" ELSE "low", func)
    /\ cache' = IF func THEN cache \cup about ELSE cache

(* All are decided.  get_function_slices calls the slicer with arguments   *)
(* it does not take, catches the exception and goes on with no slice: the  *)
(* second inference sees the same code.                                    *)
DecisionTaken ==
    /\ pc = "decide" /\ todo = {} /\ UNCHANGED tries
    /\ IF funcs THEN Infer("extended") /\ UNCHANGED res
       ELSE LET known == \A v \in DOMAIN decided : decided[v] = "high"
            IN  Deliver([res EXCEPT !.vars = @ @@ decided, !.complete = known,
                                    !.stage = IF known THEN "stage3" ELSE "stage3_incomplete"])

(* get_state_hints looks for words in the slice; the hints go into the     *)
(* attempt, and the next one starts with analyzers of its own.             *)
Return ==
    /\ pc \in {"done", "fallback"}
    /\ pc' = "idle" /\ stage' = "none"
    /\ vars' = Nothing /\ maps' = {} /\ todo' = {} /\ decided' = Nothing
    /\ cache' = {} /\ funcs' = FALSE /\ about' = {} /\ res' = NoResult /\ UNCHANGED tries

Next ==
    \/ \E valid \in BOOLEAN, named \in SUBSET Var : Start(valid, named)
    \/ Retry
    \/ pc = "extract" /\ \E answer \in Named : Extract(answer)
    \/ ExtractFails
    \/ \E answer \in SUBSET DOMAIN vars : MapStateToInput(answer)
    \/ MapFails \/ Depend
    \/ \E v \in Var : DecideKnown(v) \/ InferSetupFunction(v) \/ AskSetupFunction(v)
    \/ \E func \in BOOLEAN : SetupAnswered(func)
    \/ DecisionTaken \/ Return

Spec == Init /\ [][Next]_infVars

----------------------------------------------------------------------------
TypeOK ==
    /\ pc \in {"idle", "decide", "done", "fallback"} \cup Asking
    /\ DOMAIN vars \subseteq Var /\ todo \subseteq Var /\ DOMAIN decided \subseteq Var
    /\ cache \subseteq Var /\ funcs \in BOOLEAN /\ tries \in 0 .. MaxTries - 1
    /\ res.complete \in BOOLEAN

(* The hints of a result are the mappings it carries, or none: through all *)
(* merges none is left over from an earlier analysis whose mappings were   *)
(* replaced.                                                               *)
HintsAreMapped == res.hints \in {{}, res.maps}
=============================================================================
