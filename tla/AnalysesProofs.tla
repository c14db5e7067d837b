--------------------------- MODULE AnalysesProofs ---------------------------
(* Theorems about the analyses of AnalysisMachines and about TextMutation, *)
(* each for its own specification and every value of its constants.        *)
EXTENDS AnalysisMachines, TextMutation, FiniteSetTheorems, SequenceTheorems, WellFoundedInduction, TLAPS

----------------------------------------------------------------------------
(* SeedGate: the depth of the parser.                                      *)
Ratchet ==
    /\ frontier \in [Place -> Nat] /\ advances \in [Place -> Nat]
    /\ Gate!FrontierIsRatchet

LEMMA DeeperOf ==
    ASSUME NEW m \in Nat, NEW n \in Nat
    PROVE  Gate!Max({m, n}) = IF m < n THEN n ELSE m
<1> DEFINE top == IF m < n THEN n ELSE m
<1>1. top \in {m, n} /\ \A y \in {m, n} : top >= y
  OBVIOUS
<1>2. \A x \in {m, n} : (\A y \in {m, n} : x >= y) => x = top
  OBVIOUS
<1> HIDE DEF top
<1>3. (CHOOSE x \in {m, n} : \A y \in {m, n} : x >= y) = top
  BY <1>1, <1>2
<1> QED
  BY <1>3 DEF Gate!Max, top

LEMMA NextRatchet == Ratchet /\ [Gate!Next]_gateVars => Ratchet'
<1> SUFFICES ASSUME Ratchet, [Gate!Next]_gateVars PROVE Ratchet'
    OBVIOUS
<1>1. ASSUME UNCHANGED <<frontier, advances>> PROVE Ratchet'
  BY <1>1 DEF Ratchet, Gate!FrontierIsRatchet
<1>2. ASSUME NEW o \in Gate!Outcome, Gate!Evaluate(o) PROVE Ratchet'
  <2>1. o.depth \in Nat
    BY DEF Gate!Outcome
  <2> DEFINE p == call.place
  <2>2. CASE p \in Place
    <3>1. frontier[p] \in Nat /\ Gate!Deepest(o) = IF frontier[p] < o.depth THEN o.depth ELSE frontier[p]
      BY <2>1, <2>2, DeeperOf DEF Ratchet, Gate!Deepest
    <3>2. /\ frontier' = [frontier EXCEPT ![p] = Gate!Deepest(o)]
          /\ advances' = IF o.depth > frontier[p] THEN [advances EXCEPT ![p] = @ + 1] ELSE advances
      BY <1>2 DEF Gate!Evaluate, Gate!Advances
    <3> QED
      BY <2>1, <2>2, <3>1, <3>2 DEF Ratchet, Gate!FrontierIsRatchet
  <2>3. CASE p \notin Place
    <3>1. UNCHANGED <<frontier, advances>>
      BY <1>2, <2>3 DEF Gate!Evaluate, Ratchet
    <3> QED
      BY <1>1, <3>1
  <2> QED
    BY <2>2, <2>3
<1> QED
  BY <1>1, <1>2 DEF Gate!Next, Gate!AflAdds, Gate!Judge, Gate!BeginText, Gate!BeginPlan, Gate!NoText, Gate!Text,
                    Gate!RejectsOutright, Gate!RejectsDuplicate, gateVars

(* FrontierIsRatchet: a level of parser depth counts as an advance at most *)
(* once, whatever payloads and calls return to a place.                    *)
THEOREM DepthAdvancesOnce == Gate!Spec => []FrontierIsRatchet
<1>1. Gate!Init => Ratchet
  BY DEF Gate!Init, Ratchet, Gate!FrontierIsRatchet
<1>2. Ratchet => FrontierIsRatchet
  BY DEF Ratchet, FrontierIsRatchet
<1> QED
  BY <1>1, <1>2, NextRatchet, PTL DEF Gate!Spec, Gate!gateVars, gateVars

----------------------------------------------------------------------------
(* AnalysisCaches: the question for the format.                            *)
AskedInv ==
    /\ asked \in 0 .. 1
    /\ at \in {"start", "extract", "ask"} /\ known = "none" => asked = 0
    /\ at \in {"extract", "ask"} => known = "none" /\ ~inherited
    /\ at \notin {"start", "extract", "ask", "persist", "dump", "keep", "over"} => known # "none"
    /\ inherited => /\ asked = 0 /\ format = "whole"
                    /\ at \notin {"extract", "ask", "persist", "dump", "keep"}

LEMMA NextAsked == AskedInv /\ [Caches!Next]_cacheVars => AskedInv'
<1> SUFFICES ASSUME AskedInv, [Caches!Next]_cacheVars PROVE AskedInv'
    OBVIOUS
<1> USE DEF AskedInv, Caches!Normalized
<1>1. CASE Caches!EnsureFormat
  BY <1>1 DEF Caches!EnsureFormat
<1>2. ASSUME NEW ok \in BOOLEAN, Caches!ExtractEntry(ok) PROVE AskedInv'
  BY <1>2 DEF Caches!ExtractEntry
<1>3. ASSUME NEW ok \in BOOLEAN, Caches!CallLLMForFormat(ok) PROVE AskedInv'
  BY <1>3 DEF Caches!CallLLMForFormat
<1>4. ASSUME NEW ok \in BOOLEAN, Caches!OpenFormatFile(ok) \/ Caches!DumpFormatFile(ok) PROVE AskedInv'
  BY <1>4 DEF Caches!OpenFormatFile, Caches!DumpFormatFile
<1>5. CASE Caches!AugmentRaises \/ Caches!KeepFormat \/ Caches!NextAttempt
  BY <1>5 DEF Caches!AugmentRaises, Caches!KeepFormat, Caches!NextAttempt
<1>6. ASSUME NEW ok \in BOOLEAN,
             \/ Caches!LoadFlags(ok) \/ Caches!RunFlagrec(ok)
             \/ Caches!OpenFlagsFile(ok) \/ Caches!WriteFlagsFile(ok)
      PROVE  AskedInv'
  BY <1>6 DEF Caches!LoadFlags, Caches!RunFlagrec, Caches!OpenFlagsFile, Caches!WriteFlagsFile
<1>7. CASE Caches!NewProcess
  <2>1. inherited' => format' = "whole"
    BY <1>7, Zenon DEF Caches!NewProcess
  <2>2. at' = "start" /\ known' = "none" /\ asked' = 0
    BY <1>7 DEF Caches!NewProcess
  <2> QED
    BY <2>1, <2>2
<1>8. CASE UNCHANGED cacheVars
  BY <1>8 DEF cacheVars
<1> QED
  BY <1>1, <1>2, <1>3, <1>4, <1>5, <1>6, <1>7, <1>8 DEF Caches!Next

(* FormatAskedOnce: a process asks the model for the input format at most  *)
(* once, failed answers included, and not at all if it finds the file.     *)
THEOREM FormatIsAskedOnce == Caches!Spec => []FormatAskedOnce
<1>1. Caches!Init => AskedInv
  BY DEF Caches!Init, AskedInv
<1>2. AskedInv => FormatAskedOnce
  BY DEF AskedInv, FormatAskedOnce, Caches!FormatAskedOnce
<1> QED
  BY <1>1, <1>2, NextAsked, PTL DEF Caches!Spec, Caches!cacheVars, cacheVars

----------------------------------------------------------------------------
(* StateInference: what a result carries through its merges.               *)
Carried(r) ==
    /\ DOMAIN r = {"vars", "maps", "hints", "complete", "stage"}
    /\ r.hints \in {{}, r.maps}

HintInv ==
    /\ Carried(res)
    /\ pc = "extract" => stage \in {"stage2", "stage3", "extended", "phase2"}
    /\ pc \in {"map", "depend"} => stage \in {"stage2", "extended", "phase2"}

LEMMA DeliverKeeps ==
    ASSUME NEW r, Carried(r), Hints!Deliver(r)
    PROVE  HintInv'
BY DEF Hints!Deliver, Hints!Infer, HintInv, Carried

LEMMA InferredKeeps ==
    ASSUME HintInv, stage \in {"stage2", "extended", "phase2"}, NEW hits \in BOOLEAN, NEW mapped \in BOOLEAN,
           NEW ms, mapped \/ ms = {}, Hints!Inferred(hits, mapped, ms)
    PROVE  HintInv'
<1>1. CASE stage = "stage2"
  <2> DEFINE r == IF hits THEN [vars |-> vars, maps |-> ms, hints |-> ms,
                                 complete |-> FALSE, stage |-> "stage2"]
                  ELSE [res EXCEPT !.stage = "stage2"]
  <2>1. IF Hints!NeedsExtendedAnalysis(r) THEN res' = r /\ Hints!Infer("stage3") ELSE Hints!Deliver(r)
    BY <1>1 DEF Hints!Inferred
  <2>2. Carried(r)
    BY DEF HintInv, Carried
  <2> HIDE DEF r
  <2>3. CASE res' = r /\ Hints!Infer("stage3")
    BY <2>2, <2>3 DEF HintInv, Hints!Infer, Carried
  <2> QED
    BY <2>1, <2>2, <2>3, DeliverKeeps
<1>2. CASE stage = "extended"
  <2> DEFINE whole == \A v \in DOMAIN decided : decided[v] = "high"
             new == [vars |-> decided, mapped |-> mapped, maps |-> ms, hints |-> ms, complete |-> whole]
             r == IF hits THEN Hints!MergeResults(res, new) ELSE [res EXCEPT !.complete = FALSE]
             kept == [r EXCEPT !.stage = IF r.complete THEN "stage3" ELSE "stage3_incomplete"]
  <2>1. Hints!Deliver(kept)
    BY <1>2 DEF Hints!Inferred
  <2>2. Carried(Hints!MergeResults(res, new))
    <3>1. Carried(Hints!Replace(res, new))
      BY DEF HintInv, Carried, Hints!Replace
    <3> HIDE DEF new
    <3> QED
      BY <3>1 DEF Hints!MergeResults, Carried
  <2>3. Carried([res EXCEPT !.complete = FALSE])
    BY DEF HintInv, Carried
  <2>4. Carried(r)
    BY <2>2, <2>3
  <2> HIDE DEF r
  <2>5. Carried(kept)
    BY <2>4 DEF Carried
  <2> HIDE DEF kept
  <2> QED
    BY <2>1, <2>5, DeliverKeeps
<1>3. CASE stage = "phase2"
  <2>1. UNCHANGED res /\ pc' \in {"done", "fallback"}
    BY <1>3 DEF Hints!Inferred, Hints!FallBack
  <2> QED
    BY <2>1 DEF HintInv, Carried
<1> QED
  BY <1>1, <1>2, <1>3

LEMMA NextHints == HintInv /\ [Hints!Next]_infVars => HintInv'
<1> SUFFICES ASSUME HintInv, [Hints!Next]_infVars PROVE HintInv'
    OBVIOUS
<1>1. ASSUME NEW valid \in BOOLEAN, NEW named \in SUBSET Var, Hints!Start(valid, named) PROVE HintInv'
  <2>1. CASE Hints!Deliver(Hints!Stage1(named))
    <3>1. Carried(Hints!Stage1(named))
      BY DEF Hints!Stage1, Carried
    <3> QED
      BY <2>1, <3>1, DeliverKeeps
  <2>2. CASE Hints!FallBack
    BY <2>2 DEF Hints!FallBack, HintInv, Carried
  <2>3. CASE Hints!Infer("stage2") /\ UNCHANGED res
    BY <2>3 DEF Hints!Infer, HintInv, Carried
  <2> QED
    BY <1>1, <2>1, <2>2, <2>3 DEF Hints!Start
<1>2. CASE Hints!Retry
  BY <1>2 DEF Hints!Retry, HintInv, Carried
<1>3. ASSUME NEW answer, pc = "extract", Hints!Extract(answer) PROVE HintInv'
  BY <1>3 DEF Hints!Extract, HintInv, Carried
<1>4. CASE Hints!ExtractFails
  <2>1. CASE stage = "stage3"
    <3>1. Hints!Deliver([res EXCEPT !.complete = FALSE, !.stage = "stage3_incomplete"])
      BY <1>4, <2>1 DEF Hints!ExtractFails
    <3>2. Carried([res EXCEPT !.complete = FALSE, !.stage = "stage3_incomplete"])
      BY DEF HintInv, Carried
    <3> QED
      BY <3>1, <3>2, DeliverKeeps
  <2>2. CASE stage # "stage3"
    <3>1. Hints!Inferred(FALSE, FALSE, {}) /\ stage \in {"stage2", "extended", "phase2"}
      BY <1>4, <2>2 DEF Hints!ExtractFails, HintInv
    <3> QED
      BY <3>1, InferredKeeps
  <2> QED
    BY <2>1, <2>2
<1>5. ASSUME NEW answer, Hints!MapStateToInput(answer) PROVE HintInv'
  BY <1>5 DEF Hints!MapStateToInput, HintInv, Carried
<1>6. CASE Hints!MapFails
  <2>1. Hints!Inferred(TRUE, FALSE, {}) /\ stage \in {"stage2", "extended", "phase2"}
    BY <1>6 DEF Hints!MapFails, HintInv
  <2> QED
    BY <2>1, InferredKeeps
<1>7. CASE Hints!Depend
  <2>1. Hints!Inferred(TRUE, TRUE, maps) /\ stage \in {"stage2", "extended", "phase2"}
    BY <1>7 DEF Hints!Depend, HintInv
  <2> QED
    BY <2>1, InferredKeeps
<1>8. ASSUME NEW v, Hints!DecideKnown(v) \/ Hints!InferSetupFunction(v) PROVE HintInv'
  BY <1>8 DEF Hints!DecideKnown, Hints!InferSetupFunction, Hints!Decided, HintInv, Carried
<1>9. ASSUME NEW v, Hints!AskSetupFunction(v) PROVE HintInv'
  BY <1>9 DEF Hints!AskSetupFunction, HintInv, Carried
<1>10. ASSUME NEW func \in BOOLEAN, Hints!SetupAnswered(func) PROVE HintInv'
  <2>1. pc' = "decide" /\ UNCHANGED <<stage, res>>
    BY <1>10 DEF Hints!SetupAnswered, Hints!Decided
  <2> QED
    BY <2>1 DEF HintInv, Carried
<1>11. CASE Hints!DecisionTaken
  <2>1. CASE Hints!Infer("extended") /\ UNCHANGED res
    BY <2>1 DEF Hints!Infer, HintInv, Carried
  <2>2. ASSUME NEW vs, NEW c, NEW st, Hints!Deliver([res EXCEPT !.vars = vs, !.complete = c, !.stage = st])
        PROVE  HintInv'
    <3>1. Carried([res EXCEPT !.vars = vs, !.complete = c, !.stage = st])
      BY DEF HintInv, Carried
    <3> QED
      BY <2>2, <3>1, DeliverKeeps
  <2> QED
    BY <1>11, <2>1, <2>2 DEF Hints!DecisionTaken
<1>12. CASE Hints!Return
  BY <1>12 DEF Hints!Return, Hints!NoResult, HintInv, Carried
<1>13. CASE UNCHANGED infVars
  BY <1>13 DEF infVars, HintInv, Carried
<1> QED
  BY <1>1, <1>2, <1>3, <1>4, <1>5, <1>6, <1>7, <1>8, <1>9, <1>10, <1>11, <1>12, <1>13 DEF Hints!Next

(* HintsAreMapped: no merge of the stages' results leaves hints of an      *)
(* earlier analysis whose mappings were replaced.                          *)
THEOREM HintsFollowMappings == Hints!Spec => []HintsAreMapped
<1>1. Hints!Init => HintInv
  BY DEF Hints!Init, Hints!NoResult, HintInv, Carried
<1>2. HintInv => HintsAreMapped
  BY DEF HintInv, Carried, HintsAreMapped, Hints!HintsAreMapped
<1> QED
  BY <1>1, <1>2, NextHints, PTL DEF Hints!Spec, Hints!infVars, infVars

----------------------------------------------------------------------------
(* BreakerLoop: what an accepted candidate scores.                         *)
LEMMA AcceptedScoresMost ==
    ASSUME NEW c \in Breaker!Exec, NEW d \in Breaker!Exec,
           Breaker!IsClean(c), ~Breaker!IsClean(d), base.family # "no_error"
    PROVE  Breaker!Score(c) > Breaker!Score(d)
<1> DEFINE gain == Breaker!If(base.rc # "zero", 6)
<1>1. gain \in {0, 6}
  BY DEF Breaker!If
<1>2. /\ c.end = "exit" /\ c.rc = "zero" /\ c.family = "no_error"
      /\ d.rc = "zero" => d.end = "exit"
  BY DEF Breaker!Exec, Breaker!IsClean
<1>3. Breaker!Score(c) >= 26 + gain
  <2>1. /\ Breaker!If(c.end = "exit", 4) = 4 /\ Breaker!If(c.end # "timeout", 2) = 2
        /\ Breaker!If(c.rc = "zero", 8) = 8 /\ Breaker!If(c.rc = "other", 2) = 0
        /\ Breaker!ForMessage(c) = 8 /\ Breaker!If(c.family # base.family, 4) = 4
        /\ Breaker!If(base.rc # "zero" /\ c.rc = "zero", 6) = gain
        /\ Breaker!If(Breaker!Faster(c), 1) \in {0, 1}
    BY <1>2 DEF Breaker!If, Breaker!ForMessage
  <2> HIDE DEF gain
  <2> QED
    BY <1>1, <2>1 DEF Breaker!Score
<1>4. Breaker!Score(d) <= 23 + gain
  <2>1. /\ Breaker!If(d.end = "exit", 4) \in {0, 4} /\ Breaker!If(d.end # "timeout", 2) \in {0, 2}
        /\ Breaker!If(d.family # base.family, 4) \in {0, 4}
        /\ Breaker!If(Breaker!Faster(d), 1) \in {0, 1}
    BY DEF Breaker!If
  <2>2. CASE d.rc = "zero"
    <3>1. /\ Breaker!If(d.rc = "zero", 8) = 8 /\ Breaker!If(d.rc = "other", 2) = 0
          /\ Breaker!If(base.rc # "zero" /\ d.rc = "zero", 6) = gain
      BY <2>2 DEF Breaker!If
    <3>2. Breaker!ForMessage(d) \in {0, 4}
      BY <2>2 DEF Breaker!ForMessage, Breaker!If, Breaker!IsClean
    <3> HIDE DEF gain
    <3> QED
      BY <1>1, <2>1, <3>1, <3>2 DEF Breaker!Score
  <2>3. CASE d.rc # "zero"
    <3>1. /\ Breaker!If(d.rc = "zero", 8) = 0 /\ Breaker!If(d.rc = "other", 2) \in {0, 2}
          /\ Breaker!If(base.rc # "zero" /\ d.rc = "zero", 6) = 0
      BY <2>3 DEF Breaker!If
    <3>2. Breaker!ForMessage(d) \in {0, 4, 8}
      BY DEF Breaker!ForMessage, Breaker!If
    <3> HIDE DEF gain
    <3> QED
      BY <1>1, <2>1, <3>1, <3>2 DEF Breaker!Score
  <2> QED
    BY <2>2, <2>3
<1> HIDE DEF gain
<1>5. Breaker!Score(c) \in Int /\ Breaker!Score(d) \in Int
  BY DEF Breaker!Score, Breaker!If, Breaker!ForMessage
<1> QED
  BY <1>1, <1>3, <1>4, <1>5

BestInv ==
    /\ step = "start" => ~clean /\ best = Breaker!None
    /\ best = Breaker!None => ~clean
    /\ best # Breaker!None => best \in Breaker!Exec
    /\ base.family # "no_error" /\ clean => Breaker!IsClean(best)

LEMMA NextBest == BestInv /\ [Breaker!Next]_breakerVars => BestInv'
<1> SUFFICES ASSUME BestInv, [Breaker!Next]_breakerVars PROVE BestInv'
    OBVIOUS
<1>1. ASSUME step = "start", NEW e \in Breaker!Exec, Breaker!Baseline(e) PROVE BestInv'
  <2>1. UNCHANGED <<best, clean>> /\ step' = "loop"
    BY <1>1 DEF Breaker!Baseline
  <2> QED
    BY <1>1, <2>1 DEF BestInv, Breaker!None
<1>2. ASSUME NEW e \in Breaker!Exec, Breaker!Try(e) PROVE BestInv'
  <2>1. /\ step = "loop" /\ step' = "loop" /\ base' = base
        /\ best' = IF best = Breaker!None THEN e
                   ELSE IF Breaker!Score(e) > Breaker!Score(best) THEN e ELSE best
    BY <1>2 DEF Breaker!Try
  <2>2. clean' => clean \/ Breaker!IsClean(e)
    BY <1>2 DEF Breaker!Try
  <2>3. e # Breaker!None
    <3>1. "end" \in DOMAIN e
      BY DEF Breaker!Exec
    <3>2. "end" \notin DOMAIN Breaker!None
      <4>1. DOMAIN Breaker!None = {}
        BY DEF Breaker!None
      <4> QED
        BY <4>1
    <3> QED
      BY <3>1, <3>2
  <2>4. best' # Breaker!None /\ best' \in Breaker!Exec
    BY <2>1, <2>3 DEF BestInv
  <2>5. ASSUME base.family # "no_error", clean' PROVE Breaker!IsClean(best')
    <3>1. CASE best = Breaker!None
      BY <2>1, <2>2, <2>5, <3>1 DEF BestInv
    <3>2. CASE best # Breaker!None
      <4>1. best \in Breaker!Exec
        BY <3>2 DEF BestInv
      <4>2. Breaker!IsClean(e) \/ Breaker!IsClean(best)
        BY <2>2, <2>5 DEF BestInv
      <4>3. CASE Breaker!IsClean(e) /\ Breaker!IsClean(best)
        BY <2>1, <4>3
      <4>4. CASE Breaker!IsClean(e) /\ ~Breaker!IsClean(best)
        BY <2>1, <2>5, <3>2, <4>1, <4>4, AcceptedScoresMost
      <4>5. CASE ~Breaker!IsClean(e) /\ Breaker!IsClean(best)
        <5>1. Breaker!Score(best) > Breaker!Score(e)
          BY <2>5, <4>1, <4>5, AcceptedScoresMost
        <5>2. Breaker!Score(best) \in Int /\ Breaker!Score(e) \in Int
          BY DEF Breaker!Score, Breaker!If, Breaker!ForMessage
        <5> QED
          BY <2>1, <3>2, <4>5, <5>1, <5>2
      <4> QED
        BY <4>2, <4>3, <4>4, <4>5
    <3> QED
      BY <3>1, <3>2
  <2>6. Breaker!IsClean(best') => Breaker!IsClean(best)'
    BY DEF Breaker!IsClean
  <2> QED
    BY <2>1, <2>4, <2>5, <2>6 DEF BestInv, Breaker!None, Breaker!Exec
<1>3. CASE Breaker!Summarise
  BY <1>3 DEF Breaker!Summarise, BestInv, Breaker!None, Breaker!IsClean, Breaker!Exec
<1>4. CASE UNCHANGED breakerVars
  BY <1>4 DEF breakerVars, BestInv, Breaker!None, Breaker!IsClean, Breaker!Exec
<1> QED
  BY <1>1, <1>2, <1>3, <1>4 DEF Breaker!Next

(* RepairWins: if the parser accepts one of the candidates for a seed it   *)
(* complained about, the best candidate is accepted.                       *)
THEOREM RepairIsBest == Breaker!Spec => []RepairWins
<1>1. Breaker!Init => BestInv
  BY DEF Breaker!Init, BestInv
<1>2. BestInv => RepairWins
  BY DEF BestInv, RepairWins, Breaker!RepairWins
<1> QED
  BY <1>1, <1>2, NextBest, PTL DEF Breaker!Spec, Breaker!breakerVars, breakerVars

----------------------------------------------------------------------------
(* Natural numbers.                                                        *)
Less == {p \in Nat \X Nat : p[1] < p[2]}
LEMMA LessWellFounded == IsWellFoundedOn(Less, Nat)
<1>1. Less = OpToRel(<, Nat)
  BY DEF Less, OpToRel
<1>. QED
  BY <1>1, NatLessThanWellFounded

(* A set of naturals has a least element.                                  *)
LEMMA LeastOf == ASSUME NEW T \in SUBSET Nat, T # {} PROVE \E m \in T : \A n \in T : m <= n
<1>1. PICK m \in T : \A n \in T : ~(<<n, m>> \in Less)
  BY LessWellFounded, WFMin
<1>2. ASSUME NEW n \in T PROVE m <= n
  <2>1. n \in Nat /\ m \in Nat
    OBVIOUS
  <2>2. n < m => <<n, m>> \in Less
    BY <2>1 DEF Less
  <2>. QED
    BY <1>1, <2>1, <2>2
<1>. QED
  BY <1>2

(***************************************************************************)
(* CallChains: the depth-first search.  A chain on the stack is a way from *)
(* its head to the target, one call longer than the one below it, and what *)
(* is visited is what is on the innermost.                                 *)
(***************************************************************************)
Searches == {"dot", "sites", "functions", "refSites", "refFunctions"}
NodeSet == [f : Func, site : Nat]
Chain == Seq(NodeSet) \ {<<>>}
FrameSet == [chain : Chain, todo : SUBSET Chains!Edge, has : BOOLEAN, new : BOOLEAN]

On(c) == {c[i].f : i \in DOMAIN c}
Distinct(c) == \A i, j \in DOMAIN c : c[i].f = c[j].f => i = j
Way(c) ==
    /\ Len(c) <= Chains!Limit.depth
    /\ Distinct(c)
    /\ c[Len(c)].f = Target
    /\ \A i \in 1 .. Len(c) - 1 : \E e \in Chains!Calls(c[i + 1].f) : e.caller = c[i].f
Good(fr) ==
    /\ Way(fr.chain)
    /\ fr.todo \subseteq Chains!Callers(Head(fr.chain).f)
    /\ fr.new => ~fr.has
    /\ ~fr.new => Len(fr.chain) < Chains!Limit.depth
Above(up, down) ==
    /\ Len(up.chain) = Len(down.chain) + 1
    /\ \A i \in 1 .. Len(down.chain) : up.chain[i + 1].f = down.chain[i].f
    /\ ~down.new /\ down.has

(* The operators of FiniteSets as the module sees them.                    *)
LEMMA SameCounting ==
    /\ \A T : Chains!IsFiniteSet(T) <=> IsFiniteSet(T)
    /\ \A T : Chains!Cardinality(T) = Cardinality(T)
<1>1. \A T : Chains!IsFiniteSet(T) <=> IsFiniteSet(T)
  BY DEF IsFiniteSet, Chains!IsFiniteSet
<1>2. \A T : Chains!Cardinality(T) = Cardinality(T)
  BY DEF Cardinality, Chains!Cardinality
<1> QED
  BY <1>1, <1>2

(* What the variables of a search hold.                                    *)
ChainsTypeOK ==
    /\ search \in Searches \cup {"idle", "done"}
    /\ search # "idle" => graph \in Graphs
    /\ withRefs \in BOOLEAN /\ begun \in BOOLEAN
    /\ stack \in Seq(FrameSet) /\ expansions \in Nat /\ found \in Seq(Chain)
StackInv ==
    /\ stack # <<>> => begun /\ Chains!Available /\ Len(stack[Len(stack)].chain) = 1
    /\ begun => search \in Searches
    /\ \A k \in 1 .. Len(stack) : Good(stack[k])
    /\ \A k \in 1 .. Len(stack) - 1 : Above(stack[k], stack[k + 1])
    /\ visited = IF stack = <<>> THEN {} ELSE On(Chains!Top.chain)

(* What stands where after the first of a sequence is replaced by one, by  *)
(* two, by none.                                                           *)
LEMMA Replace ==
    ASSUME NEW S, NEW s \in Seq(S), s # <<>>, NEW x \in S
    PROVE  /\ <<x>> \o Tail(s) \in Seq(S) /\ Len(<<x>> \o Tail(s)) = Len(s)
           /\ (<<x>> \o Tail(s))[1] = x
           /\ \A k \in 2 .. Len(s) : (<<x>> \o Tail(s))[k] = s[k]
OBVIOUS

LEMMA Push ==
    ASSUME NEW S, NEW s \in Seq(S), s # <<>>, NEW x \in S, NEW y \in S
    PROVE  /\ <<x, y>> \o Tail(s) \in Seq(S) /\ Len(<<x, y>> \o Tail(s)) = Len(s) + 1
           /\ (<<x, y>> \o Tail(s))[1] = x
           /\ (<<x, y>> \o Tail(s))[2] = y
           /\ \A k \in 2 .. Len(s) : (<<x, y>> \o Tail(s))[k + 1] = s[k]
OBVIOUS

LEMMA Popped ==
    ASSUME NEW S, NEW s \in Seq(S), s # <<>>
    PROVE  /\ Tail(s) \in Seq(S) /\ Len(Tail(s)) = Len(s) - 1
           /\ \A k \in 1 .. Len(s) - 1 : Tail(s)[k] = s[k + 1]
           /\ Head(s) = s[1] /\ Len(s) \in Nat \ {0} /\ \A k \in 1 .. Len(s) : s[k] \in S
OBVIOUS

LEMMA LimitIs == ASSUME ChainsTypeOK, search \in Searches PROVE Chains!Limit \in Chains!Limits
BY CallGraphs DEF Chains!ChainsAssumption, ChainsTypeOK, Chains!Limit, Chains!UsesRefs, Searches

(* Within a search the calls and the limits stay what they are.            *)
LEMMA Frozen ==
    ASSUME UNCHANGED <<search, graph, withRefs>>
    PROVE  /\ Chains!UsesRefs' = Chains!UsesRefs /\ Chains!Limit' = Chains!Limit /\ Chains!Available' = Chains!Available
           /\ \A f : Chains!Calls(f)' = Chains!Calls(f) /\ Chains!Callers(f)' = Chains!Callers(f)
           /\ \A c : Way(c)' = Way(c)
           /\ \A fr : Good(fr)' = Good(fr)
<1>1. Chains!UsesRefs' = Chains!UsesRefs /\ Chains!Limit' = Chains!Limit /\ Chains!Available' = Chains!Available
  BY DEF Chains!UsesRefs, Chains!Limit, Chains!Available
<1>2. \A f : Chains!Calls(f)' = Chains!Calls(f)
  BY <1>1 DEF Chains!Calls
<1>3. \A f : Chains!Callers(f)' = Chains!Callers(f)
  BY <1>2 DEF Chains!Callers, Chains!OnePerCaller
<1>4. \A c : Way(c)' = Way(c)
  BY <1>1, <1>2 DEF Way
<1>5. \A fr : Good(fr)' = Good(fr)
  BY <1>1, <1>3, <1>4 DEF Good
<1> QED
  BY <1>1, <1>2, <1>3, <1>4, <1>5

(* A search that takes one call per caller loses no caller.                *)
LEMMA CallsOfCallers ==
    ASSUME NEW g \in Graphs, graph = g, NEW f, NEW e \in Chains!Calls(f)
    PROVE  /\ Chains!Callers(f) \subseteq Chains!Calls(f)
           /\ \E o \in Chains!Callers(f) : o.caller = e.caller
<1>1. Chains!Callers(f) \subseteq Chains!Calls(f)
  BY DEF Chains!Callers, Chains!OnePerCaller
<1>2. Chains!Calls(f) \subseteq Chains!Edge
  BY CallGraphs DEF Chains!Calls, Chains!ChainsAssumption
<1> DEFINE Sites == {o.site : o \in {d \in Chains!Calls(f) : d.caller = e.caller}}
<1>3. Sites \subseteq Nat /\ e.site \in Sites
  BY <1>2 DEF Chains!Edge
<1> HIDE DEF Sites
<1>4. PICK n \in Sites : \A m \in Sites : n <= m
  BY <1>3, LeastOf
<1>5. PICK o \in Chains!Calls(f) : o.caller = e.caller /\ o.site = n
  BY DEF Sites
<1>6. \A d \in Chains!Calls(f) : d.caller = o.caller => o.site <= d.site
  BY <1>4, <1>5 DEF Sites
<1>7. o \in Chains!Callers(f)
  BY <1>5, <1>6 DEF Chains!Callers, Chains!OnePerCaller
<1> QED
  BY <1>1, <1>5, <1>7

ChainInv == ChainsTypeOK /\ StackInv

(* Leaving a frame: what is visited is what is on the chain below.         *)
LEMMA PopKeeps ==
    ASSUME ChainInv, stack # <<>>, Chains!Pop, UNCHANGED <<search, graph, withRefs, begun>>
    PROVE  StackInv' /\ stack' \in Seq(FrameSet)
<1>1. stack' = Tail(stack) /\ visited' = visited \ {Head(Chains!Top.chain).f}
  BY DEF Chains!Pop, Chains!Unvisited
<1>2. /\ Tail(stack) \in Seq(FrameSet) /\ Len(Tail(stack)) = Len(stack) - 1
      /\ \A k \in 1 .. Len(stack) - 1 : Tail(stack)[k] = stack[k + 1]
      /\ Head(stack) = stack[1] /\ Len(stack) \in Nat \ {0} /\ \A k \in 1 .. Len(stack) : stack[k] \in FrameSet
  BY Popped DEF ChainInv, ChainsTypeOK
<1>3. \A k \in 1 .. Len(stack') : Good(stack'[k])
  BY <1>1, <1>2 DEF ChainInv, StackInv
<1>4. \A k \in 1 .. Len(stack') - 1 : Above(stack'[k], stack'[k + 1])
  BY <1>1, <1>2 DEF ChainInv, StackInv
<1>5. stack' # <<>> => Chains!Available' /\ Len(stack'[Len(stack')].chain) = 1
  BY <1>1, <1>2, Frozen DEF ChainInv, StackInv
<1>6. visited' = IF stack' = <<>> THEN {} ELSE On(Chains!Top.chain)'
  <2> DEFINE c == stack[1].chain
  <2>1. c \in Chain /\ visited = On(c) /\ Head(Chains!Top.chain) = c[1] /\ Chains!Top.chain = c /\ Distinct(c)
    BY <1>2 DEF ChainInv, StackInv, Chains!Top, FrameSet, Chain, Good, Way
  <2>2. CASE Len(stack) = 1
    <3>1. Len(c) = 1
      BY <2>2 DEF ChainInv, StackInv
    <3>2. On(c) = {c[1].f}
      BY <2>1, <3>1 DEF On, Chain
    <3> QED
      BY <1>1, <1>2, <2>1, <2>2, <3>2
  <2>3. CASE Len(stack) # 1
    <3> DEFINE d == stack[2].chain
    <3>1. /\ Len(c) = Len(d) + 1 /\ d \in Chain
          /\ \A i \in 1 .. Len(d) : c[i + 1].f = d[i].f
      BY <1>2, <2>3 DEF ChainInv, StackInv, Above, FrameSet
    <3>2. stack' # <<>> /\ On(Chains!Top.chain)' = On(d)
      <4>0. Len(stack) - 1 \in Nat \ {0} /\ Tail(stack)[1] = stack[2]
        BY <1>2, <2>3
      <4>1. stack' # <<>> /\ stack' \in Seq(FrameSet) /\ stack'[1] = stack[2]
        BY <1>1, <1>2, <4>0
      <4>2. Chains!Top' = stack'[1]
        BY <4>1 DEF Chains!Top
      <4> QED
        BY <4>1, <4>2 DEF On
    <3> HIDE DEF c, d
    <3>3. \A x \in On(c) : x # c[1].f => x \in On(d)
      <4> TAKE x \in On(c)
      <4>1. PICK i \in 1 .. Len(c) : x = c[i].f
        BY <2>1 DEF On, Chain
      <4>2. CASE i = 1
        BY <4>1, <4>2
      <4>3. CASE i # 1
        <5>1. i - 1 \in 1 .. Len(d) /\ (i - 1) + 1 = i
          BY <3>1, <4>3, <4>1 DEF Chain
        <5>2. d[i - 1].f = c[i].f
          BY <3>1, <5>1
        <5> QED
          BY <3>1, <4>1, <5>1, <5>2 DEF On, Chain
      <4> QED
        BY <4>2, <4>3
    <3>4. \A x \in On(d) : x \in On(c) /\ x # c[1].f
      <4> TAKE x \in On(d)
      <4>1. PICK i \in 1 .. Len(d) : x = d[i].f
        BY <3>1 DEF On, Chain
      <4>2. i + 1 \in DOMAIN c /\ 1 \in DOMAIN c /\ c[i + 1].f = x /\ i + 1 # 1
        BY <2>1, <3>1, <4>1 DEF Chain
      <4> QED
        BY <2>1, <4>2 DEF On, Distinct
    <3>5. On(c) \ {c[1].f} = On(d)
      BY <3>3, <3>4
    <3> QED
      BY <1>1, <2>1, <3>2, <3>5
  <2> QED
    BY <2>2, <2>3
<1>7. begun' /\ search' \in Searches
  BY DEF ChainInv, StackInv
<1>8. (\A k \in 1 .. Len(stack) : Good(stack[k]))'
  BY <1>3, Frozen
<1> QED
  BY <1>1, <1>2, <1>4, <1>5, <1>6, <1>7, <1>8 DEF StackInv, Above

LEMMA TopIs ==
    ASSUME ChainInv, stack # <<>>
    PROVE  /\ Chains!Top = stack[1] /\ Chains!Top \in FrameSet /\ Good(Chains!Top) /\ visited = On(Chains!Top.chain)
           /\ Chains!Top.chain \in Chain /\ Head(Chains!Top.chain) = Chains!Top.chain[1] /\ Chains!Top.chain[1] \in NodeSet
           /\ search \in Searches /\ graph \in Graphs /\ begun /\ Chains!Limit \in Chains!Limits
<1>1. Head(stack) = stack[1] /\ Len(stack) \in Nat \ {0} /\ stack[1] \in FrameSet
  BY Popped DEF ChainInv, ChainsTypeOK
<1>2. begun /\ search \in Searches /\ Good(stack[1]) /\ visited = On(Chains!Top.chain)
  BY <1>1 DEF ChainInv, StackInv
<1>3. graph \in Graphs /\ Chains!Limit \in Chains!Limits
  BY <1>2, LimitIs DEF ChainInv, ChainsTypeOK, Searches
<1>4. /\ stack[1].chain \in Chain /\ Head(stack[1].chain) = stack[1].chain[1]
      /\ stack[1].chain[1] \in NodeSet
  BY <1>1 DEF FrameSet, Chain
<1> QED
  BY <1>1, <1>2, <1>3, <1>4 DEF Chains!Top

(* A chain that is continued by an unvisited caller is a way to the target.*)
LEMMA Extended ==
    ASSUME ChainInv, stack # <<>>, ~Chains!Top.new, NEW e \in Chains!Top.todo, e.caller \notin visited, NEW n \in Nat
    PROVE  LET c == Chains!Top.chain
               d == <<Chains!Node(e.caller, 0), Chains!Node(Head(c).f, n)>> \o Tail(c)
           IN  /\ d \in Chain /\ Len(d) = Len(c) + 1 /\ d[1].f = e.caller /\ Len(c) \in Nat \ {0}
               /\ \A i \in 1 .. Len(c) : d[i + 1].f = c[i].f
               /\ Way(d)
               /\ On(d) = On(c) \cup {e.caller}
<1> DEFINE c == Chains!Top.chain
           d == <<Chains!Node(e.caller, 0), Chains!Node(Head(c).f, n)>> \o Tail(c)
<1>1. c \in Seq(NodeSet) /\ c # <<>> /\ Head(c) = c[1] /\ c[1] \in NodeSet /\ Len(c) \in Nat \ {0}
  BY TopIs DEF Chain
<1>2. e \in Chains!Callers(c[1].f) /\ e \in Chains!Calls(c[1].f) /\ e \in Chains!Edge
  <2>1. e \in Chains!Callers(c[1].f)
    BY <1>1, TopIs DEF Good
  <2>2. e \in Chains!Calls(c[1].f)
    BY <2>1 DEF Chains!Callers, Chains!OnePerCaller
  <2>3. e \in Chains!Edge
    BY <2>2, TopIs, CallGraphs DEF Chains!Calls, Chains!ChainsAssumption
  <2> QED
    BY <2>1, <2>2, <2>3
<1>3. Chains!Node(e.caller, 0) \in NodeSet /\ Chains!Node(Head(c).f, n) \in NodeSet
  BY <1>1, <1>2 DEF Chains!Node, NodeSet, Chains!Edge
<1>4. /\ d \in Seq(NodeSet) /\ Len(d) = Len(c) + 1
      /\ d[1] = Chains!Node(e.caller, 0) /\ d[2] = Chains!Node(Head(c).f, n)
      /\ \A i \in 2 .. Len(c) : d[i + 1] = c[i]
  BY <1>1, <1>3, Push
<1> HIDE DEF d
<1>5. d[1].f = e.caller /\ \A i \in 1 .. Len(c) : d[i + 1].f = c[i].f
  <2>1. d[2].f = c[1].f /\ d[1].f = e.caller
    BY <1>1, <1>4 DEF Chains!Node
  <2> QED
    BY <1>1, <1>4, <2>1
<1>6. Way(d)
  <2>1. Len(d) <= Chains!Limit.depth
    BY <1>1, <1>4, TopIs DEF Good, Chains!Limits
  <2>2. Distinct(d)
    <3>0. DOMAIN d = 1 .. Len(d)
      BY <1>4
    <3> SUFFICES ASSUME NEW i \in 1 .. Len(d), NEW j \in 1 .. Len(d), d[i].f = d[j].f PROVE i = j
      BY <3>0 DEF Distinct
    <3>1. \A k \in 1 .. Len(c) : c[k].f # e.caller
      BY <1>1, TopIs DEF On
    <3>2. \A k \in 1 .. Len(d) : k # 1 => k - 1 \in 1 .. Len(c) /\ d[k].f = c[k - 1].f
      <4> TAKE k \in 1 .. Len(d)
      <4> HAVE k # 1
      <4>1. k - 1 \in 1 .. Len(c) /\ (k - 1) + 1 = k
        BY <1>1, <1>4
      <4> QED
        BY <4>1, <1>5
    <3>3. \A k, m \in 1 .. Len(c) : c[k].f = c[m].f => k = m
      BY <1>1, TopIs DEF Good, Way, Distinct
    <3>4. i = 1 => j = 1
      BY <1>5, <3>1, <3>2
    <3>5. j = 1 => i = 1
      BY <1>5, <3>1, <3>2
    <3>6. CASE i # 1 /\ j # 1
      <4>1. c[i - 1].f = c[j - 1].f /\ i - 1 \in 1 .. Len(c) /\ j - 1 \in 1 .. Len(c)
        BY <3>2, <3>6
      <4>2. i - 1 = j - 1
        BY <3>3, <4>1
      <4> QED
        BY <1>1, <1>4, <4>2
    <3> QED
      BY <3>4, <3>5, <3>6
  <2>3. d[Len(d)].f = Target
    <3>1. c[Len(c)].f = Target
      BY TopIs DEF Good, Way
    <3> QED
      BY <1>1, <1>4, <1>5, <3>1
  <2>4. \A i \in 1 .. Len(d) - 1 : \E o \in Chains!Calls(d[i + 1].f) : o.caller = d[i].f
    <3> TAKE i \in 1 .. Len(d) - 1
    <3>1. CASE i = 1
      <4>1. d[2].f = c[1].f
        BY <1>1, <1>5
      <4> QED
        BY <1>2, <1>5, <3>1, <4>1
    <3>2. CASE i # 1
      <4>1. i - 1 \in 1 .. Len(c) - 1 /\ i \in 1 .. Len(c) /\ (i - 1) + 1 = i
        BY <1>1, <1>4, <3>2
      <4>2. d[(i - 1) + 1].f = c[i - 1].f /\ d[i + 1].f = c[i].f
        BY <1>5, <4>1
      <4>3. \E o \in Chains!Calls(c[(i - 1) + 1].f) : o.caller = c[i - 1].f
        BY <4>1, TopIs DEF Good, Way
      <4> QED
        BY <4>1, <4>2, <4>3
    <3> QED
      BY <3>1, <3>2
  <2> QED
    BY <2>1, <2>2, <2>3, <2>4 DEF Way
<1>7. On(d) = On(c) \cup {e.caller}
  <2>1. \A x \in On(d) : x \in On(c) \cup {e.caller}
    <3> TAKE x \in On(d)
    <3>1. PICK i \in 1 .. Len(d) : x = d[i].f
      BY <1>4 DEF On
    <3>2. CASE i = 1
      BY <1>5, <3>1, <3>2
    <3>3. CASE i # 1
      <4>1. i - 1 \in 1 .. Len(c) /\ (i - 1) + 1 = i
        BY <1>1, <1>4, <3>3
      <4>2. d[(i - 1) + 1].f = c[i - 1].f
        BY <1>5, <4>1
      <4>3. i - 1 \in DOMAIN c /\ x = c[i - 1].f
        BY <1>1, <3>1, <4>1, <4>2
      <4> QED
        BY <4>3 DEF On
    <3> QED
      BY <3>2, <3>3
  <2>2. \A x \in On(c) : x \in On(d)
    <3> TAKE x \in On(c)
    <3>1. PICK i \in 1 .. Len(c) : x = c[i].f
      BY <1>1 DEF On
    <3>2. i + 1 \in DOMAIN d /\ x = d[i + 1].f
      BY <1>1, <1>4, <1>5, <3>1
    <3> QED
      BY <3>2 DEF On
  <2>3. e.caller \in On(d)
    <3>1. 1 \in DOMAIN d
      BY <1>1, <1>4
    <3> QED
      BY <1>5, <3>1 DEF On
  <2> QED
    BY <2>1, <2>2, <2>3
<1>8. d \in Chain
  BY <1>1, <1>4 DEF Chain
<1> QED
  BY <1>1, <1>4, <1>5, <1>6, <1>7, <1>8 DEF d


(* The steps that keep the chain of the top frame, and the one that pushes.*)
LEMMA TopChanges ==
    ASSUME ChainInv, stack # <<>>, NEW fr \in FrameSet, fr.chain = Chains!Top.chain, Good(fr),
           stack' = <<fr>> \o Tail(stack), UNCHANGED <<visited, search, graph, withRefs, begun>>
    PROVE  StackInv' /\ stack' \in Seq(FrameSet)
<1>1. /\ stack' \in Seq(FrameSet) /\ Len(stack') = Len(stack) /\ stack'[1] = fr
      /\ \A k \in 2 .. Len(stack) : stack'[k] = stack[k]
      /\ Len(stack) \in Nat \ {0}
  BY Replace DEF ChainInv, ChainsTypeOK
<1>2. \A k \in 1 .. Len(stack') : Good(stack'[k])
  <2> TAKE k \in 1 .. Len(stack')
  <2>1. k = 1 \/ k \in 2 .. Len(stack)
    BY <1>1
  <2> QED
    BY <1>1, <2>1 DEF ChainInv, StackInv
<1>3. (\A k \in 1 .. Len(stack) : Good(stack[k]))'
  BY <1>2, Frozen
<1>4. \A k \in 1 .. Len(stack') - 1 : Above(stack'[k], stack'[k + 1])
  <2> TAKE k \in 1 .. Len(stack') - 1
  <2>1. Above(stack[k], stack[k + 1])
    BY <1>1 DEF ChainInv, StackInv
  <2>2. k + 1 \in 2 .. Len(stack) /\ (k = 1 \/ k \in 2 .. Len(stack))
    BY <1>1
  <2>3. stack'[k + 1] = stack[k + 1] /\ stack'[k].chain = stack[k].chain
    BY <1>1, <2>2, TopIs
  <2> QED
    BY <2>1, <2>3 DEF Above
<1>5. (\A k \in 1 .. Len(stack) - 1 : Above(stack[k], stack[k + 1]))'
  BY <1>4 DEF Above
<1>6. Len(stack'[Len(stack')].chain) = 1
  <2>1. Len(stack[Len(stack)].chain) = 1
    BY DEF ChainInv, StackInv
  <2>2. stack'[Len(stack')].chain = stack[Len(stack)].chain
    BY <1>1, TopIs
  <2> QED
    BY <2>1, <2>2
<1>7. stack' # <<>> /\ Chains!Top' = fr
  BY <1>1 DEF Chains!Top
<1>8. visited' = On(Chains!Top.chain)'
  BY <1>7, TopIs DEF On
<1> QED
  BY <1>1, <1>3, <1>5, <1>6, <1>7, <1>8, Frozen, TopIs DEF StackInv, ChainInv

LEMMA EnterKeeps == ASSUME ChainInv, Chains!Enter PROVE StackInv' /\ stack' \in Seq(FrameSet)
<1>1. UNCHANGED <<search, graph, withRefs, begun>> /\ stack # <<>> /\ Chains!Top.new
  BY DEF Chains!Enter
<1>2. CASE Chains!Pop
  BY <1>1, <1>2, PopKeeps
<1>3. CASE ~Chains!Pop
  <2> DEFINE fr == [Chains!Top EXCEPT !.new = FALSE, !.todo = Chains!Callers(Head(Chains!Top.chain).f)]
  <2>1. ~Chains!Deep /\ stack' = <<fr>> \o Tail(stack) /\ visited' = visited
    BY <1>3 DEF Chains!Enter
  <2>2. fr.chain = Chains!Top.chain /\ fr.todo = Chains!Callers(Head(Chains!Top.chain).f) /\ ~fr.new /\ fr.has = Chains!Top.has
    BY <1>1, TopIs DEF FrameSet
  <2>3. fr \in FrameSet
    <3>1. Chains!Callers(Head(Chains!Top.chain).f) \subseteq Chains!Edge
      BY <1>1, TopIs, CallGraphs DEF Chains!Callers, Chains!OnePerCaller, Chains!Calls, Chains!ChainsAssumption
    <3> QED
      BY <1>1, <3>1, TopIs DEF FrameSet
  <2>4. Good(fr)
    BY <1>1, <2>1, <2>2, <2>3, TopIs DEF Good, Chains!Deep, Chains!Limits, Chain
  <2> HIDE DEF fr
  <2> QED
    BY <1>1, <2>1, <2>2, <2>3, <2>4, TopChanges
<1> QED
  BY <1>2, <1>3

LEMMA Pushed ==
    ASSUME ChainInv, stack # <<>>, NEW up \in FrameSet, NEW rest \in FrameSet,
           rest.chain = Chains!Top.chain, Good(up), Good(rest), Above(up, rest),
           stack' = <<up, rest>> \o Tail(stack), visited' = On(up.chain),
           UNCHANGED <<search, graph, withRefs, begun>>
    PROVE  StackInv' /\ stack' \in Seq(FrameSet)
<1>1. /\ stack' \in Seq(FrameSet) /\ Len(stack') = Len(stack) + 1 /\ stack'[1] = up /\ stack'[2] = rest
      /\ \A k \in 2 .. Len(stack) : stack'[k + 1] = stack[k]
      /\ Len(stack) \in Nat \ {0}
  BY Push DEF ChainInv, ChainsTypeOK
<1>2. \A k \in 1 .. Len(stack') : k = 1 \/ k = 2 \/ (k - 1 \in 2 .. Len(stack) /\ stack'[k] = stack[k - 1])
  <2> TAKE k \in 1 .. Len(stack')
  <2> SUFFICES ASSUME k # 1, k # 2 PROVE k - 1 \in 2 .. Len(stack) /\ stack'[k] = stack[k - 1]
    OBVIOUS
  <2>1. k - 1 \in 2 .. Len(stack) /\ (k - 1) + 1 = k
    BY <1>1
  <2>2. stack'[(k - 1) + 1] = stack[k - 1]
    BY <1>1, <2>1
  <2> QED
    BY <2>1, <2>2
<1>3. \A k \in 1 .. Len(stack') : Good(stack'[k])
  BY <1>1, <1>2 DEF ChainInv, StackInv
<1>4. (\A k \in 1 .. Len(stack) : Good(stack[k]))'
  BY <1>3, Frozen
<1>5. \A k \in 1 .. Len(stack') - 1 : Above(stack'[k], stack'[k + 1])
  <2> TAKE k \in 1 .. Len(stack') - 1
  <2>1. CASE k = 1
    BY <1>1, <2>1
  <2>2. CASE k = 2
    <3>1. stack'[3] = stack[2] /\ Above(stack[1], stack[2])
      BY <1>1, <2>2 DEF ChainInv, StackInv
    <3>2. stack[1].chain = rest.chain
      BY TopIs
    <3>3. Above(rest, stack[2])
      BY <3>1, <3>2 DEF Above
    <3> QED
      BY <1>1, <2>2, <3>1, <3>3
  <2>3. CASE k # 1 /\ k # 2
    <3>1. k - 1 \in 2 .. Len(stack) /\ stack'[k] = stack[k - 1]
      BY <1>1, <1>2, <2>3
    <3>2. k \in 2 .. Len(stack) /\ (k - 1) + 1 = k /\ k - 1 \in 1 .. Len(stack) - 1
      BY <1>1, <3>1
    <3>3. stack'[k + 1] = stack[k]
      BY <1>1, <3>2
    <3>4. Above(stack[k - 1], stack[(k - 1) + 1])
      BY <3>2 DEF ChainInv, StackInv
    <3> QED
      BY <3>1, <3>2, <3>3, <3>4
  <2> QED
    BY <2>1, <2>2, <2>3
<1>6. (\A k \in 1 .. Len(stack) - 1 : Above(stack[k], stack[k + 1]))'
  BY <1>5 DEF Above
<1>7. Len(stack'[Len(stack')].chain) = 1
  <2>1. Len(stack[Len(stack)].chain) = 1
    BY DEF ChainInv, StackInv
  <2>2. CASE Len(stack) = 1
    BY <1>1, <2>1, <2>2, TopIs
  <2>3. CASE Len(stack) # 1
    <3>1. \A l \in Nat \ {0} : l # 1 => l \in 2 .. l
      OBVIOUS
    <3>2. stack'[Len(stack) + 1] = stack[Len(stack)]
      BY <1>1, <2>3, <3>1
    <3> QED
      BY <1>1, <2>1, <3>2
  <2> QED
    BY <2>2, <2>3
<1>8. stack' # <<>> /\ Chains!Top' = up
  BY <1>1 DEF Chains!Top
<1>9. visited' = On(Chains!Top.chain)'
  BY <1>8 DEF On
<1> QED
  BY <1>1, <1>4, <1>6, <1>7, <1>8, <1>9, Frozen, TopIs DEF StackInv, ChainInv

LEMMA ExpandKeeps ==
    ASSUME ChainInv, stack # <<>>, NEW e \in Chains!Top.todo, Chains!Expand(e)
    PROVE  StackInv' /\ stack' \in Seq(FrameSet)
<1> DEFINE rest == [Chains!Top EXCEPT !.todo = @ \ {e}]
           below == [rest EXCEPT !.has = TRUE]
           n == IF search \in {"sites", "refSites"} THEN e.site ELSE 0
           d == <<Chains!Node(e.caller, 0), Chains!Node(Head(Chains!Top.chain).f, n)>> \o Tail(Chains!Top.chain)
<1>0. ~Chains!Top.new /\ UNCHANGED <<search, graph, withRefs, begun>>
  BY DEF Chains!Expand
<1>1. /\ rest.chain = Chains!Top.chain /\ rest.todo = Chains!Top.todo \ {e} /\ rest.new = FALSE /\ rest.has = Chains!Top.has
      /\ rest \in FrameSet
  BY <1>0, TopIs DEF FrameSet
<1>2. /\ below.chain = Chains!Top.chain /\ below.todo = Chains!Top.todo \ {e} /\ below.new = FALSE /\ below.has = TRUE
      /\ below \in FrameSet
  BY <1>0, TopIs DEF FrameSet
<1>3. Good(rest) /\ Good(below)
  BY <1>0, <1>1, <1>2, TopIs DEF Good
<1>4. CASE e.caller \in visited
  <2>1. stack' = <<rest>> \o Tail(stack) /\ UNCHANGED visited
    BY <1>4 DEF Chains!Expand
  <2> HIDE DEF rest
  <2> QED
    BY <1>0, <1>1, <1>3, <2>1, TopChanges
<1>5. CASE e.caller \notin visited
  <2>1. stack' = <<Chains!Frame(d), below>> \o Tail(stack) /\ visited' = visited \cup {e.caller}
    BY <1>5 DEF Chains!Expand
  <2>2. n \in Nat
    <3>1. e \in Chains!Edge
      BY TopIs DEF FrameSet
    <3> QED
      BY <3>1 DEF Chains!Edge
  <2> HIDE DEF n
  <2>3. /\ d \in Chain /\ Len(d) = Len(Chains!Top.chain) + 1 /\ Way(d) /\ On(d) = visited \cup {e.caller}
        /\ \A i \in 1 .. Len(Chains!Top.chain) : d[i + 1].f = Chains!Top.chain[i].f
    BY <1>0, <1>5, <2>2, Extended, TopIs
  <2> HIDE DEF rest, below, d
  <2>4. Chains!Frame(d) \in FrameSet /\ Good(Chains!Frame(d)) /\ Above(Chains!Frame(d), below) /\ Chains!Frame(d).chain = d
    BY <1>2, <2>3 DEF Chains!Frame, FrameSet, Good, Above
  <2> QED
    BY <1>0, <1>2, <1>3, <2>1, <2>3, <2>4, Pushed
<1> QED
  BY <1>4, <1>5

(* What a recorded chain is, and which paths are still to come: those that *)
(* end in the chain of a frame and go on through a call it has yet to      *)
(* follow.  Until a limit is reached every path is found or pending.       *)
Stops(c) == Len(c) = Chains!Limit.depth \/ \A e \in Chains!Calls(c[1].f) : e.caller \in On(c)
Suffix(c, p) ==
    /\ Len(c) <= Len(p)
    /\ \A i \in 1 .. Len(c) : c[i].f = p[Len(p) - Len(c) + i]
Pending(p, fr) ==
    /\ Suffix(fr.chain, p)
    /\ \/ fr.new
       \/ Len(fr.chain) < Len(p) /\ \E e \in fr.todo : e.caller = p[Len(p) - Len(fr.chain)]
       \/ Len(fr.chain) = Len(p) /\ ~fr.has
Found(p) == \E i \in 1 .. Len(found) : Suffix(found[i], p) /\ Len(found[i]) = Len(p)
OnStack(p) == \E k \in 1 .. Len(stack) : Pending(p, stack[k])

FoundInv ==
    /\ \A i \in 1 .. Len(found) : Way(found[i]) /\ Stops(found[i])
    /\ ~begun => found = <<>> /\ stack = <<>>
LoopInv ==
    stack # <<>> /\ ~Chains!Top.new /\ ~Chains!Top.has =>
        ~Chains!Full /\ ~Chains!Spent /\ \A e \in Chains!Callers(Head(Chains!Top.chain).f) : e \in Chains!Top.todo \/ e.caller \in visited
CompleteInv == begun /\ Chains!Available /\ ~Chains!Full /\ ~Chains!Spent => \A p \in Chains!CallPaths : Found(p) \/ OnStack(p)

(* The paths of the property, and how chains lie on their ends.            *)
LEMMA PathIs ==
    ASSUME NEW p \in Chains!CallPaths
    PROVE  /\ p \in Seq(Func) /\ Len(p) \in Nat \ {0} /\ p[1] \in Entry /\ Len(p) <= Chains!Limit.depth
           /\ \A i, j \in 1 .. Len(p) : p[i] = p[j] => i = j
           /\ p[Len(p)] = Target
           /\ \A i \in 1 .. Len(p) - 1 : \E e \in Chains!Calls(p[i + 1]) : e.caller = p[i]
           /\ Len(p) = Chains!Limit.depth \/ \A e \in Chains!Calls(p[1]) : \E i \in 1 .. Len(p) : p[i] = e.caller
<1>1. PICK n \in 1 .. Cardinality(Func) : p \in [1 .. n -> Func]
  BY SameCounting DEF Chains!CallPaths
<1>2. n \in Nat \ {0}
  <2>1. Cardinality(Func) \in Nat
    BY CallGraphs, SameCounting, FS_CardinalityType DEF Chains!ChainsAssumption
  <2> QED
    BY <2>1
<1>3. p \in Seq(Func) /\ Len(p) = n
  <2>1. p \in Seq(Func)
    BY <1>1, <1>2, SeqDef
  <2> QED
    BY <1>1, <1>2, <2>1
<1>4. DOMAIN p = 1 .. Len(p)
  BY <1>3
<1> QED
  BY <1>2, <1>3, <1>4 DEF Chains!CallPaths, Chains!Injective, Chains!Leads, Chains!Ends

LEMMA SuffixAt ==
    ASSUME NEW c \in Chain, NEW p \in Chains!CallPaths, Suffix(c, p)
    PROVE  /\ Len(p) \in Nat \ {0} /\ Len(c) \in Nat \ {0} /\ Len(c) <= Len(p)
           /\ c[1].f = p[(Len(p) - Len(c)) + 1]
           /\ \A i \in 1 .. Len(c) : (Len(p) - Len(c)) + i \in 1 .. Len(p) /\ c[i].f = p[(Len(p) - Len(c)) + i]
<1>1. Len(p) \in Nat \ {0} /\ Len(c) \in Nat \ {0} /\ Len(c) <= Len(p)
  BY PathIs DEF Chain, Suffix
<1>2. \A i \in 1 .. Len(c) : c[i].f = p[(Len(p) - Len(c)) + i]
  BY DEF Suffix
<1>3. \A i \in 1 .. Len(c) : (Len(p) - Len(c)) + i \in 1 .. Len(p)
  BY <1>1
<1>4. 1 \in 1 .. Len(c)
  BY <1>1
<1> QED
  BY <1>1, <1>2, <1>3, <1>4

LEMMA PathsFrozen == ASSUME UNCHANGED <<search, graph, withRefs>> PROVE Chains!CallPaths' = Chains!CallPaths /\ \A c : Stops(c)' = Stops(c)
<1>1. Chains!Limit' = Chains!Limit /\ \A f : Chains!Calls(f)' = Chains!Calls(f)
  BY Frozen
<1>2. \A p : Chains!Leads(p)' = Chains!Leads(p) /\ Chains!Ends(p)' = Chains!Ends(p)
  BY <1>1 DEF Chains!Leads, Chains!Ends
<1> QED
  BY <1>1, <1>2 DEF Chains!CallPaths, Stops, Chains!Injective

(* Limits that were reached stay so, and what was found stays found.       *)
LEMMA Grows ==
    ASSUME ChainsTypeOK, search \in Searches, NEW c \in Chain, found' \in {found, Append(found, c)},
           expansions' \in Nat, expansions <= expansions', UNCHANGED <<search, graph, withRefs>>
    PROVE  /\ Chains!Full => Chains!Full'
           /\ Chains!Spent => Chains!Spent'
           /\ \A p : Found(p) => Found(p)'
<1>1. Chains!Limit' = Chains!Limit /\ Chains!Limit \in Chains!Limits
  BY Frozen, LimitIs
<1>2. Len(found) \in Nat /\ Len(found') \in {Len(found), Len(found) + 1} /\ \A i \in 1 .. Len(found) : found'[i] = found[i]
  BY DEF ChainsTypeOK
<1>3. Chains!Full => Chains!Full'
  BY <1>1, <1>2 DEF Chains!Full, Chains!Limits
<1>4. Chains!Spent => Chains!Spent'
  BY <1>1 DEF Chains!Spent, Chains!Limits, ChainsTypeOK
<1>5. \A p : Found(p) => Found(p)'
  <2> SUFFICES ASSUME NEW p, Found(p) PROVE Found(p)'
    OBVIOUS
  <2>1. PICK i \in 1 .. Len(found) : Suffix(found[i], p) /\ Len(found[i]) = Len(p)
    BY DEF Found
  <2>2. i \in 1 .. Len(found') /\ found'[i] = found[i]
    BY <1>2
  <2> QED
    BY <2>1, <2>2 DEF Found, Suffix
<1> QED
  BY <1>3, <1>4, <1>5

(* Recording the chain of the top frame.                                   *)
LEMMA RecordFinds ==
    ASSUME ChainInv, stack # <<>>, NEW p \in Chains!CallPaths, Suffix(Chains!Top.chain, p), Len(Chains!Top.chain) = Len(p),
           Chains!Record(Chains!Top.chain)
    PROVE  Found(p)'
<1>1. Chains!Top.chain \in Chain /\ Head(Chains!Top.chain) = Chains!Top.chain[1] /\ Len(Chains!Top.chain) \in Nat \ {0}
  BY TopIs DEF Chain
<1>2. Chains!Top.chain[1].f = p[1]
  BY <1>1 DEF Suffix
<1>3. found' = Append(found, Chains!Top.chain)
  BY <1>1, <1>2, PathIs DEF Chains!Record, Chains!Keeps, Chains!IsEntry
<1>4. Len(found) + 1 \in 1 .. Len(found') /\ found'[Len(found) + 1] = Chains!Top.chain
  BY <1>1, <1>3 DEF ChainInv, ChainsTypeOK
<1> QED
  BY <1>4 DEF Found, Suffix

LEMMA RecordKeeps ==
    ASSUME ChainInv, FoundInv, stack # <<>>, Stops(Chains!Top.chain), Chains!Record(Chains!Top.chain),
           UNCHANGED <<search, graph, withRefs, begun>>
    PROVE  FoundInv' /\ found' \in Seq(Chain)
<1>1. Chains!Top.chain \in Chain /\ Way(Chains!Top.chain) /\ begun
  BY TopIs DEF Good
<1>2. found \in Seq(Chain) /\ found' \in {found, Append(found, Chains!Top.chain)}
  BY DEF Chains!Record, ChainInv, ChainsTypeOK
<1>3. \A i \in 1 .. Len(found') : found'[i] = Chains!Top.chain \/ (i \in 1 .. Len(found) /\ found'[i] = found[i])
  BY <1>1, <1>2
<1>4. \A i \in 1 .. Len(found') : Way(found'[i]) /\ Stops(found'[i])
  BY <1>1, <1>3 DEF FoundInv
<1>5. (\A i \in 1 .. Len(found) : Way(found[i]) /\ Stops(found[i]))'
  BY <1>4, Frozen, PathsFrozen
<1> QED
  BY <1>1, <1>2, <1>5 DEF FoundInv

(* A path that is pending on the stack is pending, or found, after a step. *)
LEMMA PopFinds ==
    ASSUME ChainInv, stack # <<>>, Chains!Pop, NEW p, OnStack(p), ~Pending(p, Chains!Top)
    PROVE  OnStack(p)'
<1>1. PICK k \in 1 .. Len(stack) : Pending(p, stack[k])
  BY DEF OnStack
<1>2. stack' = Tail(stack) /\ stack \in Seq(FrameSet) /\ Chains!Top = stack[1]
  BY TopIs DEF Chains!Pop, ChainInv, ChainsTypeOK
<1>3. k # 1
  BY <1>1, <1>2
<1>4. k - 1 \in 1 .. Len(stack') /\ stack'[k - 1] = stack[k]
  BY <1>2, <1>3
<1> QED
  BY <1>1, <1>4 DEF OnStack, Pending, Suffix

LEMMA TopFinds ==
    ASSUME ChainInv, stack # <<>>, NEW fr \in FrameSet, stack' = <<fr>> \o Tail(stack),
           NEW p, OnStack(p), Pending(p, Chains!Top) => Pending(p, fr)
    PROVE  OnStack(p)'
<1>1. PICK k \in 1 .. Len(stack) : Pending(p, stack[k])
  BY DEF OnStack
<1>2. /\ Len(stack') = Len(stack) /\ stack'[1] = fr /\ \A j \in 2 .. Len(stack) : stack'[j] = stack[j]
      /\ Chains!Top = stack[1]
  BY Replace, TopIs DEF ChainInv, ChainsTypeOK
<1>3. k \in 1 .. Len(stack') /\ Pending(p, stack'[k])
  BY <1>1, <1>2
<1> QED
  BY <1>3 DEF OnStack, Pending, Suffix

(* The inductive invariant.                                                *)
SearchInv == ChainInv /\ FoundInv /\ LoopInv /\ CompleteInv

LEMMA LoopAfterPop == ASSUME ChainInv, stack # <<>>, Chains!Pop PROVE LoopInv'
<1>1. stack' = Tail(stack) /\ stack \in Seq(FrameSet)
  BY DEF Chains!Pop, ChainInv, ChainsTypeOK
<1>2. stack' # <<>> => Chains!Top' = stack[2] /\ Len(stack) - 1 \in 1 .. Len(stack) - 1 /\ 1 \in 1 .. Len(stack) - 1
  BY <1>1 DEF Chains!Top
<1>3. stack' # <<>> => Above(stack[1], stack[2])
  BY <1>2 DEF ChainInv, StackInv
<1> QED
  BY <1>2, <1>3 DEF Above, LoopInv

LEMMA EnterFinds ==
    ASSUME SearchInv, Chains!Enter
    PROVE  FoundInv' /\ LoopInv' /\ CompleteInv' /\ found' \in Seq(Chain)
<1>1. /\ UNCHANGED <<search, graph, withRefs, begun, expansions>> /\ stack # <<>> /\ Chains!Top.new
      /\ ChainInv /\ FoundInv /\ Chains!Available /\ begun
  BY DEF Chains!Enter, SearchInv, ChainInv, StackInv
<1>2. /\ Chains!Top \in FrameSet /\ Good(Chains!Top) /\ Chains!Top.chain \in Chain /\ Chains!Limit \in Chains!Limits /\ search \in Searches
      /\ found \in Seq(Chain) /\ expansions \in Nat
  BY <1>1, TopIs DEF ChainInv, ChainsTypeOK
<1>3. ~Chains!Full /\ ~Chains!Spent => \A p \in Chains!CallPaths : Found(p) \/ OnStack(p)
  BY <1>1 DEF SearchInv, CompleteInv
<1>4. Len(Chains!Top.chain) \in Nat /\ Chains!Limit.depth \in Nat
  BY <1>2 DEF Chain, Chains!Limits
<1>5. CASE (search = "dot" /\ Chains!Full) \/ (~Chains!Deep /\ (Chains!Full \/ Chains!Spent))
  <2>1. Chains!Pop /\ UNCHANGED found
    BY <1>5 DEF Chains!Enter
  <2>2. Chains!Full' \/ Chains!Spent'
    <3>1. found' \in {found, Append(found, Chains!Top.chain)} /\ expansions' \in Nat /\ expansions <= expansions'
      BY <1>1, <1>2, <2>1
    <3> QED
      BY <1>1, <1>2, <1>5, <3>1, Grows DEF ChainInv
  <2>3. FoundInv'
    <3>1. (\A i \in 1 .. Len(found) : Way(found[i]) /\ Stops(found[i]))'
      BY <1>1, <2>1, Frozen, PathsFrozen DEF FoundInv
    <3> QED
      BY <1>1, <3>1 DEF FoundInv
  <2>4. LoopInv'
    BY <1>1, <2>1, LoopAfterPop
  <2> QED
    BY <1>2, <2>1, <2>2, <2>3, <2>4 DEF CompleteInv
<1>6. CASE ~((search = "dot" /\ Chains!Full) \/ (~Chains!Deep /\ (Chains!Full \/ Chains!Spent))) /\ Chains!Deep
  <2>1. Chains!Pop /\ Chains!Record(Chains!Top.chain)
    BY <1>6 DEF Chains!Enter
  <2>2. Len(Chains!Top.chain) = Chains!Limit.depth
    BY <1>2, <1>4, <1>6 DEF Chains!Deep, Good, Way
  <2>3. FoundInv' /\ found' \in Seq(Chain)
    BY <1>1, <2>1, <2>2, RecordKeeps DEF Stops
  <2>4. LoopInv'
    BY <1>1, <2>1, LoopAfterPop
  <2>5. found' \in {found, Append(found, Chains!Top.chain)} /\ expansions' \in Nat /\ expansions <= expansions'
    BY <1>1, <1>2, <2>1 DEF Chains!Record
  <2>6. (Chains!Full => Chains!Full') /\ (Chains!Spent => Chains!Spent') /\ \A p : Found(p) => Found(p)'
    BY <1>1, <1>2, <2>5, Grows DEF ChainInv
  <2>7. ASSUME NEW p \in Chains!CallPaths, OnStack(p) PROVE Found(p)' \/ OnStack(p)'
    <3>1. CASE Pending(p, Chains!Top)
      <4>1. Suffix(Chains!Top.chain, p) /\ Len(Chains!Top.chain) = Len(p)
        BY <1>4, <2>2, <3>1, PathIs DEF Pending, Suffix
      <4> QED
        BY <1>1, <2>1, <4>1, RecordFinds
    <3>2. CASE ~Pending(p, Chains!Top)
      BY <1>1, <2>1, <2>7, <3>2, PopFinds
    <3> QED
      BY <3>1, <3>2
  <2>8. CompleteInv'
    BY <1>1, <1>3, <2>6, <2>7, PathsFrozen DEF CompleteInv
  <2> QED
    BY <2>3, <2>4, <2>8
<1>7. CASE ~((search = "dot" /\ Chains!Full) \/ (~Chains!Deep /\ (Chains!Full \/ Chains!Spent))) /\ ~Chains!Deep
  <2> DEFINE fr == [Chains!Top EXCEPT !.new = FALSE, !.todo = Chains!Callers(Head(Chains!Top.chain).f)]
  <2>1. stack' = <<fr>> \o Tail(stack) /\ UNCHANGED <<visited, found>>
    BY <1>7 DEF Chains!Enter
  <2>2. /\ fr.chain = Chains!Top.chain /\ fr.todo = Chains!Callers(Head(Chains!Top.chain).f) /\ ~fr.new /\ fr.has = Chains!Top.has
        /\ Chains!Callers(Head(Chains!Top.chain).f) \subseteq Chains!Edge /\ fr \in FrameSet
    <3>1. Chains!Callers(Head(Chains!Top.chain).f) \subseteq Chains!Edge
      BY <1>1, TopIs, CallGraphs DEF Chains!Callers, Chains!OnePerCaller, Chains!Calls, Chains!ChainsAssumption
    <3> QED
      BY <1>1, <3>1, TopIs DEF FrameSet
  <2> HIDE DEF fr
  <2>3. ~Chains!Full /\ ~Chains!Spent
    BY <1>7
  <2>4. ~Chains!Full' /\ ~Chains!Spent'
    BY <1>1, <2>1, <2>3, Frozen DEF Chains!Full, Chains!Spent
  <2>5. FoundInv' /\ found' \in Seq(Chain)
    <3>1. (\A i \in 1 .. Len(found) : Way(found[i]) /\ Stops(found[i]))'
      BY <1>1, <2>1, Frozen, PathsFrozen DEF FoundInv
    <3> QED
      BY <1>1, <1>2, <2>1, <3>1 DEF FoundInv
  <2>6. LoopInv'
    <3>1. stack' # <<>> /\ Chains!Top' = fr
      BY <1>1, <2>1, <2>2, Replace DEF Chains!Top, ChainInv, ChainsTypeOK
    <3> QED
      BY <1>1, <2>2, <2>4, <3>1, Frozen DEF LoopInv
  <2>7. ASSUME NEW p \in Chains!CallPaths, OnStack(p) PROVE OnStack(p)'
    <3>1. Pending(p, Chains!Top) => Pending(p, fr)
      <4> SUFFICES ASSUME Pending(p, Chains!Top) PROVE Pending(p, fr)
        OBVIOUS
      <4> DEFINE c == Chains!Top.chain
      <4>1. ~Chains!Top.has /\ Suffix(c, p) /\ c \in Chain /\ Head(c) = c[1] /\ Len(c) \in Nat \ {0} /\ graph \in Graphs
        BY <1>1, TopIs DEF Good, Pending, Chain
      <4>2. CASE Len(c) = Len(p)
        BY <2>2, <4>1, <4>2 DEF Pending
      <4>3. CASE Len(c) < Len(p)
        <5>0. Len(p) \in Nat \ {0} /\ Len(c) \in Nat \ {0} /\ c[1].f = p[(Len(p) - Len(c)) + 1]
          BY <4>1, SuffixAt
        <5>1. Len(p) - Len(c) \in 1 .. Len(p) - 1 /\ c[1].f = p[(Len(p) - Len(c)) + 1]
          BY <4>3, <5>0
        <5>2. PICK e \in Chains!Calls(c[1].f) : e.caller = p[Len(p) - Len(c)]
          <6> DEFINE i == Len(p) - Len(c)
          <6>1. \A k \in 1 .. Len(p) - 1 : \E e \in Chains!Calls(p[k + 1]) : e.caller = p[k]
            BY PathIs
          <6>2. i \in 1 .. Len(p) - 1 /\ c[1].f = p[i + 1]
            BY <5>1
          <6> HIDE DEF i
          <6>3. \E e \in Chains!Calls(c[1].f) : e.caller = p[i]
            BY <6>1, <6>2
          <6> QED
            BY <6>3 DEF i
        <5>3. PICK o \in Chains!Callers(c[1].f) : o.caller = e.caller
          BY <4>1, CallsOfCallers
        <5> QED
          BY <2>2, <4>1, <4>3, <5>2, <5>3 DEF Pending
      <4> QED
        BY <4>1, <4>2, <4>3, PathIs DEF Suffix
    <3> QED
      BY <1>1, <2>1, <2>2, <2>7, <3>1, TopFinds
  <2>8. \A p : Found(p) => Found(p)'
    BY <2>1 DEF Found, Suffix
  <2>9. CompleteInv'
    BY <1>1, <1>3, <2>3, <2>7, <2>8, PathsFrozen DEF CompleteInv
  <2> QED
    BY <2>5, <2>6, <2>9
<1> QED
  BY <1>5, <1>6, <1>7

(* The caller through which a path goes on is not on the chain.            *)
LEMMA OffSuffix ==
    ASSUME NEW c \in Chain, NEW p \in Chains!CallPaths, Suffix(c, p), Len(c) < Len(p)
    PROVE  p[Len(p) - Len(c)] \notin On(c)
<1>1. Len(p) \in Nat \ {0} /\ Len(c) \in Nat \ {0}
  BY PathIs DEF Chain
<1>2. SUFFICES ASSUME NEW i \in 1 .. Len(c), c[i].f = p[Len(p) - Len(c)] PROVE FALSE
  BY DEF On, Chain
<1>3. p[Len(p) - Len(c) + i] = p[Len(p) - Len(c)]
  BY <1>2 DEF Suffix
<1>4. Len(p) - Len(c) + i \in 1 .. Len(p) /\ Len(p) - Len(c) \in 1 .. Len(p) /\ Len(p) - Len(c) + i # Len(p) - Len(c)
  BY <1>1
<1>5. \A j, k \in 1 .. Len(p) : p[j] = p[k] => j = k
  BY PathIs
<1> QED
  BY <1>3, <1>4, <1>5

LEMMA ExpandFinds ==
    ASSUME SearchInv, stack # <<>>, NEW e \in Chains!Top.todo, Chains!Expand(e)
    PROVE  FoundInv' /\ LoopInv' /\ CompleteInv' /\ expansions' \in Nat
<1> DEFINE rest == [Chains!Top EXCEPT !.todo = @ \ {e}]
           below == [rest EXCEPT !.has = TRUE]
           n == IF search \in {"sites", "refSites"} THEN e.site ELSE 0
           c == Chains!Top.chain
           d == <<Chains!Node(e.caller, 0), Chains!Node(Head(Chains!Top.chain).f, n)>> \o Tail(Chains!Top.chain)
<1>1. /\ UNCHANGED <<search, graph, withRefs, begun, found>> /\ ~Chains!Top.new /\ ~Chains!Full /\ ~Chains!Spent
      /\ ChainInv /\ FoundInv /\ Chains!Available /\ begun
  BY DEF Chains!Expand, SearchInv, ChainInv, StackInv
<1>2. /\ Chains!Top \in FrameSet /\ Good(Chains!Top) /\ c \in Chain /\ Chains!Limit \in Chains!Limits /\ search \in Searches
      /\ found \in Seq(Chain) /\ expansions \in Nat /\ visited = On(c) /\ Len(c) \in Nat \ {0} /\ Head(c) = c[1]
  BY <1>1, TopIs DEF ChainInv, ChainsTypeOK, Chain
<1>3. \A p \in Chains!CallPaths : Found(p) \/ OnStack(p)
  BY <1>1 DEF SearchInv, CompleteInv
<1>4. /\ rest.chain = c /\ rest.todo = Chains!Top.todo \ {e} /\ ~rest.new /\ rest.has = Chains!Top.has /\ rest \in FrameSet
      /\ below.chain = c /\ below.todo = Chains!Top.todo \ {e} /\ ~below.new /\ below.has = TRUE /\ below \in FrameSet
  BY <1>1, <1>2 DEF FrameSet
<1>5. expansions' \in Nat /\ expansions <= expansions'
  BY <1>2 DEF Chains!Expand
<1>6. FoundInv' /\ found' \in Seq(Chain)
  <2>1. (\A i \in 1 .. Len(found) : Way(found[i]) /\ Stops(found[i]))'
    BY <1>1, Frozen, PathsFrozen DEF FoundInv
  <2> QED
    BY <1>1, <1>2, <2>1 DEF FoundInv
<1>7. \A p : Found(p) => Found(p)'
  BY <1>1 DEF Found, Suffix
<1>8. ASSUME NEW p \in Chains!CallPaths, Suffix(c, p)
      PROVE  /\ c[1].f = p[(Len(p) - Len(c)) + 1] /\ Len(p) \in Nat \ {0} /\ Len(c) <= Len(p)
             /\ \A i \in 1 .. Len(c) : (Len(p) - Len(c)) + i \in 1 .. Len(p) /\ c[i].f = p[(Len(p) - Len(c)) + i]
  BY <1>2, <1>8, SuffixAt
<1>9. CASE e.caller \in visited
  <2>1. stack' = <<rest>> \o Tail(stack) /\ UNCHANGED <<visited, expansions>>
    BY <1>9 DEF Chains!Expand
  <2> HIDE DEF rest
  <2>2. LoopInv'
    <3>1. stack' # <<>> /\ Chains!Top' = rest
      BY <1>1, <1>4, <2>1, Replace DEF Chains!Top, ChainInv, ChainsTypeOK
    <3>2. ~Chains!Full' /\ ~Chains!Spent' /\ \A f : Chains!Callers(f)' = Chains!Callers(f)
      BY <1>1, <2>1, Frozen DEF Chains!Full, Chains!Spent
    <3> QED
      BY <1>1, <1>4, <1>9, <2>1, <3>1, <3>2 DEF LoopInv, SearchInv
  <2>3. ASSUME NEW p \in Chains!CallPaths, OnStack(p) PROVE OnStack(p)'
    <3>1. Pending(p, Chains!Top) => Pending(p, rest)
      <4> SUFFICES ASSUME Pending(p, Chains!Top), Len(c) < Len(p) PROVE \E o \in rest.todo : o.caller = p[Len(p) - Len(c)]
        BY <1>1, <1>4 DEF Pending
      <4>1. Suffix(c, p) /\ \E o \in Chains!Top.todo : o.caller = p[Len(p) - Len(c)]
        BY <1>1 DEF Pending
      <4>2. PICK o \in Chains!Top.todo : o.caller = p[Len(p) - Len(c)]
        BY <4>1
      <4>3. o # e
        BY <1>2, <1>9, <4>1, <4>2, OffSuffix
      <4> QED
        BY <1>4, <4>2, <4>3
    <3> QED
      BY <1>1, <1>4, <2>1, <2>3, <3>1, TopFinds
  <2> QED
    BY <1>1, <1>3, <1>5, <1>6, <1>7, <2>2, <2>3, PathsFrozen DEF CompleteInv
<1>10. CASE e.caller \notin visited
  <2>1. /\ stack' = <<Chains!Frame(d), below>> \o Tail(stack)
    BY <1>10 DEF Chains!Expand
  <2>2. n \in Nat
    <3>1. e \in Chains!Edge
      BY <1>2 DEF FrameSet
    <3> QED
      BY <3>1 DEF Chains!Edge
  <2> HIDE DEF n
  <2>3. /\ d \in Chain /\ Len(d) = Len(c) + 1 /\ d[1].f = e.caller
        /\ \A i \in 1 .. Len(c) : d[i + 1].f = c[i].f
    BY <1>1, <1>10, <2>2, Extended
  <2> HIDE DEF rest, below, d
  <2>4. /\ Chains!Frame(d) \in FrameSet /\ Chains!Frame(d).chain = d /\ Chains!Frame(d).new
        /\ stack' # <<>> /\ Chains!Top' = Chains!Frame(d) /\ Len(stack') = Len(stack) + 1 /\ stack'[1] = Chains!Frame(d) /\ stack'[2] = below
        /\ \A k \in 2 .. Len(stack) : stack'[k + 1] = stack[k]
        /\ Len(stack) \in Nat \ {0}
    <3>1. Chains!Frame(d) \in FrameSet /\ Chains!Frame(d).chain = d /\ Chains!Frame(d).new
      BY <2>3 DEF Chains!Frame, FrameSet
    <3>2. /\ stack' \in Seq(FrameSet) /\ Len(stack') = Len(stack) + 1 /\ stack'[1] = Chains!Frame(d) /\ stack'[2] = below
          /\ \A k \in 2 .. Len(stack) : stack'[k + 1] = stack[k]
          /\ Len(stack) \in Nat \ {0}
      BY <1>1, <1>4, <2>1, <3>1, Push DEF ChainInv, ChainsTypeOK
    <3>3. stack' # <<>> /\ Chains!Top' = Chains!Frame(d)
      BY <3>2 DEF Chains!Top
    <3> QED
      BY <3>1, <3>2, <3>3
  <2>5. LoopInv'
    BY <2>4 DEF LoopInv
  <2>6. (Chains!Full => Chains!Full') /\ (Chains!Spent => Chains!Spent')
    BY <1>1, <1>2, <1>5, Grows DEF ChainInv
  <2>7. ASSUME NEW p \in Chains!CallPaths, OnStack(p) PROVE OnStack(p)'
    <3>1. PICK k \in 1 .. Len(stack) : Pending(p, stack[k])
      BY <2>7 DEF OnStack
    <3>2. CASE k # 1
      <4>1. k \in 2 .. Len(stack) /\ k + 1 \in 1 .. Len(stack')
        BY <2>4, <3>2
      <4>2. Pending(p, stack'[k + 1])
        BY <2>4, <3>1, <4>1
      <4> QED
        BY <4>1, <4>2 DEF OnStack, Pending, Suffix
    <3>3. CASE k = 1
      <4>1. Pending(p, Chains!Top) /\ Suffix(c, p)
        BY <1>1, <3>1, <3>3, TopIs DEF Pending
      <4>2. ~(Len(c) = Len(p) /\ ~Chains!Top.has)
        <5> SUFFICES ASSUME Len(c) = Len(p) PROVE FALSE
          OBVIOUS
        <5>1. Len(c) < Chains!Limit.depth /\ e \in Chains!Callers(c[1].f) /\ graph \in Graphs
          BY <1>1, <1>2, TopIs DEF Good
        <5>2. e \in Chains!Calls(p[1])
          <6>1. c[1].f = p[1]
            BY <1>2, <1>8, <4>1
          <6> QED
            BY <5>1, <6>1, CallsOfCallers DEF Chains!Callers, Chains!OnePerCaller
        <5>3. \A i \in 1 .. Len(p) : p[i] = c[i].f
          BY <1>2, <1>8, <4>1
        <5>4. PICK i \in 1 .. Len(p) : p[i] = e.caller
          <6>1. Len(p) # Chains!Limit.depth
            BY <1>2, <5>1 DEF Chains!Limits
          <6> QED
            BY <5>2, <6>1, PathIs
        <5>5. i \in DOMAIN c
          BY <1>2 DEF Chain
        <5> QED
          BY <1>2, <1>10, <5>3, <5>4, <5>5 DEF On
      <4>3. PICK o \in Chains!Top.todo : o.caller = p[Len(p) - Len(c)] /\ Len(c) < Len(p)
        BY <1>1, <4>1, <4>2 DEF Pending
      <4>4. CASE o = e
        <5>1. Len(d) <= Len(p) /\ Len(d) \in Nat
          BY <1>2, <1>8, <2>3, <4>1, <4>3
        <5>2. \A i \in 1 .. Len(d) : d[i].f = p[Len(p) - Len(d) + i]
          <6> TAKE i \in 1 .. Len(d)
          <6>1. CASE i = 1
            <7>1. Len(p) - Len(d) + i = Len(p) - Len(c)
              BY <1>2, <1>8, <2>3, <4>1, <6>1
            <7> QED
              BY <2>3, <4>3, <4>4, <6>1, <7>1
          <6>2. CASE i # 1
            <7>1. i - 1 \in 1 .. Len(c) /\ (i - 1) + 1 = i
              BY <1>2, <2>3, <6>2
            <7>2. d[(i - 1) + 1].f = c[i - 1].f
              BY <2>3, <7>1
            <7>3. (Len(p) - Len(c)) + (i - 1) = Len(p) - Len(d) + i
              BY <1>2, <1>8, <2>3, <4>1
            <7>4. c[i - 1].f = p[(Len(p) - Len(c)) + (i - 1)]
              BY <1>8, <4>1, <7>1
            <7> QED
              BY <7>1, <7>2, <7>3, <7>4
          <6> QED
            BY <6>1, <6>2
        <5>3. Suffix(stack'[1].chain, p) /\ stack'[1].new /\ 1 \in 1 .. Len(stack')
          <6>1. Suffix(d, p)
            BY <5>1, <5>2 DEF Suffix
          <6> QED
            BY <2>4, <6>1
        <5> QED
          BY <5>3 DEF OnStack, Pending, Suffix
      <4>5. CASE o # e
        <5>1. Pending(p, stack'[2]) /\ 2 \in 1 .. Len(stack')
          BY <1>4, <2>4, <4>1, <4>3, <4>5 DEF Pending
        <5> QED
          BY <5>1 DEF OnStack, Pending, Suffix
      <4> QED
        BY <4>4, <4>5
    <3> QED
      BY <3>2, <3>3
  <2> QED
    BY <1>1, <1>3, <1>5, <1>6, <1>7, <2>5, <2>6, <2>7, PathsFrozen DEF CompleteInv
<1> QED
  BY <1>9, <1>10

LEMMA LeaveFinds ==
    ASSUME SearchInv, Chains!Leave
    PROVE  FoundInv' /\ LoopInv' /\ CompleteInv' /\ found' \in Seq(Chain)
<1> DEFINE c == Chains!Top.chain
<1>1. /\ UNCHANGED <<search, graph, withRefs, begun, expansions>> /\ stack # <<>> /\ ~Chains!Top.new /\ Chains!Pop
      /\ (Chains!Top.todo = {} \/ Chains!Full \/ Chains!Spent)
      /\ IF Chains!Top.has THEN UNCHANGED found ELSE Chains!Record(c)
      /\ ChainInv /\ FoundInv /\ Chains!Available /\ begun
  BY DEF Chains!Leave, SearchInv, ChainInv, StackInv
<1>2. /\ Chains!Top \in FrameSet /\ Good(Chains!Top) /\ c \in Chain /\ Chains!Limit \in Chains!Limits /\ search \in Searches
      /\ found \in Seq(Chain) /\ expansions \in Nat /\ visited = On(c) /\ Head(c) = c[1] /\ graph \in Graphs
  BY <1>1, TopIs DEF ChainInv, ChainsTypeOK
<1>3. ~Chains!Full /\ ~Chains!Spent => \A p \in Chains!CallPaths : Found(p) \/ OnStack(p)
  BY <1>1 DEF SearchInv, CompleteInv
<1>4. LoopInv'
  BY <1>1, LoopAfterPop
<1>5. found' \in {found, Append(found, c)} /\ expansions' \in Nat /\ expansions <= expansions'
  BY <1>1, <1>2 DEF Chains!Record
<1>6. (Chains!Full => Chains!Full') /\ (Chains!Spent => Chains!Spent') /\ \A p : Found(p) => Found(p)'
  BY <1>1, <1>2, <1>5, Grows DEF ChainInv
<1>7. FoundInv' /\ found' \in Seq(Chain)
  <2>1. CASE Chains!Top.has
    <3>1. (\A i \in 1 .. Len(found) : Way(found[i]) /\ Stops(found[i]))'
      BY <1>1, <2>1, Frozen, PathsFrozen DEF FoundInv
    <3> QED
      BY <1>1, <1>2, <2>1, <3>1 DEF FoundInv
  <2>2. CASE ~Chains!Top.has
    <3>1. \A e \in Chains!Callers(c[1].f) : e.caller \in On(c)
      BY <1>1, <1>2, <2>2 DEF SearchInv, LoopInv
    <3>2. \A e \in Chains!Calls(c[1].f) : e.caller \in On(c)
      BY <1>2, <3>1, CallsOfCallers
    <3> QED
      BY <1>1, <2>2, <3>2, RecordKeeps DEF Stops
  <2> QED
    BY <2>1, <2>2
<1>8. ASSUME ~Chains!Full, ~Chains!Spent, NEW p \in Chains!CallPaths, OnStack(p) PROVE Found(p)' \/ OnStack(p)'
  <2>1. CASE Pending(p, Chains!Top)
    <3>1. Suffix(c, p) /\ Len(c) = Len(p) /\ ~Chains!Top.has
      BY <1>1, <1>8, <2>1 DEF Pending
    <3> QED
      BY <1>1, <3>1, RecordFinds
  <2>2. CASE ~Pending(p, Chains!Top)
    BY <1>1, <1>8, <2>2, PopFinds
  <2> QED
    BY <2>1, <2>2
<1> QED
  BY <1>1, <1>3, <1>4, <1>6, <1>7, <1>8, PathsFrozen DEF CompleteInv

(* The first frame of a search, and the end of one.                        *)
LEMMA BeginKeeps == ASSUME SearchInv, Chains!Begin PROVE SearchInv'
<1> DEFINE c == <<Chains!Node(Target, 0)>>
           fr == Chains!Frame(c)
<1>1. /\ UNCHANGED <<search, graph, withRefs, expansions, found>> /\ begun' = TRUE /\ ~begun
      /\ search \in Searches /\ ChainInv /\ FoundInv /\ found = <<>> /\ stack = <<>> /\ visited = {}
  BY DEF Chains!Begin, SearchInv, ChainInv, ChainsTypeOK, StackInv, FoundInv
<1>2. Chains!Limit \in Chains!Limits
  BY <1>1, LimitIs DEF ChainInv
<1>3. found' = <<>> /\ Len(found') = 0 /\ FoundInv'
  BY <1>1 DEF FoundInv
<1>4. CASE ~Chains!Available
  <2>1. UNCHANGED <<stack, visited>> /\ ~Chains!Available'
    BY <1>1, <1>4, Frozen DEF Chains!Begin
  <2> QED
    BY <1>1, <1>3, <2>1 DEF SearchInv, ChainInv, ChainsTypeOK, StackInv, LoopInv, CompleteInv
<1>5. CASE Chains!Available
  <2>1. stack' = <<fr>> /\ visited' = {Target}
    BY <1>5 DEF Chains!Begin
  <2>2. /\ c \in Chain /\ Len(c) = 1 /\ c[1].f = Target /\ On(c) = {Target}
    <3>1. Chains!Node(Target, 0) \in NodeSet /\ Chains!Node(Target, 0).f = Target
      BY CallGraphs DEF Chains!Node, NodeSet, Chains!ChainsAssumption
    <3>2. c \in Chain /\ Len(c) = 1 /\ c[1].f = Target
      BY <3>1 DEF Chain
    <3> HIDE DEF c
    <3> QED
      BY <3>2 DEF On, Chain
  <2> HIDE DEF c
  <2>3. Way(c)
    BY <1>2, <2>2 DEF Way, Distinct, Chains!Limits, Chain
  <2>4. fr \in FrameSet /\ fr.chain = c /\ fr.new /\ ~fr.has /\ fr.todo = {}
    BY <2>2 DEF Chains!Frame, FrameSet
  <2> HIDE DEF fr
  <2>5. Good(fr)
    BY <2>3, <2>4 DEF Good
  <2>6. stack' \in Seq(FrameSet) /\ Len(stack') = 1 /\ stack'[1] = fr /\ stack' # <<>> /\ Chains!Top' = fr
    BY <2>1, <2>4 DEF Chains!Top
  <2>7. (\A k \in 1 .. Len(stack) : Good(stack[k]))'
    <3>1. \A k \in 1 .. Len(stack') : Good(stack'[k])
      BY <2>5, <2>6
    <3> QED
      BY <1>1, <3>1, Frozen
  <2>8. StackInv'
    <3>1. visited' = On(Chains!Top.chain)'
      BY <2>1, <2>2, <2>4, <2>6 DEF On
    <3> QED
      BY <1>1, <1>5, <2>2, <2>4, <2>6, <2>7, <3>1, Frozen DEF StackInv
  <2>9. ChainInv'
    BY <1>1, <2>6, <2>8 DEF ChainInv, ChainsTypeOK
  <2>10. LoopInv'
    BY <2>4, <2>6 DEF LoopInv
  <2>11. CompleteInv'
    <3>1. ASSUME NEW p \in Chains!CallPaths PROVE OnStack(p)'
      <4>1. Suffix(c, p)
        <5>1. Len(p) \in Nat \ {0} /\ p[Len(p)] = Target
          BY PathIs
        <5>2. \A i \in 1 .. Len(c) : i = 1 /\ Len(p) - Len(c) + i = Len(p)
          BY <2>2, <5>1
        <5> QED
          BY <2>2, <5>1, <5>2 DEF Suffix
      <4>2. Pending(p, stack'[1]) /\ 1 \in 1 .. Len(stack')
        BY <2>4, <2>6, <4>1 DEF Pending
      <4> QED
        BY <4>2 DEF OnStack, Pending, Suffix
    <3> QED
      BY <1>1, <3>1, PathsFrozen DEF CompleteInv
  <2> QED
    BY <1>3, <2>9, <2>10, <2>11 DEF SearchInv
<1> QED
  BY <1>4, <1>5

LEMMA IdleKeeps ==
    ASSUME ChainsTypeOK', begun' = FALSE, stack' = <<>>, visited' = {}, found' = <<>>
    PROVE  SearchInv'
BY DEF SearchInv, ChainInv, StackInv, FoundInv, LoopInv, CompleteInv

LEMMA NextSearch == ASSUME SearchInv, [Chains!Next]_chainVars PROVE SearchInv'
<1>0. ChainInv /\ ChainsTypeOK
  BY DEF SearchInv, ChainInv
<1>1. CASE Chains!Begin
  BY <1>1, BeginKeeps
<1>2. CASE Chains!Enter
  <2>1. StackInv' /\ stack' \in Seq(FrameSet)
    BY <1>0, <1>2, EnterKeeps
  <2>2. FoundInv' /\ LoopInv' /\ CompleteInv' /\ found' \in Seq(Chain)
    BY <1>2, EnterFinds
  <2>3. UNCHANGED <<search, graph, withRefs, begun, expansions>>
    BY <1>2 DEF Chains!Enter
  <2> QED
    BY <1>0, <2>1, <2>2, <2>3 DEF SearchInv, ChainInv, ChainsTypeOK
<1>3. ASSUME stack # <<>>, NEW e \in Chains!Top.todo, Chains!Expand(e) PROVE SearchInv'
  <2>1. StackInv' /\ stack' \in Seq(FrameSet)
    BY <1>0, <1>3, ExpandKeeps
  <2>2. FoundInv' /\ LoopInv' /\ CompleteInv' /\ expansions' \in Nat
    BY <1>3, ExpandFinds
  <2>3. UNCHANGED <<search, graph, withRefs, begun, found>>
    BY <1>3 DEF Chains!Expand
  <2> QED
    BY <1>0, <2>1, <2>2, <2>3 DEF SearchInv, ChainInv, ChainsTypeOK
<1>4. CASE Chains!Leave
  <2>1. StackInv' /\ stack' \in Seq(FrameSet)
    BY <1>0, <1>4, PopKeeps DEF Chains!Leave
  <2>2. FoundInv' /\ LoopInv' /\ CompleteInv' /\ found' \in Seq(Chain)
    BY <1>4, LeaveFinds
  <2>3. UNCHANGED <<search, graph, withRefs, begun, expansions>>
    BY <1>4 DEF Chains!Leave
  <2> QED
    BY <1>0, <2>1, <2>2, <2>3 DEF SearchInv, ChainInv, ChainsTypeOK
<1>5. CASE Chains!End
  <2>1. search \in Searches /\ graph \in Graphs
    BY <1>0, <1>5 DEF Chains!End, Chains!Searched, ChainInv, StackInv, ChainsTypeOK, Searches
  <2>2. \A s \in Searches : Chains!Then(s) \in Searches \cup {"done"}
    BY DEF Chains!Then, Searches
  <2>3. search' \in Searches \cup {"done"}
    <3>1. Chains!Then(search) \in Searches \cup {"done"}
      BY <2>1, <2>2
    <3>2. search \in {"sites", "refSites"} => Chains!Then(Chains!Then(search)) \in Searches \cup {"done"}
      BY DEF Chains!Then, Searches
    <3> QED
      BY <1>5, <3>1, <3>2 DEF Chains!End
  <2>4. begun' = FALSE /\ stack' = <<>> /\ visited' = {} /\ found' = <<>> /\ expansions' \in Nat
    BY <1>0, <1>5 DEF Chains!End, Chains!Searched, ChainsTypeOK
  <2>5. ChainsTypeOK'
    <3>0. <<>> \in Seq(Chain) /\ <<>> \in Seq(FrameSet)
      OBVIOUS
    <3>1. UNCHANGED <<graph, withRefs>> /\ found' \in Seq(Chain) /\ stack' \in Seq(FrameSet) /\ begun' \in BOOLEAN
      BY <1>5, <2>4, <3>0 DEF Chains!End
    <3> QED
      BY <1>0, <2>1, <2>3, <2>4, <3>1 DEF ChainsTypeOK
  <2> QED
    BY <2>4, <2>5, IdleKeeps
<1>6. ASSUME search = "idle", NEW g \in Graphs, NEW r \in BOOLEAN, Chains!GetCallChain(g, r) PROVE SearchInv'
  <2>1. ~begun /\ stack = <<>> /\ visited = {} /\ found = <<>>
    BY <1>6 DEF SearchInv, ChainInv, StackInv, FoundInv, Searches
  <2>2. ChainsTypeOK' /\ begun' = FALSE /\ stack' = <<>> /\ visited' = {} /\ found' = <<>>
    BY <1>0, <1>6, <2>1 DEF Chains!GetCallChain, ChainsTypeOK, Searches
  <2> QED
    BY <2>2, IdleKeeps
<1>7. CASE Chains!Next
  <2>1. ASSUME search = "idle", \E g \in Graphs, r \in BOOLEAN : Chains!GetCallChain(g, r) PROVE SearchInv'
    BY <1>6, <2>1
  <2>2. ASSUME stack # <<>>, \E e \in Chains!Top.todo : Chains!Expand(e) PROVE SearchInv'
    BY <1>3, <2>2
  <2> QED
    BY <1>1, <1>2, <1>4, <1>5, <1>7, <2>1, <2>2 DEF Chains!Next
<1>8. CASE UNCHANGED chainVars
  <2>1. UNCHANGED <<search, graph, withRefs, begun, stack, visited, expansions, found>>
    BY <1>8 DEF chainVars
  <2>2. ChainsTypeOK'
    BY <1>0, <2>1 DEF ChainsTypeOK
  <2>3. (\A k \in 1 .. Len(stack) : Good(stack[k]))'
    BY <1>0, <2>1, Frozen DEF ChainInv, StackInv
  <2>4. StackInv'
    BY <1>0, <2>1, <2>3, Frozen DEF ChainInv, StackInv, Chains!Top, On, Above
  <2>5. (\A i \in 1 .. Len(found) : Way(found[i]) /\ Stops(found[i]))'
    BY <2>1, Frozen, PathsFrozen DEF SearchInv, FoundInv
  <2>6. FoundInv'
    BY <2>1, <2>5 DEF SearchInv, FoundInv
  <2>7. Chains!Full' = Chains!Full /\ Chains!Spent' = Chains!Spent /\ Chains!Top' = Chains!Top /\ (\A p : Found(p)' = Found(p) /\ OnStack(p)' = OnStack(p))
    BY <2>1, Frozen DEF Chains!Full, Chains!Spent, Chains!Top, Found, OnStack, Pending, Suffix
  <2>8. LoopInv'
    BY <2>1, <2>7, Frozen DEF SearchInv, LoopInv
  <2>9. CompleteInv'
    BY <2>1, <2>7, Frozen, PathsFrozen DEF SearchInv, CompleteInv
  <2> QED
    BY <2>2, <2>4, <2>6, <2>8, <2>9 DEF SearchInv, ChainInv
<1> QED
  BY <1>7, <1>8

(* A chain that was found is one of the paths, and a chain that was found  *)
(* when no limit was reached is returned.                                  *)
LEMMA FoundIsPath ==
    ASSUME SearchInv, search \in Searches, NEW i \in 1 .. Len(found), Chains!IsEntry(found[i])
    PROVE  Chains!Names(found[i]) \in Chains!CallPaths
<1> DEFINE c == found[i]
           p == Chains!Names(c)
           n == Len(c)
<1>1. c \in Seq(NodeSet) /\ c # <<>> /\ n \in Nat \ {0} /\ Head(c) = c[1] /\ Way(c) /\ Stops(c) /\ Chains!Limit \in Chains!Limits
  BY LimitIs DEF SearchInv, ChainInv, ChainsTypeOK, FoundInv, Chain
<1>2. p \in [1 .. n -> Func] /\ \A k \in 1 .. n : p[k] = c[k].f
  <2>1. \A k \in 1 .. n : c[k].f \in Func
    <3> TAKE k \in 1 .. n
    <3>1. c[k] \in NodeSet
      BY <1>1
    <3> QED
      BY <3>1 DEF NodeSet
  <2> QED
    BY <2>1 DEF Chains!Names
<1> HIDE DEF p
<1>3. p \in Seq(Func) /\ Len(p) = n /\ DOMAIN p = 1 .. n
  <2>1. p \in Seq(Func)
    BY <1>1, <1>2, SeqDef
  <2> QED
    BY <1>1, <1>2, <2>1
<1>4. \A k, m \in 1 .. n : p[k] = p[m] => k = m
  BY <1>1, <1>2 DEF Way, Distinct
<1>5. n \in 1 .. Cardinality(Func)
  <2>1. p \in Injection(1 .. n, Func)
    BY <1>2, <1>4 DEF Injection, IsInjective
  <2>2. IsFiniteSet(Func)
    BY CallGraphs, SameCounting DEF Chains!ChainsAssumption
  <2>3. Cardinality(1 .. n) <= Cardinality(Func) /\ Cardinality(Func) \in Nat
    <3>1. Cardinality(Func) \in Nat
      BY <2>2, FS_CardinalityType
    <3>2. Cardinality(1 .. n) <= Cardinality(Func)
      BY <2>1, <2>2, FS_Injection
    <3> QED
      BY <3>1, <3>2
  <2>4. Cardinality(1 .. n) = n
    BY <1>1, FS_Interval
  <2> QED
    BY <1>1, <2>3, <2>4
<1>6. p[1] \in Entry /\ Len(p) <= Chains!Limit.depth /\ Chains!Injective(p)
  BY <1>1, <1>2, <1>3, <1>4 DEF Chains!IsEntry, Chains!Injective, Way
<1>7. Chains!Leads(p)
  <2>1. p[Len(p)] = Target
    BY <1>1, <1>2, <1>3 DEF Way
  <2>2. ASSUME NEW k \in 1 .. Len(p) - 1 PROVE \E e \in Chains!Calls(p[k + 1]) : e.caller = p[k]
    <3>1. \E e \in Chains!Calls(c[k + 1].f) : e.caller = c[k].f
      BY <1>1, <1>3 DEF Way
    <3>2. p[k + 1] = c[k + 1].f /\ p[k] = c[k].f
      BY <1>1, <1>2, <1>3
    <3> QED
      BY <3>1, <3>2
  <2> QED
    BY <2>1, <2>2 DEF Chains!Leads
<1>8. Chains!Ends(p)
  <2>1. p[1] = c[1].f
    BY <1>1, <1>2
  <2>2. ASSUME NEW x \in On(c) PROVE \E k \in DOMAIN p : p[k] = x
    BY <1>1, <1>2, <1>3 DEF On
  <2>3. CASE n = Chains!Limit.depth
    BY <1>3, <2>3 DEF Chains!Ends
  <2>4. CASE n # Chains!Limit.depth
    <3>1. \A e \in Chains!Calls(p[1]) : e.caller \in On(c)
      BY <1>1, <2>1, <2>4 DEF Stops
    <3> QED
      BY <2>2, <3>1 DEF Chains!Ends
  <2> QED
    BY <2>3, <2>4
<1>9. p \in UNION {[1 .. m -> Func] : m \in 1 .. Cardinality(Func)}
  BY <1>2, <1>5
<1>10. p \in Chains!CallPaths
  BY <1>6, <1>7, <1>8, <1>9, SameCounting DEF Chains!CallPaths
<1> QED
  BY <1>10 DEF p

LEMMA FoundIsReturned ==
    ASSUME SearchInv, search \in Searches, ~Chains!Full, NEW i \in 1 .. Len(found), Chains!IsEntry(found[i])
    PROVE  found[i] \in Chains!Chains
<1> DEFINE Same == {j \in 1 .. Len(found) : found[j] = found[i]}
<1>0. found \in Seq(Chain) /\ Len(found) \in Nat /\ DOMAIN found = 1 .. Len(found) /\ Chains!Limit \in Chains!Limits
  BY LimitIs DEF SearchInv, ChainInv, ChainsTypeOK
<1>1. Same \in SUBSET Nat /\ i \in Same
  OBVIOUS
<1>2. PICK j \in Same : \A m \in Same : j <= m
  BY <1>1, LeastOf
<1>3. j \in Chains!Firsts
  <2>1. \A m \in 1 .. j - 1 : found[m] # found[j]
    BY <1>0, <1>2
  <2> QED
    BY <1>0, <1>2, <2>1 DEF Chains!Firsts
<1>4. Cardinality({m \in Chains!Firsts : m < j}) < Chains!Limit.chains
  <2> DEFINE Earlier == {m \in Chains!Firsts : m < j}
  <2>1. j \in Nat \ {0} /\ Earlier \subseteq 1 .. j - 1
    BY <1>0 DEF Chains!Firsts
  <2>2. IsFiniteSet(1 .. j - 1) /\ Cardinality(1 .. j - 1) = j - 1
    <3>1. \A k \in Nat \ {0} : IsFiniteSet(1 .. k - 1) /\ Cardinality(1 .. k - 1) = k - 1
      <4> TAKE k \in Nat \ {0}
      <4> DEFINE m == k - 1
      <4>1. m \in Int /\ 1 \in Int /\ (IF 1 > m THEN 0 ELSE m - 1 + 1) = m
        OBVIOUS
      <4> HIDE DEF m
      <4>2. IsFiniteSet(1 .. m) /\ Cardinality(1 .. m) = m
        BY <4>1, FS_Interval
      <4> QED
        BY <4>2 DEF m
    <3> QED
      BY <2>1, <3>1
  <2>3. Cardinality(Earlier) \in Nat /\ Cardinality(Earlier) <= j - 1
    BY <2>1, <2>2, FS_Subset, FS_CardinalityType
  <2>4. j - 1 < Chains!Limit.chains
    BY <1>0 DEF Chains!Full, Chains!Limits
  <2> QED
    BY <1>0, <2>1, <2>3, <2>4 DEF Chains!Limits
<1>5. found[j] \in Chains!Chains
  BY <1>3, <1>4, SameCounting DEF Chains!Chains
<1> QED
  BY <1>2, <1>5

LEMMA SearchFinds == SearchInv => ChainsAreFound
<1> SUFFICES ASSUME SearchInv, Chains!Searched, Chains!Available PROVE
        LET names == {Chains!Names(c) : c \in Chains!Chains}
        IN  names \subseteq Chains!CallPaths /\ (~Chains!Full /\ ~Chains!Spent => Chains!CallPaths \subseteq names)
    BY DEF ChainsAreFound, Chains!ChainsAreFound
<1>1. search \in Searches /\ stack = <<>> /\ begun /\ found \in Seq(Chain) /\ DOMAIN found = 1 .. Len(found)
  BY DEF SearchInv, ChainInv, StackInv, Chains!Searched, ChainsTypeOK
<1>2. ASSUME NEW c \in Chains!Chains PROVE Chains!Names(c) \in Chains!CallPaths
  <2>1. PICK i \in 1 .. Len(found) : c = found[i] /\ Chains!IsEntry(found[i])
    BY <1>1 DEF Chains!Chains, Chains!Firsts
  <2> QED
    BY <1>1, <2>1, FoundIsPath
<1>3. ASSUME ~Chains!Full, ~Chains!Spent, NEW p \in Chains!CallPaths PROVE \E c \in Chains!Chains : p = Chains!Names(c)
  <2>1. Found(p)
    <3>1. ~OnStack(p)
      BY <1>1 DEF OnStack
    <3> QED
      BY <1>1, <1>3, <3>1 DEF SearchInv, CompleteInv
  <2>2. PICK i \in 1 .. Len(found) : Suffix(found[i], p) /\ Len(found[i]) = Len(p)
    BY <2>1 DEF Found
  <2>3. found[i] \in Chain
    BY <1>1
  <2>4. p \in Seq(Func) /\ p = [k \in 1 .. Len(p) |-> p[k]] /\ p[1] \in Entry
    BY PathIs
  <2>5. /\ Len(p) \in Nat \ {0} /\ found[i][1].f = p[1]
        /\ \A k \in 1 .. Len(found[i]) : found[i][k].f = p[k]
    <3>1. /\ Len(p) \in Nat \ {0}
          /\ \A k \in 1 .. Len(found[i]) : found[i][k].f = p[(Len(p) - Len(found[i])) + k]
      BY <2>2, <2>3, SuffixAt
    <3>2. \A k \in 1 .. Len(found[i]) : (Len(p) - Len(found[i])) + k = k
      BY <2>2, <3>1
    <3> QED
      BY <2>2, <3>1, <3>2
  <2>6. p = Chains!Names(found[i])
    BY <2>2, <2>4, <2>5 DEF Chains!Names
  <2>7. Chains!IsEntry(found[i])
    BY <2>3, <2>4, <2>5 DEF Chains!IsEntry, Chain
  <2> QED
    BY <1>1, <1>3, <2>6, <2>7, FoundIsReturned
<1> QED
  BY <1>2, <1>3

(* ChainsAreFound: what a search returns are call chains of the program,   *)
(* from an entry point to the target, and unless it reached a limit it     *)
(* returns all of them, in every call graph and for all limits.            *)
THEOREM ChainSearchIsRight == Chains!Spec => []ChainsAreFound
<1>1. Chains!Init => SearchInv
  <2> SUFFICES ASSUME Chains!Init PROVE SearchInv
    OBVIOUS
  <2>0. <<>> \in Seq(Chain) /\ <<>> \in Seq(FrameSet)
    OBVIOUS
  <2>1. ChainsTypeOK
    BY <2>0 DEF Chains!Init, ChainsTypeOK
  <2> QED
    BY <2>1 DEF Chains!Init, SearchInv, ChainInv, StackInv, FoundInv, LoopInv, CompleteInv
<1> QED
  BY <1>1, NextSearch, SearchFinds, PTL DEF Chains!Spec, Chains!chainVars, chainVars

----------------------------------------------------------------------------
(***************************************************************************)
(* TextMutation: ids in mut/queue.  While a plan is carried out either the *)
(* ids are dense and the next one is new, or an id is missing that no file *)
(* of this plan can take, or two files share one.                          *)
(***************************************************************************)
OwnIds == \A f, g \in mutQueue : f.own = TRUE /\ g.own = TRUE /\ f.id = g.id => f = g
Hole == \E j \in Nat : j < nextId /\ j < Cardinality(mutQueue) /\ \A f \in mutQueue : f.id # j
Shared == \E f, g \in mutQueue : f # g /\ f.id = g.id
Counted == Dense /\ nextId = Cardinality(mutQueue)
IdsInv ==
    /\ IsFiniteSet(mutQueue) /\ nextId \in Nat /\ OwnIds
    /\ pending # {} => Counted \/ Hole \/ Shared

(* A set of files has at most as many ids as files.                        *)
LEMMA Ids ==
    ASSUME NEW S, IsFiniteSet(S)
    PROVE  LET T == {f.id : f \in S} IN IsFiniteSet(T) /\ Cardinality(T) <= Cardinality(S)
<1> DEFINE T == {f.id : f \in S}
           of == [f \in S |-> f.id]
<1>1. of \in Surjection(S, T)
  BY DEF Surjection
<1> QED
  BY <1>1, FS_Surjection

(* Missing and shared ids are what keeps the ids from being dense.         *)
LEMMA Gaps ==
    ASSUME IsFiniteSet(mutQueue)
    PROVE  /\ Hole \/ Shared => ~Dense
           /\ Dense \/ Shared \/ \E j \in Nat : j < Cardinality(mutQueue) /\ \A f \in mutQueue : f.id # j
<1> DEFINE n == Cardinality(mutQueue)
           ids == {f.id : f \in mutQueue}
<1>1. n \in Nat
  BY FS_CardinalityType
<1>2. IsFiniteSet(0 .. n - 1) /\ Cardinality(0 .. n - 1) = n
  BY <1>1, FS_Interval
<1>3. ~(Hole /\ Dense)
  BY <1>1 DEF Hole, Dense
<1>4. ASSUME Shared PROVE ~Dense
  <2>1. PICK f \in mutQueue, g \in mutQueue : f # g /\ f.id = g.id
    BY <1>4 DEF Shared
  <2> DEFINE S == mutQueue \ {g}
  <2>2. IsFiniteSet(S) /\ Cardinality(S) = n - 1
    BY FS_RemoveElement
  <2>3. ids = {h.id : h \in S}
    BY <2>1
  <2>4. Cardinality(ids) <= n - 1
    BY <2>2, <2>3, Ids
  <2>5. Dense => Cardinality(ids) = n
    BY <1>2 DEF Dense
  <2> QED
    BY <1>1, <2>4, <2>5
<1>5. ASSUME \A j \in Nat : j < n => \E f \in mutQueue : f.id = j PROVE Dense
  <2>1. 0 .. n - 1 \subseteq ids
    BY <1>1, <1>5
  <2>2. IsFiniteSet(ids) /\ Cardinality(ids) <= n
    BY Ids
  <2> HIDE DEF ids
  <2>3. n <= Cardinality(ids) /\ Cardinality(ids) \in Nat
    BY <1>2, <2>1, <2>2, FS_Subset, FS_CardinalityType
  <2>4. Cardinality(ids) = n
    BY <1>1, <2>2, <2>3
  <2>5. ids = 0 .. n - 1
    BY <1>2, <2>1, <2>2, <2>4, FS_Subset
  <2> QED
    BY <2>5 DEF Dense, ids
<1> QED
  BY <1>3, <1>4, <1>5

(* What the file of a combination replaces.                                *)
LEMMA Written ==
    ASSUME IdsInv, pending # {}, NEW t,
           mutQueue' = {f \in mutQueue : <<f.id, f.own>> # <<nextId, TRUE>>}
                         \cup {[id |-> nextId, own |-> TRUE, text |-> t]},
           nextId' = nextId + 1
    PROVE  /\ (\A f \in mutQueue : f \in mutQueue') \/ ~Dense
           /\ IsFiniteSet(mutQueue') /\ nextId' \in Nat /\ OwnIds'
           /\ (Counted \/ Hole \/ Shared)'
<1> DEFINE new == [id |-> nextId, own |-> TRUE, text |-> t]
           kept == {f \in mutQueue : <<f.id, f.own>> # <<nextId, TRUE>>}
           gone == {f \in mutQueue : f.id = nextId /\ f.own = TRUE}
           n == Cardinality(mutQueue)
<1>1. /\ mutQueue' = kept \cup {new} /\ kept = mutQueue \ gone /\ new \notin kept
      /\ new.id = nextId /\ new.own = TRUE
  BY Zenon
<1>0. \A f : /\ f \in kept <=> f \in mutQueue /\ ~(f.id = nextId /\ f.own = TRUE)
             /\ f \in gone <=> f \in mutQueue /\ f.id = nextId /\ f.own = TRUE
  OBVIOUS
<1> HIDE DEF new, kept, gone
<1>2. IsFiniteSet(kept) /\ IsFiniteSet(mutQueue') /\ Cardinality(mutQueue') = Cardinality(kept) + 1
  <2>1. kept \subseteq mutQueue
    BY <1>1
  <2>2. IsFiniteSet(kept)
    BY <2>1, FS_Subset DEF IdsInv
  <2>3. IsFiniteSet(kept \cup {new}) /\ Cardinality(kept \cup {new}) = Cardinality(kept) + 1
    BY <1>1, <2>2, FS_AddElement
  <2> QED
    BY <1>1, <2>2, <2>3, Zenon
<1>3. n \in Nat /\ Cardinality(kept) \in Nat /\ nextId \in Nat
  BY <1>2, FS_CardinalityType DEF IdsInv
<1>4. OwnIds'
  <2>1. \A f, g \in kept : f.own = TRUE /\ g.own = TRUE /\ f.id = g.id => f = g
    BY <1>0 DEF OwnIds, IdsInv
  <2>2. \A f \in kept : ~(f.own = TRUE /\ f.id = new.id)
    BY <1>0, <1>1
  <2> QED
    BY <1>1, <2>1, <2>2 DEF OwnIds
<1>5. Cardinality(mutQueue') >= n
  <2>1. CASE gone = {}
    <3>1. kept = mutQueue
      BY <1>1, <2>1
    <3> QED
      BY <1>2, <1>3, <3>1
  <2>2. CASE gone # {}
    <3>1. PICK f \in mutQueue : gone = {f}
      BY <1>0, <2>2 DEF OwnIds, IdsInv
    <3>2. Cardinality(kept) = n - 1
      BY <1>1, <3>1, FS_RemoveElement DEF IdsInv
    <3> QED
      BY <1>2, <1>3, <3>2
  <2> QED
    BY <2>1, <2>2
<1>6. ASSUME Counted
      PROVE  ((\A f \in mutQueue : f \in mutQueue') \/ ~Dense) /\ (Counted' \/ Hole' \/ Shared')
  <2>1. \A f \in mutQueue : f.id \in 0 .. n - 1
    BY <1>6 DEF Counted, Dense
  <2>2. gone = {}
    BY <1>0, <1>3, <1>6, <2>1 DEF Counted
  <2>3. kept = mutQueue
    BY <1>1, <2>2
  <2>4. Cardinality(mutQueue') = n + 1
    BY <1>2, <2>3
  <2>5. {f.id : f \in mutQueue'} = {f.id : f \in mutQueue} \cup {nextId}
    BY <1>1, <2>3
  <2>7. (0 .. n - 1) \cup {nextId} = 0 .. (n + 1) - 1
    BY <1>3, <1>6 DEF Counted
  <2>6. Counted'
    BY <1>6, <2>4, <2>5, <2>7 DEF Counted, Dense
  <2> QED
    BY <1>1, <2>3, <2>6
<1>7. ASSUME Hole
      PROVE  ((\A f \in mutQueue : f \in mutQueue') \/ ~Dense) /\ (Counted' \/ Hole' \/ Shared')
  <2>1. PICK j \in Nat : j < nextId /\ j < n /\ \A f \in mutQueue : f.id # j
    BY <1>7 DEF Hole
  <2>6. new.id # j /\ \A f \in kept : f.id # j
    BY <1>0, <1>1, <1>3, <2>1
  <2>2. \A f \in mutQueue' : f.id # j
    BY <1>1, <2>6
  <2>3. j < nextId' /\ j < Cardinality(mutQueue')
    BY <1>2, <1>3, <1>5, <2>1
  <2>4. Hole'
    BY <2>2, <2>3 DEF Hole
  <2>5. ~Dense
    BY <1>7, Gaps DEF IdsInv
  <2> QED
    BY <2>4, <2>5, Zenon
<1>8. ASSUME Shared
      PROVE  ((\A f \in mutQueue : f \in mutQueue') \/ ~Dense) /\ (Counted' \/ Hole' \/ Shared')
  <2>1. PICK f \in mutQueue, g \in mutQueue : f # g /\ f.id = g.id
    BY <1>8 DEF Shared
  <2>2. ~(f.own = TRUE) \/ ~(g.own = TRUE)
    BY <2>1 DEF IdsInv, OwnIds
  <2>3. Shared'
    <3>1. CASE ~(f.own = TRUE) /\ ~(g.own = TRUE)
      BY <1>0, <1>1, <2>1, <3>1 DEF Shared
    <3>2. CASE f.own = TRUE /\ ~(g.own = TRUE)
      BY <1>0, <1>1, <2>1, <3>2 DEF Shared
    <3>3. CASE ~(f.own = TRUE) /\ g.own = TRUE
      BY <1>0, <1>1, <2>1, <3>3 DEF Shared
    <3> QED
      BY <2>2, <3>1, <3>2, <3>3
  <2>4. ~Dense
    BY <1>8, Gaps DEF IdsInv
  <2> QED
    BY <2>3, <2>4, Zenon
<1>9. nextId' \in Nat
  BY <1>3
<1> QED
  BY <1>2, <1>4, <1>6, <1>7, <1>8, <1>9, Zenon DEF IdsInv

LEMMA NextIds ==
    ASSUME IdsInv, [Next]_planVars
    PROVE  /\ IdsInv'
           /\ (\A f \in mutQueue : f \in mutQueue') \/ Removal \/ ~Dense
<1>1. ASSUME UNCHANGED <<mutQueue, nextId>>, pending' # {} => pending # {}
      PROVE  IdsInv' /\ \A f \in mutQueue : f \in mutQueue'
  BY <1>1 DEF IdsInv, OwnIds, Counted, Dense, Hole, Shared
<1>2. ASSUME NEW p \in setting.plans, Begin(p) PROVE IdsInv' /\ \A f \in mutQueue : f \in mutQueue'
  <2>1. mutQueue' = mutQueue /\ nextId' = Cardinality(mutQueue)
    BY <1>2 DEF Begin, FirstId
  <2>2. IsFiniteSet(mutQueue) /\ OwnIds
    BY DEF IdsInv
  <2>3. nextId' \in Nat
    BY <2>1, <2>2, FS_CardinalityType
  <2>4. (Counted \/ Hole \/ Shared)'
    <3>1. CASE Dense \/ Shared
      BY <2>1, <3>1 DEF Counted, Dense, Shared
    <3>2. CASE ~Dense /\ ~Shared
      <4>1. \E j \in Nat : j < Cardinality(mutQueue) /\ \A f \in mutQueue : f.id # j
        BY <2>2, <3>2, Gaps
      <4> QED
        BY <2>1, <4>1 DEF Hole
    <3> QED
      BY <3>1, <3>2
  <2> QED
    BY <2>1, <2>2, <2>3, <2>4 DEF IdsInv, OwnIds
<1>3. ASSUME NEW C \in pending, Try(C)
      PROVE  IdsInv' /\ ((\A f \in mutQueue : f \in mutQueue') \/ ~Dense)
  <2>1. CASE Wanted(Applied(C))
    <3>1. \E t : /\ mutQueue' = {f \in mutQueue : <<f.id, f.own>> # <<nextId, TRUE>>}
                                  \cup {[id |-> nextId, own |-> TRUE, text |-> t]}
                 /\ nextId' = nextId + 1
      BY <1>3, <2>1 DEF Try
    <3> QED
      BY <1>3, <3>1, Written DEF IdsInv
  <2>2. CASE ~Wanted(Applied(C))
    BY <1>1, <1>3, <2>2 DEF Try
  <2> QED
    BY <2>1, <2>2
<1>4. CASE Stop
  BY <1>1, <1>4 DEF Stop
<1>5. CASE ArtifactArrives
  <2>1. pending' = {} /\ nextId' = nextId
    BY <1>5 DEF ArtifactArrives, Idle
  <2>2. PICK i : mutQueue' = mutQueue \cup {[id |-> i, own |-> FALSE, text |-> Text]}
    BY <1>5 DEF ArtifactArrives
  <2>3. IsFiniteSet(mutQueue')
    BY <2>2, FS_AddElement DEF IdsInv
  <2>4. OwnIds'
    BY <2>2 DEF IdsInv, OwnIds
  <2> QED
    BY <2>1, <2>2, <2>3, <2>4 DEF IdsInv
<1>6. CASE GateTakes
  <2>1. PICK f \in mutQueue : mutQueue' = mutQueue \ {f}
    BY <1>6 DEF GateTakes
  <2>2. pending' = {} /\ nextId' = nextId
    BY <1>6 DEF GateTakes, Idle
  <2>3. IsFiniteSet(mutQueue') /\ Cardinality(mutQueue') = Cardinality(mutQueue) - 1
    BY <2>1, FS_RemoveElement DEF IdsInv
  <2>4. Removal
    BY <2>3, FS_CardinalityType DEF Removal, IdsInv
  <2>5. OwnIds'
    BY <2>1 DEF IdsInv, OwnIds
  <2> QED
    BY <2>2, <2>3, <2>4, <2>5 DEF IdsInv
<1>7. CASE UNCHANGED planVars
  BY <1>1, <1>7 DEF planVars
<1> QED
  BY <1>2, <1>3, <1>4, <1>5, <1>6, <1>7 DEF Next, TryNext

(* OverwriteNeedsGap: while the ids in mut/queue are dense, no plan        *)
(* overwrites a file of the queue, whatever plans, leftovers and limits.   *)
THEOREM OverwritesNeedGaps == Spec => OverwriteNeedsGap
<1>1. Init => IdsInv
  BY FS_EmptySet DEF Init, IdsInv, OwnIds
<1> QED
  BY <1>1, NextIds, PTL DEF Spec, OverwriteNeedsGap

----------------------------------------------------------------------------
(***************************************************************************)
(* TextMutation: what the edits of a combination make.                     *)
(***************************************************************************)

(* Induction over the naturals, for a set of them.                         *)
LEMMA AllOf ==
    ASSUME NEW T, 0 \in T, \A n \in Nat : n \in T => n + 1 \in T
    PROVE  \A n \in Nat : n \in T
<1>. SUFFICES ASSUME Nat \ T # {} PROVE FALSE
  OBVIOUS
<1>1. PICK m \in Nat \ T : \A n \in Nat \ T : m <= n
  BY LeastOf
<1>2. m # 0 /\ m \in Nat
  OBVIOUS
<1>3. m - 1 \in Nat /\ (m - 1) + 1 = m /\ ~(m <= m - 1)
  BY <1>2
<1>4. m - 1 \in T
  BY <1>1, <1>3
<1>. QED
  BY <1>3, <1>4

(***************************************************************************)
(* Sorting.  A finite set with a transitive and total order has a last     *)
(* element, and so can be listed in order.                                 *)
(***************************************************************************)
Orders(R, U) ==
    /\ \A x, y, z \in U : <<x, y>> \in R /\ <<y, z>> \in R => <<x, z>> \in R
    /\ \A x, y \in U : x # y => <<x, y>> \in R \/ <<y, x>> \in R
LastIn(R, S, x) == x \in S /\ \A y \in S : y # x => <<y, x>> \in R
ListsInOrder(R, S, s) ==
    /\ s \in Bijection(1 .. Cardinality(S), S)
    /\ \A m, n \in 1 .. Cardinality(S) : m < n => <<s[m], s[n]>> \in R

LEMMA Without ==
    ASSUME NEW S, IsFiniteSet(S), NEW n \in Nat, Cardinality(S) = n + 1, NEW x \in S
    PROVE  IsFiniteSet(S \ {x}) /\ Cardinality(S \ {x}) = n
<1>1. IsFiniteSet(S \ {x}) /\ Cardinality(S \ {x}) = Cardinality(S) - 1
  BY FS_RemoveElement
<1> QED
  BY <1>1

LEMMA SomeElement ==
    ASSUME NEW S, IsFiniteSet(S), NEW n \in Nat, Cardinality(S) = n + 1
    PROVE  S # {}
  BY FS_EmptySet

LEMMA LastExists ==
    ASSUME NEW U, NEW R, Orders(R, U), NEW S \in SUBSET U, IsFiniteSet(S), S # {}
    PROVE  \E x : LastIn(R, S, x)
<1> DEFINE T == {n \in Nat : \A A \in SUBSET U :
                    IsFiniteSet(A) /\ Cardinality(A) = n /\ A # {} => \E x : LastIn(R, A, x)}
<1>1. 0 \in T
  BY FS_EmptySet
<1>2. ASSUME NEW n \in Nat, n \in T PROVE n + 1 \in T
  <2>1. ASSUME NEW A \in SUBSET U, IsFiniteSet(A), Cardinality(A) = n + 1, A # {}
        PROVE  \E x : LastIn(R, A, x)
    <3>1. PICK y \in A : TRUE
      BY <2>1
    <3>2. IsFiniteSet(A \ {y}) /\ Cardinality(A \ {y}) = n
      BY <2>1, Without
    <3>3. CASE A \ {y} = {}
      BY <3>1, <3>3 DEF LastIn
    <3>4. CASE A \ {y} # {}
      <4>1. PICK x : LastIn(R, A \ {y}, x)
        BY <1>2, <3>2, <3>4
      <4>2. x \in U /\ y \in U /\ x # y /\ x \in A
        BY <4>1 DEF LastIn
      <4>3. CASE <<y, x>> \in R
        BY <4>1, <4>2, <4>3 DEF LastIn
      <4>4. CASE <<x, y>> \in R
        <5>1. ASSUME NEW z \in A, z # y PROVE <<z, y>> \in R
          BY <4>1, <4>2, <4>4, <5>1 DEF LastIn, Orders
        <5> QED
          BY <5>1 DEF LastIn
      <4> QED
        BY <4>2, <4>3, <4>4 DEF Orders
    <3> QED
      BY <3>3, <3>4
  <2> QED
    BY <2>1
<1> HIDE DEF T
<1>3. \A n \in Nat : n \in T
  BY <1>1, <1>2, AllOf
<1>4. Cardinality(S) \in T
  BY <1>3, FS_CardinalityType
<1> QED
  BY <1>4 DEF T

LEMMA OneMore ==
    ASSUME NEW S, IsFiniteSet(S), NEW R, NEW n \in Nat, Cardinality(S) = n + 1, NEW x, LastIn(R, S, x),
           NEW s, ListsInOrder(R, S \ {x}, s)
    PROVE  \E t : ListsInOrder(R, S, t)
<1> DEFINE t == [i \in 1 .. n + 1 |-> IF i = n + 1 THEN x ELSE s[i]]
<1>0. x \in S
  BY DEF LastIn
<1>1. IsFiniteSet(S \ {x}) /\ Cardinality(S \ {x}) = n
  BY <1>0, Without
<1>2. /\ s \in [1 .. n -> S \ {x}]
      /\ \A i, j \in 1 .. n : s[i] = s[j] => i = j
      /\ \A y \in S \ {x} : \E i \in 1 .. n : s[i] = y
      /\ \A i, j \in 1 .. n : i < j => <<s[i], s[j]>> \in R
  BY <1>1 DEF ListsInOrder, Bijection, Injection, Surjection, IsInjective
<1>3. t \in [1 .. n + 1 -> S]
  BY <1>0, <1>2
<1>4. \A i, j \in 1 .. n + 1 : t[i] = t[j] => i = j
  BY <1>2
<1>5. \A y \in S : \E i \in 1 .. n + 1 : t[i] = y
  <2>1. ASSUME NEW y \in S, y # x PROVE \E i \in 1 .. n + 1 : t[i] = y
    <3>1. PICK i \in 1 .. n : s[i] = y
      BY <1>2, <2>1
    <3> QED
      BY <3>1
  <2> QED
    BY <2>1
<1>6. \A i, j \in 1 .. n + 1 : i < j => <<t[i], t[j]>> \in R
  <2> TAKE i \in 1 .. n + 1, j \in 1 .. n + 1
  <2> HAVE i < j
  <2>1. i \in 1 .. n /\ t[i] = s[i] /\ s[i] \in S /\ s[i] # x
    BY <1>2
  <2>2. CASE j = n + 1
    BY <2>1, <2>2 DEF LastIn
  <2>3. CASE j # n + 1
    BY <1>2, <2>1, <2>3
  <2> QED
    BY <2>2, <2>3
<1> HIDE DEF t
<1> QED
  BY <1>3, <1>4, <1>5, <1>6 DEF ListsInOrder, Bijection, Injection, Surjection, IsInjective

LEMMA SortedExists ==
    ASSUME NEW U, NEW R, Orders(R, U), NEW S \in SUBSET U, IsFiniteSet(S)
    PROVE  \E s : ListsInOrder(R, S, s)
<1> DEFINE T == {n \in Nat : \A A \in SUBSET U :
                    IsFiniteSet(A) /\ Cardinality(A) = n => \E s : ListsInOrder(R, A, s)}
<1>1. 0 \in T
  <2>1. ASSUME NEW A \in SUBSET U, IsFiniteSet(A), Cardinality(A) = 0 PROVE \E s : ListsInOrder(R, A, s)
    <3>1. A = {} /\ 1 .. Cardinality(A) = {}
      BY <2>1, FS_EmptySet
    <3>2. ListsInOrder(R, A, [i \in {} |-> i])
      BY <3>1 DEF ListsInOrder, Bijection, Injection, Surjection, IsInjective
    <3> QED
      BY <3>2
  <2> QED
    BY <2>1
<1>2. ASSUME NEW n \in Nat, n \in T PROVE n + 1 \in T
  <2>1. ASSUME NEW A \in SUBSET U, IsFiniteSet(A), Cardinality(A) = n + 1
        PROVE  \E s : ListsInOrder(R, A, s)
    <3>1. A # {}
      BY <2>1, SomeElement
    <3>2. PICK x : LastIn(R, A, x)
      BY <2>1, <3>1, LastExists
    <3>3. IsFiniteSet(A \ {x}) /\ Cardinality(A \ {x}) = n
      BY <2>1, <3>2, Without DEF LastIn
    <3>4. PICK s : ListsInOrder(R, A \ {x}, s)
      BY <1>2, <3>3
    <3> QED
      BY <2>1, <3>2, <3>4, OneMore
  <2> QED
    BY <2>1
<1> HIDE DEF T
<1>3. \A n \in Nat : n \in T
  BY <1>1, <1>2, AllOf
<1>4. Cardinality(S) \in T
  BY <1>3, FS_CardinalityType
<1> QED
  BY <1>4 DEF T

----------------------------------------------------------------------------
(***************************************************************************)
(* A plan that was resolved: its edits are numbered from one and have      *)
(* integer spans.                                                          *)
(***************************************************************************)
PlanIsResolved ==
    /\ \E n \in Nat : DOMAIN plan = 1 .. n
    /\ \A i \in DOMAIN plan : plan[i].start \in Int /\ plan[i].end \in Int /\ plan[i].letter \in Nat

LEMMA OnlyOf == ASSUME NEW S, S # {} PROVE Only(S) \in S
  BY DEF Only

LEMMA SpanIsOfIntegers ==
    ASSUME NEW s \in Settings, NEW p \in s.plans, NEW i \in DOMAIN p, Span(p[i]) # {}
    PROVE  Only(Span(p[i]))[1] \in Int /\ Only(Span(p[i]))[2] \in Int
<1>1. Only(Span(p[i])) \in Span(p[i])
  BY OnlyOf
<1>2. CASE p[i].by = "offset"
  <2>1. p[i].offset \in Int /\ p[i].size \in Int
    BY <1>2, PlanAssumption
  <2>2. Only(Span(p[i])) = <<p[i].offset, p[i].offset + (IF p[i].size < 0 THEN 0 ELSE p[i].size)>>
    BY <1>1, <1>2 DEF Span
  <2> QED
    BY <2>1, <2>2
<1>3. CASE p[i].by # "offset"
  <2>1. PICK n \in DOMAIN Fields : Only(Span(p[i])) = <<Fields[n].start, Fields[n].end>>
    BY <1>1, <1>3 DEF Span
  <2> QED
    BY <2>1, TextAssumption
<1> QED
  BY <1>2, <1>3

LEMMA ResolvedLists ==
    ASSUME NEW s \in Settings, NEW p \in s.plans, plan' = Resolved(p)
    PROVE  PlanIsResolved'
<1> DEFINE I == {j \in DOMAIN p : Span(p[j]) # {}}
           edit(i) == [op |-> p[i].op, rank |-> p[i].rank, name |-> p[i].name, letter |-> i,
                       start |-> Only(Span(p[i]))[1], end |-> Only(Span(p[i]))[2]]
           S == {edit(i) : i \in I}
           R == {q \in S \X S : Before(q[1], q[2])}
<1>1. IsFiniteSet(I)
  <2>1. DOMAIN p = 1 .. Len(p) /\ Len(p) \in Nat
    BY PlanAssumption
  <2>2. IsFiniteSet(DOMAIN p)
    BY <2>1, FS_Interval
  <2> QED
    BY <2>2, FS_Subset
<1>2. IsFiniteSet(S)
  <2>1. \E f \in [I -> S] : \A y \in S : \E x \in I : f[x] = y
    <3>1. [x \in I |-> edit(x)] \in [I -> S]
      OBVIOUS
    <3>2. \A y \in S : \E x \in I : [z \in I |-> edit(z)][x] = y
      OBVIOUS
    <3> QED
      BY <3>1, <3>2
  <2> HIDE DEF I, S
  <2> QED
    BY <1>1, <2>1, FS_Surjection DEF ExistsSurjection, Surjection
<1>3. ASSUME NEW a \in S
      PROVE  a.start \in Int /\ a.end \in Int /\ a.letter \in Nat /\ a.rank \in Int /\ a.name \in Nat /\ a.letter \in I /\ a = edit(a.letter)
  <2>1. PICK i \in I : a = edit(i)
    OBVIOUS
  <2>2. i \in DOMAIN p /\ i \in Nat /\ p[i].rank \in 0 .. 2 /\ p[i].name \in Nat
    BY PlanAssumption
  <2>3. a.start \in Int /\ a.end \in Int
    BY <2>1, SpanIsOfIntegers
  <2> QED
    BY <2>1, <2>2, <2>3
<1> HIDE DEF I, S
<1>4. Orders(R, S)
  <2>1. \A x, y \in S : <<x, y>> \in R <=> Before(x, y)
    OBVIOUS
  <2>2. \A x, y, z \in S : Before(x, y) /\ Before(y, z) => Before(x, z)
    <3> TAKE x \in S, y \in S, z \in S
    <3>1. /\ x.start \in Int /\ x.end \in Int /\ x.letter \in Nat /\ x.rank \in Int /\ x.name \in Nat
          /\ y.start \in Int /\ y.end \in Int /\ y.letter \in Nat /\ y.rank \in Int /\ y.name \in Nat
          /\ z.start \in Int /\ z.end \in Int /\ z.letter \in Nat /\ z.rank \in Int /\ z.name \in Nat
      BY <1>3
    <3> QED
      BY <3>1 DEF Before
  <2>3. \A x, y \in S : x # y => Before(x, y) \/ Before(y, x)
    <3> TAKE x \in S, y \in S
    <3>1. /\ x.start \in Int /\ x.end \in Int /\ x.letter \in Nat /\ x.rank \in Int /\ x.name \in Nat
          /\ y.start \in Int /\ y.end \in Int /\ y.letter \in Nat /\ y.rank \in Int /\ y.name \in Nat
      BY <1>3
    <3>2. x = edit(x.letter) /\ y = edit(y.letter)
      BY <1>3
    <3>3. x.letter = y.letter => x = y
      <4> HIDE DEF edit
      <4> QED
        BY <3>2
    <3> HIDE DEF edit
    <3> QED
      BY <3>1, <3>3 DEF Before
  <2> HIDE DEF R
  <2> QED
    BY <2>1, <2>2, <2>3 DEF Orders
<1>5. PICK t : ListsInOrder(R, S, t)
  BY <1>2, <1>4, SortedExists
<1>6. /\ t \in Bijection(1 .. Cardinality(S), S)
      /\ \A m, n \in DOMAIN t : m < n => Before(t[m], t[n])
  <2>1. t \in Bijection(1 .. Cardinality(S), S)
    BY <1>5 DEF ListsInOrder
  <2>2. DOMAIN t = 1 .. Cardinality(S)
    BY <2>1 DEF Bijection, Injection
  <2> QED
    BY <1>5, <2>1, <2>2 DEF ListsInOrder
<1>7. plan' = CHOOSE q \in Bijection(1 .. Cardinality(S), S) : \A m, n \in DOMAIN q : m < n => Before(q[m], q[n])
  BY DEF Resolved, Sorted, S, I
<1>8. plan' \in Bijection(1 .. Cardinality(S), S)
  BY <1>6, <1>7
<1>9. plan' \in [1 .. Cardinality(S) -> S] /\ Cardinality(S) \in Nat
  BY <1>2, <1>8, FS_CardinalityType DEF Bijection, Injection
<1> QED
  BY <1>3, <1>9 DEF PlanIsResolved

(* The order in which the edits of a combination are applied.              *)
LEMMA AppliedFromTheRight ==
    ASSUME PlanIsResolved, NEW C \in SUBSET DOMAIN plan, IsFiniteSet(C), DistinctStarts(C)
    PROVE  /\ EditOrder(C) \in Bijection(1 .. Cardinality(C), C)
           /\ \A m, n \in 1 .. Cardinality(C) :
                m < n => plan[EditOrder(C)[n]].start < plan[EditOrder(C)[m]].start
<1> DEFINE Ahead(i, j) == plan[i].start > plan[j].start \/ (plan[i].start = plan[j].start /\ i < j)
           R == {q \in C \X C : Ahead(q[1], q[2])}
<1>1. \A i \in C : i \in Int /\ plan[i].start \in Int
  BY DEF PlanIsResolved
<1>2. Orders(R, C)
  BY <1>1 DEF Orders
<1>3. PICK t : ListsInOrder(R, C, t)
  BY <1>2, SortedExists
<1>4. /\ t \in Bijection(1 .. Cardinality(C), C)
      /\ \A m, n \in DOMAIN t : m < n => Ahead(t[m], t[n])
  <2>1. t \in Bijection(1 .. Cardinality(C), C)
    BY <1>3 DEF ListsInOrder
  <2>2. DOMAIN t = 1 .. Cardinality(C)
    BY <2>1 DEF Bijection, Injection
  <2> QED
    BY <1>3, <2>1, <2>2 DEF ListsInOrder
<1>5. EditOrder(C) = CHOOSE q \in Bijection(1 .. Cardinality(C), C) : \A m, n \in DOMAIN q : m < n => Ahead(q[m], q[n])
  BY DEF EditOrder, Sorted
<1> HIDE DEF Ahead
<1>6. PICK o : o = EditOrder(C)
  OBVIOUS
<1>7. o \in Bijection(1 .. Cardinality(C), C) /\ \A m, n \in DOMAIN o : m < n => Ahead(o[m], o[n])
  BY <1>4, <1>5, <1>6
<1>8. /\ o \in [1 .. Cardinality(C) -> C]
      /\ \A m, n \in 1 .. Cardinality(C) : o[m] = o[n] => m = n
  BY <1>7 DEF Bijection, Injection, IsInjective
<1>9. ASSUME NEW m \in 1 .. Cardinality(C), NEW n \in 1 .. Cardinality(C), m < n
      PROVE  plan[o[n]].start < plan[o[m]].start
  <2>1. o[m] \in C /\ o[n] \in C /\ o[m] # o[n] /\ Cardinality(C) \in Nat
    BY <1>8, <1>9, FS_CardinalityType
  <2>2. plan[o[n]].start # plan[o[m]].start
    BY <2>1 DEF DistinctStarts
  <2>3. Ahead(o[m], o[n])
    BY <1>7, <1>8, <1>9
  <2> QED
    BY <1>1, <2>1, <2>2, <2>3 DEF Ahead
<1> QED
  BY <1>6, <1>7, <1>9

----------------------------------------------------------------------------
(* The texts after each edit, and what follows each position, as functions *)
(* of which the model's definitions take the last value.                   *)
AfterEdits(A, o, n) ==
    /\ A = [i \in 0 .. n |-> A[i]] /\ A[0] = {Text}
    /\ \A i \in 0 .. n - 1 : A[i + 1] = UNION {Edited(t, plan[o[i + 1]]) : t \in A[i]}

LEMMA AfterEditsExist == ASSUME NEW o, NEW k \in Nat PROVE \E A : AfterEdits(A, o, k)
<1> DEFINE T == {n \in Nat : \E A : AfterEdits(A, o, n)}
<1>1. 0 \in T
  <2>1. AfterEdits([i \in 0 .. 0 |-> {Text}], o, 0)
    BY DEF AfterEdits
  <2> QED
    BY <2>1
<1>2. ASSUME NEW n \in Nat, n \in T PROVE n + 1 \in T
  <2>1. PICK A : AfterEdits(A, o, n)
    BY <1>2
  <2>2. PICK x : x = UNION {Edited(t, plan[o[n + 1]]) : t \in A[n]}
    OBVIOUS
  <2> DEFINE B == [i \in 0 .. n + 1 |-> IF i = n + 1 THEN x ELSE A[i]]
  <2>3. B = [i \in 0 .. n + 1 |-> B[i]] /\ B[0] = {Text} /\ B[n + 1] = x
    BY <2>1 DEF AfterEdits
  <2>4. ASSUME NEW i \in 0 .. n PROVE B[i] = A[i]
    OBVIOUS
  <2>5. (n + 1) - 1 = n
    OBVIOUS
  <2> HIDE DEF B
  <2>6. ASSUME NEW i \in 0 .. n PROVE B[i + 1] = UNION {Edited(t, plan[o[i + 1]]) : t \in B[i]}
    <3>1. CASE i = n
      BY <2>2, <2>3, <2>4, <3>1
    <3>2. CASE i # n
      <4>1. i \in 0 .. n - 1 /\ i + 1 \in 0 .. n
        BY <3>2
      <4>2. A[i + 1] = UNION {Edited(t, plan[o[i + 1]]) : t \in A[i]}
        BY <2>1, <4>1 DEF AfterEdits
      <4>3. B[i + 1] = A[i + 1] /\ B[i] = A[i]
        BY <2>4, <4>1
      <4> QED
        BY <4>2, <4>3
    <3> QED
      BY <3>1, <3>2
  <2>7. AfterEdits(B, o, n + 1)
    BY <2>3, <2>5, <2>6 DEF AfterEdits
  <2> QED
    BY <2>7
<1> HIDE DEF T
<1>3. \A n \in Nat : n \in T
  BY <1>1, <1>2, AllOf
<1> QED
  BY <1>3 DEF T

LEMMA AppliedIs ==
    ASSUME NEW C, Cardinality(C) \in Nat
    PROVE  \E A : AfterEdits(A, EditOrder(C), Cardinality(C)) /\ Applied(C) = A[Cardinality(C)]
<1> DEFINE o == EditOrder(C)
           k == Cardinality(C)
           after[n \in 0 .. k] == IF n = 0 THEN {Text} ELSE UNION {Edited(t, plan[o[n]]) : t \in after[n - 1]}
<1>1. Applied(C) = after[k]
  BY DEF Applied
<1> HIDE DEF o, k
<1>2. PICK A : AfterEdits(A, o, k)
  BY AfterEditsExist DEF k
<1>3. A = [n \in 0 .. k |-> IF n = 0 THEN {Text} ELSE UNION {Edited(t, plan[o[n]]) : t \in A[n - 1]}]
  <2>1. A = [n \in 0 .. k |-> A[n]]
    BY <1>2 DEF AfterEdits
  <2>2. ASSUME NEW n \in 0 .. k
        PROVE  A[n] = IF n = 0 THEN {Text} ELSE UNION {Edited(t, plan[o[n]]) : t \in A[n - 1]}
    <3>1. CASE n # 0
      <4>1. PICK i \in 0 .. k - 1 : i + 1 = n /\ n - 1 = i
        BY <3>1 DEF k
      <4>2. A[i + 1] = UNION {Edited(t, plan[o[i + 1]]) : t \in A[i]}
        BY <1>2 DEF AfterEdits
      <4> QED
        BY <3>1, <4>1, <4>2
    <3> QED
      BY <1>2, <3>1 DEF AfterEdits
  <2> QED
    BY <2>1, <2>2
<1>4. after = [n \in 0 .. k |-> IF n = 0 THEN {Text} ELSE UNION {Edited(t, plan[o[n]]) : t \in after[n - 1]}]
  BY <1>3, Zenon
<1> HIDE DEF after
<1>5. AfterEdits(after, o, k)
  <2>1. after = [n \in 0 .. k |-> after[n]] /\ after[0] = {Text}
    BY <1>4 DEF k
  <2>2. ASSUME NEW i \in 0 .. k - 1 PROVE after[i + 1] = UNION {Edited(t, plan[o[i + 1]]) : t \in after[i]}
    <3>1. i + 1 \in 0 .. k /\ i + 1 # 0 /\ (i + 1) - 1 = i
      BY DEF k
    <3> QED
      BY <1>4, <3>1
  <2> QED
    BY <2>1, <2>2 DEF AfterEdits
<1> QED
  BY <1>1, <1>5 DEF o, k

Step(C, p, x) == Here(C, p) \o (Letter(C, p + 1) \o Ended(C, p + 1) \o x)
FromTheEnd(g, C, n) ==
    /\ g = [i \in 0 .. n |-> g[i]] /\ g[0] = Here(C, Len(Text)) \o <<>>
    /\ \A i \in 0 .. n - 1 : g[i + 1] = Step(C, Len(Text) - (i + 1), g[i])

LEMMA FromTheEndExists == ASSUME NEW C, NEW k \in Nat PROVE \E g : FromTheEnd(g, C, k)
<1> DEFINE T == {n \in Nat : \E g : FromTheEnd(g, C, n)}
<1>1. 0 \in T
  <2>1. FromTheEnd([i \in 0 .. 0 |-> Here(C, Len(Text)) \o <<>>], C, 0)
    BY DEF FromTheEnd
  <2> QED
    BY <2>1
<1>2. ASSUME NEW n \in Nat, n \in T PROVE n + 1 \in T
  <2>1. PICK g : FromTheEnd(g, C, n)
    BY <1>2
  <2>2. PICK x : x = Step(C, Len(Text) - (n + 1), g[n])
    OBVIOUS
  <2> DEFINE h == [i \in 0 .. n + 1 |-> IF i = n + 1 THEN x ELSE g[i]]
  <2>3. h = [i \in 0 .. n + 1 |-> h[i]] /\ h[0] = Here(C, Len(Text)) \o <<>> /\ h[n + 1] = x
    BY <2>1 DEF FromTheEnd
  <2>4. ASSUME NEW i \in 0 .. n PROVE h[i] = g[i]
    OBVIOUS
  <2>5. (n + 1) - 1 = n
    OBVIOUS
  <2> HIDE DEF h
  <2>6. ASSUME NEW i \in 0 .. n PROVE h[i + 1] = Step(C, Len(Text) - (i + 1), h[i])
    <3>1. CASE i = n
      BY <2>2, <2>3, <2>4, <3>1
    <3>2. CASE i # n
      <4>1. i \in 0 .. n - 1 /\ i + 1 \in 0 .. n
        BY <3>2
      <4>2. g[i + 1] = Step(C, Len(Text) - (i + 1), g[i])
        BY <2>1, <4>1 DEF FromTheEnd
      <4>3. h[i + 1] = g[i + 1] /\ h[i] = g[i]
        BY <2>4, <4>1
      <4> QED
        BY <4>2, <4>3
    <3> QED
      BY <3>1, <3>2
  <2>7. FromTheEnd(h, C, n + 1)
    BY <2>3, <2>5, <2>6 DEF FromTheEnd
  <2> QED
    BY <2>7
<1> HIDE DEF T
<1>3. \A n \in Nat : n \in T
  BY <1>1, <1>2, AllOf
<1> QED
  BY <1>3 DEF T

(* What follows position p: F gives what stands from each position on.     *)
Behind(C, F, p) == IF p = Len(Text) THEN <<>> ELSE Letter(C, p + 1) \o Ended(C, p + 1) \o F[p + 1]
StandsFrom(C, F) == \A p \in 0 .. Len(Text) : F[p] = Here(C, p) \o Behind(C, F, p)

LEMMA LocalIs == ASSUME NEW C PROVE \E F : StandsFrom(C, F) /\ Local(C) = F[0]
<1> DEFINE L == Len(Text)
           from[n \in 0 .. L] ==
              LET p == L - n
              IN  Here(C, p) \o (IF n = 0 THEN <<>> ELSE Letter(C, p + 1) \o Ended(C, p + 1) \o from[n - 1])
<1>0. L \in Nat
  BY TextAssumption, LenProperties
<1>1. Local(C) = from[L]
  BY DEF Local
<1> HIDE DEF L
<1>2. PICK g : FromTheEnd(g, C, L)
  BY <1>0, FromTheEndExists
<1>3. g = [n \in 0 .. L |-> LET p == L - n
                            IN  Here(C, p) \o (IF n = 0 THEN <<>> ELSE Letter(C, p + 1) \o Ended(C, p + 1) \o g[n - 1])]
  <2>1. g = [n \in 0 .. L |-> g[n]]
    BY <1>2 DEF FromTheEnd
  <2>2. ASSUME NEW n \in 0 .. L
        PROVE  g[n] = LET p == L - n
                      IN  Here(C, p) \o (IF n = 0 THEN <<>> ELSE Letter(C, p + 1) \o Ended(C, p + 1) \o g[n - 1])
    <3>1. CASE n # 0
      <4>1. PICK i \in 0 .. L - 1 : i + 1 = n /\ n - 1 = i
        BY <1>0, <3>1
      <4>2. g[i + 1] = Step(C, Len(Text) - (i + 1), g[i])
        BY <1>2 DEF FromTheEnd
      <4> QED
        BY <3>1, <4>1, <4>2 DEF Step, L
    <3>2. CASE n = 0
      <4>1. g[0] = Here(C, L) \o <<>> /\ L - 0 = L
        BY <1>0, <1>2 DEF FromTheEnd, L
      <4> QED
        BY <3>2, <4>1
    <3> QED
      BY <3>1, <3>2
  <2> QED
    BY <2>1, <2>2
<1>4. from = [n \in 0 .. L |-> LET p == L - n
                               IN  Here(C, p) \o (IF n = 0 THEN <<>> ELSE Letter(C, p + 1) \o Ended(C, p + 1) \o from[n - 1])]
  BY <1>3, Zenon
<1> HIDE DEF from
<1> DEFINE F == [p \in 0 .. L |-> from[L - p]]
<1>5. ASSUME NEW p \in 0 .. L PROVE F[p] = Here(C, p) \o Behind(C, F, p)
  <2>1. PICK n \in 0 .. L : n = L - p /\ p = L - n
    BY <1>0
  <2>2. F[p] = from[n]
    BY <2>1
  <2>3. CASE n = 0
    <3>1. from[n] = Here(C, L - n) \o <<>>
      BY <1>4, <2>3
    <3>2. p = L /\ L - n = L
      BY <1>0, <2>1, <2>3
    <3>3. Behind(C, F, p) = <<>>
      BY <3>2 DEF Behind, L
    <3>4. F[p] = Here(C, p) \o <<>>
      BY <2>2, <3>1, <3>2
    <3> HIDE DEF F
    <3> QED
      BY <3>3, <3>4
  <2>4. CASE n # 0
    <3>1. from[n] = Here(C, p) \o (Letter(C, p + 1) \o Ended(C, p + 1) \o from[n - 1])
      BY <1>4, <2>1, <2>4
    <3>2. p + 1 \in 0 .. L /\ L - (p + 1) = n - 1 /\ p # L
      BY <1>0, <2>1, <2>4
    <3>3. F[p + 1] = from[n - 1]
      BY <3>2
    <3> QED
      BY <2>2, <3>1, <3>2, <3>3 DEF Behind, L
  <2> QED
    BY <2>3, <2>4
<1>6. F[0] = from[L]
  BY <1>0
<1> HIDE DEF F
<1> QED
  BY <1>1, <1>5, <1>6 DEF StandsFrom, L

----------------------------------------------------------------------------
(***************************************************************************)
(* Edits that go together: no two conflict and no two start at one place.  *)
(* Those that were applied have their spans within the text.               *)
(***************************************************************************)
Compatible(C) ==
    /\ PlanIsResolved /\ C \in SUBSET DOMAIN plan /\ IsFiniteSet(C)
    /\ DistinctStarts(C)
    /\ \A i, j \in C : i # j => ~Conflict(plan[i], plan[j])
Fits(i) == 0 <= plan[i].start /\ plan[i].start <= plan[i].end /\ plan[i].end <= Len(Text)

LEMMA TextIsSeq == Text \in Seq(Nat) /\ Len(Text) \in Nat /\ \A p \in 1 .. Len(Text) : Text[p] \in Nat
<1>1. Text \in Seq(Nat)
  BY TextAssumption
<1> QED
  BY <1>1, LenProperties

LEMMA OneLetter == ASSUME NEW p \in 1 .. Len(Text), NEW keep PROVE (IF keep THEN <<Text[p]>> ELSE <<>>) \in Seq(Nat)
<1>1. <<Text[p]>> \in Seq(Nat) /\ <<>> \in Seq(Nat)
  BY TextIsSeq
<1> QED
  BY <1>1

LEMMA Regroup == ASSUME NEW x \in Seq(Nat), NEW y \in Seq(Nat), NEW z \in Seq(Nat) PROVE (x \o y) \o z = x \o (y \o z)
  OBVIOUS

(* The same with concatenation as an operator that is not expanded.        *)
Cat(x, y) == x \o y

LEMMA CatRegroups ==
    ASSUME NEW x \in Seq(Nat), NEW y \in Seq(Nat), NEW z \in Seq(Nat)
    PROVE  Cat(x, y) \in Seq(Nat) /\ Cat(Cat(x, y), z) = Cat(x, Cat(y, z))
  BY Regroup, ConcatProperties DEF Cat

LEMMA Regroup3 ==
    ASSUME NEW x \in Seq(Nat), NEW y \in Seq(Nat), NEW z \in Seq(Nat), NEW w \in Seq(Nat)
    PROVE  Cat(Cat(Cat(x, y), z), w) = Cat(x, Cat(Cat(y, z), w))
<1>1. Cat(x, y) \in Seq(Nat) /\ Cat(y, z) \in Seq(Nat)
  BY CatRegroups
<1> QED
  BY <1>1, CatRegroups

LEMMA Regroup4 ==
    ASSUME NEW x \in Seq(Nat), NEW y \in Seq(Nat), NEW z \in Seq(Nat), NEW w \in Seq(Nat), NEW u \in Seq(Nat)
    PROVE  Cat(Cat(Cat(Cat(x, y), z), w), u) = Cat(x, Cat(Cat(Cat(y, z), w), u))
<1>1. Cat(Cat(y, z), w) \in Seq(Nat)
  BY CatRegroups
<1>2. Cat(Cat(Cat(x, y), z), w) = Cat(x, Cat(Cat(y, z), w))
  BY Regroup3
<1> QED
  BY <1>1, <1>2, CatRegroups

LEMMA SpansAre ==
    ASSUME NEW C, Compatible(C), NEW i \in C
    PROVE  plan[i].start \in Int /\ plan[i].end \in Int /\ plan[i].letter \in Nat
  BY DEF Compatible, PlanIsResolved

LEMMA Apart ==
    ASSUME NEW C, Compatible(C), NEW i \in C, NEW j \in C, plan[i].start <= plan[i].end, plan[j].start < plan[i].start
    PROVE  plan[j].end <= plan[i].start
<1>1. plan[i].start \in Int /\ plan[i].end \in Int /\ plan[j].start \in Int /\ plan[j].end \in Int
  BY SpansAre
<1>2. i # j
  BY <1>1
<1>3. plan[i].end <= plan[j].start \/ plan[j].end <= plan[i].start
  BY <1>2 DEF Compatible, Conflict
<1> QED
  BY <1>1, <1>3

LEMMA CountIs == ASSUME NEW C, Compatible(C) PROVE Cardinality(C) \in Nat
  BY FS_CardinalityType DEF Compatible

LEMMA OrderIs ==
    ASSUME NEW C, Compatible(C)
    PROVE  /\ \A n \in 1 .. Cardinality(C) : EditOrder(C)[n] \in C
           /\ \A i \in C : \E n \in 1 .. Cardinality(C) : EditOrder(C)[n] = i
           /\ \A m, n \in 1 .. Cardinality(C) :
                m < n => plan[EditOrder(C)[n]].start < plan[EditOrder(C)[m]].start
<1>1. PICK o : o = EditOrder(C)
  OBVIOUS
<1>2. /\ o \in Bijection(1 .. Cardinality(C), C)
      /\ \A m, n \in 1 .. Cardinality(C) : m < n => plan[o[n]].start < plan[o[m]].start
  BY <1>1, AppliedFromTheRight DEF Compatible
<1>3. /\ \A n \in 1 .. Cardinality(C) : o[n] \in C
      /\ \A i \in C : \E n \in 1 .. Cardinality(C) : o[n] = i
  BY <1>2 DEF Bijection, Injection, Surjection
<1> QED
  BY <1>1, <1>2, <1>3

LEMMA AppliedFit ==
    ASSUME NEW C, Compatible(C), NEW A, AfterEdits(A, EditOrder(C), Cardinality(C)), A[Cardinality(C)] # {}
    PROVE  \A i \in C : Fits(i)
<1>0. PICK k \in Nat : k = Cardinality(C)
  BY CountIs
<1>1. PICK o : o = EditOrder(C) /\ k = Cardinality(C)
  BY <1>0
<1>2. /\ \A n \in 1 .. k : o[n] \in C
      /\ \A i \in C : \E n \in 1 .. k : o[n] = i
      /\ \A m, n \in 1 .. k : m < n => plan[o[n]].start < plan[o[m]].start
  BY <1>1, OrderIs
<1>3. A[0] = {Text} /\ \A i \in 0 .. k - 1 : A[i + 1] = UNION {Edited(t, plan[o[i + 1]]) : t \in A[i]}
  <2>1. AfterEdits(A, o, k)
    BY <1>1
  <2> QED
    BY <2>1 DEF AfterEdits
<1> DEFINE T == {n \in Nat : n <= k /\ A[n] # {} => \A m \in 1 .. n : Fits(o[m])}
<1>4. 0 \in T
  OBVIOUS
<1>5. ASSUME NEW n \in Nat, n \in T PROVE n + 1 \in T
  <2> SUFFICES ASSUME n + 1 <= k, A[n + 1] # {} PROVE \A m \in 1 .. n + 1 : Fits(o[m])
    OBVIOUS
  <2>1. n \in 0 .. k - 1 /\ n + 1 \in 1 .. k /\ n <= k
    OBVIOUS
  <2>2. A[n + 1] = UNION {Edited(t, plan[o[n + 1]]) : t \in A[n]}
    BY <1>3, <2>1
  <2>3. PICK t \in A[n] : Edited(t, plan[o[n + 1]]) # {}
    BY <2>2
  <2>4. \A m \in 1 .. n : Fits(o[m])
    BY <1>5, <2>1, <2>3
  <2>5. PICK i \in C : i = o[n + 1]
    BY <1>2, <2>1
  <2>6. plan[i].start \in Int /\ plan[i].end \in Int
    BY SpansAre
  <2>7. ~(plan[i].start < 0 \/ plan[i].end < plan[i].start \/ plan[i].end > Len(t))
    BY <2>3, <2>5 DEF Edited
  <2>8. plan[i].end <= Len(Text)
    <3>1. CASE n = 0
      BY <1>3, <2>3, <2>6, <2>7, <3>1, TextIsSeq
    <3>2. CASE n # 0
      <4>1. n \in 1 .. n /\ n \in 1 .. k /\ n < n + 1
        BY <2>1, <3>2
      <4>2. PICK j \in C : j = o[n]
        BY <1>2, <4>1
      <4>3. Fits(j) /\ plan[i].start < plan[j].start
        BY <1>2, <2>1, <2>4, <2>5, <4>1, <4>2
      <4>4. plan[i].end <= plan[j].start
        BY <4>3, Apart DEF Fits
      <4>5. plan[j].start \in Int /\ plan[j].end \in Int
        BY SpansAre
      <4> QED
        BY <2>6, <4>3, <4>4, <4>5, TextIsSeq DEF Fits
    <3> QED
      BY <3>1, <3>2
  <2>9. Fits(o[n + 1])
    BY <2>5, <2>6, <2>7, <2>8 DEF Fits
  <2>10. ASSUME NEW m \in 1 .. n + 1 PROVE m = n + 1 \/ m \in 1 .. n
    OBVIOUS
  <2> QED
    BY <2>4, <2>9, <2>10
<1> HIDE DEF T
<1>6. \A n \in Nat : n \in T
  BY <1>4, <1>5, AllOf
<1>7. \A m \in 1 .. k : Fits(o[m])
  BY <1>1, <1>6 DEF T
<1> QED
  BY <1>2, <1>7

(***************************************************************************)
(* What stands at each position.                                           *)
(***************************************************************************)
Fitting(C) == Compatible(C) /\ \A i \in C : Fits(i)

LEMMA PartsAreTexts ==
    ASSUME NEW C, Fitting(C), NEW i \in C
    PROVE  /\ Starting(plan[i]) \in Seq(Nat) /\ Closing(plan[i]) \in Seq(Nat)
           /\ SubSeq(Text, plan[i].start + 1, plan[i].end) \in Seq(Nat)
<1>1. plan[i].start \in Nat /\ plan[i].end \in Nat /\ plan[i].end <= Len(Text) /\ plan[i].letter \in Nat
  BY SpansAre, TextIsSeq DEF Fitting, Fits
<1>2. <<plan[i].letter>> \in Seq(Nat) /\ <<>> \in Seq(Nat)
  BY <1>1
<1>3. SubSeq(Text, plan[i].start + 1, plan[i].end) \in Seq(Nat)
  BY <1>1, TextIsSeq, SubSeqProperties
<1>4. <<plan[i].letter>> \o SubSeq(Text, plan[i].start + 1, plan[i].end) \in Seq(Nat)
  BY <1>2, <1>3, ConcatProperties
<1>5. Closing(plan[i]) \in Seq(Nat)
  BY <1>2, <1>4 DEF Closing
<1> QED
  BY <1>2, <1>3, <1>5 DEF Starting

LEMMA HereIs ==
    ASSUME NEW C, Fitting(C), NEW i \in C
    PROVE  Here(C, plan[i].start) = Starting(plan[i]) \o (IF plan[i].end = plan[i].start THEN Closing(plan[i]) ELSE <<>>)
<1>1. StartingAt(C, plan[i].start) = {i}
  BY DEF StartingAt, Fitting, Compatible, DistinctStarts
<1>2. Only({i}) = i
  BY DEF Only
<1> QED
  BY <1>1, <1>2 DEF Here

LEMMA NothingHere == ASSUME NEW C, NEW p, \A i \in C : plan[i].start # p PROVE Here(C, p) = <<>>
  BY DEF Here, StartingAt

LEMMA EndedIs ==
    ASSUME NEW C, Fitting(C), NEW i \in C, plan[i].start < plan[i].end
    PROVE  Ended(C, plan[i].end) = Closing(plan[i])
<1>1. ASSUME NEW j \in EndingAt(C, plan[i].end) PROVE j = i
  <2>1. j \in C /\ plan[j].end = plan[i].end /\ plan[j].start < plan[i].end
    BY DEF EndingAt
  <2>2. plan[i].start \in Int /\ plan[i].end \in Int /\ plan[j].start \in Int /\ plan[j].end \in Int
    BY <2>1, SpansAre DEF Fitting
  <2>3. j # i => plan[j].end <= plan[i].start \/ plan[i].end <= plan[j].start
    BY <2>1 DEF Fitting, Compatible, Conflict
  <2> QED
    BY <2>1, <2>2, <2>3
<1>2. EndingAt(C, plan[i].end) = {i}
  BY <1>1 DEF EndingAt
<1>3. Only({i}) = i
  BY DEF Only
<1> QED
  BY <1>2, <1>3 DEF Ended

LEMMA NothingEnds ==
    ASSUME NEW C, NEW p, \A i \in C : ~(plan[i].end = p /\ plan[i].start < p)
    PROVE  Ended(C, p) = <<>>
  BY DEF Ended, EndingAt

LEMMA HereIsText == ASSUME NEW C, Fitting(C), NEW p PROVE Here(C, p) \in Seq(Nat)
<1>1. <<>> \in Seq(Nat)
  BY EmptySeq
<1>2. ASSUME NEW i \in C, plan[i].start = p PROVE Here(C, p) \in Seq(Nat)
  <2>1. PICK a \in Seq(Nat), b \in Seq(Nat) : a = Starting(plan[i]) /\ b = IF plan[i].end = plan[i].start THEN Closing(plan[i]) ELSE <<>>
    BY <1>1, PartsAreTexts
  <2>2. a \o b \in Seq(Nat)
    BY ConcatProperties
  <2> QED
    BY <1>2, <2>1, <2>2, HereIs
<1> QED
  BY <1>1, <1>2, NothingHere

LEMMA EndedIsText == ASSUME NEW C, Fitting(C), NEW p PROVE Ended(C, p) \in Seq(Nat)
<1>1. CASE EndingAt(C, p) = {}
  BY <1>1, EmptySeq DEF Ended
<1>2. CASE EndingAt(C, p) # {}
  <2>1. PICK i \in C : i = Only(EndingAt(C, p))
    BY <1>2, OnlyOf DEF EndingAt
  <2> QED
    BY <1>2, <2>1, PartsAreTexts DEF Ended
<1> QED
  BY <1>1, <1>2

LEMMA LetterIsText == ASSUME NEW C, NEW p \in 1 .. Len(Text) PROVE Letter(C, p) \in Seq(Nat)
<1>1. <<>> \in Seq(Nat) /\ <<Text[p]>> \in Seq(Nat)
  BY TextIsSeq
<1> QED
  BY <1>1 DEF Letter

LEMMA BehindIsText ==
    ASSUME NEW C, Fitting(C), NEW F, StandsFrom(C, F), NEW p \in 0 .. Len(Text)
    PROVE  F[p] \in Seq(Nat) /\ Behind(C, F, p) \in Seq(Nat)
<1>0. PICK L \in Nat : L = Len(Text)
  BY TextIsSeq
<1> DEFINE T == {n \in Nat : n <= L => F[L - n] \in Seq(Nat) /\ Behind(C, F, L - n) \in Seq(Nat)}
<1>1. \A q \in 0 .. L : F[q] = Here(C, q) \o Behind(C, F, q)
  BY <1>0 DEF StandsFrom
<1>2. 0 \in T
  <2>1. L - 0 = L /\ L \in 0 .. L
    BY <1>0
  <2>2. Behind(C, F, L) = <<>> /\ <<>> \in Seq(Nat)
    BY <1>0, EmptySeq DEF Behind
  <2>3. F[L] = Here(C, L) \o <<>> /\ Here(C, L) \in Seq(Nat)
    BY <1>1, <2>1, <2>2, HereIsText
  <2>4. F[L] \in Seq(Nat)
    BY <2>2, <2>3, ConcatProperties
  <2> QED
    BY <2>1, <2>2, <2>4
<1>3. ASSUME NEW n \in Nat, n \in T PROVE n + 1 \in T
  <2> SUFFICES ASSUME n + 1 <= L PROVE F[L - (n + 1)] \in Seq(Nat) /\ Behind(C, F, L - (n + 1)) \in Seq(Nat)
    OBVIOUS
  <2>0. PICK q \in 0 .. L : q = L - (n + 1)
    OBVIOUS
  <2>1. q = L - (n + 1) /\ q + 1 = L - n /\ q + 1 \in 1 .. L /\ q # L /\ n <= L
    BY <1>0, <2>0
  <2>2. PICK x \in Seq(Nat) : x = F[q + 1]
    BY <1>3, <2>1
  <2>3. PICK a \in Seq(Nat), b \in Seq(Nat), h \in Seq(Nat) :
             a = Letter(C, q + 1) /\ b = Ended(C, q + 1) /\ h = Here(C, q)
    BY <1>0, <2>1, LetterIsText, EndedIsText, HereIsText
  <2>4. Behind(C, F, q) = a \o b \o x
    BY <1>0, <2>1, <2>2, <2>3 DEF Behind
  <2>5. a \o b \o x \in Seq(Nat)
    <3>1. a \o b \in Seq(Nat)
      BY ConcatProperties
    <3> QED
      BY <3>1, ConcatProperties
  <2>6. F[q] = h \o Behind(C, F, q)
    BY <1>1, <2>3
  <2>7. F[q] \in Seq(Nat)
    BY <2>4, <2>5, <2>6, ConcatProperties
  <2> QED
    BY <2>1, <2>4, <2>5, <2>7
<1> HIDE DEF T
<1>4. \A n \in Nat : n \in T
  BY <1>2, <1>3, AllOf
<1>5. p \in 0 .. L
  BY <1>0
<1>6. L - p \in Nat /\ L - p <= L /\ L - (L - p) = p
  BY <1>5
<1> QED
  BY <1>4, <1>6 DEF T

(* A stretch without edits of its own: its letters stand, or none does.    *)
Plain(C, from, upTo, keep) ==
    /\ \A p \in from + 1 .. upTo - 1 : Here(C, p) = <<>> /\ Ended(C, p) = <<>>
    /\ \A p \in from + 1 .. upTo : Letter(C, p) = IF keep THEN <<Text[p]>> ELSE <<>>
Letters(from, upTo, keep) == IF keep THEN SubSeq(Text, from + 1, upTo) ELSE <<>>

LEMMA OneLetterMore ==
    ASSUME NEW a \in 0 .. Len(Text), NEW b \in a .. Len(Text) - 1, NEW keep \in BOOLEAN
    PROVE  /\ Letters(a, b, keep) \in Seq(Nat)
           /\ Letters(a, a, keep) = <<>>
           /\ Letters(a, b + 1, keep) = Letters(a, b, keep) \o (IF keep THEN <<Text[b + 1]>> ELSE <<>>)
<1>1. Text \in Seq(Nat) /\ a + 1 \in 1 .. Len(Text) /\ b + 1 \in a + 1 .. Len(Text) /\ (b + 1) - 1 = b /\ a \in Int /\ b \in Int
  BY TextIsSeq
<1>2. <<>> \in Seq(Nat) /\ <<>> \o <<>> = <<>>
  OBVIOUS
<1>3. SubSeq(Text, a + 1, b) \in Seq(Nat)
  BY <1>1, TextIsSeq, SubSeqProperties
<1>4. SubSeq(Text, a + 1, a) = <<>>
  BY <1>1, SubSeqEmpty
<1>5. SubSeq(Text, a + 1, b + 1) = SubSeq(Text, a + 1, b) \o <<Text[b + 1]>>
  BY <1>1, SubSeqRecursiveSecond
<1> QED
  BY <1>2, <1>3, <1>4, <1>5 DEF Letters

LEMMA Stretch ==
    ASSUME NEW C, Fitting(C), NEW F, StandsFrom(C, F),
           NEW a \in 0 .. Len(Text), NEW b \in a + 1 .. Len(Text), NEW keep \in BOOLEAN, Plain(C, a, b, keep)
    PROVE  Behind(C, F, a) = Letters(a, b, keep) \o Ended(C, b) \o F[b]
<1>00. PICK L \in Nat : L = Len(Text)
  BY TextIsSeq
<1> DEFINE Reaches(q) == Behind(C, F, a) = Letters(a, q, keep) \o Ended(C, q) \o F[q]
           T == {n \in Nat : a + 1 + n <= b => Reaches(a + 1 + n)}
<1>0. a \in Nat /\ b \in Nat /\ a < b /\ b <= L /\ a \in 0 .. L - 1 /\ b \in a + 1 .. L
  BY <1>00
<1>1. ASSUME NEW p \in a + 1 .. b PROVE Letter(C, p) = IF keep THEN <<Text[p]>> ELSE <<>>
  BY DEF Plain
<1>2. ASSUME NEW p \in 0 .. L, p < L PROVE Behind(C, F, p) = Letter(C, p + 1) \o Ended(C, p + 1) \o F[p + 1]
  <2>1. p # Len(Text)
    BY <1>00, <1>2
  <2> QED
    BY <2>1 DEF Behind
<1>3. 0 \in T
  <2>1. a + 1 \in a + 1 .. b /\ a \in 0 .. L /\ a < L /\ a + 1 + 0 = a + 1 /\ a \in a .. L - 1
    BY <1>0
  <2>2. Letters(a, a + 1, keep) = Letters(a, a, keep) \o (IF keep THEN <<Text[a + 1]>> ELSE <<>>) /\ Letters(a, a, keep) = <<>>
    BY <1>00, <2>1, OneLetterMore
  <2>3. PICK x \in Seq(Nat) : x = IF keep THEN <<Text[a + 1]>> ELSE <<>>
    <3>1. (IF keep THEN <<Text[a + 1]>> ELSE <<>>) \in Seq(Nat)
      BY <1>00, <1>0, OneLetter
    <3> QED
      BY <3>1
  <2>4. <<>> \o x = x
    BY ConcatEmptySeq
  <2>5. Letter(C, a + 1) = Letters(a, a + 1, keep)
    BY <1>1, <2>1, <2>2, <2>3, <2>4
  <2>6. Behind(C, F, a) = Letters(a, a + 1, keep) \o Ended(C, a + 1) \o F[a + 1]
    BY <1>2, <2>1, <2>5
  <2> QED
    BY <2>1, <2>6
<1>4. ASSUME NEW n \in Nat, n \in T PROVE n + 1 \in T
  <2> HIDE DEF Reaches
  <2> SUFFICES ASSUME a + 1 + (n + 1) <= b PROVE Reaches(a + 1 + (n + 1))
    OBVIOUS
  <2>1. PICK q \in Nat : q = a + 1 + n
    BY <1>0
  <2>2. a + 1 + (n + 1) = q + 1 /\ q + 1 <= b /\ q \in a + 1 .. b - 1 /\ q \in 0 .. L /\ q < L /\ q \in a .. L - 1 /\ q + 1 \in a + 1 .. b /\ q + 1 \in 0 .. L
    BY <1>0, <2>1
  <2>3. Behind(C, F, a) = Letters(a, q, keep) \o Ended(C, q) \o F[q]
    <3>1. Reaches(a + 1 + n)
      BY <1>0, <1>4, <2>1, <2>2
    <3> QED
      BY <2>1, <3>1 DEF Reaches
  <2>4. Ended(C, q) = <<>> /\ Here(C, q) = <<>>
    BY <2>2 DEF Plain
  <2>5. F[q] = <<>> \o Behind(C, F, q)
    BY <1>00, <2>2, <2>4 DEF StandsFrom
  <2>6. PICK m \in Seq(Nat) : m = Letters(a, q, keep)
    BY <1>00, <2>2, OneLetterMore
  <2>7. PICK x \in Seq(Nat) : x = IF keep THEN <<Text[q + 1]>> ELSE <<>>
    <3>1. (IF keep THEN <<Text[q + 1]>> ELSE <<>>) \in Seq(Nat)
      BY <1>00, <2>2, OneLetter
    <3> QED
      BY <3>1
  <2>8. PICK e \in Seq(Nat), r \in Seq(Nat) : e = Ended(C, q + 1) /\ r = F[q + 1]
    BY <1>00, <2>2, EndedIsText, BehindIsText
  <2>9. Behind(C, F, q) = x \o e \o r
    BY <1>1, <1>2, <2>2, <2>7, <2>8
  <2>10. F[q] = x \o e \o r
    <3>1. <<>> \o Behind(C, F, q) = Behind(C, F, q)
      BY <1>00, <2>2, BehindIsText, ConcatEmptySeq
    <3> QED
      BY <2>5, <2>9, <3>1
  <2>11. Behind(C, F, a) = m \o (x \o e \o r)
    <3>1. m \o <<>> = m
      BY ConcatEmptySeq
    <3> QED
      BY <2>3, <2>4, <2>6, <2>10, <3>1
  <2>12. m \o (x \o e \o r) = (m \o x) \o e \o r
    <3>1. x \o e \in Seq(Nat) /\ m \o x \in Seq(Nat)
      BY ConcatProperties
    <3>2. (m \o (x \o e)) \o r = m \o ((x \o e) \o r)
      BY <3>1, Regroup
    <3>3. (m \o x) \o e = m \o (x \o e)
      BY Regroup
    <3> QED
      BY <3>2, <3>3
  <2>13. Letters(a, q + 1, keep) = m \o x
    BY <1>00, <2>2, <2>6, <2>7, OneLetterMore
  <2> QED
    BY <2>2, <2>8, <2>11, <2>12, <2>13 DEF Reaches
<1> HIDE DEF T
<1>5. \A n \in Nat : n \in T
  BY <1>3, <1>4, AllOf
<1>6. PICK n \in Nat : n = b - (a + 1) /\ a + 1 + n = b /\ a + 1 + n <= b
  BY <1>0
<1> QED
  BY <1>5, <1>6 DEF T

(***************************************************************************)
(* The next edit i of a text that is the original up to q and R from there *)
(* on: the edits that were made start at q or later, those that are left   *)
(* end before this one starts.                                             *)
(***************************************************************************)
IsNext(C, F, i, q, R) ==
    /\ i \in C /\ q \in 0 .. Len(Text) /\ R \in Seq(Nat) /\ plan[i].end <= q
    /\ \A j \in C : j # i => plan[j].start >= q \/ (plan[j].start < plan[i].start /\ plan[j].end <= plan[i].start)
    /\ plan[i].start < q => R = F[q]
    /\ plan[i].start = q => q = Len(Text) /\ R = <<>>
Keeps(e) == e.op \notin {"replace", "delete"}
Remainder(i, q, R) == Letters(plan[i].end, q, TRUE) \o R

LEMMA NumbersOf ==
    ASSUME NEW C, Fitting(C), NEW F, NEW i, NEW q, NEW R, IsNext(C, F, i, q, R)
    PROVE  /\ plan[i].start \in Nat /\ plan[i].end \in Nat /\ q \in Nat
           /\ plan[i].start <= plan[i].end /\ plan[i].end <= q /\ q <= Len(Text)
           /\ \A j \in C : plan[j].start \in Nat /\ plan[j].end \in Nat /\ plan[j].start <= plan[j].end
<1>1. \A j \in C : plan[j].start \in Int /\ plan[j].end \in Int /\ Fits(j)
  BY SpansAre DEF Fitting
<1> QED
  BY <1>1, TextIsSeq DEF IsNext, Fits

LEMMA AfterTheSpan ==
    ASSUME NEW C, Fitting(C), NEW F, StandsFrom(C, F), NEW i, NEW q, NEW R, IsNext(C, F, i, q, R)
    PROVE  /\ Remainder(i, q, R) \in Seq(Nat)
           /\ plan[i].start < plan[i].end => F[plan[i].end] = Remainder(i, q, R)
           /\ plan[i].start = plan[i].end => Behind(C, F, plan[i].start) = Remainder(i, q, R)
<1>1. PICK a \in Nat, f \in Nat : a = plan[i].start /\ f = plan[i].end
  BY NumbersOf
<1>2. q \in Nat /\ a <= f /\ f <= q /\ q <= Len(Text) /\ f \in 0 .. Len(Text) /\ q \in 0 .. Len(Text) /\ R \in Seq(Nat) /\ i \in C
  <2>1. q \in Nat /\ a <= f /\ f <= q /\ q <= Len(Text)
    BY <1>1, NumbersOf
  <2>2. R \in Seq(Nat) /\ i \in C /\ q \in 0 .. Len(Text)
    BY DEF IsNext
  <2> QED
    BY <2>1, <2>2, TextIsSeq
<1>3. \A j \in C : plan[j].start \in Nat /\ plan[j].end \in Nat
  BY NumbersOf
<1>4. ASSUME NEW j \in C
      PROVE  \E x, y \in Nat : /\ x = plan[j].start /\ y = plan[j].end
                               /\ (x = a /\ y = f) \/ x >= q \/ (x < a /\ y <= a)
  <2>1. j # i => plan[j].start >= q \/ (plan[j].start < a /\ plan[j].end <= a)
    BY <1>1 DEF IsNext
  <2> QED
    BY <1>1, <1>3, <2>1
<1>5. Letters(f, q, TRUE) \in Seq(Nat) /\ Remainder(i, q, R) = Letters(f, q, TRUE) \o R
  <2>1. SubSeq(Text, f + 1, q) \in Seq(Nat)
    BY <1>2, TextIsSeq, SubSeqProperties
  <2> QED
    BY <1>1, <2>1 DEF Letters, Remainder
<1>6. Remainder(i, q, R) \in Seq(Nat)
  BY <1>2, <1>5, ConcatProperties
<1>7. CASE f = q
  <2>1. Letters(f, q, TRUE) = <<>>
    BY <1>2, <1>7, SubSeqEmpty DEF Letters
  <2>2. Remainder(i, q, R) = R
    BY <1>2, <1>5, <2>1, ConcatEmptySeq
  <2>3. a < f => F[f] = R
    BY <1>1, <1>7 DEF IsNext
  <2>4. a = f => Behind(C, F, a) = R
    BY <1>1, <1>7 DEF IsNext, Behind
  <2> QED
    BY <1>1, <1>6, <2>2, <2>3, <2>4
<1>8. CASE f < q
  <2>0. q \in Nat /\ a <= f /\ f < q
    BY <1>2, <1>8
  <2>1. R = F[q]
    BY <1>1, <1>2, <1>8 DEF IsNext
  <2>2. ASSUME NEW p \in f + 1 .. q PROVE Ended(C, p) = <<>>
    <3>1. ASSUME NEW j \in C, plan[j].end = p, plan[j].start < p PROVE FALSE
      <4>1. PICK x, y \in Nat : /\ x = plan[j].start /\ y = plan[j].end
                                /\ (x = a /\ y = f) \/ x >= q \/ (x < a /\ y <= a)
        BY <1>4
      <4>2. y = p /\ x < p
        BY <3>1, <4>1
      <4>3. (x = a /\ y = f) \/ x >= q \/ (x < a /\ y <= a)
        BY <4>1
      <4> QED
        BY <2>0, <4>2, <4>3
    <3> QED
      BY <3>1, NothingEnds
  <2>3. ASSUME NEW p \in f + 1 .. q - 1 PROVE Here(C, p) = <<>>
    <3>1. ASSUME NEW j \in C, plan[j].start = p PROVE FALSE
      <4>1. PICK x, y \in Nat : /\ x = plan[j].start /\ y = plan[j].end
                                /\ (x = a /\ y = f) \/ x >= q \/ (x < a /\ y <= a)
        BY <1>4
      <4>2. x = p
        BY <3>1, <4>1
      <4>3. (x = a /\ y = f) \/ x >= q \/ (x < a /\ y <= a)
        BY <4>1
      <4> QED
        BY <2>0, <4>2, <4>3
    <3> QED
      BY <3>1, NothingHere
  <2>4. ASSUME NEW p \in f + 1 .. q PROVE Letter(C, p) = <<Text[p]>>
    <3>1. ASSUME NEW j \in C, p \in plan[j].start + 1 .. plan[j].end PROVE FALSE
      <4>1. PICK x, y \in Nat : /\ x = plan[j].start /\ y = plan[j].end
                                /\ (x = a /\ y = f) \/ x >= q \/ (x < a /\ y <= a)
        BY <1>4
      <4>2. p > x /\ p <= y
        BY <3>1, <4>1
      <4>3. (x = a /\ y = f) \/ x >= q \/ (x < a /\ y <= a)
        BY <4>1
      <4> QED
        BY <2>0, <4>2, <4>3
    <3> QED
      BY <3>1 DEF Letter
  <2>5. Plain(C, f, q, TRUE)
    BY <1>2, <2>2, <2>3, <2>4 DEF Plain
  <2>6. Behind(C, F, f) = Letters(f, q, TRUE) \o Ended(C, q) \o F[q]
    <3>1. q \in f + 1 .. Len(Text)
      BY <1>2, <1>8, TextIsSeq
    <3> QED
      BY <1>2, <2>5, <3>1, Stretch
  <2>7. Ended(C, q) = <<>>
    BY <1>2, <1>8, <2>2
  <2>8. Behind(C, F, f) = Remainder(i, q, R)
    <3>1. Letters(f, q, TRUE) \o <<>> = Letters(f, q, TRUE)
      BY <1>5, ConcatEmptySeq
    <3> QED
      BY <1>5, <2>1, <2>6, <2>7, <3>1
  <2>9. a < f => F[f] = Remainder(i, q, R)
    <3> SUFFICES ASSUME a < f PROVE F[f] = Remainder(i, q, R)
      OBVIOUS
    <3>1. ASSUME NEW j \in C, plan[j].start = f PROVE FALSE
      <4>1. PICK x, y \in Nat : /\ x = plan[j].start /\ y = plan[j].end
                                /\ (x = a /\ y = f) \/ x >= q \/ (x < a /\ y <= a)
        BY <1>4
      <4> QED
        BY <2>0, <3>1, <4>1
    <3>2. Here(C, f) = <<>>
      BY <3>1, NothingHere
    <3>3. F[f] = <<>> \o Remainder(i, q, R)
      BY <1>2, <2>8, <3>2 DEF StandsFrom
    <3> QED
      BY <1>6, <3>3, ConcatEmptySeq
  <2> QED
    BY <1>1, <1>6, <2>8, <2>9
<1> QED
  BY <1>2, <1>7, <1>8

(* The span of an edit as it has to be, and all that follows.              *)
Rewritten(i, q, R) ==
    Starting(plan[i]) \o Letters(plan[i].start, plan[i].end, Keeps(plan[i])) \o Closing(plan[i]) \o Remainder(i, q, R)

LEMMA FromTheSpan ==
    ASSUME NEW C, Fitting(C), NEW F, StandsFrom(C, F), NEW i, NEW q, NEW R, IsNext(C, F, i, q, R)
    PROVE  F[plan[i].start] = Rewritten(i, q, R)
<1>1. PICK a \in Nat, f \in Nat : a = plan[i].start /\ f = plan[i].end
  BY NumbersOf
<1>2. i \in C /\ q \in Nat /\ a <= f /\ f <= q /\ a \in 0 .. Len(Text) /\ f \in 0 .. Len(Text)
  <2>1. q \in Nat /\ a <= f /\ f <= q /\ q <= Len(Text)
    BY <1>1, NumbersOf
  <2> QED
    BY <2>1, TextIsSeq DEF IsNext
<1>3. PICK b \in Seq(Nat), c \in Seq(Nat) : b = Starting(plan[i]) /\ c = Closing(plan[i])
  BY <1>2, PartsAreTexts
<1>4. PICK r \in Seq(Nat) : r = Remainder(i, q, R)
  BY AfterTheSpan
<1>5. PICK keep \in BOOLEAN : keep = Keeps(plan[i])
  BY DEF Keeps
<1>6. PICK m \in Seq(Nat) : m = Letters(a, f, keep)
  <2>1. SubSeq(Text, a + 1, f) \in Seq(Nat) /\ <<>> \in Seq(Nat)
    BY <1>1, <1>2, PartsAreTexts, EmptySeq
  <2> QED
    BY <2>1 DEF Letters
<1>7. F[a] = Here(C, a) \o Behind(C, F, a)
  BY <1>2 DEF StandsFrom
<1>8. Here(C, a) = b \o (IF f = a THEN c ELSE <<>>)
  BY <1>1, <1>2, <1>3, HereIs
<1>9. CASE a = f
  <2>1. m = <<>>
    <3>1. SubSeq(Text, a + 1, f) = <<>>
      BY <1>9, SubSeqEmpty
    <3> QED
      BY <1>6, <3>1 DEF Letters
  <2>2. Behind(C, F, a) = r
    <3>1. plan[i].start = plan[i].end
      BY <1>1, <1>9
    <3>2. Behind(C, F, plan[i].start) = Remainder(i, q, R)
      BY <3>1, AfterTheSpan
    <3> QED
      BY <1>1, <1>4, <3>2
  <2>3. F[a] = (b \o c) \o r
    BY <1>7, <1>8, <1>9, <2>2
  <2>4. b \o m = b
    BY <2>1, ConcatEmptySeq
  <2> QED
    BY <1>1, <1>3, <1>4, <1>5, <1>6, <2>3, <2>4 DEF Rewritten
<1>10. CASE a < f
  <2>1. ASSUME NEW j \in C
        PROVE  \E x, y \in Nat : /\ x = plan[j].start /\ y = plan[j].end
                                 /\ j = i \/ x >= f \/ y <= a
    <3>1. j # i => plan[j].start >= q \/ plan[j].end <= a
      BY <1>1 DEF IsNext
    <3>2. plan[j].start \in Nat /\ plan[j].end \in Nat
      BY NumbersOf
    <3> QED
      BY <1>2, <3>1, <3>2
  <2>2. ASSUME NEW p \in a + 1 .. f - 1 PROVE Ended(C, p) = <<>> /\ Here(C, p) = <<>>
    <3>1. ASSUME NEW j \in C PROVE plan[j].end # p \/ ~(plan[j].start < p)
      <4>1. PICK x, y \in Nat : /\ x = plan[j].start /\ y = plan[j].end
                                /\ j = i \/ x >= f \/ y <= a
        BY <2>1
      <4>2. j = i => y = f
        BY <1>1, <4>1
      <4>3. ~(y = p /\ x < p)
        BY <4>1, <4>2
      <4> QED
        BY <4>1, <4>3
    <3>2. ASSUME NEW j \in C PROVE plan[j].start # p
      <4>1. PICK x, y \in Nat : /\ x = plan[j].start /\ y = plan[j].end
                                /\ j = i \/ x >= f \/ y <= a
        BY <2>1
      <4>2. x <= y
        BY <4>1, NumbersOf
      <4>3. j = i => x = a
        BY <1>1, <4>1
      <4>4. x # p
        BY <4>1, <4>2, <4>3
      <4> QED
        BY <4>1, <4>4
    <3> QED
      BY <3>1, <3>2, NothingEnds, NothingHere
  <2>3. ASSUME NEW p \in a + 1 .. f PROVE Letter(C, p) = IF keep THEN <<Text[p]>> ELSE <<>>
    <3>1. ASSUME NEW j \in C, p \in plan[j].start + 1 .. plan[j].end PROVE j = i
      <4>1. PICK x, y \in Nat : /\ x = plan[j].start /\ y = plan[j].end
                                /\ j = i \/ x >= f \/ y <= a
        BY <2>1
      <4> QED
        BY <3>1, <4>1
    <3>2. p \in plan[i].start + 1 .. plan[i].end
      BY <1>1
    <3> QED
      BY <1>2, <1>5, <3>1, <3>2 DEF Letter, Keeps
  <2>4. Plain(C, a, f, keep)
    BY <2>2, <2>3 DEF Plain
  <2>5. f \in a + 1 .. Len(Text)
    BY <1>2, <1>10, TextIsSeq
  <2>6. Behind(C, F, a) = m \o Ended(C, f) \o F[f]
    <3>1. Behind(C, F, a) = Letters(a, f, keep) \o Ended(C, f) \o F[f]
      BY <1>2, <2>4, <2>5, Stretch
    <3> QED
      BY <1>6, <3>1
  <2>7. Ended(C, f) = c
    BY <1>1, <1>2, <1>3, <1>10, EndedIs
  <2>8. F[f] = r
    BY <1>1, <1>4, <1>10, AfterTheSpan
  <2>9. F[a] = b \o (m \o c \o r)
    <3>1. b \o <<>> = b /\ f # a
      BY <1>10, ConcatEmptySeq
    <3> QED
      BY <1>7, <1>8, <2>6, <2>7, <2>8, <3>1
  <2>10. b \o (m \o c \o r) = b \o m \o c \o r
    <3>1. m \o c \in Seq(Nat)
      BY ConcatProperties
    <3>2. (b \o (m \o c)) \o r = b \o ((m \o c) \o r)
      BY <3>1, Regroup
    <3>3. (b \o m) \o c = b \o (m \o c)
      BY Regroup
    <3> QED
      BY <3>2, <3>3
  <2> QED
    BY <1>1, <1>3, <1>4, <1>5, <1>6, <2>9, <2>10 DEF Rewritten
<1> QED
  BY <1>2, <1>9, <1>10

LEMMA Join ==
    ASSUME NEW x \in Seq(Nat), NEW y \in Seq(Nat), NEW m \in Nat, NEW n \in Nat, Len(x) = m, Len(y) = n
    PROVE  /\ x \o y \in Seq(Nat) /\ Len(x \o y) = m + n
           /\ \A p \in 1 .. m : (x \o y)[p] = x[p]
           /\ \A p \in m + 1 .. m + n : (x \o y)[p] = y[p - m]
<1>1. /\ x \o y \in Seq(Nat)
      /\ Len(x \o y) = Len(x) + Len(y)
      /\ \A p \in 1 .. Len(x) + Len(y) : (x \o y)[p] = IF p <= Len(x) THEN x[p] ELSE y[p - Len(x)]
  BY ConcatProperties
<1>2. \A p \in 1 .. m + n : (x \o y)[p] = IF p <= m THEN x[p] ELSE y[p - m]
  BY <1>1
<1>3. ASSUME NEW p \in 1 .. m PROVE (x \o y)[p] = x[p]
  <2>1. p \in 1 .. m + n /\ p <= m
    OBVIOUS
  <2> QED
    BY <1>2, <2>1
<1>4. ASSUME NEW p \in m + 1 .. m + n PROVE (x \o y)[p] = y[p - m]
  <2>1. p \in 1 .. m + n /\ ~(p <= m)
    OBVIOUS
  <2> QED
    BY <1>2, <2>1
<1> QED
  BY <1>1, <1>3, <1>4

LEMMA Slice ==
    ASSUME NEW x, NEW m \in Nat, NEW n \in Nat, m <= n, \A p \in m + 1 .. n : x[p] \in Nat
    PROVE  /\ SubSeq(x, m + 1, n) \in Seq(Nat) /\ Len(SubSeq(x, m + 1, n)) = n - m
           /\ \A p \in 1 .. n - m : SubSeq(x, m + 1, n)[p] = x[m + p]
<1>1. PICK b \in Int : b = m + 1
  OBVIOUS
<1>2. \A p \in b .. n : x[p] \in Nat
  BY <1>1
<1>3. /\ SubSeq(x, b, n) \in Seq(Nat)
      /\ Len(SubSeq(x, b, n)) = IF b <= n THEN n - b + 1 ELSE 0
      /\ \A p \in 1 .. n - b + 1 : SubSeq(x, b, n)[p] = x[b + p - 1]
  BY <1>2, SubSeqProperties
<1>4. ASSUME NEW p \in 1 .. n - m PROVE SubSeq(x, b, n)[p] = x[m + p]
  <2>1. p \in 1 .. n - b + 1 /\ b + p - 1 = m + p
    BY <1>1
  <2> QED
    BY <1>3, <2>1
<1>5. Len(SubSeq(x, b, n)) = n - m
  BY <1>1, <1>3
<1> QED
  BY <1>1, <1>3, <1>4, <1>5

(* Cutting a text that is the original up to q.                            *)
IsCut(t, a, f, q, R) ==
    /\ SubSeq(t, 1, a) = SubSeq(Text, 1, a)
    /\ SubSeq(t, a + 1, f) = SubSeq(Text, a + 1, f)
    /\ SubSeq(t, f + 1, Len(t)) = SubSeq(Text, f + 1, q) \o R

LEMMA CutsAre ==
    ASSUME NEW a \in Nat, NEW f \in Nat, NEW q \in Nat, a <= f, f <= q, q <= Len(Text), NEW R \in Seq(Nat),
           NEW t, t = SubSeq(Text, 1, q) \o R
    PROVE  IsCut(t, a, f, q, R)
<1>0. ASSUME NEW p \in 1 .. q PROVE Text[p] \in Nat
  BY TextIsSeq
<1>1. PICK h \in Seq(Nat) : h = SubSeq(Text, 1, q) /\ Len(h) = q /\ \A p \in 1 .. q : h[p] = Text[p]
  <2>1. 0 + 1 = 1 /\ q - 0 = q /\ (\A p \in 1 .. q : 0 + p = p) /\ (\A p \in 0 + 1 .. q : Text[p] \in Nat)
    BY <1>0
  <2>2. SubSeq(Text, 0 + 1, q) \in Seq(Nat) /\ Len(SubSeq(Text, 0 + 1, q)) = q - 0 /\ \A p \in 1 .. q - 0 : SubSeq(Text, 0 + 1, q)[p] = Text[0 + p]
    BY <2>1, Slice
  <2> QED
    BY <2>1, <2>2
<1>2. PICK n \in Nat : n = Len(R)
  BY LenProperties
<1>3. /\ t \in Seq(Nat) /\ Len(t) = q + n
      /\ \A p \in 1 .. q : t[p] = Text[p] /\ t[p] \in Nat
      /\ \A p \in q + 1 .. q + n : t[p] = R[p - q]
  <2>1. t = h \o R
    BY <1>1
  <2> QED
    BY <1>0, <1>1, <1>2, <2>1, Join
<1>4. ASSUME NEW x \in 0 .. q, NEW y \in x .. q
      PROVE  /\ SubSeq(t, x + 1, y) = SubSeq(Text, x + 1, y)
  <2>1. \A p \in x + 1 .. y : t[p] = Text[p] /\ t[p] \in Nat /\ Text[p] \in Nat
    BY <1>0, <1>3
  <2>2. /\ SubSeq(t, x + 1, y) \in Seq(Nat) /\ Len(SubSeq(t, x + 1, y)) = y - x
        /\ \A p \in 1 .. y - x : SubSeq(t, x + 1, y)[p] = t[x + p]
    BY <2>1, Slice
  <2>3. /\ SubSeq(Text, x + 1, y) \in Seq(Nat) /\ Len(SubSeq(Text, x + 1, y)) = y - x
        /\ \A p \in 1 .. y - x : SubSeq(Text, x + 1, y)[p] = Text[x + p]
    BY <2>1, Slice
  <2>4. ASSUME NEW p \in 1 .. y - x PROVE SubSeq(t, x + 1, y)[p] = SubSeq(Text, x + 1, y)[p]
    <3>1. x + p \in x + 1 .. y
      OBVIOUS
    <3> QED
      BY <2>1, <2>2, <2>3, <3>1
  <2> QED
    BY <2>2, <2>3, <2>4, SeqEqual
<1>5. SubSeq(t, f + 1, q + n) = SubSeq(Text, f + 1, q) \o R
  <2>1. PICK m \in Nat, l \in Nat : m = q - f /\ l = q + n /\ f <= l /\ l - f = m + n
    OBVIOUS
  <2>2. PICK g \in Seq(Nat) : g = SubSeq(Text, f + 1, q) /\ Len(g) = m /\ \A p \in 1 .. m : g[p] = Text[f + p]
    <3>1. \A p \in f + 1 .. q : Text[p] \in Nat
      BY <1>0
    <3>2. /\ SubSeq(Text, f + 1, q) \in Seq(Nat) /\ Len(SubSeq(Text, f + 1, q)) = q - f
          /\ \A p \in 1 .. q - f : SubSeq(Text, f + 1, q)[p] = Text[f + p]
      BY <3>1, Slice
    <3> QED
      BY <2>1, <3>2
  <2>3. /\ g \o R \in Seq(Nat) /\ Len(g \o R) = m + n
        /\ \A p \in 1 .. m : (g \o R)[p] = g[p]
        /\ \A p \in m + 1 .. m + n : (g \o R)[p] = R[p - m]
    <3>1. Len(g) = m /\ Len(R) = n
      BY <1>2, <2>2
    <3>2. g \o R \in Seq(Nat) /\ Len(g \o R) = m + n
      BY <3>1, Join
    <3>3. \A p \in 1 .. m : (g \o R)[p] = g[p]
      BY <3>1, Join
    <3>4. ASSUME NEW p \in m + 1 .. m + n PROVE (g \o R)[p] = R[p - m]
      <4>1. /\ Len(g \o R) = Len(g) + Len(R)
            /\ \A x \in 1 .. Len(g) + Len(R) : (g \o R)[x] = IF x <= Len(g) THEN g[x] ELSE R[x - Len(g)]
        BY ConcatProperties
      <4>2. \A x \in 1 .. m + n : (g \o R)[x] = IF x <= m THEN g[x] ELSE R[x - m]
        BY <3>1, <4>1
      <4>3. p \in 1 .. m + n /\ ~(p <= m)
        OBVIOUS
      <4> QED
        BY <4>2, <4>3
    <3> QED
      BY <3>2, <3>3, <3>4
  <2>4. ASSUME NEW p \in f + 1 .. l PROVE t[p] \in Nat
    <3>1. p \in 1 .. Len(t)
      BY <1>3, <2>1
    <3> QED
      BY <1>3, <3>1, ElementOfSeq
  <2>5. /\ SubSeq(t, f + 1, l) \in Seq(Nat) /\ Len(SubSeq(t, f + 1, l)) = l - f
        /\ \A p \in 1 .. l - f : SubSeq(t, f + 1, l)[p] = t[f + p]
    <3>1. f <= l /\ \A p \in f + 1 .. l : t[p] \in Nat
      BY <2>1, <2>4
    <3> QED
      BY <3>1, Slice
  <2>6. ASSUME NEW p \in 1 .. m + n PROVE SubSeq(t, f + 1, l)[p] = (g \o R)[p]
    <3>1. SubSeq(t, f + 1, l)[p] = t[f + p]
      BY <2>1, <2>5
    <3>2. CASE p <= m
      <4>1. f + p \in 1 .. q /\ p \in 1 .. m
        BY <2>1, <3>2
      <4>2. t[f + p] = Text[f + p] /\ g[p] = Text[f + p] /\ (g \o R)[p] = g[p]
        BY <1>3, <2>2, <2>3, <4>1
      <4> QED
        BY <3>1, <4>2
    <3>3. CASE ~(p <= m)
      <4>1. f + p \in q + 1 .. q + n /\ p \in m + 1 .. m + n /\ (f + p) - q = p - m
        BY <2>1, <3>3
      <4>2. t[f + p] = R[(f + p) - q] /\ (g \o R)[p] = R[p - m]
        BY <1>3, <2>3, <4>1
      <4> QED
        BY <3>1, <4>1, <4>2
    <3> QED
      BY <3>2, <3>3
  <2>7. SubSeq(t, f + 1, l) = g \o R
    BY <2>1, <2>3, <2>5, <2>6, SeqEqual
  <2> QED
    BY <2>1, <2>2, <2>7
<1>6. 0 \in 0 .. q /\ a \in 0 .. q /\ f \in a .. q /\ a \in 0 .. q /\ 0 + 1 = 1
  OBVIOUS
<1>7. SubSeq(t, 0 + 1, a) = SubSeq(Text, 0 + 1, a) /\ SubSeq(t, a + 1, f) = SubSeq(Text, a + 1, f)
  BY <1>4, <1>6
<1> QED
  BY <1>3, <1>5, <1>6, <1>7 DEF IsCut

(* One edit: what stands from its start on is now what should.             *)
LEMMA EditStands ==
    ASSUME NEW C, Fitting(C), NEW F, StandsFrom(C, F), NEW i, NEW q, NEW R, IsNext(C, F, i, q, R),
           NEW u \in Edited(SubSeq(Text, 1, q) \o R, plan[i])
    PROVE  u = SubSeq(Text, 1, plan[i].start) \o F[plan[i].start]
<1>1. PICK a \in Nat, f \in Nat : a = plan[i].start /\ f = plan[i].end
  BY NumbersOf
<1>2. q \in Nat /\ a <= f /\ f <= q /\ q <= Len(Text) /\ R \in Seq(Nat) /\ i \in C
  <2>1. q \in Nat /\ a <= f /\ f <= q /\ q <= Len(Text)
    BY <1>1, NumbersOf
  <2> QED
    BY <2>1 DEF IsNext
<1>3. PICK t : t = SubSeq(Text, 1, q) \o R
  OBVIOUS
<1>4. PICK r \in Seq(Nat) : r = Remainder(i, q, R)
  BY AfterTheSpan
<1>5. PICK h \in Seq(Nat), m \in Seq(Nat) : h = SubSeq(Text, 1, a) /\ m = SubSeq(Text, a + 1, f)
  <2>1. \A p \in 1 .. a : Text[p] \in Nat
    BY <1>2, TextIsSeq
  <2>2. SubSeq(Text, 1, a) \in Seq(Nat)
    BY <2>1, SubSeqProperties
  <2>3. SubSeq(Text, a + 1, f) \in Seq(Nat)
    BY <1>1, <1>2, PartsAreTexts
  <2> QED
    BY <2>2, <2>3
<1>6. SubSeq(t, 1, a) = h /\ SubSeq(t, a + 1, f) = m /\ SubSeq(t, f + 1, Len(t)) = r
  <2>1. /\ SubSeq(t, 1, a) = SubSeq(Text, 1, a)
        /\ SubSeq(t, a + 1, f) = SubSeq(Text, a + 1, f)
        /\ SubSeq(t, f + 1, Len(t)) = SubSeq(Text, f + 1, q) \o R
    <3>1. IsCut(t, a, f, q, R)
      BY <1>2, <1>3, CutsAre
    <3> QED
      BY <3>1 DEF IsCut
  <2>2. r = SubSeq(Text, f + 1, q) \o R
    BY <1>1, <1>4 DEF Remainder, Letters
  <2> QED
    BY <1>5, <2>1, <2>2
<1>7. PICK v \in Seq(Nat) : v = <<plan[i].letter>>
  <2>1. PICK l \in Nat : l = plan[i].letter
    BY <1>2, SpansAre DEF Fitting
  <2>2. <<l>> \in Seq(Nat)
    OBVIOUS
  <2> QED
    BY <2>1, <2>2
<1>8. u \in CASE plan[i].op = "replace" -> {h \o v \o r}
              [] plan[i].op \in {"append_suffix", "insert_after"} -> {h \o m \o v \o r}
              [] plan[i].op \in {"prepend_prefix", "insert_before"} -> {h \o v \o m \o r}
              [] plan[i].op = "wrap" -> {h \o v \o m \o v \o r}
              [] plan[i].op = "delete" -> {h \o r}
              [] plan[i].op = "duplicate" -> {h \o m \o v \o m \o r}
              [] OTHER -> {}
  BY <1>1, <1>3, <1>6, <1>7 DEF Edited
<1>9. F[a] = Starting(plan[i]) \o Letters(a, f, Keeps(plan[i])) \o Closing(plan[i]) \o r
  <2>1. F[plan[i].start] = Rewritten(i, q, R)
    BY FromTheSpan
  <2> QED
    BY <1>1, <1>4, <2>1 DEF Rewritten
<1>10. u = h \o F[a]
  <2>1. CASE plan[i].op = "replace"
    <3>1. F[a] = v \o <<>> \o <<>> \o r /\ u = h \o v \o r
      BY <1>7, <1>8, <1>9, <2>1 DEF Starting, Closing, Keeps, Letters
    <3>2. v \o <<>> \o <<>> = v
      BY ConcatEmptySeq
    <3>3. (h \o v) \o r = h \o (v \o r)
      BY Regroup, Zenon
    <3> QED
      BY <3>1, <3>2, <3>3, Zenon
  <2>2. CASE plan[i].op \in {"append_suffix", "insert_after"}
    <3>1. F[a] = <<>> \o m \o v \o r /\ u = h \o m \o v \o r
      BY <1>5, <1>7, <1>8, <1>9, <2>2 DEF Starting, Closing, Keeps, Letters
    <3>2. <<>> \o m = m
      BY ConcatEmptySeq
    <3>3. Cat(Cat(Cat(h, m), v), r) = Cat(h, Cat(Cat(m, v), r))
      BY Regroup3
    <3> QED
      BY <3>1, <3>2, <3>3, Zenon DEF Cat
  <2>3. CASE plan[i].op \in {"prepend_prefix", "insert_before"}
    <3>1. F[a] = v \o m \o <<>> \o r /\ u = h \o v \o m \o r
      BY <1>5, <1>7, <1>8, <1>9, <2>3 DEF Starting, Closing, Keeps, Letters
    <3>2. v \o m \o <<>> = v \o m
      BY ConcatProperties, ConcatEmptySeq
    <3>3. Cat(Cat(Cat(h, v), m), r) = Cat(h, Cat(Cat(v, m), r))
      BY Regroup3
    <3> QED
      BY <3>1, <3>2, <3>3, Zenon DEF Cat
  <2>4. CASE plan[i].op = "wrap"
    <3>1. F[a] = v \o m \o v \o r /\ u = h \o v \o m \o v \o r
      BY <1>5, <1>7, <1>8, <1>9, <2>4 DEF Starting, Closing, Keeps, Letters
    <3>2. Cat(Cat(Cat(Cat(h, v), m), v), r) = Cat(h, Cat(Cat(Cat(v, m), v), r))
      BY Regroup4
    <3> QED
      BY <3>1, <3>2, Zenon DEF Cat
  <2>5. CASE plan[i].op = "delete"
    <3>1. F[a] = <<>> \o <<>> \o <<>> \o r /\ u = h \o r
      BY <1>8, <1>9, <2>5 DEF Starting, Closing, Keeps, Letters
    <3>2. <<>> \o <<>> \o <<>> \o r = r
      BY ConcatEmptySeq
    <3> QED
      BY <3>1, <3>2
  <2>6. CASE plan[i].op = "duplicate"
    <3>1. F[a] = <<>> \o m \o (v \o m) \o r /\ u = h \o m \o v \o m \o r
      BY <1>1, <1>5, <1>7, <1>8, <1>9, <2>6 DEF Starting, Closing, Keeps, Letters
    <3>2. <<>> \o m = m
      BY ConcatEmptySeq
    <3>3. Cat(Cat(Cat(Cat(h, m), v), m), r) = Cat(h, Cat(Cat(Cat(m, v), m), r))
      BY Regroup4
    <3>4. m \o v \o m = m \o (v \o m)
      BY Regroup, Zenon
    <3> QED
      BY <3>1, <3>2, <3>3, <3>4, Zenon DEF Cat
  <2> QED
    BY <1>8, <2>1, <2>2, <2>3, <2>4, <2>5, <2>6
<1> QED
  BY <1>1, <1>5, <1>10

(***************************************************************************)
(* All edits of a combination: after each, the text is the original up to  *)
(* the start of that edit, and from there on what should stand.            *)
(***************************************************************************)
UpToHere(F, q) == SubSeq(Text, 1, q) \o F[q]

LEMMA OrderedEdits ==
    ASSUME NEW C, Fitting(C), NEW F, StandsFrom(C, F), NEW A, AfterEdits(A, EditOrder(C), Cardinality(C))
    PROVE  \A n \in 1 .. Cardinality(C) : \A t \in A[n] : t = UpToHere(F, plan[EditOrder(C)[n]].start)
<1>0. Compatible(C) /\ \A i \in C : Fits(i)
  BY DEF Fitting
<1>1. PICK k \in Nat : k = Cardinality(C)
  BY <1>0, CountIs
<1>2. PICK o : o = EditOrder(C)
  OBVIOUS
<1>3. /\ \A n \in 1 .. k : o[n] \in C
      /\ \A i \in C : \E n \in 1 .. k : o[n] = i
      /\ \A m, n \in 1 .. k : m < n => plan[o[n]].start < plan[o[m]].start
  BY <1>0, <1>1, <1>2, OrderIs
<1>4. A[0] = {Text} /\ \A i \in 0 .. k - 1 : A[i + 1] = UNION {Edited(t, plan[o[i + 1]]) : t \in A[i]}
  <2>1. AfterEdits(A, o, k)
    BY <1>1, <1>2
  <2> QED
    BY <2>1 DEF AfterEdits
<1>5. \A j \in C : plan[j].start \in Nat /\ plan[j].end \in Nat /\ plan[j].start <= plan[j].end /\ plan[j].end <= Len(Text)
  BY <1>0, SpansAre, TextIsSeq DEF Fits
<1> DEFINE T == {n \in Nat : n \in 1 .. k => \A t \in A[n] : t = UpToHere(F, plan[o[n]].start)}
<1>6. 0 \in T
  OBVIOUS
<1>7. ASSUME NEW n \in Nat, n \in T PROVE n + 1 \in T
  <2> SUFFICES ASSUME n + 1 <= k, NEW u \in A[n + 1] PROVE u = UpToHere(F, plan[o[n + 1]].start)
    OBVIOUS
  <2>1. n \in 0 .. k - 1 /\ n + 1 \in 1 .. k
    OBVIOUS
  <2>2. PICK i \in C : i = o[n + 1]
    BY <1>3, <2>1
  <2>3. PICK t \in A[n] : u \in Edited(t, plan[i])
    BY <1>4, <2>1, <2>2
  <2>4. ASSUME NEW j \in C, j # i
        PROVE  \E m \in 1 .. k : j = o[m] /\ (m <= n \/ (plan[j].start < plan[i].start /\ plan[j].end <= plan[i].start))
    <3>1. PICK m \in 1 .. k : o[m] = j
      BY <1>3
    <3>2. m # n + 1
      BY <2>2, <2>4, <3>1
    <3>3. CASE m <= n
      BY <3>1, <3>3
    <3>4. CASE n + 1 < m
      <4>1. plan[j].start < plan[i].start
        BY <1>3, <2>1, <2>2, <3>1, <3>4
      <4>2. plan[j].end <= plan[i].start
        BY <1>0, <1>5, <4>1, Apart
      <4> QED
        BY <3>1, <4>1, <4>2
    <3> QED
      BY <2>1, <3>2, <3>3, <3>4
  <2>5. CASE n = 0
    <3>1. PICK q \in Nat : q = Len(Text)
      BY TextIsSeq
    <3>2. \A j \in C : j # i => plan[j].start < plan[i].start /\ plan[j].end <= plan[i].start
      BY <2>4, <2>5
    <3>3. plan[i].start < q => <<>> = F[q]
      <4> SUFFICES ASSUME plan[i].start < q PROVE <<>> = F[q]
        OBVIOUS
      <4>1. \A j \in C : plan[j].start # q
        BY <1>5, <3>2
      <4>2. Here(C, q) = <<>>
        BY <4>1, NothingHere
      <4>3. Behind(C, F, q) = <<>> /\ q \in 0 .. Len(Text)
        BY <3>1 DEF Behind
      <4>4. F[q] = <<>> \o <<>>
        BY <4>2, <4>3 DEF StandsFrom
      <4> QED
        BY <4>4
    <3>4. IsNext(C, F, i, q, <<>>)
      BY <1>5, <3>1, <3>2, <3>3, EmptySeq DEF IsNext
    <3>5. t = SubSeq(Text, 1, q) \o <<>>
      <4>1. t = Text
        BY <1>4, <2>3, <2>5
      <4>2. SubSeq(Text, 1, q) = Text
        BY <3>1, TextIsSeq, SubSeqFull
      <4>3. Text \o <<>> = Text
        BY TextIsSeq, ConcatEmptySeq
      <4> QED
        BY <4>1, <4>2, <4>3
    <3>6. u = SubSeq(Text, 1, plan[i].start) \o F[plan[i].start]
      BY <2>3, <3>4, <3>5, EditStands
    <3> QED
      BY <2>2, <3>6 DEF UpToHere
  <2>6. CASE n # 0
    <3>1. n \in 1 .. k /\ n < n + 1
      BY <2>1, <2>6
    <3>2. PICK l \in C : l = o[n]
      BY <1>3, <3>1
    <3>3. PICK q \in Nat : q = plan[l].start
      BY <1>5
    <3>4. plan[i].start < q
      BY <1>3, <2>1, <2>2, <3>1, <3>2, <3>3
    <3>5. plan[i].end <= q
      BY <1>0, <1>5, <3>3, <3>4, Apart
    <3>6. ASSUME NEW j \in C, j # i
          PROVE  plan[j].start >= q \/ (plan[j].start < plan[i].start /\ plan[j].end <= plan[i].start)
      <4>1. PICK m \in 1 .. k : j = o[m] /\ (m <= n \/ (plan[j].start < plan[i].start /\ plan[j].end <= plan[i].start))
        BY <2>4, <3>6
      <4>2. CASE m < n
        <5>1. plan[l].start < plan[j].start
          BY <1>3, <3>1, <3>2, <4>1, <4>2
        <5> QED
          BY <1>5, <3>3, <5>1
      <4>3. CASE m = n
        BY <1>5, <3>2, <3>3, <4>1, <4>3
      <4> QED
        BY <4>1, <4>2, <4>3
    <3>7. PICK R \in Seq(Nat) : R = F[q]
      <4>1. q \in 0 .. Len(Text)
        BY <1>5, <3>3, TextIsSeq
      <4> QED
        BY <4>1, BehindIsText
    <3>8. IsNext(C, F, i, q, R)
      <4>1. q \in 0 .. Len(Text) /\ plan[i].start # q
        BY <1>5, <3>3, <3>4, TextIsSeq
      <4> QED
        BY <3>5, <3>6, <3>7, <4>1 DEF IsNext
    <3>9. t = SubSeq(Text, 1, q) \o R
      BY <1>7, <2>3, <3>1, <3>2, <3>3, <3>7 DEF UpToHere
    <3>10. u = SubSeq(Text, 1, plan[i].start) \o F[plan[i].start]
      BY <2>3, <3>8, <3>9, EditStands
    <3> QED
      BY <2>2, <3>10 DEF UpToHere
  <2> QED
    BY <2>5, <2>6
<1> HIDE DEF T
<1>8. \A n \in Nat : n \in T
  BY <1>6, <1>7, AllOf
<1> QED
  BY <1>1, <1>2, <1>8 DEF T

LEMMA AppliedStands ==
    ASSUME NEW C, Compatible(C), C # {}, NEW u \in Applied(C)
    PROVE  u = Local(C)
<1>1. PICK k \in Nat : k = Cardinality(C)
  BY CountIs
<1>2. PICK A : AfterEdits(A, EditOrder(C), k) /\ Applied(C) = A[k]
  BY <1>1, AppliedIs
<1>3. Fitting(C)
  <2>1. \A i \in C : Fits(i)
    BY <1>1, <1>2, AppliedFit
  <2> QED
    BY <2>1 DEF Fitting
<1>4. PICK F : StandsFrom(C, F) /\ Local(C) = F[0]
  BY LocalIs
<1>5. PICK o : o = EditOrder(C)
  OBVIOUS
<1>6. /\ \A n \in 1 .. k : o[n] \in C
      /\ \A i \in C : \E n \in 1 .. k : o[n] = i
      /\ \A m, n \in 1 .. k : m < n => plan[o[n]].start < plan[o[m]].start
  BY <1>1, <1>5, OrderIs
<1>7. k \in 1 .. k
  BY <1>6
<1>8. PICK l \in C : l = o[k]
  BY <1>6, <1>7
<1>9. u = UpToHere(F, plan[l].start)
  BY <1>1, <1>2, <1>3, <1>4, <1>5, <1>7, <1>8, OrderedEdits
<1>10. \A j \in C : plan[j].start \in Nat /\ plan[j].end \in Nat /\ plan[j].start <= plan[j].end /\ plan[j].end <= Len(Text)
  BY <1>3, SpansAre, TextIsSeq DEF Fits, Fitting
<1>11. PICK q \in Nat : q = plan[l].start
  BY <1>10
<1>12. ASSUME NEW j \in C PROVE plan[j].start >= q
  <2>1. PICK m \in 1 .. k : o[m] = j
    BY <1>6
  <2>2. CASE m = k
    BY <1>8, <1>10, <1>11, <2>1, <2>2
  <2>3. CASE m < k
    <3>1. plan[l].start < plan[j].start
      BY <1>6, <1>7, <1>8, <2>1, <2>3
    <3> QED
      BY <1>10, <1>11, <3>1
  <2> QED
    BY <2>2, <2>3
<1>13. q \in 0 .. Len(Text) /\ 0 \in 0 .. Len(Text)
  BY <1>10, <1>11, TextIsSeq
<1>14. F[q] \in Seq(Nat) /\ F[0] \in Seq(Nat) /\ Behind(C, F, 0) \in Seq(Nat)
  BY <1>3, <1>4, <1>13, BehindIsText
<1>15. CASE q = 0
  <2>1. SubSeq(Text, 1, 0) = <<>>
    BY SubSeqEmpty
  <2>2. u = <<>> \o F[0]
    BY <1>9, <1>11, <1>15, <2>1 DEF UpToHere
  <2> QED
    BY <1>4, <1>14, <2>2, ConcatEmptySeq
<1>16. CASE q # 0
  <2>1. \A j \in C : plan[j].start # 0
    BY <1>10, <1>12, <1>16
  <2>2. F[0] = Behind(C, F, 0)
    <3>1. Here(C, 0) = <<>>
      BY <2>1, NothingHere
    <3>2. F[0] = <<>> \o Behind(C, F, 0)
      BY <1>4, <1>13, <3>1 DEF StandsFrom
    <3> QED
      BY <1>14, <3>2, ConcatEmptySeq
  <2>3. ASSUME NEW p \in 0 + 1 .. q PROVE Ended(C, p) = <<>> /\ Letter(C, p) = <<Text[p]>>
    <3>1. \A j \in C : ~(plan[j].start < p)
      BY <1>10, <1>12
    <3>2. \A j \in C : p \notin plan[j].start + 1 .. plan[j].end
      BY <1>10, <3>1
    <3> QED
      BY <3>1, <3>2, NothingEnds DEF Letter
  <2>4. ASSUME NEW p \in 0 + 1 .. q - 1 PROVE Here(C, p) = <<>>
    <3>1. \A j \in C : plan[j].start # p
      BY <1>10, <1>12
    <3> QED
      BY <3>1, NothingHere
  <2>5. Plain(C, 0, q, TRUE)
    BY <2>3, <2>4 DEF Plain
  <2>6. Behind(C, F, 0) = Letters(0, q, TRUE) \o Ended(C, q) \o F[q]
    <3>1. q \in 0 + 1 .. Len(Text)
      BY <1>13, <1>16
    <3> QED
      BY <1>3, <1>4, <1>13, <2>5, <3>1, Stretch
  <2>7. Ended(C, q) = <<>>
    BY <1>16, <2>3
  <2>8. PICK h \in Seq(Nat) : h = SubSeq(Text, 1, q) /\ h = Letters(0, q, TRUE)
    <3>1. \A p \in 1 .. q : Text[p] \in Nat
      BY <1>13, TextIsSeq
    <3>2. SubSeq(Text, 1, q) \in Seq(Nat)
      BY <3>1, SubSeqProperties
    <3>3. Letters(0, q, TRUE) = SubSeq(Text, 0 + 1, q) /\ 0 + 1 = 1
      BY DEF Letters
    <3> QED
      BY <3>2, <3>3
  <2>9. h \o <<>> = h
    BY ConcatEmptySeq
  <2> QED
    BY <1>4, <1>9, <1>11, <2>2, <2>6, <2>7, <2>8, <2>9 DEF UpToHere
<1> QED
  BY <1>15, <1>16

----------------------------------------------------------------------------
(* The combinations of a resolved plan go together.                        *)
LEMMA CombinationsAre ==
    ASSUME PlanIsResolved, NEW C \in Combinations(plan), DistinctStarts(C)
    PROVE  Compatible(C) /\ C # {}
<1>1. C \in SUBSET DOMAIN plan /\ C # {}
  <2>1. CASE \E i \in DOMAIN plan : C = {i}
    BY <2>1
  <2>2. CASE C \in kSubset(2, DOMAIN plan) \cup kSubset(3, DOMAIN plan)
    <3>1. C \in SUBSET DOMAIN plan /\ Cardinality(C) # 0
      BY <2>2 DEF kSubset
    <3> QED
      BY <3>1, FS_EmptySet
  <2> QED
    BY <2>1, <2>2 DEF Combinations
<1>2. IsFiniteSet(C)
  BY <1>1, FS_Interval, FS_Subset DEF PlanIsResolved
<1>3. ASSUME NEW i \in C, NEW j \in C, i # j PROVE ~Conflict(plan[i], plan[j])
  <2>1. \A x, y \in C : x < y => ~Conflict(plan[x], plan[y])
    <3>1. C # {i} /\ C # {j}
      BY <1>3
    <3>2. ~\E x \in DOMAIN plan : C = {x}
      BY <1>3
    <3> QED
      BY <3>2 DEF Combinations
  <2>2. i \in Int /\ j \in Int
    BY <1>1 DEF PlanIsResolved
  <2>3. i < j \/ j < i
    BY <1>3, <2>2
  <2> QED
    BY <2>1, <2>3 DEF Conflict
<1> QED
  BY <1>1, <1>2, <1>3 DEF Compatible

LEMMA LocalKept == ASSUME NEW C, plan' = plan PROVE Local(C)' = Local(C)
  BY DEF Local, Here, Letter, Ended, StartingAt, EndingAt, Starting, Closing, Only

(***************************************************************************)
(* What the texts rest on: the plan is resolved and the combinations that  *)
(* are left are its combinations.                                          *)
(***************************************************************************)
EditsInv ==
    /\ setting \in Settings
    /\ PlanIsResolved
    /\ pending \subseteq Combinations(plan)
    /\ EditsCompose

LEMMA EditsKept ==
    ASSUME EditsInv, setting' = setting, plan' = plan, pending' \subseteq pending,
           \A w \in written' : w \in written \/ (DistinctStarts(w.edits) => w.text = Local(w.edits))
    PROVE  EditsInv'
<1>1. \A w \in written' : DistinctStarts(w.edits) => w.text = Local(w.edits)
  BY DEF EditsInv, EditsCompose
<1>2. EditsCompose'
  <2>1. ASSUME NEW w \in written', DistinctStarts(w.edits)' PROVE w.text = Local(w.edits)'
    <3>1. DistinctStarts(w.edits)
      BY <2>1 DEF DistinctStarts
    <3>2. Local(w.edits)' = Local(w.edits)
      BY LocalKept
    <3> QED
      BY <1>1, <3>1, <3>2
  <2> QED
    BY <2>1 DEF EditsCompose
<1>3. Combinations(plan') = Combinations(plan)
  OBVIOUS
<1> QED
  BY <1>2, <1>3 DEF EditsInv, PlanIsResolved

LEMMA EditsHold == EditsInv /\ [Next]_planVars => EditsInv'
<1> SUFFICES ASSUME EditsInv, [Next]_planVars PROVE EditsInv'
  OBVIOUS
<1>1. ASSUME NEW p \in setting.plans, Begin(p), setting' = setting PROVE EditsInv'
  <2>1. PlanIsResolved'
    BY <1>1, ResolvedLists DEF Begin, EditsInv
  <2>2. pending' = Combinations(plan') /\ written' = {}
    BY <1>1 DEF Begin
  <2> QED
    BY <1>1, <2>1, <2>2 DEF EditsInv, EditsCompose
<1>2. ASSUME NEW C \in pending, Try(C), setting' = setting PROVE EditsInv'
  <2>1. plan' = plan /\ pending' \subseteq pending
    BY <1>2 DEF Try
  <2>2. CASE Wanted(Applied(C))
    <3>1. PICK u : u = Only(Applied(C)) /\ u \in Applied(C)
      BY <2>2, OnlyOf DEF Wanted
    <3>2. written' = written \cup {[edits |-> C, text |-> u]}
      BY <1>2, <2>2, <3>1 DEF Try
    <3>3. DistinctStarts(C) => u = Local(C)
      BY <3>1, CombinationsAre, AppliedStands DEF EditsInv
    <3>4. \A w \in written' : w \in written \/ (DistinctStarts(w.edits) => w.text = Local(w.edits))
      BY <3>2, <3>3
    <3> QED
      BY <1>2, <2>1, <3>4, EditsKept
  <2>3. CASE ~Wanted(Applied(C))
    <3>1. written' = written
      BY <1>2, <2>3 DEF Try
    <3> QED
      BY <1>2, <2>1, <3>1, EditsKept
  <2> QED
    BY <2>2, <2>3
<1>3. ASSUME Stop, setting' = setting PROVE EditsInv'
  BY <1>3, EditsKept DEF Stop
<1>4. ASSUME ArtifactArrives, setting' = setting PROVE EditsInv'
  BY <1>4, EditsKept DEF ArtifactArrives
<1>5. ASSUME GateTakes, setting' = setting PROVE EditsInv'
  BY <1>5, EditsKept DEF GateTakes
<1>6. CASE UNCHANGED planVars
  BY <1>6, EditsKept DEF planVars
<1> QED
  BY <1>1, <1>2, <1>3, <1>4, <1>5, <1>6 DEF Next, TryNext

(***************************************************************************)
(* Every text that a plan makes is what its edits make of the original,    *)
(* each at its own span, although they are applied one after the other to  *)
(* texts whose positions have moved: execute_text_mutation_plan applies    *)
(* them from the right, and the spans of a combination do not overlap.     *)
(***************************************************************************)
THEOREM EditsStandAlone == Spec => []EditsCompose
<1>1. Init => EditsInv
  <2> SUFFICES ASSUME Init PROVE EditsInv
    OBVIOUS
  <2>1. plan = <<>> /\ pending = {} /\ written = {} /\ setting \in Settings
    BY DEF Init
  <2>2. DOMAIN plan = 1 .. 0 /\ DOMAIN plan = {}
    BY <2>1
  <2>3. PlanIsResolved
    BY <2>2 DEF PlanIsResolved
  <2> QED
    BY <2>1, <2>3 DEF EditsInv, EditsCompose
<1>2. EditsInv => EditsCompose
  BY DEF EditsInv
<1> QED
  BY <1>1, <1>2, EditsHold, PTL DEF Spec

----------------------------------------------------------------------------
(***************************************************************************)
(* FlagRec: candidates are made of the evidence in the files looked at,    *)
(* flags of candidates and at most one group, and the groups have          *)
(* different ids.                                                          *)
(***************************************************************************)
Evidence(m) ==
    {Flags!Global(g) : g \in Flags!Range(m.globals)} \cup {Flags!Local(v) : v \in Flags!Range(m.locals)}
    \cup {Flags!Member(m, i) : i \in DOMAIN m.accesses}
FilesSeen == IF input.bitcode THEN {1} ELSE DOMAIN input.files
EvidenceSeen == UNION {Evidence(input.files[k].ir) : k \in FilesSeen}
Reported == {Flags!Flag(c, match) : c \in EvidenceSeen, match \in {{}} \cup {{g} : g \in groups}}

FlagInv ==
    /\ tool # "idle" => input \in Inputs
    /\ file \in Nat \ {0}
    /\ \A g, h \in groups : g.id = h.id => g = h
    /\ tool \in {"idle", "constants"} => candidates = <<>>
    /\ tool # "idle" => candidates \in Seq(EvidenceSeen)
    /\ tool \in {"idle", "constants", "variables"} =>
          identified = 0 /\ filtered = 0 /\ flagVariables = <<>>
    /\ identified \in Nat /\ filtered \in Nat
    /\ tool # "idle" => flagVariables \in Seq(Reported)
    /\ Len(flagVariables) + filtered = identified

LEMMA SameFlagCounting == \A T : Flags!Cardinality(T) = Cardinality(T)
BY DEF Cardinality, Flags!Cardinality

(* A set that is put into a list.                                          *)
LEMMA Listed ==
    ASSUME NEW S, IsFiniteSet(S)
    PROVE  Flags!SetToSeq(S) \in Seq(S)
<1> DEFINE n == Cardinality(S)
<1>1. n \in Nat /\ ExistsBijection(1 .. n, S)
  BY FS_CardinalityType
<1>2. \E f \in [1 .. n -> S] : Flags!IsInjective(f)
  BY <1>1 DEF ExistsBijection, Bijection, Injection, IsInjective, Flags!IsInjective
<1>3. Flags!SetToSeq(S) \in [1 .. n -> S]
  BY <1>2, SameFlagCounting DEF Flags!SetToSeq
<1> QED
  BY <1>1, <1>3

(* A module yields candidates made of its own variables and accesses.      *)
LEMMA AnalyzedIs ==
    ASSUME NEW m, Flags!IsList(m.globals), Flags!IsList(m.locals), Flags!IsList(m.accesses)
    PROVE  Flags!AnalyzeModule(m) \in Seq(Evidence(m))
<1> DEFINE gs == [i \in DOMAIN m.globals |-> Flags!Global(m.globals[i])]
           ls == [i \in DOMAIN m.locals |-> Flags!Local(m.locals[i])]
           ms == {Flags!Member(m, i) : i \in Flags!FirstTelling(m)}
<1>1. gs \in Seq(Evidence(m)) /\ ls \in Seq(Evidence(m))
  <2>1. /\ DOMAIN m.globals = 1 .. Len(m.globals) /\ Len(m.globals) \in Nat
        /\ DOMAIN m.locals = 1 .. Len(m.locals) /\ Len(m.locals) \in Nat
    BY DEF Flags!IsList
  <2>2. /\ \A i \in DOMAIN m.globals : Flags!Global(m.globals[i]) \in Evidence(m)
        /\ \A i \in DOMAIN m.locals : Flags!Local(m.locals[i]) \in Evidence(m)
    BY DEF Evidence, Flags!Range
  <2> QED
    BY <2>1, <2>2
<1>2. IsFiniteSet(ms)
  <2>1. DOMAIN m.accesses = 1 .. Len(m.accesses) /\ Len(m.accesses) \in Nat
    BY DEF Flags!IsList
  <2>2. Flags!FirstTelling(m) \subseteq 1 .. Len(m.accesses)
    BY <2>1 DEF Flags!FirstTelling
  <2>3. IsFiniteSet(Flags!FirstTelling(m))
    <3>1. IsFiniteSet(1 .. Len(m.accesses))
      <4>1. \A k \in Nat : IsFiniteSet(1 .. k)
        BY FS_Interval
      <4> QED
        BY <2>1, <4>1
    <3> QED
      BY <2>2, <3>1, FS_Subset
  <2> DEFINE of == [i \in Flags!FirstTelling(m) |-> Flags!Member(m, i)]
  <2>4. of \in Surjection(Flags!FirstTelling(m), ms)
    BY DEF Surjection
  <2> QED
    BY <2>3, <2>4, FS_Surjection
<1>3. ms \subseteq Evidence(m)
  BY DEF Flags!FirstTelling, Evidence
<1>4. Flags!Members(m) \in Seq(Evidence(m))
  <2>1. Flags!Members(m) \in Seq(ms)
    BY <1>2, Listed DEF Flags!Members
  <2> QED
    BY <1>3, <2>1
<1> QED
  BY <1>1, <1>4 DEF Flags!AnalyzeModule

LEMMA FilesAre ==
    ASSUME input \in Inputs, NEW k \in FilesSeen
    PROVE  /\ k \in DOMAIN input.files
           /\ Flags!AnalyzeModule(input.files[k].ir) \in Seq(EvidenceSeen)
<1>1. Flags!InputsAssumption
  BY FlagInputs
<1>2. k \in DOMAIN input.files
  BY <1>1 DEF Flags!InputsAssumption, FilesSeen, Flags!IsList
<1>3. input.files[k] \in Flags!Range(input.files)
  BY <1>2 DEF Flags!Range
<1>4. Flags!AnalyzeModule(input.files[k].ir) \in Seq(Evidence(input.files[k].ir))
  BY <1>1, <1>3, AnalyzedIs DEF Flags!InputsAssumption
<1> QED
  BY <1>2, <1>4 DEF EvidenceSeen

LEMMA NextFlag == ASSUME FlagInv, [Flags!Next]_flagrecVars PROVE FlagInv'
<1>1. CASE UNCHANGED flagrecVars
  BY <1>1 DEF FlagInv, flagrecVars, FilesSeen, EvidenceSeen, Reported
<1>2. ASSUME tool = "idle", NEW i \in Inputs, Flags!Start(i) PROVE FlagInv'
  BY <1>2 DEF FlagInv, Flags!Start
<1>3. CASE Flags!FindConstants
  <2>1. \A g, h \in groups' : g.id = h.id => g = h
    <3> DEFINE all == Flags!Constants(Flags!SourceFiles)
    <3>1. groups' = Flags!ClusterParsedConstants(all)
      BY <1>3 DEF Flags!FindConstants
    <3>2. \A g : Flags!Group(g, all).id = g
      BY DEF Flags!Group
    <3>3. \A g \in groups' : \E k : g = Flags!Group(k, all)
      BY <3>1 DEF Flags!ClusterParsedConstants
    <3> QED
      BY <3>2, <3>3
  <2> QED
    BY <1>3, <2>1 DEF FlagInv, Flags!FindConstants, FilesSeen, EvidenceSeen
<1>4. CASE Flags!FilterVariables
  <2>1. file \in FilesSeen
    BY <1>4, FlagInputs DEF FlagInv, Flags!FilterVariables, FilesSeen, Flags!InputsAssumption, Flags!IsList
  <2>2. candidates' \in Seq(EvidenceSeen)
    <3>1. candidates \in Seq(EvidenceSeen) /\ Flags!AnalyzeModule(input.files[file].ir) \in Seq(EvidenceSeen)
      BY <1>4, <2>1, FilesAre DEF FlagInv, Flags!FilterVariables
    <3>2. candidates' = candidates \o Flags!AnalyzeModule(input.files[file].ir) \/ candidates' = candidates
      BY <1>4 DEF Flags!FilterVariables
    <3>3. candidates \o Flags!AnalyzeModule(input.files[file].ir) \in Seq(EvidenceSeen)
      BY <3>1, ConcatProperties
    <3> QED
      BY <3>1, <3>2, <3>3, Zenon
  <2> QED
    BY <1>4, <2>2 DEF FlagInv, Flags!FilterVariables, FilesSeen, EvidenceSeen
<1>5. CASE Flags!VariablesFiltered
  BY <1>5 DEF FlagInv, Flags!VariablesFiltered, FilesSeen, EvidenceSeen
<1>6. CASE Flags!AnalyzeBitcodeFile
  <2>1. 1 \in FilesSeen
    BY <1>6 DEF Flags!AnalyzeBitcodeFile, FilesSeen
  <2>2. candidates' \in Seq(EvidenceSeen)
    BY <1>6, <2>1, FilesAre DEF FlagInv, Flags!AnalyzeBitcodeFile
  <2> QED
    BY <1>6, <2>2 DEF FlagInv, Flags!AnalyzeBitcodeFile, FilesSeen, EvidenceSeen
<1>7. CASE Flags!IdentifyFlag
  <2> DEFINE c == candidates[identified + 1]
  <2>1. c \in EvidenceSeen
    BY <1>7 DEF FlagInv, Flags!IdentifyFlag
  <2>2. PICK match \in Flags!MatchToGroup(c) :
           IF ~c.loop /\ Flags!CalculateConfidence(c, match) >= MinConfidence
           THEN flagVariables' = Append(flagVariables, Flags!Flag(c, match)) /\ UNCHANGED filtered
           ELSE filtered' = filtered + 1 /\ UNCHANGED flagVariables
    BY <1>7 DEF Flags!IdentifyFlag
  <2>3. match \in {{}} \cup {{g} : g \in groups}
    BY DEF Flags!MatchToGroup
  <2>4. Flags!Flag(c, match) \in Reported
    BY <2>1, <2>3 DEF Reported
  <2>5. /\ flagVariables' \in Seq(Reported) /\ filtered' \in Nat /\ identified' \in Nat
        /\ Len(flagVariables') + filtered' = identified'
    <3>1. /\ flagVariables \in Seq(Reported) /\ filtered \in Nat /\ identified \in Nat
          /\ Len(flagVariables) + filtered = identified /\ identified' = identified + 1
      BY <1>7 DEF FlagInv, Flags!IdentifyFlag
    <3> HIDE DEF c
    <3>2. CASE flagVariables' = Append(flagVariables, Flags!Flag(c, match)) /\ filtered' = filtered
      BY <2>4, <3>1, <3>2
    <3>3. CASE flagVariables' = flagVariables /\ filtered' = filtered + 1
      BY <3>1, <3>3
    <3> QED
      BY <2>2, <3>2, <3>3
  <2> QED
    BY <1>7, <2>5 DEF FlagInv, Flags!IdentifyFlag, FilesSeen, EvidenceSeen, Reported
<1>8. CASE Flags!SaveResults
  BY <1>8 DEF FlagInv, Flags!SaveResults, FilesSeen, EvidenceSeen, Reported
<1> QED
  BY <1>1, <1>2, <1>3, <1>4, <1>5, <1>6, <1>7, <1>8 DEF Flags!Next

(* Every access to a field is evidence of the candidate.                   *)
LEMMA MemberHas ==
    ASSUME NEW m, NEW i, NEW a \in Flags!Range(m.accesses), a.first = 0, Flags!Key(a) = Flags!Key(m.accesses[i])
    PROVE  /\ Flags!StoredConstants(a.uses) \subseteq Flags!Member(m, i).constants
           /\ (\E r \in Flags!Readers(a.uses) : r.op = "icmp") => Flags!Member(m, i).compared
<1> DEFINE U == UNION {b.uses : b \in Flags!AccessesOf(m, i)}
<1>1. a.uses \subseteq U
  BY DEF Flags!AccessesOf
<1> HIDE DEF U
<1>2. Flags!StoredConstants(a.uses) \subseteq Flags!StoredConstants(U)
  BY <1>1 DEF Flags!StoredConstants, Flags!ConstantsOf, Flags!Stores
<1>3. Flags!Readers(a.uses) \subseteq Flags!Readers(U)
  BY <1>1 DEF Flags!Readers
<1>4. Flags!Member(m, i).constants = Flags!StoredConstants(U) \cup Flags!ConstantsOf(Flags!OrStores(U))
                       \cup Flags!ConstantsOf({r \in Flags!Readers(U) : r.op \in {"icmp", "and"}})
  BY DEF Flags!Member, U
<1>5. Flags!Member(m, i).compared = \E r \in Flags!Readers(U) : r.op = "icmp" \/ r.tested
  BY DEF Flags!Member, U
<1> QED
  BY <1>2, <1>3, <1>4, <1>5

LEMMA ReportedIs == ASSUME FlagInv PROVE FlagsAreJustified
<1> SUFFICES ASSUME tool = "done", NEW f \in Flags!Range(flagVariables)
    PROVE  /\ \A g \in groups : g.id \in f.group => f.assignments \subseteq g.values
           /\ f.key # <<>> /\ (input.bitcode \/ Len(input.files) = 1) =>
                    \A a \in Flags!AccessesTo(f.key) :
                        /\ \A v \in Flags!StoredConstants(a.uses) :
                              v \in f.assignments \/ \E g \in groups : g.id \in f.group /\ v \notin g.values
                        /\ (\E r \in Flags!Readers(a.uses) : r.op = "icmp") => f.checked
  BY DEF FlagInv, FlagsAreJustified, Flags!FlagsAreJustified
<1>1. input \in Inputs /\ f \in Reported
  BY DEF FlagInv, Flags!Range
<1>2. PICK c \in EvidenceSeen, match \in {{}} \cup {{g} : g \in groups} : f = Flags!Flag(c, match)
  BY <1>1 DEF Reported
<1>3. /\ f.key = c.key /\ f.group = {g.id : g \in match} /\ f.checked = c.compared
      /\ f.assignments = {v \in c.constants : match = {} \/ \E g \in match : v \in g.values}
  BY <1>2 DEF Flags!Flag, Flags!Assigned
<1>4. \A g \in groups : g.id \in f.group => f.assignments \subseteq g.values
  <2> SUFFICES ASSUME NEW g \in groups, g.id \in f.group PROVE f.assignments \subseteq g.values
    OBVIOUS
  <2>1. match = {g}
    BY <1>2, <1>3 DEF FlagInv
  <2> QED
    BY <1>3, <2>1
<1>5. ASSUME f.key # <<>>, input.bitcode \/ Len(input.files) = 1, NEW a \in Flags!AccessesTo(f.key)
      PROVE  /\ \A v \in Flags!StoredConstants(a.uses) :
                    v \in f.assignments \/ \E g \in groups : g.id \in f.group /\ v \notin g.values
             /\ (\E r \in Flags!Readers(a.uses) : r.op = "icmp") => f.checked
  <2> DEFINE m == input.files[1].ir
  <2>1. FilesSeen = {1}
    BY <1>1, <1>5, FlagInputs DEF FilesSeen, Flags!InputsAssumption, Flags!IsList
  <2>2. c \in Evidence(m)
    BY <2>1 DEF EvidenceSeen
  <2>3. PICK i \in DOMAIN m.accesses : c = Flags!Member(m, i)
    BY <1>3, <1>5, <2>2 DEF Evidence, Flags!Global, Flags!Local
  <2>4. c.key = Flags!Key(m.accesses[i])
    BY <2>3 DEF Flags!Member
  <2>5. a \in Flags!Range(m.accesses) /\ a.first = 0 /\ Flags!Key(a) = Flags!Key(m.accesses[i])
    BY <1>3, <1>5, <2>4 DEF Flags!AccessesTo
  <2>6. /\ Flags!StoredConstants(a.uses) \subseteq c.constants
        /\ (\E r \in Flags!Readers(a.uses) : r.op = "icmp") => c.compared
    BY <2>3, <2>5, MemberHas
  <2>7. ASSUME NEW v \in Flags!StoredConstants(a.uses)
        PROVE  v \in f.assignments \/ \E g \in groups : g.id \in f.group /\ v \notin g.values
    <3>1. CASE match = {}
      BY <1>3, <2>6, <3>1
    <3>2. CASE match # {}
      <4>1. PICK g \in groups : match = {g}
        BY <3>2
      <4> QED
        BY <1>3, <2>6, <4>1
    <3> QED
      BY <3>1, <3>2
  <2> QED
    BY <1>3, <2>6, <2>7
<1> QED
  BY <1>4, <1>5

(* FlagsAreJustified: a field is reported with the constants and tests of  *)
(* all accesses to it, and what is reported as assigned is of the group    *)
(* reported, whatever the files hold and however the scores fall.          *)
THEOREM FlagsOnEvidence == Flags!Spec => []FlagsAreJustified
<1>1. Flags!Init => FlagInv
  BY DEF Flags!Init, FlagInv
<1> QED
  BY <1>1, NextFlag, ReportedIs, PTL DEF Flags!Spec, Flags!flagrecVars, flagrecVars
=============================================================================
