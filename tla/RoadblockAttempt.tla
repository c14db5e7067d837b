-------------------------- MODULE RoadblockAttempt --------------------------
(***************************************************************************)
(* One attempt at a roadblock, inside a session of the program:            *)
(* handle_roadblock_simplified of main.py, which the plateau loop calls,   *)
(* and handle_roadblock_direct_generation_only, which its scheduler for    *)
(* direct generation offers and the loop does not call at present.  Both   *)
(* slice the code, ask the model for constraints and then run paths that   *)
(* write seeds; the first also has a taint extractor run over the seeds    *)
(* that reach the roadblock and has the model choose the paths.            *)
(*                                                                         *)
(* Abstractions.  Replies of the model are usable or not.  What the paths  *)
(* write is the module SeedGeneration; here a path tests a number of       *)
(* candidates and each is accepted, rejected, or no file at all.           *)
(***************************************************************************)
EXTENDS FuzzerSession, FiniteSets, SequencesExt

CONSTANTS
    Key,             \* roadblocks
    Seed,            \* seeds that reach them, and seeds those descend from
    Origins,         \* per seed what find_seed_root may come to: a root of its line, or
                     \* the seed itself when an ancestor has been moved away
    None,
    Scopes,          \* what a run of the program meets: roadblocks, seeds that reach
                     \* them, handlers that are called
    FailureThreshold,    \* TAINT_EXTRACTION_FAILURE_THRESHOLD
    MaxTime,         \* MAX_TIME
    RouterTries,     \* tries of the path router
    MaxChains,       \* bound on the call chains of a roadblock
    MaxPlan,         \* bound on the paths the router selects
    MaxTests,        \* bound on the candidates of a path
    Libxml           \* is_libxml_project

ASSUME AttemptAssumption ==
    /\ None \notin Key \cup Seed /\ Libxml \in BOOLEAN
    /\ Origins \in [Seed -> SUBSET Seed]
    /\ Scopes \subseteq [keys : SUBSET Key, seeds : SUBSET Seed, direct : SUBSET BOOLEAN]
    /\ FailureThreshold \in Nat \ {0} /\ MaxTime \in Nat \ {0} /\ RouterTries \in Nat \ {0}
    /\ MaxChains \in Nat \ {0} /\ MaxPlan \in Nat \ {0} /\ MaxTests \in Nat \ {0}

Dir == Seed \X Key

VARIABLES
    scope,           \* one of Scopes
    att,             \* the attempt in progress
    failures,        \* taint_extraction_failures
    isi, rel,        \* the extractor's files, per directory the seed it ran on and
                     \* the roadblock it looked for
    attempted, filed,    \* attempted_roadblocks in memory and on file
    passed,          \* pass_roadblock_id
    barren,          \* history: extractions without result since the last with one,
                     \* counted up to FailureThreshold
    worked           \* history: roadblocks the direct handler generated for

stores == <<attempted, filed, passed>>
extraction == <<failures, isi, rel, barren>>
vars == <<scope, session, pc, att, extraction, stores, worked>>

NoAttempt ==
    [key |-> None, direct |-> FALSE, chains |-> 0, tries |-> 0, ranked |-> <<>>, seed |-> None,
     root |-> None, orig |-> None, evidence |-> None, ranges |-> FALSE, fields |-> FALSE, text |-> FALSE, plan |-> <<>>,
     left |-> 0]

Working == {"begin", "lookup", "slice", "constraints", "rank", "extract", "export", "route",
            "paths", "test"}

TypeOK ==
    /\ scope \in Scopes
    /\ pc \in Boot \cup {"head", "hung"} \cup Working \cup Closing \cup Over
    /\ failures \in Nat /\ barren \in Nat
    /\ isi \in [Dir -> Dir \cup {None}] /\ rel \in [Dir -> Dir \cup {None}]
    /\ attempted \subseteq Key /\ filed \subseteq Key /\ passed \subseteq Key /\ worked \subseteq Key

Init ==
    /\ SessionInit /\ scope \in Scopes
    /\ att = NoAttempt /\ failures = 0 /\ barren = 0
    /\ isi = [d \in Dir |-> None] /\ rel = [d \in Dir |-> None]
    /\ attempted = {} /\ filed = {} /\ passed = {} /\ worked = {}

----------------------------------------------------------------------------
(* Leaving an attempt: its return, or an exception that nothing in it      *)
(* catches, which ends the loop.                                           *)
Goes(to) == pc' = to /\ UNCHANGED session
Returns == Goes("head") /\ att' = NoAttempt
Raises == Goes("ending") /\ att' = NoAttempt

(* The slicer, the analyzer that lists branches for its context, and the   *)
(* extractor are run without a timeout; only a signal frees the thread.    *)
Hangs ==
    /\ pc \in {"slice", "extract", "export"}
    /\ Goes("hung") /\ att' = NoAttempt
    /\ UNCHANGED <<extraction, stores, worked>>

(* A missing extractor raises, and so does the model when its retries are  *)
(* used up.                                                                *)
Uncaught ==
    /\ pc \in {"constraints", "extract", "export", "route"} /\ Raises
    /\ UNCHANGED <<extraction, stores, worked>>

(* mark_roadblock_failed, which only the direct handler calls.             *)
Fails ==
    /\ Returns
    /\ passed' = IF att.direct THEN passed \cup {att.key} ELSE passed
    /\ UNCHANGED <<attempted, filed>>

----------------------------------------------------------------------------
(* Start and end of the session, and the stores of this process.           *)
NothingLoaded == {}                                                    \* mutant
Loaded == filed

InitAttemptedRoadblockStore ==
    /\ pc = "store" /\ Goes("runner")
    /\ attempted' = Loaded
    /\ UNCHANGED <<att, extraction, filed, passed, worked>>

Framed == UNCHANGED <<att, extraction, stores, worked>>

NewSession ==
    /\ Restart
    /\ failures' = 0 /\ barren' = 0 /\ attempted' = {} /\ passed' = {}
    /\ UNCHANGED <<att, isi, rel, filed, worked>>

(* A signal or a kill takes the main thread out of the attempt.            *)
Stopped ==
    /\ Signal \/ Kill
    /\ att' = IF pc' \in Working THEN att ELSE NoAttempt
    /\ UNCHANGED <<extraction, stores, worked>>

----------------------------------------------------------------------------
(* The head of the loop picks a roadblock that is not passed over.         *)
Pick(k, direct) ==
    /\ k \notin passed
    /\ MainHead("begin")
    /\ att' = IF pc' = "begin" THEN [NoAttempt EXCEPT !.key = k, !.direct = direct] ELSE att
    /\ UNCHANGED <<extraction, stores, worked>>

Idle ==
    /\ MainHead("head")
    /\ Framed

(* Both handlers look for the fuzzer first; the direct one then leaves out *)
(* what was attempted and marks the roadblock, in memory and on file.      *)
Begin ==
    /\ pc = "begin"
    /\ IF ~CheckFuzzerAlive THEN Raises
       ELSE IF att.direct /\ att.key \in attempted THEN Returns
       ELSE Goes("lookup") /\ att' = att
    /\ UNCHANGED <<extraction, stores, worked>>

MarksMemory(k) == attempted' = attempted \cup {k} /\ filed' = filed      \* mutant
MarkRoadblockAttempted(k) ==
    attempted' = attempted \cup {k} /\ filed' = filed \cup {k}

(* Marks, then looks for the function and its call chains.  Without chains *)
(* the function alone is sliced; chains that are too short are left out.   *)
Lookup ==
    /\ pc = "lookup"
    /\ IF att.direct THEN MarkRoadblockAttempted(att.key) ELSE UNCHANGED <<attempted, filed>>
    /\ \/ Returns /\ passed' = IF att.direct THEN passed \cup {att.key} ELSE passed
       \/ \E n \in 1 .. MaxChains :
            Goes("slice") /\ att' = [att EXCEPT !.chains = n] /\ UNCHANGED passed
       \/ Raises /\ UNCHANGED passed
    /\ UNCHANGED <<extraction, worked>>

(* The slice of the next chain; the simplified handler looks for the       *)
(* fuzzer again.                                                           *)
Slice ==
    /\ pc = "slice"
    /\ \/ Fails
       \/ /\ IF att.direct \/ CheckFuzzerAlive
             THEN Goes("constraints") /\ att' = [att EXCEPT !.tries = 0]
             ELSE Raises
          /\ UNCHANGED stores
    /\ UNCHANGED <<extraction, worked>>

(* Replies that are no JSON object with the fields asked for count.        *)
ConstraintsUsable ==
    /\ pc = "constraints"
    /\ Goes("rank") /\ att' = [att EXCEPT !.tries = 0]
    /\ UNCHANGED <<extraction, stores, worked>>

ConstraintsRetried ==
    /\ pc = "constraints"
    /\ IF att.tries + 1 < MaxTime
       THEN Goes("constraints") /\ att' = [att EXCEPT !.tries = @ + 1] /\ UNCHANGED stores
       ELSE Fails
    /\ UNCHANGED <<extraction, worked>>

----------------------------------------------------------------------------
(* The seeds, best first.  The direct handler takes the best and goes on   *)
(* to its one path.                                                        *)
Orders == {s \in SeqOf(scope.seeds, Cardinality(scope.seeds)) : IsInjective(s)}

Rank ==
    /\ pc = "rank"
    /\ \E s \in Orders :
         IF att.direct
         THEN /\ Goes("paths")
              /\ att' = [att EXCEPT !.seed = IF s = <<>> THEN None ELSE s[1],
                                    !.plan = <<"direct_generation">>]
         ELSE /\ Goes(IF s = <<>> THEN "route" ELSE "extract")
              /\ att' = [att EXCEPT !.ranked = s]
    /\ UNCHANGED <<extraction, stores, worked>>

Least(m, n) == IF m < n THEN m ELSE n

(* process_relevant_fields_for_simplified_path for the next seed.          *)
OneDirectory(s, k) == <<s, CHOOSE any \in Key : TRUE>>                 \* mutant
ArtifactDir(s, k) == <<s, k>>

Here == ArtifactDir(Head(att.ranked), att.key)
NextSeed(evidence, ranges, fields) ==
    LET rest == IF evidence # None THEN <<>> ELSE Tail(att.ranked)
    IN  /\ Goes(IF rest = <<>> THEN "route" ELSE "extract")
        /\ att' = [att EXCEPT !.ranked = rest, !.seed = Head(att.ranked), !.root = None,
                              !.orig = IF evidence # None THEN att.root ELSE None,
                              !.evidence = evidence, !.ranges = ranges, !.fields = fields]

(* The seed is gone, or extraction is given up for the session.            *)
CountsTheSkipped ==                                                    \* mutant
    /\ pc = "extract" /\ NextSeed(None, FALSE, FALSE)
    /\ failures' = Least(failures + 1, FailureThreshold) /\ UNCHANGED <<isi, rel, barren, stores, worked>>
ExtractionSkipped ==
    /\ pc = "extract"
    /\ NextSeed(None, FALSE, FALSE)
    /\ UNCHANGED <<extraction, stores, worked>>

(* No file has appeared: not in this run, and not in an earlier one.       *)
ExtractionFails ==
    /\ NextSeed(None, FALSE, FALSE)
    /\ failures' = failures + 1 /\ barren' = Least(barren + 1, FailureThreshold)
    /\ UNCHANGED <<stores, worked>>

(* The extractor runs on a copy of the root of the seed, as it is found    *)
(* now; it may leave the file as it was.                                   *)
Extract ==
    /\ pc = "extract" /\ failures < FailureThreshold
    /\ UNCHANGED rel
    /\ \E root \in Origins[Head(att.ranked)] :
         /\ \/ isi' = isi
            \/ isi' = [isi EXCEPT ![Here] = <<root, att.key>>]
         /\ \/ isi'[Here] = None /\ ExtractionFails
            \/ /\ isi'[Here] # None /\ Goes("export") /\ att' = [att EXCEPT !.root = root]
               /\ failures' = 0 /\ UNCHANGED <<barren, stores, worked>>

(* The second run, with the semantic fields; the file need not be new.     *)
Export ==
    /\ pc = "export"
    /\ \/ rel' = rel
       \/ rel' = [rel EXCEPT ![Here] = <<att.root, att.key>>]
    /\ UNCHANGED isi
    /\ \/ rel'[Here] = None /\ ExtractionFails
       \/ /\ rel'[Here] # None
          /\ \E ranges, fields \in BOOLEAN : NextSeed(rel'[Here], ranges, fields)
          /\ failures' = 0 /\ barren' = 0 /\ UNCHANGED <<stores, worked>>

----------------------------------------------------------------------------
(* The paths of an input class, in the order of the code.                  *)
Paths(structured) ==
    IF structured
    THEN <<"xml_grammar", "field_mutation", "direct_generation", "batch_mutation", "taint_mutation">>
    ELSE <<"flag", "taint_mutation", "state_driven", "field_mutation", "xml_grammar",
           "batch_mutation", "direct_generation">>

(* plan_simplified_path_selection: the paths of the reply that are known,  *)
(* or all of them when no reply is usable.                                 *)
Selections(structured) ==
    {p \in SeqOf(ToSet(Paths(structured)), MaxPlan) : IsInjective(p)}

Route ==
    /\ pc = "route"
    /\ \E structured, text \in BOOLEAN :
         \/ \E p \in Selections(structured) :
              IF p = <<>> THEN Returns
              ELSE Goes("paths") /\ att' = [att EXCEPT !.plan = p, !.text = text, !.tries = 0]
         \/ IF att.tries + 1 < RouterTries
            THEN Goes("route") /\ att' = [att EXCEPT !.tries = @ + 1]
            ELSE Goes("paths") /\ att' = [att EXCEPT !.plan = Paths(structured), !.text = text,
                                                     !.tries = 0]
    /\ UNCHANGED <<extraction, stores, worked>>

Path == Head(att.plan)

(* What each path asks of the context before it does anything.             *)
Ready ==
    CASE Path = "taint_mutation" -> att.seed # None /\ att.ranges
      [] Path = "field_mutation" -> att.seed # None /\ att.fields
      [] Path = "state_driven"   -> att.seed # None
      [] Path = "xml_grammar"    -> Libxml /\ att.text
      [] OTHER                   -> TRUE

(* What a path returns is only gathered for the log; the direct handler goes on to the next *)
(* chain until something was produced.                                     *)
PathEnds(produced) ==
    IF ~att.direct
    THEN /\ att' = [att EXCEPT !.plan = Tail(@), !.left = 0]
         /\ Goes("paths") /\ UNCHANGED stores
    ELSE IF produced THEN Returns /\ UNCHANGED stores
    ELSE IF att.chains > 1
    THEN /\ att' = [NoAttempt EXCEPT !.key = att.key, !.direct = TRUE, !.chains = att.chains - 1]
         /\ Goes("slice") /\ UNCHANGED stores
    ELSE Fails

AllPathsDone ==
    /\ pc = "paths" /\ att.plan = <<>>
    /\ Returns
    /\ UNCHANGED <<extraction, stores, worked>>

(* Not ready, or the model has nothing to offer, or an exception, which    *)
(* every path catches.                                                     *)
PathGivesUp ==
    /\ pc = "paths" /\ att.plan # <<>>
    /\ PathEnds(FALSE)
    /\ UNCHANGED <<extraction, worked>>

(* The XML and the batch path have several candidates.                     *)
Several == {"xml_grammar", "batch_mutation"}

PathProposes ==
    /\ pc = "paths" /\ att.plan # <<>> /\ Ready
    /\ \E n \in 1 .. (IF Path \in Several THEN MaxTests ELSE 1) :
         Goes("test") /\ att' = [att EXCEPT !.left = n]
    /\ UNCHANGED <<extraction, stores, worked>>

(* extract_and_test, mutate_and_test and write_direct_text_seed_and_test   *)
(* look for the fuzzer before they write; the XML path and the text        *)
(* mutations of the batch path do not.  What they raise ends the path.     *)
MayLookFirst == IF Path = "xml_grammar" THEN {FALSE}
                ELSE IF Path = "batch_mutation" THEN BOOLEAN ELSE {TRUE}

Outcome == {"none", "rejected", "accepted"}
Produced(outcome) == IF Path = "xml_grammar" THEN outcome = "accepted" ELSE outcome # "none"
LastOne(outcome) == att.left = 1 \/ (Path = "batch_mutation" /\ Produced(outcome))

PathTests(looks, outcome) ==
    /\ pc = "test" /\ looks \in MayLookFirst
    /\ IF looks /\ ~CheckFuzzerAlive
       THEN PathEnds(FALSE) /\ UNCHANGED worked
       ELSE /\ worked' = IF att.direct THEN worked \cup {att.key} ELSE worked
            /\ IF LastOne(outcome)
               THEN PathEnds(Produced(outcome))
               ELSE /\ Goes("test") /\ UNCHANGED stores
                    /\ att' = [att EXCEPT !.left = @ - 1]
    /\ UNCHANGED extraction

----------------------------------------------------------------------------
Handler ==
    \/ Begin \/ Lookup \/ Slice \/ ConstraintsUsable \/ ConstraintsRetried \/ Rank
    \/ ExtractionSkipped \/ Extract \/ Export \/ Hangs \/ Uncaught
    \/ Route \/ AllPathsDone \/ PathGivesUp \/ PathProposes
    \/ \E looks \in BOOLEAN, outcome \in Outcome : PathTests(looks, outcome)

Main ==
    \/ SessionStep /\ Framed
    \/ InitAttemptedRoadblockStore
    \/ Idle \/ \E k \in scope.keys, direct \in scope.direct : Pick(k, direct)
    \/ Handler

Next ==
    /\ Main \/ Stopped \/ (Dies /\ Framed) \/ NewSession
    /\ UNCHANGED scope

Spec == Init /\ [][Next]_vars

(* The main thread gets to run.  Targets, scripts and requests to the      *)
(* model have timeouts; what has none may hang, and nothing is assumed to  *)
(* free it.                                                                *)
LiveSpec == Spec /\ WF_vars(Main /\ UNCHANGED scope)

----------------------------------------------------------------------------
(* The evidence the paths work with was exported for this roadblock, from  *)
(* a root of the seed the attempt holds, now or by an earlier attempt; and *)
(* the root some paths mutate in its place is of that seed too.            *)
EvidenceIsOwn ==
    att.evidence # None =>
        /\ att.evidence \in Origins[att.seed] \X {att.key}
        /\ att.orig \in Origins[att.seed]

(* Extraction is given up for the session only after as many extractions   *)
(* without a result as the threshold says, and none with one in between.   *)
DisabledIsEarned == failures <= barren

(* The direct handler generates for a roadblock in one attempt only,       *)
(* through signals, kills and new sessions.                                *)
OnceAcrossSessions ==
    [][\A k \in Key : pc = "begin" /\ att.direct /\ att.key = k /\ k \in worked
           => pc' # "lookup"]_vars

(* Once the handler of FuzzerRunner has taken a signal the process comes   *)
(* to its end, from wherever it is; once the fuzzer is gone too, unless it *)
(* hangs in a program it runs without a timeout.                           *)
SessionEnds ==
    /\ terminating ~> pc \in Over
    /\ ~alive /\ pc \notin Boot ~> pc \in Over \cup {"hung"}
=============================================================================
