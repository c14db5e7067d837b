---------------------------- MODULE MCAnalyses ----------------------------
(* TLC instance of the analyses an attempt, or a tool beside it, makes on  *)
(* its own, and of the machines around its prompts: each is a module with  *)
(* variables of its own, and a behaviour is one of them alone.             *)
EXTENDS AnalysisMachines, PromptMachines

VARIABLE part

Seeds == INSTANCE MCSeedFiles

analysisVars ==
    <<infVars, cacheVars, gateVars, breakerVars, sliceVars, chainVars, extractVars, flagrecVars, fieldVars>>

Init ==
    /\ part \in {"hints", "caches", "gate", "breaker", "slicer", "chains", "extractor", "flagrec", "fields",
                "requests", "evidence", "slices", "diversifier"}
    /\ Hints!Init /\ Caches!Init /\ Gate!Init /\ Breaker!Init /\ Slicer!Init
    /\ Chains!Init /\ Extractor!Init /\ Flags!Init /\ Semantic!Init
    /\ Requests!Init /\ Evidence!Init /\ Slices!Init /\ Diversifier!Init
    /\ part # "gate" => structured /\ rejecting

Next ==
    /\ UNCHANGED part
    /\ \/ /\ part = "hints" /\ Hints!Next
          /\ UNCHANGED <<cacheVars, gateVars, breakerVars, sliceVars, chainVars, extractVars, flagrecVars, fieldVars, promptVars>>
       \/ /\ part = "caches" /\ Caches!Next
          /\ UNCHANGED <<infVars, gateVars, breakerVars, sliceVars, chainVars, extractVars, flagrecVars, fieldVars, promptVars>>
       \/ /\ part = "gate" /\ Gate!Next
          /\ UNCHANGED <<infVars, cacheVars, breakerVars, sliceVars, chainVars, extractVars, flagrecVars, fieldVars, promptVars>>
       \/ /\ part = "breaker" /\ Breaker!Next
          /\ UNCHANGED <<infVars, cacheVars, gateVars, sliceVars, chainVars, extractVars, flagrecVars, fieldVars, promptVars>>
       \/ /\ part = "slicer" /\ Slicer!Next
          /\ UNCHANGED <<infVars, cacheVars, gateVars, breakerVars, chainVars, extractVars, flagrecVars, fieldVars, promptVars>>
       \/ /\ part = "chains" /\ Chains!Next
          /\ UNCHANGED <<infVars, cacheVars, gateVars, breakerVars, sliceVars, extractVars, flagrecVars, fieldVars, promptVars>>
       \/ /\ part = "extractor" /\ Extractor!Next
          /\ UNCHANGED <<infVars, cacheVars, gateVars, breakerVars, sliceVars, chainVars, flagrecVars, fieldVars, promptVars>>
       \/ /\ part = "flagrec" /\ Flags!Next
          /\ UNCHANGED <<infVars, cacheVars, gateVars, breakerVars, sliceVars, chainVars, extractVars, fieldVars, promptVars>>
       \/ /\ part = "fields" /\ Semantic!Next
          /\ UNCHANGED <<infVars, cacheVars, gateVars, breakerVars, sliceVars, chainVars, extractVars, flagrecVars, promptVars>>
       \/ /\ part = "requests" /\ Requests!Next
          /\ UNCHANGED <<analysisVars, evidenceVars, sliceCodeVars, diversifierVars>>
       \/ /\ part = "evidence" /\ Evidence!Next
          /\ UNCHANGED <<analysisVars, llmVars, sliceCodeVars, diversifierVars>>
       \/ /\ part = "slices" /\ Slices!Next
          /\ UNCHANGED <<analysisVars, llmVars, evidenceVars, diversifierVars>>
       \/ /\ part = "diversifier" /\ Diversifier!Next
          /\ UNCHANGED <<analysisVars, llmVars, evidenceVars, sliceCodeVars>>

Spec == Init /\ [][Next]_<<part, analysisVars, promptVars>>

----------------------------------------------------------------------------
(* Instances.  One variable is known, one has a telling name, and two      *)
(* names are the same once profile-> is dropped.                           *)
MCNorm == [v \in Var |-> IF v = "profile->q" THEN "q" ELSE v]

MCFamiliesOf ==
    [m \in Message |-> CASE m = "mismatch" -> {"tag_mismatch"}
                         [] m = "start_expected" -> {"doctype_error", "multiple_roots"}
                         [] m = "extra" -> {"extra_content", "multiple_roots"}
                         [] m = "other" -> {}]

(* Every flow graph of four blocks with at most two successors each, all   *)
(* of them reached and all of them able to leave.                          *)
Block == 1 .. 4
Closure(S, next(_)) ==
    LET R[n \in Nat] == IF n = 0 THEN S ELSE R[n - 1] \cup UNION {next(b) : b \in R[n - 1]}
    IN  R[4]
FlowGraphs ==
    {g \in [Block -> {S \in SUBSET Block : Cardinality(S) <= 2}] :
        /\ Closure({1}, LAMBDA b : g[b]) = Block
        /\ Closure({b \in Block : g[b] = {}}, LAMBDA b : {c \in Block : b \in g[c]}) = Block}

Inst(kind, block, pos, uses, slot) ==
    [kind |-> kind, block |-> block, pos |-> pos, uses |-> uses, slot |-> slot]

(* Blocks end on lines 10, 20, ...; their instructions come before.        *)
Program(g, is, cond, stackSlots, invokes) ==
    LET all == DOMAIN g \cup DOMAIN is
        line == [i \in all |-> IF i \in DOMAIN g THEN 10 * i ELSE 10 * is[i].block - 3 + is[i].pos]
    IN  [succ |-> g, inst |-> is, cond |-> cond, stack |-> stackSlots, invoke |-> invokes,
         line |-> line, lines |-> [i \in all |-> {line[i]}],
         funcs |-> {[start |-> 1, body |-> 2, end |-> 60, onPath |-> TRUE],
                    [start |-> 71, body |-> 72, end |-> 80, onPath |-> FALSE]}]

(* A stack slot x and a global g, each stored and loaded.                  *)
Insts ==
    (11 :> Inst("load", 1, 1, {}, "x")) @@ (12 :> Inst("store", 2, 1, {90}, "x"))
    @@ (13 :> Inst("load", 2, 2, {}, "g")) @@ (14 :> Inst("call", 3, 1, {11}, "none"))
    @@ (15 :> Inst("store", 3, 2, {14}, "g"))
OnGraph(g) == Program(g, Insts, [b \in Block |-> IF b = 2 THEN 13 ELSE 11], {"x"}, {})

(* A switch with a loop in one case, an invoke in another and code after.  *)
SwitchGraph == <<{2, 3, 4}, {2, 5}, {5, 6}, {6}, {6}, {}>>
SwitchInsts ==
    (11 :> Inst("load", 1, 1, {}, "g")) @@ (12 :> Inst("call", 1, 0, {91}, "none"))
    @@ (21 :> Inst("load", 2, 1, {}, "x")) @@ (41 :> Inst("store", 4, 1, {11}, "x"))
    @@ (61 :> Inst("load", 6, 1, {}, "x")) @@ (62 :> Inst("other", 6, 2, {61, 99}, "none"))
OnSwitch == Program(SwitchGraph, SwitchInsts, (1 :> 11) @@ (2 :> 21), {"x"}, {3})

Request(kind, line, path) == [kind |-> kind, line |-> line, path |-> path]
MCJobs ==
    {[prog |-> OnGraph(g), req |-> Request("branch", 10, TRUE)] : g \in FlowGraphs}
    \cup {[prog |-> OnSwitch, req |-> Request(kind, line, path)] :
             kind \in {"branch", "switch-case", "stmt"}, line \in {5, 8, 20, 30, 38, 40, 55, 59, 75},
             path \in BOOLEAN}

(* Calls among three functions and the target: all graphs, and sparse ones *)
(* with calls that occur twice, with references, and with limits.          *)
Lim(d, c, x) == [r \in BOOLEAN |-> [depth |-> d, chains |-> c, expansions |-> x]]
AllEdges == {e \in [caller : Func \ {Target}, callee : Func] : e.caller # e.callee}
Edges(S, kind, first) ==
    {[caller |-> e.caller, callee |-> e.callee, kind |-> kind,
      site |-> first + 10 * e.caller + e.callee] : e \in S}
CallGraph(E, dot, sites, sliceable, limits) ==
    [edges |-> E, dot |-> dot, sites |-> sites, sliceable |-> sliceable, limits |-> limits]
MCGraphs ==
    {CallGraph(Edges(S, "direct", 0), TRUE, FALSE, Func, Lim(12, 20, 1500)) : S \in SUBSET AllEdges}
    \cup {CallGraph(Edges(S, "direct", 0) \cup Edges({e \in S : e.callee = Target}, "direct", 100)
                      \cup Edges(AllEdges \ S, "ref", 0), FALSE, sites, Func \ {3}, limits) :
             sites \in BOOLEAN, S \in {T \in SUBSET AllEdges : Cardinality(T) <= 3},
             limits \in {Lim(12, 20, 1500), Lim(3, 2, 1500), Lim(12, 20, 4)}}

(* Calls through every graph of three phis over two functions, and a call  *)
(* through arguments, memory and a chain that is too deep.                 *)
Fn(skip) == [kind |-> "function", skip |-> skip]
Through(kind, of) == [kind |-> kind, of |-> of]
Call(f, callee, cast, args, key) == [caller |-> f, callee |-> callee, cast |-> cast, args |-> args, key |-> key]
IrBlock(f, lines, pred, succ) == [function |-> f, lines |-> lines, pred |-> pred, succ |-> succ]
Module(value, calls, stores, svf) ==
    [value |-> value, calls |-> calls, stores |-> stores, svf |-> svf,
     declared |-> (8 :> 5) @@ (9 :> 0) @@ (7 :> 3),
     block |-> <<IrBlock(8, {6, 7}, <<>>, <<2, 3>>), IrBlock(8, {}, <<1>>, <<3>>), IrBlock(8, {9}, <<1, 2>>, <<>>),
                 IrBlock(9, {}, <<>>, <<5>>), IrBlock(9, {20}, <<4>>, <<>>)>>]
Svf(state, lines) == [state |-> state, lines |-> lines]
SvfLine(kind, key, name) == [kind |-> kind, key |-> key, name |-> name]

Incoming == {<<>>} \cup {<<v>> : v \in {1, 2, 3, 8, 9}} \cup {<<v, w>> : v \in 1 .. 3, w \in {2, 3, 8, 9}}
Phis(a, b, c) ==
    (1 :> Through("phi", a)) @@ (2 :> Through("phi", b)) @@ (3 :> Through("select", c))
    @@ (8 :> Fn(FALSE)) @@ (9 :> Fn(FALSE)) @@ (7 :> Fn(TRUE))
PhiModule(a, b, c) ==
    Module(Phis(a, b, c), <<Call(8, 1, FALSE, <<>>, 1), Call(9, 2, FALSE, <<3>>, 0)>>, <<>>, Svf("none", <<>>))

Deep(n) == [v \in 20 .. 20 + n |-> Through("alias", <<IF v = 20 + n THEN 9 ELSE v + 1>>)]
MemoryValues ==
    (10 :> [kind |-> "load", pointer |-> 11]) @@ (11 :> [kind |-> "global", init |-> <<9>>])
    @@ (12 :> [kind |-> "arg", parent |-> 9, index |-> 1]) @@ (13 :> [kind |-> "load", pointer |-> 12])
    @@ (14 :> [kind |-> "ret_of_call", callee |-> 8])
    @@ (8 :> Fn(FALSE)) @@ (9 :> Fn(FALSE)) @@ (7 :> Fn(TRUE))
MemoryModule(n, through, svf) ==
    Module(MemoryValues @@ Deep(n),
           <<Call(8, 9, FALSE, <<20, 11>>, 1), Call(8, 7, FALSE, <<8>>, 2), Call(8, 9, TRUE, <<>>, 3),
             Call(9, 10, FALSE, <<>>, 4), Call(9, 12, FALSE, <<>>, 4), Call(9, 13, FALSE, <<>>, 6),
             Call(9, 14, FALSE, <<8, 7>>, 0)>>,
           <<[pointer |-> 11, value |-> 8, through |-> through], [pointer |-> 12, value |-> 12, through |-> "direct"]>>,
           svf)
SvfOutput ==
    <<SvfLine("site", 6, 0), SvfLine("section", 0, 0), SvfLine("target", 0, 8), SvfLine("site", 4, 0),
      SvfLine("target", 0, 8), SvfLine("target", 0, 7), SvfLine("site", 3, 0), SvfLine("target", 0, 5),
      SvfLine("node", 0, 0), SvfLine("site", 0, 0), SvfLine("target", 0, 9), SvfLine("blank", 0, 0)>>
MCModules ==
    {PhiModule(a, b, c) : a \in Incoming \ {<<>>}, b \in Incoming, c \in Incoming \ {<<>>}}
    \cup {MemoryModule(n, through, svf) : n \in {1, 6, 8}, through \in {"direct", "cast", "expression"},
              svf \in {Svf("none", <<>>), Svf("fails", <<>>), Svf("output", SvfOutput), Svf("output", <<>>)}}

(* Files with an enum that is closed or not, macros and constants, over    *)
(* modules in which a field is accessed under two names.                   *)
Line(kind, group, name, value) == [kind |-> kind, group |-> group, name |-> name, value |-> value]
Texts ==
    {<<Line("define", "mode", <<"mode", "read">>, {1}), Line("define", "mode", <<"mode", "write">>, {2}),
       Line("define", "log", <<"log", "a">>, {1}), Line("const", "", <<"limit">>, {7}),
       Line("const", "", <<"size">>, {8})>>,
     <<Line("enum", "<anonymous>", <<>>, {}), Line("enumerator", "", <<"state", "open">>, {}),
       Line("enumerator", "", <<"state", "shut">>, {4}), Line("end", "gate", <<>>, {}),
       Line("enum", "late", <<>>, {}), Line("enumerator", "", <<"red">>, {})>>,
     <<Line("enum", "late", <<>>, {}), Line("enumerator", "", <<"red">>, {}), Line("enumerator", "", <<"blue">>, {2}),
       Line("enum", "flag", <<>>, {}), Line("enumerator", "", <<"flag", "x">>, {}), Line("end", "", <<>>, {}),
       Line("other", "", <<>>, {}), Line("enumerator", "", <<"call">>, {})>>,
     <<>>}
Store(const, ored) == [op |-> "store", const |-> const, ored |-> ored]
Load(by) == [op |-> "load", by |-> by]
Reader(op, const, tested) == [op |-> op, const |-> const, tested |-> tested]
UseSets ==
    {{Store({1}, FALSE), Load({Reader("icmp", {2}, FALSE)})}, {Store({2}, TRUE)}, {Store({}, FALSE)},
     {Load({Reader("and", {4}, TRUE), Reader("or", {}, FALSE)})}, {}}
Access(struct, name, first, uses) ==
    [struct |-> struct, field |-> 3, name |-> name, first |-> first, uses |-> uses]
IrModules ==
    {[globals |-> <<[name |-> <<"current", "mode">>, uses |-> u \cup {[op |-> "icmp"]}]>>,
      locals |-> <<[name |-> <<"i">>, uses |-> u], [name |-> <<"mode", "last">>, uses |-> u]>>,
      accesses |-> <<Access("s", n, 0, u), Access("s", <<"state">>, 0, w), Access("s", <<"flags">>, first, v),
                     Access("t", <<"size">>, 0, v)>>] :
        u \in UseSets, v \in UseSets, w \in {{}, {Store({9}, FALSE)}}, first \in {0, 1},
        n \in {<<"field">>, <<"mode">>}}
NoVariables == [globals |-> <<>>, locals |-> <<>>, accesses |-> <<>>]
Source(kind, lines, m) == [kind |-> kind, lines |-> lines, ir |-> m]
MCIgnorePrefixes == {<<"log">>}
MCInputs ==
    {[bitcode |-> b, files |-> <<Source("source", t, m)>>] : b \in BOOLEAN, t \in Texts, m \in IrModules}
    \cup {[bitcode |-> b, files |-> <<Source(k, t, NoVariables), Source("source", s, m), Source("nested", s, m)>>] :
              b \in BOOLEAN, k \in {"header", "nested"}, s \in Texts, t \in Texts,
              m \in {CHOOSE n \in IrModules : n.accesses[1].uses # {}}}

MCSeedFiles == Seeds!MCSeedFiles

(* A conversation of messages that are too long together, or alone.        *)
MCRoleLen == [r \in {"system", "user", "assistant"} |-> 1]

(* Seeds in two directories; a second name begins as the first one does,   *)
(* which does not begin as the second; one of the contents hits both       *)
(* roadblocks, the other the first.                                        *)
MCStemOf == <<1, 2>>
MCBegins == {<<1, 1>>, <<2, 2>>, <<1, 2>>}
MCTrace ==
    [f \in [dir : 1 .. Directories, name : Name, bytes : Bytes] |->
        [r \in Rb |-> [hit |-> r = 1 \/ f.bytes = "x", functions |-> {f.bytes}]]]

(* A function with a caller and two cases of a switch, another of its name *)
(* after it, and one without source that two files have.                   *)
Defined(n, f, s) == [name |-> n, file |-> f, sliceable |-> s]
MCFunctions == <<Defined("f", "a", TRUE), Defined("g", "b", TRUE), Defined("h", "", FALSE), Defined("f", "c", TRUE)>>
Barred(n, f, line, own) == [function |-> n, file |-> f, line |-> line, at |-> own, around |-> n]
MCBlocked == {Barred("f", "a", 4, 6), Barred("f", "a", 4, 8), Barred("h", "b", 5, 5), Barred("h", "c", 5, 5)}
MCChainsTo == [n \in {"f", "g", "h"} |-> IF n = "f" THEN {<<"f">>, <<"g", "f">>} ELSE {}]

(* Seeds of which one is like another but not the other way, and decodes   *)
(* to the same; dots that decode to nothing; and sessions of each kind.    *)
MCDecodesTo == [v \in Value |-> CASE v = "b" -> "a" [] v = "dots" -> Blank [] OTHER -> v]
MCAlike == {<<v, v>> : v \in Value} \cup {<<"b", "a">>}
Arguments(encoding, mode, textual, baseline, sweep, output) ==
    [encoding |-> encoding, mode |-> mode, textual |-> textual, baseline |-> baseline, sweep |-> sweep,
     output |-> output]
MCSetups ==
    {Arguments("base64", "direct", FALSE, FALSE, TRUE, "dir"),
     Arguments("text", "direct", TRUE, TRUE, FALSE, "json"),
     Arguments("base64", "python-generator", FALSE, TRUE, TRUE, "dir"),
     Arguments("text", "python-generator", TRUE, TRUE, TRUE, "json")}

=============================================================================
