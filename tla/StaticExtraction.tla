------------------------- MODULE StaticExtraction -------------------------
(* The extractor of static.json: calls and references of a module of LLVM  *)
(* IR.  A call whose callee is no function is resolved by a depth-first    *)
(* walk from the called operand through phis, arguments and memory, with a *)
(* cache of resolved values and a limit of depth; the targets that SVF     *)
(* prints for a call site are merged into it.                              *)
EXTENDS Integers, Sequences, FiniteSets, SequencesExt, FiniteSetsExt

CONSTANTS
    Modules    \* modules of IR with what SVF says of them, see MCAnalyses

(* What a module is: numbered values and blocks, 0 being none of them, and *)
(* lists of its calls and stores, over its own values.                     *)
ModulesAssumption ==
    \A m \in Modules :
        LET V == DOMAIN m.value
            B == DOMAIN m.block
        IN  /\ IsFiniteSet(V) /\ 0 \notin V
            /\ \A v \in V : /\ m.value[v].kind \in {"alias", "phi", "select"} => m.value[v].of \in Seq(V)
                            /\ m.value[v].kind = "global" => m.value[v].init \in Seq(V)
                            /\ m.value[v].kind = "arg" => m.value[v].index \in Nat \ {0}
                            /\ m.value[v].kind = "load" => m.value[v].pointer \in V
            /\ m.calls \in Seq(Range(m.calls)) /\ m.stores \in Seq(Range(m.stores))
            /\ \A c \in Range(m.calls) : c.callee \in V /\ c.args \in Seq(V)
            /\ \A s \in Range(m.stores) : s.value \in V
            /\ \A f \in DOMAIN m.declared : m.declared[f] \in Nat
            /\ B = 1 .. Len(m.block) /\ Len(m.block) \in Nat
            /\ \A b \in B : /\ m.block[b].function \in DOMAIN m.declared
                            /\ m.block[b].lines \subseteq Nat \ {0} /\ IsFiniteSet(m.block[b].lines)
                            /\ m.block[b].pred \in Seq(B) /\ m.block[b].succ \in Seq(B)

VARIABLES
    job,       \* the stage of main
    ir,        \* the module
    site,      \* the indirect call under resolution, of IndirectCalls
    pass,      \* its called operand, or all of its operands
    frames,    \* the calls of resolveValueToFunctions, the site at the bottom
    memo,      \* ResolveCache
    cutoff,    \* whether a value was too deep
    targets_of,\* ResolvedTargets of the indirect calls
    refs,      \* Refs of the functions
    ranges,    \* LineStart and LineEnd of the blocks
    static     \* static.json, nothing for that of an earlier run
extractVars == <<job, ir, site, pass, frames, memo, cutoff, targets_of, refs, ranges, static>>

NoRange == <<0, 0>>
Init ==
    /\ job = "idle" /\ ir = <<>> /\ site = 1 /\ pass = "called" /\ frames = <<>>
    /\ memo = <<>> /\ cutoff = FALSE /\ targets_of = <<>> /\ refs = <<>> /\ ranges = <<>>
    /\ static = <<>>

----------------------------------------------------------------------------
(* The elements of a list at some of its places, in order.                 *)
Picked(s, I) ==
    LET F[n \in Nat] == IF n = 0 THEN <<>> ELSE IF n \in I THEN Append(F[n - 1], s[n]) ELSE F[n - 1]
    IN  F[Len(s)]

(* Values of a module m, without the casts stripValueCasts takes off.      *)
IsFunction(m, v) == m.value[v].kind = "function"
Kept(m, v) == IsFunction(m, v) /\ ~m.value[v].skip

(* getCalledFunction: a function that is called through a cast is none.    *)
Direct(m, c) == IsFunction(m, c.callee) /\ ~c.cast
CallSites(m) ==
    Picked(m.calls, {i \in DOMAIN m.calls : Direct(m, m.calls[i]) => Kept(m, m.calls[i].callee)})
IndirectCalls(m) ==
    LET cs == CallSites(m) IN Picked(cs, {i \in DOMAIN cs : ~Direct(m, cs[i])})
DirectCallers(m, f) ==
    LET cs == CallSites(m) IN Picked(cs, {i \in DOMAIN cs : Direct(m, cs[i]) /\ cs[i].callee = f})
Calls(m, f) == {c.callee : c \in {d \in Range(CallSites(m)) : Direct(m, d) /\ d.caller = f}}

SourceKind(m, v) ==
    IF m.value[v].kind \in {"arg", "phi", "select", "load", "global", "ret_of_call", "function"}
    THEN m.value[v].kind ELSE "unknown"
SourceCallee(m, v) ==
    IF SourceKind(m, v) = "ret_of_call" THEN {f \in {m.value[v].callee} : Kept(m, f)} ELSE {}
CallSite(m, c) ==
    IF Direct(m, c) THEN [caller |-> c.caller, kind |-> "direct", callee |-> {c.callee}]
    ELSE [caller |-> c.caller, kind |-> "indirect", callee |-> SourceCallee(m, c.callee),
          source |-> SourceKind(m, c.callee)]

(* What a value may come from, each with the depth it adds: the argument   *)
(* that the direct callers pass, the initializer of a variable and what is *)
(* stored to it.  A store through a constant expression is only found if   *)
(* that is no cast.                                                        *)
Costing(vs, n) == [i \in DOMAIN vs |-> [value |-> vs[i], cost |-> n]]
Passed(m, a) ==
    LET callers == DirectCallers(m, m.value[a].parent)
        given == Picked(callers, {i \in DOMAIN callers : m.value[a].index <= Len(callers[i].args)})
    IN  [i \in DOMAIN given |-> given[i].args[m.value[a].index]]
Stored(m, p) ==
    LET here == Picked(m.stores, {i \in DOMAIN m.stores : /\ m.stores[i].pointer = p
                                                          /\ m.stores[i].through # "cast"})
    IN  [i \in DOMAIN here |-> here[i].value]
Initializer(m, p) == IF m.value[p].kind = "global" THEN m.value[p].init ELSE <<>>

MemoryObject(m, p) ==
    Costing(Initializer(m, p) \o Stored(m, p), 2)
    \o IF m.value[p].kind = "arg" THEN Costing(Passed(m, p), 3) ELSE <<>>
Operands(m, v) ==
    CASE m.value[v].kind \in {"alias", "phi", "select"} -> Costing(m.value[v].of, 1)
      [] m.value[v].kind = "arg" -> Costing(Passed(m, v), 2)
      [] m.value[v].kind = "load" -> MemoryObject(m, m.value[v].pointer)
      [] OTHER -> <<>>

----------------------------------------------------------------------------
(* Lines.  A block without any takes those of its function's declaration,  *)
(* or of the first predecessor, else successor, that has some by now: one  *)
(* that precedes itself has those of the declaration.                      *)
OwnLines(m, b) == IF m.block[b].lines = {} THEN NoRange ELSE <<Min(m.block[b].lines), Max(m.block[b].lines)>>
SeedBasicBlocks(m) == [b \in DOMAIN m.block |-> OwnLines(m, b)]

Near(m, b, r) ==
    LET all == m.block[b].pred \o m.block[b].succ IN Picked(all, {i \in DOMAIN all : r[all[i]][1] # 0})
Declared(m, b) == m.declared[m.block[b].function]
Infer(m, r, b) ==
    LET declared == [r EXCEPT ![b] = <<Declared(m, b), Declared(m, b)>>]
    IN  IF r[b] # NoRange THEN r
        ELSE IF Near(m, b, declared) = <<>> THEN declared
        ELSE [r EXCEPT ![b] = declared[Head(Near(m, b, declared))]]
InferBasicBlockLines(m) ==
    LET R[n \in Nat] == IF n = 0 THEN SeedBasicBlocks(m) ELSE Infer(m, R[n - 1], n)
    IN  R[Len(m.block)]

(* A block that its function's first block does not reach has no           *)
(* successors.                                                             *)
FirstBlock(m, f) == Min({b \in DOMAIN m.block : m.block[b].function = f})
Following(m, S) == S \cup UNION {Range(m.block[b].succ) : b \in S}
Reached(m, f) == FoldSet(LAMBDA b, all : Following(m, all), {FirstBlock(m, f)}, DOMAIN m.block)
Successors(m, b) == IF b \in Reached(m, m.block[b].function) THEN Range(m.block[b].succ) ELSE {}

(* A function reaches over its declaration, its instructions and blocks;   *)
(* one without a body only begins.                                         *)
FunctionLines(m, f, r) ==
    LET own == {b \in DOMAIN m.block : m.block[b].function = f}
        all == ({m.declared[f]} \cup {r[b][1] : b \in own} \cup {r[b][2] : b \in own}) \ {0}
    IN  IF own = {} THEN <<m.declared[f], 0>>
        ELSE IF all = {} THEN NoRange ELSE <<Min(all), Max(all)>>

----------------------------------------------------------------------------
Query(vs) == <<[value |-> 0, depth |-> 0, todo |-> Costing(vs, 0), found |-> {}]>>

(* run, up to resolveIndirectCalls.                                        *)
Run(m) ==
    /\ job' = "resolve"
    /\ ir' = m
    /\ targets_of' = [i \in 1 .. Len(IndirectCalls(m)) |-> {}]
    /\ refs' = [f \in DOMAIN m.declared |-> {}]
    /\ ranges' = InferBasicBlockLines(m)
    /\ UNCHANGED <<site, pass, frames, memo, cutoff, static>>

ResolveSite ==
    /\ job = "resolve" /\ frames = <<>> /\ site <= Len(IndirectCalls(ir))
    /\ LET c == IndirectCalls(ir)[site]
       IN  frames' = Query(IF pass = "called" THEN <<c.callee>> ELSE c.args \o <<c.callee>>)
    /\ UNCHANGED <<job, ir, site, pass, memo, cutoff, targets_of, refs, ranges, static>>

Inner == Head(frames)
Cause == Head(Inner.todo)
Depth == Inner.depth + Cause.cost
OnFrames(v) == \E i \in DOMAIN frames : frames[i].value = v
LastOnly(all, nested) == nested                                    \* mutant
Gather(all, nested) == all \cup nested

(* The value is too deep, resolved already, or being resolved.             *)
SkipValue ==
    /\ frames # <<>> /\ Inner.todo # <<>>
    /\ Depth > 8 \/ Cause.value \in DOMAIN memo \/ OnFrames(Cause.value)
    /\ LET known == IF Depth <= 8 /\ Cause.value \in DOMAIN memo THEN memo[Cause.value] ELSE {}
       IN  frames' = <<[Inner EXCEPT !.todo = Tail(@), !.found = Gather(@, known)]>> \o Tail(frames)
    /\ cutoff' = (cutoff \/ Depth > 8)
    /\ UNCHANGED <<job, ir, site, pass, memo, targets_of, refs, ranges, static>>

ResolveValue ==
    /\ frames # <<>> /\ Inner.todo # <<>>
    /\ Depth <= 8 /\ Cause.value \notin DOMAIN memo /\ ~OnFrames(Cause.value)
    /\ frames' = <<[value |-> Cause.value, depth |-> Depth, todo |-> Operands(ir, Cause.value),
                    found |-> {f \in {Cause.value} : Kept(ir, f)}],
                   [Inner EXCEPT !.todo = Tail(@)]>> \o Tail(frames)
    /\ UNCHANGED <<job, ir, site, pass, memo, cutoff, targets_of, refs, ranges, static>>

(* The result is cached, also if a value on the way was being resolved and *)
(* gave nothing for that.                                                  *)
ReturnValue ==
    /\ Len(frames) > 1 /\ Inner.todo = <<>>
    /\ memo' = [v \in DOMAIN memo \cup {Inner.value} |-> IF v = Inner.value THEN Inner.found ELSE memo[v]]
    /\ LET caller == Head(Tail(frames))
       IN  frames' = <<[caller EXCEPT !.found = Gather(@, Inner.found)]>> \o Tail(Tail(frames))
    /\ UNCHANGED <<job, ir, site, pass, cutoff, targets_of, refs, ranges, static>>

RecordResolvedTargets(s, fs) ==
    /\ targets_of' = [targets_of EXCEPT ![s] = @ \cup fs]
    /\ refs' = [refs EXCEPT ![IndirectCalls(ir)[s].caller] = @ \cup fs]

(* If the called operand gave no function, every operand is asked.         *)
Resolved ==
    /\ Len(frames) = 1 /\ Inner.todo = <<>>
    /\ RecordResolvedTargets(site, Inner.found)
    /\ frames' = <<>>
    /\ IF pass = "called" /\ Inner.found = {} THEN pass' = "operands" /\ UNCHANGED site
       ELSE pass' = "called" /\ site' = site + 1
    /\ UNCHANGED <<job, ir, memo, cutoff, ranges, static>>

----------------------------------------------------------------------------
(* The output of SVF.  Lines before the section of function pointers do    *)
(* not count; a blank line, a node or the next call site ends a call site. *)
Ended(s) == IF s.open = <<>> THEN s.sites ELSE Append(s.sites, s.open[1])
ParseLine(s, l) ==
    CASE ~s.section -> [s EXCEPT !.section = l.kind = "section"]
      [] s.section /\ l.kind \in {"blank", "node"} -> [s EXCEPT !.sites = Ended(s), !.open = <<>>]
      [] s.section /\ l.kind = "site" ->
             [s EXCEPT !.sites = Ended(s), !.open = <<[key |-> l.key, targets |-> {}]>>]
      [] OTHER -> IF s.open = <<>> THEN s ELSE [s EXCEPT !.open[1].targets = @ \cup {l.name}]
ParseSVFWpaOutput(lines) ==
    Ended(FoldLeft(ParseLine, [section |-> FALSE, open |-> <<>>, sites |-> <<>>], lines))

(* A call is told by file, line and text: 0 without a line.  Equal calls   *)
(* of one line are one.                                                    *)
Merged(s) ==
    UNION {{f \in DOMAIN ir.value : Kept(ir, f) /\ f \in p.targets} :
              p \in {q \in Range(ParseSVFWpaOutput(ir.svf.lines)) :
                        q.key # 0 /\ q.key = IndirectCalls(ir)[s].key}}

Analyzed == job = "resolve" /\ frames = <<>> /\ site > Len(IndirectCalls(ir))

(* wpa fails, or its output is not there: no static.json is written.       *)
MergeFails ==
    /\ Analyzed /\ ir.svf.state = "fails" /\ job' = "failed"
    /\ UNCHANGED <<ir, site, pass, frames, memo, cutoff, targets_of, refs, ranges, static>>

MergeSVFWpaOutput ==
    /\ Analyzed /\ ir.svf.state # "fails" /\ job' = "write"
    /\ IF ir.svf.state = "none" THEN UNCHANGED <<targets_of, refs>>
       ELSE LET sites == DOMAIN targets_of
            IN  /\ targets_of' = [s \in sites |-> targets_of[s] \cup Merged(s)]
                /\ refs' = [f \in DOMAIN refs |->
                               refs[f] \cup UNION {Merged(s) : s \in {t \in sites : IndirectCalls(ir)[t].caller = f}}]
    /\ UNCHANGED <<ir, site, pass, frames, memo, cutoff, ranges, static>>

(* The file may not be opened: that is reported and main goes on.          *)
WriteStaticJson ==
    /\ job = "write" /\ job' = "done"
    /\ static' = [functions |-> [f \in DOMAIN refs |->
                                   [calls |-> Calls(ir, f), refs |-> refs[f], lines |-> FunctionLines(ir, f, ranges)]],
                  blocks |-> [b \in DOMAIN ranges |-> [lines |-> ranges[b], successors |-> Successors(ir, b)]],
                  callsites |-> [i \in DOMAIN CallSites(ir) |-> CallSite(ir, CallSites(ir)[i])],
                  resolved |-> targets_of]
    /\ UNCHANGED <<ir, site, pass, frames, memo, cutoff, targets_of, refs, ranges>>

StaticJsonFails ==
    /\ job = "write" /\ job' = "unwritten"
    /\ UNCHANGED <<ir, site, pass, frames, memo, cutoff, targets_of, refs, ranges, static>>

Next == (job = "idle" /\ \E m \in Modules : Run(m)) \/ ResolveSite \/ SkipValue \/ ResolveValue \/ ReturnValue \/ Resolved
        \/ MergeFails \/ MergeSVFWpaOutput \/ WriteStaticJson \/ StaticJsonFails

Spec == Init /\ [][Next]_extractVars

----------------------------------------------------------------------------
(* The functions a value may be, by the operands alone.                    *)
OperandsOf(m, S) == UNION {{o.value : o \in Range(Operands(m, v))} : v \in S}
Widened(m, S) == S \cup OperandsOf(m, S)
Behind(m, S) ==
    LET R[n \in Nat] == IF n = 0 THEN S ELSE Widened(m, R[n - 1])
    IN  R[Cardinality(DOMAIN m.value)]
FunctionsBehind(m, S) == {v \in Behind(m, S) : Kept(m, v)}
Called(m, s) == {IndirectCalls(m)[s].callee}
Asked(m, s) == Called(m, s) \cup Range(IndirectCalls(m)[s].args)
Sought(m, s) ==
    IF FunctionsBehind(m, Called(m, s)) # {} THEN FunctionsBehind(m, Called(m, s))
    ELSE FunctionsBehind(m, Asked(m, s))
Acyclic(m, S) == \A v \in Behind(m, S) : v \notin Behind(m, OperandsOf(m, {v}))

(* A call is resolved to functions that it may reach, or that its operands *)
(* may be if it may reach none; to all of them unless a value was too deep *)
(* or, after the first call, lies on a cycle, whose values keep what was   *)
(* known before the cycle was closed.                                      *)
CalleesFound ==
    \A s \in 1 .. site - 1 :
        job = "resolve" =>
            /\ targets_of[s] \subseteq FunctionsBehind(ir, Asked(ir, s))
            /\ ~cutoff /\ (s = 1 \/ Acyclic(ir, Asked(ir, s))) => targets_of[s] = Sought(ir, s)

(* What is written: the references of a function are the targets of its    *)
(* calls, and the range of a function holds those of its blocks.           *)
ReferencesAgree ==
    job = "done" =>
        /\ \A f \in DOMAIN refs :
              static.functions[f].refs =
                  UNION {static.resolved[s] : s \in {t \in DOMAIN static.resolved : IndirectCalls(ir)[t].caller = f}}
        /\ \A b \in DOMAIN ranges :
              LET in == static.functions[ir.block[b].function].lines
              IN  ranges[b] # NoRange => in[1] <= ranges[b][1] /\ ranges[b][2] <= in[2]
CallsAreResolved == CalleesFound /\ ReferencesAgree
=============================================================================
