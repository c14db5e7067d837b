--------------------------- MODULE BranchSlicer ---------------------------
(* The slicer that an attempt asks for the code a branch depends on        *)
(* (svf/src/BranchConditionSlicer.cpp, a program of its own): the          *)
(* instructions a location stands for, the values their condition is       *)
(* computed from, the branches that control those, and the source lines    *)
(* that are printed.                                                       *)
(* A program is given as its function under the slice: blocks with their   *)
(* successors, instructions with the values they use.  LLVM and SVF are    *)
(* external: post-dominators and the nearest memory definition are         *)
(* defined here as what they promise.                                      *)
EXTENDS Naturals, FiniteSets, FiniteSetsExt

CONSTANTS
    Jobs,          \* programs and requests, see MCAnalyses
    CdDepth,       \* slice-cd-depth
    SuccSteps      \* slice-succ-steps

(* Functions whose every block can leave: none is in a set that only leads *)
(* to itself.  (LLVM hangs an endless loop onto an exit it makes up.)      *)
IsFlow(succ) ==
    /\ succ \in [DOMAIN succ -> SUBSET DOMAIN succ] /\ IsFiniteSet(DOMAIN succ)
    /\ \A C \in SUBSET DOMAIN succ :
          C # {} /\ (\A b \in C : succ[b] \subseteq C) => \E b \in C : succ[b] = {}
JobsAssumption == \A j \in Jobs : IsFlow(j.prog.succ)

VARIABLES
    phase,         \* what the slicer is doing
    prog,          \* the program; and the request
    req,
    targets,       \* the instructions it stands for, those still to slice
    target,        \* the one being sliced
    work,          \* values to follow, and those that were
    followed,
    insts,         \* the slice
    walk,          \* control dependence: <<branch, block reached>>
    deps,          \*   and <<block, branch>> found
    rounds,
    shown,         \* source lines of all slices so far
    asserts,       \* lines that are printed as an assertion
    printed
sliceVars == <<phase, prog, req, targets, target, work, followed, insts, walk, deps, rounds, shown, asserts, printed>>

----------------------------------------------------------------------------
(* The program: block b ends in the instruction b; blocks are numbered in  *)
(* the order of the function.                                              *)
Blocks == DOMAIN prog.succ
Preds(b) == {p \in Blocks : b \in prog.succ[p]}
Ends(b) == prog.succ[b] = {}
BlockOf(i) == IF i \in Blocks THEN i ELSE prog.inst[i].block
InBlock(b) == {i \in DOMAIN prog.inst : prog.inst[i].block = b}
AllInsts == Blocks \cup DOMAIN prog.inst
IsConditional(i) == i \in Blocks \ prog.invoke /\ Cardinality(prog.succ[i]) = 2
IsSwitch(i) == i \in Blocks /\ Cardinality(prog.succ[i]) > 2
IsBranchOrSwitch(i) == i \in Blocks /\ ~Ends(i) /\ i \notin prog.invoke

(* What can be reached: what every set has that holds the start and is     *)
(* closed.                                                                 *)
ClosedUnder(C, next) == \A b \in C : next[b] \subseteq C
ReachFrom(S, next) == {y \in Blocks : \A C \in SUBSET Blocks : S \subseteq C /\ ClosedUnder(C, next) => y \in C}
Reaches(x, y, without) ==
    x \notin without /\ y \in ReachFrom({x}, [b \in Blocks |-> prog.succ[b] \ without])

(* LLVM: x is on every way from y out of the function; the nearest such    *)
(* block after y, or none if the ways out have nothing in common.          *)
PostDominates(x, y) ==
    x = y \/ \A e \in Blocks : Ends(e) => ~Reaches(y, e, {x})
StrictPostDominators(y) == {x \in Blocks \ {y} : PostDominates(x, y)}
IPDom(y) == {x \in StrictPostDominators(y) : \A z \in StrictPostDominators(y) : PostDominates(z, x)}
Dominates(x, y) == x = y \/ ~Reaches(1, y, {x})

----------------------------------------------------------------------------
(* Which instructions a line stands for.                                   *)
Matching(line) == {i \in AllInsts : line \in prog.lines[i]}
Line(i) == prog.line[i]
Distance(m, n) == IF m > n THEN m - n ELSE n - m

(* findSwitchEndLine follows every successor, past the end of the switch.  *)
SwitchEndLine(s) ==
    Max({Line(i) : i \in {j \in AllInsts : BlockOf(j) \in ReachFrom({s}, prog.succ)}})

(* The first switch of the function whose lines contain this one.          *)
SwitchContaining(line) ==
    LET containing == {s \in Blocks : IsSwitch(s) /\ Line(s) <= line /\ line <= SwitchEndLine(s)}
    IN  {s \in containing : \A t \in containing : s <= t}

(* searchSuccessorsForBranch, from a block that ends in an invoke: the     *)
(* first branch on the nearest level that has one.                         *)
NearBranch(b) ==
    LET R[n \in Nat] == IF n = 0 THEN {b} ELSE R[n - 1] \cup UNION {prog.succ[x] : x \in R[n - 1]}
        branches(n) == {x \in R[n] : IsBranchOrSwitch(x)}
        nearest(n) == branches(n) # {} /\ \A m \in 0 .. n - 1 : branches(m) = {}
    IN  UNION {{Min(branches(n))} : n \in {m \in 0 .. SuccSteps : nearest(m)}}

(* findTargetBranches: a candidate per block with a match, of them the     *)
(* nearest to the line, of the first block if several are.                 *)
TargetBranches(line) ==
    LET hit == {b \in {BlockOf(i) : i \in Matching(line)} : NearBranch(b) # {}}
        far(b) == Distance(Line(Min(NearBranch(b))), line)
    IN  UNION {NearBranch(b) : b \in
                  {c \in hit : \A d \in hit : far(c) < far(d) \/ (far(c) = far(d) /\ c <= d)}}

SelectTargets(kind, line) ==
    LET found == CASE kind = "branch" -> TargetBranches(line)
                   [] kind = "switch-case" -> SwitchContaining(line)
                   [] OTHER -> Matching(line)
    IN  IF found = {} THEN SwitchContaining(line) ELSE found

(* findParentSwitchForCase: a switch just before the block, its own, or    *)
(* the dominating one whose line is nearest above.                         *)
ParentSwitch(i) ==
    LET b == BlockOf(i)
        before == {s \in Preds(b) : IsSwitch(s)}
        above == {s \in Blocks : IsSwitch(s) /\ Dominates(s, b) /\ Line(s) <= Line(i)}
    IN  CASE before # {} -> {Min(before)}
          [] before = {} /\ IsSwitch(b) -> {b}
          [] OTHER -> {s \in above : \A t \in above : Line(t) < Line(s) \/ (Line(t) = Line(s) /\ s <= t)}

----------------------------------------------------------------------------
(* The values behind a value.                                              *)
IsStore(i, slot) == prog.inst[i].kind = "store" /\ prog.inst[i].slot = slot
Last(S) == {i \in S : \A j \in S : prog.inst[j].pos <= prog.inst[i].pos}
Earlier(l) == {i \in InBlock(BlockOf(l)) : prog.inst[i].pos < prog.inst[l].pos}

(* MemoryDependence: the nearest earlier instruction of the block that     *)
(* writes or reads the slot, or a call that may.                           *)
LocalDef(l) ==
    LET slot == prog.inst[l].slot
    IN  Last({i \in Earlier(l) : \/ prog.inst[i].kind \in {"store", "load"} /\ prog.inst[i].slot = slot
                                 \/ prog.inst[i].kind = "call" /\ slot \notin prog.stack})

(* findDefiningMemoryInstApprox: the last store of a predecessor; the      *)
(* predecessors of a block are looked at before theirs, in any order.      *)
StoredIn(b, slot) == {i \in InBlock(b) : IsStore(i, slot)}
ApproxDefs(l) ==
    LET slot == prog.inst[l].slot
        storing(b) == {p \in Preds(b) : StoredIn(p, slot) # {}}
        searched == ReachFrom({BlockOf(l)}, [b \in Blocks |-> IF storing(b) \ {BlockOf(l)} = {} THEN Preds(b) ELSE {}])
    IN  UNION {Last(StoredIn(p, slot)) : p \in UNION {storing(b) : b \in searched} \ {BlockOf(l)}}

(* One of the definitions (findDefiningMemoryInst), for each load.         *)
Defs(l) == IF LocalDef(l) # {} THEN LocalDef(l) ELSE ApproxDefs(l)

StackStores(l) ==
    {i \in DOMAIN prog.inst : prog.inst[l].slot \in prog.stack /\ IsStore(i, prog.inst[l].slot)}

----------------------------------------------------------------------------
NoProgram == <<>>
Clear == targets = {} /\ target = {} /\ work = {} /\ followed = {} /\ insts = {} /\ walk = {} /\ deps = {}
Init ==
    /\ phase = "idle" /\ prog = NoProgram /\ req = NoProgram
    /\ Clear /\ rounds = 0 /\ shown = {} /\ asserts = {} /\ printed = {}

Slice(p, r) ==
    /\ phase = "idle" /\ phase' = "locate"
    /\ prog' = p /\ req' = r
    /\ UNCHANGED <<targets, target, work, followed, insts, walk, deps, rounds, shown, asserts, printed>>

(* No target: an error is written instead of a slice.                      *)
Locate ==
    /\ phase = "locate"
    /\ targets' = SelectTargets(req.kind, req.line)
    /\ phase' = IF targets' = {} THEN "error" ELSE "next"
    /\ UNCHANGED <<prog, req, target, work, followed, insts, walk, deps, rounds, shown, asserts, printed>>

(* What a target is sliced for: its condition, that of the switch it is a  *)
(* case of, or all it uses.  An unconditional branch outside of a switch   *)
(* is skipped.                                                             *)
CondOf(i) ==
    IF IsConditional(i) \/ IsSwitch(i) THEN {prog.cond[i]}
    ELSE {prog.cond[s] : s \in ParentSwitch(i)}
Skipped(i) == IsBranchOrSwitch(i) /\ CondOf(i) = {}
Uses(i) == IF i \in Blocks THEN (IF i \in DOMAIN prog.cond THEN {prog.cond[i]} ELSE {}) ELSE prog.inst[i].uses

Begin(i) ==
    /\ phase = "next" /\ i \in targets
    /\ targets' = targets \ {i}
    /\ IF Skipped(i) THEN UNCHANGED <<phase, target, work>>
       ELSE /\ phase' = "follow" /\ target' = {i}
            /\ work' = IF CondOf(i) # {} THEN CondOf(i) ELSE Uses(i)
    /\ UNCHANGED <<prog, req, followed, insts, walk, deps, rounds, shown, asserts, printed>>

(* backwardSliceValue, one level of the recursion for all values at once,  *)
(* with a definition for each load among them.                             *)
Follow ==
    LET new == (work \ followed) \cap AllInsts
        loads == {i \in new : i \notin Blocks /\ prog.inst[i].kind = "load"}
    IN  /\ phase = "follow" /\ work # {}
        /\ \E def \in [loads -> UNION {Defs(l) : l \in loads} \cup {0}] :
              /\ \A l \in loads : def[l] \in Defs(l) \/ (Defs(l) = {} /\ def[l] = 0)
              /\ LET defs == {def[l] : l \in loads} \ {0}
                     memory == UNION {StackStores(l) : l \in loads}
                               \cup {d \in defs : prog.inst[d].kind \in {"store", "load"}}
                 IN  /\ insts' = insts \cup new \cup defs \cup memory
                     /\ followed' = followed \cup work
                     /\ work' = UNION {Uses(i) : i \in new \cup memory} \ followed'
        /\ UNCHANGED <<phase, prog, req, targets, target, walk, deps, rounds, shown, asserts, printed>>

----------------------------------------------------------------------------
(* Control dependence, built for the function of each target: from the     *)
(* successors of a branch up to the block all its ways join in.  A branch  *)
(* whose ways leave the function apart has no such block and is left out.  *)
Build ==
    /\ phase = "follow" /\ work = {} /\ rounds = 0
    /\ phase' = "walk" /\ rounds' = 1
    /\ walk' = UNION {{b} \X prog.succ[b] :
                         b \in {c \in Blocks : Cardinality(prog.succ[c]) > 1 /\ IPDom(c) # {}}}
    /\ UNCHANGED <<prog, req, targets, target, work, followed, insts, deps, shown, asserts, printed>>

UpToItself(b, x) == x = b                                          \* mutant
Joined(b, x) == x \in IPDom(b)

Walk ==
    LET going == {w \in walk : ~Joined(w[1], w[2])}
    IN  /\ phase = "walk" /\ walk # {}
        /\ deps' = deps \cup {<<w[2], w[1]>> : w \in going}
        /\ walk' = UNION {{w[1]} \X IPDom(w[2]) : w \in going}
        /\ UNCHANGED <<phase, prog, req, targets, target, work, followed, insts, rounds, shown, asserts, printed>>

(* extendSliceWithControlDep: a round takes the branches that control the  *)
(* slice as it was, and follows their conditions; an invoke has none.      *)
Controllers == {d[2] : d \in {e \in deps : \E i \in insts : BlockOf(i) = e[1]}}
Extend ==
    /\ \/ phase = "walk" /\ walk = {}
       \/ phase = "follow" /\ work = {} /\ rounds > 0
    /\ LET changed == ~(Controllers \subseteq insts)
       IN  IF rounds <= CdDepth /\ (changed \/ rounds = 1)
           THEN /\ phase' = "follow" /\ rounds' = rounds + 1
                /\ insts' = insts \cup Controllers
                /\ work' = {prog.cond[c] : c \in Controllers \ prog.invoke} \ followed
           ELSE phase' = "collect" /\ UNCHANGED <<rounds, insts, work>>
    /\ UNCHANGED <<prog, req, targets, target, followed, walk, deps, shown, asserts, printed>>

----------------------------------------------------------------------------
(* The lines of a slice, of its target and of the switch; the line that is *)
(* replaced by an assertion.                                               *)
Collect ==
    /\ phase = "collect" /\ phase' = "next"
    /\ \E i \in target :
          LET switch == ParentSwitch(i)
              asked == IF switch = {} \/ IsSwitch(i) THEN {i} ELSE switch
          IN  /\ shown' = shown \cup UNION {prog.lines[j] : j \in insts}
                                \cup IF switch = {} THEN prog.lines[i]
                                     ELSE {req.line} \cup {Line(s) : s \in switch}
              /\ asserts' = IF CondOf(i) = {} THEN asserts ELSE asserts \cup {Line(j) : j \in asked}
    /\ target' = {} /\ followed' = {} /\ insts' = {} /\ deps' = {} /\ rounds' = 0
    /\ UNCHANGED <<prog, req, targets, work, walk, printed>>

(* printSourceSliceFromMap: the head and the end of every function a line  *)
(* is in; with a call path, the functions of the path and nothing else.    *)
FunctionOf(n) == {f \in prog.funcs : f.start <= n /\ n <= f.end}
Heads(lines) == UNION {f.start .. f.body \cup {f.end} : f \in UNION {FunctionOf(n) : n \in lines}}
OnPath(lines) ==
    IF req.path THEN {n \in lines : \E f \in FunctionOf(n) : f.onPath} ELSE lines

PrintSlice ==
    /\ phase = "next" /\ targets = {}
    /\ phase' = "done"
    /\ printed' = OnPath(shown \cup Heads(shown))
    /\ UNCHANGED <<prog, req, targets, target, work, followed, insts, walk, deps, rounds, shown, asserts>>

Next ==
    \/ phase = "idle" /\ \E j \in Jobs : Slice(j.prog, j.req)
    \/ Locate \/ Follow \/ Build \/ Walk \/ Extend \/ Collect \/ PrintSlice
    \/ \E i \in targets : Begin(i)

Spec == Init /\ [][Next]_sliceVars

----------------------------------------------------------------------------
(* Control dependence as it is defined: x is controlled by the branch b if *)
(* x is on every way out from one of b's successors, but not after b       *)
(* itself.                                                                 *)
Controls(b, x) ==
    /\ \E s \in prog.succ[b] : PostDominates(x, s)
    /\ x \notin StrictPostDominators(b)

(* When the walks have ended they have found the control dependences,      *)
(* those of loops included, of every branch whose ways join before the     *)
(* function is left, and none of the others.                               *)
DependencesFound ==
    phase = "walk" /\ walk = {} =>
        deps = {d \in Blocks \X Blocks : IPDom(d[2]) # {} /\ Cardinality(prog.succ[d[2]]) > 1 /\ Controls(d[2], d[1])}
=============================================================================
