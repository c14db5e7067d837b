-------------------------- MODULE ExtractionProofs --------------------------
(* Theorems about the two programs that read a bitcode: the resolution of  *)
(* indirect calls and what is written to static.json, see                  *)
(* StaticExtraction; control dependence, see BranchSlicer.                 *)
EXTENDS AnalysisMachines, FiniteSetTheorems, SequenceTheorems, WellFoundedInduction, TLAPS

----------------------------------------------------------------------------
(* Natural numbers, and functions on them.                                 *)
Less == {p \in Nat \X Nat : p[1] < p[2]}
LEMMA LessWellFounded == IsWellFoundedOn(Less, Nat)
<1>1. Less = OpToRel(<, Nat)
  BY DEF Less, OpToRel
<1>. QED
  BY <1>1, NatLessThanWellFounded

(* A set of naturals has a least element.                                  *)
LEMMA LeastOf == ASSUME NEW T \in SUBSET Nat, T # {} PROVE \E m \in T : \A n \in T : m <= n
<1>1. PICK m \in T : \A n \in T : ~(<<n, m>> \in Less)
  BY LessWellFounded, WFMin
<1>2. ASSUME NEW n \in T PROVE m <= n
  <2>1. n \in Nat /\ m \in Nat
    OBVIOUS
  <2>2. n < m => <<n, m>> \in Less
    BY <2>1 DEF Less
  <2>. QED
    BY <1>1, <2>1, <2>2
<1>. QED
  BY <1>2

(* Induction over the naturals, for a set of them.                         *)
LEMMA AllOf ==
    ASSUME NEW T, 0 \in T, \A n \in Nat : n \in T => n + 1 \in T
    PROVE  \A n \in Nat : n \in T
<1> SUFFICES ASSUME Nat \ T # {} PROVE FALSE
  OBVIOUS
<1>1. PICK m \in Nat \ T : \A n \in Nat \ T : m <= n
  BY LeastOf
<1>2. m # 0 /\ m \in Nat
  OBVIOUS
<1>3. m - 1 \in Nat /\ (m - 1) + 1 = m /\ ~(m <= m - 1)
  BY <1>2
<1>4. m - 1 \in T
  BY <1>1, <1>3
<1> QED
  BY <1>3, <1>4

(* Functions on the naturals that are defined by recursion.                *)
Follows(R, X, x0, nextOf) == R \in [Nat -> X] /\ R[0] = x0 /\ \A n \in Nat : R[n + 1] = nextOf[n][R[n]]

LEMMA Recursion ==
    ASSUME NEW X, NEW x0 \in X, NEW nextOf \in [Nat -> [X -> X]]
    PROVE  \E R : Follows(R, X, x0, nextOf)
<1> DEFINE Upto(n) == {g \in [0 .. n -> X] : g[0] = x0 /\ \A i \in 0 .. n - 1 : g[i + 1] = nextOf[i][g[i]]}
<1>1. \A n \in Nat : Upto(n) # {}
  <2> DEFINE T == {n \in Nat : Upto(n) # {}}
  <2>1. 0 \in T
    <3>1. [i \in 0 .. 0 |-> x0] \in Upto(0)
      OBVIOUS
    <3> QED
      BY <3>1
  <2>2. ASSUME NEW n \in Nat, n \in T PROVE n + 1 \in T
    <3>1. PICK g \in [0 .. n -> X] : g[0] = x0 /\ \A i \in 0 .. n - 1 : g[i + 1] = nextOf[i][g[i]]
      BY <2>2
    <3> DEFINE h == [i \in 0 .. n + 1 |-> IF i = n + 1 THEN nextOf[n][g[n]] ELSE g[i]]
    <3>2. nextOf[n][g[n]] \in X
      BY <3>1
    <3>3. h \in [0 .. n + 1 -> X] /\ h[0] = x0
      BY <3>1, <3>2
    <3>4. ASSUME NEW i \in 0 .. n PROVE h[i + 1] = nextOf[i][h[i]]
      BY <3>1
    <3>5. (n + 1) - 1 = n
      OBVIOUS
    <3> HIDE DEF h
    <3>6. h \in Upto(n + 1)
      BY <3>3, <3>4, <3>5
    <3> QED
      BY <3>6
  <2> HIDE DEF T
  <2>3. \A n \in Nat : n \in T
    BY <2>1, <2>2, AllOf
  <2> QED
    BY <2>3 DEF T
<1>2. ASSUME NEW n \in Nat, NEW m \in Nat, n <= m, NEW g \in Upto(n), NEW h \in Upto(m)
      PROVE  \A i \in 0 .. n : g[i] = h[i]
  <2> DEFINE T == {i \in Nat : i <= n => g[i] = h[i]}
  <2>1. 0 \in T
    OBVIOUS
  <2>2. ASSUME NEW i \in Nat, i \in T PROVE i + 1 \in T
    <3>1. CASE i + 1 <= n
      <4>1. i \in 0 .. n - 1 /\ i \in 0 .. m - 1
        BY <1>2, <3>1
      <4>2. g[i + 1] = nextOf[i][g[i]] /\ h[i + 1] = nextOf[i][h[i]]
        BY <4>1
      <4> QED
        BY <2>2, <3>1, <4>2
    <3>2. CASE ~(i + 1 <= n)
      BY <3>2
    <3> QED
      BY <3>1, <3>2
  <2> HIDE DEF T
  <2>3. \A i \in Nat : i \in T
    BY <2>1, <2>2, AllOf
  <2> QED
    BY <2>3 DEF T
<1> DEFINE upTo(n) == CHOOSE g \in Upto(n) : TRUE
           R == [n \in Nat |-> upTo(n)[n]]
<1> HIDE DEF Upto
<1>3. \A n \in Nat : upTo(n) \in Upto(n)
  BY <1>1
<1> HIDE DEF upTo
<1>4. \A n \in Nat : upTo(n) \in [0 .. n -> X] /\ upTo(n)[0] = x0
  BY <1>3 DEF Upto
<1>5. R \in [Nat -> X] /\ R[0] = x0
  BY <1>4
<1>6. ASSUME NEW n \in Nat PROVE R[n + 1] = nextOf[n][R[n]]
  <2>1. upTo(n + 1)[n + 1] = nextOf[n][upTo(n + 1)[n]]
    <3>1. n + 1 \in Nat /\ n \in 0 .. (n + 1) - 1
      OBVIOUS
    <3> QED
      BY <1>3, <3>1 DEF Upto
  <2>2. upTo(n)[n] = upTo(n + 1)[n]
    <3>1. n + 1 \in Nat /\ n <= n + 1 /\ n \in 0 .. n
      OBVIOUS
    <3> QED
      BY <1>2, <1>3, <3>1
  <2> QED
    BY <2>1, <2>2
<1> HIDE DEF R
<1> QED
  BY <1>5, <1>6 DEF Follows

LEMMA Keeps ==
    ASSUME NEW F, NEW X, F[0] \in X, \A n \in Nat : F[n] \in X => F[n + 1] \in X
    PROVE  \A n \in Nat : F[n] \in X
<1> DEFINE T == {n \in Nat : F[n] \in X}
<1>1. 0 \in T /\ \A n \in Nat : n \in T => n + 1 \in T
  OBVIOUS
<1> HIDE DEF T
<1>2. \A n \in Nat : n \in T
  BY <1>1, AllOf
<1> QED
  BY <1>2 DEF T

----------------------------------------------------------------------------
(* The stack of an unfinished resolution, top first: what the call at a    *)
(* place is for, and what it has to go through.                            *)
Source(m, fs, roots, k) == IF k = Len(fs) THEN roots ELSE {fs[k].value}
Explored(m, fs, roots, k) == IF k = Len(fs) THEN roots ELSE Extractor!OperandsOf(m, {fs[k].value})
Due(fs, k) == {o.value : o \in Extractor!Range(fs[k].todo)}
Opened(fs, o) == \E k \in 1 .. Len(fs) : fs[k].value = o
Exactly(m, S, T) == Extractor!FunctionsBehind(m, S) \subseteq T

StackOK(m, fs, roots) ==
    /\ fs[Len(fs)].value = 0
    /\ \A k \in 1 .. Len(fs) - 1 : fs[k].value \in DOMAIN m.value /\ fs[k].value \in Explored(m, fs, roots, k + 1)
    /\ \A k \in 1 .. Len(fs) : Due(fs, k) \subseteq Explored(m, fs, roots, k)
    /\ \A j \in 1 .. Len(fs) - 1 : \A i \in 1 .. j - 1 :
          fs[i].value \in Extractor!Behind(m, Extractor!OperandsOf(m, {fs[j].value}))

(* What was found may be reached, and a function on the way was found.     *)
SoundOK(m, fs, roots, cached) ==
    /\ \A k \in 1 .. Len(fs) : fs[k].found \subseteq Extractor!FunctionsBehind(m, Source(m, fs, roots, k))
    /\ \A k \in 1 .. Len(fs) - 1 : Extractor!Kept(m, fs[k].value) => fs[k].value \in fs[k].found
    /\ \A v \in DOMAIN cached : cached[v] \subseteq Extractor!FunctionsBehind(m, {v})

(* As long as nothing was too deep: each operand is to be done, cached or  *)
(* on the stack; those of acyclic values are found.                        *)
ClosedOK(m, fs, roots, cached) ==
    /\ \A k \in 1 .. Len(fs) : \A o \in Explored(m, fs, roots, k) :
          o \in Due(fs, k) \/ o \in DOMAIN cached \/ Opened(fs, o)
    /\ \A v \in DOMAIN cached : \A o \in Extractor!OperandsOf(m, {v}) : o \in DOMAIN cached \/ Opened(fs, o)
AcyclicOK(m, fs, roots, cached) ==
    /\ \A k \in 1 .. Len(fs) : Extractor!Acyclic(m, Source(m, fs, roots, k)) =>
          \A o \in Explored(m, fs, roots, k) :
             o \in Due(fs, k) \/ (k > 1 /\ o = fs[k - 1].value) \/ Exactly(m, {o}, fs[k].found)
    /\ \A v \in DOMAIN cached : Extractor!Acyclic(m, {v}) => Exactly(m, {v}, cached[v])
FirstOK(m, fs, cached) ==
    \A v \in DOMAIN cached : Extractor!Kept(m, v) => \E k \in 1 .. Len(fs) : v \in fs[k].found

Roots(m, s, p) == IF p = "called" THEN Extractor!Called(m, s) ELSE Extractor!Asked(m, s)
OperandSet(m) == [value : DOMAIN m.value, cost : Nat]
Frames(m) == [value : DOMAIN m.value \cup {0}, depth : Nat, todo : Seq(OperandSet(m)), found : SUBSET DOMAIN m.value]

(* A call that is done, and one that must be resolved exactly.             *)
Strict(m, s, cut) == ~cut /\ (s = 1 \/ Extractor!Acyclic(m, Extractor!Asked(m, s)))
SiteOK(m, s, cut, fs) ==
    /\ fs \subseteq Extractor!FunctionsBehind(m, Extractor!Asked(m, s))
    /\ Strict(m, s, cut) => fs = Extractor!Sought(m, s)

TypesOK ==
    /\ ir \in Modules
    /\ site \in 1 .. Len(Extractor!IndirectCalls(ir)) + 1
    /\ frames # <<>> \/ pass = "operands" => site <= Len(Extractor!IndirectCalls(ir))
    /\ pass \in {"called", "operands"}
    /\ frames \in Seq(Frames(ir))
    /\ memo \in [DOMAIN memo -> SUBSET DOMAIN ir.value] /\ DOMAIN memo \subseteq DOMAIN ir.value
    /\ cutoff \in BOOLEAN
    /\ targets_of \in [1 .. Len(Extractor!IndirectCalls(ir)) -> SUBSET DOMAIN ir.value]
Ongoing ==
    LET roots == Roots(ir, site, pass)
    IN  /\ frames # <<>> => StackOK(ir, frames, roots)
        /\ SoundOK(ir, frames, roots, memo)
        /\ ~cutoff => ClosedOK(ir, frames, roots, memo) /\ AcyclicOK(ir, frames, roots, memo)
        /\ ~cutoff /\ site = 1 => FirstOK(ir, frames, memo)
Recorded ==
    /\ \A s \in 1 .. site - 1 : SiteOK(ir, s, cutoff, targets_of[s])
    /\ \A s \in site .. Len(Extractor!IndirectCalls(ir)) : targets_of[s] = {}
    /\ pass = "operands" /\ Strict(ir, site, cutoff) => Extractor!FunctionsBehind(ir, Extractor!Called(ir, site)) = {}
Unbegun ==
    /\ job = "idle" => site = 1 /\ pass = "called" /\ frames = <<>> /\ memo = <<>> /\ cutoff = FALSE
    /\ job # "resolve" => frames = <<>>
Resolving == job = "resolve" => TypesOK /\ Ongoing /\ Recorded
RefsOf(f) == UNION {targets_of[s] : s \in {t \in DOMAIN targets_of : Extractor!IndirectCalls(ir)[t].caller = f}}
Referred ==
    job \in {"resolve", "write", "done"} =>
        /\ ir \in Modules
        /\ ranges = Extractor!InferBasicBlockLines(ir)
        /\ DOMAIN refs = DOMAIN ir.declared
        /\ \A f \in DOMAIN refs : refs[f] = RefsOf(f)
WrittenOK ==
    job = "done" => /\ static.resolved = targets_of
                    /\ \A f \in DOMAIN refs : static.functions[f].refs = refs[f] /\ static.functions[f].lines = Extractor!FunctionLines(ir, f, ranges)
ExtractInv == Unbegun /\ Resolving /\ Referred /\ WrittenOK

----------------------------------------------------------------------------
(* What the operators of the model return.                                 *)
LEMMA PickedIs ==
    ASSUME NEW S, NEW s \in Seq(S), NEW I \in SUBSET DOMAIN s
    PROVE  Extractor!Picked(s, I) \in Seq({s[i] : i \in I}) /\ Extractor!Picked(s, I) \in Seq(S)
<1> DEFINE X == Seq({s[i] : i \in I})
           grown == [n \in Nat |-> [t \in X |-> IF n + 1 \in I THEN Append(t, s[n + 1]) ELSE t]]
           F[n \in Nat] == IF n = 0 THEN <<>> ELSE IF n \in I THEN Append(F[n - 1], s[n]) ELSE F[n - 1]
<1>1. <<>> \in X /\ \A t \in X : \A i \in I : Append(t, s[i]) \in X
  OBVIOUS
<1> HIDE DEF X
<1>2. grown \in [Nat -> [X -> X]]
  BY <1>1
<1> HIDE DEF grown
<1>3. PICK R : Follows(R, X, <<>>, grown)
  BY <1>1, <1>2, Recursion
<1>4. R \in [Nat -> X] /\ R[0] = <<>> /\ \A n \in Nat : R[n + 1] = IF n + 1 \in I THEN Append(R[n], s[n + 1]) ELSE R[n]
  BY <1>3 DEF Follows, grown
<1>5. R = [n \in Nat |-> IF n = 0 THEN <<>> ELSE IF n \in I THEN Append(R[n - 1], s[n]) ELSE R[n - 1]]
  <2>1. ASSUME NEW n \in Nat PROVE R[n] = IF n = 0 THEN <<>> ELSE IF n \in I THEN Append(R[n - 1], s[n]) ELSE R[n - 1]
    <3>1. CASE n # 0
      <4>1. n - 1 \in Nat /\ (n - 1) + 1 = n
        BY <3>1
      <4> QED
        BY <1>4, <4>1, <3>1
    <3> QED
      BY <1>4, <3>1
  <2> QED
    BY <1>4, <2>1
<1>6. F = [n \in Nat |-> IF n = 0 THEN <<>> ELSE IF n \in I THEN Append(F[n - 1], s[n]) ELSE F[n - 1]]
  BY <1>5, Zenon
<1>7. Extractor!Picked(s, I) = F[Len(s)] /\ Len(s) \in Nat
  BY DEF Extractor!Picked
<1> HIDE DEF F
<1>8. F[0] \in X
  BY <1>1, <1>6
<1>9. ASSUME NEW n \in Nat, F[n] \in X PROVE F[n + 1] \in X
  <2>1. F[n + 1] = IF n + 1 \in I THEN Append(F[n], s[n + 1]) ELSE F[n]
    <3>1. n + 1 \in Nat /\ n + 1 # 0 /\ (n + 1) - 1 = n
      OBVIOUS
    <3> QED
      BY <1>6, <3>1
  <2> QED
    BY <1>1, <1>9, <2>1
<1>10. \A n \in Nat : F[n] \in X
  BY <1>8, <1>9, Keeps
<1>11. Extractor!Picked(s, I) \in Seq({s[i] : i \in I})
  BY <1>7, <1>10 DEF X
<1>12. {s[i] : i \in I} \subseteq S
  OBVIOUS
<1> QED
  BY <1>11, <1>12

LEMMA SameSetsCounted == \A T : Extractor!IsFiniteSet(T) = IsFiniteSet(T) /\ Extractor!Cardinality(T) = Cardinality(T)
BY DEF Extractor!IsFiniteSet, IsFiniteSet, Extractor!Cardinality, Cardinality

LEMMA ModuleIs == ASSUME NEW m \in Modules
    PROVE /\ IsFiniteSet(DOMAIN m.value) /\ 0 \notin DOMAIN m.value
          /\ \A c \in Extractor!Range(m.calls) : c.callee \in DOMAIN m.value /\ c.args \in Seq(DOMAIN m.value)
          /\ m.calls \in Seq(Extractor!Range(m.calls)) /\ m.stores \in Seq(Extractor!Range(m.stores))
          /\ \A s \in Extractor!Range(m.stores) : s.value \in DOMAIN m.value
BY ExtractInputs, SameSetsCounted DEF Extractor!ModulesAssumption

LEMMA SitesAre ==
    ASSUME NEW m \in Modules
    PROVE  /\ Extractor!CallSites(m) \in Seq(Extractor!Range(m.calls)) /\ Extractor!IndirectCalls(m) \in Seq(Extractor!Range(m.calls))
           /\ \A f : Extractor!DirectCallers(m, f) \in Seq(Extractor!Range(m.calls))
<1>1. Extractor!CallSites(m) \in Seq(Extractor!Range(m.calls))
  BY ModuleIs, PickedIs DEF Extractor!CallSites
<1>2. Extractor!IndirectCalls(m) \in Seq(Extractor!Range(m.calls))
  BY <1>1, PickedIs DEF Extractor!IndirectCalls
<1>3. ASSUME NEW f PROVE Extractor!DirectCallers(m, f) \in Seq(Extractor!Range(m.calls))
  BY <1>1, PickedIs DEF Extractor!DirectCallers
<1> QED
  BY <1>1, <1>2, <1>3

LEMMA FunctionIsSeq == ASSUME NEW S, NEW k \in Nat, NEW f \in [1 .. k -> S] PROVE f \in Seq(S)
<1>1. f = [i \in 1 .. k |-> f[i]] /\ \A i \in 1 .. k : f[i] \in S
  OBVIOUS
<1>2. [i \in 1 .. k |-> f[i]] \in Seq(S)
  BY <1>1
<1> QED
  BY <1>1, <1>2, Zenon

LEMMA CostingIs ==
    ASSUME NEW V, NEW vs \in Seq(V), NEW n \in Nat
    PROVE  Extractor!Costing(vs, n) \in Seq([value : V, cost : Nat])
<1>1. DOMAIN vs = 1 .. Len(vs) /\ Len(vs) \in Nat /\ \A i \in 1 .. Len(vs) : vs[i] \in V
  OBVIOUS
<1>2. \A i \in DOMAIN vs : [value |-> vs[i], cost |-> n] \in [value : V, cost : Nat]
  BY <1>1
<1>3. Extractor!Costing(vs, n) \in [1 .. Len(vs) -> [value : V, cost : Nat]]
  BY <1>1, <1>2, Zenon DEF Extractor!Costing
<1> QED
  BY <1>1, <1>3, FunctionIsSeq

LEMMA PassedIs ==
    ASSUME NEW m \in Modules, NEW a \in DOMAIN m.value, m.value[a].kind = "arg"
    PROVE  Extractor!Passed(m, a) \in Seq(DOMAIN m.value)
<1> DEFINE callers == Extractor!DirectCallers(m, m.value[a].parent)
           I == {i \in DOMAIN callers : m.value[a].index <= Len(callers[i].args)}
           C == {callers[i] : i \in I}
           given == Extractor!Picked(callers, I)
<1>1. m.value[a].index \in Nat \ {0}
  BY ExtractInputs, SameSetsCounted DEF Extractor!ModulesAssumption
<1>2. callers \in Seq(Extractor!Range(m.calls))
  BY SitesAre
<1> HIDE DEF callers
<1>3. given \in Seq(C)
  BY <1>2, PickedIs
<1>4. \A c \in C : c.args[m.value[a].index] \in DOMAIN m.value
  <2> SUFFICES ASSUME NEW i \in I PROVE callers[i].args[m.value[a].index] \in DOMAIN m.value
    OBVIOUS
  <2>1. callers[i] \in Extractor!Range(m.calls)
    BY <1>2
  <2>2. callers[i].args \in Seq(DOMAIN m.value) /\ m.value[a].index <= Len(callers[i].args)
    BY <2>1, ModuleIs
  <2> QED
    BY <1>1, <2>2
<1> HIDE DEF given, C
<1>5. [i \in DOMAIN given |-> given[i].args[m.value[a].index]] \in Seq(DOMAIN m.value)
  BY <1>3, <1>4
<1>6. Extractor!Passed(m, a) = [i \in DOMAIN given |-> given[i].args[m.value[a].index]]
  BY DEF Extractor!Passed, given, callers
<1> QED
  BY <1>5, <1>6

LEMMA StoredIs == ASSUME NEW m \in Modules, NEW p PROVE Extractor!Stored(m, p) \in Seq(DOMAIN m.value)
<1> DEFINE I == {i \in DOMAIN m.stores : m.stores[i].pointer = p /\ m.stores[i].through # "cast"}
           here == Extractor!Picked(m.stores, I)
<1>1. here \in Seq(Extractor!Range(m.stores))
  BY ModuleIs, PickedIs
<1>2. \A s \in Extractor!Range(m.stores) : s.value \in DOMAIN m.value
  BY ModuleIs
<1>3. Extractor!Stored(m, p) = [i \in DOMAIN here |-> here[i].value]
  BY DEF Extractor!Stored
<1> HIDE DEF here
<1> QED
  BY <1>1, <1>2, <1>3

LEMMA OperandsAre ==
    ASSUME NEW m \in Modules, NEW v \in DOMAIN m.value
    PROVE  Extractor!Operands(m, v) \in Seq(OperandSet(m))
<1> DEFINE V == DOMAIN m.value
<1>0. /\ m.value[v].kind \in {"alias", "phi", "select"} => m.value[v].of \in Seq(V)
      /\ m.value[v].kind = "load" => m.value[v].pointer \in V
      /\ \A p \in V : m.value[p].kind = "global" => m.value[p].init \in Seq(V)
  BY ExtractInputs, SameSetsCounted DEF Extractor!ModulesAssumption
<1>1. CASE m.value[v].kind \in {"alias", "phi", "select"}
  BY <1>0, <1>1, CostingIs DEF Extractor!Operands, OperandSet
<1>2. CASE m.value[v].kind = "arg"
  BY <1>2, PassedIs, CostingIs DEF Extractor!Operands, OperandSet
<1>3. CASE m.value[v].kind = "load"
  <2> DEFINE p == m.value[v].pointer
  <2>1. Extractor!Initializer(m, p) \in Seq(V)
    <3>1. <<>> \in Seq(V)
      OBVIOUS
    <3>2. m.value[p].kind = "global" => m.value[p].init \in Seq(V)
      BY <1>0, <1>3
    <3> QED
      BY <3>1, <3>2 DEF Extractor!Initializer
  <2>2. Extractor!Costing(Extractor!Initializer(m, p) \o Extractor!Stored(m, p), 2) \in Seq(OperandSet(m))
    <3>1. Extractor!Initializer(m, p) \o Extractor!Stored(m, p) \in Seq(V)
      BY <2>1, StoredIs, ConcatProperties
    <3> QED
      BY <3>1, CostingIs DEF OperandSet
  <2>3. CASE m.value[p].kind = "arg"
    <3>1. Extractor!Costing(Extractor!Passed(m, p), 3) \in Seq(OperandSet(m))
      BY <1>0, <1>3, <2>3, PassedIs, CostingIs DEF OperandSet
    <3> QED
      BY <1>3, <2>2, <2>3, <3>1, ConcatProperties DEF Extractor!Operands, Extractor!MemoryObject
  <2>4. CASE m.value[p].kind # "arg"
    <3>1. <<>> \in Seq(OperandSet(m))
      OBVIOUS
    <3> QED
      BY <1>3, <2>2, <2>4, <3>1, ConcatProperties DEF Extractor!Operands, Extractor!MemoryObject
  <2> QED
    BY <2>3, <2>4
<1>4. CASE m.value[v].kind \notin {"alias", "phi", "select", "arg", "load"}
  BY <1>4 DEF Extractor!Operands
<1> QED
  BY <1>1, <1>2, <1>3, <1>4

(* What the operands lead to: the least set that holds the operands of its *)
(* values.                                                                 *)
LEMMA OperandsOfAre ==
    ASSUME NEW m \in Modules, NEW S \in SUBSET DOMAIN m.value
    PROVE  /\ Extractor!OperandsOf(m, S) \in SUBSET DOMAIN m.value
           /\ \A T \in SUBSET S : Extractor!OperandsOf(m, T) \subseteq Extractor!OperandsOf(m, S)
           /\ \A v \in S : Extractor!OperandsOf(m, {v}) = {o.value : o \in Extractor!Range(Extractor!Operands(m, v))}
           /\ \A o \in Extractor!OperandsOf(m, S) : \E v \in S : o \in Extractor!OperandsOf(m, {v})
<1>1. ASSUME NEW v \in S PROVE {o.value : o \in Extractor!Range(Extractor!Operands(m, v))} \subseteq DOMAIN m.value
  <2>1. \A o \in Extractor!Range(Extractor!Operands(m, v)) : o \in OperandSet(m)
    BY OperandsAre DEF Extractor!Range
  <2> QED
    BY <2>1 DEF OperandSet
<1>2. \A T : Extractor!OperandsOf(m, T) = UNION {{o.value : o \in Extractor!Range(Extractor!Operands(m, v))} : v \in T}
  BY DEF Extractor!OperandsOf
<1>3. \A v : Extractor!OperandsOf(m, {v}) = {o.value : o \in Extractor!Range(Extractor!Operands(m, v))}
  BY <1>2
<1>4. Extractor!OperandsOf(m, S) \in SUBSET DOMAIN m.value
  BY <1>1, <1>2
<1>5. \A T \in SUBSET S : Extractor!OperandsOf(m, T) \subseteq Extractor!OperandsOf(m, S)
  BY <1>2
<1>6. \A o \in Extractor!OperandsOf(m, S) : \E v \in S : o \in Extractor!OperandsOf(m, {v})
  <2>1. ASSUME NEW o \in Extractor!OperandsOf(m, S) PROVE \E v \in S : o \in {p.value : p \in Extractor!Range(Extractor!Operands(m, v))}
    <3>1. Extractor!OperandsOf(m, S) = UNION {{p.value : p \in Extractor!Range(Extractor!Operands(m, v))} : v \in S}
      BY <1>2
    <3> QED
      BY <2>1, <3>1
  <2> QED
    BY <1>3, <2>1
<1> QED
  BY <1>3, <1>4, <1>5, <1>6, Zenon

LEMMA BehindIs ==
    ASSUME NEW m \in Modules, NEW S \in SUBSET DOMAIN m.value
    PROVE  /\ S \subseteq Extractor!Behind(m, S) /\ Extractor!Behind(m, S) \in SUBSET DOMAIN m.value
           /\ Extractor!OperandsOf(m, Extractor!Behind(m, S)) \subseteq Extractor!Behind(m, S)
           /\ \A T \in SUBSET DOMAIN m.value : S \subseteq T /\ Extractor!OperandsOf(m, T) \subseteq T => Extractor!Behind(m, S) \subseteq T
<1> DEFINE V == DOMAIN m.value
           N == Cardinality(V)
           grown == [n \in Nat |-> [T \in SUBSET V |-> Extractor!Widened(m, T)]]
           F[n \in Nat] == IF n = 0 THEN S ELSE Extractor!Widened(m, F[n - 1])
<1>0. IsFiniteSet(V) /\ N \in Nat
  BY ModuleIs, FS_CardinalityType
<1>1. \A T \in SUBSET V : Extractor!Widened(m, T) \in SUBSET V
  BY OperandsOfAre DEF Extractor!Widened
<1> HIDE DEF V
<1>2. grown \in [Nat -> [SUBSET V -> SUBSET V]] /\ S \in SUBSET V
  BY <1>1 DEF V
<1> HIDE DEF grown
<1>3. PICK R : Follows(R, SUBSET V, S, grown)
  BY <1>2, Recursion
<1>4. R \in [Nat -> SUBSET V] /\ R[0] = S /\ \A n \in Nat : R[n + 1] = Extractor!Widened(m, R[n])
  BY <1>3 DEF Follows, grown
<1>5. R = [n \in Nat |-> IF n = 0 THEN S ELSE Extractor!Widened(m, R[n - 1])]
  <2>1. ASSUME NEW n \in Nat PROVE R[n] = IF n = 0 THEN S ELSE Extractor!Widened(m, R[n - 1])
    <3>1. CASE n # 0
      <4>1. n - 1 \in Nat /\ (n - 1) + 1 = n
        BY <3>1
      <4> QED
        BY <1>4, <4>1, <3>1
    <3> QED
      BY <1>4, <3>1
  <2> QED
    BY <1>4, <2>1
<1>6. F = [n \in Nat |-> IF n = 0 THEN S ELSE Extractor!Widened(m, F[n - 1])]
  BY <1>5, Zenon
<1>7. Extractor!Behind(m, S) = F[N]
  BY SameSetsCounted DEF Extractor!Behind, V, N
<1> HIDE DEF F, N
<1>8. F[0] = S
  BY <1>6
<1>9. ASSUME NEW n \in Nat PROVE F[n + 1] = Extractor!Widened(m, F[n])
  <2>1. n + 1 \in Nat /\ n + 1 # 0 /\ (n + 1) - 1 = n
    OBVIOUS
  <2> QED
    BY <1>6, <2>1
<1>10. \A n \in Nat : F[n] \in SUBSET V
  <2>1. \A n \in Nat : F[n] \in SUBSET V => F[n + 1] \in SUBSET V
    BY <1>1, <1>9
  <2> QED
    BY <1>2, <1>8, <2>1, Keeps
<1>11. \A n \in Nat : S \subseteq F[n]
  <2> DEFINE T == {n \in Nat : S \subseteq F[n]}
  <2>1. 0 \in T /\ \A n \in Nat : n \in T => n + 1 \in T
    BY <1>8, <1>9 DEF Extractor!Widened
  <2> HIDE DEF T
  <2>2. \A n \in Nat : n \in T
    BY <2>1, AllOf
  <2> QED
    BY <2>2 DEF T
<1>12. Extractor!OperandsOf(m, F[N]) \subseteq F[N]
  <2> DEFINE Closed(n) == Extractor!OperandsOf(m, F[n]) \subseteq F[n]
             T == {n \in Nat : Closed(n) \/ Cardinality(F[n]) >= n}
  <2>0. \A n \in Nat : IsFiniteSet(F[n]) /\ Cardinality(F[n]) \in Nat /\ Cardinality(F[n]) <= N
    BY <1>0, <1>10, FS_Subset, FS_CardinalityType DEF N
  <2>1. 0 \in T
    BY <2>0
  <2>2. ASSUME NEW n \in Nat, n \in T PROVE n + 1 \in T
    <3>1. CASE Closed(n)
      <4>1. F[n + 1] = F[n]
        BY <1>9, <3>1 DEF Extractor!Widened
      <4> QED
        BY <3>1, <4>1
    <3>2. CASE ~Closed(n)
      <4>1. F[n] \subseteq F[n + 1] /\ F[n] # F[n + 1]
        BY <1>9, <3>2 DEF Extractor!Widened
      <4>2. n + 1 \in Nat
        OBVIOUS
      <4>3. Cardinality(F[n]) <= Cardinality(F[n + 1]) /\ Cardinality(F[n]) # Cardinality(F[n + 1])
        BY <2>0, <4>1, <4>2, FS_Subset
      <4>4. Cardinality(F[n]) >= n
        BY <2>2, <3>2
      <4>5. Cardinality(F[n + 1]) >= n + 1
        BY <2>0, <4>2, <4>3, <4>4
      <4> QED
        BY <4>2, <4>5
    <3> QED
      BY <3>1, <3>2
  <2> HIDE DEF T
  <2>3. N \in T
    BY <1>0, <2>1, <2>2, AllOf
  <2>4. CASE Closed(N)
    BY <2>4
  <2>5. CASE Cardinality(F[N]) >= N
    <3>1. F[N] = V
      BY <1>0, <1>10, <2>0, <2>5, FS_Subset DEF N
    <3>2. Extractor!OperandsOf(m, V) \subseteq V
      BY OperandsOfAre DEF V
    <3> QED
      BY <3>1, <3>2
  <2> QED
    BY <2>3, <2>4, <2>5 DEF T
<1>13. ASSUME NEW T \in SUBSET V, S \subseteq T, Extractor!OperandsOf(m, T) \subseteq T PROVE F[N] \subseteq T
  <2>1. \A n \in Nat : F[n] \in SUBSET T => F[n + 1] \in SUBSET T
    <3>1. \A Q \in SUBSET T : Extractor!OperandsOf(m, Q) \subseteq Extractor!OperandsOf(m, T)
      BY OperandsOfAre DEF V
    <3> QED
      BY <1>9, <1>13, <3>1 DEF Extractor!Widened
  <2>2. F[0] \in SUBSET T
    BY <1>8, <1>13
  <2>3. \A n \in Nat : F[n] \in SUBSET T
    BY <2>1, <2>2, Keeps
  <2> QED
    BY <1>0, <2>3
<1> QED
  BY <1>0, <1>7, <1>10, <1>11, <1>12, <1>13 DEF V

LEMMA BehindMore ==
    ASSUME NEW m \in Modules, NEW S \in SUBSET DOMAIN m.value
    PROVE  /\ \A T \in SUBSET DOMAIN m.value : T \subseteq Extractor!Behind(m, S) => Extractor!Behind(m, T) \subseteq Extractor!Behind(m, S)
           /\ \A v \in S : Extractor!Behind(m, {v}) \subseteq Extractor!Behind(m, S)
           /\ \A x \in Extractor!Behind(m, S) : \E v \in S : x \in Extractor!Behind(m, {v})
           /\ Extractor!Behind(m, S) \subseteq S \cup Extractor!Behind(m, Extractor!OperandsOf(m, S))
           /\ Extractor!Behind(m, Extractor!OperandsOf(m, S)) \subseteq Extractor!Behind(m, S)
           /\ Extractor!OperandsOf(m, S) \subseteq Extractor!Behind(m, S)
           /\ \A T \in SUBSET DOMAIN m.value : S \subseteq T /\ Extractor!OperandsOf(m, T) \subseteq T => Extractor!Behind(m, S) \subseteq T
<1> DEFINE V == DOMAIN m.value
<1>0. /\ S \subseteq Extractor!Behind(m, S) /\ Extractor!Behind(m, S) \in SUBSET V /\ Extractor!OperandsOf(m, Extractor!Behind(m, S)) \subseteq Extractor!Behind(m, S)
      /\ Extractor!OperandsOf(m, S) \subseteq Extractor!OperandsOf(m, Extractor!Behind(m, S)) /\ Extractor!OperandsOf(m, S) \in SUBSET V
  BY BehindIs, OperandsOfAre
<1>1. ASSUME NEW T \in SUBSET V, T \subseteq Extractor!Behind(m, S) PROVE Extractor!Behind(m, T) \subseteq Extractor!Behind(m, S)
  BY <1>0, <1>1, BehindIs
<1>2. \A v \in S : {v} \in SUBSET V /\ Extractor!Behind(m, {v}) \subseteq Extractor!Behind(m, S)
  BY <1>0, <1>1
<1>3. Extractor!Behind(m, Extractor!OperandsOf(m, S)) \subseteq Extractor!Behind(m, S)
  BY <1>0, <1>1
<1>4. ASSUME NEW x \in Extractor!Behind(m, S) PROVE \E v \in S : x \in Extractor!Behind(m, {v})
  <2> DEFINE T == UNION {Extractor!Behind(m, {v}) : v \in S}
  <2>1. \A v \in S : v \in Extractor!Behind(m, {v}) /\ Extractor!Behind(m, {v}) \in SUBSET V /\ Extractor!OperandsOf(m, Extractor!Behind(m, {v})) \subseteq Extractor!Behind(m, {v})
    BY <1>2, BehindIs
  <2>2. S \subseteq T /\ T \in SUBSET V
    BY <2>1
  <2>3. ASSUME NEW o \in Extractor!OperandsOf(m, T) PROVE o \in T
    <3>1. PICK w \in T : o \in Extractor!OperandsOf(m, {w})
      BY <2>2, OperandsOfAre
    <3>2. PICK v \in S : w \in Extractor!Behind(m, {v})
      OBVIOUS
    <3>3. Extractor!Behind(m, {v}) \in SUBSET V /\ {w} \in SUBSET Extractor!Behind(m, {v})
      BY <2>1, <3>2
    <3>4. Extractor!OperandsOf(m, {w}) \subseteq Extractor!OperandsOf(m, Extractor!Behind(m, {v}))
      BY <3>3, OperandsOfAre
    <3> QED
      BY <2>1, <3>1, <3>4
  <2>4. Extractor!Behind(m, S) \subseteq T
    <3>1. Extractor!OperandsOf(m, T) \subseteq T
      BY <2>3
    <3> HIDE DEF T
    <3> QED
      BY <2>2, <3>1, BehindIs
  <2> QED
    BY <2>4
<1>5. Extractor!Behind(m, S) \subseteq S \cup Extractor!Behind(m, Extractor!OperandsOf(m, S))
  <2> DEFINE O == Extractor!OperandsOf(m, S)
             T == S \cup Extractor!Behind(m, O)
  <2>1. O \subseteq Extractor!Behind(m, O) /\ Extractor!Behind(m, O) \in SUBSET V /\ Extractor!OperandsOf(m, Extractor!Behind(m, O)) \subseteq Extractor!Behind(m, O)
    BY <1>0, BehindIs
  <2>2. T \in SUBSET V /\ S \subseteq T
    BY <2>1
  <2>3. ASSUME NEW o \in Extractor!OperandsOf(m, T) PROVE o \in T
    <3>1. PICK w \in T : o \in Extractor!OperandsOf(m, {w})
      BY <2>2, OperandsOfAre
    <3>2. CASE w \in S
      <4>1. Extractor!OperandsOf(m, {w}) \subseteq O
        BY <3>2, OperandsOfAre
      <4> QED
        BY <2>1, <3>1, <4>1
    <3>3. CASE w \in Extractor!Behind(m, O)
      <4>1. Extractor!OperandsOf(m, {w}) \subseteq Extractor!OperandsOf(m, Extractor!Behind(m, O))
        BY <2>1, <3>3, OperandsOfAre
      <4> QED
        BY <2>1, <3>1, <4>1
    <3> QED
      BY <3>1, <3>2, <3>3
  <2> HIDE DEF O, T
  <2>4. Extractor!OperandsOf(m, T) \subseteq T
    BY <2>3
  <2>5. Extractor!Behind(m, S) \subseteq T
    BY <2>2, <2>4, BehindIs
  <2> QED
    BY <2>5 DEF T, O
<1>6. \A T \in SUBSET V : S \subseteq T /\ Extractor!OperandsOf(m, T) \subseteq T => Extractor!Behind(m, S) \subseteq T
  BY BehindIs
<1> QED
  BY <1>0, <1>1, <1>2, <1>3, <1>4, <1>5, <1>6

LEMMA FunctionsAre ==
    ASSUME NEW m \in Modules, NEW S \in SUBSET DOMAIN m.value
    PROVE  /\ Extractor!FunctionsBehind(m, S) \subseteq DOMAIN m.value
           /\ \A T \in SUBSET DOMAIN m.value : T \subseteq Extractor!Behind(m, S) => Extractor!FunctionsBehind(m, T) \subseteq Extractor!FunctionsBehind(m, S)
           /\ \A v \in S : Extractor!FunctionsBehind(m, {v}) \subseteq Extractor!FunctionsBehind(m, S)
           /\ \A v \in S : Extractor!Kept(m, v) => v \in Extractor!FunctionsBehind(m, S)
           /\ \A some : (\A v \in S : Exactly(m, {v}, some)) => Exactly(m, S, some)
           /\ \A some : (\A v \in S : Extractor!Kept(m, v) => v \in some) /\ Exactly(m, Extractor!OperandsOf(m, S), some) => Exactly(m, S, some)
<1>1. S \subseteq Extractor!Behind(m, S) /\ Extractor!Behind(m, S) \in SUBSET DOMAIN m.value
  BY BehindIs
<1>2. /\ \A T \in SUBSET DOMAIN m.value : T \subseteq Extractor!Behind(m, S) => Extractor!Behind(m, T) \subseteq Extractor!Behind(m, S)
      /\ \A v \in S : Extractor!Behind(m, {v}) \subseteq Extractor!Behind(m, S)
      /\ \A x \in Extractor!Behind(m, S) : \E v \in S : x \in Extractor!Behind(m, {v})
      /\ Extractor!Behind(m, S) \subseteq S \cup Extractor!Behind(m, Extractor!OperandsOf(m, S))
  BY BehindMore
<1>3. \A T : Extractor!FunctionsBehind(m, T) = {v \in Extractor!Behind(m, T) : Extractor!Kept(m, v)}
  BY DEF Extractor!FunctionsBehind
<1>4. ASSUME NEW some, \A v \in S : Exactly(m, {v}, some) PROVE Exactly(m, S, some)
  <2>1. ASSUME NEW x \in Extractor!Behind(m, S), Extractor!Kept(m, x) PROVE x \in some
    <3>1. PICK v \in S : x \in Extractor!Behind(m, {v})
      BY <1>2
    <3>2. x \in Extractor!FunctionsBehind(m, {v})
      BY <1>3, <2>1, <3>1
    <3> QED
      BY <1>4, <3>2 DEF Exactly
  <2> QED
    BY <1>3, <2>1 DEF Exactly
<1>5. ASSUME NEW some, \A v \in S : Extractor!Kept(m, v) => v \in some, Exactly(m, Extractor!OperandsOf(m, S), some) PROVE Exactly(m, S, some)
  BY <1>2, <1>3, <1>5 DEF Exactly
<1>6. /\ Extractor!FunctionsBehind(m, S) \subseteq DOMAIN m.value
      /\ \A T \in SUBSET DOMAIN m.value : T \subseteq Extractor!Behind(m, S) => Extractor!FunctionsBehind(m, T) \subseteq Extractor!FunctionsBehind(m, S)
      /\ \A v \in S : Extractor!FunctionsBehind(m, {v}) \subseteq Extractor!FunctionsBehind(m, S)
      /\ \A v \in S : Extractor!Kept(m, v) => v \in Extractor!FunctionsBehind(m, S)
  BY <1>1, <1>2, <1>3
<1> QED
  BY <1>4, <1>5, <1>6

LEMMA AcyclicIs ==
    ASSUME NEW m \in Modules, NEW S \in SUBSET DOMAIN m.value, Extractor!Acyclic(m, S), NEW T \in SUBSET DOMAIN m.value, T \subseteq Extractor!Behind(m, S)
    PROVE  Extractor!Acyclic(m, T)
<1>1. Extractor!Behind(m, T) \subseteq Extractor!Behind(m, S)
  BY BehindMore
<1> QED
  BY <1>1 DEF Extractor!Acyclic

LEMMA AskedIs ==
    ASSUME NEW m \in Modules, NEW s \in 1 .. Len(Extractor!IndirectCalls(m))
    PROVE  /\ Extractor!IndirectCalls(m)[s].callee \in DOMAIN m.value /\ Extractor!IndirectCalls(m)[s].args \in Seq(DOMAIN m.value)
           /\ Extractor!Called(m, s) \in SUBSET Extractor!Asked(m, s) /\ Extractor!Asked(m, s) \in SUBSET DOMAIN m.value
           /\ \A p : Roots(m, s, p) \in SUBSET Extractor!Asked(m, s) /\ Roots(m, s, p) \in SUBSET DOMAIN m.value
<1>1. Extractor!IndirectCalls(m)[s] \in Extractor!Range(m.calls)
  BY SitesAre
<1>2. Extractor!IndirectCalls(m)[s].callee \in DOMAIN m.value /\ Extractor!IndirectCalls(m)[s].args \in Seq(DOMAIN m.value)
  BY <1>1, ModuleIs
<1>3. Extractor!Range(Extractor!IndirectCalls(m)[s].args) \subseteq DOMAIN m.value
  BY <1>2 DEF Extractor!Range
<1> QED
  BY <1>2, <1>3 DEF Extractor!Called, Extractor!Asked, Roots

(* The stack with another top, one more call and one less.                 *)
LEMMA Replaced ==
    ASSUME NEW F, NEW fs \in Seq(F), fs # <<>>, NEW a \in F, NEW gs, gs = <<a>> \o Tail(fs)
    PROVE  gs \in Seq(F) /\ Len(gs) = Len(fs) /\ gs[1] = a /\ \A k \in 2 .. Len(fs) : gs[k] = fs[k]
OBVIOUS
LEMMA Inserted ==
    ASSUME NEW F, NEW fs \in Seq(F), fs # <<>>, NEW a \in F, NEW b \in F, NEW gs, gs = <<a, b>> \o Tail(fs)
    PROVE  /\ gs \in Seq(F) /\ Len(gs) = Len(fs) + 1 /\ gs[1] = a /\ gs[2] = b
           /\ \A k \in 2 .. Len(fs) : gs[k + 1] = fs[k]
OBVIOUS
LEMMA Rest ==
    ASSUME NEW F, NEW fs \in Seq(F), Len(fs) > 1
    PROVE  /\ Tail(Tail(fs)) \in Seq(F) /\ Len(Tail(Tail(fs))) = Len(fs) - 2
           /\ \A k \in 1 .. Len(fs) - 2 : Tail(Tail(fs))[k] = fs[k + 2]
<1>1. fs # <<>> /\ Len(fs) \in Nat
  OBVIOUS
<1>2. Tail(fs) \in Seq(F) /\ Len(Tail(fs)) = Len(fs) - 1
  BY <1>1
<1>3. Tail(fs) # <<>>
  <2>1. Len(Tail(fs)) # 0
    BY <1>1, <1>2
  <2>2. Len(<<>>) = 0
    OBVIOUS
  <2> QED
    BY <2>1, <2>2, Zenon
<1>4. \A k \in 1 .. Len(fs) - 1 : Tail(fs)[k] = fs[k + 1]
  BY <1>1
<1> QED
  BY <1>1, <1>2, <1>3, <1>4
LEMMA Topped ==
    ASSUME NEW F, NEW t \in Seq(F), NEW a \in F
    PROVE  <<a>> \o t \in Seq(F) /\ Len(<<a>> \o t) = Len(t) + 1 /\ (<<a>> \o t)[1] = a /\ \A k \in 1 .. Len(t) : (<<a>> \o t)[k + 1] = t[k]
OBVIOUS
LEMMA ToDo ==
    ASSUME NEW O, NEW list \in Seq(O), list # <<>>
    PROVE  Head(list) \in O /\ Tail(list) \in Seq(O) /\ Extractor!Range(list) = {Head(list)} \cup Extractor!Range(Tail(list))
<1>1. Head(list) \in O /\ Tail(list) \in Seq(O) /\ Head(list) = list[1] /\ Len(Tail(list)) = Len(list) - 1
      /\ \A i \in 1 .. Len(list) - 1 : Tail(list)[i] = list[i + 1]
  OBVIOUS
<1>2. DOMAIN list = 1 .. Len(list) /\ DOMAIN Tail(list) = 1 .. Len(list) - 1 /\ Len(list) \in Nat \ {0}
  BY <1>1
<1>3. ASSUME NEW i \in 1 .. Len(list) PROVE list[i] \in {Head(list)} \cup Extractor!Range(Tail(list))
  <2>1. CASE i # 1
    <3>1. i - 1 \in 1 .. Len(list) - 1 /\ (i - 1) + 1 = i
      BY <1>2, <2>1
    <3> QED
      BY <1>1, <1>2, <3>1 DEF Extractor!Range
  <2> QED
    BY <1>1, <2>1
<1>4. ASSUME NEW i \in 1 .. Len(list) - 1 PROVE Tail(list)[i] \in Extractor!Range(list)
  <2>1. i + 1 \in 1 .. Len(list)
    BY <1>2
  <2> QED
    BY <1>1, <1>2, <2>1 DEF Extractor!Range
<1>5. list[1] \in Extractor!Range(list)
  BY <1>2 DEF Extractor!Range
<1> QED
  BY <1>1, <1>2, <1>3, <1>4, <1>5 DEF Extractor!Range

LEMMA FrameIs ==
    ASSUME NEW m \in Modules, NEW f \in Frames(m)
    PROVE  /\ f.value \in DOMAIN m.value \cup {0} /\ f.depth \in Nat /\ f.todo \in Seq(OperandSet(m))
           /\ f.found \in SUBSET DOMAIN m.value
BY DEF Frames

LEMMA ExploredIs ==
    ASSUME NEW m \in Modules, NEW roots \in SUBSET DOMAIN m.value, NEW fs \in Seq(Frames(m)), StackOK(m, fs, roots),
           NEW k \in 1 .. Len(fs)
    PROVE  /\ Source(m, fs, roots, k) \in SUBSET DOMAIN m.value /\ Explored(m, fs, roots, k) \in SUBSET DOMAIN m.value
           /\ Explored(m, fs, roots, k) \subseteq Extractor!Behind(m, Source(m, fs, roots, k))
           /\ \A v \in Explored(m, fs, roots, k) : Extractor!FunctionsBehind(m, {v}) \subseteq Extractor!FunctionsBehind(m, Source(m, fs, roots, k))
           /\ \A v \in Explored(m, fs, roots, k) : Extractor!Acyclic(m, Source(m, fs, roots, k)) => Extractor!Acyclic(m, {v})
<1>3. /\ Source(m, fs, roots, k) \in SUBSET DOMAIN m.value /\ Explored(m, fs, roots, k) \in SUBSET DOMAIN m.value
      /\ Explored(m, fs, roots, k) \subseteq Extractor!Behind(m, Source(m, fs, roots, k))
  <2>1. CASE k = Len(fs)
    BY <2>1, BehindIs DEF Source, Explored
  <2>2. CASE k # Len(fs)
    <3>1. k \in 1 .. Len(fs) - 1
      BY <2>2
    <3>2. {fs[k].value} \in SUBSET DOMAIN m.value
      BY <3>1 DEF StackOK
    <3>3. Extractor!OperandsOf(m, {fs[k].value}) \in SUBSET DOMAIN m.value /\ Extractor!OperandsOf(m, {fs[k].value}) \subseteq Extractor!Behind(m, {fs[k].value})
      BY <3>2, BehindMore, OperandsOfAre
    <3> QED
      BY <2>2, <3>2, <3>3 DEF Source, Explored
  <2> QED
    BY <2>1, <2>2
<1>4. \A v \in Explored(m, fs, roots, k) : {v} \in SUBSET DOMAIN m.value /\ {v} \subseteq Extractor!Behind(m, Source(m, fs, roots, k))
  BY <1>3
<1> QED
  BY <1>3, <1>4, FunctionsAre, AcyclicIs

LEMMA Below ==
    ASSUME NEW m \in Modules, NEW roots \in SUBSET DOMAIN m.value, NEW fs \in Seq(Frames(m)), StackOK(m, fs, roots),
           NEW j \in 1 .. Len(fs) - 1
    PROVE  Explored(m, fs, roots, 1) \subseteq Extractor!Behind(m, Extractor!OperandsOf(m, {fs[j].value}))
<1> DEFINE V == DOMAIN m.value
           P == Extractor!OperandsOf(m, {fs[j].value})
<1>1. 1 \in 1 .. Len(fs) - 1 /\ 1 # Len(fs)
  OBVIOUS
<1>2. fs[1].value \in V /\ fs[j].value \in V
  BY <1>1 DEF StackOK
<1>3. Explored(m, fs, roots, 1) = Extractor!OperandsOf(m, {fs[1].value})
  BY <1>1 DEF Explored
<1>4. P \in SUBSET V
  BY <1>2, OperandsOfAre
<1>5. P \subseteq Extractor!Behind(m, P) /\ Extractor!Behind(m, P) \in SUBSET V /\ Extractor!OperandsOf(m, Extractor!Behind(m, P)) \subseteq Extractor!Behind(m, P)
  BY <1>4, BehindIs
<1>6. CASE j = 1
  BY <1>3, <1>5, <1>6
<1>7. CASE j # 1
  <2>1. 1 \in 1 .. j - 1
    BY <1>7
  <2>2. fs[1].value \in Extractor!Behind(m, P)
    BY <2>1 DEF StackOK
  <2>3. Extractor!OperandsOf(m, {fs[1].value}) \subseteq Extractor!OperandsOf(m, Extractor!Behind(m, P))
    BY <1>5, <2>2, OperandsOfAre
  <2> QED
    BY <1>3, <1>5, <2>3
<1> QED
  BY <1>6, <1>7

(* A value that is skipped: the top goes on with the next.                 *)
SkipShape(m, fs, gs, v, more) ==
    /\ fs \in Seq(Frames(m)) /\ Len(fs) \in Nat \ {0} /\ v \in DOMAIN m.value
    /\ gs \in Seq(Frames(m)) /\ Len(gs) = Len(fs)
    /\ gs[1].value = fs[1].value /\ gs[1].found = fs[1].found \cup more
    /\ Due(fs, 1) = {v} \cup Due(gs, 1)
    /\ \A k \in 2 .. Len(fs) : gs[k] = fs[k]
LEMMA Skip ==
    ASSUME NEW m \in Modules, NEW fs \in Seq(Frames(m)), fs # <<>>, Head(fs).todo # <<>>, NEW more \in SUBSET DOMAIN m.value
    PROVE  SkipShape(m, fs, <<[Head(fs) EXCEPT !.todo = Tail(@), !.found = @ \cup more]>> \o Tail(fs),
                     Head(Head(fs).todo).value, more)
<1> DEFINE L == Len(fs)
           V == DOMAIN m.value
           f == Head(fs)
           a == [f EXCEPT !.todo = Tail(@), !.found = @ \cup more]
           v == Head(f.todo).value
           gs == <<a>> \o Tail(fs)
<1>1. f = fs[1] /\ f \in Frames(m) /\ L \in Nat \ {0} /\ 1 \in 1 .. L /\ f.todo # <<>>
  OBVIOUS
<1> HIDE DEF f
<1>2. /\ f.todo \in Seq(OperandSet(m)) /\ Head(f.todo) \in OperandSet(m) /\ Tail(f.todo) \in Seq(OperandSet(m))
      /\ Extractor!Range(f.todo) = {Head(f.todo)} \cup Extractor!Range(Tail(f.todo))
  BY <1>1, FrameIs, ToDo
<1>3. v \in V
  BY <1>2 DEF OperandSet
<1>5. a = [f EXCEPT !.todo = Tail(f.todo), !.found = f.found \cup more] /\ f.found \cup more \in SUBSET V
  BY <1>1, FrameIs
<1>6. a \in Frames(m) /\ a.value = f.value /\ a.todo = Tail(f.todo) /\ a.found = f.found \cup more
  <2> DEFINE t == Tail(f.todo)
             g == f.found \cup more
             b == [f EXCEPT !.todo = t, !.found = g]
  <2>1. t \in Seq(OperandSet(m)) /\ g \in SUBSET DOMAIN m.value /\ f \in Frames(m) /\ a = b
    BY <1>1, <1>2, <1>5
  <2> HIDE DEF t, g
  <2>2. b \in Frames(m) /\ b.value = f.value /\ b.todo = t /\ b.found = g
    <3> DEFINE Q == Seq(OperandSet(m))
               W == [value : V \cup {0}, depth : Nat, todo : Q, found : SUBSET V]
    <3>1. Frames(m) = W /\ f \in W /\ t \in Q /\ g \in SUBSET V
      BY <2>1 DEF Frames
    <3> HIDE DEF Q, V
    <3>2. f \in W /\ t \in Q /\ g \in SUBSET V => b \in W /\ b.value = f.value /\ b.todo = t /\ b.found = g
      OBVIOUS
    <3> QED
      BY <3>1, <3>2
  <2> HIDE DEF b
  <2> QED
    BY <2>1, <2>2, Zenon DEF t, g
<1>7. gs \in Seq(Frames(m)) /\ Len(gs) = L /\ gs[1] = a /\ \A k \in 2 .. L : gs[k] = fs[k]
  <2> HIDE DEF a
  <2> QED
    BY <1>6, Replaced
<1> HIDE DEF gs
<1>8. Due(fs, 1) = {v} \cup Due(gs, 1)
  <2>1. fs[1].todo = f.todo /\ gs[1].todo = Tail(f.todo)
    BY <1>1, <1>6, <1>7, Zenon
  <2> QED
    BY <1>2, <2>1 DEF Due
<1>9. SkipShape(m, fs, gs, v, more)
  <2> HIDE DEF a, v
  <2> QED
    BY <1>1, <1>3, <1>6, <1>7, <1>8, Zenon DEF SkipShape
<1> QED
  BY <1>9, Zenon DEF gs, a, v, f

LEMMA SkipKeeps ==
    ASSUME NEW m \in Modules, NEW roots \in SUBSET DOMAIN m.value, NEW cached, NEW fs, NEW gs, NEW v, NEW more,
           SkipShape(m, fs, gs, v, more), StackOK(m, fs, roots), SoundOK(m, fs, roots, cached),
           more = {} \/ (v \in DOMAIN cached /\ more = cached[v])
    PROVE  /\ gs \in Seq(Frames(m)) /\ gs # <<>>
           /\ StackOK(m, gs, roots) /\ SoundOK(m, gs, roots, cached)
           /\ (v \in DOMAIN cached => more = cached[v]) /\ (v \in DOMAIN cached \/ Opened(fs, v)) =>
                 /\ ClosedOK(m, fs, roots, cached) => ClosedOK(m, gs, roots, cached)
                 /\ AcyclicOK(m, fs, roots, cached) => AcyclicOK(m, gs, roots, cached)
           /\ FirstOK(m, fs, cached) => FirstOK(m, gs, cached)
<1> DEFINE L == Len(fs)
           V == DOMAIN m.value
<1>1. L \in Nat \ {0} /\ 1 \in 1 .. L /\ fs \in Seq(Frames(m))
  BY DEF SkipShape
<1>3. v \in V
  BY DEF SkipShape
<1>7. gs \in Seq(Frames(m)) /\ Len(gs) = L /\ gs[1].value = fs[1].value /\ \A k \in 2 .. L : gs[k] = fs[k]
  BY DEF SkipShape
<1>8. gs # <<>>
  BY <1>1, <1>7
<1>9. \A k \in 1 .. L : k = 1 \/ (k \in 2 .. L /\ gs[k] = fs[k])
  BY <1>1, <1>7
<1>10. /\ \A k \in 1 .. L : gs[k].value = fs[k].value /\ fs[k].found \subseteq gs[k].found
       /\ gs[1].found = fs[1].found \cup more
  <2>1. gs[1].value = fs[1].value /\ gs[1].found = fs[1].found \cup more
    BY DEF SkipShape
  <2> QED
    BY <1>9, <2>1
<1>11. /\ Due(fs, 1) = {v} \cup Due(gs, 1)
       /\ \A k \in 1 .. L : Due(gs, k) \subseteq Due(fs, k) /\ (k # 1 => Due(gs, k) = Due(fs, k))
  <2>2. Due(fs, 1) = {v} \cup Due(gs, 1)
    BY DEF SkipShape
  <2>3. \A k \in 1 .. L : k # 1 => Due(gs, k) = Due(fs, k)
    BY <1>9 DEF Due
  <2> QED
    BY <2>2, <2>3
<1>12. \A k \in 1 .. L : /\ Source(m, gs, roots, k) = Source(m, fs, roots, k)
                         /\ Explored(m, gs, roots, k) = Explored(m, fs, roots, k)
  BY <1>7, <1>10 DEF Source, Explored
<1>13. \A o : Opened(gs, o) <=> Opened(fs, o)
  BY <1>7, <1>10 DEF Opened
<1>14. v \in Explored(m, fs, roots, 1)
  BY <1>1, <1>11 DEF StackOK
<1> HIDE DEF L
<1>15. StackOK(m, gs, roots)
  <2>1. gs[Len(gs)].value = 0
    BY <1>1, <1>7, <1>10 DEF StackOK, L
  <2>2. \A k \in 1 .. Len(gs) - 1 : gs[k].value \in V /\ gs[k].value \in Explored(m, gs, roots, k + 1)
    <3>1. \A k \in 1 .. L - 1 : k \in 1 .. L /\ k + 1 \in 1 .. L
      BY <1>1
    <3>2. \A k \in 1 .. L - 1 : fs[k].value \in V /\ fs[k].value \in Explored(m, fs, roots, k + 1)
      BY DEF StackOK, L
    <3> QED
      BY <1>7, <1>10, <1>12, <3>1, <3>2
  <2>3. \A k \in 1 .. Len(gs) : Due(gs, k) \subseteq Explored(m, gs, roots, k)
    <3>1. \A k \in 1 .. L : Due(fs, k) \subseteq Explored(m, fs, roots, k)
      BY DEF StackOK, L
    <3> QED
      BY <1>7, <1>11, <1>12, <3>1
  <2>4. \A j \in 1 .. Len(gs) - 1 : \A i \in 1 .. j - 1 : gs[i].value \in Extractor!Behind(m, Extractor!OperandsOf(m, {gs[j].value}))
    <3>1. \A j \in 1 .. L - 1 : j \in 1 .. L /\ \A i \in 1 .. j - 1 : i \in 1 .. L
      BY <1>1
    <3>2. \A j \in 1 .. L - 1 : \A i \in 1 .. j - 1 : fs[i].value \in Extractor!Behind(m, Extractor!OperandsOf(m, {fs[j].value}))
      BY DEF StackOK, L
    <3>3. \A j \in 1 .. L - 1 : \A i \in 1 .. j - 1 : gs[i].value = fs[i].value /\ gs[j].value = fs[j].value
      BY <1>10, <3>1
    <3> QED
      BY <1>7, <3>2, <3>3
  <2> HIDE DEF V
  <2> QED
    BY <2>1, <2>2, <2>3, <2>4, Zenon DEF StackOK, V
<1>16. more \subseteq Extractor!FunctionsBehind(m, {v}) /\ Extractor!FunctionsBehind(m, {v}) \subseteq Extractor!FunctionsBehind(m, Source(m, fs, roots, 1))
  <2>1. v \in DOMAIN cached => cached[v] \subseteq Extractor!FunctionsBehind(m, {v})
    BY DEF SoundOK
  <2>2. more \subseteq Extractor!FunctionsBehind(m, {v})
    BY <2>1
  <2>3. Extractor!FunctionsBehind(m, {v}) \subseteq Extractor!FunctionsBehind(m, Source(m, fs, roots, 1))
    BY <1>1, <1>14, ExploredIs DEF L
  <2> QED
    BY <2>2, <2>3
<1>17. SoundOK(m, gs, roots, cached)
  <2>1. \A k \in 1 .. Len(gs) : gs[k].found \subseteq Extractor!FunctionsBehind(m, Source(m, gs, roots, k))
    <3>1. \A k \in 1 .. L : fs[k].found \subseteq Extractor!FunctionsBehind(m, Source(m, fs, roots, k))
      BY DEF SoundOK, L
    <3>2. gs[1].found \subseteq Extractor!FunctionsBehind(m, Source(m, fs, roots, 1))
      BY <1>1, <1>10, <1>16, <3>1
    <3> QED
      BY <1>7, <1>9, <1>12, <3>1, <3>2
  <2>2. \A k \in 1 .. Len(gs) - 1 : Extractor!Kept(m, gs[k].value) => gs[k].value \in gs[k].found
    <3>1. \A k \in 1 .. L - 1 : k \in 1 .. L /\ (Extractor!Kept(m, fs[k].value) => fs[k].value \in fs[k].found)
      BY DEF SoundOK, L
    <3> QED
      BY <1>7, <1>10, <3>1
  <2> QED
    BY <2>1, <2>2 DEF SoundOK
<1>18. FirstOK(m, fs, cached) => FirstOK(m, gs, cached)
  BY <1>7, <1>10 DEF FirstOK, L
<1>19. ASSUME v \in DOMAIN cached \/ Opened(fs, v), ClosedOK(m, fs, roots, cached) PROVE ClosedOK(m, gs, roots, cached)
  <2>1. \A k \in 1 .. L : \A o \in Explored(m, fs, roots, k) : o \in Due(fs, k) \/ o \in DOMAIN cached \/ Opened(fs, o)
    BY <1>19 DEF ClosedOK, L
  <2>2. \A k \in 1 .. L : Due(fs, k) \subseteq {v} \cup Due(gs, k)
    BY <1>11
  <2>3. \A k \in 1 .. Len(gs) : \A o \in Explored(m, gs, roots, k) : o \in Due(gs, k) \/ o \in DOMAIN cached \/ Opened(gs, o)
    BY <1>7, <1>12, <1>13, <1>19, <2>1, <2>2
  <2>4. \A w \in DOMAIN cached : \A o \in Extractor!OperandsOf(m, {w}) : o \in DOMAIN cached \/ Opened(gs, o)
    BY <1>13, <1>19 DEF ClosedOK
  <2> QED
    BY <2>3, <2>4 DEF ClosedOK
<1>20. ASSUME (v \in DOMAIN cached /\ more = cached[v]) \/ Opened(fs, v), AcyclicOK(m, fs, roots, cached)
       PROVE  AcyclicOK(m, gs, roots, cached)
  <2>1. ASSUME NEW k \in 1 .. L, Extractor!Acyclic(m, Source(m, fs, roots, k)), NEW o \in Explored(m, fs, roots, k)
        PROVE  o \in Due(gs, k) \/ (k > 1 /\ o = gs[k - 1].value) \/ Exactly(m, {o}, gs[k].found)
    <3>1. o \in Due(fs, k) \/ (k > 1 /\ o = fs[k - 1].value) \/ Exactly(m, {o}, fs[k].found)
      BY <1>20, <2>1 DEF AcyclicOK, L
    <3>2. CASE o \in Due(fs, k) /\ o \notin Due(gs, k)
      <4>1. k = 1 /\ o = v
        BY <1>11, <3>2
      <4>2. Extractor!Acyclic(m, {v})
        BY <1>1, <1>14, <2>1, <4>1, ExploredIs DEF L
      <4>3. ~Opened(fs, v)
        <5> SUFFICES ASSUME NEW j \in 1 .. L, fs[j].value = v PROVE FALSE
          BY DEF Opened, L
        <5>1. j \in 1 .. L - 1
          <6>1. fs[L].value # v
            BY <1>3, ModuleIs DEF StackOK, L
          <6> QED
            BY <1>1, <6>1
        <5>2. v \in Extractor!Behind(m, Extractor!OperandsOf(m, {v}))
          BY <1>1, <1>14, <5>1, Below DEF L
        <5>3. v \in Extractor!Behind(m, {v})
          BY <1>3, BehindIs
        <5> QED
          BY <4>2, <5>2, <5>3 DEF Extractor!Acyclic
      <4>4. v \in DOMAIN cached /\ more = cached[v]
        BY <1>20, <4>3
      <4>5. Exactly(m, {v}, cached[v])
        BY <1>20, <4>2, <4>4 DEF AcyclicOK
      <4> QED
        BY <1>10, <4>1, <4>4, <4>5 DEF Exactly
    <3>3. CASE Exactly(m, {o}, fs[k].found)
      BY <1>10, <3>3 DEF Exactly
    <3>4. CASE k > 1 /\ o = fs[k - 1].value
      <4>1. k - 1 \in 1 .. L
        BY <1>1, <3>4
      <4> QED
        BY <1>10, <3>4, <4>1
    <3> QED
      BY <3>1, <3>2, <3>3, <3>4
  <2>2. \A w \in DOMAIN cached : Extractor!Acyclic(m, {w}) => Exactly(m, {w}, cached[w])
    BY <1>20 DEF AcyclicOK
  <2> QED
    BY <1>7, <1>12, <2>1, <2>2 DEF AcyclicOK
<1> QED
  BY <1>7, <1>8, <1>15, <1>17, <1>18, <1>19, <1>20 

(* A value that is looked into: a new top, before which it is to be done.  *)
PushShape(m, fs, gs, v) ==
    /\ fs \in Seq(Frames(m)) /\ Len(fs) \in Nat \ {0} /\ v \in DOMAIN m.value
    /\ gs \in Seq(Frames(m)) /\ Len(gs) = Len(fs) + 1
    /\ gs[1].value = v /\ gs[1].found = {x \in {v} : Extractor!Kept(m, x)} /\ gs[1].todo = Extractor!Operands(m, v)
    /\ gs[2].value = fs[1].value /\ gs[2].found = fs[1].found
    /\ Due(fs, 1) = {v} \cup Due(gs, 2)
    /\ \A k \in 2 .. Len(fs) : gs[k + 1] = fs[k]
LEMMA Descend ==
    ASSUME NEW m \in Modules, NEW depth \in Nat,
           NEW fs \in Seq(Frames(m)), fs # <<>>, Head(fs).todo # <<>>,
           NEW v, v = Head(Head(fs).todo).value
    PROVE  PushShape(m, fs, <<[value |-> v, depth |-> depth, todo |-> Extractor!Operands(m, v), found |-> {x \in {v} : Extractor!Kept(m, x)}],
                              [Head(fs) EXCEPT !.todo = Tail(@)]>> \o Tail(fs), v)
<1> DEFINE L == Len(fs)
           V == DOMAIN m.value
           f == Head(fs)
           a == [value |-> v, depth |-> depth, todo |-> Extractor!Operands(m, v), found |-> {x \in {v} : Extractor!Kept(m, x)}]
           b == [f EXCEPT !.todo = Tail(@)]
           gs == <<a, b>> \o Tail(fs)
<1>1. f = fs[1] /\ f \in Frames(m) /\ L \in Nat \ {0} /\ 1 \in 1 .. L /\ f.todo # <<>> /\ v = Head(f.todo).value
  OBVIOUS
<1> HIDE DEF f
<1>2. /\ f.todo \in Seq(OperandSet(m)) /\ Head(f.todo) \in OperandSet(m) /\ Tail(f.todo) \in Seq(OperandSet(m))
      /\ Extractor!Range(f.todo) = {Head(f.todo)} \cup Extractor!Range(Tail(f.todo))
  BY <1>1, FrameIs, ToDo
<1>3. v \in V
  BY <1>1, <1>2 DEF OperandSet
<1>4. a \in Frames(m) /\ a.value = v /\ a.todo = Extractor!Operands(m, v) /\ a.found = {x \in {v} : Extractor!Kept(m, x)}
  <2>1. Extractor!Operands(m, v) \in Seq(OperandSet(m))
    BY <1>3, OperandsAre
  <2> QED
    BY <1>3, <2>1 DEF Frames
<1> HIDE DEF a
<1>5. b \in Frames(m) /\ b.value = f.value /\ b.todo = Tail(f.todo) /\ b.found = f.found
  <2> DEFINE t == Tail(f.todo)
             Q == Seq(OperandSet(m))
             W == [value : V \cup {0}, depth : Nat, todo : Q, found : SUBSET V]
  <2>1. Frames(m) = W /\ f \in W /\ t \in Q /\ b = [f EXCEPT !.todo = t]
    BY <1>1, <1>2 DEF Frames
  <2> HIDE DEF Q, V, t, b
  <2>2. ASSUME NEW c, c = [f EXCEPT !.todo = t] PROVE f \in W /\ t \in Q => c \in W /\ c.value = f.value /\ c.todo = t /\ c.found = f.found
    BY <2>2
  <2>3. b \in W /\ b.value = f.value /\ b.todo = t /\ b.found = f.found
    BY <2>1, <2>2
  <2> QED
    BY <2>1, <2>3 DEF t
<1> HIDE DEF b
<1>6. gs \in Seq(Frames(m)) /\ Len(gs) = L + 1 /\ gs[1] = a /\ gs[2] = b /\ \A k \in 2 .. L : gs[k + 1] = fs[k]
  BY <1>4, <1>5, Inserted
<1> HIDE DEF gs
<1>7. Due(fs, 1) = {v} \cup Due(gs, 2)
  <2>1. fs[1].todo = f.todo /\ gs[2].todo = Tail(f.todo)
    BY <1>1, <1>5, <1>6
  <2> QED
    BY <1>1, <1>2, <2>1 DEF Due
<1>8. PushShape(m, fs, gs, v)
  BY <1>1, <1>3, <1>4, <1>5, <1>6, <1>7, Zenon DEF PushShape
<1> QED
  BY <1>8, Zenon DEF gs, a, b, f

LEMMA PushKeeps ==
    ASSUME NEW m \in Modules, NEW roots \in SUBSET DOMAIN m.value, NEW cached, NEW v, NEW fs, NEW gs,
           PushShape(m, fs, gs, v), StackOK(m, fs, roots), SoundOK(m, fs, roots, cached)
    PROVE  /\ gs \in Seq(Frames(m)) /\ gs # <<>>
           /\ StackOK(m, gs, roots) /\ SoundOK(m, gs, roots, cached)
           /\ ClosedOK(m, fs, roots, cached) => ClosedOK(m, gs, roots, cached)
           /\ AcyclicOK(m, fs, roots, cached) => AcyclicOK(m, gs, roots, cached)
           /\ FirstOK(m, fs, cached) => FirstOK(m, gs, cached)
<1> DEFINE L == Len(fs)
           V == DOMAIN m.value
<1>1. L \in Nat \ {0} /\ 1 \in 1 .. L /\ fs \in Seq(Frames(m))
  BY DEF PushShape
<1>3. v \in V
  BY DEF PushShape
<1>6. gs \in Seq(Frames(m)) /\ Len(gs) = L + 1 /\ gs[2].value = fs[1].value /\ gs[2].found = fs[1].found /\ \A k \in 2 .. L : gs[k + 1] = fs[k]
  BY DEF PushShape
<1>12. gs[1].value = v /\ gs[1].found = {x \in {v} : Extractor!Kept(m, x)} /\ gs[1].todo = Extractor!Operands(m, v)
  BY DEF PushShape
<1> HIDE DEF L
<1>7. gs # <<>>
  BY <1>1, <1>6
<1>8. \A k \in 1 .. L : k = 1 \/ (k \in 2 .. L /\ gs[k + 1] = fs[k])
  BY <1>1, <1>6
<1>9. \A k \in 1 .. L : gs[k + 1].value = fs[k].value /\ gs[k + 1].found = fs[k].found
  <2>1. gs[1 + 1].value = fs[1].value /\ gs[1 + 1].found = fs[1].found
    BY <1>6
  <2> QED
    BY <1>8, <2>1
<1>10. /\ Due(fs, 1) = {v} \cup Due(gs, 2)
       /\ \A k \in 1 .. L : Due(gs, k + 1) \subseteq Due(fs, k) /\ Due(fs, k) \subseteq {v} \cup Due(gs, k + 1)
       /\ \A k \in 2 .. L : Due(fs, k) = Due(gs, k + 1)
  <2>2. Due(fs, 1) = {v} \cup Due(gs, 2)
    BY DEF PushShape
  <2>3. \A k \in 1 .. L : k # 1 => Due(gs, k + 1) = Due(fs, k)
    BY <1>8 DEF Due
  <2> QED
    BY <2>2, <2>3
<1>11. \A k \in 1 .. L : /\ Source(m, gs, roots, k + 1) = Source(m, fs, roots, k)
                         /\ Explored(m, gs, roots, k + 1) = Explored(m, fs, roots, k)
  <2> SUFFICES ASSUME NEW k \in 1 .. L PROVE /\ Source(m, gs, roots, k + 1) = Source(m, fs, roots, k)
                                              /\ Explored(m, gs, roots, k + 1) = Explored(m, fs, roots, k)
    OBVIOUS
  <2>1. gs[k + 1].value = fs[k].value /\ (k + 1 = Len(gs) <=> k = Len(fs))
    BY <1>1, <1>6, <1>9 DEF L
  <2> QED
    BY <2>1, Zenon DEF Source, Explored
<1>13. Source(m, gs, roots, 1) = {v} /\ Explored(m, gs, roots, 1) = Extractor!OperandsOf(m, {v}) /\ Due(gs, 1) = Extractor!OperandsOf(m, {v})
  <2>1. Extractor!OperandsOf(m, {v}) = {o.value : o \in Extractor!Range(Extractor!Operands(m, v))}
    BY <1>3, OperandsOfAre
  <2>2. 1 # Len(gs)
    BY <1>1, <1>6
  <2>3. Source(m, gs, roots, 1) = {v} /\ Explored(m, gs, roots, 1) = Extractor!OperandsOf(m, {v})
    BY <1>12, <2>2 DEF Source, Explored
  <2> QED
    BY <1>12, <2>1, <2>3 DEF Due
<1>14. Opened(gs, v) /\ \A o : Opened(fs, o) => Opened(gs, o)
  <2>1. Opened(gs, v)
    BY <1>1, <1>6, <1>12 DEF Opened
  <2>2. \A k \in 1 .. L : k + 1 \in 1 .. Len(gs)
    BY <1>1, <1>6
  <2> QED
    BY <1>9, <2>1, <2>2 DEF Opened, L
<1>15. v \in Explored(m, fs, roots, 1)
  BY <1>1, <1>10 DEF StackOK, L
<1>16. \A k \in 1 .. L + 1 : k = 1 \/ (k - 1 \in 1 .. L /\ (k - 1) + 1 = k)
  BY <1>1
<1> HIDE DEF L
<1>17. StackOK(m, gs, roots)
  <2>1. gs[Len(gs)].value = 0
    BY <1>1, <1>6, <1>9 DEF StackOK, L
  <2>2. \A k \in 1 .. Len(gs) - 1 : gs[k].value \in V /\ gs[k].value \in Explored(m, gs, roots, k + 1)
    <3> SUFFICES ASSUME NEW k \in 1 .. L PROVE gs[k].value \in V /\ gs[k].value \in Explored(m, gs, roots, k + 1)
      BY <1>1, <1>6
    <3>1. CASE k = 1
      BY <1>1, <1>3, <1>11, <1>12, <1>15, <3>1
    <3>2. CASE k # 1
      <4>1. k - 1 \in 1 .. L - 1 /\ k - 1 \in 1 .. L /\ (k - 1) + 1 = k
        BY <1>1, <3>2
      <4>2. fs[k - 1].value \in V /\ fs[k - 1].value \in Explored(m, fs, roots, (k - 1) + 1)
        BY <4>1 DEF StackOK, L
      <4>3. gs[(k - 1) + 1].value = fs[k - 1].value
        BY <1>9, <4>1
      <4> QED
        BY <1>11, <4>1, <4>2, <4>3
    <3> QED
      BY <3>1, <3>2
  <2>3. \A k \in 1 .. Len(gs) : Due(gs, k) \subseteq Explored(m, gs, roots, k)
    <3> SUFFICES ASSUME NEW k \in 1 .. L + 1 PROVE Due(gs, k) \subseteq Explored(m, gs, roots, k)
      BY <1>1, <1>6
    <3>1. CASE k = 1
      BY <1>13, <3>1
    <3>2. CASE k # 1
      <4>1. k - 1 \in 1 .. L /\ (k - 1) + 1 = k
        BY <1>16, <3>2
      <4>2. Due(fs, k - 1) \subseteq Explored(m, fs, roots, k - 1)
        BY <4>1 DEF StackOK, L
      <4>3. Due(gs, (k - 1) + 1) \subseteq Due(fs, k - 1) /\ Explored(m, gs, roots, (k - 1) + 1) = Explored(m, fs, roots, k - 1)
        BY <1>10, <1>11, <4>1
      <4> QED
        BY <4>1, <4>2, <4>3
    <3> QED
      BY <3>1, <3>2
  <2>4. ASSUME NEW j \in 1 .. L, NEW i \in 1 .. j - 1 PROVE gs[i].value \in Extractor!Behind(m, Extractor!OperandsOf(m, {gs[j].value}))
    <3>1. j - 1 \in 1 .. L - 1 /\ j - 1 \in 1 .. L /\ (j - 1) + 1 = j
      BY <1>1
    <3>2. gs[(j - 1) + 1].value = fs[j - 1].value
      BY <1>9, <3>1
    <3>3. CASE i = 1
      <4>1. v \in Extractor!Behind(m, Extractor!OperandsOf(m, {fs[j - 1].value}))
        BY <1>1, <1>15, <3>1, Below DEF L
      <4> QED
        BY <1>12, <3>1, <3>2, <3>3, <4>1
    <3>4. CASE i # 1
      <4>1. i - 1 \in 1 .. (j - 1) - 1 /\ i - 1 \in 1 .. L /\ (i - 1) + 1 = i
        BY <1>1, <3>4
      <4>2. fs[i - 1].value \in Extractor!Behind(m, Extractor!OperandsOf(m, {fs[j - 1].value}))
        BY <3>1, <4>1 DEF StackOK, L
      <4>3. gs[(i - 1) + 1].value = fs[i - 1].value
        BY <1>9, <4>1
      <4> QED
        BY <3>1, <3>2, <4>1, <4>2, <4>3
    <3> QED
      BY <3>3, <3>4
  <2>5. \A j \in 1 .. Len(gs) - 1 : \A i \in 1 .. j - 1 : gs[i].value \in Extractor!Behind(m, Extractor!OperandsOf(m, {gs[j].value}))
    <3>1. 1 .. Len(gs) - 1 = 1 .. L
      BY <1>1, <1>6
    <3> QED
      BY <2>4, <3>1
  <2> HIDE DEF V
  <2> QED
    BY <2>1, <2>2, <2>3, <2>5, Zenon DEF StackOK, V
<1>18. SoundOK(m, gs, roots, cached)
  <2>1. ASSUME NEW k \in 1 .. L + 1 PROVE gs[k].found \subseteq Extractor!FunctionsBehind(m, Source(m, gs, roots, k))
    <3>1. CASE k = 1
      <4>1. \A x \in {v} : Extractor!Kept(m, x) => x \in Extractor!FunctionsBehind(m, {v})
        BY <1>3, FunctionsAre
      <4> QED
        BY <1>12, <1>13, <3>1, <4>1
    <3>2. CASE k # 1
      <4>1. k - 1 \in 1 .. L /\ (k - 1) + 1 = k
        BY <1>16, <3>2
      <4>2. fs[k - 1].found \subseteq Extractor!FunctionsBehind(m, Source(m, fs, roots, k - 1))
        BY <4>1 DEF SoundOK, L
      <4>3. gs[(k - 1) + 1].found = fs[k - 1].found /\ Source(m, gs, roots, (k - 1) + 1) = Source(m, fs, roots, k - 1)
        BY <1>9, <1>11, <4>1
      <4> QED
        BY <4>1, <4>2, <4>3
    <3> QED
      BY <3>1, <3>2
  <2>2. ASSUME NEW k \in 1 .. L, Extractor!Kept(m, gs[k].value) PROVE gs[k].value \in gs[k].found
    <3>1. CASE k = 1
      BY <1>12, <2>2, <3>1
    <3>2. CASE k # 1
      <4>1. k - 1 \in 1 .. L - 1 /\ k - 1 \in 1 .. L /\ (k - 1) + 1 = k
        BY <1>1, <3>2
      <4>2. Extractor!Kept(m, fs[k - 1].value) => fs[k - 1].value \in fs[k - 1].found
        BY <4>1 DEF SoundOK, L
      <4>3. gs[(k - 1) + 1].found = fs[k - 1].found /\ gs[(k - 1) + 1].value = fs[k - 1].value
        BY <1>9, <4>1
      <4> QED
        BY <2>2, <4>1, <4>2, <4>3
    <3> QED
      BY <3>1, <3>2
  <2>3. \A w \in DOMAIN cached : cached[w] \subseteq Extractor!FunctionsBehind(m, {w})
    BY DEF SoundOK
  <2>4. Len(gs) = L + 1 /\ Len(gs) - 1 = L
    BY <1>1, <1>6
  <2>5. \A k \in 1 .. Len(gs) : gs[k].found \subseteq Extractor!FunctionsBehind(m, Source(m, gs, roots, k))
    BY <2>1, <2>4
  <2>6. \A k \in 1 .. Len(gs) - 1 : Extractor!Kept(m, gs[k].value) => gs[k].value \in gs[k].found
    BY <2>2, <2>4
  <2> QED
    BY <2>3, <2>5, <2>6, Zenon DEF SoundOK
<1>19. ASSUME ClosedOK(m, fs, roots, cached) PROVE ClosedOK(m, gs, roots, cached)
  <2>1. ASSUME NEW k \in 1 .. L + 1, NEW o \in Explored(m, gs, roots, k)
        PROVE  o \in Due(gs, k) \/ o \in DOMAIN cached \/ Opened(gs, o)
    <3>1. CASE k = 1
      BY <1>13, <2>1, <3>1
    <3>2. CASE k # 1
      <4>1. k - 1 \in 1 .. L /\ (k - 1) + 1 = k
        BY <1>16, <3>2
      <4>2. o \in Explored(m, fs, roots, k - 1)
        BY <1>11, <2>1, <4>1
      <4>3. o \in Due(fs, k - 1) \/ o \in DOMAIN cached \/ Opened(fs, o)
        BY <1>19, <4>1, <4>2 DEF ClosedOK, L
      <4>4. Due(fs, k - 1) \subseteq {v} \cup Due(gs, (k - 1) + 1)
        BY <1>10, <4>1
      <4> QED
        BY <1>14, <4>1, <4>3, <4>4
    <3> QED
      BY <3>1, <3>2
  <2>2. \A w \in DOMAIN cached : \A o \in Extractor!OperandsOf(m, {w}) : o \in DOMAIN cached \/ Opened(gs, o)
    BY <1>14, <1>19 DEF ClosedOK
  <2>3. \A k \in 1 .. Len(gs) : \A o \in Explored(m, gs, roots, k) : o \in Due(gs, k) \/ o \in DOMAIN cached \/ Opened(gs, o)
    BY <1>1, <1>6, <2>1
  <2> QED
    BY <2>2, <2>3, Zenon DEF ClosedOK
<1>20. ASSUME AcyclicOK(m, fs, roots, cached) PROVE AcyclicOK(m, gs, roots, cached)
  <2>1. ASSUME NEW k \in 1 .. L + 1, Extractor!Acyclic(m, Source(m, gs, roots, k)), NEW o \in Explored(m, gs, roots, k)
        PROVE  o \in Due(gs, k) \/ (k > 1 /\ o = gs[k - 1].value) \/ Exactly(m, {o}, gs[k].found)
    <3>1. CASE k = 1
      BY <1>13, <2>1, <3>1
    <3>2. CASE k # 1
      <4>1. k - 1 \in 1 .. L /\ (k - 1) + 1 = k /\ k > 1
        BY <1>16, <3>2
      <4>2. Extractor!Acyclic(m, Source(m, fs, roots, k - 1)) /\ o \in Explored(m, fs, roots, k - 1)
        BY <1>11, <2>1, <4>1
      <4>3. o \in Due(fs, k - 1) \/ (k - 1 > 1 /\ o = fs[(k - 1) - 1].value) \/ Exactly(m, {o}, fs[k - 1].found)
        BY <1>20, <4>1, <4>2 DEF AcyclicOK, L
      <4>4. gs[(k - 1) + 1].found = fs[k - 1].found
        BY <1>9, <4>1
      <4>5. CASE k - 1 > 1 /\ o = fs[(k - 1) - 1].value
        <5>1. (k - 1) - 1 \in 1 .. L /\ ((k - 1) - 1) + 1 = k - 1
          BY <1>1, <4>1, <4>5
        <5>2. gs[((k - 1) - 1) + 1].value = fs[(k - 1) - 1].value
          BY <1>9, <5>1
        <5> QED
          BY <4>1, <4>5, <5>1, <5>2
      <4>6. CASE o \in Due(fs, k - 1)
        <5>1. CASE k - 1 = 1
          <6>1. o = v \/ o \in Due(gs, 2)
            BY <1>10, <4>6, <5>1
          <6>2. k = 2
            BY <4>1, <5>1
          <6> QED
            BY <1>12, <6>1, <6>2
        <5>2. CASE k - 1 # 1
          <6>1. k - 1 \in 2 .. L
            BY <1>1, <4>1, <5>2
          <6> QED
            BY <1>10, <4>1, <4>6, <6>1
        <5> QED
          BY <5>1, <5>2
      <4> QED
        BY <4>1, <4>3, <4>4, <4>5, <4>6
    <3> QED
      BY <3>1, <3>2
  <2>2. \A w \in DOMAIN cached : Extractor!Acyclic(m, {w}) => Exactly(m, {w}, cached[w])
    BY <1>20 DEF AcyclicOK
  <2>3. \A k \in 1 .. Len(gs) : Extractor!Acyclic(m, Source(m, gs, roots, k)) =>
           \A o \in Explored(m, gs, roots, k) :
              o \in Due(gs, k) \/ (k > 1 /\ o = gs[k - 1].value) \/ Exactly(m, {o}, gs[k].found)
    BY <1>1, <1>6, <2>1
  <2> QED
    BY <2>2, <2>3, Zenon DEF AcyclicOK
<1>21. ASSUME FirstOK(m, fs, cached) PROVE FirstOK(m, gs, cached)
  <2>1. \A k \in 1 .. L : k + 1 \in 1 .. Len(gs) /\ gs[k + 1].found = fs[k].found
    BY <1>1, <1>6, <1>9
  <2> QED
    BY <1>21, <2>1 DEF FirstOK, L
<1> QED
  BY <1>6, <1>7, <1>17, <1>18, <1>19, <1>20, <1>21

(* A value that is done: it is cached, and what it gave goes to the one    *)
(* that asked.                                                             *)
ReturnShape(m, fs, gs) ==
    /\ fs \in Seq(Frames(m)) /\ Len(fs) \in Nat \ {0, 1} /\ fs[1].todo = <<>>
    /\ gs \in Seq(Frames(m)) /\ Len(gs) = Len(fs) - 1
    /\ gs[1].value = fs[2].value /\ gs[1].todo = fs[2].todo /\ gs[1].found = fs[2].found \cup fs[1].found
    /\ \A k \in 2 .. Len(gs) : gs[k] = fs[k + 1]
Learned(cached, learned, v, some) ==
    /\ DOMAIN learned = DOMAIN cached \cup {v} /\ learned[v] = some
    /\ \A w \in DOMAIN cached : w # v => learned[w] = cached[w]
LEMMA Return ==
    ASSUME NEW m \in Modules, NEW fs \in Seq(Frames(m)), Len(fs) > 1, Head(fs).todo = <<>>
    PROVE  ReturnShape(m, fs, <<[Head(Tail(fs)) EXCEPT !.found = @ \cup Head(fs).found]>> \o Tail(Tail(fs)))
<1> DEFINE V == DOMAIN m.value
           f == Head(fs)
           g == Head(Tail(fs))
           a == [g EXCEPT !.found = @ \cup f.found]
           gs == <<a>> \o Tail(Tail(fs))
<1>1. /\ f = fs[1] /\ g = fs[2] /\ f \in Frames(m) /\ g \in Frames(m) /\ Len(fs) \in Nat \ {0, 1} /\ f.todo = <<>>
  OBVIOUS
<1>2. f.found \in SUBSET V /\ g.found \in SUBSET V
  BY <1>1, FrameIs
<1> HIDE DEF f, g
<1>5. a \in Frames(m) /\ a.value = g.value /\ a.todo = g.todo /\ a.found = g.found \cup f.found
  <2> DEFINE t == g.found \cup f.found
             Q == Seq(OperandSet(m))
             W == [value : V \cup {0}, depth : Nat, todo : Q, found : SUBSET V]
  <2>1. Frames(m) = W /\ g \in W /\ t \in SUBSET V /\ a = [g EXCEPT !.found = t]
    BY <1>1, <1>2 DEF Frames
  <2> HIDE DEF Q, V, t, a
  <2>2. ASSUME NEW c, c = [g EXCEPT !.found = t] PROVE g \in W /\ t \in SUBSET V => c \in W /\ c.value = g.value /\ c.todo = g.todo /\ c.found = t
    BY <2>2
  <2>3. a \in W /\ a.value = g.value /\ a.todo = g.todo /\ a.found = t
    BY <2>1, <2>2
  <2> QED
    BY <2>1, <2>3 DEF t
<1> HIDE DEF a
<1> HIDE DEF V
<1>6. gs \in Seq(Frames(m)) /\ Len(gs) = Len(fs) - 1 /\ gs[1] = a /\ \A k \in 2 .. Len(gs) : gs[k] = fs[k + 1]
  <2> DEFINE t == Tail(Tail(fs))
  <2>1. t \in Seq(Frames(m)) /\ Len(t) = Len(fs) - 2 /\ \A k \in 1 .. Len(fs) - 2 : t[k] = fs[k + 2]
    BY <1>1, Rest
  <2>2. gs = <<a>> \o t
    OBVIOUS
  <2> HIDE DEF t, gs
  <2>3. gs \in Seq(Frames(m)) /\ Len(gs) = Len(t) + 1 /\ gs[1] = a /\ \A k \in 1 .. Len(t) : gs[k + 1] = t[k]
    BY <1>5, <2>1, <2>2, Topped
  <2>4. ASSUME NEW k \in 2 .. Len(gs) PROVE gs[k] = fs[k + 1]
    <3>1. k - 1 \in 1 .. Len(t) /\ (k - 1) + 1 = k /\ (k - 1) + 2 = k + 1 /\ k - 1 \in 1 .. Len(fs) - 2
      BY <1>1, <2>1, <2>3
    <3>2. gs[(k - 1) + 1] = t[k - 1] /\ t[k - 1] = fs[(k - 1) + 2]
      BY <2>1, <2>3, <3>1
    <3> QED
      BY <3>1, <3>2
  <2> QED
    BY <1>1, <2>1, <2>3, <2>4
<1> HIDE DEF gs
<1>7. ReturnShape(m, fs, gs)
  BY <1>1, <1>5, <1>6, Zenon DEF ReturnShape
<1> QED
  BY <1>7, Zenon DEF gs, a, f, g

LEMMA ReturnKeeps ==
    ASSUME NEW m \in Modules, NEW roots \in SUBSET DOMAIN m.value, NEW cached, NEW learned, NEW fs, NEW gs,
           ReturnShape(m, fs, gs), StackOK(m, fs, roots), SoundOK(m, fs, roots, cached),
           Learned(cached, learned, fs[1].value, fs[1].found)
    PROVE  /\ gs \in Seq(Frames(m)) /\ gs # <<>> /\ fs[1].value \in DOMAIN m.value
           /\ StackOK(m, gs, roots) /\ SoundOK(m, gs, roots, learned)
           /\ ClosedOK(m, fs, roots, cached) => ClosedOK(m, gs, roots, learned)
           /\ AcyclicOK(m, fs, roots, cached) => AcyclicOK(m, gs, roots, learned)
           /\ FirstOK(m, fs, cached) => FirstOK(m, gs, learned)
<1> DEFINE L == Len(fs)
           V == DOMAIN m.value
           v == fs[1].value
<1>1. L \in Nat \ {0, 1} /\ 1 \in 1 .. L - 1 /\ 1 \in 1 .. L /\ 2 \in 1 .. L /\ fs[1].todo = <<>> /\ fs \in Seq(Frames(m))
  BY DEF ReturnShape
<1>3. v \in V
  BY <1>1 DEF StackOK
<1>6. /\ gs \in Seq(Frames(m)) /\ Len(gs) = L - 1 /\ \A k \in 2 .. Len(gs) : gs[k] = fs[k + 1]
      /\ gs[1].value = fs[2].value /\ gs[1].todo = fs[2].todo
  BY DEF ReturnShape
<1>12. gs[1].found = fs[2].found \cup fs[1].found
  BY DEF ReturnShape
<1>18. /\ DOMAIN learned = DOMAIN cached \cup {v} /\ learned[v] = fs[1].found
       /\ \A w \in DOMAIN cached : w # v => learned[w] = cached[w]
  BY DEF Learned
<1> HIDE DEF L
<1>7. gs # <<>>
  BY <1>1, <1>6
<1>8. \A k \in 1 .. L - 1 : k = 1 \/ (k \in 2 .. L - 1 /\ gs[k] = fs[k + 1])
  BY <1>1, <1>6
<1>9. \A k \in 1 .. L - 1 : gs[k].value = fs[k + 1].value /\ fs[k + 1].found \subseteq gs[k].found /\ gs[k].todo = fs[k + 1].todo
  <2>1. gs[1].value = fs[1 + 1].value /\ fs[1 + 1].found \subseteq gs[1].found /\ gs[1].todo = fs[1 + 1].todo
    BY <1>1, <1>6, <1>12
  <2> QED
    BY <1>8, <2>1
<1>10. \A k \in 1 .. L - 1 : Due(gs, k) = Due(fs, k + 1)
  BY <1>9 DEF Due
<1>11. \A k \in 1 .. L - 1 : /\ Source(m, gs, roots, k) = Source(m, fs, roots, k + 1)
                             /\ Explored(m, gs, roots, k) = Explored(m, fs, roots, k + 1)
  <2> SUFFICES ASSUME NEW k \in 1 .. L - 1 PROVE /\ Source(m, gs, roots, k) = Source(m, fs, roots, k + 1)
                                                  /\ Explored(m, gs, roots, k) = Explored(m, fs, roots, k + 1)
    OBVIOUS
  <2>1. gs[k].value = fs[k + 1].value /\ (k = Len(gs) <=> k + 1 = Len(fs))
    BY <1>1, <1>6, <1>9 DEF L
  <2> QED
    BY <2>1, Zenon DEF Source, Explored
<1>13. Source(m, fs, roots, 1) = {v} /\ Explored(m, fs, roots, 1) = Extractor!OperandsOf(m, {v}) /\ Due(fs, 1) = {}
  <2>1. 1 # L
    BY <1>1
  <2>2. Source(m, fs, roots, 1) = {v} /\ Explored(m, fs, roots, 1) = Extractor!OperandsOf(m, {v})
    BY <1>1, <2>1 DEF Source, Explored, L, v
  <2>3. Extractor!Range(<<>>) = {}
    BY DEF Extractor!Range
  <2> QED
    BY <1>1, <2>2, <2>3 DEF Due
<1>14. \A o : Opened(fs, o) => o = v \/ Opened(gs, o)
  <2> SUFFICES ASSUME NEW k \in 1 .. L, fs[k].value # v PROVE \E j \in 1 .. Len(gs) : gs[j].value = fs[k].value
    BY DEF Opened, L
  <2>1. k # 1
    BY <1>1 DEF v
  <2>2. k - 1 \in 1 .. L - 1 /\ (k - 1) + 1 = k
    BY <1>1, <2>1
  <2>3. gs[k - 1].value = fs[(k - 1) + 1].value
    BY <1>9, <2>2
  <2> QED
    BY <1>6, <2>2, <2>3
<1>15. v \in Explored(m, fs, roots, 2)
  <2>1. v \in Explored(m, fs, roots, 1 + 1)
    BY <1>1 DEF StackOK, L, v
  <2> QED
    BY <2>1
<1>16. \A k \in 1 .. L - 1 : k \in 1 .. L /\ k + 1 \in 1 .. L
  BY <1>1
<1>17. fs[1].found \subseteq Extractor!FunctionsBehind(m, {v})
  BY <1>1, <1>13 DEF SoundOK, L
<1> HIDE DEF v
<1>19. StackOK(m, gs, roots)
  <2>1. gs[Len(gs)].value = 0
    <3>1. gs[L - 1].value = fs[(L - 1) + 1].value /\ (L - 1) + 1 = L
      BY <1>1, <1>9
    <3> QED
      BY <1>6, <3>1 DEF StackOK, L
  <2>2. \A k \in 1 .. Len(gs) - 1 : gs[k].value \in V /\ gs[k].value \in Explored(m, gs, roots, k + 1)
    <3> SUFFICES ASSUME NEW k \in 1 .. L - 2 PROVE gs[k].value \in V /\ gs[k].value \in Explored(m, gs, roots, k + 1)
      BY <1>1, <1>6
    <3>1. k \in 1 .. L - 1 /\ k + 1 \in 1 .. L - 1
      BY <1>1
    <3>2. fs[k + 1].value \in V /\ fs[k + 1].value \in Explored(m, fs, roots, (k + 1) + 1)
      BY <3>1 DEF StackOK, L
    <3> QED
      BY <1>9, <1>11, <3>1, <3>2
  <2>3. \A k \in 1 .. Len(gs) : Due(gs, k) \subseteq Explored(m, gs, roots, k)
    <3>1. \A k \in 1 .. L - 1 : Due(fs, k + 1) \subseteq Explored(m, fs, roots, k + 1)
      BY <1>16 DEF StackOK, L
    <3> QED
      BY <1>6, <1>10, <1>11, <3>1
  <2>4. ASSUME NEW j \in 1 .. L - 2, NEW i \in 1 .. j - 1 PROVE gs[i].value \in Extractor!Behind(m, Extractor!OperandsOf(m, {gs[j].value}))
    <3>1. j \in 1 .. L - 1 /\ j + 1 \in 1 .. L - 1 /\ i \in 1 .. L - 1 /\ i + 1 \in 1 .. (j + 1) - 1
      BY <1>1
    <3>2. fs[i + 1].value \in Extractor!Behind(m, Extractor!OperandsOf(m, {fs[j + 1].value}))
      BY <3>1 DEF StackOK, L
    <3> QED
      BY <1>9, <3>1, <3>2
  <2>5. \A j \in 1 .. Len(gs) - 1 : \A i \in 1 .. j - 1 : gs[i].value \in Extractor!Behind(m, Extractor!OperandsOf(m, {gs[j].value}))
    <3>1. 1 .. Len(gs) - 1 = 1 .. L - 2
      BY <1>1, <1>6
    <3> QED
      BY <2>4, <3>1
  <2> HIDE DEF V
  <2> QED
    BY <2>1, <2>2, <2>3, <2>5, Zenon DEF StackOK, V
<1>20. SoundOK(m, gs, roots, learned)
  <2>1. ASSUME NEW k \in 1 .. L - 1 PROVE gs[k].found \subseteq Extractor!FunctionsBehind(m, Source(m, gs, roots, k))
    <3>1. fs[k + 1].found \subseteq Extractor!FunctionsBehind(m, Source(m, fs, roots, k + 1))
      BY <1>16 DEF SoundOK, L
    <3>2. CASE k = 1
      <4>1. Extractor!FunctionsBehind(m, {v}) \subseteq Extractor!FunctionsBehind(m, Source(m, fs, roots, 2))
        BY <1>1, <1>15, ExploredIs DEF L
      <4>2. Source(m, gs, roots, 1) = Source(m, fs, roots, 1 + 1) /\ fs[1 + 1].found \subseteq Extractor!FunctionsBehind(m, Source(m, fs, roots, 1 + 1))
        BY <1>11, <3>1, <3>2
      <4>3. fs[2].found \subseteq Extractor!FunctionsBehind(m, Source(m, gs, roots, 1))
        BY <4>2
      <4>4. fs[1].found \subseteq Extractor!FunctionsBehind(m, Source(m, gs, roots, 1))
        <5>1. Source(m, gs, roots, 1) = Source(m, fs, roots, 2)
          BY <4>2
        <5>2. fs[1].found \subseteq Extractor!FunctionsBehind(m, Source(m, fs, roots, 2))
          BY <1>17, <4>1
        <5> QED
          BY <5>1, <5>2, Zenon
      <4>5. gs[1].found \subseteq Extractor!FunctionsBehind(m, Source(m, gs, roots, 1))
        BY <1>12, <4>3, <4>4
      <4> QED
        BY <3>2, <4>5
    <3>3. CASE k # 1
      BY <1>8, <1>11, <3>1, <3>3
    <3> QED
      BY <3>2, <3>3
  <2>2. ASSUME NEW k \in 1 .. L - 2, Extractor!Kept(m, gs[k].value) PROVE gs[k].value \in gs[k].found
    <3>1. k \in 1 .. L - 1 /\ k + 1 \in 1 .. L - 1
      BY <1>1
    <3>2. Extractor!Kept(m, fs[k + 1].value) => fs[k + 1].value \in fs[k + 1].found
      BY <3>1 DEF SoundOK, L
    <3> QED
      BY <1>9, <2>2, <3>1, <3>2
  <2>3. \A w \in DOMAIN learned : learned[w] \subseteq Extractor!FunctionsBehind(m, {w})
    <3>1. \A w \in DOMAIN cached : cached[w] \subseteq Extractor!FunctionsBehind(m, {w})
      BY DEF SoundOK
    <3> QED
      BY <1>17, <1>18, <3>1
  <2>4. \A k \in 1 .. Len(gs) : gs[k].found \subseteq Extractor!FunctionsBehind(m, Source(m, gs, roots, k))
    BY <1>6, <2>1
  <2>5. \A k \in 1 .. Len(gs) - 1 : Extractor!Kept(m, gs[k].value) => gs[k].value \in gs[k].found
    BY <1>1, <1>6, <2>2
  <2> QED
    BY <2>3, <2>4, <2>5, Zenon DEF SoundOK
<1>21. ASSUME ClosedOK(m, fs, roots, cached) PROVE ClosedOK(m, gs, roots, learned)
  <2>1. \A k \in 1 .. L : \A o \in Explored(m, fs, roots, k) : o \in Due(fs, k) \/ o \in DOMAIN cached \/ Opened(fs, o)
    BY <1>21 DEF ClosedOK, L
  <2>2. \A w \in DOMAIN cached : \A o \in Extractor!OperandsOf(m, {w}) : o \in DOMAIN cached \/ Opened(fs, o)
    BY <1>21 DEF ClosedOK
  <2>3. \A k \in 1 .. Len(gs) : \A o \in Explored(m, gs, roots, k) : o \in Due(gs, k) \/ o \in DOMAIN learned \/ Opened(gs, o)
    BY <1>6, <1>10, <1>11, <1>14, <1>16, <1>18, <2>1
  <2>4. \A o \in Extractor!OperandsOf(m, {v}) : o \in DOMAIN cached \/ Opened(fs, o)
    BY <1>1, <1>13, <1>16, <2>1
  <2>5. \A w \in DOMAIN learned : \A o \in Extractor!OperandsOf(m, {w}) : o \in DOMAIN learned \/ Opened(gs, o)
    BY <1>14, <1>18, <2>2, <2>4
  <2> QED
    BY <2>3, <2>5, Zenon DEF ClosedOK
<1>22. ASSUME AcyclicOK(m, fs, roots, cached) PROVE AcyclicOK(m, gs, roots, learned)
  <2>1. \A k \in 1 .. L : Extractor!Acyclic(m, Source(m, fs, roots, k)) =>
           \A o \in Explored(m, fs, roots, k) :
              o \in Due(fs, k) \/ (k > 1 /\ o = fs[k - 1].value) \/ Exactly(m, {o}, fs[k].found)
    BY <1>22 DEF AcyclicOK, L
  <2>2. ASSUME Extractor!Acyclic(m, {v}) PROVE Exactly(m, {v}, fs[1].found)
    <3>1. \A o \in Extractor!OperandsOf(m, {v}) : Exactly(m, {o}, fs[1].found)
      <4>1. Extractor!Acyclic(m, Source(m, fs, roots, 1)) => \A o \in Explored(m, fs, roots, 1) :
               o \in Due(fs, 1) \/ (1 > 1 /\ o = fs[1 - 1].value) \/ Exactly(m, {o}, fs[1].found)
        BY <1>1, <2>1
      <4> QED
        BY <1>13, <2>2, <4>1
    <3>2. {v} \in SUBSET V /\ Extractor!OperandsOf(m, {v}) \in SUBSET V
      BY <1>3, OperandsOfAre
    <3>3. Exactly(m, Extractor!OperandsOf(m, {v}), fs[1].found)
      BY <3>1, <3>2, FunctionsAre
    <3>4. Extractor!Kept(m, v) => v \in fs[1].found
      BY <1>1 DEF SoundOK, L, v
    <3> QED
      BY <3>2, <3>3, <3>4, FunctionsAre
  <2>3. ASSUME NEW k \in 1 .. L - 1, Extractor!Acyclic(m, Source(m, gs, roots, k)), NEW o \in Explored(m, gs, roots, k)
        PROVE  o \in Due(gs, k) \/ (k > 1 /\ o = gs[k - 1].value) \/ Exactly(m, {o}, gs[k].found)
    <3>1. Extractor!Acyclic(m, Source(m, fs, roots, k + 1)) /\ o \in Explored(m, fs, roots, k + 1) /\ (k + 1) - 1 = k
      BY <1>11, <2>3
    <3>2. o \in Due(fs, k + 1) \/ o = fs[k].value \/ Exactly(m, {o}, fs[k + 1].found)
      BY <1>16, <2>1, <3>1
    <3>3. CASE k = 1 /\ o = fs[1].value
      <4>1. o = v
        BY <1>1, <3>3 DEF v
      <4>2. Extractor!Acyclic(m, {v})
        <5>1. Extractor!Acyclic(m, Source(m, fs, roots, 2))
          BY <3>1, <3>3
        <5> QED
          BY <1>1, <1>15, <5>1, ExploredIs DEF L
      <4> QED
        BY <1>12, <2>2, <3>3, <4>1, <4>2 DEF Exactly
    <3>4. CASE k # 1 /\ o = fs[k].value
      <4>1. k - 1 \in 1 .. L - 1 /\ (k - 1) + 1 = k /\ k > 1
        BY <1>1, <3>4
      <4>2. gs[k - 1].value = fs[(k - 1) + 1].value
        BY <1>9, <4>1
      <4> QED
        BY <3>4, <4>1, <4>2
    <3>5. CASE o \in Due(fs, k + 1)
      BY <1>10, <3>5
    <3>6. CASE Exactly(m, {o}, fs[k + 1].found)
      BY <1>9, <3>6 DEF Exactly
    <3> QED
      BY <3>2, <3>3, <3>4, <3>5, <3>6
  <2>4. \A w \in DOMAIN learned : Extractor!Acyclic(m, {w}) => Exactly(m, {w}, learned[w])
    <3>1. \A w \in DOMAIN cached : Extractor!Acyclic(m, {w}) => Exactly(m, {w}, cached[w])
      BY <1>22 DEF AcyclicOK
    <3> QED
      BY <1>18, <2>2, <3>1
  <2>5. \A k \in 1 .. Len(gs) : Extractor!Acyclic(m, Source(m, gs, roots, k)) =>
           \A o \in Explored(m, gs, roots, k) :
              o \in Due(gs, k) \/ (k > 1 /\ o = gs[k - 1].value) \/ Exactly(m, {o}, gs[k].found)
    BY <1>6, <2>3
  <2> QED
    BY <2>4, <2>5, Zenon DEF AcyclicOK
<1>23. ASSUME FirstOK(m, fs, cached) PROVE FirstOK(m, gs, learned)
  <2>1. ASSUME NEW k \in 1 .. L PROVE \E j \in 1 .. Len(gs) : fs[k].found \subseteq gs[j].found
    <3>1. CASE k = 1
      BY <1>1, <1>6, <1>12, <3>1
    <3>2. CASE k # 1
      <4>1. k - 1 \in 1 .. L - 1 /\ (k - 1) + 1 = k
        BY <1>1, <3>2
      <4>2. fs[(k - 1) + 1].found \subseteq gs[k - 1].found
        BY <1>9, <4>1
      <4> QED
        BY <1>6, <4>1, <4>2
    <3> QED
      BY <3>1, <3>2
  <2>2. ASSUME NEW w \in DOMAIN learned, Extractor!Kept(m, w) PROVE \E k \in 1 .. L : w \in fs[k].found
    <3>1. CASE w = v
      <4>1. Extractor!Kept(m, fs[1].value) => fs[1].value \in fs[1].found
        BY <1>1 DEF SoundOK, L
      <4> QED
        BY <1>1, <2>2, <3>1, <4>1 DEF v
    <3>2. CASE w # v
      BY <1>18, <1>23, <2>2, <3>2 DEF FirstOK, L
    <3> QED
      BY <3>1, <3>2
  <2> QED
    BY <2>1, <2>2 DEF FirstOK
<1> QED
  BY <1>3, <1>6, <1>7, <1>19, <1>20, <1>21, <1>22, <1>23 DEF v

(* Before a site is resolved and after it there is no stack.               *)
LEMMA EmptyStack ==
    ASSUME NEW m, NEW roots, NEW cached
    PROVE  /\ SoundOK(m, <<>>, roots, cached) <=> \A v \in DOMAIN cached : cached[v] \subseteq Extractor!FunctionsBehind(m, {v})
           /\ ClosedOK(m, <<>>, roots, cached) <=> \A v \in DOMAIN cached : Extractor!OperandsOf(m, {v}) \subseteq DOMAIN cached
           /\ AcyclicOK(m, <<>>, roots, cached) <=> \A v \in DOMAIN cached : Extractor!Acyclic(m, {v}) => Exactly(m, {v}, cached[v])
           /\ FirstOK(m, <<>>, cached) <=> \A v \in DOMAIN cached : ~Extractor!Kept(m, v)
<1>1. Len(<<>>) = 0 /\ 1 .. 0 = {} /\ 1 .. (0 - 1) = {}
  OBVIOUS
<1>2. \A o : ~Opened(<<>>, o)
  BY <1>1 DEF Opened
<1>3. SoundOK(m, <<>>, roots, cached) <=> \A v \in DOMAIN cached : cached[v] \subseteq Extractor!FunctionsBehind(m, {v})
  BY <1>1 DEF SoundOK
<1>4. ClosedOK(m, <<>>, roots, cached) <=> \A v \in DOMAIN cached : Extractor!OperandsOf(m, {v}) \subseteq DOMAIN cached
  BY <1>1, <1>2 DEF ClosedOK
<1>5. AcyclicOK(m, <<>>, roots, cached) <=> \A v \in DOMAIN cached : Extractor!Acyclic(m, {v}) => Exactly(m, {v}, cached[v])
  BY <1>1 DEF AcyclicOK
<1>6. FirstOK(m, <<>>, cached) <=> \A v \in DOMAIN cached : ~Extractor!Kept(m, v)
  BY <1>1 DEF FirstOK
<1> QED
  BY <1>3, <1>4, <1>5, <1>6

LEMMA QueryOpens ==
    ASSUME NEW m \in Modules, NEW roots \in SUBSET DOMAIN m.value, NEW cached, NEW vs \in Seq(DOMAIN m.value), Extractor!Range(vs) = roots,
           SoundOK(m, <<>>, roots, cached)
    PROVE  /\ Extractor!Query(vs) \in Seq(Frames(m)) /\ Extractor!Query(vs) # <<>>
           /\ StackOK(m, Extractor!Query(vs), roots) /\ SoundOK(m, Extractor!Query(vs), roots, cached)
           /\ ClosedOK(m, <<>>, roots, cached) => ClosedOK(m, Extractor!Query(vs), roots, cached)
           /\ AcyclicOK(m, <<>>, roots, cached) => AcyclicOK(m, Extractor!Query(vs), roots, cached)
           /\ FirstOK(m, <<>>, cached) => FirstOK(m, Extractor!Query(vs), cached)
<1> DEFINE f == [value |-> 0, depth |-> 0, todo |-> Extractor!Costing(vs, 0), found |-> {}]
           fs == Extractor!Query(vs)
<1>1. Extractor!Costing(vs, 0) \in Seq(OperandSet(m))
  BY CostingIs DEF OperandSet
<1>2. f \in Frames(m)
  BY <1>1 DEF Frames
<1>3. fs = <<f>>
  BY DEF Extractor!Query
<1>4. f.value = 0 /\ f.todo = Extractor!Costing(vs, 0) /\ f.found = {}
  OBVIOUS
<1> HIDE DEF f, fs
<1>5. fs \in Seq(Frames(m)) /\ fs # <<>> /\ Len(fs) = 1 /\ fs[1] = f
  BY <1>2, <1>3
<1>6. Due(fs, 1) = roots
  <2>1. DOMAIN Extractor!Costing(vs, 0) = DOMAIN vs /\ \A i \in DOMAIN vs : Extractor!Costing(vs, 0)[i].value = vs[i]
    BY DEF Extractor!Costing
  <2>2. {o.value : o \in Extractor!Range(Extractor!Costing(vs, 0))} = Extractor!Range(vs)
    BY <2>1 DEF Extractor!Range
  <2> QED
    BY <1>4, <1>5, <2>2 DEF Due
<1>7. Source(m, fs, roots, 1) = roots /\ Explored(m, fs, roots, 1) = roots
  BY <1>5 DEF Source, Explored
<1>8. 1 .. Len(fs) = {1} /\ 1 .. Len(fs) - 1 = {}
  BY <1>5
<1>9. StackOK(m, fs, roots)
  BY <1>4, <1>5, <1>6, <1>7, <1>8 DEF StackOK
<1>10. SoundOK(m, fs, roots, cached)
  <2>1. \A v \in DOMAIN cached : cached[v] \subseteq Extractor!FunctionsBehind(m, {v})
    BY EmptyStack
  <2> QED
    BY <1>4, <1>5, <1>8, <2>1 DEF SoundOK
<1>11. ClosedOK(m, <<>>, roots, cached) => ClosedOK(m, fs, roots, cached)
  BY <1>6, <1>7, <1>8, EmptyStack DEF ClosedOK
<1>12. AcyclicOK(m, <<>>, roots, cached) => AcyclicOK(m, fs, roots, cached)
  BY <1>6, <1>7, <1>8, EmptyStack DEF AcyclicOK
<1>13. FirstOK(m, <<>>, cached) => FirstOK(m, fs, cached)
  <2>1. FirstOK(m, <<>>, cached) => \A v \in DOMAIN cached : ~Extractor!Kept(m, v)
    BY EmptyStack
  <2> QED
    BY <2>1 DEF FirstOK
<1> QED
  BY <1>5, <1>9, <1>10, <1>11, <1>12, <1>13 DEF fs

LEMMA QueryEnds ==
    ASSUME NEW m \in Modules, NEW roots \in SUBSET DOMAIN m.value, NEW cached, DOMAIN cached \subseteq DOMAIN m.value,
           NEW fs \in Seq(Frames(m)), Len(fs) = 1, fs[1].todo = <<>>,
           StackOK(m, fs, roots), SoundOK(m, fs, roots, cached), NEW after
    PROVE  /\ fs[1].found \subseteq Extractor!FunctionsBehind(m, roots)
           /\ SoundOK(m, <<>>, after, cached)
           /\ ClosedOK(m, fs, roots, cached) => ClosedOK(m, <<>>, after, cached)
           /\ AcyclicOK(m, fs, roots, cached) => AcyclicOK(m, <<>>, after, cached)
           /\ FirstOK(m, fs, cached) /\ fs[1].found = {} => FirstOK(m, <<>>, cached)
           /\ AcyclicOK(m, fs, roots, cached) /\ Extractor!Acyclic(m, roots) => Exactly(m, roots, fs[1].found)
           /\ ClosedOK(m, fs, roots, cached) /\ FirstOK(m, fs, cached) => Exactly(m, roots, fs[1].found)
<1>1. 1 .. Len(fs) = {1} /\ Source(m, fs, roots, 1) = roots /\ Explored(m, fs, roots, 1) = roots
  BY DEF Source, Explored
<1>2. Due(fs, 1) = {}
  <2>1. Extractor!Range(<<>>) = {}
    BY DEF Extractor!Range
  <2> QED
    BY <2>1 DEF Due
<1>3. \A o \in DOMAIN m.value : ~Opened(fs, o)
  <2>1. fs[1].value = 0
    BY DEF StackOK
  <2> QED
    BY <1>1, <2>1, ModuleIs DEF Opened
<1>4. fs[1].found \subseteq Extractor!FunctionsBehind(m, roots)
  BY <1>1 DEF SoundOK
<1>5. SoundOK(m, <<>>, after, cached)
  BY EmptyStack DEF SoundOK
<1>6. ASSUME ClosedOK(m, fs, roots, cached)
      PROVE  roots \subseteq DOMAIN cached /\ \A v \in DOMAIN cached : Extractor!OperandsOf(m, {v}) \subseteq DOMAIN cached
  <2>1. \A o \in roots : o \in DOMAIN cached \/ Opened(fs, o)
    BY <1>1, <1>2, <1>6 DEF ClosedOK
  <2>2. \A v \in DOMAIN cached : \A o \in Extractor!OperandsOf(m, {v}) : o \in DOMAIN cached \/ Opened(fs, o)
    BY <1>6 DEF ClosedOK
  <2>3. \A v \in DOMAIN cached : Extractor!OperandsOf(m, {v}) \in SUBSET DOMAIN m.value
    <3>1. \A v \in DOMAIN cached : {v} \in SUBSET DOMAIN m.value
      OBVIOUS
    <3> QED
      BY <3>1, OperandsOfAre
  <2> QED
    BY <1>3, <2>1, <2>2, <2>3
<1>7. ClosedOK(m, fs, roots, cached) => ClosedOK(m, <<>>, after, cached)
  BY <1>6, EmptyStack
<1>8. AcyclicOK(m, fs, roots, cached) => AcyclicOK(m, <<>>, after, cached)
  BY EmptyStack DEF AcyclicOK
<1>9. FirstOK(m, fs, cached) => \A v \in DOMAIN cached : Extractor!Kept(m, v) => v \in fs[1].found
  BY <1>1 DEF FirstOK
<1>10. FirstOK(m, fs, cached) /\ fs[1].found = {} => FirstOK(m, <<>>, cached)
  BY <1>9, EmptyStack
<1>11. ASSUME AcyclicOK(m, fs, roots, cached), Extractor!Acyclic(m, roots) PROVE Exactly(m, roots, fs[1].found)
  <2>1. \A o \in roots : Exactly(m, {o}, fs[1].found)
    BY <1>1, <1>2, <1>11 DEF AcyclicOK
  <2> QED
    BY <2>1, FunctionsAre
<1>12. ASSUME ClosedOK(m, fs, roots, cached), FirstOK(m, fs, cached) PROVE Exactly(m, roots, fs[1].found)
  <2>1. Extractor!OperandsOf(m, DOMAIN cached) \subseteq DOMAIN cached
    <3>1. \A o \in Extractor!OperandsOf(m, DOMAIN cached) : \E v \in DOMAIN cached : o \in Extractor!OperandsOf(m, {v})
      BY OperandsOfAre
    <3> QED
      BY <1>6, <1>12, <3>1
  <2>2. Extractor!Behind(m, roots) \subseteq DOMAIN cached
    BY <1>6, <1>12, <2>1, BehindIs
  <2> QED
    BY <1>9, <1>12, <2>2 DEF Exactly, Extractor!FunctionsBehind
<1> QED
  BY <1>4, <1>5, <1>7, <1>8, <1>10, <1>11, <1>12

LEMMA RootsIs ==
    ASSUME Resolving, job = "resolve", site <= Len(Extractor!IndirectCalls(ir))
    PROVE  /\ ir \in Modules /\ site \in 1 .. Len(Extractor!IndirectCalls(ir))
           /\ Roots(ir, site, pass) \in SUBSET DOMAIN ir.value
<1>1. ir \in Modules /\ site \in 1 .. Len(Extractor!IndirectCalls(ir)) + 1
  BY DEF Resolving, TypesOK
<1>2. Len(Extractor!IndirectCalls(ir)) \in Nat
  BY <1>1, SitesAre
<1>3. site \in 1 .. Len(Extractor!IndirectCalls(ir))
  BY <1>1, <1>2
<1> QED
  BY <1>1, <1>3, AskedIs

LEMMA RunResolving == ASSUME Unbegun, job = "idle", NEW m \in Modules, Extractor!Run(m) PROVE Resolving'
<1>1. site' = 1 /\ pass' = "called" /\ frames' = <<>> /\ memo' = <<>> /\ cutoff' = FALSE /\ ir' = m
  BY DEF Unbegun, Extractor!Run
<1>2. targets_of' = [i \in 1 .. Len(Extractor!IndirectCalls(m)) |-> {}]
  BY DEF Extractor!Run
<1>3. Len(Extractor!IndirectCalls(m)) \in Nat
  BY SitesAre
<1>4. DOMAIN <<>> = {}
  OBVIOUS
<1>5. TypesOK'
  <2>1. frames' \in Seq(Frames(m)) /\ frames' = <<>>
    BY <1>1
  <2>2. memo' \in [DOMAIN memo' -> SUBSET DOMAIN m.value] /\ DOMAIN memo' \subseteq DOMAIN m.value
    BY <1>1, <1>4
  <2>3. site' \in 1 .. Len(Extractor!IndirectCalls(m)) + 1
    BY <1>1, <1>3
  <2>4. targets_of' \in [1 .. Len(Extractor!IndirectCalls(m)) -> SUBSET DOMAIN m.value]
    BY <1>2
  <2> QED
    BY <1>1, <2>1, <2>2, <2>3, <2>4 DEF TypesOK
<1>6. Ongoing'
  BY <1>1, <1>4, EmptyStack DEF Ongoing
<1>7. Recorded'
  <2>1. \A s \in 1 .. 1 - 1 : FALSE
    OBVIOUS
  <2>2. \A s \in 1 .. Len(Extractor!IndirectCalls(m)) : targets_of'[s] = {}
    BY <1>2
  <2> QED
    BY <1>1, <2>1, <2>2 DEF Recorded
<1> QED
  BY <1>5, <1>6, <1>7 DEF Resolving

LEMMA SiteResolving == ASSUME Resolving, Extractor!ResolveSite PROVE Resolving'
<1>1. TypesOK /\ Ongoing /\ Recorded /\ job = "resolve" /\ frames = <<>> /\ site <= Len(Extractor!IndirectCalls(ir))
  BY DEF Resolving, Extractor!ResolveSite
<1>2. /\ job' = job /\ ir' = ir /\ site' = site /\ pass' = pass /\ memo' = memo /\ cutoff' = cutoff
      /\ targets_of' = targets_of
  BY DEF Extractor!ResolveSite
<1> DEFINE c == Extractor!IndirectCalls(ir)[site]
           vs == IF pass = "called" THEN <<c.callee>> ELSE c.args \o <<c.callee>>
           roots == Roots(ir, site, pass)
<1>3. ir \in Modules /\ site \in 1 .. Len(Extractor!IndirectCalls(ir)) /\ roots \in SUBSET DOMAIN ir.value
  BY <1>1, RootsIs
<1>4. frames' = Extractor!Query(vs)
  BY DEF Extractor!ResolveSite
<1>5. c.callee \in DOMAIN ir.value /\ c.args \in Seq(DOMAIN ir.value)
  BY <1>3, AskedIs
<1>6. vs \in Seq(DOMAIN ir.value) /\ Extractor!Range(vs) = roots
  <2>1. <<c.callee>> \in Seq(DOMAIN ir.value) /\ Extractor!Range(<<c.callee>>) = {c.callee}
    <3>1. ASSUME NEW x PROVE Extractor!Range(<<x>>) = {x}
      <4>1. DOMAIN <<x>> = {1} /\ <<x>>[1] = x
        OBVIOUS
      <4> QED
        BY <4>1 DEF Extractor!Range
    <3>2. ASSUME NEW S, NEW x \in S PROVE <<x>> \in Seq(S)
      OBVIOUS
    <3> QED
      BY <1>5, <3>1, <3>2, Zenon
  <2>2. c.args \o <<c.callee>> \in Seq(DOMAIN ir.value) /\ Extractor!Range(c.args \o <<c.callee>>) = {c.callee} \cup Extractor!Range(c.args)
    <3> DEFINE S == DOMAIN ir.value
               a == c.args
               x == c.callee
    <3>1. a \in Seq(S) /\ x \in S
      BY <1>5
    <3> HIDE DEF a, x, S
    <3>2. a \o <<x>> \in Seq(S) /\ Len(a \o <<x>>) = Len(a) + 1 /\ (a \o <<x>>)[Len(a) + 1] = x
          /\ Len(a) \in Nat /\ \A i \in 1 .. Len(a) : (a \o <<x>>)[i] = a[i]
      BY <3>1
    <3>3. DOMAIN a = 1 .. Len(a) /\ DOMAIN (a \o <<x>>) = 1 .. Len(a) + 1
      BY <3>1, <3>2
    <3>4. \A i \in 1 .. Len(a) + 1 : i = Len(a) + 1 \/ i \in 1 .. Len(a)
      BY <3>2
    <3>5. \A i \in 1 .. Len(a) : i \in 1 .. Len(a) + 1
      BY <3>2
    <3>6. Len(a) + 1 \in 1 .. Len(a) + 1
      BY <3>2
    <3>7. Extractor!Range(a \o <<x>>) = {x} \cup Extractor!Range(a)
      BY <3>2, <3>3, <3>4, <3>5, <3>6 DEF Extractor!Range
    <3> QED
      BY <3>2, <3>7 DEF S, a, x
  <2> QED
    BY <2>1, <2>2 DEF Roots, Extractor!Called, Extractor!Asked
<1> HIDE DEF vs, roots
<1>7. SoundOK(ir, <<>>, roots, memo) /\ (~cutoff => ClosedOK(ir, <<>>, roots, memo) /\ AcyclicOK(ir, <<>>, roots, memo))
      /\ (~cutoff /\ site = 1 => FirstOK(ir, <<>>, memo))
  BY <1>1 DEF Ongoing, roots
<1>8. /\ Extractor!Query(vs) \in Seq(Frames(ir)) /\ Extractor!Query(vs) # <<>>
      /\ StackOK(ir, Extractor!Query(vs), roots) /\ SoundOK(ir, Extractor!Query(vs), roots, memo)
      /\ ClosedOK(ir, <<>>, roots, memo) => ClosedOK(ir, Extractor!Query(vs), roots, memo)
      /\ AcyclicOK(ir, <<>>, roots, memo) => AcyclicOK(ir, Extractor!Query(vs), roots, memo)
      /\ FirstOK(ir, <<>>, memo) => FirstOK(ir, Extractor!Query(vs), memo)
  BY <1>3, <1>6, <1>7, QueryOpens
<1>9. TypesOK'
  BY <1>1, <1>2, <1>4, <1>8 DEF TypesOK
<1>10. Ongoing'
  BY <1>2, <1>4, <1>7, <1>8 DEF Ongoing, roots
<1>11. Recorded'
  BY <1>1, <1>2 DEF Recorded
<1> QED
  BY <1>9, <1>10, <1>11 DEF Resolving

LEMMA SkipResolving == ASSUME Resolving, job = "resolve", Extractor!SkipValue PROVE Resolving'
<1>1. TypesOK /\ Ongoing /\ Recorded /\ frames # <<>> /\ Head(frames).todo # <<>>
  BY DEF Resolving, Extractor!SkipValue, Extractor!Inner
<1>2. /\ job' = job /\ ir' = ir /\ site' = site /\ pass' = pass /\ memo' = memo /\ cutoff' = (cutoff \/ Extractor!Depth > 8)
      /\ targets_of' = targets_of
  BY DEF Extractor!SkipValue
<1> DEFINE v == Head(Head(frames).todo).value
           more == IF Extractor!Depth <= 8 /\ v \in DOMAIN memo THEN memo[v] ELSE {}
           roots == Roots(ir, site, pass)
           gs == <<[Head(frames) EXCEPT !.todo = Tail(@), !.found = @ \cup more]>> \o Tail(frames)
<1>3. frames' = gs
  BY DEF Extractor!SkipValue, Extractor!Inner, Extractor!Cause, Extractor!Gather
<1>4. ir \in Modules /\ roots \in SUBSET DOMAIN ir.value
  <2>1. site <= Len(Extractor!IndirectCalls(ir))
    BY <1>1 DEF TypesOK
  <2> QED
    BY <2>1, RootsIs
<1>5. /\ StackOK(ir, frames, roots) /\ SoundOK(ir, frames, roots, memo)
      /\ ~cutoff => ClosedOK(ir, frames, roots, memo) /\ AcyclicOK(ir, frames, roots, memo)
      /\ ~cutoff /\ site = 1 => FirstOK(ir, frames, memo)
  BY <1>1 DEF Ongoing
<1>6. /\ frames \in Seq(Frames(ir)) /\ memo \in [DOMAIN memo -> SUBSET DOMAIN ir.value] /\ DOMAIN memo \subseteq DOMAIN ir.value
      /\ cutoff \in BOOLEAN
  BY <1>1 DEF TypesOK
<1>7. Extractor!Depth \in Nat
  <2>1. Head(frames) \in Frames(ir)
    BY <1>1, <1>6
  <2>2. Head(frames).depth \in Nat /\ Head(Head(frames).todo) \in OperandSet(ir)
    BY <1>1, <1>4, <2>1, FrameIs, ToDo
  <2> QED
    BY <2>2 DEF Extractor!Depth, Extractor!Inner, Extractor!Cause, OperandSet
<1>8. Extractor!Depth > 8 \/ v \in DOMAIN memo \/ Opened(frames, v)
  <2>1. Extractor!Depth > 8 \/ v \in DOMAIN memo \/ Extractor!OnFrames(v)
    BY DEF Extractor!SkipValue, Extractor!Cause, Extractor!Inner
  <2>2. DOMAIN frames = 1 .. Len(frames)
    BY <1>6
  <2> QED
    BY <2>1, <2>2 DEF Extractor!OnFrames, Opened
<1>9. more = {} \/ (v \in DOMAIN memo /\ more = memo[v])
  OBVIOUS
<1>10. ~cutoff' => ~cutoff /\ (v \in DOMAIN memo => more = memo[v]) /\ (v \in DOMAIN memo \/ Opened(frames, v))
  <2>1. ~(Extractor!Depth > 8) => Extractor!Depth <= 8
    BY <1>7
  <2>2. ASSUME ~cutoff' PROVE ~cutoff /\ ~(Extractor!Depth > 8)
    BY <1>2, <2>2
  <2>3. Extractor!Depth <= 8 /\ v \in DOMAIN memo => more = memo[v]
    OBVIOUS
  <2> HIDE DEF more, v
  <2> QED
    BY <1>8, <2>1, <2>2, <2>3, Zenon
<1> HIDE DEF more
<1>11. /\ gs \in Seq(Frames(ir)) /\ gs # <<>>
       /\ StackOK(ir, gs, roots) /\ SoundOK(ir, gs, roots, memo)
       /\ (v \in DOMAIN memo => more = memo[v]) /\ (v \in DOMAIN memo \/ Opened(frames, v)) =>
             /\ ClosedOK(ir, frames, roots, memo) => ClosedOK(ir, gs, roots, memo)
             /\ AcyclicOK(ir, frames, roots, memo) => AcyclicOK(ir, gs, roots, memo)
       /\ FirstOK(ir, frames, memo) => FirstOK(ir, gs, memo)
  <2>1. more \in SUBSET DOMAIN ir.value
    BY <1>6, <1>9
  <2>2. SkipShape(ir, frames, gs, v, more)
    BY <1>1, <1>4, <1>6, <2>1, Skip, Zenon
  <2> HIDE DEF roots, gs, v
  <2> QED
    BY <1>4, <1>5, <1>9, <2>2, SkipKeeps
<1> HIDE DEF gs, v
<1>12. TypesOK'
  <2>1. cutoff' \in BOOLEAN
    BY <1>2, <1>6
  <2> QED
    BY <1>1, <1>2, <1>3, <1>11, <2>1 DEF TypesOK
<1>13. Ongoing'
  BY <1>2, <1>3, <1>5, <1>10, <1>11 DEF Ongoing
<1>14. Recorded'
  BY <1>1, <1>2, <1>10 DEF Recorded, SiteOK, Strict
<1> QED
  BY <1>12, <1>13, <1>14 DEF Resolving

LEMMA ValueResolving == ASSUME Resolving, job = "resolve", Extractor!ResolveValue PROVE Resolving'
<1>1. TypesOK /\ Ongoing /\ Recorded /\ frames # <<>> /\ Head(frames).todo # <<>>
  BY DEF Resolving, Extractor!ResolveValue, Extractor!Inner
<1>2. /\ job' = job /\ ir' = ir /\ site' = site /\ pass' = pass /\ memo' = memo /\ cutoff' = cutoff
      /\ targets_of' = targets_of
  BY DEF Extractor!ResolveValue
<1> DEFINE v == Head(Head(frames).todo).value
           roots == Roots(ir, site, pass)
           gs == <<[value |-> v, depth |-> Extractor!Depth, todo |-> Extractor!Operands(ir, v), found |-> {x \in {v} : Extractor!Kept(ir, x)}],
                   [Head(frames) EXCEPT !.todo = Tail(@)]>> \o Tail(frames)
<1>3. frames' = gs
  BY DEF Extractor!ResolveValue, Extractor!Inner, Extractor!Cause
<1>4. ir \in Modules /\ roots \in SUBSET DOMAIN ir.value
  <2>1. site <= Len(Extractor!IndirectCalls(ir))
    BY <1>1 DEF TypesOK
  <2> QED
    BY <2>1, RootsIs
<1>5. /\ StackOK(ir, frames, roots) /\ SoundOK(ir, frames, roots, memo)
      /\ ~cutoff => ClosedOK(ir, frames, roots, memo) /\ AcyclicOK(ir, frames, roots, memo)
      /\ ~cutoff /\ site = 1 => FirstOK(ir, frames, memo)
  BY <1>1 DEF Ongoing
<1>6. frames \in Seq(Frames(ir))
  BY <1>1 DEF TypesOK
<1>7. Extractor!Depth \in Nat
  <2>1. Head(frames) \in Frames(ir)
    BY <1>1, <1>6
  <2>2. Head(frames).depth \in Nat /\ Head(Head(frames).todo) \in OperandSet(ir)
    BY <1>1, <1>4, <2>1, FrameIs, ToDo
  <2> QED
    BY <2>2 DEF Extractor!Depth, Extractor!Inner, Extractor!Cause, OperandSet
<1>8. PushShape(ir, frames, gs, v)
  BY <1>1, <1>4, <1>6, <1>7, Descend, Zenon
<1> HIDE DEF gs, v
<1>9. /\ gs \in Seq(Frames(ir)) /\ gs # <<>>
      /\ StackOK(ir, gs, roots) /\ SoundOK(ir, gs, roots, memo)
      /\ ClosedOK(ir, frames, roots, memo) => ClosedOK(ir, gs, roots, memo)
      /\ AcyclicOK(ir, frames, roots, memo) => AcyclicOK(ir, gs, roots, memo)
      /\ FirstOK(ir, frames, memo) => FirstOK(ir, gs, memo)
  <2> HIDE DEF roots
  <2> QED
    BY <1>4, <1>5, <1>8, PushKeeps
<1>10. TypesOK'
  BY <1>1, <1>2, <1>3, <1>9 DEF TypesOK
<1>11. Ongoing'
  BY <1>2, <1>3, <1>5, <1>9 DEF Ongoing
<1>12. Recorded'
  BY <1>1, <1>2 DEF Recorded
<1> QED
  BY <1>10, <1>11, <1>12 DEF Resolving

LEMMA ReturnResolving == ASSUME Resolving, job = "resolve", Extractor!ReturnValue PROVE Resolving'
<1>1. TypesOK /\ Ongoing /\ Recorded /\ Len(frames) > 1 /\ Head(frames).todo = <<>>
  BY DEF Resolving, Extractor!ReturnValue, Extractor!Inner
<1>2. /\ job' = job /\ ir' = ir /\ site' = site /\ pass' = pass /\ cutoff' = cutoff
      /\ targets_of' = targets_of
  BY DEF Extractor!ReturnValue
<1>3. frames \in Seq(Frames(ir)) /\ memo \in [DOMAIN memo -> SUBSET DOMAIN ir.value] /\ DOMAIN memo \subseteq DOMAIN ir.value
  BY <1>1 DEF TypesOK
<1>4. Head(frames) = frames[1] /\ frames # <<>> /\ frames[1] \in Frames(ir)
  BY <1>1, <1>3
<1> DEFINE v == frames[1].value
           some == frames[1].found
           roots == Roots(ir, site, pass)
           gs == <<[Head(Tail(frames)) EXCEPT !.found = @ \cup Head(frames).found]>> \o Tail(Tail(frames))
<1>5. frames' = gs
  BY DEF Extractor!ReturnValue, Extractor!Inner, Extractor!Gather
<1>6. memo' = [w \in DOMAIN memo \cup {v} |-> IF w = v THEN some ELSE memo[w]]
  BY <1>4 DEF Extractor!ReturnValue, Extractor!Inner
<1>7. ir \in Modules /\ roots \in SUBSET DOMAIN ir.value
  <2>1. site <= Len(Extractor!IndirectCalls(ir))
    BY <1>1, <1>4 DEF TypesOK
  <2> QED
    BY <2>1, RootsIs
<1>8. /\ StackOK(ir, frames, roots) /\ SoundOK(ir, frames, roots, memo)
      /\ ~cutoff => ClosedOK(ir, frames, roots, memo) /\ AcyclicOK(ir, frames, roots, memo)
      /\ ~cutoff /\ site = 1 => FirstOK(ir, frames, memo)
  BY <1>1, <1>4 DEF Ongoing
<1>9. ReturnShape(ir, frames, gs)
  BY <1>1, <1>3, <1>7, Return, Zenon
<1>10. Learned(memo, memo', v, some)
  <2> HIDE DEF v, some
  <2>1. DOMAIN memo' = DOMAIN memo \cup {v}
    BY <1>6
  <2>2. memo'[v] = some
    BY <1>6
  <2>3. \A w \in DOMAIN memo : w # v => memo'[w] = memo[w]
    BY <1>6
  <2> QED
    BY <2>1, <2>2, <2>3, Zenon DEF Learned
<1> HIDE DEF gs
<1>11. /\ gs \in Seq(Frames(ir)) /\ gs # <<>> /\ v \in DOMAIN ir.value
       /\ StackOK(ir, gs, roots) /\ SoundOK(ir, gs, roots, memo')
       /\ ClosedOK(ir, frames, roots, memo) => ClosedOK(ir, gs, roots, memo')
       /\ AcyclicOK(ir, frames, roots, memo) => AcyclicOK(ir, gs, roots, memo')
       /\ FirstOK(ir, frames, memo) => FirstOK(ir, gs, memo')
  <2> HIDE DEF roots
  <2> QED
    BY <1>7, <1>8, <1>9, <1>10, ReturnKeeps
<1>12. memo' \in [DOMAIN memo' -> SUBSET DOMAIN ir.value] /\ DOMAIN memo' \subseteq DOMAIN ir.value
  <2> DEFINE V == DOMAIN ir.value
  <2>1. some \in SUBSET V
    BY <1>4, <1>7, FrameIs
  <2>2. v \in V /\ DOMAIN memo \subseteq V /\ \A w \in DOMAIN memo : memo[w] \in SUBSET V
    BY <1>3, <1>11
  <2> HIDE DEF V, v, some
  <2>3. memo' = [w \in DOMAIN memo \cup {v} |-> IF w = v THEN some ELSE memo[w]]
    BY <1>6
  <2>4. \A w \in DOMAIN memo \cup {v} : (IF w = v THEN some ELSE memo[w]) \in SUBSET V
    BY <2>1, <2>2
  <2>5. memo' \in [DOMAIN memo \cup {v} -> SUBSET V] /\ DOMAIN memo' = DOMAIN memo \cup {v}
    BY <2>3, <2>4
  <2> QED
    BY <2>2, <2>5 DEF V
<1>13. TypesOK'
  BY <1>1, <1>2, <1>4, <1>5, <1>11, <1>12 DEF TypesOK
<1>14. Ongoing'
  BY <1>2, <1>5, <1>8, <1>11 DEF Ongoing
<1>15. Recorded'
  BY <1>1, <1>2 DEF Recorded
<1> QED
  BY <1>13, <1>14, <1>15 DEF Resolving

(* The functions that a query found, when its call is recorded.            *)
LEMMA ResolvedResolving == ASSUME Resolving, job = "resolve", Extractor!Resolved PROVE Resolving'
<1>1. TypesOK /\ Ongoing /\ Recorded /\ Len(frames) = 1 /\ Head(frames).todo = <<>>
  BY DEF Resolving, Extractor!Resolved, Extractor!Inner
<1>2. job' = job /\ ir' = ir /\ frames' = <<>> /\ memo' = memo /\ cutoff' = cutoff
  BY DEF Extractor!Resolved
<1>3. /\ frames \in Seq(Frames(ir)) /\ DOMAIN memo \subseteq DOMAIN ir.value /\ memo \in [DOMAIN memo -> SUBSET DOMAIN ir.value]
      /\ pass \in {"called", "operands"} /\ cutoff \in BOOLEAN
      /\ targets_of \in [1 .. Len(Extractor!IndirectCalls(ir)) -> SUBSET DOMAIN ir.value]
  BY <1>1 DEF TypesOK
<1>4. Head(frames) = frames[1] /\ frames # <<>> /\ frames[1] \in Frames(ir) /\ frames[1].todo = <<>>
  <2>1. frames # <<>>
    <3>1. Len(frames) = 1
      BY <1>1
    <3>2. Len(<<>>) = 0
      OBVIOUS
    <3> QED
      BY <3>1, <3>2
  <2>2. Head(frames) = frames[1] /\ frames[1] \in Frames(ir)
    BY <1>3, <2>1
  <2> QED
    BY <1>1, <2>1, <2>2, Zenon
<1> DEFINE m == ir
           n == Len(Extractor!IndirectCalls(m))
           roots == Roots(m, site, pass)
           some == frames[1].found
           exact == Strict(m, site, cutoff)
<1>5. m \in Modules /\ site \in 1 .. n /\ roots \in SUBSET DOMAIN m.value /\ n \in Nat
  <2>1. site <= Len(Extractor!IndirectCalls(ir))
    BY <1>1, <1>4 DEF TypesOK
  <2> QED
    BY <1>1, <2>1, RootsIs, SitesAre
<1>6. /\ Extractor!Called(m, site) \in SUBSET Extractor!Asked(m, site) /\ Extractor!Asked(m, site) \in SUBSET DOMAIN m.value /\ roots \in SUBSET Extractor!Asked(m, site)
  BY <1>5, AskedIs
<1>7. /\ StackOK(m, frames, roots) /\ SoundOK(m, frames, roots, memo)
      /\ ~cutoff => ClosedOK(m, frames, roots, memo) /\ AcyclicOK(m, frames, roots, memo)
      /\ ~cutoff /\ site = 1 => FirstOK(m, frames, memo)
  BY <1>1, <1>4 DEF Ongoing
<1>8. \A after :
         /\ some \subseteq Extractor!FunctionsBehind(m, roots)
         /\ SoundOK(m, <<>>, after, memo)
         /\ ClosedOK(m, frames, roots, memo) => ClosedOK(m, <<>>, after, memo)
         /\ AcyclicOK(m, frames, roots, memo) => AcyclicOK(m, <<>>, after, memo)
         /\ FirstOK(m, frames, memo) /\ some = {} => FirstOK(m, <<>>, memo)
         /\ AcyclicOK(m, frames, roots, memo) /\ Extractor!Acyclic(m, roots) => Exactly(m, roots, some)
         /\ ClosedOK(m, frames, roots, memo) /\ FirstOK(m, frames, memo) => Exactly(m, roots, some)
  <2> HIDE DEF roots
  <2> QED
    BY <1>1, <1>3, <1>4, <1>5, <1>7, QueryEnds
<1>9. some \subseteq Extractor!FunctionsBehind(m, Extractor!Asked(m, site)) /\ some \in SUBSET DOMAIN m.value
  <2>1. Extractor!Asked(m, site) \subseteq Extractor!Behind(m, Extractor!Asked(m, site))
    BY <1>5, <1>6, BehindIs
  <2>2. Extractor!FunctionsBehind(m, roots) \subseteq Extractor!FunctionsBehind(m, Extractor!Asked(m, site)) /\ Extractor!FunctionsBehind(m, roots) \subseteq DOMAIN m.value
    BY <1>5, <1>6, <2>1, FunctionsAre
  <2> QED
    BY <1>8, <2>2
<1>10. exact => some = Extractor!FunctionsBehind(m, roots)
  <2>1. exact => ~cutoff /\ (site = 1 \/ Extractor!Acyclic(m, Extractor!Asked(m, site)))
    BY DEF Strict
  <2>2. Extractor!Acyclic(m, Extractor!Asked(m, site)) => Extractor!Acyclic(m, roots)
    <3>1. roots \subseteq Extractor!Behind(m, Extractor!Asked(m, site))
      BY <1>5, <1>6, BehindIs
    <3> QED
      BY <1>5, <1>6, <3>1, AcyclicIs
  <2> QED
    BY <1>7, <1>8, <2>1, <2>2 DEF Exactly
<1>11. pass = "operands" /\ exact => Extractor!FunctionsBehind(m, Extractor!Called(m, site)) = {}
  BY <1>1 DEF Recorded
<1>12. /\ \A s \in 1 .. site - 1 : SiteOK(m, s, cutoff, targets_of[s])
       /\ \A s \in site .. n : targets_of[s] = {}
  BY <1>1 DEF Recorded
<1>13. targets_of' = [targets_of EXCEPT ![site] = @ \cup some]
  BY <1>4 DEF Extractor!Resolved, Extractor!RecordResolvedTargets, Extractor!Inner
<1>14. /\ targets_of' \in [1 .. n -> SUBSET DOMAIN m.value] /\ targets_of'[site] = some
       /\ \A s \in 1 .. n : s # site => targets_of'[s] = targets_of[s]
  <2>1. site \in site .. n
    BY <1>5
  <2>2. targets_of[site] = {}
    BY <1>12, <2>1
  <2> DEFINE S == SUBSET DOMAIN m.value
  <2>3. some \in S /\ targets_of \in [1 .. n -> S]
    BY <1>3, <1>9
  <2> HIDE DEF some, n, S
  <2>4. targets_of' = [targets_of EXCEPT ![site] = some]
    BY <1>13, <2>2
  <2> QED
    BY <1>5, <2>3, <2>4 DEF S
<1>15. FirstOK(m, <<>>, memo) \/ some # {} \/ site # 1 \/ cutoff
  BY <1>7, <1>8
<1>16. /\ SoundOK(ir, <<>>, Roots(ir, site', pass'), memo)
       /\ ~cutoff => ClosedOK(ir, <<>>, Roots(ir, site', pass'), memo) /\ AcyclicOK(ir, <<>>, Roots(ir, site', pass'), memo)
  BY <1>7, <1>8
<1> HIDE DEF exact, some, roots
<1>17. CASE pass = "called" /\ some = {}
  <2>1. pass' = "operands" /\ site' = site
    BY <1>4, <1>17 DEF Extractor!Resolved, Extractor!Inner, some
  <2>2. TypesOK'
    <3>1. <<>> \in Seq(Frames(ir))
      OBVIOUS
    <3> QED
      BY <1>1, <1>2, <1>5, <1>14, <2>1, <3>1 DEF TypesOK
  <2>3. Ongoing'
    BY <1>2, <1>15, <1>16, <1>17, <2>1 DEF Ongoing
  <2>4. \A s \in 1 .. site - 1 : s \in 1 .. n /\ s # site
    BY <1>5
  <2>5. \A s \in site .. n : targets_of'[s] = {}
    <3>1. \A s \in site .. n : s \in 1 .. n
      BY <1>5
    <3> QED
      BY <1>12, <1>14, <1>17, <3>1
  <2>6. exact => Extractor!FunctionsBehind(m, Extractor!Called(m, site)) = {}
    BY <1>10, <1>17 DEF roots, Roots
  <2>7. Recorded'
    BY <1>2, <1>12, <1>14, <2>1, <2>4, <2>5, <2>6 DEF Recorded, exact
  <2> QED
    BY <2>2, <2>3, <2>7 DEF Resolving
<1>18. CASE ~(pass = "called" /\ some = {})
  <2>1. pass' = "called" /\ site' = site + 1
    BY <1>4, <1>18 DEF Extractor!Resolved, Extractor!Inner, some
  <2>2. TypesOK'
    <3>1. <<>> \in Seq(Frames(ir))
      OBVIOUS
    <3>2. site + 1 \in 1 .. n + 1
      BY <1>5
    <3> QED
      BY <1>1, <1>2, <1>5, <1>14, <2>1, <3>1, <3>2 DEF TypesOK
  <2>3. Ongoing'
    <3>1. site' # 1
      BY <1>5, <2>1
    <3> QED
      BY <1>2, <1>16, <3>1 DEF Ongoing
  <2>4. SiteOK(m, site, cutoff, targets_of'[site])
    <3>1. ASSUME exact PROVE some = Extractor!Sought(m, site)
      <4>1. some = Extractor!FunctionsBehind(m, roots)
        BY <1>10, <3>1
      <4>2. CASE pass = "called"
        BY <1>18, <4>1, <4>2 DEF Extractor!Sought, roots, Roots
      <4>3. CASE pass = "operands"
        BY <1>11, <3>1, <4>1, <4>3 DEF Extractor!Sought, roots, Roots
      <4> QED
        BY <1>3, <4>2, <4>3
    <3> QED
      BY <1>9, <1>14, <3>1 DEF SiteOK, exact
  <2>5. ASSUME NEW s \in 1 .. site' - 1 PROVE SiteOK(m, s, cutoff, targets_of'[s])
    <3>1. s = site \/ (s \in 1 .. site - 1 /\ s \in 1 .. n /\ s # site)
      <4> HIDE DEF n
      <4>1. s \in 1 .. site
        BY <1>5, <2>1
      <4>2. site \in 1 .. n /\ n \in Nat
        BY <1>5
      <4>3. \A k \in Nat : \A j \in 1 .. k : \A i \in 1 .. j : i = j \/ (i \in 1 .. j - 1 /\ i \in 1 .. k /\ i # j)
        <5>1. ASSUME NEW k \in Nat, NEW j \in 1 .. k, NEW i \in 1 .. j
              PROVE  i = j \/ (i \in 1 .. j - 1 /\ i \in 1 .. k /\ i # j)
          <6>1. i \in Int /\ j \in Int /\ 1 <= i /\ i <= j /\ j <= k
            OBVIOUS
          <6>2. CASE i # j
            <7>1. i <= j - 1 /\ i <= k
              BY <6>1, <6>2
            <7> QED
              BY <6>1, <6>2, <7>1
          <6> QED
            BY <6>2
        <5> QED
          BY <5>1
      <4> QED
        BY <4>1, <4>2, <4>3
    <3> QED
      BY <1>12, <1>14, <2>4, <3>1
  <2>6. \A s \in site' .. n : targets_of'[s] = {}
    <3>1. \A s \in site' .. n : s \in site .. n /\ s \in 1 .. n /\ s # site
      BY <1>5, <2>1
    <3> QED
      BY <1>12, <1>14, <3>1
  <2>7. Recorded'
    BY <1>2, <2>1, <2>5, <2>6 DEF Recorded
  <2> QED
    BY <2>2, <2>3, <2>7 DEF Resolving
<1> QED
  BY <1>17, <1>18

(* The references of a function, and what is written.                      *)
LEMMA RunRefers == ASSUME NEW m \in Modules, Extractor!Run(m) PROVE Referred'
<1>1. ir' = m /\ ranges' = Extractor!InferBasicBlockLines(m) /\ refs' = [f \in DOMAIN m.declared |-> {}]
      /\ targets_of' = [i \in 1 .. Len(Extractor!IndirectCalls(m)) |-> {}]
  BY DEF Extractor!Run
<1>2. \A f : RefsOf(f)' = {}
  <2>1. \A i \in DOMAIN targets_of' : targets_of'[i] = {}
    BY <1>1
  <2> QED
    BY <2>1 DEF RefsOf
<1> QED
  BY <1>1, <1>2 DEF Referred

LEMMA ResolvedRefers == ASSUME Referred, Resolving, job = "resolve", Extractor!Resolved PROVE Referred'
<1>1. /\ job' = job /\ ir' = ir /\ ranges' = ranges /\ ir \in Modules /\ ranges = Extractor!InferBasicBlockLines(ir)
      /\ DOMAIN refs = DOMAIN ir.declared /\ \A f \in DOMAIN refs : refs[f] = RefsOf(f)
  BY DEF Referred, Extractor!Resolved
<1> DEFINE some == Head(frames).found
           c == Extractor!IndirectCalls(ir)[site].caller
<1>2. /\ targets_of' = [targets_of EXCEPT ![site] = @ \cup some]
      /\ refs' = [refs EXCEPT ![c] = @ \cup some]
  BY DEF Extractor!Resolved, Extractor!RecordResolvedTargets, Extractor!Inner
<1>3. site \in DOMAIN targets_of
  <2>1. frames # <<>>
    <3>1. Len(frames) = 1
      BY DEF Extractor!Resolved
    <3>2. Len(<<>>) = 0
      OBVIOUS
    <3> QED
      BY <3>1, <3>2
  <2>2. site \in 1 .. Len(Extractor!IndirectCalls(ir)) /\ targets_of \in [1 .. Len(Extractor!IndirectCalls(ir)) -> SUBSET DOMAIN ir.value]
    BY <2>1, RootsIs DEF Resolving, TypesOK
  <2> QED
    BY <2>2
<1> HIDE DEF some
<1>4. DOMAIN targets_of' = DOMAIN targets_of /\ DOMAIN refs' = DOMAIN refs
  BY <1>2
<1>5. targets_of'[site] = targets_of[site] \cup some /\ \A s \in DOMAIN targets_of : s # site => targets_of'[s] = targets_of[s]
  BY <1>2, <1>3
<1>6. ASSUME NEW f \in DOMAIN refs PROVE refs'[f] = RefsOf(f)'
  <2> DEFINE Of == {t \in DOMAIN targets_of : Extractor!IndirectCalls(ir)[t].caller = f}
  <2>1. RefsOf(f)' = UNION {targets_of'[s] : s \in Of} /\ RefsOf(f) = UNION {targets_of[s] : s \in Of}
    BY <1>1, <1>4 DEF RefsOf
  <2>2. CASE f = c
    <3>1. site \in Of
      BY <1>3, <2>2
    <3>2. refs'[f] = refs[f] \cup some
      BY <1>2, <2>2
    <3>3. UNION {targets_of'[s] : s \in Of} = some \cup UNION {targets_of[s] : s \in Of}
      BY <1>5, <3>1
    <3> QED
      BY <1>1, <2>1, <3>2, <3>3
  <2>3. CASE f # c
    <3>1. site \notin Of
      BY <2>3
    <3>2. refs'[f] = refs[f]
      BY <1>2, <2>3
    <3>3. {targets_of'[s] : s \in Of} = {targets_of[s] : s \in Of}
      BY <1>5, <3>1
    <3> QED
      BY <1>1, <2>1, <3>2, <3>3
  <2> QED
    BY <2>2, <2>3
<1> QED
  BY <1>1, <1>4, <1>6 DEF Referred

LEMMA InUnion == ASSUME NEW G, NEW A, NEW x PROVE x \in UNION {A[s] : s \in G} <=> \E s \in G : x \in A[s]
  OBVIOUS

LEMMA UnionOfBoth ==
    ASSUME NEW G, NEW A, NEW B, NEW C, \A s \in G : C[s] = A[s] \cup B[s]
    PROVE  UNION {C[s] : s \in G} = (UNION {A[s] : s \in G}) \cup (UNION {B[s] : s \in G})
<1> DEFINE U == UNION {A[s] : s \in G}
           W == UNION {B[s] : s \in G}
           X == UNION {C[s] : s \in G}
<1>1. \A x : (x \in X <=> \E s \in G : x \in C[s]) /\ (x \in U <=> \E s \in G : x \in A[s]) /\ (x \in W <=> \E s \in G : x \in B[s])
  BY InUnion, Zenon
<1> SUFFICES X = U \cup W
  OBVIOUS
<1> HIDE DEF U, W, X
<1> QED
  BY <1>1

LEMMA MergeRefers == ASSUME Referred, Extractor!MergeSVFWpaOutput PROVE Referred'
<1>1. /\ ir' = ir /\ ranges' = ranges /\ ir \in Modules /\ ranges = Extractor!InferBasicBlockLines(ir)
      /\ DOMAIN refs = DOMAIN ir.declared /\ \A f \in DOMAIN refs : refs[f] = RefsOf(f)
  BY DEF Referred, Extractor!MergeSVFWpaOutput, Extractor!Analyzed
<1>2. CASE ir.svf.state = "none"
  <2>1. targets_of' = targets_of /\ refs' = refs
    BY <1>2 DEF Extractor!MergeSVFWpaOutput
  <2> QED
    BY <1>1, <2>1 DEF Referred, RefsOf
<1>3. CASE ir.svf.state # "none"
  <2> DEFINE More(f) == UNION {Extractor!Merged(s) : s \in {t \in DOMAIN targets_of : Extractor!IndirectCalls(ir)[t].caller = f}}
  <2>1. /\ targets_of' = [s \in DOMAIN targets_of |-> targets_of[s] \cup Extractor!Merged(s)]
        /\ refs' = [f \in DOMAIN refs |-> refs[f] \cup More(f)]
    BY <1>3 DEF Extractor!MergeSVFWpaOutput
  <2>2. DOMAIN targets_of' = DOMAIN targets_of /\ \A s \in DOMAIN targets_of : targets_of'[s] = targets_of[s] \cup Extractor!Merged(s)
    BY <2>1
  <2>3. ASSUME NEW f \in DOMAIN refs PROVE refs'[f] = RefsOf(f)'
    <3> DEFINE Of == {t \in DOMAIN targets_of : Extractor!IndirectCalls(ir)[t].caller = f}
    <3>1. RefsOf(f)' = UNION {targets_of'[s] : s \in Of} /\ RefsOf(f) = UNION {targets_of[s] : s \in Of}
      BY <1>1, <2>2 DEF RefsOf
    <3>2. refs'[f] = refs[f] \cup UNION {Extractor!Merged(s) : s \in Of}
      BY <2>1
    <3>3. UNION {targets_of'[s] : s \in Of} = (UNION {targets_of[s] : s \in Of}) \cup (UNION {Extractor!Merged(s) : s \in Of})
      <4> HIDE DEF Of
      <4>1. Of \subseteq DOMAIN targets_of
        BY DEF Of
      <4>2. \A s \in Of : targets_of'[s] = targets_of[s] \cup Extractor!Merged(s)
        BY <2>2, <4>1
      <4> DEFINE B == [s \in Of |-> Extractor!Merged(s)]
      <4>4. \A s \in Of : B[s] = Extractor!Merged(s)
        OBVIOUS
      <4> HIDE DEF B
      <4>5. \A s \in Of : targets_of'[s] = targets_of[s] \cup B[s]
        BY <4>2, <4>4
      <4>6. UNION {targets_of'[s] : s \in Of} = (UNION {targets_of[s] : s \in Of}) \cup (UNION {B[s] : s \in Of})
        BY <4>5, UnionOfBoth, SMTT(30)
      <4>7. {B[s] : s \in Of} = {Extractor!Merged(s) : s \in Of}
        BY <4>4
      <4> QED
        BY <4>6, <4>7
    <3>4. refs[f] = RefsOf(f)
      BY <1>1
    <3>5. RefsOf(f)' = RefsOf(f) \cup UNION {Extractor!Merged(s) : s \in Of}
      <4> HIDE DEF Of
      <4> DEFINE U == UNION {targets_of[s] : s \in Of}
                 W == UNION {Extractor!Merged(s) : s \in Of}
                 X == UNION {targets_of'[s] : s \in Of}
      <4>1. X = U \cup W
        BY <3>3
      <4>2. RefsOf(f)' = X /\ RefsOf(f) = U
        BY <3>1
      <4> HIDE DEF U, W, X
      <4>3. RefsOf(f)' = RefsOf(f) \cup W
        BY <4>1, <4>2
      <4> QED
        BY <4>3 DEF W
    <3> QED
      BY <3>2, <3>4, <3>5
  <2>4. DOMAIN refs' = DOMAIN refs
    BY <2>1
  <2> QED
    BY <1>1, <2>3, <2>4 DEF Referred
<1> QED
  BY <1>2, <1>3

(* A finite set of naturals has a largest element.                         *)
LEMMA LargestOf == ASSUME NEW T \in SUBSET Nat, IsFiniteSet(T), T # {} PROVE \E m \in T : \A n \in T : m >= n
<1> DEFINE Sized(k) == {S \in SUBSET Nat : IsFiniteSet(S) /\ Cardinality(S) = k}
           P == {k \in Nat : \A S \in Sized(k) : S = {} \/ \E m \in S : \A n \in S : m >= n}
<1>1. 0 \in P
  BY FS_EmptySet
<1>2. ASSUME NEW k \in Nat, k \in P PROVE k + 1 \in P
  <2> SUFFICES ASSUME NEW S \in Sized(k + 1), S # {} PROVE \E m \in S : \A n \in S : m >= n
    OBVIOUS
  <2>1. PICK x \in S : TRUE
    OBVIOUS
  <2>2. S \ {x} \in Sized(k)
    <3>1. IsFiniteSet(S) /\ Cardinality(S) = k + 1 /\ S \in SUBSET Nat
      OBVIOUS
    <3>2. IsFiniteSet(S \ {x}) /\ Cardinality(S \ {x}) = (k + 1) - 1
      BY <2>1, <3>1, FS_RemoveElement
    <3> QED
      BY <3>1, <3>2
  <2>3. S \ {x} = {} \/ \E m \in S \ {x} : \A n \in S \ {x} : m >= n
    BY <1>2, <2>2
  <2>4. S \subseteq Nat /\ x \in Nat
    OBVIOUS
  <2>5. CASE S \ {x} = {}
    <3>1. \A n \in S : n = x
      BY <2>5
    <3> QED
      BY <2>4, <3>1
  <2>6. CASE \E m \in S \ {x} : \A n \in S \ {x} : m >= n
    <3>1. PICK m \in S \ {x} : \A n \in S \ {x} : m >= n
      BY <2>6
    <3>2. CASE m >= x
      <4>1. \A n \in S : m >= n
        BY <3>1, <3>2
      <4> QED
        BY <4>1
    <3>3. CASE ~(m >= x)
      <4>1. \A n \in S : x >= n
        <5> SUFFICES ASSUME NEW n \in S PROVE x >= n
          OBVIOUS
        <5>1. n = x \/ m >= n
          BY <3>1
        <5>2. n \in Nat /\ m \in Nat /\ x \in Nat
          BY <2>4
        <5> QED
          BY <3>3, <5>1, <5>2
      <4> QED
        BY <4>1, <2>1
    <3> QED
      BY <3>2, <3>3
  <2> QED
    BY <2>3, <2>5, <2>6
<1> HIDE DEF P
<1>3. \A k \in Nat : k \in P
  BY <1>1, <1>2, AllOf
<1>4. Cardinality(T) \in Nat /\ T \in Sized(Cardinality(T))
  BY FS_CardinalityType
<1> QED
  BY <1>3, <1>4 DEF P

LEMMA MinMaxAre == ASSUME NEW T \in SUBSET Nat, IsFiniteSet(T), T # {}
    PROVE  Extractor!Min(T) \in T /\ Extractor!Max(T) \in T /\ \A n \in T : Extractor!Min(T) <= n /\ n <= Extractor!Max(T)
<1>1. \E x \in T : \A y \in T : x =< y
  BY LeastOf
<1>2. \E x \in T : \A y \in T : x >= y
  BY LargestOf
<1>3. Extractor!Min(T) \in T /\ \A y \in T : Extractor!Min(T) =< y
  BY <1>1, Zenon DEF Extractor!Min
<1>4. Extractor!Max(T) \in T /\ \A y \in T : Extractor!Max(T) >= y
  BY <1>2, Zenon DEF Extractor!Max
<1> QED
  BY <1>3, <1>4

(* The lines of blocks: both ends, or none.                                *)
Pairs == {p \in Nat \X Nat : p[1] = 0 <=> p[2] = 0}

LEMMA BlocksAre == ASSUME NEW m \in Modules
    PROVE  /\ DOMAIN m.block = 1 .. Len(m.block) /\ Len(m.block) \in Nat
           /\ \A f \in DOMAIN m.declared : m.declared[f] \in Nat
           /\ \A b \in DOMAIN m.block :
                 /\ m.block[b].function \in DOMAIN m.declared
                 /\ m.block[b].lines \subseteq Nat \ {0} /\ IsFiniteSet(m.block[b].lines)
                 /\ m.block[b].pred \in Seq(DOMAIN m.block) /\ m.block[b].succ \in Seq(DOMAIN m.block)
BY ExtractInputs, SameSetsCounted DEF Extractor!ModulesAssumption

LEMMA OwnIs == ASSUME NEW m \in Modules, NEW b \in DOMAIN m.block PROVE Extractor!OwnLines(m, b) \in Pairs
<1> DEFINE T == m.block[b].lines
<1>1. T \subseteq Nat \ {0} /\ IsFiniteSet(T)
  BY BlocksAre
<1>2. CASE T = {}
  BY <1>2 DEF Extractor!OwnLines, Extractor!NoRange, Pairs
<1>3. CASE T # {}
  <2>1. Extractor!Min(T) \in T /\ Extractor!Max(T) \in T
    BY <1>1, <1>3, MinMaxAre
  <2>2. Extractor!OwnLines(m, b) = <<Extractor!Min(T), Extractor!Max(T)>>
    BY <1>3 DEF Extractor!OwnLines
  <2> QED
    BY <1>1, <2>1, <2>2 DEF Pairs
<1> QED
  BY <1>2, <1>3

LEMMA InferIs ==
    ASSUME NEW m \in Modules, NEW r \in [DOMAIN m.block -> Pairs], NEW b \in Nat
    PROVE  Extractor!Infer(m, r, b) \in [DOMAIN m.block -> Pairs]
<1>1. CASE b \notin DOMAIN m.block
  BY <1>1 DEF Extractor!Infer
<1>2. CASE b \in DOMAIN m.block
  <2> DEFINE own == <<Extractor!Declared(m, b), Extractor!Declared(m, b)>>
             declared == [r EXCEPT ![b] = own]
             all == m.block[b].pred \o m.block[b].succ
             I == {i \in DOMAIN all : declared[all[i]][1] # 0}
             x == declared[Head(Extractor!Near(m, b, declared))]
  <2>1. all \in Seq(DOMAIN m.block)
    BY <1>2, BlocksAre, ConcatProperties
  <2>2. own \in Pairs
    BY <1>2, BlocksAre DEF Extractor!Declared, Pairs
  <2>3. declared \in [DOMAIN m.block -> Pairs]
    BY <1>2, <2>2
  <2> HIDE DEF own, declared
  <2>4. Extractor!Near(m, b, declared) \in Seq(DOMAIN m.block)
    <3>1. Extractor!Near(m, b, declared) = Extractor!Picked(all, I)
      BY DEF Extractor!Near
    <3> HIDE DEF all
    <3> QED
      BY <2>1, <3>1, PickedIs
  <2>5. Extractor!Near(m, b, declared) # <<>> => x \in Pairs
    BY <2>3, <2>4
  <2>6. \/ Extractor!Infer(m, r, b) = r
        \/ Extractor!Infer(m, r, b) = declared
        \/ Extractor!Near(m, b, declared) # <<>> /\ Extractor!Infer(m, r, b) = [r EXCEPT ![b] = x]
    BY DEF Extractor!Infer, declared, own
  <2> HIDE DEF x
  <2> QED
    BY <1>2, <2>3, <2>5, <2>6
<1> QED
  BY <1>1, <1>2

LEMMA InferredAre == ASSUME NEW m \in Modules PROVE Extractor!InferBasicBlockLines(m) \in [DOMAIN m.block -> Pairs]
<1> DEFINE X == [DOMAIN m.block -> Pairs]
           nextOf == [n \in Nat |-> [r \in X |-> Extractor!Infer(m, r, n + 1)]]
           F[n \in Nat] == IF n = 0 THEN Extractor!SeedBasicBlocks(m) ELSE Extractor!Infer(m, F[n - 1], n)
<1>1. Extractor!SeedBasicBlocks(m) \in X
  BY OwnIs DEF Extractor!SeedBasicBlocks
<1>2. \A r \in X : \A n \in Nat : Extractor!Infer(m, r, n) \in X
  BY InferIs
<1> HIDE DEF X
<1>3. nextOf \in [Nat -> [X -> X]]
  BY <1>2
<1> HIDE DEF nextOf
<1>4. PICK R : Follows(R, X, Extractor!SeedBasicBlocks(m), nextOf)
  BY <1>1, <1>3, Recursion
<1>5. R \in [Nat -> X] /\ R[0] = Extractor!SeedBasicBlocks(m) /\ \A n \in Nat : R[n + 1] = Extractor!Infer(m, R[n], n + 1)
  BY <1>4 DEF Follows, nextOf
<1>6. R = [n \in Nat |-> IF n = 0 THEN Extractor!SeedBasicBlocks(m) ELSE Extractor!Infer(m, R[n - 1], n)]
  <2>1. ASSUME NEW n \in Nat PROVE R[n] = IF n = 0 THEN Extractor!SeedBasicBlocks(m) ELSE Extractor!Infer(m, R[n - 1], n)
    <3>1. CASE n # 0
      <4>1. n - 1 \in Nat /\ (n - 1) + 1 = n
        BY <3>1
      <4> QED
        BY <1>5, <4>1, <3>1
    <3> QED
      BY <1>5, <3>1
  <2> QED
    BY <1>5, <2>1
<1>7. F = [n \in Nat |-> IF n = 0 THEN Extractor!SeedBasicBlocks(m) ELSE Extractor!Infer(m, F[n - 1], n)]
  BY <1>6, Zenon
<1>8. Extractor!InferBasicBlockLines(m) = F[Len(m.block)] /\ Len(m.block) \in Nat
  BY BlocksAre DEF Extractor!InferBasicBlockLines
<1> HIDE DEF F
<1>9. F[0] \in X
  BY <1>1, <1>7
<1>10. ASSUME NEW n \in Nat, F[n] \in X PROVE F[n + 1] \in X
  <2>1. n + 1 \in Nat /\ n + 1 # 0 /\ (n + 1) - 1 = n
    OBVIOUS
  <2>2. F[n + 1] = Extractor!Infer(m, F[n], n + 1)
    BY <1>7, <2>1
  <2> QED
    BY <1>2, <1>10, <2>2
<1>11. \A n \in Nat : F[n] \in X
  BY <1>9, <1>10, Keeps
<1> QED
  BY <1>8, <1>11 DEF X

(* The range of a function holds those of its blocks.                      *)
LEMMA LinesHold ==
    ASSUME NEW m \in Modules, NEW r \in [DOMAIN m.block -> Pairs], NEW b \in DOMAIN m.block, r[b] # Extractor!NoRange
    PROVE  LET in == Extractor!FunctionLines(m, m.block[b].function, r) IN in[1] <= r[b][1] /\ r[b][2] <= in[2]
<1> DEFINE f == m.block[b].function
           own == {c \in DOMAIN m.block : m.block[c].function = f}
           Starts == {r[c][1] : c \in own}
           Ends == {r[c][2] : c \in own}
           any == {m.declared[f]} \cup Starts \cup Ends
           all == any \ {0}
<1>1. IsFiniteSet(own)
  <2>1. IsFiniteSet(1 .. Len(m.block))
    BY BlocksAre, FS_Interval
  <2> QED
    BY <2>1, BlocksAre, FS_Subset
<1>2. IsFiniteSet(Starts)
  <2>1. [c \in own |-> r[c][1]] \in Surjection(own, Starts)
    BY DEF Surjection
  <2> QED
    BY <1>1, <2>1, FS_Surjection
<1>3. IsFiniteSet(Ends)
  <2>1. [c \in own |-> r[c][2]] \in Surjection(own, Ends)
    BY DEF Surjection
  <2> QED
    BY <1>1, <2>1, FS_Surjection
<1>4. IsFiniteSet(any)
  BY <1>2, <1>3, FS_Singleton, FS_Union
<1>5. IsFiniteSet(all)
  <2> HIDE DEF any
  <2>1. all \in SUBSET any
    OBVIOUS
  <2> QED
    BY <1>4, <2>1, FS_Subset
<1>6. \A c \in own : r[c][1] \in Nat /\ r[c][2] \in Nat
  BY DEF Pairs
<1>7. m.declared[f] \in Nat
  BY BlocksAre
<1>8. all \in SUBSET Nat
  BY <1>6, <1>7
<1>9. r[b][1] \in Nat \ {0} /\ r[b][2] \in Nat \ {0}
  <2>1. r[b] \in Nat \X Nat /\ (r[b][1] = 0 <=> r[b][2] = 0)
    BY DEF Pairs
  <2>2. r[b] = <<r[b][1], r[b][2]>>
    BY <2>1
  <2> QED
    BY <2>1, <2>2 DEF Extractor!NoRange
<1>10. b \in own /\ r[b][1] \in all /\ r[b][2] \in all
  BY <1>9
<1>11. Extractor!FunctionLines(m, f, r) = <<Extractor!Min(all), Extractor!Max(all)>>
  BY <1>10 DEF Extractor!FunctionLines
<1> HIDE DEF all, f, own
<1>12. Extractor!Min(all) <= r[b][1] /\ r[b][2] <= Extractor!Max(all)
  BY <1>5, <1>8, <1>10, MinMaxAre
<1> QED
  BY <1>11, <1>12 DEF f

(* The other steps leave the references and what they are from.            *)
LEMMA OthersRefer ==
    ASSUME Referred, UNCHANGED <<ir, targets_of, refs, ranges>>, job' \in {"resolve", "write", "done"} => job \in {"resolve", "write"}
    PROVE  Referred'
BY DEF Referred, RefsOf

LEMMA OnlyWhenResolving ==
    ASSUME Unbegun, Extractor!ResolveSite \/ Extractor!SkipValue \/ Extractor!ResolveValue \/ Extractor!ReturnValue \/ Extractor!Resolved
    PROVE  job = "resolve"
<1>1. frames # <<>> \/ job = "resolve"
  <2>1. Len(<<>>) = 0
    OBVIOUS
  <2> QED
    BY <2>1 DEF Extractor!ResolveSite, Extractor!SkipValue, Extractor!ResolveValue, Extractor!ReturnValue, Extractor!Resolved
<1> QED
  BY <1>1 DEF Unbegun

LEMMA InitExtract == Extractor!Init => ExtractInv
BY DEF Extractor!Init, ExtractInv, Unbegun, Resolving, Referred, WrittenOK

LEMMA ExtractStep == ASSUME ExtractInv, [Extractor!Next]_extractVars PROVE ExtractInv'
<1> USE DEF ExtractInv
<1>1. ASSUME job = "idle", NEW m \in Modules, Extractor!Run(m) PROVE ExtractInv'
  <2>1. job' = "resolve"
    BY <1>1 DEF Extractor!Run
  <2>2. Resolving' /\ Referred'
    BY <1>1, RunResolving, RunRefers
  <2> QED
    BY <2>1, <2>2 DEF Unbegun, WrittenOK
<1>2. CASE Extractor!ResolveSite
  <2>1. job = "resolve" /\ job' = "resolve"
    BY <1>2 DEF Extractor!ResolveSite
  <2>2. Resolving' /\ Referred'
    BY <1>2, <2>1, SiteResolving, OthersRefer DEF Extractor!ResolveSite
  <2> QED
    BY <2>1, <2>2 DEF Unbegun, WrittenOK
<1>3. CASE Extractor!SkipValue
  <2>1. job = "resolve" /\ job' = "resolve"
    BY <1>3, OnlyWhenResolving DEF Extractor!SkipValue
  <2>2. Resolving' /\ Referred'
    BY <1>3, <2>1, SkipResolving, OthersRefer DEF Extractor!SkipValue
  <2> QED
    BY <2>1, <2>2 DEF Unbegun, WrittenOK
<1>4. CASE Extractor!ResolveValue
  <2>1. job = "resolve" /\ job' = "resolve"
    BY <1>4, OnlyWhenResolving DEF Extractor!ResolveValue
  <2>2. Resolving' /\ Referred'
    BY <1>4, <2>1, ValueResolving, OthersRefer DEF Extractor!ResolveValue
  <2> QED
    BY <2>1, <2>2 DEF Unbegun, WrittenOK
<1>5. CASE Extractor!ReturnValue
  <2>1. job = "resolve" /\ job' = "resolve"
    BY <1>5, OnlyWhenResolving DEF Extractor!ReturnValue
  <2>2. Resolving' /\ Referred'
    BY <1>5, <2>1, ReturnResolving, OthersRefer DEF Extractor!ReturnValue
  <2> QED
    BY <2>1, <2>2 DEF Unbegun, WrittenOK
<1>6. CASE Extractor!Resolved
  <2>1. job = "resolve" /\ job' = "resolve"
    BY <1>6, OnlyWhenResolving DEF Extractor!Resolved
  <2>2. Resolving' /\ Referred'
    BY <1>6, <2>1, ResolvedResolving, ResolvedRefers
  <2> QED
    BY <2>1, <2>2 DEF Unbegun, WrittenOK
<1>7. CASE Extractor!MergeFails
  <2>1. frames' = <<>> /\ job' = "failed"
    BY <1>7 DEF Extractor!MergeFails, Extractor!Analyzed
  <2> QED
    BY <2>1 DEF Unbegun, Resolving, Referred, WrittenOK
<1>8. CASE Extractor!MergeSVFWpaOutput
  <2>1. frames' = <<>> /\ job' = "write"
    BY <1>8 DEF Extractor!MergeSVFWpaOutput, Extractor!Analyzed
  <2>2. Referred'
    BY <1>8, MergeRefers
  <2> QED
    BY <2>1, <2>2 DEF Unbegun, Resolving, WrittenOK
<1>9. CASE Extractor!WriteStaticJson
  <2>1. /\ job = "write" /\ job' = "done" /\ frames' = frames
        /\ UNCHANGED <<ir, targets_of, refs, ranges>>
        /\ static'.resolved = targets_of
        /\ static'.functions = [f \in DOMAIN refs |->
              [calls |-> Extractor!Calls(ir, f), refs |-> refs[f], lines |-> Extractor!FunctionLines(ir, f, ranges)]]
    BY <1>9 DEF Extractor!WriteStaticJson
  <2>2. Referred'
    BY <2>1, OthersRefer
  <2>3. WrittenOK'
    BY <2>1 DEF WrittenOK
  <2> QED
    BY <2>1, <2>2, <2>3 DEF Unbegun, Resolving
<1>10. CASE Extractor!StaticJsonFails
  <2>1. job = "write" /\ job' = "unwritten" /\ frames' = frames
    BY <1>10 DEF Extractor!StaticJsonFails
  <2> QED
    BY <2>1 DEF Unbegun, Resolving, Referred, WrittenOK
<1>11. CASE UNCHANGED extractVars
  <2>1. UNCHANGED <<job, ir, site, pass, frames, memo, cutoff, targets_of, refs, ranges, static>>
    BY <1>11 DEF extractVars
  <2>2. Unbegun'
    BY <2>1 DEF Unbegun
  <2>3. Resolving'
    BY <2>1 DEF Resolving, TypesOK, Ongoing, Recorded
  <2>4. Referred' /\ WrittenOK'
    BY <2>1 DEF Referred, RefsOf, WrittenOK
  <2> QED
    BY <2>2, <2>3, <2>4
<1> QED
  BY <1>1, <1>2, <1>3, <1>4, <1>5, <1>6, <1>7, <1>8, <1>9, <1>10, <1>11 DEF Extractor!Next

LEMMA CalleesAreFound == Resolving => Extractor!CalleesFound
<1> SUFFICES ASSUME job = "resolve", Recorded, TypesOK, NEW s \in 1 .. site - 1
             PROVE  /\ targets_of[s] \subseteq Extractor!FunctionsBehind(ir, Extractor!Asked(ir, s))
                    /\ ~cutoff /\ (s = 1 \/ Extractor!Acyclic(ir, Extractor!Asked(ir, s))) => targets_of[s] = Extractor!Sought(ir, s)
  BY DEF Resolving, Extractor!CalleesFound
<1> QED
  BY DEF Recorded, SiteOK, Strict

LEMMA ReferencesAreWritten == Referred /\ WrittenOK => Extractor!ReferencesAgree
<1> SUFFICES ASSUME Referred, WrittenOK, job = "done" PROVE Extractor!ReferencesAgree
  BY DEF Extractor!ReferencesAgree
<1>1. /\ ir \in Modules /\ ranges = Extractor!InferBasicBlockLines(ir) /\ DOMAIN refs = DOMAIN ir.declared
      /\ \A f \in DOMAIN refs : refs[f] = RefsOf(f)
      /\ static.resolved = targets_of
      /\ \A f \in DOMAIN refs : static.functions[f].refs = refs[f] /\ static.functions[f].lines = Extractor!FunctionLines(ir, f, ranges)
  BY DEF Referred, WrittenOK
<1>2. ASSUME NEW f \in DOMAIN refs
      PROVE  static.functions[f].refs =
                UNION {static.resolved[s] : s \in {t \in DOMAIN static.resolved : Extractor!IndirectCalls(ir)[t].caller = f}}
  BY <1>1 DEF RefsOf
<1>3. ASSUME NEW b \in DOMAIN ranges, ranges[b] # Extractor!NoRange
      PROVE  LET in == static.functions[ir.block[b].function].lines
             IN  in[1] <= ranges[b][1] /\ ranges[b][2] <= in[2]
  <2>1. ranges \in [DOMAIN ir.block -> Pairs]
    BY <1>1, InferredAre
  <2>2. b \in DOMAIN ir.block /\ ir.block[b].function \in DOMAIN refs
    BY <1>1, <2>1, BlocksAre
  <2>3. static.functions[ir.block[b].function].lines = Extractor!FunctionLines(ir, ir.block[b].function, ranges)
    BY <1>1, <2>2
  <2> QED
    BY <1>1, <1>3, <2>1, <2>2, <2>3, LinesHold
<1> QED
  BY <1>2, <1>3 DEF Extractor!ReferencesAgree

(* Each indirect call gets the functions its operands may be, exactly if   *)
(* nothing was too deep and it is the first or on no cycle, and static.json*)
(* agrees with itself.                                                     *)
THEOREM CallsResolved == Extractor!Spec => []CallsAreResolved
<1>1. Extractor!Init => ExtractInv
  BY InitExtract
<1>2. ExtractInv /\ [Extractor!Next]_extractVars => ExtractInv'
  BY ExtractStep
<1>3. ExtractInv => CallsAreResolved
  BY CalleesAreFound, ReferencesAreWritten DEF ExtractInv, CallsAreResolved, Extractor!CallsAreResolved
<1> QED
  BY <1>1, <1>2, <1>3, PTL DEF Extractor!Spec, Extractor!extractVars, extractVars

----------------------------------------------------------------------------
(* Control dependence (BranchSlicer).  A block avoids x on a way to e if no *)
(* closed set says otherwise; the lemmas work with such sets.              *)
LEMMA SlicerFinite == \A T : Slicer!IsFiniteSet(T) = IsFiniteSet(T) /\ Slicer!Cardinality(T) = Cardinality(T)
BY DEF Slicer!IsFiniteSet, Slicer!Cardinality, IsFiniteSet, Cardinality

Graph == Slicer!IsFlow(prog.succ)
PD(x, y) == Slicer!PostDominates(x, y)

LEMMA PostDominatesIs ==
    ASSUME NEW x \in Slicer!Blocks, NEW y \in Slicer!Blocks
    PROVE  PD(x, y) <=>
             \/ x = y
             \/ \A e \in Slicer!Blocks : prog.succ[e] = {} =>
                  \E C \in SUBSET Slicer!Blocks : y \in C /\ e \notin C /\ \A b \in C : prog.succ[b] \subseteq C \cup {x}
<1> DEFINE next == [b \in Slicer!Blocks |-> prog.succ[b] \ {x}]
           Avoids(C) == \A b \in C : prog.succ[b] \subseteq C \cup {x}
<1>1. ASSUME NEW C \in SUBSET Slicer!Blocks PROVE Slicer!ClosedUnder(C, next) <=> Avoids(C)
  BY DEF Slicer!ClosedUnder
<1> HIDE DEF next, Avoids
<1>2. ASSUME NEW e \in Slicer!Blocks, x # y
      PROVE  ~Slicer!Reaches(y, e, {x}) <=> \E C \in SUBSET Slicer!Blocks : y \in C /\ e \notin C /\ Avoids(C)
  <2>1. Slicer!Reaches(y, e, {x}) <=> e \in Slicer!ReachFrom({y}, next)
    BY <1>2 DEF Slicer!Reaches, next
  <2>2. e \in Slicer!ReachFrom({y}, next) <=>
           \A C \in SUBSET Slicer!Blocks : {y} \subseteq C /\ Slicer!ClosedUnder(C, next) => e \in C
    BY DEF Slicer!ReachFrom
  <2> QED
    BY <1>1, <2>1, <2>2
<1> QED
  BY <1>2 DEF PD, Slicer!PostDominates, Slicer!Ends, Avoids

LEMMA PDReflexive == \A x : PD(x, x)
BY DEF PD, Slicer!PostDominates

LEMMA PDTransitive ==
    ASSUME NEW x \in Slicer!Blocks, NEW y \in Slicer!Blocks, NEW z \in Slicer!Blocks, PD(x, y), PD(y, z)
    PROVE  PD(x, z)
<1> SUFFICES ASSUME x # y, y # z, x # z PROVE PD(x, z)
  BY PDReflexive
<1> SUFFICES ASSUME NEW e \in Slicer!Blocks, prog.succ[e] = {}
             PROVE  \E C \in SUBSET Slicer!Blocks : z \in C /\ e \notin C /\ \A b \in C : prog.succ[b] \subseteq C \cup {x}
  BY PostDominatesIs
<1>1. PICK C \in SUBSET Slicer!Blocks : y \in C /\ e \notin C /\ \A b \in C : prog.succ[b] \subseteq C \cup {x}
  BY PostDominatesIs
<1>2. PICK D \in SUBSET Slicer!Blocks : z \in D /\ e \notin D /\ \A b \in D : prog.succ[b] \subseteq D \cup {y}
  BY PostDominatesIs
<1>3. \A b \in C \cup D : prog.succ[b] \subseteq (C \cup D) \cup {x}
  BY <1>1, <1>2
<1>4. C \cup D \in SUBSET Slicer!Blocks /\ z \in C \cup D /\ e \notin C \cup D
  BY <1>1, <1>2
<1> QED
  BY <1>3, <1>4

(* What a block reaches without the blocks of a set: the least set that    *)
(* holds it and is closed but for them.                                    *)
Closed(C, y, W) == y \in C /\ \A b \in C : prog.succ[b] \subseteq C \cup W
Least(R, y, W) == Closed(R, y, W) /\ \A C \in SUBSET Slicer!Blocks : Closed(C, y, W) => R \subseteq C

LEMMA LeastClosed ==
    ASSUME Graph, NEW y \in Slicer!Blocks, NEW W
    PROVE  \E R \in SUBSET Slicer!Blocks : Least(R, y, W)
<1> DEFINE R == {z \in Slicer!Blocks : \A C \in SUBSET Slicer!Blocks : Closed(C, y, W) => z \in C}
<1>1. y \in R /\ \A C \in SUBSET Slicer!Blocks : Closed(C, y, W) => R \subseteq C
  BY DEF Closed
<1>2. ASSUME NEW b \in R, NEW s \in prog.succ[b], s \notin W PROVE s \in R
  <2>1. s \in Slicer!Blocks
    BY <1>2 DEF Graph, Slicer!IsFlow, Slicer!Blocks
  <2>2. ASSUME NEW C \in SUBSET Slicer!Blocks, Closed(C, y, W) PROVE s \in C
    BY <1>1, <1>2, <2>2 DEF Closed
  <2> QED
    BY <2>1, <2>2
<1> HIDE DEF R
<1>3. R \in SUBSET Slicer!Blocks
  BY DEF R
<1> QED
  BY <1>1, <1>2, <1>3 DEF Least, Closed

LEMMA ClosedLeaves ==
    ASSUME Graph, NEW C \in SUBSET Slicer!Blocks, C # {}, \A b \in C : prog.succ[b] \subseteq C
    PROVE  \E e \in C : prog.succ[e] = {}
BY DEF Graph, Slicer!IsFlow, Slicer!Blocks

LEMMA PDAntisymmetric ==
    ASSUME Graph, NEW x \in Slicer!Blocks, NEW y \in Slicer!Blocks, PD(x, y), PD(y, x)
    PROVE  x = y
<1> SUFFICES ASSUME x # y PROVE FALSE
  OBVIOUS
<1>1. PICK R \in SUBSET Slicer!Blocks : Least(R, y, {})
  BY LeastClosed
<1>2. PICK e \in R : prog.succ[e] = {}
  BY <1>1, ClosedLeaves DEF Least, Closed
<1>3. PICK C \in SUBSET Slicer!Blocks : y \in C /\ e \notin C /\ \A b \in C : prog.succ[b] \subseteq C \cup {x}
  BY <1>2, PostDominatesIs
<1>4. PICK D \in SUBSET Slicer!Blocks : x \in D /\ e \notin D /\ \A b \in D : prog.succ[b] \subseteq D \cup {y}
  BY <1>2, PostDominatesIs
<1>5. Closed(C \cup D, y, {})
  BY <1>3, <1>4 DEF Closed
<1> QED
  BY <1>1, <1>2, <1>3, <1>4, <1>5 DEF Least

(* A way from z that meets x first leaves it without y.                    *)
LEMMA MetFirst ==
    ASSUME Graph, NEW x \in Slicer!Blocks, NEW y \in Slicer!Blocks, NEW z \in Slicer!Blocks,
           PD(y, z), z # y, NEW R \in SUBSET Slicer!Blocks, Least(R, z, {x, y}), NEW b \in R, x \in prog.succ[b]
    PROVE  PD(y, x)
<1> SUFFICES ASSUME x # y, NEW e \in Slicer!Blocks, prog.succ[e] = {}
             PROVE  \E C \in SUBSET Slicer!Blocks : x \in C /\ e \notin C /\ \A c \in C : prog.succ[c] \subseteq C \cup {y}
  BY PostDominatesIs
<1>1. PICK C \in SUBSET Slicer!Blocks : z \in C /\ e \notin C /\ \A c \in C : prog.succ[c] \subseteq C \cup {y}
  BY PostDominatesIs
<1>2. Closed(C, z, {x, y})
  BY <1>1 DEF Closed
<1>3. x \in C
  BY <1>1, <1>2 DEF Least
<1> QED
  BY <1>1, <1>3

(* The post-dominators of a block are a chain.                             *)
LEMMA PDChain ==
    ASSUME Graph, NEW x \in Slicer!Blocks, NEW y \in Slicer!Blocks, NEW z \in Slicer!Blocks, PD(x, z), PD(y, z)
    PROVE  PD(x, y) \/ PD(y, x)
<1> SUFFICES ASSUME x # z, y # z, x # y PROVE PD(x, y) \/ PD(y, x)
  BY PDReflexive
<1>1. PICK R \in SUBSET Slicer!Blocks : Least(R, z, {x, y})
  BY LeastClosed
<1>2. CASE \E b \in R : x \in prog.succ[b]
  BY <1>1, <1>2, MetFirst
<1>3. CASE \E b \in R : y \in prog.succ[b]
  <2>1. Least(R, z, {y, x})
    <3>1. {y, x} = {x, y}
      OBVIOUS
    <3> QED
      BY <1>1, <3>1
  <2> QED
    BY <1>3, <2>1, MetFirst
<1>4. CASE \A b \in R : x \notin prog.succ[b] /\ y \notin prog.succ[b]
  <2>1. \A b \in R : prog.succ[b] \subseteq R
    BY <1>1, <1>4 DEF Least, Closed
  <2>2. PICK e \in R : prog.succ[e] = {}
    BY <1>1, <2>1, ClosedLeaves DEF Least, Closed
  <2>3. PICK C \in SUBSET Slicer!Blocks : z \in C /\ e \notin C /\ \A c \in C : prog.succ[c] \subseteq C \cup {x}
    BY <2>2, PostDominatesIs
  <2>4. Closed(C, z, {x, y})
    BY <2>3 DEF Closed
  <2> QED
    BY <1>1, <2>2, <2>3, <2>4 DEF Least
<1> QED
  BY <1>2, <1>3, <1>4

(* What follows a branch is post-dominated by what follows all of it.      *)
LEMMA PDSuccessor ==
    ASSUME Graph, NEW j \in Slicer!Blocks, NEW b \in Slicer!Blocks, NEW s \in prog.succ[b], PD(j, b), j # b
    PROVE  PD(j, s)
<1>1. s \in Slicer!Blocks
  BY DEF Graph, Slicer!IsFlow, Slicer!Blocks
<1> SUFFICES ASSUME j # s, NEW e \in Slicer!Blocks, prog.succ[e] = {}
             PROVE  \E C \in SUBSET Slicer!Blocks : s \in C /\ e \notin C /\ \A c \in C : prog.succ[c] \subseteq C \cup {j}
  BY <1>1, PostDominatesIs
<1>2. PICK C \in SUBSET Slicer!Blocks : b \in C /\ e \notin C /\ \A c \in C : prog.succ[c] \subseteq C \cup {j}
  BY PostDominatesIs
<1>3. s \in C
  BY <1>2
<1> QED
  BY <1>2, <1>3

LEMMA IPDomIs ==
    ASSUME NEW y \in Slicer!Blocks, NEW j \in Slicer!IPDom(y)
    PROVE  /\ j \in Slicer!Blocks /\ j # y /\ PD(j, y)
           /\ \A x \in Slicer!Blocks : x # y /\ PD(x, y) => PD(x, j)
BY DEF Slicer!IPDom, Slicer!StrictPostDominators, PD

(* The nearest of them exists: it has the fewest before it.                *)
LEMMA IPDomExists ==
    ASSUME Graph, NEW y \in Slicer!Blocks, NEW x \in Slicer!Blocks, x # y, PD(x, y)
    PROVE  Slicer!IPDom(y) # {}
<1> DEFINE S == Slicer!StrictPostDominators(y)
           Before(z) == {w \in S : ~PD(w, z)}
           Counts == {Cardinality(Before(z)) : z \in S}
<1>1. S \subseteq Slicer!Blocks /\ IsFiniteSet(S) /\ x \in S /\ \A z \in S : PD(z, y)
  <2>1. IsFiniteSet(Slicer!Blocks)
    BY SlicerFinite DEF Graph, Slicer!IsFlow, Slicer!Blocks
  <2> QED
    BY <2>1, FS_Subset DEF Slicer!StrictPostDominators, PD
<1>2. \A z \in S : IsFiniteSet(Before(z)) /\ Cardinality(Before(z)) \in Nat
  BY <1>1, FS_Subset, FS_CardinalityType
<1> HIDE DEF S, Before
<1>3. PICK m \in Counts : \A n \in Counts : m <= n
  BY <1>1, <1>2, LeastOf
<1>4. PICK z \in S : m = Cardinality(Before(z))
  BY <1>3
<1>5. ASSUME NEW w \in S, ~PD(w, z) PROVE FALSE
  <2>1. PD(z, w)
    BY <1>1, <1>5, PDChain
  <2>2. Before(w) \subseteq Before(z)
    BY <1>1, <2>1, PDTransitive DEF Before
  <2>3. w \in Before(z) /\ w \notin Before(w)
    BY <1>5, PDReflexive DEF Before
  <2>4. Cardinality(Before(w)) < Cardinality(Before(z))
    BY <1>2, <2>2, <2>3, FS_Subset
  <2> QED
    BY <1>2, <1>3, <1>4, <2>4
<1> QED
  BY <1>5 DEF Slicer!IPDom, S, PD

(* Nothing of the graph changes while it is walked.                        *)
LEMMA GraphFrozen ==
    ASSUME UNCHANGED prog
    PROVE  /\ Slicer!Blocks' = Slicer!Blocks /\ Graph' = Graph
           /\ \A x, y : PD(x, y)' = PD(x, y)
           /\ \A x : Slicer!IPDom(x)' = Slicer!IPDom(x)
           /\ \A x, y : Slicer!Controls(x, y)' = Slicer!Controls(x, y)
<1>1. Slicer!Blocks' = Slicer!Blocks /\ Graph' = Graph
  BY DEF Slicer!Blocks, Graph
<1>2. \A S, next : Slicer!ReachFrom(S, next)' = Slicer!ReachFrom(S, next)
  BY <1>1 DEF Slicer!ReachFrom
<1>3. \A x, y, W : Slicer!Reaches(x, y, W)' = Slicer!Reaches(x, y, W)
  BY <1>1, <1>2 DEF Slicer!Reaches
<1>4. \A x, y : PD(x, y)' = PD(x, y)
  BY <1>1, <1>3 DEF PD, Slicer!PostDominates, Slicer!Ends
<1>5. \A x : Slicer!StrictPostDominators(x)' = Slicer!StrictPostDominators(x)
  BY <1>1, <1>4 DEF Slicer!StrictPostDominators, PD
<1>6. \A x : Slicer!IPDom(x)' = Slicer!IPDom(x)
  BY <1>4, <1>5 DEF Slicer!IPDom, PD
<1>7. \A x, y : Slicer!Controls(x, y)' = Slicer!Controls(x, y)
  BY <1>4, <1>5 DEF Slicer!Controls, PD
<1> QED
  BY <1>1, <1>4, <1>6, <1>7

(* The branches that are walked from, and the inductive invariant: what is *)
(* found is a dependence, a walk is on its way from a successor of its     *)
(* branch to where the branch joins, and a dependence that is not found is *)
(* ahead of a walk.                                                        *)
Parts(b) == b \in Slicer!Blocks /\ Slicer!IPDom(b) # {} /\ Slicer!Cardinality(prog.succ[b]) > 1
Dependence(x, b) == x \in Slicer!Blocks /\ Parts(b) /\ Slicer!Controls(b, x)
OnItsWay(b, x) ==
    /\ x \in Slicer!Blocks /\ Parts(b)
    /\ \E s \in prog.succ[b] : PD(x, s)
    /\ \A j \in Slicer!IPDom(b) : PD(j, x)
WalkInv ==
    /\ \A d \in deps : \E x, b : d = <<x, b>> /\ Dependence(x, b)
    /\ \A w \in walk : \E b, x : w = <<b, x>> /\ OnItsWay(b, x)
    /\ \A x, b : Dependence(x, b) => <<x, b>> \in deps \/ \E y : <<b, y>> \in walk /\ PD(x, y)
SliceInv ==
    /\ phase # "idle" => Graph
    /\ rounds \in Nat /\ (rounds = 0 => deps = {})
    /\ phase = "walk" => rounds = 1 /\ WalkInv

LEMMA InSucc == ASSUME Graph, NEW b \in Slicer!Blocks PROVE prog.succ[b] \subseteq Slicer!Blocks
BY DEF Graph, Slicer!IsFlow, Slicer!Blocks

LEMMA WalkFrozen ==
    ASSUME UNCHANGED prog
    PROVE  \A x, b : (Parts(b)' = Parts(b)) /\ (Dependence(x, b)' = Dependence(x, b)) /\ (OnItsWay(b, x)' = OnItsWay(b, x))
<1>1. \A b : Parts(b)' = Parts(b)
  BY GraphFrozen DEF Parts
<1> QED
  BY <1>1, GraphFrozen DEF Dependence, OnItsWay

(* Before it joins, a walk passes dependences of its branch only.          *)
LEMMA PassesDependence ==
    ASSUME Graph, NEW b, NEW x, OnItsWay(b, x), x \notin Slicer!IPDom(b)
    PROVE  Dependence(x, b)
<1>1. PICK j \in Slicer!IPDom(b) : TRUE
  BY DEF OnItsWay, Parts
<1>2. j \in Slicer!Blocks /\ x \in Slicer!Blocks /\ b \in Slicer!Blocks /\ PD(j, x) /\ x # j
  BY <1>1, IPDomIs DEF OnItsWay, Parts
<1>3. x # b /\ PD(x, b) => PD(x, j)
  BY <1>1, <1>2, IPDomIs
<1>4. ~(x # b /\ PD(x, b))
  BY <1>2, <1>3, PDAntisymmetric
<1> QED
  BY <1>2, <1>4 DEF OnItsWay, Dependence, Slicer!Controls, Slicer!StrictPostDominators, PD

(* The next block is on the way as well.                                   *)
LEMMA GoesOn ==
    ASSUME Graph, NEW b, NEW x, OnItsWay(b, x), x \notin Slicer!IPDom(b), NEW y \in Slicer!IPDom(x)
    PROVE  OnItsWay(b, y)
<1>1. x \in Slicer!Blocks /\ y \in Slicer!Blocks /\ PD(y, x) /\ b \in Slicer!Blocks
  BY IPDomIs DEF OnItsWay, Parts
<1>2. PICK s \in prog.succ[b] : PD(x, s)
  BY DEF OnItsWay
<1>3. PD(y, s)
  BY <1>1, <1>2, InSucc, PDTransitive
<1>4. ASSUME NEW j \in Slicer!IPDom(b) PROVE PD(j, y)
  <2>1. j \in Slicer!Blocks /\ PD(j, x) /\ j # x
    BY <1>1, <1>4, IPDomIs DEF OnItsWay
  <2> QED
    BY <1>1, <2>1, IPDomIs
<1> QED
  BY <1>1, <1>2, <1>3, <1>4 DEF OnItsWay

(* A dependence ahead of a walk is where the walk is, or ahead of its next *)
(* block; the walk has not joined.                                         *)
LEMMA StaysAhead ==
    ASSUME Graph, NEW x, NEW b, NEW y, Dependence(x, b), OnItsWay(b, y), PD(x, y)
    PROVE  /\ y \notin Slicer!IPDom(b)
           /\ x = y \/ \E z \in Slicer!IPDom(y) : PD(x, z)
<1>1. x \in Slicer!Blocks /\ y \in Slicer!Blocks /\ b \in Slicer!Blocks
  BY DEF Dependence, OnItsWay, Parts
<1>2. ~(x # b /\ PD(x, b))
  BY <1>1 DEF Dependence, Slicer!Controls, Slicer!StrictPostDominators, PD
<1>3. ASSUME y \in Slicer!IPDom(b) PROVE FALSE
  <2>1. PD(y, b) /\ y # b
    BY <1>1, <1>3, IPDomIs
  <2>2. PD(x, b)
    BY <1>1, <2>1, PDTransitive
  <2> QED
    BY <1>1, <1>2, <2>1, <2>2, PDAntisymmetric
<1>4. ASSUME x # y PROVE \E z \in Slicer!IPDom(y) : PD(x, z)
  <2>1. PICK z \in Slicer!IPDom(y) : TRUE
    BY <1>1, <1>4, IPDomExists
  <2> QED
    BY <1>1, <1>4, <2>1, IPDomIs
<1> QED
  BY <1>3, <1>4

LEMMA BuildWalks == ASSUME SliceInv, Slicer!Build PROVE WalkInv'
<1>1. Graph /\ deps' = {} /\ UNCHANGED prog
  BY DEF SliceInv, Slicer!Build
<1>2. walk' = UNION {{b} \X prog.succ[b] : b \in {c \in Slicer!Blocks : Parts(c)}}
  BY DEF Slicer!Build, Parts
<1>3. \A b, x : <<b, x>> \in walk' <=> Parts(b) /\ x \in prog.succ[b]
  BY <1>2 DEF Parts
<1>4. ASSUME NEW w \in walk' PROVE \E b, x : w = <<b, x>> /\ OnItsWay(b, x)'
  <2>1. PICK b, x : w = <<b, x>> /\ Parts(b) /\ x \in prog.succ[b]
    BY <1>2 DEF Parts
  <2>2. x \in Slicer!Blocks /\ b \in Slicer!Blocks
    BY <1>1, <2>1, InSucc DEF Parts
  <2>3. \A j \in Slicer!IPDom(b) : PD(j, x)
    BY <1>1, <2>1, <2>2, IPDomIs, PDSuccessor
  <2> QED
    BY <1>1, <2>1, <2>2, <2>3, PDReflexive, WalkFrozen DEF OnItsWay
<1>5. ASSUME NEW x, NEW b, Dependence(x, b) PROVE \E y : <<b, y>> \in walk' /\ PD(x, y)
  <2>1. PICK s \in prog.succ[b] : PD(x, s)
    BY <1>5 DEF Dependence, Slicer!Controls, PD
  <2> QED
    BY <1>3, <1>5, <2>1 DEF Dependence
<1>6. \A x, b : Dependence(x, b)' => \E y : <<b, y>> \in walk' /\ PD(x, y)'
  BY <1>1, <1>5, WalkFrozen, GraphFrozen
<1> QED
  BY <1>1, <1>4, <1>6 DEF WalkInv

LEMMA WalkWalks == ASSUME Graph, WalkInv, Slicer!Walk PROVE WalkInv'
<1> DEFINE going == {w \in walk : ~Slicer!Joined(w[1], w[2])}
<1>1. /\ UNCHANGED prog
      /\ deps' = deps \cup {<<w[2], w[1]>> : w \in going}
      /\ walk' = UNION {{w[1]} \X Slicer!IPDom(w[2]) : w \in going}
  BY DEF Slicer!Walk
<1>2. \A w \in going : \E b, x : w = <<b, x>> /\ OnItsWay(b, x) /\ x \notin Slicer!IPDom(b)
  BY DEF WalkInv, Slicer!Joined
<1>3. \A b, x : <<b, x>> \in walk /\ x \notin Slicer!IPDom(b) => <<b, x>> \in going
  BY DEF Slicer!Joined
<1> HIDE DEF going
<1>4. ASSUME NEW d \in deps' PROVE \E x, b : d = <<x, b>> /\ Dependence(x, b)
  <2>1. CASE d \in deps
    BY <2>1 DEF WalkInv
  <2>2. ASSUME NEW w \in going, d = <<w[2], w[1]>> PROVE \E x, b : d = <<x, b>> /\ Dependence(x, b)
    BY <1>2, <2>2, PassesDependence
  <2> QED
    BY <1>1, <2>1, <2>2
<1>5. ASSUME NEW v \in walk' PROVE \E b, x : v = <<b, x>> /\ OnItsWay(b, x)
  <2>1. PICK w \in going : v \in {w[1]} \X Slicer!IPDom(w[2])
    BY <1>1
  <2>2. PICK b, x : w = <<b, x>> /\ OnItsWay(b, x) /\ x \notin Slicer!IPDom(b)
    BY <1>2
  <2>3. PICK y \in Slicer!IPDom(x) : v = <<b, y>>
    BY <2>1, <2>2
  <2> QED
    BY <2>2, <2>3, GoesOn
<1>6. ASSUME NEW x, NEW b, Dependence(x, b)
      PROVE  <<x, b>> \in deps' \/ \E y : <<b, y>> \in walk' /\ PD(x, y)
  <2>1. CASE <<x, b>> \in deps
    BY <1>1, <2>1
  <2>2. ASSUME NEW y, <<b, y>> \in walk, PD(x, y)
        PROVE  <<x, b>> \in deps' \/ \E z : <<b, z>> \in walk' /\ PD(x, z)
    <3>1. OnItsWay(b, y)
      BY <2>2 DEF WalkInv
    <3>2. y \notin Slicer!IPDom(b) /\ (x = y \/ \E z \in Slicer!IPDom(y) : PD(x, z))
      BY <1>6, <2>2, <3>1, StaysAhead
    <3>3. <<b, y>> \in going
      BY <1>3, <2>2, <3>2
    <3>4. <<y, b>> \in deps'
      BY <1>1, <3>3
    <3>5. \A z \in Slicer!IPDom(y) : <<b, z>> \in walk'
      BY <1>1, <3>3
    <3> QED
      BY <3>2, <3>4, <3>5
  <2> QED
    BY <1>6, <2>1, <2>2 DEF WalkInv
<1> QED
  BY <1>1, <1>4, <1>5, <1>6, WalkFrozen, GraphFrozen DEF WalkInv

LEMMA NextSlice == ASSUME SliceInv, [Slicer!Next]_sliceVars PROVE SliceInv'
<1>1. CASE UNCHANGED sliceVars
  <2>1. UNCHANGED <<prog, phase, rounds, deps, walk>>
    BY <1>1 DEF sliceVars
  <2>2. ASSUME WalkInv PROVE WalkInv'
    <3>1. /\ \A d \in deps' : \E x, b : d = <<x, b>> /\ Dependence(x, b)'
          /\ \A w \in walk' : \E b, x : w = <<b, x>> /\ OnItsWay(b, x)'
      BY <2>1, <2>2, WalkFrozen DEF WalkInv
    <3>2. \A x, b : Dependence(x, b)' => <<x, b>> \in deps' \/ \E y : <<b, y>> \in walk' /\ PD(x, y)'
      BY <2>1, <2>2, WalkFrozen, GraphFrozen DEF WalkInv
    <3> QED
      BY <3>1, <3>2 DEF WalkInv
  <2> QED
    BY <2>1, <2>2, GraphFrozen DEF SliceInv
<1>2. ASSUME NEW j \in Jobs, Slicer!Slice(j.prog, j.req) PROVE SliceInv'
  <2>1. Graph'
    BY <1>2, SliceInputs DEF Slicer!JobsAssumption, Slicer!Slice, Graph
  <2> QED
    BY <1>2, <2>1 DEF SliceInv, Slicer!Slice
<1>3. CASE Slicer!Locate
  BY <1>3, GraphFrozen DEF SliceInv, Slicer!Locate
<1>4. ASSUME NEW i \in targets, Slicer!Begin(i) PROVE SliceInv'
  BY <1>4, GraphFrozen DEF SliceInv, Slicer!Begin
<1>5. CASE Slicer!Follow
  <2>1. UNCHANGED <<prog, phase, rounds, deps>> /\ phase = "follow"
    BY <1>5 DEF Slicer!Follow
  <2> QED
    BY <2>1, GraphFrozen DEF SliceInv
<1>6. CASE Slicer!Build
  BY <1>6, BuildWalks, GraphFrozen DEF SliceInv, Slicer!Build
<1>7. CASE Slicer!Walk
  <2>1. WalkInv'
    BY <1>7, WalkWalks DEF SliceInv, Slicer!Walk
  <2> QED
    BY <1>7, <2>1, GraphFrozen DEF SliceInv, Slicer!Walk
<1>8. CASE Slicer!Extend
  <2>1. phase' \in {"follow", "collect"} /\ UNCHANGED <<prog, deps>> /\ rounds' \in {rounds, rounds + 1} /\ phase # "idle"
    BY <1>8 DEF Slicer!Extend
  <2> QED
    BY <2>1, GraphFrozen DEF SliceInv
<1>9. CASE Slicer!Collect
  BY <1>9, GraphFrozen DEF SliceInv, Slicer!Collect
<1>10. CASE Slicer!PrintSlice
  BY <1>10, GraphFrozen DEF SliceInv, Slicer!PrintSlice
<1> QED
  BY <1>1, <1>2, <1>3, <1>4, <1>5, <1>6, <1>7, <1>8, <1>9, <1>10 DEF Slicer!Next

(* The walks from the branches, each up to where its ways join, find the   *)
(* control dependences, those of loops included, and no others.            *)
THEOREM DependencesAreFound == Slicer!Spec => []DependencesFound
<1>1. Slicer!Init => SliceInv
  BY DEF Slicer!Init, Slicer!Clear, SliceInv
<1>2. SliceInv /\ [Slicer!Next]_sliceVars => SliceInv'
  BY NextSlice
<1>3. SliceInv => DependencesFound
  <2> SUFFICES ASSUME SliceInv, phase = "walk", walk = {}
               PROVE  deps = {d \in Slicer!Blocks \X Slicer!Blocks :
                                Slicer!IPDom(d[2]) # {} /\ Slicer!Cardinality(prog.succ[d[2]]) > 1 /\ Slicer!Controls(d[2], d[1])}
    BY DEF DependencesFound, Slicer!DependencesFound
  <2>1. ASSUME NEW d \in deps PROVE d \in Slicer!Blocks \X Slicer!Blocks /\ Parts(d[2]) /\ Slicer!Controls(d[2], d[1])
    <3>1. PICK x, b : d = <<x, b>> /\ Dependence(x, b)
      BY DEF SliceInv, WalkInv
    <3> QED
      BY <3>1 DEF Dependence, Parts
  <2>2. ASSUME NEW x \in Slicer!Blocks, NEW b \in Slicer!Blocks, Parts(b), Slicer!Controls(b, x) PROVE <<x, b>> \in deps
    BY <2>2 DEF SliceInv, WalkInv, Dependence
  <2> QED
    BY <2>1, <2>2 DEF Parts
<1> QED
  BY <1>1, <1>2, <1>3, PTL DEF Slicer!Spec, Slicer!sliceVars, sliceVars
----------------------------------------------------------------------------
(* Reading a text from left to right: where runs of symbols end.           *)
LEMMA FirstIs == ASSUME NEW T \in SUBSET Nat, T # {}
    PROVE  Semantic!Min(T) \in T /\ \A n \in T : Semantic!Min(T) <= n
<1>1. \E x \in T : \A y \in T : x =< y
  BY LeastOf
<1> QED
  BY <1>1, Zenon DEF Semantic!Min

LEMMA PastIsNatural == ASSUME NEW d \in Seq(STRING), NEW i \in Nat, NEW S PROVE Semantic!Past(d, i, S) \in Nat
<1> DEFINE T == {j \in i .. Len(d) : d[j] \notin S} \cup {Len(d) + 1}
<1>1. T \in SUBSET Nat /\ T # {}
  OBVIOUS
<1>2. Semantic!Min(T) \in Nat
  BY <1>1, FirstIs
<1> QED
  BY <1>2 DEF Semantic!Past

LEMMA PastIs ==
    ASSUME NEW d \in Seq(STRING), NEW i \in 1 .. Len(d) + 1, NEW S
    PROVE  LET p == Semantic!Past(d, i, S) IN
           /\ p \in i .. Len(d) + 1
           /\ \A j \in i .. p - 1 : d[j] \in S
           /\ p <= Len(d) => d[p] \notin S
<1> DEFINE T == {j \in i .. Len(d) : d[j] \notin S} \cup {Len(d) + 1}
           p == Semantic!Min(T)
<1>1. T \in SUBSET Nat /\ T # {}
  OBVIOUS
<1>2. p \in T /\ \A n \in T : p <= n
  BY <1>1, FirstIs
<1>3. Semantic!Past(d, i, S) = p
  BY DEF Semantic!Past
<1>4. Len(d) + 1 \in T /\ Len(d) \in Nat
  OBVIOUS
<1>5. p \in i .. Len(d) + 1 /\ (p <= Len(d) => d[p] \notin S)
  BY <1>2, <1>4
<1>6. ASSUME NEW j \in i .. p - 1, d[j] \notin S PROVE FALSE
  <2>1. j \in T
    BY <1>4, <1>5, <1>6
  <2> HIDE DEF p, T
  <2> QED
    BY <1>2, <1>5, <1>6, <2>1
<1> HIDE DEF p, T
<1> QED
  BY <1>3, <1>5, <1>6

LEMMA UntilIs ==
    ASSUME NEW d \in Seq(STRING), NEW i \in 1 .. Len(d) + 1, NEW S
    PROVE  LET p == Semantic!Until(d, i, S) IN
           /\ p \in i .. Len(d) + 1
           /\ \A j \in i .. p - 1 : d[j] \notin S
           /\ p <= Len(d) => d[p] \in S
<1> DEFINE T == {j \in i .. Len(d) : d[j] \in S} \cup {Len(d) + 1}
           p == Semantic!Min(T)
<1>1. T \in SUBSET Nat /\ T # {}
  OBVIOUS
<1>2. p \in T /\ \A n \in T : p <= n
  BY <1>1, FirstIs
<1>3. Semantic!Until(d, i, S) = p
  BY DEF Semantic!Until
<1>4. Len(d) + 1 \in T /\ Len(d) \in Nat
  OBVIOUS
<1>5. p \in i .. Len(d) + 1 /\ (p <= Len(d) => d[p] \in S)
  BY <1>2, <1>4
<1>6. ASSUME NEW j \in i .. p - 1, d[j] \in S PROVE FALSE
  <2>1. j \in T
    BY <1>4, <1>5, <1>6
  <2> HIDE DEF p, T
  <2> QED
    BY <1>2, <1>5, <1>6, <2>1
<1> HIDE DEF p, T
<1> QED
  BY <1>3, <1>5, <1>6

(* The text that a scanner reads, and the parts of it.                     *)
Text == Semantic!Payload
Readable == Text \in Seq(STRING)

LEMMA PartIs ==
    ASSUME NEW d \in Seq(STRING), NEW a \in 1 .. Len(d) + 1, NEW b \in a - 1 .. Len(d)
    PROVE  /\ SubSeq(d, a, b) \in Seq(STRING) /\ Len(SubSeq(d, a, b)) = b + 1 - a
           /\ \A i \in 1 .. b + 1 - a : SubSeq(d, a, b)[i] = d[a + i - 1]
<1>1. \A i \in a .. b : d[i] \in STRING
  OBVIOUS
<1>2. /\ SubSeq(d, a, b) \in Seq(STRING) /\ Len(SubSeq(d, a, b)) = IF a <= b THEN b - a + 1 ELSE 0
      /\ \A i \in 1 .. b - a + 1 : SubSeq(d, a, b)[i] = d[a + i - 1]
  BY <1>1, SubSeqProperties
<1> QED
  BY <1>2

LEMMA AtIs ==
    ASSUME Readable, NEW i \in Nat \ {0}, NEW S, NEW w \in Seq(S), Semantic!At(i, w)
    PROVE  i + Len(w) <= Len(Text) + 1 /\ (w # <<>> => Text[i] = w[1])
<1>1. i + Len(w) - 1 <= Len(Text) /\ SubSeq(Text, i, i + Len(w) - 1) = w
  BY DEF Semantic!At, Text
<1>2. CASE w # <<>>
  <2>1. Len(w) \in Nat \ {0} /\ Len(Text) \in Nat
    BY <1>2 DEF Readable
  <2>2. i \in 1 .. Len(Text) + 1 /\ i + Len(w) - 1 \in i - 1 .. Len(Text)
    BY <1>1, <2>1
  <2>3. SubSeq(Text, i, i + Len(w) - 1)[1] = Text[i + 1 - 1]
    BY <2>1, <2>2, PartIs DEF Readable
  <2> QED
    BY <1>1, <2>1, <2>3
<1> QED
  BY <1>1, <1>2 DEF Readable

LEMMA ThroughIs ==
    ASSUME Readable, NEW i \in 1 .. Len(Text) + 1, NEW S, NEW w \in Seq(S)
    PROVE  LET t == Semantic!Through(i, w) IN
           /\ t.closed \in BOOLEAN /\ t.end \in i .. Len(Text) + 1
           /\ t.closed => t.end >= i + Len(w)
           /\ ~t.closed => t.end = Len(Text) + 1
<1> DEFINE hits == {j \in i .. Len(Text) : Semantic!At(j, w)}
           t == Semantic!Through(i, w)
<1>1. t = [closed |-> hits # {}, end |-> IF hits = {} THEN Len(Text) + 1 ELSE Semantic!Min(hits) + Len(w)]
  BY DEF Semantic!Through, Text
<1>2. hits \in SUBSET Nat /\ Len(Text) \in Nat /\ Len(w) \in Nat
  BY DEF Readable
<1>3. ASSUME hits # {} PROVE Semantic!Min(hits) \in i .. Len(Text) /\ Semantic!Min(hits) + Len(w) <= Len(Text) + 1
  <2>1. Semantic!Min(hits) \in hits
    BY <1>2, <1>3, FirstIs
  <2>2. Semantic!Min(hits) \in i .. Len(Text) /\ Semantic!At(Semantic!Min(hits), w)
    BY <2>1
  <2> QED
    BY <2>2, AtIs
<1> HIDE DEF t, hits
<1>4. /\ t.closed \in BOOLEAN /\ t.end \in i .. Len(Text) + 1
      /\ t.closed => t.end >= i + Len(w)
      /\ ~t.closed => t.end = Len(Text) + 1
  <2>1. t.closed = (hits # {}) /\ t.end = IF hits = {} THEN Len(Text) + 1 ELSE Semantic!Min(hits) + Len(w)
    BY <1>1, Zenon
  <2>2. t.closed \in BOOLEAN
    BY <2>1, Zenon
  <2>3. CASE hits = {}
    <3>1. ~t.closed
      BY <2>1, <2>3, Zenon
    <3>2. t.end = Len(Text) + 1
      BY <2>1, <2>3
    <3> QED
      BY <1>2, <2>2, <3>1, <3>2
  <2>4. CASE hits # {}
    <3>1. t.closed
      BY <2>1, <2>4, Zenon
    <3>2. t.end = Semantic!Min(hits) + Len(w)
      BY <2>1, <2>4
    <3> QED
      BY <1>2, <1>3, <2>2, <2>4, <3>1, <3>2
  <2> QED
    BY <2>3, <2>4
<1> QED
  BY <1>4 DEF t
----------------------------------------------------------------------------
(* The end of a tag and of a string: what is known of the symbols so far.  *)
TagState == [end : Nat, quote : Semantic!Quotes \cup {""}, closed : BOOLEAN, depth : Nat]

LEMMA TagByteIs ==
    ASSUME NEW s \in TagState, NEW c, NEW brackets \in BOOLEAN
    PROVE  LET t == Semantic!TagByte(s, c, brackets) IN
           /\ t \in TagState
           /\ s.closed => t = s
           /\ ~s.closed => t.end = s.end + 1
           /\ ~s.closed /\ t.closed => c = ">"
<1> DEFINE t == Semantic!TagByte(s, c, brackets)
<1>1. s.end \in Nat /\ s.closed \in BOOLEAN /\ s.depth \in Nat
  BY DEF TagState
<1>5. s.quote \in Semantic!Quotes \cup {""}
  BY DEF TagState
<1>2. CASE s.closed
  BY <1>2 DEF Semantic!TagByte
<1>3. CASE ~s.closed /\ s.quote # ""
  <2> DEFINE q == IF c = s.quote THEN "" ELSE s.quote
  <2>1. t = [[s EXCEPT !.end = s.end + 1] EXCEPT !.quote = q]
    BY <1>3 DEF Semantic!TagByte
  <2>2. q \in Semantic!Quotes \cup {""}
    BY <1>5
  <2> HIDE DEF t, q
  <2>3. [s EXCEPT !.end = s.end + 1] \in TagState /\ [s EXCEPT !.end = s.end + 1].end = s.end + 1
    <3>1. ASSUME NEW e \in Nat PROVE [s EXCEPT !.end = e] \in TagState /\ [s EXCEPT !.end = e].end = e
      BY DEF TagState
    <3>2. s.end + 1 \in Nat
      BY <1>1
    <3> QED
      BY <3>1, <3>2
  <2>4. [s EXCEPT !.end = s.end + 1].closed = s.closed
    BY DEF TagState
  <2>5. ASSUME NEW r \in TagState
        PROVE  /\ [r EXCEPT !.quote = q] \in TagState /\ [r EXCEPT !.quote = q].end = r.end
               /\ [r EXCEPT !.quote = q].closed = r.closed
    BY <2>2 DEF TagState
  <2>6. t \in TagState /\ t.end = s.end + 1
    BY <2>1, <2>3, <2>5
  <2>7. t.closed = s.closed
    BY <2>1, <2>3, <2>4, <2>5, Zenon
  <2>8. ~t.closed
    BY <1>3, <2>7, Zenon
  <2> QED
    BY <1>3, <2>6, <2>8 DEF t
<1>4. CASE ~s.closed /\ s.quote = ""
  <2> DEFINE q == IF c \in Semantic!Quotes THEN c ELSE ""
             e == c = ">" /\ s.depth = 0
             p == CASE brackets /\ c = "[" -> s.depth + 1
                    [] brackets /\ c = "]" /\ s.depth > 0 -> s.depth - 1
                    [] OTHER -> s.depth
  <2>1. t = [end |-> s.end + 1, quote |-> q, closed |-> e, depth |-> p]
    BY <1>4 DEF Semantic!TagByte
  <2>2. q \in Semantic!Quotes \cup {""}
    OBVIOUS
  <2>3. p \in Nat
    <3>1. CASE brackets /\ c = "["
      BY <1>1, <3>1
    <3>2. CASE ~(brackets /\ c = "[") /\ brackets /\ c = "]" /\ s.depth > 0
      BY <1>1, <3>2
    <3>3. CASE ~(brackets /\ c = "[") /\ ~(brackets /\ c = "]" /\ s.depth > 0)
      BY <1>1, <3>3
    <3> QED
      BY <3>1, <3>2, <3>3
  <2>4. e \in BOOLEAN /\ (e => c = ">")
    OBVIOUS
  <2> HIDE DEF t, q, e, p
  <2>5. t.end = s.end + 1 /\ t.closed = e
    BY <2>1, Zenon
  <2>6. t \in TagState
    <3>1. s.end + 1 \in Nat
      BY <1>1
    <3> QED
      BY <2>1, <2>2, <2>3, <2>4, <3>1, Zenon DEF TagState
  <2>7. t.closed => c = ">"
    BY <2>4, <2>5, Zenon
  <2> QED
    BY <1>4, <2>5, <2>6, <2>7 DEF t
<1> QED
  BY <1>1, <1>2, <1>3, <1>4

LEMMA TagEndIs ==
    ASSUME Readable, NEW i \in 1 .. Len(Text) + 1, NEW brackets \in BOOLEAN
    PROVE  LET t == Semantic!TagEnd(i, brackets) IN
           /\ t.closed \in BOOLEAN /\ t.end \in i .. Len(Text) + 1
           /\ t.closed => t.end > i /\ Text[t.end - 1] = ">"
           /\ ~t.closed => t.end = Len(Text) + 1
<1> DEFINE start == [end |-> i, quote |-> "", closed |-> FALSE, depth |-> 0]
           further == [n \in Nat |-> [s \in TagState |-> Semantic!TagByte(s, Text[i + n], brackets)]]
           seen[n \in Nat] == IF n = 0 THEN start ELSE Semantic!TagByte(seen[n - 1], Text[i + n - 1], brackets)
<1>1. start \in TagState
  <2>1. i \in Nat /\ 0 \in Nat /\ "" \in Semantic!Quotes \cup {""} /\ FALSE \in BOOLEAN
    OBVIOUS
  <2> QED
    BY <2>1, Zenon DEF TagState
<1>2. further \in [Nat -> [TagState -> TagState]]
  BY TagByteIs
<1>3. Semantic!TagEnd(i, brackets) = seen[Len(Text) + 1 - i]
  BY DEF Semantic!TagEnd, Text
<1> HIDE DEF start
<1>4. PICK R : Follows(R, TagState, start, further)
  <2> HIDE DEF further
  <2> QED
    BY <1>1, <1>2, Recursion
<1>5. R \in [Nat -> TagState] /\ R[0] = start /\ \A n \in Nat : R[n + 1] = Semantic!TagByte(R[n], Text[i + n], brackets)
  BY <1>4 DEF Follows
<1>6. R = [n \in Nat |-> IF n = 0 THEN start ELSE Semantic!TagByte(R[n - 1], Text[i + n - 1], brackets)]
  <2>1. ASSUME NEW n \in Nat PROVE R[n] = IF n = 0 THEN start ELSE Semantic!TagByte(R[n - 1], Text[i + n - 1], brackets)
    <3>1. CASE n # 0
      <4>1. n - 1 \in Nat /\ (n - 1) + 1 = n /\ i + (n - 1) = i + n - 1
        BY <3>1
      <4> QED
        BY <1>5, <4>1, <3>1
    <3> QED
      BY <1>5, <3>1
  <2> QED
    BY <1>5, <2>1
<1>7. seen = [n \in Nat |-> IF n = 0 THEN start ELSE Semantic!TagByte(seen[n - 1], Text[i + n - 1], brackets)]
  BY <1>6, Zenon
<1> HIDE DEF seen
<1> DEFINE Sound(n) ==
        /\ seen[n] \in TagState
        /\ seen[n].end \in i .. i + n
        /\ seen[n].closed => seen[n].end > i /\ Text[seen[n].end - 1] = ">"
        /\ ~seen[n].closed => seen[n].end = i + n
           T == {n \in Nat : Sound(n)}
<1>8. Sound(0)
  <2>1. seen[0] = start
    BY <1>7
  <2>2. start.end = i /\ ~start.closed
    BY DEF start
  <2> QED
    BY <1>1, <2>1, <2>2
<1>9. ASSUME NEW n \in Nat, Sound(n) PROVE Sound(n + 1)
  <2>1. seen[n + 1] = Semantic!TagByte(seen[n], Text[i + n], brackets)
    <3>1. n + 1 \in Nat /\ n + 1 # 0 /\ (n + 1) - 1 = n /\ i + (n + 1) - 1 = i + n
      OBVIOUS
    <3> QED
      BY <1>7, <3>1
  <2>2. /\ seen[n + 1] \in TagState
        /\ seen[n].closed => seen[n + 1] = seen[n]
        /\ ~seen[n].closed => seen[n + 1].end = seen[n].end + 1
        /\ ~seen[n].closed /\ seen[n + 1].closed => Text[i + n] = ">"
    BY <1>9, <2>1, TagByteIs
  <2>3. CASE seen[n].closed
    BY <1>9, <2>2, <2>3
  <2>4. CASE ~seen[n].closed
    <3>1. seen[n + 1].end = i + n + 1 /\ (i + n + 1) - 1 = i + n
      BY <1>9, <2>2, <2>4
    <3> QED
      BY <2>2, <2>4, <3>1
  <2> QED
    BY <2>3, <2>4
<1> HIDE DEF Sound
<1>10. \A n \in Nat : n \in T
  <2>1. 0 \in T /\ \A n \in Nat : n \in T => n + 1 \in T
    BY <1>8, <1>9
  <2> HIDE DEF T
  <2> QED
    BY <2>1, AllOf
<1>11. Len(Text) + 1 - i \in Nat /\ i + (Len(Text) + 1 - i) = Len(Text) + 1
  BY DEF Readable
<1>12. Sound(Len(Text) + 1 - i)
  BY <1>10, <1>11
<1>13. /\ seen[Len(Text) + 1 - i] \in TagState
       /\ seen[Len(Text) + 1 - i].end \in i .. Len(Text) + 1
       /\ seen[Len(Text) + 1 - i].closed => seen[Len(Text) + 1 - i].end > i /\ Text[seen[Len(Text) + 1 - i].end - 1] = ">"
       /\ ~seen[Len(Text) + 1 - i].closed => seen[Len(Text) + 1 - i].end = Len(Text) + 1
  BY <1>11, <1>12 DEF Sound
<1> QED
  BY <1>3, <1>13 DEF TagState

StringState == [end : Nat, escaped : BOOLEAN, closed : BOOLEAN]

LEMMA StringByteIs ==
    ASSUME NEW s \in StringState, NEW c, NEW quote
    PROVE  LET t == Semantic!StringByte(s, c, quote) IN
           /\ t \in StringState
           /\ s.closed => t = s
           /\ ~s.closed => t.end = s.end + 1
<1> DEFINE t == Semantic!StringByte(s, c, quote)
<1>1. s.end \in Nat /\ s.closed \in BOOLEAN
  BY DEF StringState
<1>2. CASE s.closed
  BY <1>2 DEF Semantic!StringByte
<1>3. CASE ~s.closed
  <2> DEFINE x == ~s.escaped /\ c = "backslash"
             e == ~s.escaped /\ c = quote
  <2>1. t = [end |-> s.end + 1, escaped |-> x, closed |-> e]
    BY <1>3 DEF Semantic!StringByte
  <2>2. x \in BOOLEAN /\ e \in BOOLEAN
    OBVIOUS
  <2> HIDE DEF t, x, e
  <2>3. t.end = s.end + 1 /\ t \in StringState
    BY <1>1, <2>1, <2>2 DEF StringState
  <2> QED
    BY <1>3, <2>3 DEF t
<1> QED
  BY <1>1, <1>2, <1>3

LEMMA StringAtIs ==
    ASSUME Readable, NEW i \in 1 .. Len(Text)
    PROVE  LET t == Semantic!StringAt(i) IN
           /\ t.closed \in BOOLEAN /\ t.end \in i + 1 .. Len(Text) + 1
           /\ t.closed => t.end > i + 1
           /\ ~t.closed => t.end = Len(Text) + 1
<1> DEFINE start == [end |-> i + 1, escaped |-> FALSE, closed |-> FALSE]
           further == [n \in Nat |-> [s \in StringState |-> Semantic!StringByte(s, Text[i + n + 1], Text[i])]]
           read[n \in Nat] == IF n = 0 THEN start ELSE Semantic!StringByte(read[n - 1], Text[i + n], Text[i])
<1>1. start \in StringState
  <2>1. i + 1 \in Nat /\ FALSE \in BOOLEAN
    BY DEF Readable
  <2> QED
    BY <2>1, Zenon DEF StringState
<1>2. further \in [Nat -> [StringState -> StringState]]
  BY StringByteIs
<1>3. Semantic!StringAt(i) = read[Len(Text) - i]
  BY DEF Semantic!StringAt, Text
<1> HIDE DEF start
<1>4. PICK R : Follows(R, StringState, start, further)
  <2> HIDE DEF further
  <2> QED
    BY <1>1, <1>2, Recursion
<1>5. R \in [Nat -> StringState] /\ R[0] = start /\ \A n \in Nat : R[n + 1] = Semantic!StringByte(R[n], Text[i + n + 1], Text[i])
  BY <1>4 DEF Follows
<1>6. R = [n \in Nat |-> IF n = 0 THEN start ELSE Semantic!StringByte(R[n - 1], Text[i + n], Text[i])]
  <2>1. ASSUME NEW n \in Nat PROVE R[n] = IF n = 0 THEN start ELSE Semantic!StringByte(R[n - 1], Text[i + n], Text[i])
    <3>1. CASE n # 0
      <4>1. n - 1 \in Nat /\ (n - 1) + 1 = n /\ i + (n - 1) + 1 = i + n
        BY <3>1
      <4> QED
        BY <1>5, <4>1, <3>1
    <3> QED
      BY <1>5, <3>1
  <2> QED
    BY <1>5, <2>1
<1>7. read = [n \in Nat |-> IF n = 0 THEN start ELSE Semantic!StringByte(read[n - 1], Text[i + n], Text[i])]
  BY <1>6, Zenon
<1> HIDE DEF read
<1> DEFINE Sound(n) ==
        /\ read[n] \in StringState
        /\ read[n].end \in i + 1 .. i + 1 + n
        /\ read[n].closed => read[n].end > i + 1
        /\ ~read[n].closed => read[n].end = i + 1 + n
           T == {n \in Nat : Sound(n)}
<1>8. Sound(0)
  <2>1. read[0] = start
    BY <1>7
  <2>2. start.end = i + 1 /\ ~start.closed
    BY DEF start
  <2> QED
    BY <1>1, <2>1, <2>2
<1>9. ASSUME NEW n \in Nat, Sound(n) PROVE Sound(n + 1)
  <2>1. read[n + 1] = Semantic!StringByte(read[n], Text[i + (n + 1)], Text[i])
    <3>1. n + 1 \in Nat /\ n + 1 # 0 /\ (n + 1) - 1 = n
      OBVIOUS
    <3> QED
      BY <1>7, <3>1
  <2>2. /\ read[n + 1] \in StringState
        /\ read[n].closed => read[n + 1] = read[n]
        /\ ~read[n].closed => read[n + 1].end = read[n].end + 1
    BY <1>9, <2>1, StringByteIs
  <2>3. CASE read[n].closed
    BY <1>9, <2>2, <2>3
  <2>4. CASE ~read[n].closed
    <3>1. read[n + 1].end = i + 1 + (n + 1)
      BY <1>9, <2>2, <2>4
    <3> QED
      BY <2>2, <2>4, <3>1
  <2> QED
    BY <2>3, <2>4
<1> HIDE DEF Sound
<1>10. \A n \in Nat : n \in T
  <2>1. 0 \in T /\ \A n \in Nat : n \in T => n + 1 \in T
    BY <1>8, <1>9
  <2> HIDE DEF T
  <2> QED
    BY <2>1, AllOf
<1>11. Len(Text) - i \in Nat /\ i + 1 + (Len(Text) - i) = Len(Text) + 1
  BY DEF Readable
<1>12. Sound(Len(Text) - i)
  BY <1>10, <1>11
<1>13. /\ read[Len(Text) - i] \in StringState
       /\ read[Len(Text) - i].end \in i + 1 .. Len(Text) + 1
       /\ read[Len(Text) - i].closed => read[Len(Text) - i].end > i + 1
       /\ ~read[Len(Text) - i].closed => read[Len(Text) - i].end = Len(Text) + 1
  BY <1>11, <1>12 DEF Sound
<1> QED
  BY <1>3, <1>13 DEF StringState
----------------------------------------------------------------------------
(* Fields: each lies where it says and its value in it; in a row, they     *)
(* follow each other between two positions of the text d.                  *)
FieldParts == {"kind", "key", "start", "end", "path", "value", "reliable", "node"}
Listed(s) == \E S : s \in Seq(S)
HasPlace(f) ==
    /\ DOMAIN f = FieldParts /\ f.start \in Nat /\ f.end \in Nat /\ f.start < f.end
    /\ f.value = <<>> \/ \E v \in f.start .. f.end : \E w \in v .. f.end : f.value = <<v, w>>
Keyed(d, f) ==
    f.value # <<>> /\ f.kind \in {"element_name", "string", "object_key"} /\ d[f.start] \notin Semantic!Blanks
        => SubSeq(d, f.value[1], f.value[2] - 1) = f.key
Placed(d, f, lo, hi) == HasPlace(f) /\ lo <= f.start /\ f.end <= hi /\ Keyed(d, f)
Follow(f, g) ==
    f.end <= g.start \/ (f.kind = "xml_decl" /\ g.kind = "xml_decl_attr" /\ Semantic!Within(g, f))
Row(d, s, lo, hi) ==
    /\ Listed(s)
    /\ \A i \in 1 .. Len(s) : Placed(d, s[i], lo, hi)
    /\ \A i, j \in 1 .. Len(s) : i < j => Follow(s[i], s[j])

LEMMA FieldIs ==
    ASSUME NEW kind, NEW key, NEW start, NEW end, NEW path, NEW value, NEW reliable
    PROVE  LET f == Semantic!Field(kind, key, start, end, path, value, reliable) IN
           /\ DOMAIN f = FieldParts
           /\ f.kind = kind /\ f.key = key /\ f.start = start /\ f.end = end /\ f.value = value
<1>1. DOMAIN Semantic!Field(kind, key, start, end, path, value, reliable) = FieldParts
  BY DEF Semantic!Field, FieldParts
<1>2. LET f == Semantic!Field(kind, key, start, end, path, value, reliable) IN
      f.kind = kind /\ f.key = key /\ f.start = start /\ f.end = end /\ f.value = value
  BY Zenon DEF Semantic!Field
<1> QED
  BY <1>1, <1>2, Zenon

LEMMA NoValuePlaced ==
    ASSUME NEW d, NEW kind, NEW key, NEW start \in Nat, NEW end \in Nat, NEW path, NEW reliable, start < end
    PROVE  Placed(d, Semantic!Field(kind, key, start, end, path, <<>>, reliable), start, end)
<1> DEFINE f == Semantic!Field(kind, key, start, end, path, <<>>, reliable)
<1>1. DOMAIN f = FieldParts /\ f.start = start /\ f.end = end /\ f.value = <<>>
  BY FieldIs
<1> HIDE DEF f
<1>2. HasPlace(f) /\ Keyed(d, f) /\ start <= f.start /\ f.end <= end
  BY <1>1 DEF HasPlace, Keyed
<1> QED
  BY <1>2 DEF Placed, f

LEMMA ValuePlaced ==
    ASSUME NEW d, NEW kind, NEW key, NEW start \in Nat, NEW end \in Nat, NEW path, NEW reliable, start < end,
           NEW v \in start .. end, NEW w \in v .. end,
           kind \in {"element_name", "string", "object_key"} /\ d[start] \notin Semantic!Blanks
               => SubSeq(d, v, w - 1) = key
    PROVE  Placed(d, Semantic!Field(kind, key, start, end, path, <<v, w>>, reliable), start, end)
<1> DEFINE f == Semantic!Field(kind, key, start, end, path, <<v, w>>, reliable)
<1>1. DOMAIN f = FieldParts /\ f.start = start /\ f.end = end /\ f.value = <<v, w>> /\ f.kind = kind /\ f.key = key
  BY FieldIs
<1> HIDE DEF f
<1>2. f.value[1] = v /\ f.value[2] = w
  BY <1>1
<1>3. HasPlace(f)
  BY <1>1 DEF HasPlace
<1>4. Keyed(d, f)
  BY <1>1, <1>2 DEF Keyed
<1>5. start <= f.start /\ f.end <= end
  BY <1>1
<1> QED
  BY <1>3, <1>4, <1>5 DEF Placed, f

LEMMA PlacedWider ==
    ASSUME NEW d, NEW f, NEW lo \in Nat, NEW hi \in Nat, Placed(d, f, lo, hi),
           NEW l \in Nat, NEW h \in Nat, l <= lo, hi <= h
    PROVE  Placed(d, f, l, h)
BY DEF Placed, HasPlace

LEMMA RowWider ==
    ASSUME NEW d, NEW s, NEW lo \in Nat, NEW hi \in Nat, Row(d, s, lo, hi),
           NEW l \in Nat, NEW h \in Nat, l <= lo, hi <= h
    PROVE  Row(d, s, l, h)
<1>1. \A i \in 1 .. Len(s) : Placed(d, s[i], l, h)
  BY PlacedWider DEF Row
<1> QED
  BY <1>1 DEF Row

LEMMA EmptyRow == ASSUME NEW d, NEW lo \in Nat, NEW hi \in Nat PROVE Row(d, <<>>, lo, hi)
<1>1. <<>> \in Seq({}) /\ Len(<<>>) = 0
  OBVIOUS
<1> QED
  BY <1>1 DEF Row, Listed

LEMMA OneRow ==
    ASSUME NEW d, NEW f, NEW lo \in Nat, NEW hi \in Nat, Placed(d, f, lo, hi)
    PROVE  Row(d, <<f>>, lo, hi)
<1>1. <<f>> \in Seq({f}) /\ Len(<<f>>) = 1 /\ <<f>>[1] = f
  OBVIOUS
<1>2. Listed(<<f>>)
  BY <1>1 DEF Listed
<1>3. \A i \in 1 .. Len(<<f>>) : Placed(d, <<f>>[i], lo, hi)
  BY <1>1
<1>4. \A i, j \in 1 .. Len(<<f>>) : ~(i < j)
  BY <1>1
<1> QED
  BY <1>2, <1>3, <1>4 DEF Row

LEMMA JoinIs ==
    ASSUME NEW s, NEW t, Listed(s), Listed(t)
    PROVE  /\ Listed(s \o t) /\ Len(s) \in Nat /\ Len(t) \in Nat /\ Len(s \o t) = Len(s) + Len(t)
           /\ \A i \in 1 .. Len(s) : (s \o t)[i] = s[i]
           /\ \A i \in Len(s) + 1 .. Len(s) + Len(t) : (s \o t)[i] = t[i - Len(s)] /\ i - Len(s) \in 1 .. Len(t)
<1>1. PICK S : s \in Seq(S)
  BY DEF Listed
<1>2. PICK T : t \in Seq(T)
  BY DEF Listed
<1>3. s \in Seq(S \cup T) /\ t \in Seq(S \cup T)
  BY <1>1, <1>2
<1>4. s \o t \in Seq(S \cup T)
  BY <1>3
<1>5. Listed(s \o t)
  BY <1>4 DEF Listed
<1>6. Len(s) \in Nat /\ Len(t) \in Nat
  BY <1>3
<1> QED
  BY <1>3, <1>5, <1>6

(* Two lists of fields one after the other, when the second may follow.    *)
LEMMA JoinedRows ==
    ASSUME NEW d, NEW s, NEW t, NEW lo, NEW hi, Row(d, s, lo, hi), Row(d, t, lo, hi),
           \A i \in 1 .. Len(s) : \A j \in 1 .. Len(t) : Follow(s[i], t[j])
    PROVE  Row(d, s \o t, lo, hi)
<1>1. Listed(s) /\ Listed(t)
  BY DEF Row
<1>2. /\ Listed(s \o t) /\ Len(s) \in Nat /\ Len(t) \in Nat /\ Len(s \o t) = Len(s) + Len(t)
      /\ \A i \in 1 .. Len(s) : (s \o t)[i] = s[i]
      /\ \A i \in Len(s) + 1 .. Len(s) + Len(t) : (s \o t)[i] = t[i - Len(s)] /\ i - Len(s) \in 1 .. Len(t)
  BY <1>1, JoinIs
<1> DEFINE u == s \o t
<1> HIDE DEF u
<1>3. /\ Len(s) \in Nat /\ Len(t) \in Nat /\ Len(u) = Len(s) + Len(t)
      /\ \A i \in 1 .. Len(s) : u[i] = s[i]
      /\ \A i \in Len(s) + 1 .. Len(s) + Len(t) : u[i] = t[i - Len(s)] /\ i - Len(s) \in 1 .. Len(t)
  BY <1>2 DEF u
<1>4. ASSUME NEW i \in 1 .. Len(u) PROVE Placed(d, u[i], lo, hi)
  <2>1. CASE i <= Len(s)
    <3>1. i \in 1 .. Len(s) /\ u[i] = s[i]
      BY <1>3, <2>1
    <3> QED
      BY <3>1 DEF Row
  <2>2. CASE ~(i <= Len(s))
    <3>1. i - Len(s) \in 1 .. Len(t) /\ u[i] = t[i - Len(s)]
      BY <1>3, <2>2
    <3> QED
      BY <3>1 DEF Row
  <2> QED
    BY <2>1, <2>2
<1>5. ASSUME NEW i \in 1 .. Len(u), NEW j \in 1 .. Len(u), i < j PROVE Follow(u[i], u[j])
  <2>1. CASE j <= Len(s)
    <3>1. i \in 1 .. Len(s) /\ u[i] = s[i] /\ j \in 1 .. Len(s) /\ u[j] = s[j]
      BY <1>3, <1>5, <2>1
    <3> QED
      BY <1>5, <3>1 DEF Row
  <2>2. CASE ~(j <= Len(s)) /\ i <= Len(s)
    <3>1. i \in 1 .. Len(s) /\ u[i] = s[i] /\ j - Len(s) \in 1 .. Len(t) /\ u[j] = t[j - Len(s)]
      BY <1>3, <2>2
    <3> QED
      BY <3>1
  <2>3. CASE ~(i <= Len(s))
    <3>1. /\ i - Len(s) \in 1 .. Len(t) /\ u[i] = t[i - Len(s)]
          /\ j - Len(s) \in 1 .. Len(t) /\ u[j] = t[j - Len(s)] /\ i - Len(s) < j - Len(s)
      BY <1>3, <1>5, <2>3
    <3> QED
      BY <3>1 DEF Row
  <2> QED
    BY <2>1, <2>2, <2>3
<1> QED
  BY <1>2, <1>4, <1>5 DEF Row, u

LEMMA NextRow ==
    ASSUME NEW d, NEW s, NEW t, NEW lo \in Nat, NEW mid \in Nat, NEW hi \in Nat, lo <= mid, mid <= hi,
           Row(d, s, lo, mid), Row(d, t, mid, hi)
    PROVE  Row(d, s \o t, lo, hi)
<1>1. Row(d, s, lo, hi) /\ Row(d, t, lo, hi)
  BY RowWider
<1>2. ASSUME NEW i \in 1 .. Len(s), NEW j \in 1 .. Len(t) PROVE Follow(s[i], t[j])
  <2>1. Placed(d, s[i], lo, mid) /\ Placed(d, t[j], mid, hi)
    BY DEF Row
  <2>2. s[i].end \in Nat /\ t[j].start \in Nat /\ s[i].end <= mid /\ mid <= t[j].start
    BY <2>1 DEF Placed, HasPlace
  <2>3. s[i].end <= t[j].start
    BY <2>2
  <2> QED
    BY <2>3 DEF Follow
<1> QED
  BY <1>1, <1>2, JoinedRows

LEMMA AppendIsJoin == ASSUME NEW s, NEW f, Listed(s) PROVE Append(s, f) = s \o <<f>>
<1>1. PICK S : s \in Seq(S)
  BY DEF Listed
<1>2. s \in Seq(S \cup {f}) /\ f \in S \cup {f}
  BY <1>1
<1> QED
  BY <1>2
----------------------------------------------------------------------------
(* Attributes.  A run of symbols that begins before a symbol outside S, or *)
(* before the end of the text, ends there at the latest.                   *)
Bound(d, hi) == hi \in 1 .. Len(d) + 1 /\ (hi = Len(d) + 1 \/ d[hi] = ">")

LEMMA PastBelow ==
    ASSUME NEW d \in Seq(STRING), NEW hi, Bound(d, hi), NEW i \in 1 .. hi, NEW S, ">" \notin S
    PROVE  LET p == Semantic!Past(d, i, S) IN p \in i .. hi /\ \A j \in i .. p - 1 : d[j] \in S
<1> DEFINE p == Semantic!Past(d, i, S)
<1>1. hi \in Nat /\ i \in Nat /\ Len(d) \in Nat /\ hi <= Len(d) + 1 /\ i \in 1 .. Len(d) + 1
  BY DEF Bound
<1>2. p \in i .. Len(d) + 1 /\ (\A j \in i .. p - 1 : d[j] \in S)
  BY <1>1, PastIs
<1> HIDE DEF p
<1>3. p <= hi
  <2>1. ASSUME p > hi PROVE FALSE
    <3>1. hi # Len(d) + 1 /\ hi \in i .. p - 1
      BY <1>1, <1>2, <2>1
    <3>2. d[hi] = ">" /\ d[hi] \in S
      BY <1>2, <3>1 DEF Bound
    <3> QED
      BY <3>2
  <2> QED
    BY <1>1, <1>2, <2>1
<1>4. p \in i .. hi
  BY <1>1, <1>2, <1>3
<1> QED
  BY <1>2, <1>4 DEF p

LEMMA NoMarkupInNames == ">" \notin Semantic!Blanks /\ ">" \notin Semantic!NameChars
BY DEF Semantic!Blanks, Semantic!NameChars, Semantic!NameMarks, Semantic!Digits

LEMMA AttributeIs ==
    ASSUME NEW d \in Seq(STRING), NEW hi, Bound(d, hi), NEW to \in Nat, to <= hi,
           NEW i \in Nat \ {0}, i < to, d[i] \in Semantic!NameChars, NEW path
    PROVE  LET a == Semantic!Attribute(d, i, to, path) IN
           a.kind = "attribute" /\ a.end \in i + 1 .. hi /\ Placed(d, a, i, a.end)
<1> DEFINE n == Semantic!Past(d, i, Semantic!NameChars)
           j == Semantic!Past(d, n, Semantic!Blanks)
           k == Semantic!Past(d, j + 1, Semantic!Blanks)
           ws == {m \in k + 1 .. to - 1 : d[m] = d[k]} \cup {to}
           w == Semantic!Min(ws)
           us == {m \in k .. to - 1 : d[m] \in Semantic!Blanks \cup {"/", ">"}} \cup {IF k > to THEN k ELSE to}
           u == Semantic!Min(us)
           A(end, value, reliable) ==
              Semantic!Field("attribute", SubSeq(d, i, n - 1), i, end, Append(path, <<"@">> \o SubSeq(d, i, n - 1)),
                           value, reliable)
           a == Semantic!Attribute(d, i, to, path)
<1>1. hi \in Nat /\ Len(d) \in Nat /\ hi <= Len(d) + 1 /\ i \in 1 .. Len(d) /\ i \in 1 .. hi
  BY DEF Bound
<1>2. n \in i + 1 .. hi
  <2>1. n \in i .. hi
    BY <1>1, PastBelow, NoMarkupInNames
  <2>2. n <= Len(d) => d[n] \notin Semantic!NameChars
    <3>1. i \in 1 .. Len(d) + 1
      BY <1>1
    <3> QED
      BY <3>1, PastIs
  <2> HIDE DEF n
  <2>3. n # i
    BY <1>1, <2>2
  <2> QED
    BY <1>1, <2>1, <2>3
<1>3. a = IF j >= to \/ d[j] # "=" THEN A(j, <<>>, TRUE)
          ELSE IF k < to /\ d[k] \in Semantic!Quotes
          THEN A(IF w < to THEN w + 1 ELSE w, <<k + 1, w>>, w < to)
          ELSE A(u, <<k, u>>, FALSE)
  BY DEF Semantic!Attribute
<1> HIDE DEF n
<1>4. j \in n .. hi
  <2>1. n \in 1 .. hi
    BY <1>1, <1>2
  <2> QED
    BY <2>1, PastBelow, NoMarkupInNames
<1> HIDE DEF a, j
<1>7. \A end, value, reliable : A(end, value, reliable).end = end /\ A(end, value, reliable).kind = "attribute"
  BY FieldIs
<1> HIDE DEF A
<1>5. CASE j >= to \/ d[j] # "="
  <2>1. a = A(j, <<>>, TRUE)
    BY <1>3, <1>5
  <2>2. j \in Nat /\ i < j /\ j \in i + 1 .. hi
    BY <1>1, <1>2, <1>4
  <2>3. Placed(d, A(j, <<>>, TRUE), i, j)
    BY <2>2, NoValuePlaced DEF A
  <2>4. a.end = j /\ a.kind = "attribute"
    BY <1>7, <2>1, Zenon
  <2> QED
    BY <2>1, <2>2, <2>3, <2>4 DEF a
<1>6. CASE ~(j >= to \/ d[j] # "=")
  <2>1. j + 1 \in 1 .. hi
    BY <1>1, <1>2, <1>4, <1>6
  <2>2. k \in j + 1 .. hi
    BY <2>1, PastBelow, NoMarkupInNames
  <2> HIDE DEF k
  <2>3. k \in Nat /\ i + 1 < k /\ k <= hi
    BY <1>1, <1>2, <1>4, <2>2
  <2>4. CASE k < to /\ d[k] \in Semantic!Quotes
    <3>1. ws \in SUBSET Nat /\ ws # {} /\ \A x \in ws : k + 1 <= x /\ x <= to
      BY <2>3, <2>4
    <3>2. w \in ws
      BY <3>1, FirstIs
    <3>3. w \in k + 1 .. to
      BY <2>3, <3>1, <3>2
    <3> HIDE DEF w, ws
    <3> DEFINE e == IF w < to THEN w + 1 ELSE w
    <3>4. a = A(e, <<k + 1, w>>, w < to)
      BY <1>3, <1>6, <2>4
    <3>5. e \in i + 1 .. hi /\ e \in Nat /\ i < e /\ k + 1 \in i .. e /\ w \in k + 1 .. e
      BY <1>1, <2>3, <2>4, <3>3
    <3> HIDE DEF e
    <3>6. Placed(d, A(e, <<k + 1, w>>, w < to), i, e)
      <4>1. "attribute" \notin {"element_name", "string", "object_key"}
        OBVIOUS
      <4> QED
        BY <3>5, <4>1, ValuePlaced DEF A
    <3>7. a.end = e /\ a.kind = "attribute"
      BY <1>7, <3>4, Zenon
    <3> QED
      BY <3>4, <3>5, <3>6, <3>7 DEF a
  <2>5. CASE ~(k < to /\ d[k] \in Semantic!Quotes)
    <3>1. us \in SUBSET Nat /\ us # {} /\ \A x \in us : k <= x /\ x <= hi
      BY <1>1, <2>3
    <3>2. u \in us
      BY <3>1, FirstIs
    <3>3. u \in k .. hi
      BY <1>1, <2>3, <3>1, <3>2
    <3> HIDE DEF u, us
    <3>4. a = A(u, <<k, u>>, FALSE)
      BY <1>3, <1>6, <2>5
    <3>5. u \in i + 1 .. hi /\ u \in Nat /\ i < u /\ k \in i .. u /\ u \in k .. u
      BY <1>1, <2>3, <3>3
    <3>6. Placed(d, A(u, <<k, u>>, FALSE), i, u)
      <4>1. "attribute" \notin {"element_name", "string", "object_key"}
        OBVIOUS
      <4> QED
        BY <3>5, <4>1, ValuePlaced DEF A
    <3>7. a.end = u /\ a.kind = "attribute"
      BY <1>7, <3>4, Zenon
    <3> QED
      BY <3>4, <3>5, <3>6, <3>7 DEF a
  <2> QED
    BY <2>4, <2>5
<1> QED
  BY <1>5, <1>6

LEMMA ParseAttributesIs ==
    ASSUME NEW d \in Seq(STRING), NEW hi, Bound(d, hi), NEW to \in Nat, to <= hi, NEW from \in 1 .. hi, NEW path
    PROVE  LET s == Semantic!ParseAttributes(d, from, to, path) IN
           Row(d, s, from, hi) /\ \A i \in 1 .. Len(s) : s[i].kind = "attribute"
<1> DEFINE Attributes == {Semantic!Attribute(d, i, to, path) : i \in Nat}
           Turn == [at : from .. hi, found : Seq(Attributes)]
           Kinds(s) == \A i \in 1 .. Len(s) : s[i].kind = "attribute"
           Sound == {p \in Turn : Row(d, p.found, from, p.at) /\ Kinds(p.found)}
           first == [at |-> from, found |-> <<>>]
           further == [n \in Nat |-> [p \in Sound |-> Semantic!AttributeTurn(p, d, to, path)]]
           turns[n \in Nat] == IF n = 0 THEN first ELSE Semantic!AttributeTurn(turns[n - 1], d, to, path)
           last == IF from < to THEN to - from ELSE 0
<1>1. hi \in Nat /\ Len(d) \in Nat /\ hi <= Len(d) + 1 /\ from \in Nat
  BY DEF Bound
<1>2. first \in Sound
  <2>1. first \in Turn /\ first.found = <<>> /\ first.at = from /\ Len(<<>>) = 0
    BY <1>1
  <2>2. Row(d, <<>>, from, from)
    BY <1>1, EmptyRow
  <2> QED
    BY <2>1, <2>2
<1>3. ASSUME NEW p \in Sound PROVE Semantic!AttributeTurn(p, d, to, path) \in Sound
  <2> DEFINE s == Semantic!Past(d, p.at, Semantic!Blanks)
             a == Semantic!Attribute(d, s, to, path)
             t == Semantic!AttributeTurn(p, d, to, path)
             over == to <= p.at \/ s >= to \/ d[s] \in {"/", ">", "?"}
  <2>1. t = IF over THEN p
            ELSE IF d[s] \notin Semantic!NameChars THEN [at |-> s + 1, found |-> p.found]
            ELSE [at |-> a.end, found |-> Append(p.found, a)]
    BY DEF Semantic!AttributeTurn
  <2>2. p.at \in from .. hi /\ p.found \in Seq(Attributes) /\ Row(d, p.found, from, p.at) /\ Kinds(p.found)
    OBVIOUS
  <2>3. s \in p.at .. hi
    <3>1. p.at \in 1 .. hi
      BY <1>1, <2>2
    <3> QED
      BY <3>1, PastBelow, NoMarkupInNames
  <2>4. a \in Attributes
    BY <1>1, <2>2, <2>3
  <2> HIDE DEF s, t, Attributes, Kinds
  <2>5. CASE over
    BY <2>1, <2>5 DEF t
  <2>6. CASE ~over /\ d[s] \notin Semantic!NameChars
    <3>1. t = [at |-> s + 1, found |-> p.found]
      BY <2>1, <2>6
    <3>2. s + 1 \in from .. hi /\ p.at <= s + 1 /\ p.at \in Nat /\ s + 1 \in Nat
      BY <1>1, <2>2, <2>3, <2>6
    <3>3. Row(d, p.found, from, s + 1)
      BY <1>1, <2>2, <3>2, RowWider
    <3> QED
      BY <2>2, <3>1, <3>2, <3>3 DEF t
  <2>7. CASE ~over /\ d[s] \in Semantic!NameChars
    <3>1. t = [at |-> a.end, found |-> Append(p.found, a)]
      BY <2>1, <2>7
    <3>2. s \in Nat \ {0} /\ s < to /\ p.at \in Nat /\ p.at <= s
      BY <1>1, <2>2, <2>3, <2>7
    <3>3. a.kind = "attribute" /\ a.end \in s + 1 .. hi /\ Placed(d, a, s, a.end)
      BY <2>7, <3>2, AttributeIs
    <3> HIDE DEF a
    <3>4. a.end \in from .. hi /\ a.end \in Nat /\ p.at <= a.end /\ from <= p.at
      BY <1>1, <2>2, <2>3, <3>2, <3>3
    <3>5. Row(d, <<a>>, p.at, a.end)
      <4>1. Placed(d, a, p.at, a.end)
        BY <3>2, <3>3, <3>4, PlacedWider
      <4> QED
        BY <3>2, <3>4, <4>1, OneRow
    <3>6. Row(d, p.found \o <<a>>, from, a.end)
      BY <1>1, <2>2, <3>2, <3>4, <3>5, NextRow
    <3>7. Append(p.found, a) = p.found \o <<a>> /\ Append(p.found, a) \in Seq(Attributes)
      BY <2>2, <2>4
    <3>8. Kinds(Append(p.found, a))
      BY <2>2, <2>4, <3>3 DEF Kinds
    <3> DEFINE r == [at |-> a.end, found |-> Append(p.found, a)]
    <3>9. r.at = a.end /\ r.found = Append(p.found, a) /\ r \in Turn
      BY <3>4, <3>7
    <3> HIDE DEF r
    <3>10. r \in Sound
      BY <3>6, <3>7, <3>8, <3>9
    <3> QED
      BY <3>1, <3>10 DEF t, r
  <2> QED
    BY <2>5, <2>6, <2>7 DEF t
<1>4. further \in [Nat -> [Sound -> Sound]]
  BY <1>3
<1>5. Semantic!ParseAttributes(d, from, to, path) = turns[last].found
  BY DEF Semantic!ParseAttributes
<1> HIDE DEF first
<1>6. PICK R : Follows(R, Sound, first, further)
  <2> HIDE DEF further, Sound
  <2> QED
    BY <1>2, <1>4, Recursion
<1>7. R \in [Nat -> Sound] /\ R[0] = first /\ \A n \in Nat : R[n + 1] = Semantic!AttributeTurn(R[n], d, to, path)
  <2> HIDE DEF Sound
  <2>1. R \in [Nat -> Sound] /\ R[0] = first /\ \A n \in Nat : R[n + 1] = further[n][R[n]]
    BY <1>6 DEF Follows
  <2>2. \A n \in Nat : \A p \in Sound : further[n][p] = Semantic!AttributeTurn(p, d, to, path)
    OBVIOUS
  <2> HIDE DEF further
  <2> QED
    BY <2>1, <2>2
<1>8. R = [n \in Nat |-> IF n = 0 THEN first ELSE Semantic!AttributeTurn(R[n - 1], d, to, path)]
  <2> HIDE DEF Sound
  <2>1. ASSUME NEW n \in Nat PROVE R[n] = IF n = 0 THEN first ELSE Semantic!AttributeTurn(R[n - 1], d, to, path)
    <3>1. CASE n # 0
      <4>1. n - 1 \in Nat /\ (n - 1) + 1 = n
        BY <3>1
      <4> QED
        BY <1>7, <4>1, <3>1
    <3> QED
      BY <1>7, <3>1
  <2> QED
    BY <1>7, <2>1
<1>9. turns = [n \in Nat |-> IF n = 0 THEN first ELSE Semantic!AttributeTurn(turns[n - 1], d, to, path)]
  BY <1>8, Zenon
<1> HIDE DEF turns
<1>10. turns[0] \in Sound /\ \A n \in Nat : turns[n] \in Sound => turns[n + 1] \in Sound
  <2>1. turns[0] = first
    BY <1>9
  <2>2. ASSUME NEW n \in Nat PROVE turns[n + 1] = Semantic!AttributeTurn(turns[n], d, to, path)
    <3>1. n + 1 \in Nat /\ n + 1 # 0 /\ (n + 1) - 1 = n
      OBVIOUS
    <3> QED
      BY <1>9, <3>1
  <2> HIDE DEF Sound
  <2> QED
    BY <1>2, <1>3, <2>1, <2>2
<1>11. turns[last] \in Sound
  <2>1. last \in Nat
    BY <1>1
  <2> HIDE DEF Sound, last
  <2>2. \A n \in Nat : turns[n] \in Sound
    BY <1>10, Keeps
  <2> QED
    BY <2>1, <2>2
<1> HIDE DEF last
<1>12. PICK p \in Sound : p = turns[last]
  BY <1>11
<1>13. p.at \in from .. hi /\ Row(d, p.found, from, p.at) /\ Kinds(p.found)
  OBVIOUS
<1>14. Row(d, p.found, from, hi)
  BY <1>1, <1>13, RowWider
<1> QED
  BY <1>5, <1>12, <1>13, <1>14
----------------------------------------------------------------------------
(* A scanner between two symbols, and what each of its steps adds.         *)
Scanned == Readable /\ position \in 1 .. Len(Text) + 1 /\ Row(Text, fields, 1, position)
Moves == Scanned' /\ seed' = seed /\ reading' = reading

LEMMA TakeIs ==
    ASSUME Scanned, NEW new, NEW end \in position .. Len(Text) + 1, Row(Text, new, position, end),
           NEW ok, Semantic!Take(new, end, ok)
    PROVE  Moves
<1>1. fields' = fields \o new /\ position' = end /\ seed' = seed /\ reading' = reading
  BY DEF Semantic!Take
<1>2. Text' = Text
  BY <1>1 DEF Text, Semantic!Payload
<1>3. position \in Nat /\ end \in Nat /\ 1 <= position /\ position <= end /\ end \in 1 .. Len(Text) + 1
  BY DEF Scanned, Readable
<1>4. Row(Text, fields \o new, 1, end)
  BY <1>3, NextRow DEF Scanned
<1> HIDE DEF Text
<1>5. Readable' /\ position' \in 1 .. Len(Text') + 1
  BY <1>1, <1>2, <1>3 DEF Scanned, Readable
<1>6. Row(Text', fields', 1, position')
  BY <1>1, <1>2, <1>4
<1>7. Scanned'
  BY <1>5, <1>6 DEF Scanned
<1> QED
  BY <1>1, <1>7 DEF Moves

(* The two shapes of what is taken: nothing, or one field of the end.      *)
LEMMA NothingTaken ==
    ASSUME Scanned, NEW end \in position .. Len(Text) + 1, NEW ok, Semantic!Take(<<>>, end, ok)
    PROVE  Moves
<1>1. position \in Nat /\ end \in Nat
  BY DEF Scanned, Readable
<1> QED
  BY <1>1, EmptyRow, TakeIs

LEMMA FieldTaken ==
    ASSUME Scanned, NEW start \in position .. Len(Text), NEW end \in start + 1 .. Len(Text) + 1,
           NEW f, Placed(Text, f, start, end), NEW ok, Semantic!Take(<<f>>, end, ok)
    PROVE  Moves
<1>1. position \in Nat /\ start \in Nat /\ end \in Nat /\ position <= start /\ end \in position .. Len(Text) + 1
  BY DEF Scanned, Readable
<1>2. Row(Text, <<f>>, start, end)
  BY <1>1, OneRow
<1>3. Row(Text, <<f>>, position, end)
  BY <1>1, <1>2, RowWider
<1> QED
  BY <1>1, <1>3, TakeIs

Marks == {"<", "!", "-", "[", "CDATA", "]", ">", "/", "?", "DOCTYPE"}

LEMMA XmlTextMoves == ASSUME Scanned, position <= Len(Text), Semantic!XmlText PROVE Moves
<1> DEFINE end == Semantic!Until(Text, position, {"<"})
           f == Semantic!Field("text", <<>>, position, end, Append(nest, <<"text()">>), <<>>, TRUE)
<1>1. /\ Text[position] # "<"
      /\ Semantic!Take(IF Semantic!Past(Text, position, Semantic!Blanks) >= end THEN <<>> ELSE <<f>>, end, TRUE)
  BY DEF Semantic!XmlText, Text
<1>2. position \in 1 .. Len(Text) /\ position \in Nat /\ Len(Text) \in Nat
  BY DEF Scanned, Readable
<1>3. end \in position .. Len(Text) + 1 /\ (end <= Len(Text) => Text[end] \in {"<"})
  <2>1. position \in 1 .. Len(Text) + 1
    BY DEF Scanned
  <2> QED
    BY <2>1, UntilIs DEF Scanned, Readable
<1> HIDE DEF end
<1>4. end \in position + 1 .. Len(Text) + 1 /\ end \in Nat /\ position < end
  BY <1>1, <1>2, <1>3
<1>5. CASE Semantic!Past(Text, position, Semantic!Blanks) >= end
  BY <1>1, <1>3, <1>5, NothingTaken
<1>6. CASE ~(Semantic!Past(Text, position, Semantic!Blanks) >= end)
  <2>1. Semantic!Take(<<f>>, end, TRUE)
    BY <1>1, <1>6
  <2>2. Placed(Text, f, position, end)
    BY <1>2, <1>4, NoValuePlaced
  <2> HIDE DEF f
  <2>3. position \in position .. Len(Text)
    BY <1>2
  <2> QED
    BY <1>4, <2>1, <2>2, <2>3, FieldTaken
<1> QED
  BY <1>5, <1>6

LEMMA XmlMarkupMoves == ASSUME Scanned, position <= Len(Text), Semantic!XmlMarkup PROVE Moves
<1>1. PICK m \in Semantic!Markup :
         /\ Semantic!At(position, m.open)
         /\ LET t == Semantic!Through(position + Len(m.open), m.close)
            IN  Semantic!Take(<<Semantic!Field(m.kind, <<>>, position, t.end, Append(nest, <<m.kind>>), <<>>, t.closed)>>,
                            t.end, t.closed)
  BY Zenon DEF Semantic!XmlMarkup
<1> DEFINE t == Semantic!Through(position + Len(m.open), m.close)
           f == Semantic!Field(m.kind, <<>>, position, t.end, Append(nest, <<m.kind>>), <<>>, t.closed)
<1>2. position \in 1 .. Len(Text) /\ position \in Nat \ {0} /\ Len(Text) \in Nat
  BY DEF Scanned, Readable
<1>3. m.open \in Seq(Marks) /\ m.close \in Seq(Marks) /\ Len(m.open) \in Nat /\ Len(m.open) >= 4
  <2>1. /\ <<"<", "!", "-", "-">> \in Seq(Marks) /\ <<"-", "-", ">">> \in Seq(Marks)
        /\ <<"<", "!", "[", "CDATA", "[">> \in Seq(Marks) /\ <<"]", "]", ">">> \in Seq(Marks)
    BY DEF Marks
  <2>2. \/ m.open = <<"<", "!", "-", "-">> /\ m.close = <<"-", "-", ">">>
        \/ m.open = <<"<", "!", "[", "CDATA", "[">> /\ m.close = <<"]", "]", ">">>
    BY DEF Semantic!Markup
  <2>3. m.open \in Seq(Marks) /\ m.close \in Seq(Marks)
    BY <2>1, <2>2, Zenon
  <2>4. Len(<<"<", "!", "-", "-">>) = 4 /\ Len(<<"<", "!", "[", "CDATA", "[">>) = 5
    OBVIOUS
  <2>5. Len(m.open) = 4 \/ Len(m.open) = 5
    BY <2>2, <2>4, Zenon
  <2>6. Len(m.open) \in Nat /\ Len(m.open) >= 4
    <3> DEFINE n == Len(m.open)
    <3> HIDE DEF n
    <3>1. n = 4 \/ n = 5
      BY <2>5 DEF n
    <3>2. n \in Nat /\ n >= 4
      BY <3>1
    <3> QED
      BY <3>2 DEF n
  <2> QED
    BY <2>3, <2>6, Zenon
<1>4. position + Len(m.open) <= Len(Text) + 1
  BY <1>1, <1>2, <1>3, AtIs DEF Scanned
<1>5. t.end \in position + Len(m.open) .. Len(Text) + 1
  <2>1. position + Len(m.open) \in 1 .. Len(Text) + 1
    BY <1>2, <1>3, <1>4
  <2> QED
    BY <1>3, <2>1, ThroughIs DEF Scanned
<1>6. Semantic!Take(<<f>>, t.end, t.closed)
  BY <1>1
<1> HIDE DEF t
<1>7. t.end \in position + 1 .. Len(Text) + 1 /\ t.end \in Nat /\ position < t.end
  BY <1>2, <1>3, <1>5
<1>8. Placed(Text, f, position, t.end)
  BY <1>2, <1>7, NoValuePlaced
<1> HIDE DEF f
<1> QED
  BY <1>2, <1>6, <1>7, <1>8, FieldTaken

LEMMA XmlDoctypeMoves == ASSUME Scanned, position <= Len(Text), Semantic!XmlDoctype PROVE Moves
<1> DEFINE t == Semantic!TagEnd(position + 3, TRUE)
           f == Semantic!Field("doctype", <<>>, position, t.end, <<<<"!DOCTYPE">>>>, <<>>, t.closed)
<1>1. Semantic!At(position, <<"<", "!", "DOCTYPE">>) /\ Semantic!Take(<<f>>, t.end, t.closed)
  BY Zenon DEF Semantic!XmlDoctype
<1>2. position \in 1 .. Len(Text) /\ position \in Nat \ {0} /\ Len(Text) \in Nat
  BY DEF Scanned, Readable
<1>3. position + 3 <= Len(Text) + 1
  <2>1. <<"<", "!", "DOCTYPE">> \in Seq(Marks) /\ Len(<<"<", "!", "DOCTYPE">>) = 3
    BY DEF Marks
  <2> QED
    BY <1>1, <1>2, <2>1, AtIs DEF Scanned
<1>4. t.end \in position + 3 .. Len(Text) + 1
  <2>1. position + 3 \in 1 .. Len(Text) + 1
    BY <1>2, <1>3
  <2> QED
    BY <2>1, TagEndIs DEF Scanned
<1> HIDE DEF t
<1>5. t.end \in position + 1 .. Len(Text) + 1 /\ t.end \in Nat /\ position < t.end
  BY <1>2, <1>4
<1>6. Placed(Text, f, position, t.end)
  BY <1>2, <1>5, NoValuePlaced
<1> HIDE DEF f
<1> QED
  BY <1>1, <1>2, <1>5, <1>6, FieldTaken

LEMMA XmlEndTagMoves == ASSUME Scanned, position <= Len(Text), Semantic!XmlEndTag PROVE Moves
<1> DEFINE t == Semantic!TagEnd(position + 2, FALSE)
<1>1. Semantic!At(position, <<"<", "/">>)
  BY Zenon DEF Semantic!XmlEndTag
<1>2. PICK ok : Semantic!Take(<<>>, t.end, ok)
  BY Zenon DEF Semantic!XmlEndTag
<1>3. position \in Nat \ {0} /\ Len(Text) \in Nat
  BY DEF Scanned, Readable
<1>4. position + 2 <= Len(Text) + 1
  <2>1. <<"<", "/">> \in Seq(Marks) /\ Len(<<"<", "/">>) = 2
    BY DEF Marks
  <2> QED
    BY <1>1, <1>3, <2>1, AtIs DEF Scanned
<1>5. t.end \in position + 2 .. Len(Text) + 1
  <2>1. position + 2 \in 1 .. Len(Text) + 1
    BY <1>3, <1>4
  <2> QED
    BY <2>1, TagEndIs DEF Scanned
<1> HIDE DEF t
<1>6. t.end \in position .. Len(Text) + 1
  BY <1>3, <1>5
<1> QED
  BY <1>2, <1>6, NothingTaken

(* The tag name, and then the attributes up to the end of the tag.         *)
LEMMA XmlStartTagMoves == ASSUME Scanned, position <= Len(Text), Semantic!XmlStartTag PROVE Moves
<1> DEFINE t == Semantic!TagEnd(position + 1, FALSE)
           from == Semantic!Past(Text, position + 1, Semantic!Blanks)
           to == Semantic!Past(Text, from, Semantic!NameChars)
           name == SubSeq(Text, from, to - 1)
           after == position + 1 + Len(name)
           path == Append(nest, name)
           f == Semantic!Field("element_name", name, position + 1, after, path, <<position + 1, after>>, t.closed)
           others == Semantic!ParseAttributes(Text, to, t.end - 1, path)
           hi == IF t.closed THEN t.end - 1 ELSE Len(Text) + 1
<1>1. \/ name = <<>> /\ Semantic!Take(<<>>, t.end, FALSE)
      \/ name # <<>> /\ Semantic!Take(<<f>> \o others, t.end, t.closed)
  BY Zenon DEF Semantic!XmlStartTag, Text
<1>2. position \in Nat \ {0} /\ Len(Text) \in Nat /\ position + 1 \in 1 .. Len(Text) + 1 /\ Text \in Seq(STRING)
  BY DEF Scanned, Readable
<1>3. /\ t.closed \in BOOLEAN /\ t.end \in position + 1 .. Len(Text) + 1
      /\ t.closed => t.end > position + 1 /\ Text[t.end - 1] = ">"
      /\ ~t.closed => t.end = Len(Text) + 1
  BY <1>2, TagEndIs DEF Scanned
<1> HIDE DEF t
<1>4. t.end \in Nat /\ t.end - 1 \in Nat /\ t.end \in position .. Len(Text) + 1
  BY <1>2, <1>3
<1>5. /\ Bound(Text, hi) /\ hi \in Nat /\ t.end - 1 <= hi /\ hi <= t.end
      /\ position + 1 <= hi
  <2>1. CASE t.closed
    <3>1. hi = t.end - 1
      BY <2>1
    <3> HIDE DEF hi
    <3>2. hi \in 1 .. Len(Text) + 1 /\ Text[hi] = ">" /\ position + 1 <= hi
      BY <1>2, <1>3, <2>1, <3>1
    <3> QED
      BY <1>4, <3>1, <3>2 DEF Bound
  <2>2. CASE ~t.closed
    <3>1. hi = Len(Text) + 1 /\ t.end = Len(Text) + 1
      BY <1>3, <2>2
    <3> HIDE DEF hi
    <3> QED
      BY <1>2, <3>1 DEF Bound
  <2> QED
    BY <2>1, <2>2
<1>6. from \in position + 1 .. hi
  <2> HIDE DEF hi
  <2>1. position + 1 \in 1 .. hi
    BY <1>2, <1>5
  <2> QED
    BY <1>2, <1>5, <2>1, PastBelow, NoMarkupInNames
<1>7. CASE name = <<>>
  <2>1. Semantic!Take(<<>>, t.end, FALSE)
    BY <1>1, <1>7
  <2> QED
    BY <1>4, <2>1, NothingTaken
<1>8. CASE name # <<>>
  <2>1. Semantic!Take(<<f>> \o others, t.end, t.closed)
    BY <1>1, <1>8
  <2>2. position + 1 = from \/ Text[position + 1] \in Semantic!Blanks
    <3>1. \A j \in position + 1 .. from - 1 : Text[j] \in Semantic!Blanks
      BY <1>2, PastIs
    <3> HIDE DEF from
    <3> QED
      BY <1>2, <1>5, <1>6, <3>1
  <2> HIDE DEF from
  <2>3. from \in 1 .. hi
    BY <1>2, <1>5, <1>6
  <2>4. to \in from .. hi
    <3> HIDE DEF hi
    <3> QED
      BY <1>2, <1>5, <2>3, PastBelow, NoMarkupInNames
  <2> HIDE DEF to
  <2>5. hi <= Len(Text) + 1
    BY <1>2, <1>5 DEF Bound
  <2> HIDE DEF hi
  <2>6. from \in 1 .. Len(Text) + 1 /\ to - 1 \in from - 1 .. Len(Text)
    BY <1>2, <1>5, <2>3, <2>4, <2>5
  <2>7. name \in Seq(STRING) /\ Len(name) = to - from
    <3>1. name \in Seq(STRING) /\ Len(name) = (to - 1) + 1 - from
      BY <1>2, <2>6, PartIs
    <3> QED
      BY <1>5, <2>3, <2>4, <3>1
  <2>8. Len(name) \in Nat \ {0}
    BY <1>8, <2>7
  <2>9. position + 1 = from => name = SubSeq(Text, position + 1, after - 1)
    BY <1>2, <1>5, <2>3, <2>4, <2>7
  <2> HIDE DEF name
  <2>10. /\ position + 1 \in Nat /\ after \in Nat /\ position + 1 < after /\ to \in Nat
         /\ after <= to /\ to <= hi /\ to \in 1 .. hi
    BY <1>2, <1>5, <1>6, <2>3, <2>4, <2>7, <2>8
  <2> HIDE DEF after
  <2>11. Placed(Text, f, position + 1, after)
    <3>1. position + 1 \in position + 1 .. after /\ after \in position + 1 .. after
      BY <1>2, <2>10
    <3>2. Text[position + 1] \notin Semantic!Blanks => SubSeq(Text, position + 1, after - 1) = name
      BY <2>2, <2>9
    <3> QED
      BY <2>10, <3>1, <3>2, ValuePlaced
  <2> HIDE DEF f
  <2>12. Row(Text, <<f>>, position, to)
    <3>1. Placed(Text, f, position, to)
      BY <1>2, <2>10, <2>11, PlacedWider
    <3> QED
      BY <1>2, <2>10, <3>1, OneRow
  <2>13. Row(Text, others, to, t.end)
    <3>1. Row(Text, others, to, hi)
      BY <1>2, <1>4, <1>5, <2>10, ParseAttributesIs
    <3> QED
      BY <1>4, <1>5, <2>10, <3>1, RowWider
  <2> HIDE DEF others
  <2>14. Row(Text, <<f>> \o others, position, t.end)
    <3>1. position <= to /\ to <= t.end
      BY <1>2, <1>4, <1>5, <2>10
    <3> QED
      BY <1>2, <1>4, <2>10, <2>12, <2>13, <3>1, NextRow
  <2> DEFINE new == <<f>> \o others
  <2> HIDE DEF new
  <2>15. Row(Text, new, position, t.end) /\ Semantic!Take(new, t.end, t.closed)
    BY <2>1, <2>14 DEF new
  <2> QED
    BY <1>4, <2>15, TakeIs
<1> QED
  BY <1>7, <1>8

(* A field moved by n symbols.                                             *)
LEMMA ShiftedIs ==
    ASSUME NEW f, HasPlace(f), NEW n \in Nat
    PROVE  LET g == Semantic!ShiftedBy(n, f) IN
           /\ DOMAIN g = FieldParts /\ g.start = f.start + n /\ g.end = f.end + n
           /\ g.kind = f.kind /\ g.key = f.key
           /\ f.value = <<>> => g.value = <<>>
           /\ \A v, w \in Nat : f.value = <<v, w>> => g.value = <<v + n, w + n>>
<1> DEFINE g == Semantic!ShiftedBy(n, f)
           value == [i \in DOMAIN f.value |-> f.value[i] + n]
<1>1. DOMAIN f = FieldParts
  BY DEF HasPlace
<1>2. g = [f EXCEPT !.start = f.start + n, !.end = f.end + n, !.value = value]
  BY DEF Semantic!ShiftedBy
<1> HIDE DEF g
<1>3. f.value = <<>> => value = <<>>
  OBVIOUS
<1>4. ASSUME NEW v \in Nat, NEW w \in Nat, f.value = <<v, w>> PROVE value = <<v + n, w + n>>
  <2>1. value = [i \in 1 .. 2 |-> <<v, w>>[i] + n]
    BY <1>4
  <2> QED
    BY <2>1
<1> HIDE DEF value
<1>5. DOMAIN g = FieldParts /\ g.start = f.start + n /\ g.end = f.end + n /\ g.value = value
  BY <1>1, <1>2 DEF FieldParts
<1>6. g.kind = f.kind /\ g.key = f.key
  BY <1>1, <1>2 DEF FieldParts
<1> QED
  BY <1>3, <1>4, <1>5, <1>6 DEF g

LEMMA ShiftedHasPlace ==
    ASSUME NEW f, HasPlace(f), NEW n \in Nat
    PROVE  HasPlace(Semantic!ShiftedBy(n, f))
<1> DEFINE g == Semantic!ShiftedBy(n, f)
<1>1. /\ DOMAIN g = FieldParts /\ g.start = f.start + n /\ g.end = f.end + n
      /\ f.value = <<>> => g.value = <<>>
      /\ \A v, w \in Nat : f.value = <<v, w>> => g.value = <<v + n, w + n>>
  BY ShiftedIs
<1> HIDE DEF g
<1>2. /\ f.start \in Nat /\ f.end \in Nat /\ f.start < f.end
      /\ f.value = <<>> \/ \E v \in f.start .. f.end : \E w \in v .. f.end : f.value = <<v, w>>
  BY DEF HasPlace
<1>3. DOMAIN g = FieldParts /\ g.start \in Nat /\ g.end \in Nat /\ g.start < g.end
  BY <1>1, <1>2
<1>4. CASE f.value = <<>>
  BY <1>1, <1>3, <1>4 DEF HasPlace, g
<1>5. ASSUME NEW v \in f.start .. f.end, NEW w \in v .. f.end, f.value = <<v, w>> PROVE HasPlace(g)
  <2>1. v \in Nat /\ w \in Nat
    BY <1>2
  <2>2. g.value = <<v + n, w + n>>
    BY <1>1, <1>5, <2>1
  <2>3. v + n \in g.start .. g.end /\ w + n \in v + n .. g.end
    BY <1>1, <1>2, <2>1
  <2> QED
    BY <1>3, <2>2, <2>3 DEF HasPlace
<1> QED
  BY <1>2, <1>4, <1>5 DEF g

(* The attributes of an XML declaration lie within it.                     *)
LEMMA XmlInstructionMoves == ASSUME Scanned, position <= Len(Text), Semantic!XmlInstruction PROVE Moves
<1> DEFINE t == Semantic!Through(position + 2, <<"?", ">">>)
           last == IF t.closed THEN t.end - 3 ELSE t.end - 1
           inner == SubSeq(Text, position + 2, last)
           from == Semantic!Past(inner, 1, Semantic!Blanks)
           to == Semantic!Past(inner, from, Semantic!NameChars)
           name == SubSeq(inner, from, to - 1)
           kind == IF name = <<"xml">> THEN "xml_decl" ELSE "pi"
           f == Semantic!Field(kind, <<>>, position, t.end, <<name>>, <<>>, t.closed)
           added == Semantic!ParseAttributes(inner, to, Len(inner) + 1, <<name>>)
           others == [i \in DOMAIN added |-> [Semantic!ShiftedBy(position + 1, added[i]) EXCEPT !.kind = "xml_decl_attr"]]
<1>1. /\ Semantic!At(position, <<"<", "?">>)
      /\ Semantic!Take(<<f>> \o (IF name # <<"xml">> THEN <<>> ELSE others), t.end, t.closed)
  BY Zenon DEF Semantic!XmlInstruction, Text
<1>2. position \in Nat \ {0} /\ Len(Text) \in Nat /\ Text \in Seq(STRING)
  BY DEF Scanned, Readable
<1>3. position + 2 \in 1 .. Len(Text) + 1
  <2>1. <<"<", "?">> \in Seq(Marks) /\ Len(<<"<", "?">>) = 2
    BY DEF Marks
  <2>2. position + 2 <= Len(Text) + 1
    BY <1>1, <1>2, <2>1, AtIs DEF Scanned
  <2> QED
    BY <1>2, <2>2
<1>4. /\ t.closed \in BOOLEAN /\ t.end \in position + 2 .. Len(Text) + 1
      /\ t.closed => t.end >= position + 2 + 2
  <2>1. <<"?", ">">> \in Seq(Marks) /\ Len(<<"?", ">">>) = 2
    BY DEF Marks
  <2>2. /\ t.closed \in BOOLEAN /\ t.end \in position + 2 .. Len(Text) + 1
        /\ t.closed => t.end >= position + 2 + Len(<<"?", ">">>)
    BY <1>3, <2>1, ThroughIs DEF Scanned
  <2> HIDE DEF t
  <2> QED
    BY <2>1, <2>2
<1> HIDE DEF t
<1>5. t.end \in Nat /\ position < t.end /\ position \in position .. Len(Text) /\ t.end \in position + 1 .. Len(Text) + 1
  BY <1>2, <1>4
<1>6. last \in position + 1 .. Len(Text) /\ last + 1 <= t.end
  <2>1. CASE t.closed
    <3>1. last = t.end - 3
      BY <2>1
    <3> HIDE DEF last
    <3> QED
      BY <1>2, <1>4, <1>5, <2>1, <3>1
  <2>2. CASE ~t.closed
    <3>1. last = t.end - 1
      BY <2>2
    <3> HIDE DEF last
    <3> QED
      BY <1>2, <1>4, <1>5, <3>1
  <2> QED
    BY <2>1, <2>2
<1> HIDE DEF last
<1>7. inner \in Seq(STRING) /\ Len(inner) = last - position - 1 /\ Len(inner) \in Nat
  <2>1. last \in (position + 2) - 1 .. Len(Text)
    BY <1>2, <1>6
  <2>2. inner \in Seq(STRING) /\ Len(inner) = last + 1 - (position + 2)
    BY <1>2, <1>3, <2>1, PartIs
  <2> HIDE DEF inner
  <2> QED
    BY <1>2, <1>6, <2>2
<1> HIDE DEF inner
<1>8. Placed(Text, f, position, t.end) /\ f.kind = kind /\ f.start = position /\ f.end = t.end
  <2>1. Placed(Text, f, position, t.end)
    BY <1>2, <1>5, NoValuePlaced
  <2> QED
    BY <2>1, FieldIs
<1>9. CASE name # <<"xml">>
  <2>1. Listed(<<f>>)
    <3>1. <<f>> \in Seq({f})
      OBVIOUS
    <3> QED
      BY <3>1 DEF Listed
  <2>2. <<f>> \o <<>> = <<f>>
    OBVIOUS
  <2>3. Semantic!Take(<<f>> \o <<>>, t.end, t.closed)
    BY <1>1, <1>9
  <2>4. Semantic!Take(<<f>>, t.end, t.closed)
    BY <2>2, <2>3
  <2> HIDE DEF f
  <2> QED
    BY <1>2, <1>5, <1>8, <2>4, FieldTaken
<1>10. CASE name = <<"xml">>
  <2>1. f.kind = "xml_decl"
    BY <1>8, <1>10
  <2>2. Semantic!Take(<<f>> \o others, t.end, t.closed)
    BY <1>1, <1>10
  <2> DEFINE hi == Len(inner) + 1
  <2>3. Bound(inner, hi) /\ hi \in Nat
    BY <1>7 DEF Bound
  <2>4. from \in 1 .. hi
    BY <1>7, PastIs
  <2> HIDE DEF from
  <2>5. to \in from .. hi
    BY <1>7, <2>4, PastIs
  <2>6. to \in 1 .. hi /\ to \in Nat
    BY <1>7, <2>4, <2>5
  <2> HIDE DEF to, name
  <2>7. Row(inner, added, to, hi)
    BY <1>7, <2>3, <2>6, ParseAttributesIs
  <2>8. position + 2 <= to + (position + 1) /\ hi + (position + 1) <= t.end
    BY <1>2, <1>5, <1>6, <1>7, <2>6
  <2> HIDE DEF f, added, hi
  <2> DEFINE n == position + 1
             moved(i) == Semantic!ShiftedBy(n, added[i])
  <2>9. PICK S : added \in Seq(S)
    BY <2>7 DEF Row, Listed
  <2>10. DOMAIN added = 1 .. Len(added) /\ Len(added) \in Nat
    BY <2>9
  <2>11. ASSUME NEW i \in 1 .. Len(added)
         PROVE  /\ HasPlace(others[i]) /\ others[i].kind = "xml_decl_attr"
                /\ others[i].start = added[i].start + n /\ others[i].end = added[i].end + n
                /\ added[i].start \in Nat /\ added[i].end \in Nat /\ to <= added[i].start /\ added[i].end <= hi
    <3>1. HasPlace(added[i]) /\ to <= added[i].start /\ added[i].end <= hi
      BY <2>7 DEF Row, Placed
    <3>2. n \in Nat
      BY <1>2
    <3>3. /\ HasPlace(moved(i)) /\ DOMAIN moved(i) = FieldParts
          /\ moved(i).start = added[i].start + n /\ moved(i).end = added[i].end + n
      BY <3>1, <3>2, ShiftedIs, ShiftedHasPlace
    <3>4. others[i] = [moved(i) EXCEPT !.kind = "xml_decl_attr"]
      BY <2>10
    <3> HIDE DEF others, moved
    <3>5. /\ DOMAIN others[i] = FieldParts /\ others[i].kind = "xml_decl_attr"
          /\ others[i].start = moved(i).start /\ others[i].end = moved(i).end
          /\ others[i].value = moved(i).value
      BY <3>3, <3>4 DEF FieldParts
    <3>6. HasPlace(others[i])
      BY <3>3, <3>5 DEF HasPlace
    <3>7. added[i].start \in Nat /\ added[i].end \in Nat
      BY <3>1 DEF HasPlace
    <3> QED
      BY <3>1, <3>3, <3>5, <3>6, <3>7
  <2>12. Listed(others) /\ Len(others) = Len(added)
    <3> DEFINE R == {others[i] : i \in 1 .. Len(added)}
    <3>1. others \in [1 .. Len(added) -> R]
      BY <2>10
    <3> HIDE DEF others, R
    <3>2. others \in Seq(R)
      BY <2>10, <3>1, FunctionIsSeq
    <3>3. DOMAIN others = 1 .. Len(added) /\ DOMAIN others = 1 .. Len(others) /\ Len(others) \in Nat
      BY <3>1, <3>2
    <3>4. Len(others) = Len(added)
      BY <2>10, <3>3
    <3> QED
      BY <3>2, <3>4 DEF Listed
  <2> HIDE DEF others
  <2>13. Row(Text, others, position, t.end)
    <3>1. ASSUME NEW i \in 1 .. Len(others) PROVE Placed(Text, others[i], position, t.end)
      <4>1. Keyed(Text, others[i])
        BY <2>11, <2>12 DEF Keyed
      <4>2. /\ others[i].start = added[i].start + n /\ others[i].end = added[i].end + n
            /\ added[i].start \in Nat /\ added[i].end \in Nat /\ to <= added[i].start /\ added[i].end <= hi
        BY <2>11, <2>12
      <4>3. position <= added[i].start + n
        BY <1>2, <2>6, <4>2
      <4>4. added[i].end + n <= t.end
        BY <1>2, <1>5, <2>3, <2>8, <4>2
      <4> QED
        BY <2>11, <2>12, <4>1, <4>2, <4>3, <4>4 DEF Placed
    <3>2. ASSUME NEW i \in 1 .. Len(others), NEW j \in 1 .. Len(others), i < j PROVE Follow(others[i], others[j])
      <4>1. Follow(added[i], added[j])
        BY <2>7, <2>12, <3>2 DEF Row
      <4>2. added[i].end <= added[j].start \/ added[i].kind = "xml_decl"
        BY <4>1 DEF Follow
      <4>3. added[i].kind = "attribute"
        BY <1>7, <2>3, <2>6, <2>12, ParseAttributesIs DEF added, hi
      <4>4. others[i].end <= others[j].start
        BY <1>2, <2>11, <2>12, <4>2, <4>3
      <4> QED
        BY <4>4 DEF Follow
    <3> QED
      BY <2>12, <3>1, <3>2 DEF Row
  <2>14. Row(Text, <<f>>, position, t.end)
    BY <1>2, <1>5, <1>8, OneRow
  <2>15. ASSUME NEW i \in 1 .. Len(<<f>>), NEW j \in 1 .. Len(others) PROVE Follow(<<f>>[i], others[j])
    <3>1. <<f>>[i] = f
      OBVIOUS
    <3>2. position <= others[j].start /\ others[j].end <= t.end /\ others[j].kind = "xml_decl_attr"
      BY <2>11, <2>12, <2>13 DEF Row, Placed
    <3> QED
      BY <1>8, <2>1, <3>1, <3>2 DEF Follow, Semantic!Within
  <2>16. Row(Text, <<f>> \o others, position, t.end)
    BY <2>13, <2>14, <2>15, JoinedRows
  <2>17. t.end \in position .. Len(Text) + 1
    BY <1>2, <1>5
  <2> DEFINE new == <<f>> \o others
  <2> HIDE DEF new
  <2>18. Row(Text, new, position, t.end) /\ Semantic!Take(new, t.end, t.closed)
    BY <2>2, <2>16 DEF new
  <2> QED
    BY <2>17, <2>18, TakeIs
<1> QED
  BY <1>9, <1>10
----------------------------------------------------------------------------
(* JSON: the next symbol that is not blank, and what begins there.         *)
LEMMA HereIs ==
    ASSUME Scanned, Semantic!Here <= Len(Text)
    PROVE  /\ Semantic!Here \in position .. Len(Text) /\ Semantic!Here \in Nat \ {0} /\ position \in Nat
           /\ Text[Semantic!Here] \notin Semantic!Blanks /\ Len(Text) \in Nat
<1> DEFINE here == Semantic!Past(Text, position, Semantic!Blanks)
<1>1. Semantic!Here = here
  BY DEF Semantic!Here, Text
<1>2. Text \in Seq(STRING) /\ position \in 1 .. Len(Text) + 1 /\ Len(Text) \in Nat
  BY DEF Scanned, Readable
<1>3. here \in position .. Len(Text) + 1 /\ (here <= Len(Text) => Text[here] \notin Semantic!Blanks)
  BY <1>2, PastIs
<1> HIDE DEF here
<1> QED
  BY <1>1, <1>2, <1>3

LEMMA JsonSymbolMoves ==
    ASSUME Scanned, Semantic!Here <= Len(Text), Semantic!JsonOpen \/ Semantic!JsonClose \/ Semantic!JsonComma \/ Semantic!JsonColon
    PROVE  Moves
<1>1. Semantic!Here \in position .. Len(Text) /\ Semantic!Here \in Nat /\ position \in Nat /\ Len(Text) \in Nat
  BY HereIs
<1>2. Semantic!Here + 1 \in position .. Len(Text) + 1 /\ Semantic!Here + 1 \in Nat
  BY <1>1
<1>3. CASE Semantic!JsonOpen
  <2> DEFINE here == Semantic!Here
             type == IF Semantic!Payload[here] = "{" THEN "object" ELSE "array"
             f == Semantic!Field(type, <<Semantic!Payload[here]>>, here, here + 1, Semantic!PendingOr(Semantic!CurrentPath), <<>>, TRUE)
  <2>1. Semantic!Take(<<f>>, here + 1, TRUE)
    BY <1>3, Zenon DEF Semantic!JsonOpen
  <2> HIDE DEF here
  <2>2. here \in position .. Len(Text) /\ here \in Nat /\ here + 1 \in Nat /\ here < here + 1
    BY <1>1 DEF here
  <2>3. Placed(Text, f, here, here + 1)
    BY <2>2, NoValuePlaced
  <2> HIDE DEF f
  <2>4. here + 1 \in here + 1 .. Len(Text) + 1
    BY <1>1, <2>2
  <2> QED
    BY <2>1, <2>2, <2>3, <2>4, FieldTaken
<1>4. CASE Semantic!JsonClose \/ Semantic!JsonComma \/ Semantic!JsonColon
  <2>1. PICK ok : Semantic!Take(<<>>, Semantic!Here + 1, ok)
    BY <1>4, Zenon DEF Semantic!JsonClose, Semantic!JsonComma, Semantic!JsonColon
  <2> QED
    BY <1>2, <2>1, NothingTaken
<1> QED
  BY <1>3, <1>4

LEMMA JsonStringMoves == ASSUME Scanned, Semantic!Here <= Len(Text), Semantic!JsonString PROVE Moves
<1> DEFINE here == Semantic!Here
           s == Semantic!StringAt(here)
           to == IF s.closed THEN s.end - 1 ELSE s.end
           text == SubSeq(Text, here + 1, to - 1)
           F(kind, path) == Semantic!Field(kind, text, here, s.end, path, <<here + 1, to>>, s.closed)
<1>1. PICK kind, path : Semantic!Take(<<F(kind, path)>>, s.end, s.closed)
  BY Zenon DEF Semantic!JsonString, Text
<1> HIDE DEF here
<1>2. here \in position .. Len(Text) /\ here \in Nat \ {0} /\ position \in Nat \ {0} /\ Len(Text) \in Nat
  <2>1. Scanned => position \in Nat \ {0}
    BY DEF Scanned, Readable
  <2> QED
    BY <2>1, HereIs DEF here
<1>3. /\ s.closed \in BOOLEAN /\ s.end \in here + 1 .. Len(Text) + 1
      /\ s.closed => s.end > here + 1
  <2>1. here \in 1 .. Len(Text)
    BY <1>2
  <2> QED
    BY <2>1, StringAtIs DEF Scanned
<1> HIDE DEF s
<1>4. s.end \in Nat /\ here < s.end
  BY <1>2, <1>3
<1>5. to \in here + 1 .. s.end
  <2>1. CASE s.closed
    BY <1>2, <1>3, <1>4, <2>1
  <2>2. CASE ~s.closed
    BY <1>2, <1>3, <1>4, <2>2
  <2> QED
    BY <2>1, <2>2
<1> HIDE DEF to
<1>6. Placed(Text, F(kind, path), here, s.end)
  <2>1. here + 1 \in here .. s.end /\ to \in here + 1 .. s.end
    BY <1>2, <1>3, <1>5
  <2> QED
    BY <1>2, <1>4, <2>1, ValuePlaced
<1> DEFINE f == F(kind, path)
<1> HIDE DEF f
<1>7. Placed(Text, f, here, s.end) /\ Semantic!Take(<<f>>, s.end, s.closed)
  BY <1>1, <1>6 DEF f
<1> QED
  BY <1>2, <1>3, <1>7, FieldTaken

LEMMA JsonLiteralMoves == ASSUME Scanned, Semantic!Here <= Len(Text), Semantic!JsonLiteral PROVE Moves
<1> DEFINE here == Semantic!Here
           stops == Semantic!Blanks \cup {",", "]", "}"}
           end == Semantic!Until(Text, here, stops)
           word == SubSeq(Text, here, end - 1)
           F(path, reliable) == Semantic!Field(Semantic!LiteralKind(word), word, here, end, path, <<>>, reliable)
<1>1. /\ Text[here] \notin Semantic!Quotes \cup {"{", "[", "}", "]", ",", ":"}
      /\ Semantic!Take(<<F(Semantic!ValuePath, leftover')>>, end, Semantic!LiteralKind(word) # "literal")
  BY Zenon DEF Semantic!JsonLiteral, Text
<1>2. PICK path, reliable, ok : Semantic!Take(<<F(path, reliable)>>, end, ok)
  BY <1>1, Zenon
<1> HIDE DEF here
<1>3. /\ here \in position .. Len(Text) /\ here \in Nat \ {0} /\ position \in Nat \ {0} /\ Len(Text) \in Nat
      /\ Text[here] \notin Semantic!Blanks
  <2>1. Scanned => position \in Nat \ {0}
    BY DEF Scanned, Readable
  <2> QED
    BY <2>1, HereIs DEF here
<1>4. Text[here] \notin stops
  BY <1>1, <1>3
<1>5. end \in here .. Len(Text) + 1 /\ (end <= Len(Text) => Text[end] \in stops)
  <2>1. here \in 1 .. Len(Text) + 1 /\ Text \in Seq(STRING)
    BY <1>3 DEF Scanned, Readable
  <2> HIDE DEF stops
  <2> QED
    BY <2>1, UntilIs
<1> HIDE DEF end, stops
<1>6. end \in here + 1 .. Len(Text) + 1 /\ end \in Nat /\ here < end
  BY <1>3, <1>4, <1>5
<1>7. Placed(Text, F(path, reliable), here, end)
  BY <1>3, <1>6, NoValuePlaced
<1> DEFINE f == F(path, reliable)
<1> HIDE DEF f
<1>8. Placed(Text, f, here, end) /\ Semantic!Take(<<f>>, end, ok)
  BY <1>2, <1>7 DEF f
<1> QED
  BY <1>3, <1>6, <1>8, FieldTaken

(* Source code: a lexeme ends after it begins.                             *)
LEMMA UntilAfter ==
    ASSUME Readable, NEW i \in 1 .. Len(Text), NEW S, Text[i] \notin S
    PROVE  Semantic!Until(Text, i, S) \in i + 1 .. Len(Text) + 1
<1> DEFINE u == Semantic!Until(Text, i, S)
<1>1. Text \in Seq(STRING) /\ i \in 1 .. Len(Text) + 1 /\ i \in Nat /\ i <= Len(Text) /\ Len(Text) \in Nat
  BY DEF Readable
<1>2. u \in i .. Len(Text) + 1 /\ (u <= Len(Text) => Text[u] \in S)
  BY <1>1, UntilIs
<1> HIDE DEF u
<1>3. u # i
  BY <1>1, <1>2
<1>4. u \in i + 1 .. Len(Text) + 1
  BY <1>1, <1>2, <1>3
<1> QED
  BY <1>4 DEF u

LEMMA PastAfter ==
    ASSUME Readable, NEW i \in 1 .. Len(Text), NEW S, Text[i] \in S
    PROVE  Semantic!Past(Text, i, S) \in i + 1 .. Len(Text) + 1
<1> DEFINE u == Semantic!Past(Text, i, S)
<1>1. Text \in Seq(STRING) /\ i \in 1 .. Len(Text) + 1 /\ i \in Nat /\ i <= Len(Text) /\ Len(Text) \in Nat
  BY DEF Readable
<1>2. u \in i .. Len(Text) + 1 /\ (u <= Len(Text) => Text[u] \notin S)
  BY <1>1, PastIs
<1> HIDE DEF u
<1>3. u # i
  BY <1>1, <1>2
<1>4. u \in i + 1 .. Len(Text) + 1
  BY <1>1, <1>2, <1>3
<1> QED
  BY <1>4 DEF u

LEMMA LexemeIs ==
    ASSUME Readable, NEW i \in 1 .. Len(Text)
    PROVE  Semantic!Lexeme(i).end \in i + 1 .. Len(Text) + 1
<1> DEFINE c == Text[i]
           L(kind, end, reliable) == [kind |-> kind, end |-> end, reliable |-> reliable]
           word == Semantic!Past(Text, i, Semantic!NameChars \ Semantic!NameMarks)
           x == Semantic!Lexeme(i)
           t == Semantic!Through(i + 2, <<"*", "/">>)
           line == Semantic!At(i, <<"/", "/">>)
           block == Semantic!At(i, <<"/", "*">>)
           string == c \in Semantic!Quotes \/ (c = "template" /\ seed.format = "javascript")
           directive == c = "#" /\ (i = 1 \/ Text[i - 1] = "newline")
           letter == c \in Semantic!NameChars \ (Semantic!Digits \cup Semantic!NameMarks)
           digit == c \in Semantic!Digits /\ word = i + 1
           eol == Semantic!Until(Text, i, {"newline"})
           e == Semantic!StringAt(i).end
<1>1. x = CASE line -> L("line_comment", eol, TRUE)
            [] block -> L("block_comment", t.end, t.closed)
            [] string -> L("string_literal", e, TRUE)
            [] directive -> L("preprocessor", eol, TRUE)
            [] letter -> L("identifier", word, TRUE)
            [] digit -> L("number_literal", i + 1, TRUE)
            [] OTHER -> L("none", i + 1, TRUE)
  BY Zenon DEF Semantic!Lexeme, Text
<1>2. i \in Nat \ {0} /\ i <= Len(Text) /\ Len(Text) \in Nat
  BY DEF Readable
<1>3. \A kind, end, reliable : L(kind, end, reliable).end = end
  BY Zenon
<1>4. line \/ directive => eol \in i + 1 .. Len(Text) + 1
  <2>1. line => c = "/"
    <3>1. <<"/", "/">> \in Seq(Marks) /\ <<"/", "/">> # <<>> /\ <<"/", "/">>[1] = "/"
      BY DEF Marks
    <3> QED
      BY <1>2, <3>1, AtIs
  <2>2. line \/ directive => c \notin {"newline"}
    BY <2>1
  <2> QED
    BY <2>2, UntilAfter
<1>5. block => t.end \in i + 1 .. Len(Text) + 1
  <2>1. <<"/", "*">> \in Seq(Marks \cup {"*"}) /\ <<"*", "/">> \in Seq(Marks \cup {"*"}) /\ Len(<<"/", "*">>) = 2
    BY DEF Marks
  <2>2. block => i + 2 \in 1 .. Len(Text) + 1
    <3>1. block => i + Len(<<"/", "*">>) <= Len(Text) + 1
      BY <1>2, <2>1, AtIs
    <3> HIDE DEF block
    <3> QED
      BY <1>2, <2>1, <3>1
  <2>3. block => t.end \in i + 2 .. Len(Text) + 1
    BY <2>1, <2>2, ThroughIs
  <2> HIDE DEF t, block
  <2> QED
    BY <1>2, <2>3
<1>6. Semantic!StringAt(i).end \in i + 1 .. Len(Text) + 1
  BY StringAtIs
<1>7. letter => word \in i + 1 .. Len(Text) + 1
  BY PastAfter
<1>8. i + 1 \in i + 1 .. Len(Text) + 1
  BY <1>2
<1>9. line => c = "/" /\ ~block
  <2>1. /\ <<"/", "/">> \in Seq(Marks) /\ <<"/", "/">> # <<>> /\ <<"/", "/">>[1] = "/"
        /\ <<"/", "/">> # <<"/", "*">> /\ Len(<<"/", "/">>) = 2 /\ Len(<<"/", "*">>) = 2
    BY DEF Marks
  <2>2. line => c = "/"
    BY <1>2, <2>1, AtIs
  <2>3. ~(line /\ block)
    <3>1. line => SubSeq(Semantic!Payload, i, i + 2 - 1) = <<"/", "/">>
      BY <2>1 DEF Semantic!At
    <3>2. block => SubSeq(Semantic!Payload, i, i + 2 - 1) = <<"/", "*">>
      BY <2>1 DEF Semantic!At
    <3> QED
      BY <2>1, <3>1, <3>2, Zenon
  <2> QED
    BY <2>2, <2>3
<1>10. block => c = "/"
  <2>1. <<"/", "*">> \in Seq(Marks \cup {"*"}) /\ <<"/", "*">> # <<>> /\ <<"/", "*">>[1] = "/"
    BY DEF Marks
  <2> QED
    BY <1>2, <2>1, AtIs
<1>11. c = "/" => ~string /\ ~directive /\ ~letter /\ ~digit
  BY DEF Semantic!Quotes, Semantic!NameChars, Semantic!NameMarks, Semantic!Digits
<1>12. string => ~directive /\ ~letter /\ ~digit
  BY DEF Semantic!Quotes, Semantic!NameChars, Semantic!NameMarks, Semantic!Digits
<1>13. directive => ~letter /\ ~digit
  BY DEF Semantic!NameChars, Semantic!NameMarks, Semantic!Digits
<1>14. letter => ~digit
  OBVIOUS
<1> HIDE DEF L, x, e, eol, t, word, c
<1>15. CASE line
  <2>1. x = L("line_comment", eol, TRUE)
    BY <1>1, <1>9, <1>10, <1>11, <1>12, <1>13, <1>14, <1>15
  <2>2. x.end = eol
    BY <1>3, <2>1
  <2> QED
    BY <1>4, <1>15, <2>2 DEF x, e
<1>16. CASE block
  <2>1. x = L("block_comment", t.end, t.closed)
    BY <1>1, <1>9, <1>10, <1>11, <1>12, <1>13, <1>14, <1>16
  <2>2. x.end = t.end
    BY <1>3, <2>1
  <2> QED
    BY <1>5, <1>16, <2>2 DEF x, e
<1>17. CASE string
  <2>1. x = L("string_literal", e, TRUE)
    BY <1>1, <1>9, <1>10, <1>11, <1>12, <1>13, <1>14, <1>17
  <2>2. x.end = e
    BY <1>3, <2>1
  <2> QED
    BY <1>6, <1>17, <2>2 DEF x, e
<1>18. CASE directive
  <2>1. x = L("preprocessor", eol, TRUE)
    BY <1>1, <1>9, <1>10, <1>11, <1>12, <1>13, <1>14, <1>18
  <2>2. x.end = eol
    BY <1>3, <2>1
  <2> QED
    BY <1>4, <1>18, <2>2 DEF x, e
<1>19. CASE letter
  <2>1. x = L("identifier", word, TRUE)
    BY <1>1, <1>9, <1>10, <1>11, <1>12, <1>13, <1>14, <1>19
  <2>2. x.end = word
    BY <1>3, <2>1
  <2> QED
    BY <1>7, <1>19, <2>2 DEF x, e
<1>20. CASE digit
  <2>1. x = L("number_literal", i + 1, TRUE)
    BY <1>1, <1>9, <1>10, <1>11, <1>12, <1>13, <1>14, <1>20
  <2>2. x.end = i + 1
    BY <1>3, <2>1
  <2> QED
    BY <1>8, <1>20, <2>2 DEF x, e
<1>21. CASE ~line /\ ~block /\ ~string /\ ~directive /\ ~letter /\ ~digit
  <2>1. x = L("none", i + 1, TRUE)
    BY <1>1, <1>9, <1>10, <1>11, <1>12, <1>13, <1>14, <1>21
  <2>2. x.end = i + 1
    BY <1>3, <2>1
  <2> QED
    BY <1>8, <1>21, <2>2 DEF x, e
<1> QED
  BY <1>15, <1>16, <1>17, <1>18, <1>19, <1>20, <1>21

LEMMA CodeMoves == ASSUME Scanned, Semantic!ScanCode PROVE Moves
<1> DEFINE x == Semantic!Lexeme(position)
           f == Semantic!Field(x.kind, <<>>, position, x.end, <<>>, <<>>, x.reliable)
<1>1. position <= Len(Text) /\ Semantic!Take(IF x.kind = "none" THEN <<>> ELSE <<f>>, x.end, TRUE)
  BY Zenon DEF Semantic!ScanCode, Text
<1>2. position \in 1 .. Len(Text) /\ position \in Nat /\ Len(Text) \in Nat /\ position \in position .. Len(Text)
  BY <1>1 DEF Scanned, Readable
<1>3. x.end \in position + 1 .. Len(Text) + 1
  BY <1>2, LexemeIs DEF Scanned
<1> HIDE DEF x
<1>4. x.end \in Nat /\ position < x.end /\ x.end \in position .. Len(Text) + 1
  BY <1>2, <1>3
<1>5. CASE x.kind = "none"
  <2>1. Semantic!Take(<<>>, x.end, TRUE)
    BY <1>1, <1>5
  <2> QED
    BY <1>4, <2>1, NothingTaken
<1>6. CASE x.kind # "none"
  <2>1. Semantic!Take(<<f>>, x.end, TRUE)
    BY <1>1, <1>6
  <2>2. Placed(Text, f, position, x.end)
    BY <1>2, <1>4, NoValuePlaced
  <2> HIDE DEF f
  <2> QED
    BY <1>2, <1>3, <2>1, <2>2, FieldTaken
<1> QED
  BY <1>5, <1>6
----------------------------------------------------------------------------
(* The text of a seed, and where it lies in the file.                      *)
TextOf(s) == IF s.format = "json" THEN SubSeq(s.bytes, s.offset + 1, Len(s.bytes)) ELSE s.bytes
LiesAt(d, b, n) ==
    /\ d \in Seq(STRING) /\ b \in Seq(STRING) /\ n \in Nat
    /\ d # <<>> => Len(d) + n = Len(b)
    /\ \A i \in 1 .. Len(d) : d[i] = b[n + i]

LEMMA TextLies == ASSUME NEW s \in SeedFiles PROVE LiesAt(TextOf(s), s.bytes, s.offset)
<1>1. s.bytes \in Seq(STRING) /\ s.offset \in Nat /\ (s.format # "json" => s.offset = 0)
  BY SeedContents DEF Semantic!FieldsAssumption
<1>2. CASE s.format # "json"
  <2>1. TextOf(s) = s.bytes /\ s.offset = 0
    BY <1>1, <1>2 DEF TextOf
  <2> QED
    BY <1>1, <2>1 DEF LiesAt
<1>3. CASE s.format = "json"
  <2> DEFINE d == SubSeq(s.bytes, s.offset + 1, Len(s.bytes))
  <2>1. TextOf(s) = d
    BY <1>3 DEF TextOf
  <2>2. CASE s.offset <= Len(s.bytes)
    <3>1. s.offset + 1 \in 1 .. Len(s.bytes) + 1 /\ Len(s.bytes) \in (s.offset + 1) - 1 .. Len(s.bytes)
      BY <1>1, <2>2
    <3>2. /\ d \in Seq(STRING) /\ Len(d) = Len(s.bytes) + 1 - (s.offset + 1)
          /\ \A i \in 1 .. Len(s.bytes) + 1 - (s.offset + 1) : d[i] = s.bytes[(s.offset + 1) + i - 1]
      BY <1>1, <3>1, PartIs
    <3> HIDE DEF d
    <3>5. Len(s.bytes) \in Nat /\ Len(s.bytes) + 1 - (s.offset + 1) = Len(s.bytes) - s.offset
      BY <1>1
    <3>3. Len(d) + s.offset = Len(s.bytes) /\ \A i \in 1 .. Len(d) : (s.offset + 1) + i - 1 = s.offset + i
      BY <1>1, <2>2, <3>2, <3>5
    <3>4. \A i \in 1 .. Len(d) : d[i] = s.bytes[s.offset + i]
      BY <3>2, <3>3
    <3> QED
      BY <1>1, <2>1, <3>2, <3>3, <3>4 DEF LiesAt
  <2>3. CASE ~(s.offset <= Len(s.bytes))
    <3>1. d = <<>>
      BY <1>1, <2>3, SubSeqEmpty
    <3>2. TextOf(s) = <<>>
      BY <2>1, <3>1
    <3>3. <<>> \in Seq(STRING) /\ \A i \in 1 .. Len(<<>>) : FALSE
      OBVIOUS
    <3>4. LiesAt(<<>>, s.bytes, s.offset)
      BY <1>1, <3>3 DEF LiesAt
    <3> HIDE DEF d
    <3> QED
      BY <3>2, <3>4
  <2> QED
    BY <1>1, <2>2, <2>3
<1> QED
  BY <1>2, <1>3

LEMMA PartLies ==
    ASSUME NEW d, NEW b, NEW n, LiesAt(d, b, n), d # <<>>, NEW v \in 1 .. Len(d) + 1, NEW w \in v .. Len(d) + 1
    PROVE  SubSeq(b, v + n, w + n - 1) = SubSeq(d, v, w - 1)
<1>1. d \in Seq(STRING) /\ b \in Seq(STRING) /\ n \in Nat /\ Len(d) + n = Len(b) /\ Len(d) \in Nat /\ Len(b) \in Nat
  BY DEF LiesAt
<1>2. w - 1 \in v - 1 .. Len(d) /\ v + n \in 1 .. Len(b) + 1 /\ w + n - 1 \in (v + n) - 1 .. Len(b)
  BY <1>1
<1> DEFINE x == SubSeq(d, v, w - 1)
           y == SubSeq(b, v + n, w + n - 1)
<1>3. x \in Seq(STRING) /\ Len(x) = (w - 1) + 1 - v /\ \A i \in 1 .. (w - 1) + 1 - v : x[i] = d[v + i - 1]
  BY <1>1, <1>2, PartIs
<1>4. /\ y \in Seq(STRING) /\ Len(y) = (w + n - 1) + 1 - (v + n)
      /\ \A i \in 1 .. (w + n - 1) + 1 - (v + n) : y[i] = b[(v + n) + i - 1]
  BY <1>1, <1>2, PartIs
<1> HIDE DEF x, y
<1>5. Len(x) = w - v /\ Len(y) = w - v /\ w - v \in Nat
  BY <1>1, <1>3, <1>4
<1>6. ASSUME NEW i \in 1 .. w - v PROVE x[i] = y[i]
  <2>1. v + i - 1 \in 1 .. Len(d) /\ n + (v + i - 1) = (v + n) + i - 1
    BY <1>1
  <2>2. d[v + i - 1] = b[n + (v + i - 1)]
    BY <2>1 DEF LiesAt
  <2>3. x[i] = d[v + i - 1] /\ y[i] = b[(v + n) + i - 1]
    BY <1>1, <1>3, <1>4
  <2> QED
    BY <2>1, <2>2, <2>3
<1>7. x = y
  BY <1>3, <1>4, <1>5, <1>6
<1> QED
  BY <1>7 DEF x, y

(* What a seed's fields are while they are read, and when they are.        *)
FieldsInv ==
    /\ reading \in {"idle", "scan", "enrich", "done"}
    /\ reading = "idle" => position = 1 /\ fields = <<>>
    /\ reading # "idle" => seed \in SeedFiles
    /\ reading \in {"scan", "enrich"} => Scanned
    /\ Semantic!FieldsInPlace

LEMMA StartReads ==
    ASSUME FieldsInv, reading = "idle", NEW s \in SeedFiles, Semantic!Start(s) PROVE FieldsInv'
<1>1. position' = 1 /\ fields' = <<>> /\ seed' = s /\ reading' = "scan"
  BY DEF Semantic!Start, FieldsInv
<1>2. Text' = TextOf(s)
  BY <1>1 DEF Text, Semantic!Payload, TextOf
<1>3. Text' \in Seq(STRING) /\ Len(Text') \in Nat
  BY <1>2, TextLies DEF LiesAt
<1> HIDE DEF Text
<1>4. Scanned'
  <2>1. Row(Text', <<>>, 1, 1)
    BY EmptyRow
  <2> QED
    BY <1>1, <1>3, <2>1 DEF Scanned, Readable
<1> QED
  BY <1>1, <1>4 DEF FieldsInv, Semantic!FieldsInPlace

LEMMA ScanReads ==
    ASSUME FieldsInv, reading = "scan",
           Semantic!ScanXml \/ Semantic!ScanJson \/ Semantic!ScanCode \/ Semantic!ScanEnds
    PROVE  FieldsInv'
<1>1. Scanned /\ seed \in SeedFiles
  BY DEF FieldsInv
<1>2. ASSUME Moves PROVE FieldsInv'
  BY <1>1, <1>2 DEF Moves, FieldsInv, Semantic!FieldsInPlace
<1>3. CASE Semantic!ScanXml
  <2>1. position <= Len(Text)
    BY <1>3 DEF Semantic!ScanXml, Text
  <2>2. \/ Semantic!XmlText \/ Semantic!XmlMarkup \/ Semantic!XmlDoctype \/ Semantic!XmlInstruction
        \/ Semantic!XmlEndTag \/ Semantic!XmlStartTag
    BY <1>3 DEF Semantic!ScanXml
  <2> QED
    BY <1>1, <1>2, <2>1, <2>2, XmlTextMoves, XmlMarkupMoves, XmlDoctypeMoves, XmlInstructionMoves,
       XmlEndTagMoves, XmlStartTagMoves
<1>4. CASE Semantic!ScanJson
  <2>1. Semantic!Here <= Len(Text)
    BY <1>4 DEF Semantic!ScanJson, Text
  <2>2. \/ Semantic!JsonOpen \/ Semantic!JsonClose \/ Semantic!JsonComma \/ Semantic!JsonColon
        \/ Semantic!JsonString \/ Semantic!JsonLiteral
    BY <1>4 DEF Semantic!ScanJson
  <2> QED
    BY <1>1, <1>2, <2>1, <2>2, JsonSymbolMoves, JsonStringMoves, JsonLiteralMoves
<1>5. CASE Semantic!ScanCode
  BY <1>1, <1>2, <1>5, CodeMoves
<1>6. CASE Semantic!ScanEnds
  <2>1. reading' = "enrich" /\ seed' = seed /\ position' = position /\ fields' = fields
    BY <1>6 DEF Semantic!ScanEnds
  <2>2. Text' = Text
    BY <2>1 DEF Text, Semantic!Payload
  <2>3. Scanned'
    BY <1>1, <2>1, <2>2 DEF Scanned, Readable
  <2> QED
    BY <1>1, <2>1, <2>3 DEF FieldsInv, Semantic!FieldsInPlace
<1> QED
  BY <1>3, <1>4, <1>5, <1>6

(* What becomes of each field when the parser has been asked.              *)
LEMMA EnrichedIs ==
    ASSUME Scanned, seed \in SeedFiles, Semantic!Enrich
    PROVE  /\ seed' = seed /\ reading' = "done" /\ DOMAIN fields' = 1 .. Len(fields) /\ Len(fields') = Len(fields)
           /\ Len(fields) \in Nat
           /\ \A i \in 1 .. Len(fields) :
                 /\ fields'[i].start = fields[i].start + seed.offset /\ fields'[i].end = fields[i].end + seed.offset
                 /\ fields'[i].kind = fields[i].kind /\ fields'[i].key = fields[i].key
                 /\ fields[i].value = <<>> => fields'[i].value = <<>>
                 /\ \A v, w \in Nat : fields[i].value = <<v, w>>
                       => fields'[i].value = <<v + seed.offset, w + seed.offset>>
<1> DEFINE n == seed.offset
<1>1. PICK nodes :
         fields' = [i \in DOMAIN Semantic!Enriched(nodes) |-> Semantic!Remapped(Semantic!Enriched(nodes)[i], n)]
  BY Zenon DEF Semantic!Enrich
<1>2. seed' = seed /\ reading' = "done"
  BY DEF Semantic!Enrich
<1> DEFINE added == Semantic!Enriched(nodes)
<1>3. PICK S : fields \in Seq(S)
  BY DEF Scanned, Row, Listed
<1>4. DOMAIN fields = 1 .. Len(fields) /\ Len(fields) \in Nat
  BY <1>3
<1>5. DOMAIN added = 1 .. Len(fields)
  BY <1>4 DEF Semantic!Enriched
<1>6. ASSUME NEW i \in 1 .. Len(fields)
      PROVE  /\ HasPlace(added[i]) /\ added[i].start = fields[i].start /\ added[i].end = fields[i].end
             /\ added[i].kind = fields[i].kind /\ added[i].key = fields[i].key /\ added[i].value = fields[i].value
  <2>1. HasPlace(fields[i])
    BY DEF Scanned, Row, Placed
  <2>2. PICK node : added[i] = [fields[i] EXCEPT !.node = node]
    BY <1>4, Zenon DEF Semantic!Enriched
  <2>3. DOMAIN fields[i] = FieldParts
    BY <2>1 DEF HasPlace
  <2> HIDE DEF added
  <2>4. /\ DOMAIN added[i] = FieldParts /\ added[i].start = fields[i].start /\ added[i].end = fields[i].end
        /\ added[i].kind = fields[i].kind /\ added[i].key = fields[i].key /\ added[i].value = fields[i].value
    BY <2>2, <2>3 DEF FieldParts
  <2>5. HasPlace(added[i])
    BY <2>1, <2>4 DEF HasPlace
  <2> QED
    BY <2>4, <2>5
<1>7. n \in Nat
  BY SeedContents DEF Semantic!FieldsAssumption
<1> HIDE DEF added
<1>8. fields' = [i \in 1 .. Len(fields) |-> Semantic!ShiftedBy(n, added[i])]
  BY <1>1, <1>5 DEF added, Semantic!Remapped
<1>9. DOMAIN fields' = 1 .. Len(fields) /\ \A i \in 1 .. Len(fields) : fields'[i] = Semantic!ShiftedBy(n, added[i])
  BY <1>8
<1>10. Len(fields') = Len(fields)
  <2> DEFINE R == {Semantic!ShiftedBy(n, added[i]) : i \in 1 .. Len(fields)}
  <2>1. fields' \in [1 .. Len(fields) -> R]
    BY <1>8
  <2> HIDE DEF R
  <2>2. fields' \in Seq(R)
    BY <1>4, <2>1, FunctionIsSeq
  <2>3. DOMAIN fields' = 1 .. Len(fields') /\ Len(fields') \in Nat
    BY <2>2
  <2> QED
    BY <1>4, <1>9, <2>3
<1>11. ASSUME NEW i \in 1 .. Len(fields)
       PROVE  /\ fields'[i].start = fields[i].start + n /\ fields'[i].end = fields[i].end + n
              /\ fields'[i].kind = fields[i].kind /\ fields'[i].key = fields[i].key
              /\ fields[i].value = <<>> => fields'[i].value = <<>>
              /\ \A v, w \in Nat : fields[i].value = <<v, w>> => fields'[i].value = <<v + n, w + n>>
  <2>1. fields'[i] = Semantic!ShiftedBy(n, added[i])
    BY <1>9
  <2> DEFINE g == Semantic!ShiftedBy(n, added[i])
  <2>2. /\ g.start = added[i].start + n /\ g.end = added[i].end + n
        /\ g.kind = added[i].kind /\ g.key = added[i].key
        /\ added[i].value = <<>> => g.value = <<>>
        /\ \A v, w \in Nat : added[i].value = <<v, w>> => g.value = <<v + n, w + n>>
    BY <1>6, <1>7, ShiftedIs
  <2> HIDE DEF g, n
  <2> QED
    BY <1>6, <2>1, <2>2 DEF g
<1> QED
  BY <1>2, <1>4, <1>9, <1>10, <1>11

LEMMA EnrichReads == ASSUME FieldsInv, Semantic!Enrich PROVE FieldsInv'
<1>1. Scanned /\ seed \in SeedFiles
  BY DEF Semantic!Enrich, FieldsInv
<1>2. /\ seed' = seed /\ reading' = "done" /\ DOMAIN fields' = 1 .. Len(fields) /\ Len(fields') = Len(fields)
      /\ Len(fields) \in Nat
      /\ \A i \in 1 .. Len(fields) :
            /\ fields'[i].start = fields[i].start + seed.offset /\ fields'[i].end = fields[i].end + seed.offset
            /\ fields'[i].kind = fields[i].kind /\ fields'[i].key = fields[i].key
            /\ fields[i].value = <<>> => fields'[i].value = <<>>
            /\ \A v, w \in Nat : fields[i].value = <<v, w>>
                  => fields'[i].value = <<v + seed.offset, w + seed.offset>>
  BY <1>1, EnrichedIs
<1> DEFINE n == seed.offset
           b == seed.bytes
<1>3. LiesAt(Text, b, n)
  <2>1. Text = TextOf(seed)
    BY DEF Text, Semantic!Payload, TextOf
  <2> QED
    BY <1>1, <2>1, TextLies
<1>4. /\ n \in Nat /\ Len(Text) \in Nat /\ Len(b) \in Nat /\ position \in Nat /\ position <= Len(Text) + 1
      /\ Text # <<>> => Len(Text) + n = Len(b)
  BY <1>1, <1>3 DEF LiesAt, Scanned
<1> HIDE DEF n, b
<1>5. ASSUME NEW i \in 1 .. Len(fields)
      PROVE  /\ fields[i].start \in Nat /\ fields[i].end \in Nat /\ 1 <= fields[i].start
             /\ fields[i].start < fields[i].end /\ fields[i].end <= Len(Text) + 1 /\ Text # <<>>
             /\ HasPlace(fields[i]) /\ Keyed(Text, fields[i])
  <2>1. Placed(Text, fields[i], 1, position)
    BY <1>1 DEF Scanned, Row
  <2>2. /\ fields[i].start \in Nat /\ fields[i].end \in Nat /\ fields[i].start < fields[i].end
        /\ 1 <= fields[i].start /\ fields[i].end <= position
    BY <2>1 DEF Placed, HasPlace
  <2>3. fields[i].end <= Len(Text) + 1
    BY <1>4, <2>2
  <2>4. Len(Text) # 0
    BY <1>4, <2>2, <2>3
  <2> QED
    BY <2>1, <2>2, <2>3, <2>4 DEF Placed
<1>6. Semantic!InOrder'
  <2>1. ASSUME NEW i \in 1 .. Len(fields)
        PROVE  /\ 1 <= fields'[i].start /\ fields'[i].start < fields'[i].end
               /\ fields'[i].end <= Len(b) + 1
    <3>1. fields'[i].start = fields[i].start + n /\ fields'[i].end = fields[i].end + n
      BY <1>2 DEF n
    <3>2. /\ fields[i].start \in Nat /\ fields[i].end \in Nat /\ 1 <= fields[i].start
          /\ fields[i].start < fields[i].end /\ fields[i].end <= Len(Text) + 1 /\ Text # <<>>
      BY <1>5
    <3>3. Len(Text) + n = Len(b)
      BY <1>4, <3>2
    <3> QED
      BY <1>4, <3>1, <3>2, <3>3
  <2>2. ASSUME NEW i \in 1 .. Len(fields), NEW j \in i + 1 .. Len(fields)
        PROVE  \/ fields'[i].end <= fields'[j].start
               \/ /\ fields'[i].kind = "xml_decl" /\ fields'[j].kind = "xml_decl_attr"
                  /\ fields'[i].start <= fields'[j].start /\ fields'[j].end <= fields'[i].end
    <3>1. j \in 1 .. Len(fields) /\ i < j
      BY <1>2
    <3>2. Follow(fields[i], fields[j])
      BY <1>1, <3>1 DEF Scanned, Row
    <3>3. /\ fields'[i].start = fields[i].start + n /\ fields'[i].end = fields[i].end + n
          /\ fields'[j].start = fields[j].start + n /\ fields'[j].end = fields[j].end + n
          /\ fields'[i].kind = fields[i].kind /\ fields'[j].kind = fields[j].kind
      BY <1>2, <3>1 DEF n
    <3>4. fields[i].start \in Nat /\ fields[i].end \in Nat /\ fields[j].start \in Nat /\ fields[j].end \in Nat
      BY <1>5, <3>1
    <3>5. CASE fields[i].end <= fields[j].start
      <4>1. fields'[i].end <= fields'[j].start
        BY <1>4, <3>3, <3>4, <3>5
      <4> QED
        BY <4>1
    <3>6. CASE fields[i].kind = "xml_decl" /\ fields[j].kind = "xml_decl_attr" /\ Semantic!Within(fields[j], fields[i])
      <4>1. fields[i].start <= fields[j].start /\ fields[j].end <= fields[i].end
        BY <3>6 DEF Semantic!Within
      <4>2. fields[i].start + n <= fields[j].start + n
        BY <1>4, <3>4, <4>1
      <4>3. fields[j].end + n <= fields[i].end + n
        BY <1>4, <3>4, <4>1
      <4> QED
        BY <3>3, <3>6, <4>2, <4>3, Zenon
    <3> QED
      BY <3>2, <3>5, <3>6 DEF Follow
  <2> QED
    BY <1>2, <2>1, <2>2 DEF Semantic!InOrder, Semantic!Within, b
<1>7. Semantic!ValuesInPlace'
  <2>1. ASSUME NEW i \in 1 .. Len(fields), fields'[i].value # <<>>
        PROVE  /\ fields'[i].start <= fields'[i].value[1] /\ fields'[i].value[1] <= fields'[i].value[2]
               /\ fields'[i].value[2] <= fields'[i].end
               /\ fields'[i].kind \in {"element_name", "string", "object_key"} /\ b[fields'[i].start] \notin Semantic!Blanks
                     => SubSeq(b, fields'[i].value[1], fields'[i].value[2] - 1) = fields'[i].key
    <3>1. fields[i].value # <<>>
      BY <1>2, <2>1
    <3>2. PICK v \in fields[i].start .. fields[i].end : \E w \in v .. fields[i].end : fields[i].value = <<v, w>>
      BY <1>5, <3>1 DEF HasPlace
    <3>3. PICK w \in v .. fields[i].end : fields[i].value = <<v, w>>
      BY <3>2
    <3>4. v \in Nat /\ w \in Nat /\ v \in 1 .. Len(Text) + 1 /\ w \in v .. Len(Text) + 1
      BY <1>4, <1>5
    <3>5. /\ fields'[i].start = fields[i].start + n /\ fields'[i].end = fields[i].end + n
          /\ fields'[i].kind = fields[i].kind /\ fields'[i].key = fields[i].key
          /\ fields'[i].value = <<v + n, w + n>>
      BY <1>2, <3>3, <3>4 DEF n
    <3>6. fields'[i].value[1] = v + n /\ fields'[i].value[2] = w + n
      BY <3>5
    <3>7. SubSeq(b, v + n, w + n - 1) = SubSeq(Text, v, w - 1)
      BY <1>3, <1>5, <3>4, PartLies
    <3>8. Text[fields[i].start] = b[n + fields[i].start] /\ n + fields[i].start = fields[i].start + n
      <4>1. fields[i].start \in 1 .. Len(Text)
        BY <1>4, <1>5
      <4> QED
        BY <1>3, <1>4, <4>1 DEF LiesAt
    <3>9. fields[i].kind \in {"element_name", "string", "object_key"} /\ Text[fields[i].start] \notin Semantic!Blanks
             => SubSeq(Text, v, w - 1) = fields[i].key
      <4>1. fields[i].value[1] = v /\ fields[i].value[2] = w
        BY <3>3
      <4>2. Keyed(Text, fields[i])
        BY <1>5
      <4> QED
        BY <3>1, <4>1, <4>2, Zenon DEF Keyed
    <3>10. /\ fields'[i].start <= v + n /\ v + n <= w + n /\ w + n <= fields'[i].end
      BY <1>4, <1>5, <3>4, <3>5
    <3>11. /\ fields'[i].start <= fields'[i].value[1] /\ fields'[i].value[1] <= fields'[i].value[2]
           /\ fields'[i].value[2] <= fields'[i].end
      BY <3>6, <3>10, Zenon
    <3>12. fields'[i].kind \in {"element_name", "string", "object_key"} /\ b[fields'[i].start] \notin Semantic!Blanks
              => SubSeq(b, v + n, w + n - 1) = fields'[i].key
      <4>1. b[fields'[i].start] = Text[fields[i].start]
        BY <3>5, <3>8, Zenon
      <4> QED
        BY <3>5, <3>7, <3>9, <4>1, Zenon
    <3>13. SubSeq(b, fields'[i].value[1], fields'[i].value[2] - 1) = SubSeq(b, v + n, w + n - 1)
      <4> DEFINE x == fields'[i].value[1]
                 y == fields'[i].value[2]
      <4>1. x = v + n /\ y = w + n
        BY <3>6
      <4> HIDE DEF x, y
      <4>2. x = v + n /\ y - 1 = w + n - 1
        BY <1>4, <3>4, <4>1
      <4> QED
        BY <4>2, Zenon DEF x, y
    <3> QED
      BY <3>11, <3>12, <3>13, Zenon
  <2> QED
    BY <1>2, <2>1, Zenon DEF Semantic!ValuesInPlace, Semantic!Range, b
<1> QED
  BY <1>1, <1>2, <1>6, <1>7 DEF FieldsInv, Semantic!FieldsInPlace

(* Whatever a seed holds, its fields follow each other in the file, with   *)
(* their values inside them: build_fields of semantic_fields.              *)
THEOREM FieldsStandInOrder == Semantic!Spec => []Semantic!FieldsInPlace
<1>1. Semantic!Init => FieldsInv
  BY DEF Semantic!Init, FieldsInv, Semantic!FieldsInPlace
<1>2. FieldsInv /\ [Semantic!Next]_(Semantic!fieldVars) => FieldsInv'
  <2> SUFFICES ASSUME FieldsInv, [Semantic!Next]_(Semantic!fieldVars) PROVE FieldsInv'
    OBVIOUS
  <2>1. ASSUME NEW s \in SeedFiles, reading = "idle", Semantic!Start(s) PROVE FieldsInv'
    BY <2>1, StartReads
  <2>2. CASE reading = "scan" /\ (Semantic!ScanXml \/ Semantic!ScanJson \/ Semantic!ScanCode \/ Semantic!ScanEnds)
    BY <2>2, ScanReads
  <2>3. CASE Semantic!Enrich
    BY <2>3, EnrichReads
  <2>4. CASE UNCHANGED Semantic!fieldVars
    <3>1. seed' = seed /\ reading' = reading /\ position' = position /\ fields' = fields
      BY <2>4 DEF Semantic!fieldVars
    <3>2. Text' = Text
      BY <3>1 DEF Text, Semantic!Payload
    <3>3. Scanned' <=> Scanned
      BY <3>1, <3>2 DEF Scanned, Readable
    <3>4. Semantic!InOrder' <=> Semantic!InOrder
      BY <3>1 DEF Semantic!InOrder
    <3>5. Semantic!ValuesInPlace' <=> Semantic!ValuesInPlace
      BY <3>1 DEF Semantic!ValuesInPlace
    <3> QED
      BY <3>1, <3>3, <3>4, <3>5 DEF FieldsInv, Semantic!FieldsInPlace
  <2> QED
    BY <2>1, <2>2, <2>3, <2>4 DEF Semantic!Next
<1>3. FieldsInv => Semantic!FieldsInPlace
  BY DEF FieldsInv
<1> QED
  BY <1>1, <1>2, <1>3, PTL DEF Semantic!Spec
=============================================================================
