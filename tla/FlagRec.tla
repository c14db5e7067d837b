------------------------------- MODULE FlagRec ----------------------------
(* flagrec: finds groups of constants in source files and variables in     *)
(* LLVM IR, and reports the variables that look like flags over a group.   *)
(* Names are sequences of words; a name contains another if its words      *)
(* follow each other in it.  Words that differ share less than two         *)
(* letters.  Scores are in hundredths, confidences in twelfths of them.    *)
EXTENDS Integers, Sequences, FiniteSets, SequencesExt, FiniteSetsExt

CONSTANTS
    Inputs,          \* what flagrec is run on, see MCAnalyses
    MinGroupSize,
    IgnorePrefixes,  \* prefixes whose groups are not wanted
    MinConfidence

(* The files, and the variables and accesses of their IR, are in order.    *)
IsList(s) == s \in Seq(Range(s))
InputsAssumption ==
    \A i \in Inputs :
        /\ i.bitcode \in BOOLEAN /\ IsList(i.files) /\ i.files # <<>>
        /\ \A f \in Range(i.files) : IsList(f.ir.globals) /\ IsList(f.ir.locals) /\ IsList(f.ir.accesses)

VARIABLES
    tool,            \* the step of main
    input,
    file,            \* the target file under analysis
    groups,          \* constantGroups
    candidates,
    identified,      \* how many candidates identifyFlags is done with
    flagVariables,
    filtered,        \* lowConfidenceFiltered
    reports          \* the reports on disk
flagrecVars == <<tool, input, file, groups, candidates, identified, flagVariables, filtered, reports>>

Init ==
    /\ tool = "idle" /\ input = <<>> /\ file = 1 /\ groups = {} /\ candidates = <<>>
    /\ identified = 0 /\ flagVariables = <<>> /\ filtered = 0 /\ reports = {}

Includes(name, part) ==
    \E i \in 0 .. Len(name) - Len(part) : SubSeq(name, i + 1, i + Len(part)) = part
IncludesInside(name, part) == Len(name) > 0 /\ Includes(Front(name), part)
Has(name, words) == Range(name) \cap words # {}
Least(a, b) == IF a < b THEN a ELSE b

----------------------------------------------------------------------------
(* Constants.  Those of an enum wait for its end, which may name it; the   *)
(* end of a later enum names those of one that was never closed.           *)
Parsed(group, name, value) == [group |-> group, name |-> name, value |-> value]
EnumLine(s, l) ==
    CASE l.kind = "enum" -> [s EXCEPT !.in = TRUE, !.tag = l.group, !.last = -1]
      [] l.kind = "end" /\ s.in ->
             LET name == IF l.group = "" THEN s.tag ELSE l.group
             IN  [s EXCEPT !.in = FALSE,
                           !.out = [i \in DOMAIN @ |-> IF @[i].group = "<pending>"
                                                       THEN [@[i] EXCEPT !.group = name] ELSE @[i]]]
      [] l.kind = "enumerator" /\ s.in ->
             LET value == IF l.value = {} THEN s.last + 1 ELSE Max(l.value)
             IN  [s EXCEPT !.last = value, !.out = Append(@, Parsed("<pending>", l.name, value))]
      [] OTHER -> s
ExtractEnumConstants(ls) ==
    FoldLeft(EnumLine, [in |-> FALSE, tag |-> "", last |-> -1, out |-> <<>>], ls).out

OfKind(ls, kind) == SelectSeq(ls, LAMBDA l : l.kind = kind)
ExtractMacroConstants(ls) ==
    LET ms == SelectSeq(OfKind(ls, "define"), LAMBDA l : <<Head(l.name)>> \notin IgnorePrefixes)
    IN  [i \in DOMAIN ms |-> Parsed(ms[i].group, ms[i].name, Max(ms[i].value))]
ExtractConstVariables(ls) ==
    LET cs == OfKind(ls, "const")
    IN  [i \in DOMAIN cs |-> Parsed("<const_var>", cs[i].name, Max(cs[i].value))]

Constants(files) ==
    FlattenSeq([i \in DOMAIN files |-> ExtractEnumConstants(files[i].lines)
                                       \o ExtractMacroConstants(files[i].lines)
                                       \o ExtractConstVariables(files[i].lines)])

(* The words all names begin with, or else the name of an enum.            *)
ExtractCommonPrefix(cs) ==
    LET same == {n \in 1 .. Len(cs[1].name) : \A i \in DOMAIN cs : IsPrefix(SubSeq(cs[1].name, 1, n), cs[i].name)}
    IN  IF same # {} THEN SubSeq(cs[1].name, 1, Max(same))
        ELSE IF cs[1].group \in {"<anonymous>", "<const_var>", "<no_prefix>"} THEN <<>>
        ELSE <<cs[1].group>>

MembersOf(g, all) == SelectSeq(all, LAMBDA c : c.group = g)
Group(g, all) ==
    [id |-> g, prefix |-> ExtractCommonPrefix(MembersOf(g, all)), size |-> Len(MembersOf(g, all)),
     values |-> {c.value : c \in Range(MembersOf(g, all))}]
Shows(g, all) ==
    /\ Len(MembersOf(g, all)) >= MinGroupSize
    /\ ExtractCommonPrefix(MembersOf(g, all)) \notin IgnorePrefixes \cup {<<>>}
ClusterParsedConstants(all) ==
    {Group(g, all) : g \in {h \in {c.group : c \in Range(all)} : Shows(h, all)}}

(* In bitcode mode, those in the directory itself: sources, then headers.  *)
InDirectory(fs, kind) == SelectSeq(fs, LAMBDA f : f.kind = kind)
SourceFiles ==
    IF input.bitcode THEN InDirectory(input.files, "source") \o InDirectory(input.files, "header")
    ELSE input.files

Start(i) ==
    /\ tool = "idle" /\ tool' = "constants" /\ input' = i
    /\ UNCHANGED <<file, groups, candidates, identified, flagVariables, filtered, reports>>

(* Only when it compiles the files itself does flagrec give up for want of *)
(* constants.                                                              *)
FindConstants ==
    /\ tool = "constants"
    /\ LET found == ClusterParsedConstants(Constants(SourceFiles))
       IN  /\ groups' = found
           /\ tool' = IF found = {} /\ ~input.bitcode THEN "failed" ELSE "variables"
    /\ UNCHANGED <<input, file, candidates, identified, flagVariables, filtered, reports>>

----------------------------------------------------------------------------
(* What is seen of a variable.                                             *)
LoopWords == {"index", "idx", "counter", "count", "iter", "row", "col", "column", "pos", "position",
              "loop", "curr", "current"}
LoopLetters == {"i", "j", "k", "l", "m", "n"}
IsLoopCounterName(name) == Has(name, LoopWords) \/ (Len(name) = 1 /\ Has(name, LoopLetters))

FlagWords == {"mode", "state", "flag", "flags", "status", "stage", "transform", "option", "options",
              "setting", "settings", "control", "config", "property", "properties"}
IsFlagLikeFieldName(name) == Has(name, FlagWords)

Stores(U) == {u \in U : u.op = "store"}
Readers(U) == UNION {u.by : u \in {v \in U : v.op = "load"}}
ConstantsOf(S) == UNION {s.const : s \in S}
StoredConstants(U) == ConstantsOf({s \in Stores(U) : ~s.ored})

(* The loads of a global are not followed.                                 *)
Global(g) ==
    [name |-> g.name, key |-> <<>>, global |-> TRUE, member |-> FALSE, loop |-> FALSE,
     stores |-> StoredConstants(g.uses) # {}, compared |-> \E u \in g.uses : u.op = "icmp",
     bits |-> \E u \in g.uses : u.op = "bit", ored |-> FALSE, constants |-> StoredConstants(g.uses)]
Local(v) ==
    [name |-> v.name, key |-> <<>>, global |-> FALSE, member |-> FALSE, loop |-> IsLoopCounterName(v.name),
     stores |-> StoredConstants(v.uses) # {}, compared |-> \E r \in Readers(v.uses) : r.op = "icmp",
     bits |-> \E r \in Readers(v.uses) : r.op # "icmp", ored |-> FALSE, constants |-> StoredConstants(v.uses)]

(* A field is a candidate once its access has a telling name; then every   *)
(* access counts, in whatever function and under whatever name.            *)
Key(a) == <<a.struct, a.field>>
FirstAccess(m, i) == {m.accesses[i]}                               \* mutant
AccessesOf(m, i) == {a \in Range(m.accesses) : a.first = 0 /\ Key(a) = Key(m.accesses[i])}
OrStores(U) == {s \in Stores(U) : s.ored /\ s.const # {}}
Member(m, i) ==
    LET U == UNION {a.uses : a \in AccessesOf(m, i)}
    IN  [name |-> m.accesses[i].name, key |-> Key(m.accesses[i]), global |-> FALSE, member |-> TRUE, loop |-> FALSE,
         stores |-> StoredConstants(U) # {},
         compared |-> \E r \in Readers(U) : r.op = "icmp" \/ r.tested,
         bits |-> OrStores(U) # {} \/ \E r \in Readers(U) : r.op # "icmp",
         ored |-> OrStores(U) # {},
         constants |-> StoredConstants(U) \cup ConstantsOf(OrStores(U))
                       \cup ConstantsOf({r \in Readers(U) : r.op \in {"icmp", "and"}})]
(* collectStructMembers; the order of the candidates is left open.         *)
Telling(a) == a.first = 0 /\ IsFlagLikeFieldName(a.name)
FirstTelling(m) ==
    {i \in DOMAIN m.accesses :
        /\ Telling(m.accesses[i])
        /\ \A j \in 1 .. i - 1 : Telling(m.accesses[j]) => Key(m.accesses[j]) # Key(m.accesses[i])}
Members(m) == SetToSeq({Member(m, i) : i \in FirstTelling(m)})

AnalyzeModule(m) ==
    [i \in DOMAIN m.globals |-> Global(m.globals[i])] \o [i \in DOMAIN m.locals |-> Local(m.locals[i])]
    \o Members(m)

(* A file that does not compile, or whose bitcode cannot be read, is       *)
(* passed over.                                                            *)
FilterVariables ==
    /\ tool = "variables" /\ ~input.bitcode /\ file <= Len(input.files)
    /\ file' = file + 1
    /\ \/ candidates' = candidates \o AnalyzeModule(input.files[file].ir)
       \/ UNCHANGED candidates
    /\ UNCHANGED <<tool, input, groups, identified, flagVariables, filtered, reports>>

VariablesFiltered ==
    /\ tool = "variables" /\ ~input.bitcode /\ file > Len(input.files)
    /\ tool' = IF candidates = <<>> THEN "failed" ELSE "flags"
    /\ UNCHANGED <<input, file, groups, candidates, identified, flagVariables, filtered, reports>>

AnalyzeBitcodeFile ==
    /\ tool = "variables" /\ input.bitcode
    /\ \/ tool' = "flags" /\ candidates' = AnalyzeModule(input.files[1].ir)
       \/ tool' = "failed" /\ UNCHANGED candidates
    /\ UNCHANGED <<input, file, groups, identified, flagVariables, filtered, reports>>

----------------------------------------------------------------------------
Points(n, holds) == IF holds THEN n ELSE 0

(* transform, mode, flag and state are looked for in this order.           *)
FieldMatchesGroup(name, p) ==
    CASE Has(name, {"transform"}) -> Has(p, {"transform"}) \/ Head(p) = "png"
      [] ~Has(name, {"transform"}) /\ Has(name, {"mode"}) -> Has(p, {"mode", "have"}) \/ Head(p) = "png"
      [] ~Has(name, {"transform", "mode"}) /\ Has(name, {"flag", "flags"}) -> Has(p, {"flag", "flags"})
      [] OTHER -> Has(name, {"state"}) /\ Has(p, {"state"})

GroupScore(c, g) ==
    Points(50, IncludesInside(c.name, g.prefix)) + Points(40, Includes(c.name, g.prefix))
    + Points(60, c.member /\ FieldMatchesGroup(c.name, g.prefix)) + Points(30, c.member /\ c.ored)
    + Points(20, Has(c.name, {"mode", "state", "flag", "flags", "status", "option", "options"}))
    + (IF c.global THEN 10 ELSE 5) + Least(15, 3 * g.size) + Points(15, c.stores)

(* A group of the best score, if that is high enough; among equals the     *)
(* order of their names decides.                                           *)
MatchToGroup(c) ==
    LET best == {g \in groups : /\ GroupScore(c, g) >= 25
                                /\ \A h \in groups : GroupScore(c, h) <= GroupScore(c, g)}
    IN  IF best = {} THEN {{}} ELSE {{g} : g \in best}

(* Of the constants of the variable, how many the group has, and its size. *)
CalculateGroupMatch(cs, g) ==
    IF cs = {} THEN 0
    ELSE (360 * Cardinality(cs \cap g.values)) \div Cardinality(cs) + 18 * Least(4, g.size)

CalculateConfidence(c, match) ==
    Least(1200,
        12 * (Points(30, c.stores) + Points(20, c.compared) + Points(15, c.bits) + Points(10, c.member)
              + Points(15, c.member /\ Has(c.name, {"mode", "flag", "flags", "state", "transform"}))
              + Points(20, c.member /\ c.ored))
        + FoldSet(LAMBDA g, n : n + CalculateGroupMatch(c.constants, g), 0, match))

Assigned(c, match) == {v \in c.constants : match = {} \/ \E g \in match : v \in g.values}
Flag(c, match) ==
    [name |-> c.name, key |-> c.key, group |-> {g.id : g \in match}, assignments |-> Assigned(c, match),
     checked |-> c.compared, confidence |-> CalculateConfidence(c, match)]

(* identifyFlags, one candidate.                                           *)
IdentifyFlag ==
    /\ tool = "flags" /\ identified < Len(candidates)
    /\ identified' = identified + 1
    /\ LET c == candidates[identified + 1]
       IN  \E match \in MatchToGroup(c) :
             IF ~c.loop /\ CalculateConfidence(c, match) >= MinConfidence
             THEN flagVariables' = Append(flagVariables, Flag(c, match)) /\ UNCHANGED filtered
             ELSE filtered' = filtered + 1 /\ UNCHANGED flagVariables
    /\ UNCHANGED <<tool, input, file, groups, candidates, reports>>

(* flags.json, then report.md.                                             *)
SaveResults ==
    /\ tool = "flags" /\ identified = Len(candidates)
    /\ \/ tool' = "done" /\ reports' = {"flags.json", "report.md"}
       \/ tool' = "failed" /\ reports' \in {{}, {"flags.json"}}
    /\ UNCHANGED <<input, file, groups, candidates, identified, flagVariables, filtered>>

Next ==
    (tool = "idle" /\ \E i \in Inputs : Start(i)) \/ FindConstants \/ FilterVariables \/ VariablesFiltered
    \/ AnalyzeBitcodeFile \/ IdentifyFlag \/ SaveResults

Spec == Init /\ [][Next]_flagrecVars

----------------------------------------------------------------------------
(* The accesses to a field in the first module.                            *)
AccessesTo(key) == {a \in Range(input.files[1].ir.accesses) : a.first = 0 /\ Key(a) = key}

(* Every candidate is decided once.  A field that is reported has the      *)
(* constants that any access to it stores: none is lost because another    *)
(* access, in another function, made the field a candidate.  What is       *)
(* reported as assigned belongs to the group reported, and a flag that is  *)
(* tested by some access is reported as such.                              *)
FlagsAreJustified ==
    /\ Len(flagVariables) + filtered = identified
    /\ tool = "done" =>
          \A f \in Range(flagVariables) :
              /\ \A g \in groups : g.id \in f.group => f.assignments \subseteq g.values
              /\ f.key # <<>> /\ (input.bitcode \/ Len(input.files) = 1) =>
                    \A a \in AccessesTo(f.key) :
                        /\ \A v \in StoredConstants(a.uses) :
                              v \in f.assignments \/ \E g \in groups : g.id \in f.group /\ v \notin g.values
                        /\ (\E r \in Readers(a.uses) : r.op = "icmp") => f.checked
=============================================================================
