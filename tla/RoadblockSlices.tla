--------------------------- MODULE RoadblockSlices ---------------------------
(* The code of a roadblock that the model is shown (get_function_slice,    *)
(* ensure_cached_single_function_slice): cut out along a run, by the       *)
(* static slicer, or along the replay of a seed, or else the function as   *)
(* it is.  Slices of the slicer are kept in memory by what was asked, and  *)
(* in files by a label; that of a function nobody calls is kept by         *)
(* roadblock.  The process may be killed and started again at any point.   *)
EXTENDS Integers, Sequences, FiniteSets, Tables

CONSTANTS
    Functions,   \* those of static.json, in order: name, file, sliceable
    Blocked,     \* roadblocks: function, file, line to slice at, own line, function parsed around it
    ChainsTo,    \* of a function: the call chains that end in it
    MaxAsked,    \* bound: slices asked for
    MaxLaunches  \* bound: processes

SlicesAssumption ==
    /\ Functions \in Seq([name : STRING, file : STRING, sliceable : BOOLEAN])
    /\ \A b \in Blocked : \A c \in ChainsTo[b.function] :
          c \in Seq(STRING) /\ c # <<>> /\ c[Len(c)] = b.function
    /\ MaxAsked \in Nat /\ MaxLaunches \in Nat

VARIABLES
    slicing,     \* the step: idle, look, read, got
    wanted,      \* what is asked for
    aim,         \* the function to slice
    code,        \* the answer
    memory,      \* _LLVM_SLICE_CACHE
    sliceFiles,  \* the slicer's files
    direct,      \* the slices kept by roadblock
    many,        \* slices asked for
    launches     \* processes so far

sliceCodeVars == <<slicing, wanted, aim, code, memory, sliceFiles, direct, many, launches>>

Code(kind, of) == [kind |-> kind, of |-> of]
Nothing == Code("nothing", <<>>)
NoMatch == Code("no match", <<>>)
NoAim == [name |-> "", file |-> ""]
Nobody == [of |-> CHOOSE b \in Blocked : TRUE, chain |-> <<>>, alone |-> FALSE, given |-> FALSE,
           runs |-> FALSE, preferred |-> {}]

Init ==
    /\ slicing = "idle" /\ wanted = Nobody /\ aim = NoAim /\ code = Nothing
    /\ memory = <<>> /\ sliceFiles = <<>> /\ direct = <<>> /\ many = 0 /\ launches = 1

----------------------------------------------------------------------------
(* The function to slice: the last of the chain that has source, those     *)
(* that runs went through before the others; or what is parsed around the  *)
(* line.  A name stands for the first function that has it.                *)
Named(n) == {i \in DOMAIN Functions : Functions[i].name = n}
First(n) == Functions[CHOOSE i \in Named(n) : \A j \in Named(n) : i <= j]
Sliceable(n) == Named(n) # {} /\ First(n).sliceable

LastOf(chain, names) ==
    LET Here == {i \in DOMAIN chain : chain[i] \in names}
    IN  chain[CHOOSE i \in Here : \A j \in Here : j <= i]
Aim(q) ==
    LET Can == {n \in {q.chain[i] : i \in DOMAIN q.chain} : Sliceable(n)}
        Choice == LastOf(q.chain, IF Can \cap q.preferred # {} THEN Can \cap q.preferred ELSE Can)
    IN  IF Can # {} THEN [name |-> Choice, file |-> First(Choice).file]
        ELSE IF q.given THEN [name |-> q.of.around, file |-> q.of.file]
        ELSE NoAim

(* An attempt knows runs of seeds, direct generation does not; the file of *)
(* the roadblock is given by the latter, and for a function nobody calls.  *)
Requests ==
    {[of |-> b, chain |-> c, alone |-> a, given |-> a \/ g, runs |-> r, preferred |-> p] :
        b \in Blocked, c \in UNION {ChainsTo[x.function] \cup {<<x.function>>} : x \in Blocked},
        a \in BOOLEAN, g \in BOOLEAN, r \in BOOLEAN, p \in SUBSET {Functions[i].name : i \in DOMAIN Functions}}
CanAsk(q) ==
    /\ q.alone <=> ChainsTo[q.of.function] = {}
    /\ q.chain \in (IF q.alone THEN {<<q.of.function>>} ELSE ChainsTo[q.of.function])
    /\ q.preferred \subseteq {q.chain[i] : i \in DOMAIN q.chain}
    /\ q.given /\ ~q.alone => ~q.runs
    /\ ~q.runs => q.preferred = {}

Kept == <<memory, sliceFiles, direct, launches>>
Got(answer) == slicing' = "got" /\ code' = answer

Ask(q) ==
    /\ slicing = "idle" /\ many < MaxAsked /\ CanAsk(q)
    /\ many' = many + 1 /\ wanted' = q /\ aim' = Aim(q) /\ UNCHANGED Kept
    /\ IF q.alone /\ q.of \in DOMAIN direct THEN Got(direct[q.of])
       ELSE IF Aim(q) = NoAim THEN Got(Nothing)
       ELSE slicing' = "look" /\ UNCHANGED code

----------------------------------------------------------------------------
(* get_function_slice                                                      *)
Key == <<aim.file, wanted.of.line, wanted.of.at, Len(wanted.chain) > 1>>
LabelNoCase == <<aim.name, wanted.of.line, Len(wanted.chain) > 1>>    \* mutant
Label == <<aim.name, wanted.of.line, wanted.of.at, Len(wanted.chain) > 1>>

Same == <<wanted, aim, many, direct, launches>>

TraceDriven ==
    /\ slicing = "look" /\ wanted.runs
    /\ Got(Code("trace", wanted.of)) /\ UNCHANGED <<Same, memory, sliceFiles>>

InMemory ==
    /\ slicing = "look" /\ Key \in DOMAIN memory
    /\ Got(memory[Key]) /\ UNCHANGED <<Same, memory, sliceFiles>>

(* What the slicer has of a roadblock is used again, unless it is empty or *)
(* says that nothing was found.                                            *)
OnFile == IF Label \in DOMAIN sliceFiles THEN sliceFiles[Label] ELSE Nothing
Take ==
    /\ Got(OnFile) /\ memory' = With(memory, Key, OnFile)
    /\ UNCHANGED <<Same, sliceFiles>>

OnDisk ==
    /\ slicing = "look" /\ Key \notin DOMAIN memory /\ OnFile.kind = "slice"
    /\ Take

(* The slicer may fail before it opens the file or after.                  *)
RunSlicer(output) ==
    /\ slicing = "look" /\ Key \notin DOMAIN memory /\ OnFile.kind # "slice"
    /\ slicing' = "read"
    /\ sliceFiles' = IF output = "fails" THEN sliceFiles
                     ELSE With(sliceFiles, Label, CASE output = "slice" -> Code("slice", Key)
                                                    [] output = "no match" -> NoMatch
                                                    [] output = "empty" -> Nothing)
    /\ UNCHANGED <<Same, code, memory>>

ReadSlice == slicing = "read" /\ OnFile.kind = "slice" /\ Take

FallBack(replay) ==
    /\ slicing = "read" /\ OnFile.kind # "slice" /\ (replay => wanted.runs)
    /\ Got(IF OnFile = NoMatch THEN NoMatch
           ELSE IF replay THEN Code("replay", wanted.of) ELSE Code("source", aim))
    /\ UNCHANGED <<Same, memory, sliceFiles>>

(* The code of a function nobody calls is kept, unless it is too short.    *)
Use(long) ==
    /\ slicing = "got" /\ slicing' = "idle"
    /\ direct' = IF wanted.alone /\ long /\ code.kind \notin {"nothing", "no match"}
                 THEN With(direct, wanted.of, code) ELSE direct
    /\ wanted' = Nobody /\ aim' = NoAim /\ code' = Nothing
    /\ UNCHANGED <<memory, sliceFiles, many, launches>>

Killed ==
    /\ launches < MaxLaunches /\ launches' = launches + 1
    /\ slicing' = "idle" /\ wanted' = Nobody /\ aim' = NoAim /\ code' = Nothing /\ memory' = <<>>
    /\ UNCHANGED <<sliceFiles, direct, many>>

Next ==
    \/ \E q \in Requests : Ask(q)
    \/ TraceDriven \/ InMemory \/ OnDisk \/ ReadSlice \/ Killed
    \/ \E replay \in BOOLEAN : FallBack(replay)
    \/ \E output \in {"fails", "empty", "no match", "slice"} : RunSlicer(output)
    \/ \E long \in BOOLEAN : Use(long)

Spec == Init /\ [][Next]_sliceCodeVars

----------------------------------------------------------------------------
(* The files in which a name is sliced, and two files that are the same or *)
(* have a function of the same name.                                       *)
FilesOf(n) ==
    {First(m).file : m \in {k \in {n} : Sliceable(k)}} \cup {b.file : b \in {x \in Blocked : x.around = n}}
Names == {Functions[i].name : i \in DOMAIN Functions} \cup {b.around : b \in Blocked}
SameName(f, g) == f = g \/ \E n \in Names : {f, g} \subseteq FilesOf(n)

(* A slice of the slicer is that of the line, the case and the way of      *)
(* slicing wanted, and of the file, unless that shares the name of a       *)
(* function with the file it is of.  The same holds for the file of the    *)
(* roadblock, if its function is known there first, and the runs of seeds  *)
(* went through it, or none are known.                                     *)
SlicesAreOfTarget ==
    slicing = "got" /\ code.kind = "slice" =>
        /\ SameName(code.of[1], aim.file) /\ \A i \in 2 .. Len(Key) : code.of[i] = Key[i]
        /\ LET own == wanted.of.function
           IN  /\ Sliceable(own) /\ First(own).file = wanted.of.file
               /\ own \in wanted.preferred \/ wanted.preferred = {}
               => SameName(code.of[1], wanted.of.file)
=============================================================================
