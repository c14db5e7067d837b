---------------------------- MODULE TextMutation ----------------------------
(***************************************************************************)
(* execute_text_mutation_plan of main.py: a plan of edits, each a span of  *)
(* the seed and an operation, becomes up to max_outputs new seeds: every   *)
(* edit alone, then pairs and triples of edits whose spans do not overlap. *)
(* The files go to mut/queue under ids counted from the number of files    *)
(* there; mutation scripts move leftovers into that queue, and the gate    *)
(* takes rejected files away.                                              *)
(*                                                                         *)
(* Abstractions.  A text is a sequence of letters, the original ones above *)
(* 10; edit i of a plan inserts the letter i, so that a text tells which   *)
(* edits made it.  A plan names a span by offset and size, or by a field   *)
(* and an occurrence; names are numbers in the order of the strings, 0 for *)
(* none.  The seed is the same for all plans.                              *)
(***************************************************************************)
EXTENDS Integers, Sequences, FiniteSets, FiniteSetsExt, Functions

CONSTANTS
    Text,        \* the seed that is mutated
    Fields,      \* its fields, in order: [name, start, end]
    Settings     \* what a session does: [plans, maxOutputs, rejecting, maxFiles],
                 \* the plans the model may return (sequences of items), max_outputs,
                 \* whether the gate takes rejected seeds away, and the bound of the
                 \* model: nothing begins with so many files in the queue

ASSUME TextAssumption ==
    /\ Text \in Seq(Nat) /\ \A i \in DOMAIN Text : Text[i] > 10
    /\ \A i \in DOMAIN Fields : Fields[i].start \in Int /\ Fields[i].end \in Int
    /\ \A s \in Settings : s.maxOutputs \in Nat /\ s.maxFiles \in Nat /\ s.rejecting \in BOOLEAN

ASSUME PlanAssumption ==
    \A s \in Settings : \A p \in s.plans :
        /\ Len(p) \in Nat /\ DOMAIN p = 1 .. Len(p)
        /\ \A i \in DOMAIN p :
             /\ p[i].rank \in 0 .. 2 /\ p[i].name \in Nat
             /\ p[i].by = "offset" => p[i].offset \in Int /\ p[i].size \in Int

VARIABLES
    setting,     \* one of Settings
    plan,        \* resolved_items: the edits, in their order
    pending,     \* combinations that were not looked at yet
    seen,        \* seen_payloads
    written,     \* what this execution wrote: [edits, text]
    nextId,      \* next_id
    mutQueue        \* mut/queue: [id, own, text], own: written by a plan

planVars == <<setting, plan, pending, seen, written, nextId, mutQueue>>

Init ==
    /\ setting \in Settings
    /\ plan = <<>> /\ pending = {} /\ seen = {Text} /\ written = {}
    /\ nextId = 0 /\ mutQueue = {}

----------------------------------------------------------------------------
Only(S) == CHOOSE x \in S : TRUE

(* _resolve_text_mutation_span: the span, as a set of at most one.         *)
Span(item) ==
    IF item.by = "offset"
    THEN {<<item.offset, item.offset + (IF item.size < 0 THEN 0 ELSE item.size)>>}
    ELSE LET Named(n) == {i \in DOMAIN Fields : i <= n /\ Fields[i].name = item.name}
         IN  {<<Fields[n].start, Fields[n].end>> :
                 n \in {i \in DOMAIN Fields : i \in Named(i) /\ Cardinality(Named(i)) = item.occurrence}}

(* The elements of a set in their order, as list.sort leaves them.         *)
Sorted(S, Precedes(_, _)) ==
    CHOOSE s \in Bijection(1 .. Cardinality(S), S) : \A m, n \in DOMAIN s : m < n => Precedes(s[m], s[n])

(* resolved_items: by aggressiveness, start, end and name, otherwise in    *)
(* the order of the plan.                                                  *)
Before(a, b) ==
    \/ a.rank < b.rank
    \/ a.rank = b.rank /\ a.start < b.start
    \/ a.rank = b.rank /\ a.start = b.start /\ a.end < b.end
    \/ a.rank = b.rank /\ a.start = b.start /\ a.end = b.end /\ a.name < b.name
    \/ a.rank = b.rank /\ a.start = b.start /\ a.end = b.end /\ a.name = b.name /\ a.letter < b.letter
Resolved(p) ==
    Sorted({[op |-> p[i].op, rank |-> p[i].rank, name |-> p[i].name, letter |-> i,
             start |-> Only(Span(p[i]))[1], end |-> Only(Span(p[i]))[2]] :
            i \in {j \in DOMAIN p : Span(p[j]) # {}}}, Before)

(* spans_conflict                                                          *)
SameStart(a, b) == a.start = b.start                                    \* mutant
Conflict(a, b) == ~(a.end <= b.start \/ b.end <= a.start)

(* The combinations: edits alone, then pairs and triples without conflict, *)
(* triples only of edits that are not aggressive.                          *)
Rank(p, C) == Max({p[i].rank : i \in C})
Combinations(p) ==
    {{i} : i \in DOMAIN p}
    \cup {C \in kSubset(2, DOMAIN p) \cup kSubset(3, DOMAIN p) :
            /\ \A i, j \in C : i < j => ~Conflict(p[i], p[j])
            /\ Cardinality(C) = 3 => Rank(p, C) < 2}

(* The order in which they are tried: by size, then aggressiveness, then   *)
(* the sum of the starts, otherwise as itertools.combinations lists them.  *)
SumOfStarts(C) == FoldSet(LAMBDA i, n : plan[i].start + n, 0, C)
Sooner(C, D) ==
    LET key(X) == <<Cardinality(X), Rank(plan, X), SumOfStarts(X)>>
        c == key(C)
        d == key(D)
    IN  \/ \E n \in 1 .. 3 : c[n] < d[n] /\ \A m \in 1 .. n - 1 : c[m] = d[m]
        \/ c = d /\ C # D /\ Min(C \ D) < Min(D \ C)

(* _apply_single_text_mutation, as a set of at most one text               *)
Edited(t, e) ==
    LET head == SubSeq(t, 1, e.start)
        body == SubSeq(t, e.start + 1, e.end)
        tail == SubSeq(t, e.end + 1, Len(t))
        v == <<e.letter>>
    IN  IF e.start < 0 \/ e.end < e.start \/ e.end > Len(t) THEN {}
        ELSE CASE e.op = "replace" -> {head \o v \o tail}
               [] e.op \in {"append_suffix", "insert_after"} -> {head \o body \o v \o tail}
               [] e.op \in {"prepend_prefix", "insert_before"} -> {head \o v \o body \o tail}
               [] e.op = "wrap" -> {head \o v \o body \o v \o tail}
               [] e.op = "delete" -> {head \o tail}
               [] e.op = "duplicate" -> {head \o body \o v \o body \o tail}
               [] OTHER -> {}

(* apply_combo: from the right, ties in the order of the plan              *)
LeftToRight(C) == Sorted(C, LAMBDA i, j :                         \* mutant
    plan[i].start < plan[j].start \/ (plan[i].start = plan[j].start /\ i < j))
EditOrder(C) == Sorted(C, LAMBDA i, j :
    plan[i].start > plan[j].start \/ (plan[i].start = plan[j].start /\ i < j))
Applied(C) ==
    LET order == EditOrder(C)
        after[n \in 0 .. Cardinality(C)] ==
            IF n = 0 THEN {Text} ELSE UNION {Edited(t, plan[order[n]]) : t \in after[n - 1]}
    IN  after[Cardinality(C)]

----------------------------------------------------------------------------
Idle == pending = {}

(* A plan arrives.                                                         *)
LargestId == Max({f.id : f \in mutQueue} \cup {0})                         \* mutant
FirstId == Cardinality(mutQueue)

Begin(p) ==
    /\ Idle /\ Cardinality(mutQueue) < setting.maxFiles
    /\ plan' = Resolved(p)
    /\ pending' = Combinations(plan')
    /\ seen' = {Text} /\ written' = {}
    /\ nextId' = FirstId
    /\ UNCHANGED mutQueue

(* The next combination is tried.                                          *)
Wanted(ts) == ts # {} /\ ts \cap (seen \cup {<<>>}) = {}

Try(C) ==
    /\ C \in pending /\ \A D \in pending \ {C} : Sooner(C, D)
    /\ pending' = pending \ {C}
    /\ IF Wanted(Applied(C))
       THEN LET t == Only(Applied(C))
            IN  /\ seen' = seen \cup {t}
                /\ written' = written \cup {[edits |-> C, text |-> t]}
                /\ mutQueue' = {f \in mutQueue : <<f.id, f.own>> # <<nextId, TRUE>>}
                              \cup {[id |-> nextId, own |-> TRUE, text |-> t]}
                /\ nextId' = nextId + 1
       ELSE UNCHANGED <<seen, written, mutQueue, nextId>>
    /\ UNCHANGED plan

TryNext ==
    /\ Cardinality(written) < setting.maxOutputs
    /\ \E C \in pending : Try(C)

(* max_outputs files are written: the rest is dropped.                     *)
Stop ==
    /\ Cardinality(written) >= setting.maxOutputs /\ pending # {}
    /\ pending' = {}
    /\ UNCHANGED <<plan, seen, written, nextId, mutQueue>>

(* _move_mutator_artifacts_to_queue: a leftover of a script, named by      *)
(* next_queue_seed_path.                                                   *)
ArtifactArrives ==
    /\ Idle /\ Cardinality(mutQueue) < setting.maxFiles
    /\ mutQueue' = mutQueue \cup {[id |-> Max({f.id : f \in mutQueue} \cup {-1}) + 1, own |-> FALSE, text |-> Text]}
    /\ UNCHANGED <<plan, pending, seen, written, nextId>>

(* try_text_mutation: the gate rejects one of the files just written.      *)
GateTakes ==
    /\ setting.rejecting /\ Idle
    /\ \E f \in mutQueue :
         /\ f.own /\ \E w \in written : w.text = f.text
         /\ mutQueue' = mutQueue \ {f}
         /\ written' = {w \in written : w.text # f.text}
    /\ UNCHANGED <<plan, pending, seen, nextId>>

Next ==
    /\ \/ \E p \in setting.plans : Begin(p)
       \/ TryNext \/ Stop
       \/ ArtifactArrives \/ GateTakes
    /\ UNCHANGED setting

Spec == Init /\ [][Next]_planVars

----------------------------------------------------------------------------
TypeOK ==
    /\ \A i \in DOMAIN plan : plan[i].rank \in 0 .. 2
    /\ pending \subseteq SUBSET DOMAIN plan
    /\ \A w \in written : w.edits \subseteq DOMAIN plan /\ w.text \in seen
    /\ nextId \in Nat
    /\ \A f \in mutQueue : f.id \in Nat /\ f.own \in BOOLEAN

(* What a text must be: from position to position, every edit puts its     *)
(* letters at its own span of the original and leaves all others alone.    *)
(* Of edits without conflict, at most one ends at a position it does not   *)
(* start at.                                                               *)
Starting(e) == IF e.op \in {"replace", "prepend_prefix", "insert_before", "wrap"} THEN <<e.letter>> ELSE <<>>
Closing(e) ==
    CASE e.op \in {"append_suffix", "insert_after", "wrap"} -> <<e.letter>>
      [] e.op = "duplicate" -> <<e.letter>> \o SubSeq(Text, e.start + 1, e.end)
      [] OTHER -> <<>>
StartingAt(C, p) == {i \in C : plan[i].start = p}
EndingAt(C, p) == {i \in C : plan[i].end = p /\ plan[i].start < p}
Here(C, p) ==
    IF StartingAt(C, p) = {} THEN <<>>
    ELSE LET e == plan[Only(StartingAt(C, p))] IN Starting(e) \o (IF e.end = p THEN Closing(e) ELSE <<>>)
Letter(C, p) ==
    IF \E i \in C : plan[i].op \in {"replace", "delete"} /\ p \in plan[i].start + 1 .. plan[i].end
    THEN <<>> ELSE <<Text[p]>>
Ended(C, p) == IF EndingAt(C, p) = {} THEN <<>> ELSE Closing(plan[Only(EndingAt(C, p))])
Local(C) ==
    LET from[n \in 0 .. Len(Text)] == \* from the position n before the end
            LET p == Len(Text) - n
            IN  Here(C, p) \o (IF n = 0 THEN <<>> ELSE Letter(C, p + 1) \o Ended(C, p + 1) \o from[n - 1])
    IN  from[Len(Text)]

(* The edits of a combination act as if each were made on the original, if *)
(* no two start at the same place.                                         *)
DistinctStarts(C) == \A i, j \in C : plan[i].start = plan[j].start => i = j
EditsCompose == \A w \in written : DistinctStarts(w.edits) => w.text = Local(w.edits)

(* While nothing is taken away the ids are dense, so that the number of    *)
(* files and the largest id plus one, which the scripts use, agree.        *)
Dense == {f.id : f \in mutQueue} = 0 .. Cardinality(mutQueue) - 1

(* A plan overwrites a file of the queue only after the gate took one away *)
(* below the largest id.                                                   *)
Removal == Cardinality(mutQueue') < Cardinality(mutQueue)
OverwriteNeedsGap == [][(\A f \in mutQueue : f \in mutQueue') \/ Removal \/ ~Dense]_planVars
=============================================================================
