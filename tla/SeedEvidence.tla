---------------------------- MODULE SeedEvidence ----------------------------
(* What an attempt learns from runs of seeds that reach its roadblock      *)
(* (CoverageTracer.py): it looks them up by name in the queues, traces     *)
(* them, and has one of the runs sliced; traces and slices are cached by   *)
(* roadblock and name, in files that outlive the process.  Meanwhile seeds *)
(* are added, the gate moves seeds away, the names of those are given to   *)
(* others, and an attempt may be cut off at any point.                     *)
EXTENDS Integers, Sequences, FiniteSets, Functions, Tables

CONSTANTS
    Rb,          \* roadblocks
    Name,        \* the names of seeds, in their order
    StemOf,      \* of a name: what is before the first comma
    Begins,      \* <<s, t>>: the stem t begins with the stem s
    Bytes,       \* what a seed may hold
    Directories, \* how many directories are searched, the queue of AFL first
    Trace,       \* what a run of a seed shows: if it hits the roadblock, and functions
    MaxSeeds,    \* max_seeds
    MaxFiles,    \* bound: the seeds there are, one time or another
    MaxBuilt     \* bound: attempts

File == [dir : 1 .. Directories, name : Name, bytes : Bytes]

EvidenceAssumption ==
    /\ Directories \in Nat /\ MaxSeeds \in Nat \ {0} /\ MaxFiles \in Nat /\ MaxBuilt \in Nat
    /\ Name \subseteq Nat /\ \A n \in Name : <<StemOf[n], StemOf[n]>> \in Begins
    /\ \A f \in File, r \in Rb : Trace[f][r].hit \in BOOLEAN

VARIABLES
    scan,        \* the step of the attempt: idle, rank, replay, built
    of_rb,       \* its roadblock
    paths,       \* names to be looked up, then seeds to be traced, then names of seeds to be sliced
    hits,        \* the names of those that hit, with their traces
    context,     \* what is known from their runs
    present,     \* the seed files
    ever,        \* history: all there have been
    summaries,   \* the cached traces
    autoslices,  \* the cached slices
    built        \* attempts so far

disk == <<present, ever>>
evidenceVars == <<scan, of_rb, paths, hits, context, disk, summaries, autoslices, built>>
caches == <<summaries, autoslices>>

NoContext == [functions |-> {}, seed |-> {}, slice |-> {}]
Init ==
    /\ scan = "idle" /\ of_rb = (CHOOSE r \in Rb : TRUE) /\ paths = <<>> /\ hits = <<>> /\ context = NoContext
    /\ present = {} /\ ever = {} /\ summaries = <<>> /\ autoslices = <<>> /\ built = 0

Spot(f) == [dir |-> f.dir, name |-> f.name]
Now(f) == {g \in present : Spot(g) = Spot(f)}

FileAppears(f) ==
    /\ Now(f) = {} /\ Cardinality(ever \cup {f}) <= MaxFiles
    /\ present' = present \cup {f} /\ ever' = ever \cup {f}
    /\ UNCHANGED <<scan, of_rb, paths, hits, context, caches, built>>

(* _audit_rejected_seed: the queues the gate watches are not AFL's.        *)
FileLeaves(f) ==
    /\ f \in present /\ f.dir # 1 /\ present' = present \ {f}
    /\ UNCHANGED <<scan, of_rb, paths, hits, context, ever, caches, built>>

(* _resolve_seed_candidate_path: the seed of that name in the queue of     *)
(* AFL; or, in the first directory that has any that begins as the name    *)
(* does, the first of those.                                               *)
Like(n, d) == {f \in present : f.dir = d /\ <<StemOf[n], StemOf[f.name]>> \in Begins}
FirstOf(S) == {f \in S : \A g \in S : f.name <= g.name}
Direct(n) == {f \in present : f.dir = 1 /\ f.name = n}
Resolve(n) ==
    IF Direct(n) # {} THEN Direct(n)
    ELSE UNION {FirstOf(Like(n, d)) : d \in {e \in 1 .. Directories : \A c \in 1 .. e - 1 : Like(n, c) = {}}}

(* get_rb_seed: seeds that are known to take a branch of the condition, or *)
(* recent ones.                                                            *)
Start(r, seeds) ==
    /\ scan \in {"idle", "built"} /\ built < MaxBuilt /\ built' = built + 1
    /\ scan' = "look" /\ of_rb' = r /\ paths' = seeds /\ hits' = <<>> /\ context' = NoContext
    /\ UNCHANGED <<disk, caches>>

(* An exception of another part of the attempt, or over a file that is     *)
(* gone when it is looked at again, or a kill.                             *)
CutOff ==
    /\ scan # "idle" /\ scan' = "idle" /\ paths' = <<>> /\ hits' = <<>> /\ context' = NoContext
    /\ UNCHANGED <<of_rb, disk, caches, built>>

(* rank_seed_candidates_for_roadblock: all the names are looked up, then   *)
(* the seeds are traced; here they come in the order of their rank, in     *)
(* which hits are first.                                                   *)
There == {i \in DOMAIN paths : Resolve(paths[i]) # {}}
Ordering(at) == Range(at) = There /\ \A i, j \in DOMAIN at : at[i] = at[j] => i = j
Locate ==
    /\ scan = "look" /\ scan' = "rank"
    /\ \E n \in 0 .. Len(paths) : \E at \in [1 .. n -> There], files \in [1 .. n -> present] :
          Ordering(at) /\ (\A k \in 1 .. n : files[k] \in Resolve(paths[at[k]])) /\ paths' = files
    /\ UNCHANGED <<of_rb, hits, context, disk, caches, built>>

NameOnly(r, n) == <<n>>                                             \* mutant
Key(r, n) == <<r, n>>
Shows(f, r) == Trace[f][r]
CutShort == [hit |-> FALSE, functions |-> {}]

Ranked(f, summary) ==
    /\ scan = "rank" /\ paths # <<>> /\ f = Head(paths)
    /\ hits' = IF summary.hit THEN Append(hits, [name |-> f.name, functions |-> summary.functions]) ELSE hits
    /\ paths' = Tail(paths)
    /\ UNCHANGED <<scan, of_rb, context, disk, autoslices, built>>

Cached(f) ==
    /\ Key(of_rb, f.name) \in DOMAIN summaries
    /\ Ranked(f, summaries[Key(of_rb, f.name)]) /\ UNCHANGED summaries

(* A trace that was cut short is kept as it is, also that of a program     *)
(* which did not find its input; one that fails is not.                    *)
Runs(f) == {Shows(g, of_rb) : g \in Now(f)} \cup {CutShort}
TraceSeed(f, summary, stored) ==
    /\ Key(of_rb, f.name) \notin DOMAIN summaries
    /\ summary \in Runs(f)
    /\ Ranked(f, summary)
    /\ summaries' = IF stored THEN With(summaries, Key(of_rb, f.name), summary) ELSE summaries

TraceFails(f) ==
    /\ Key(of_rb, f.name) \notin DOMAIN summaries
    /\ Ranked(f, CutShort) /\ UNCHANGED summaries

(* _aggregate_dynamic_summaries, of the first few hits; the seed that      *)
(* stands for them is looked up again.                                     *)
Selected == SubSeq(hits, 1, IF Len(hits) < MaxSeeds THEN Len(hits) ELSE MaxSeeds)
Aggregate ==
    /\ scan = "rank" /\ paths = <<>>
    /\ IF hits = <<>> THEN scan' = "built" /\ UNCHANGED <<paths, context>>
       ELSE /\ scan' = "replay" /\ paths' = [i \in DOMAIN Selected |-> Selected[i].name]
            /\ context' = [functions |-> UNION {h.functions : h \in Range(Selected)},
                           seed |-> Resolve(hits[1].name), slice |-> {}]
    /\ UNCHANGED <<of_rb, hits, disk, caches, built>>

----------------------------------------------------------------------------
(* build_autobug_slice_context: the first of those seeds of which there is *)
(* a slice, or one can be made.                                            *)
Slice(r, f) == [of |-> r, by |-> f]
Replays(f) == scan = "replay" /\ paths # <<>> /\ f \in Resolve(Head(paths))
Took(slice) ==
    /\ context' = [context EXCEPT !.slice = slice]
    /\ scan' = "built" /\ UNCHANGED <<of_rb, paths, hits, disk, summaries, built>>

ReuseSlice(f) ==
    /\ Replays(f) /\ Key(of_rb, f.name) \in DOMAIN autoslices
    /\ Took({autoslices[Key(of_rb, f.name)]}) /\ UNCHANGED autoslices

MakeSlice(f, stored) ==
    /\ Replays(f) /\ Key(of_rb, f.name) \notin DOMAIN autoslices
    /\ Took({Slice(of_rb, f)})
    /\ autoslices' = IF stored THEN With(autoslices, Key(of_rb, f.name), Slice(of_rb, f)) ELSE autoslices

NoSlice ==
    /\ scan = "replay" /\ paths # <<>>
    /\ \A f \in Resolve(Head(paths)) : Key(of_rb, f.name) \notin DOMAIN autoslices
    /\ paths' = Tail(paths)
    /\ UNCHANGED <<scan, of_rb, hits, context, disk, caches, built>>

Without == scan = "replay" /\ paths = <<>> /\ Took({}) /\ UNCHANGED autoslices

----------------------------------------------------------------------------
Seeds ==
    {s \in UNION {[1 .. n -> Name] : n \in 1 .. MaxSeeds + 1} : \A i, j \in DOMAIN s : s[i] = s[j] => i = j}
Next ==
    \/ \E f \in File : FileAppears(f)
    \/ \E f \in present : FileLeaves(f)
    \/ Locate
    \/ \E f \in ever : Cached(f) \/ TraceFails(f) \/ ReuseSlice(f)
    \/ \E f \in ever, stored \in BOOLEAN : \E summary \in Runs(f) : TraceSeed(f, summary, stored)
    \/ \E f \in ever, stored \in BOOLEAN : MakeSlice(f, stored)
    \/ \E r \in Rb, seeds \in Seeds : Start(r, seeds)
    \/ CutOff \/ Aggregate \/ NoSlice \/ Without

Spec == Init /\ [][Next]_evidenceVars

----------------------------------------------------------------------------
(* More than one seed has been on file under names that begin as this one. *)
Begun(n) == {f \in ever : <<StemOf[n], StemOf[f.name]>> \in Begins}
Doubtful(n) == \E f, g \in Begun(n) : f # g

(* The functions an attempt is told of are, each, of a run that hit the    *)
(* roadblock, of a seed that once had the name it is told of: never of     *)
(* another roadblock, whatever was moved, cached or cut off.  A slice is   *)
(* of the roadblock.  The seed that stands for the runs, and that of the   *)
(* slice, are looked up by name again: each of them hits the roadblock     *)
(* too, unless other seeds have had that name, or one that begins as it.   *)
EvidenceHits ==
    /\ \A g \in context.functions : \E f \in ever, h \in Range(hits) :
          f.name = h.name /\ Trace[f][of_rb].hit /\ g \in Trace[f][of_rb].functions
    /\ \A f \in context.seed : Trace[f][of_rb].hit \/ Doubtful(hits[1].name)
    /\ \A s \in context.slice :
          s.of = of_rb /\ (Trace[s.by][of_rb].hit \/ Doubtful(Head(paths)))
=============================================================================
