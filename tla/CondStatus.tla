----------------------------- MODULE CondStatus -----------------------------
(***************************************************************************)
(* The branch bookkeeping of CoverageTracer.py.  A thread that replayed a  *)
(* seed first stores the parsed BRANCH.dump in the branch cache and then   *)
(* folds it, condition by condition, into three structures that have a     *)
(* lock each: _never_interesting_conds, _interesting_conds, _cond_status.  *)
(* The locks are taken one after the other, so two threads interleave      *)
(* between the sections of one condition.                                  *)
(*                                                                         *)
(* Readers list the one-sided branches (the roadblocks) from the branch    *)
(* cache and ask cond_status which branches a seed is known to cover.      *)
(*                                                                         *)
(* Abstractions.  Every condition has the same branches 1..total, the set  *)
(* Branch.  What a seed covers is fixed (covers) but arbitrary; a seed     *)
(* that covers no branch of a condition has no line for it in its dump.    *)
(* The order of the lines of one dump is left open.  The limits on how     *)
(* many seeds are offered keep a part of those MatchingSeeds names.        *)
(***************************************************************************)
EXTENDS Naturals, FiniteSets

CONSTANTS
    Seed,        \* seeds that are replayed
    Cond,        \* condition keys
    Branch,      \* the branch ids of a condition
    Twins,       \* conditions on one line of files with one base name
    Unlisted,    \* conditions whose key has no line, or whose place is in
                 \* no function of the CFG
    Loader,      \* threads that load seeds: priming threads, plateau loop
    Nobody       \* no seed, no condition

ASSUME CondAssumption ==
    /\ Nobody \notin Seed /\ Nobody \notin Cond
    /\ Twins \subseteq Cond /\ Unlisted \subseteq Cond
    /\ IsFiniteSet(Seed)
    /\ Branch # {}

VARIABLES
    covers,      \* what the subject covers on each seed (never changes)
    place,       \* insertion order of the branch cache, 0 if absent
    parsed,      \* seeds with a parsed dump in the cache; the others have None
    never,       \* _never_interesting_conds
    interesting, \* keys of _interesting_conds
    tracked,     \* keys of _cond_status
    status,      \* _cond_status: cond -> branch -> seeds
    pc, seed, todo, cond,    \* per loader: control, seed, conditions left, current one
    folded,      \* history: seeds folded in completely in this session
    overtaken,   \* history: conditions retired while another thread,
                 \* past its check, was about to track them
    doubled      \* history: seeds two threads replayed at the same time

tables == <<never, interesting, tracked, status>>
loader == <<pc, seed, todo, cond>>
entries == <<place, parsed>>
vars == <<covers, entries, tables, loader, folded, overtaken, doubled>>

LoaderPC == {"idle", "replay", "check", "retire", "uninterest", "drop", "track"}
NoSeeds == [b \in Branch |-> {}]

TypeOK ==
    /\ covers \in [Seed -> [Cond -> SUBSET Branch]]
    /\ place \in [Seed -> Nat]
    /\ parsed \subseteq Seed /\ doubled \subseteq Seed
    /\ never \subseteq Cond
    /\ interesting \subseteq Cond
    /\ tracked \subseteq Cond
    /\ status \in [Cond -> [Branch -> SUBSET Seed]]
    /\ pc \in [Loader -> LoaderPC]
    /\ seed \in [Loader -> Seed \cup {Nobody}]
    /\ todo \in [Loader -> SUBSET Cond]
    /\ cond \in [Loader -> Cond \cup {Nobody}]
    /\ folded \subseteq Seed
    /\ overtaken \subseteq Cond

Cached == {s \in Seed : place[s] > 0}
Dump(s) == {c \in Cond : covers[s][c] # {}}

Init ==
    /\ covers \in [Seed -> [Cond -> SUBSET Branch]]
    /\ place = [s \in Seed |-> 0] /\ parsed = {} /\ doubled = {}
    /\ never = {} /\ interesting = {} /\ tracked = {}
    /\ status = [c \in Cond |-> NoSeeds]
    /\ pc = [l \in Loader |-> "idle"]
    /\ seed = [l \in Loader |-> Nobody]
    /\ todo = [l \in Loader |-> {}]
    /\ cond = [l \in Loader |-> Nobody]
    /\ folded = {} /\ overtaken = {}

(* A seed the cache does not have is replayed, with no lock held.          *)
Replaying(s, l) == \E k \in Loader \ {l} : pc[k] = "replay" /\ seed[k] = s
Starts(l, s) ==
    /\ seed' = [seed EXCEPT ![l] = s]
    /\ pc' = [pc EXCEPT ![l] = "replay"]
    /\ doubled' = IF Replaying(s, l) THEN doubled \cup {s} ELSE doubled
    /\ UNCHANGED <<covers, entries, tables, todo, cond, folded, overtaken>>

BeginUnasked(l, s) == pc[l] = "idle" /\ Starts(l, s)                   \* mutant
Begin(l, s) == pc[l] = "idle" /\ place[s] = 0 /\ Starts(l, s)

(* What a replay came to goes into the cache under the cache lock.  Two    *)
(* threads may hold the same seed: the second store keeps the first one's  *)
(* place and replaces what it put there.                                   *)
Placed(s) == [place EXCEPT ![s] = IF @ = 0 THEN Cardinality(Cached) + 1 ELSE @]

Store(l) ==
    /\ pc[l] = "replay"
    /\ place' = Placed(seed[l])
    /\ parsed' = parsed \cup {seed[l]}
    /\ todo' = [todo EXCEPT ![l] = Dump(seed[l])]
    /\ pc' = [pc EXCEPT ![l] = "check"]
    /\ UNCHANGED <<covers, doubled, tables, seed, cond, folded, overtaken>>

(* A replay that failed or ran out of time leaves None; nothing is folded. *)
StoreNone(l) ==
    /\ pc[l] = "replay"
    /\ place' = Placed(seed[l])
    /\ parsed' = parsed \ {seed[l]}
    /\ seed' = [seed EXCEPT ![l] = Nobody]
    /\ pc' = [pc EXCEPT ![l] = "idle"]
    /\ UNCHANGED <<covers, doubled, tables, todo, cond, folded, overtaken>>

(* Under the never-interesting lock: a retired condition is skipped.       *)
Skip(l, c) ==
    /\ pc[l] = "check" /\ c \in todo[l]
    /\ c \in never
    /\ todo' = [todo EXCEPT ![l] = @ \ {c}]
    /\ UNCHANGED <<covers, entries, doubled, tables, pc, seed, cond, folded, overtaken>>

FullyCovers(s, c) == covers[s][c] = Branch

Check(l, c) ==
    /\ pc[l] = "check" /\ c \in todo[l]
    /\ c \notin never
    /\ cond' = [cond EXCEPT ![l] = c]
    /\ todo' = [todo EXCEPT ![l] = @ \ {c}]
    /\ pc' = [pc EXCEPT ![l] = IF FullyCovers(seed[l], c) THEN "retire" ELSE "track"]
    /\ UNCHANGED <<covers, entries, doubled, tables, seed, folded, overtaken>>

(* The seed alone covers the condition: three sections, one lock each.     *)
Retire(l) ==
    /\ pc[l] = "retire"
    /\ never' = never \cup {cond[l]}
    /\ overtaken' = IF \E k \in Loader : pc[k] = "track" /\ cond[k] = cond[l]
                      THEN overtaken \cup {cond[l]} ELSE overtaken
    /\ pc' = [pc EXCEPT ![l] = "uninterest"]
    /\ UNCHANGED <<covers, entries, doubled, interesting, tracked, status, seed, todo,
                   cond, folded>>

Uninterest(l) ==
    /\ pc[l] = "uninterest"
    /\ interesting' = interesting \ {cond[l]}
    /\ pc' = [pc EXCEPT ![l] = "drop"]
    /\ UNCHANGED <<covers, entries, doubled, never, tracked, status, seed, todo, cond,
                   folded, overtaken>>

WithoutCond(T, c) == T \ {c}

Drop(l) ==
    /\ pc[l] = "drop"
    /\ tracked' = WithoutCond(tracked, cond[l])
    /\ status' = [status EXCEPT ![cond[l]] = NoSeeds]
    /\ cond' = [cond EXCEPT ![l] = Nobody]
    /\ pc' = [pc EXCEPT ![l] = "check"]
    /\ UNCHANGED <<covers, entries, doubled, never, interesting, seed, todo, folded,
                   overtaken>>

(* Partly covered: one section under the cond_status lock (with the        *)
(* interest lock inside) creates the entry if need be and adds the seed.   *)
EveryBranch(s, c) == [b \in Branch |-> status[c][b] \cup {s}]          \* mutant
ResetEntry(s, c) ==                          \* mutant
    [b \in Branch |-> IF b \in covers[s][c] THEN {s} ELSE {}]
Added(s, c) ==
    [b \in Branch |-> IF b \in covers[s][c] THEN status[c][b] \cup {s}
                                            ELSE status[c][b]]

Track(l) ==
    /\ pc[l] = "track"
    /\ LET c == cond[l]
       IN  /\ tracked' = tracked \cup {c}
           /\ interesting' = IF c \in tracked THEN interesting
                                              ELSE interesting \cup {c}
           /\ status' = [status EXCEPT ![c] = Added(seed[l], c)]
    /\ cond' = [cond EXCEPT ![l] = Nobody]
    /\ pc' = [pc EXCEPT ![l] = "check"]
    /\ UNCHANGED <<covers, entries, doubled, never, seed, todo, folded, overtaken>>

Finish(l) ==
    /\ pc[l] = "check" /\ todo[l] = {}
    /\ folded' = folded \cup {seed[l]}
    /\ seed' = [seed EXCEPT ![l] = Nobody]
    /\ pc' = [pc EXCEPT ![l] = "idle"]
    /\ UNCHANGED <<covers, entries, doubled, tables, todo, cond, overtaken>>

(* A new session loads what the last save of the branch cache had, in the  *)
(* order the names sort in; of a seed that was stored twice that may be    *)
(* what either store left.  The tables start empty and nothing fills them  *)
(* from the cache.                                                         *)
Orders(kept) ==
    {f \in [Seed -> 0 .. Cardinality(kept)] :
        /\ \A s \in Seed : f[s] > 0 <=> s \in kept
        /\ \A s, t \in kept : f[s] = f[t] => s = t}

Restart ==
    /\ \E kept \in SUBSET Cached :
         /\ place' \in Orders(kept)
         /\ \E other \in SUBSET (kept \cap doubled) :
              parsed' = other \cup ((parsed \cap kept) \ doubled)
    /\ never' = {} /\ interesting' = {} /\ tracked' = {}
    /\ status' = [c \in Cond |-> NoSeeds]
    /\ pc' = [l \in Loader |-> "idle"]
    /\ seed' = [l \in Loader |-> Nobody]
    /\ todo' = [l \in Loader |-> {}]
    /\ cond' = [l \in Loader |-> Nobody]
    /\ folded' = {} /\ overtaken' = {} /\ doubled' = {}
    /\ covers' = covers

LoaderStep(l) ==
    \/ \E s \in Seed : Begin(l, s)
    \/ Store(l) \/ StoreNone(l)
    \/ \E c \in Cond : Skip(l, c) \/ Check(l, c)
    \/ Retire(l) \/ Uninterest(l) \/ Drop(l) \/ Track(l) \/ Finish(l)

Next == (\E l \in Loader : LoaderStep(l)) \/ Restart

Spec == Init /\ [][Next]_vars

----------------------------------------------------------------------------
(* The readers.                                                            *)

(* _get_one_sided_branches_from_autobug_cache walks the cache in insertion *)
(* order and keeps, for each condition, what the FIRST seed that reaches   *)
(* it covers; the branches that seed misses are the roadblocks, if the     *)
(* condition has more than one and its place in the code is known.         *)
Reaching(c) == {s \in parsed : c \in Dump(s)}
First(c) == {s \in Reaching(c) : \A r \in Reaching(c) : place[s] <= place[r]}

Listed(c) ==
    {b \in Branch :
        /\ c \notin Unlisted /\ Cardinality(Branch) > 1
        /\ \E s \in First(c) : b \notin covers[s][c]}

(* get_uncovered_branches answers from cond_status, and takes the number   *)
(* of branches from any cached dump that has the condition.  The entry is  *)
(* read on after its lock is released: what is seen is one of its states   *)
(* from then on.                                                           *)
UncoveredBranches(c) ==
    IF c \in tracked /\ Reaching(c) # {} THEN {b \in Branch : status[c][b] = {}} ELSE {}

(* _autobug_matching_seed_names asks cond_status first for a seed among    *)
(* the candidates and falls back on their cached dumps, where any          *)
(* condition on that line of a file of that base name will do.             *)
SamePlace(c) == IF c \in Twins THEN Twins ELSE {c}
MatchingSeeds(c, b, candidates) ==
    LET known == IF c \in tracked THEN status[c][b] \cap candidates ELSE {}
    IN  IF known # {} THEN known
        ELSE {s \in parsed \cap candidates : \E d \in SamePlace(c) : b \in covers[s][d]}

----------------------------------------------------------------------------
(* No seed is offered for a branch it does not take, whatever the threads  *)
(* interleave: the mapping the slicer and the seed picker rely on.  A seed *)
(* that takes the branch of a condition alike in its stead is offered only *)
(* where no candidate folded in this session takes the branch itself,      *)
(* unless the condition was retired and its seeds forgotten.               *)
MatchesAreReal ==
    \A c \in Cond, b \in Branch, candidates \in SUBSET Seed :
        \A s \in MatchingSeeds(c, b, candidates) :
            /\ \E d \in SamePlace(c) : b \in covers[s][d]
            /\ \/ b \in covers[s][c] \/ c \in never
               \/ \A t \in folded \cap candidates : b \notin covers[t][c]

(* A seed that was folded in completely is offered for every branch it     *)
(* takes and no such branch is called uncovered, unless a seed retired the *)
(* condition meanwhile: no thread undoes another thread's update.          *)
NoLostUpdate ==
    \A s \in folded, c \in Cond :
        c \in never \/ \A b \in covers[s][c] :
            /\ b \notin UncoveredBranches(c)
            /\ \A candidates \in SUBSET Seed :
                  s \in candidates => s \in MatchingSeeds(c, b, candidates)

(* A retired condition is still tracked, or called interesting, only while *)
(* a thread is between its sections, or for good if a thread past its      *)
(* check was overtaken by the retirement.                                  *)
RetiredNotTracked ==
    \A c \in never \cap (tracked \cup interesting) :
        \/ c \in overtaken
        \/ \E l \in Loader : pc[l] \in {"uninterest", "drop"} /\ cond[l] = c

(* What a thread recorded stands: another thread neither undoes it nor     *)
(* brings back what was retired.                                           *)
UpdatesStand == NoLostUpdate /\ RetiredNotTracked

(* Once a seed has decided what is listed of a condition, nothing that is  *)
(* replayed later in the session changes it, neither taking off a branch   *)
(* nor adding one, but for a seed that two threads were replaying at the   *)
(* same time: the second store may replace the dump the listing came from  *)
(* by None, or put one before it.                                          *)
ListingStands ==
    [][\A c \in Cond :
         First(c) # {} /\ Listed(c)' # Listed(c)
           => Restart \/ \E s \in doubled : c \in Dump(s)]_vars

(* What the docstring of the listing says: it is built from every seed of  *)
(* the cache and from cond_status, so a branch that is listed is one no    *)
(* folded seed takes.                                                      *)
ListedIsUncovered ==
    \A c \in Cond, s \in folded : Listed(c) \cap covers[s][c] = {}
=============================================================================
