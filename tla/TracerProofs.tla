---------------------------- MODULE TracerProofs ----------------------------
(* Theorems about the records of the tracer (CondStatus), for every set of *)
(* seeds, conditions, branches and threads, and about what is kept for the *)
(* prompts (PromptMachines): the requests, the evidence on a roadblock,    *)
(* its slices, and the manifests of first seeds.                           *)
EXTENDS CondStatus, PromptMachines, FiniteSetTheorems, SequenceTheorems, WellFoundedInduction, TLAPS

(* A set of numbers has a least one.                                       *)
Less == {p \in Nat \X Nat : p[1] < p[2]}

LEMMA LessWellFounded == IsWellFoundedOn(Less, Nat)
<1>1. Less = OpToRel(<, Nat)
  BY DEF Less, OpToRel
<1>. QED
  BY <1>1, NatLessThanWellFounded

LEMMA LeastOf == ASSUME NEW T \in SUBSET Nat, T # {} PROVE \E m \in T : \A n \in T : m <= n
<1>1. PICK m \in T : \A n \in T : ~(<<n, m>> \in Less)
  BY LessWellFounded, WFMin
<1>2. ASSUME NEW n \in T PROVE m <= n
  <2>1. n \in Nat /\ m \in Nat
    OBVIOUS
  <2>2. n < m => <<n, m>> \in Less
    BY <2>1 DEF Less
  <2>. QED
    BY <1>1, <2>1, <2>2
<1>. QED
  BY <1>2

(* Induction over the naturals, for a set of them.                         *)
LEMMA AllOf ==
    ASSUME NEW T, 0 \in T, \A n \in Nat : n \in T => n + 1 \in T
    PROVE  \A n \in Nat : n \in T
<1>. SUFFICES ASSUME Nat \ T # {} PROVE FALSE
  OBVIOUS
<1>1. PICK m \in Nat \ T : \A n \in Nat \ T : m <= n
  BY LeastOf
<1>2. m # 0 /\ m \in Nat
  OBVIOUS
<1>3. m - 1 \in Nat /\ (m - 1) + 1 = m /\ ~(m <= m - 1)
  BY <1>2
<1>4. m - 1 \in T
  BY <1>1, <1>3
<1>. QED
  BY <1>3, <1>4

LEMMA PlaceType == ASSUME NEW n \in Nat PROVE 0 .. n \subseteq Nat
  OBVIOUS

LEMMA CachedCount == TypeOK => Cardinality(Cached) \in Nat
  BY CondAssumption, FS_Subset, FS_CardinalityType DEF Cached

(* What the control state of a thread says of its seed and condition.      *)
InFlight ==
    \A l \in Loader :
        /\ pc[l] # "idle" => seed[l] \in Seed
        /\ pc[l] \in {"retire", "uninterest", "drop", "track"} => cond[l] \in Cond
        /\ pc[l] \in {"uninterest", "drop"} => cond[l] \in never

(***************************************************************************)
(* Type correctness, with the control state.                               *)
(***************************************************************************)
Typed == TypeOK /\ InFlight

LEMMA InitTyped == Init => Typed
  BY DEF Init, Typed, TypeOK, InFlight, LoaderPC, NoSeeds

LEMMA StepTyped == ASSUME Typed, NEW l \in Loader, LoaderStep(l) PROVE Typed'
<1> USE DEF Typed, TypeOK, LoaderPC
<1>1. ASSUME NEW s \in Seed, Begin(l, s) PROVE Typed'
  BY <1>1 DEF Begin, Starts, entries, tables, InFlight
<1>2. CASE Store(l)
  <2>1. seed[l] \in Seed /\ Dump(seed[l]) \subseteq Cond
    BY <1>2 DEF Store, InFlight, Dump
  <2>2. place' \in [Seed -> Nat] /\ todo' \in [Loader -> SUBSET Cond]
    BY <1>2, <2>1, CachedCount DEF Store, Placed
  <2>3. InFlight'
    BY <1>2 DEF Store, tables, InFlight
  <2>. QED
    BY <1>2, <2>1, <2>2, <2>3 DEF Store, tables
<1>2n. CASE StoreNone(l)
  <2>1. seed[l] \in Seed
    BY <1>2n DEF StoreNone, InFlight
  <2>2. place' \in [Seed -> Nat]
    BY <1>2n, <2>1, CachedCount DEF StoreNone, Placed
  <2>3. InFlight'
    BY <1>2n DEF StoreNone, tables, InFlight
  <2>. QED
    BY <1>2n, <2>2, <2>3 DEF StoreNone, tables
<1>3. ASSUME NEW c \in Cond, Skip(l, c) PROVE Typed'
  BY <1>3 DEF Skip, entries, tables, InFlight
<1>4. ASSUME NEW c \in Cond, Check(l, c) PROVE Typed'
  BY <1>4 DEF Check, entries, tables, InFlight
<1>5. CASE Retire(l)
  <2>1. cond[l] \in Cond
    BY <1>5 DEF Retire, InFlight
  <2>. QED
    BY <1>5, <2>1 DEF Retire, entries, InFlight
<1>6. CASE Uninterest(l)
  BY <1>6 DEF Uninterest, entries, InFlight
<1>7. CASE Drop(l)
  <2>1. tracked' \subseteq Cond /\ status' \in [Cond -> [Branch -> SUBSET Seed]]
    BY <1>7 DEF Drop, WithoutCond, NoSeeds
  <2>. QED
    BY <1>7, <2>1 DEF Drop, entries, InFlight
<1>8. CASE Track(l)
  <2>1. cond[l] \in Cond /\ seed[l] \in Seed
    BY <1>8 DEF Track, InFlight
  <2>2. Added(seed[l], cond[l]) \in [Branch -> SUBSET Seed]
    BY <2>1 DEF Added
  <2>3. status' \in [Cond -> [Branch -> SUBSET Seed]]
    BY <1>8, <2>2 DEF Track
  <2>4. tracked' \subseteq Cond /\ interesting' \subseteq Cond
    BY <1>8, <2>1 DEF Track
  <2>. QED
    BY <1>8, <2>3, <2>4 DEF Track, entries, InFlight
<1>9. CASE Finish(l)
  BY <1>9 DEF Finish, entries, tables, InFlight
<1>. QED
  BY <1>1, <1>2, <1>2n, <1>3, <1>4, <1>5, <1>6, <1>7, <1>8, <1>9 DEF LoaderStep

LEMMA RestartPlaces == ASSUME TypeOK, Restart PROVE place' \in [Seed -> Nat]
<1>1. PICK rest \in SUBSET Cached : place' \in Orders(rest)
  BY DEF Restart
<1>2. Cardinality(rest) \in Nat
  BY CondAssumption, FS_Subset, FS_CardinalityType DEF Cached
<1>. QED
  BY <1>1, <1>2, PlaceType DEF Orders

LEMMA NextTyped == Typed /\ [Next]_vars => Typed'
<1> SUFFICES ASSUME Typed, [Next]_vars PROVE Typed'
  OBVIOUS
<1>1. ASSUME NEW l \in Loader, LoaderStep(l) PROVE Typed'
  BY <1>1, StepTyped
<1>2. CASE Restart
  BY <1>2, RestartPlaces DEF Restart, Cached, Typed, TypeOK, InFlight, LoaderPC, NoSeeds
<1>3. CASE UNCHANGED vars
  BY <1>3 DEF vars, entries, tables, loader, Typed, TypeOK, InFlight
<1>. QED
  BY <1>1, <1>2, <1>3 DEF Next

(* Every variable keeps its type, and a thread inside one of the sections  *)
(* of _populate_cond_status_from_branches holds a seed and a condition.    *)
THEOREM TypeCorrect == Spec => []TypeOK
<1>1. Typed => TypeOK
  BY DEF Typed
<1>. QED
  BY InitTyped, NextTyped, <1>1, PTL DEF Spec

(* The type invariant together with the control state is invariant.        *)
THEOREM ControlTyped == Spec => []Typed
  BY InitTyped, NextTyped, PTL DEF Spec

(***************************************************************************)
(* MatchesAreReal: whatever is in the tables came from a dump.             *)
(***************************************************************************)
StatusReal == \A c \in Cond, b \in Branch : \A s \in status[c][b] : b \in covers[s][c]

LEMMA StepReal == Typed /\ StatusReal /\ [Next]_vars => StatusReal'
<1> SUFFICES ASSUME Typed, StatusReal, [Next]_vars PROVE StatusReal'
  OBVIOUS
<1> USE DEF Typed, TypeOK, StatusReal
<1>1. ASSUME NEW l \in Loader, Drop(l) PROVE StatusReal'
  BY <1>1 DEF Drop, NoSeeds
<1>2. ASSUME NEW l \in Loader, Track(l) PROVE StatusReal'
  <2>1. cond[l] \in Cond
    BY <1>2 DEF Track, InFlight
  <2>2. \A b \in Branch : \A s \in Added(seed[l], cond[l])[b] : b \in covers[s][cond[l]]
    BY <2>1 DEF Added
  <2>3. status' = [status EXCEPT ![cond[l]] = Added(seed[l], cond[l])] /\ covers' = covers
    BY <1>2 DEF Track
  <2>. QED
    BY <2>1, <2>2, <2>3
<1>3. CASE Restart
  BY <1>3 DEF Restart, NoSeeds
<1>4. ASSUME UNCHANGED <<covers, status>> PROVE StatusReal'
  BY <1>4
<1>. QED
  BY <1>1, <1>2, <1>3, <1>4
  DEF Next, LoaderStep, Begin, Starts, Store, StoreNone, Skip, Check, Retire, Uninterest, Finish, tables, vars

(***************************************************************************)
(* NoLostUpdate.  Recorded says that a condition of a seed needs no more   *)
(* work; a thread owes its seed only the conditions it has left.           *)
(***************************************************************************)
Recorded(s, c) == c \in never \/ \A b \in covers[s][c] : s \in status[c][b]

InHand(l, c) ==
    c \in todo[l] \/ (pc[l] \in {"retire", "track"} /\ cond[l] = c)

Owed ==
    /\ \A s \in folded, c \in Cond : Recorded(s, c)
    /\ \A l \in Loader, c \in Cond :
          pc[l] \notin {"idle", "replay"} => InHand(l, c) \/ Recorded(seed[l], c)
    /\ \A c \in Cond \ tracked, b \in Branch : status[c][b] = {}

(* A step that keeps never, and the sets of the other conditions, growing  *)
(* keeps what is recorded.                                                 *)
LEMMA KeepsRecorded ==
    ASSUME Typed, NEW s \in Seed, NEW c \in Cond, Recorded(s, c),
           covers' = covers, never \subseteq never',
           c \notin never => \A b \in Branch : status[c][b] \subseteq status'[c][b]
    PROVE  Recorded(s, c)'
  BY DEF Recorded, Typed, TypeOK

LEMMA StepGrows ==
    ASSUME Typed, NEW l \in Loader, LoaderStep(l)
    PROVE  /\ covers' = covers
           /\ never \subseteq never'
           /\ \A c \in Cond \ never, b \in Branch : status[c][b] \subseteq status'[c][b]
<1> USE DEF Typed, TypeOK
<1>1. CASE Drop(l)
  BY <1>1 DEF Drop, InFlight
<1>2. CASE Track(l)
  <2>1. status' = [status EXCEPT ![cond[l]] = Added(seed[l], cond[l])]
    BY <1>2 DEF Track
  <2>2. \A b \in Branch : status[cond[l]][b] \subseteq Added(seed[l], cond[l])[b]
    BY DEF Added
  <2>. QED
    BY <1>2, <2>1, <2>2 DEF Track
<1>3. CASE Retire(l)
  BY <1>3 DEF Retire
<1>4. CASE UNCHANGED <<covers, never, status>>
  BY <1>4
<1>. QED
  BY <1>1, <1>2, <1>3, <1>4
  DEF LoaderStep, Begin, Starts, Store, StoreNone, Skip, Check, Uninterest, Finish, tables

LEMMA StepOwed == ASSUME Typed, Owed, NEW l \in Loader, LoaderStep(l) PROVE Owed'
<1> USE DEF Typed, TypeOK
<1>1. \A s \in Seed, c \in Cond : Recorded(s, c) => Recorded(s, c)'
  BY StepGrows, KeepsRecorded
<1>2. /\ \A k \in Loader : pc[k] # "idle" => seed[k] \in Seed
      /\ \A k \in Loader : pc[k] \in {"retire", "uninterest", "drop", "track"} => cond[k] \in Cond
  BY DEF InFlight
<1>3. (\A c \in Cond \ tracked, b \in Branch : status[c][b] = {})'
  <2>1. CASE Drop(l)
    BY <2>1, <1>2 DEF Drop, WithoutCond, NoSeeds, Owed
  <2>2. CASE Track(l)
    BY <2>2, <1>2 DEF Track, Owed
  <2>3. CASE UNCHANGED <<status, tracked>>
    BY <2>3 DEF Owed
  <2>. QED
    BY <2>1, <2>2, <2>3
    DEF LoaderStep, Begin, Starts, Store, StoreNone, Skip, Check, Retire, Uninterest, Finish, tables
<1>4. (\A s \in folded, c \in Cond : Recorded(s, c))'
  <2>1. CASE Finish(l)
    <3>1. seed[l] \in Seed /\ \A c \in Cond : Recorded(seed[l], c)
      BY <2>1, <1>2 DEF Finish, Owed, InHand
    <3>. QED
      BY <2>1, <3>1, <1>1 DEF Finish, Owed
  <2>2. CASE folded' = folded
    BY <2>2, <1>1 DEF Owed
  <2>. QED
    BY <2>1, <2>2
    DEF LoaderStep, Begin, Starts, Store, StoreNone, Skip, Check, Retire, Uninterest, Drop, Track
<1>5. ASSUME NEW k \in Loader, k # l, NEW c \in Cond, pc'[k] \notin {"idle", "replay"}
      PROVE  InHand(k, c)' \/ Recorded(seed[k], c)'
  <2>1. /\ pc'[k] = pc[k] /\ seed'[k] = seed[k]
        /\ todo'[k] = todo[k] /\ cond'[k] = cond[k]
    BY <1>5
    DEF LoaderStep, Begin, Starts, Store, StoreNone, Skip, Check, Retire, Uninterest, Drop, Track, Finish
  <2>. QED
    BY <2>1, <1>1, <1>2, <1>5 DEF Owed, InHand
<1>6. ASSUME NEW c \in Cond, pc'[l] \notin {"idle", "replay"}
      PROVE  InHand(l, c)' \/ Recorded(seed[l], c)'
  <2>1. ASSUME NEW s \in Seed, Begin(l, s) PROVE FALSE
    BY <2>1, <1>6 DEF Begin, Starts
  <2>1n. CASE StoreNone(l)
    BY <2>1n, <1>6 DEF StoreNone
  <2>2. CASE Store(l)
    BY <2>2, <1>2 DEF Store, Dump, InHand, Recorded, tables
  <2>3. ASSUME NEW d \in Cond, Skip(l, d) PROVE InHand(l, c)' \/ Recorded(seed[l], c)'
    <3>1. c \in todo[l] \/ Recorded(seed[l], c)
      BY <2>3 DEF Skip, Owed, InHand
    <3>2. c \in todo'[l] \/ c = d \/ Recorded(seed[l], c)
      BY <2>3, <3>1 DEF Skip
    <3>3. d \in never' /\ seed' = seed
      BY <2>3 DEF Skip, tables
    <3>. QED
      BY <2>3, <3>2, <3>3, <1>1, <1>2 DEF Skip, InHand, Recorded
  <2>4. ASSUME NEW d \in Cond, Check(l, d) PROVE InHand(l, c)' \/ Recorded(seed[l], c)'
    <3>1. c \in todo[l] \/ Recorded(seed[l], c)
      BY <2>4 DEF Check, Owed, InHand
    <3>2. c \in todo'[l] \/ c = d \/ Recorded(seed[l], c)
      BY <2>4, <3>1 DEF Check
    <3>3. cond'[l] = d /\ pc'[l] \in {"retire", "track"} /\ seed' = seed
      BY <2>4 DEF Check
    <3>. QED
      BY <2>4, <3>2, <3>3, <1>1, <1>2 DEF Check, InHand
  <2>5. CASE Retire(l)
    BY <2>5, <1>1, <1>2 DEF Retire, InHand, Recorded, Owed
  <2>6. CASE Uninterest(l)
    BY <2>6, <1>1, <1>2 DEF Uninterest, InHand, Owed
  <2>7. CASE Drop(l)
    BY <2>7, <1>1, <1>2 DEF Drop, InHand, Owed
  <2>8. CASE Track(l)
    <3>1. CASE c = cond[l]
      <4>1. status'[c] = Added(seed[l], c) /\ covers' = covers
        BY <2>8, <3>1 DEF Track
      <4>. QED
        BY <4>1, <1>2, <2>8 DEF Added, Recorded, Track
    <3>2. CASE c # cond[l]
      BY <2>8, <3>2, <1>1, <1>2 DEF Track, InHand, Owed
    <3>. QED
      BY <3>1, <3>2
  <2>9. CASE Finish(l)
    BY <2>9, <1>6 DEF Finish
  <2>. QED
    BY <2>1, <2>1n, <2>2, <2>3, <2>4, <2>5, <2>6, <2>7, <2>8, <2>9 DEF LoaderStep
<1>7. ASSUME NEW k \in Loader, NEW c \in Cond, pc'[k] \notin {"idle", "replay"}
      PROVE  (InHand(k, c) \/ Recorded(seed[k], c))'
  BY <1>5, <1>6, <1>7
<1>. QED
  BY <1>3, <1>4, <1>7 DEF Owed

LEMMA NextOwed == Typed /\ Owed /\ [Next]_vars => Owed'
<1> SUFFICES ASSUME Typed, Owed, [Next]_vars PROVE Owed'
  OBVIOUS
<1>1. CASE Restart
  BY <1>1 DEF Restart, Owed, NoSeeds
<1>2. CASE UNCHANGED vars
  BY <1>2 DEF vars, entries, tables, loader, Owed, InHand, Recorded
<1>. QED
  BY <1>1, <1>2, StepOwed DEF Next

(* What one thread has recorded of a seed no other thread undoes, short of *)
(* retiring the condition.                                                 *)
THEOREM UpdatesKept == Spec => []NoLostUpdate
<1>1. Init => Owed
  BY DEF Init, Owed, NoSeeds
<1>2. Typed /\ Owed => NoLostUpdate
  <2> SUFFICES ASSUME Typed, Owed, NEW s \in folded, NEW c \in Cond, c \notin never,
                      NEW b \in covers[s][c]
               PROVE  /\ b \notin UncoveredBranches(c)
                      /\ \A K \in SUBSET Seed : s \in K => s \in MatchingSeeds(c, b, K)
    BY DEF NoLostUpdate
  <2>1. s \in Seed /\ b \in Branch /\ s \in status[c][b]
    BY DEF Owed, Recorded, Typed, TypeOK
  <2>2. c \in tracked
    BY <2>1 DEF Owed
  <2>. QED
    BY <2>1, <2>2 DEF MatchingSeeds, UncoveredBranches
<1>. QED
  BY <1>1, <1>2, NextOwed, ControlTyped, PTL DEF Spec

(* MatchesAreReal: a seed offered for a branch takes it, or that of a      *)
(* condition alike where no candidate of the session takes it, however the *)
(* threads interleave.                                                     *)
THEOREM OnlyRealMatches == Spec => []MatchesAreReal
<1>1. Init => StatusReal /\ Owed
  BY DEF Init, StatusReal, Owed, NoSeeds
<1>2. Typed /\ StatusReal /\ Owed => MatchesAreReal
  <2> SUFFICES ASSUME Typed, StatusReal, Owed, NEW c \in Cond, NEW b \in Branch, NEW K \in SUBSET Seed,
                      NEW s \in MatchingSeeds(c, b, K)
               PROVE  /\ \E d \in SamePlace(c) : b \in covers[s][d]
                      /\ \/ b \in covers[s][c] \/ c \in never
                         \/ \A t \in folded \cap K : b \notin covers[t][c]
    BY DEF MatchesAreReal
  <2>1. c \in SamePlace(c)
    BY DEF SamePlace
  <2>2. CASE c \in tracked /\ status[c][b] \cap K # {}
    <3>1. s \in status[c][b]
      BY <2>2 DEF MatchingSeeds
    <3>. QED
      BY <2>1, <3>1 DEF StatusReal
  <2>3. CASE c \notin tracked \/ status[c][b] \cap K = {}
    <3>1. \E d \in SamePlace(c) : b \in covers[s][d]
      BY <2>3 DEF MatchingSeeds
    <3>2. ASSUME c \notin never, NEW t \in folded \cap K, b \in covers[t][c] PROVE FALSE
      <4>1. t \in status[c][b]
        BY <3>2 DEF Owed, Recorded
      <4>. QED
        BY <2>3, <3>2, <4>1 DEF Owed
    <3>. QED
      BY <3>1, <3>2
  <2>. QED
    BY <2>2, <2>3
<1>. QED
  BY <1>1, <1>2, StepReal, NextOwed, ControlTyped, PTL DEF Spec

(***************************************************************************)
(* RetiredNotTracked.  A thread past its check when the condition is       *)
(* retired is the only one that can bring the condition back.              *)
(***************************************************************************)
LateTrackers ==
    \A l \in Loader :
        /\ pc[l] = "track" /\ cond[l] \in never => cond[l] \in overtaken
        /\ pc[l] = "drop" => cond[l] \notin interesting \/ cond[l] \in overtaken

RetireInv == LateTrackers /\ RetiredNotTracked

LEMMA StepRetired == ASSUME Typed, RetireInv, NEW l \in Loader, LoaderStep(l) PROVE RetireInv'
<1> USE DEF Typed, TypeOK, LateTrackers, RetireInv, RetiredNotTracked
<1>1. ASSUME NEW s \in Seed, Begin(l, s) PROVE RetireInv'
  BY <1>1 DEF Begin, Starts, tables
<1>2. CASE Store(l) \/ StoreNone(l)
  BY <1>2 DEF Store, StoreNone, tables
<1>3. ASSUME NEW c \in Cond, Skip(l, c) PROVE RetireInv'
  BY <1>3 DEF Skip, tables
<1>4. ASSUME NEW c \in Cond, Check(l, c) PROVE RetireInv'
  BY <1>4 DEF Check, tables
<1>5. CASE Retire(l)
  BY <1>5 DEF Retire
<1>6. CASE Uninterest(l)
  BY <1>6 DEF Uninterest
<1>7. CASE Drop(l)
  BY <1>7 DEF Drop, WithoutCond
<1>8. CASE Track(l)
  <2>1. /\ never' = never /\ overtaken' = overtaken
        /\ pc[l] = "track" /\ pc'[l] = "check"
        /\ \A k \in Loader \ {l} : pc'[k] = pc[k] /\ cond'[k] = cond[k]
        /\ tracked' = tracked \cup {cond[l]}
        /\ interesting' \subseteq interesting \cup {cond[l]}
    BY <1>8 DEF Track
  <2>2. cond[l] \in never => cond[l] \in overtaken
    BY <2>1
  <2>3. ASSUME NEW k \in Loader, pc'[k] = "drop"
        PROVE  cond'[k] \notin interesting' \/ cond'[k] \in overtaken'
    <3>1. k # l /\ cond[k] \in never
      BY <2>1, <2>3 DEF InFlight
    <3>. QED
      BY <2>1, <2>2, <2>3, <3>1
  <2>4. LateTrackers'
    BY <2>1, <2>3
  <2>5. RetiredNotTracked'
    <3> SUFFICES ASSUME NEW c \in never \cap (tracked' \cup interesting'), c \notin overtaken
                 PROVE  \E k \in Loader : pc'[k] \in {"uninterest", "drop"} /\ cond'[k] = c
      BY <2>1
    <3>1. c # cond[l] /\ c \in tracked \cup interesting
      BY <2>1, <2>2
    <3>2. PICK k \in Loader : pc[k] \in {"uninterest", "drop"} /\ cond[k] = c
      BY <3>1
    <3>. QED
      BY <2>1, <3>2
  <2>. QED
    BY <2>4, <2>5
<1>9. CASE Finish(l)
  BY <1>9 DEF Finish, tables
<1>. QED
  BY <1>1, <1>2, <1>3, <1>4, <1>5, <1>6, <1>7, <1>8, <1>9 DEF LoaderStep

LEMMA NextRetired == Typed /\ RetireInv /\ [Next]_vars => RetireInv'
<1> SUFFICES ASSUME Typed, RetireInv, [Next]_vars PROVE RetireInv'
  OBVIOUS
<1>1. CASE Restart
  BY <1>1 DEF Restart, RetireInv, LateTrackers, RetiredNotTracked
<1>2. CASE UNCHANGED vars
  BY <1>2 DEF vars, tables, loader, RetireInv, LateTrackers, RetiredNotTracked
<1>. QED
  BY <1>1, <1>2, StepRetired DEF Next

(* A retired condition stays out of the tables unless a thread was past    *)
(* its check when it was retired.                                          *)
THEOREM RetirementHolds == Spec => []RetiredNotTracked
<1>1. Init => RetireInv
  BY DEF Init, RetireInv, LateTrackers, RetiredNotTracked
<1>2. RetireInv => RetiredNotTracked
  BY DEF RetireInv
<1>. QED
  BY <1>1, <1>2, NextRetired, ControlTyped, PTL DEF Spec

(* UpdatesStand: what one thread has recorded no other thread undoes, and  *)
(* what was retired it brings back only if it was past its check.          *)
THEOREM RecordsStand == Spec => []UpdatesStand
  BY UpdatesKept, RetirementHolds, PTL DEF UpdatesStand

(***************************************************************************)
(* ListingStands.  A seed that comes new to the cache stands behind all    *)
(* others there; only a seed replayed by two threads is stored again.      *)
(***************************************************************************)
Behind ==
    /\ \A s \in Seed : place[s] <= Cardinality(Cached)
    /\ parsed \subseteq Cached

Doubles ==
    /\ \A l \in Loader : pc[l] = "replay" /\ seed[l] \in Cached => seed[l] \in doubled
    /\ \A k, l \in Loader :
          pc[k] = "replay" /\ pc[l] = "replay" /\ k # l /\ seed[k] = seed[l] => seed[l] \in doubled

(* The place a thread gives its seed.                                      *)
LEMMA PlacedIs ==
    ASSUME TypeOK, Behind, NEW s \in Seed, place' = Placed(s)
    PROVE  /\ Cached' = Cached \cup {s}
           /\ \A r \in Seed : r # s => place'[r] = place[r]
           /\ s \in Cached => place' = place
           /\ s \notin Cached => \A r \in Seed : r # s => place'[r] < place'[s]
           /\ (\A r \in Seed : place[r] <= Cardinality(Cached))'
<1> DEFINE n == Cardinality(Cached)
<1>1. IsFiniteSet(Cached) /\ n \in Nat
  BY CondAssumption, CachedCount, FS_Subset DEF Cached
<1>2. place \in [Seed -> Nat] /\ place' = [place EXCEPT ![s] = IF @ = 0 THEN n + 1 ELSE @]
  BY DEF TypeOK, Placed
<1>3. \A r \in Seed : place[r] <= n
  BY DEF Behind
<1>4. s \in Cached => n >= 0 /\ Cardinality(Cached \cup {s}) = n
  <2>1. s \in Cached => Cached \cup {s} = Cached
    OBVIOUS
  <2>. QED
    BY <1>1, <2>1
<1>5. s \notin Cached => Cardinality(Cached \cup {s}) = n + 1
  BY <1>1, FS_AddElement
<1>6. \A r \in Seed : r \in Cached <=> place[r] > 0
  BY DEF Cached
<1> HIDE DEF n
<1>7. /\ \A r \in Seed : r # s => place'[r] = place[r]
      /\ s \in Cached => place' = place
      /\ s \notin Cached => place'[s] = n + 1
  BY <1>2, <1>6
<1>8. Cached' = Cached \cup {s}
  <2>1. \A r \in Seed : r \in Cached' <=> place'[r] > 0
    BY DEF Cached
  <2>2. \A r \in Seed : place'[r] > 0 <=> place[r] > 0 \/ r = s
    BY <1>1, <1>2, <1>6, <1>7
  <2>3. Cached \subseteq Seed /\ Cached' \subseteq Seed
    BY DEF Cached
  <2>. QED
    BY <1>6, <2>1, <2>2, <2>3
<1>9. s \notin Cached => \A r \in Seed : r # s => place'[r] < place'[s]
  BY <1>1, <1>2, <1>3, <1>7
<1>10. (\A r \in Seed : place[r] <= Cardinality(Cached))'
  <2>1. CASE s \in Cached
    BY <1>3, <1>4, <1>7, <1>8, <2>1
  <2>2. CASE s \notin Cached
    BY <1>1, <1>2, <1>3, <1>5, <1>7, <1>8, <2>2
  <2>. QED
    BY <2>1, <2>2
<1>. QED
  BY <1>7, <1>8, <1>9, <1>10

LEMMA RestartBehind == ASSUME TypeOK, Restart PROVE Behind'
<1>1. PICK rest \in SUBSET Cached :
        /\ place' \in Orders(rest)
        /\ \E other \in SUBSET (rest \cap doubled) : parsed' = other \cup ((parsed \cap rest) \ doubled)
  BY DEF Restart
<1>2. Cached' = rest /\ \A s \in Seed : place'[s] \in 0 .. Cardinality(rest)
  BY <1>1 DEF Orders, Cached
<1>3. Cardinality(rest) \in Nat
  BY CondAssumption, FS_Subset, FS_CardinalityType DEF Cached
<1>. QED
  BY <1>1, <1>2, <1>3 DEF Behind

LEMMA NextBehind == Typed /\ Behind /\ [Next]_vars => Behind'
<1> SUFFICES ASSUME Typed, Behind, [Next]_vars PROVE Behind'
  OBVIOUS
<1>1. ASSUME NEW l \in Loader, Store(l) \/ StoreNone(l) PROVE Behind'
  <2>1. seed[l] \in Seed /\ place' = Placed(seed[l]) /\ parsed' \subseteq parsed \cup {seed[l]}
    BY <1>1 DEF Store, StoreNone, Typed, InFlight
  <2>2. Cached' = Cached \cup {seed[l]} /\ (\A r \in Seed : place[r] <= Cardinality(Cached))'
    BY <2>1, PlacedIs DEF Typed
  <2>. QED
    BY <2>1, <2>2 DEF Behind
<1>2. CASE Restart
  BY <1>2, RestartBehind DEF Typed
<1>3. CASE UNCHANGED entries
  BY <1>3 DEF entries, Behind, Cached
<1>. QED
  BY <1>1, <1>2, <1>3
  DEF Next, LoaderStep, Begin, Starts, Skip, Check, Retire, Uninterest, Drop, Track, Finish, vars

LEMMA NextDoubles == Typed /\ Behind /\ Doubles /\ [Next]_vars => Doubles'
<1> SUFFICES ASSUME Typed, Behind, Doubles, [Next]_vars PROVE Doubles'
  OBVIOUS
<1>0. pc \in [Loader -> LoaderPC] /\ seed \in [Loader -> Seed \cup {Nobody}]
  BY DEF Typed, TypeOK
<1>1. ASSUME NEW l \in Loader, NEW s \in Seed, Begin(l, s) PROVE Doubles'
  <2>1. /\ s \notin Cached /\ Cached' = Cached
        /\ pc' = [pc EXCEPT ![l] = "replay"] /\ seed' = [seed EXCEPT ![l] = s]
        /\ doubled \subseteq doubled' /\ (Replaying(s, l) => s \in doubled')
    BY <1>1 DEF Begin, Starts, entries, Cached
  <2>. QED
    BY <1>0, <2>1 DEF Doubles, Replaying
<1>2. ASSUME NEW l \in Loader, Store(l) \/ StoreNone(l) PROVE Doubles'
  <2>1. /\ pc[l] = "replay" /\ seed[l] \in Seed /\ place' = Placed(seed[l]) /\ doubled' = doubled
        /\ pc'[l] # "replay" /\ \A k \in Loader \ {l} : pc'[k] = pc[k] /\ seed'[k] = seed[k]
    BY <1>0, <1>2 DEF Store, StoreNone, Typed, InFlight
  <2>2. Cached' = Cached \cup {seed[l]}
    BY <2>1, PlacedIs DEF Typed
  <2>. QED
    BY <2>1, <2>2 DEF Doubles
<1>3. ASSUME UNCHANGED <<place, doubled>>,
             \A k \in Loader : pc'[k] = "replay" => pc[k] = "replay" /\ seed'[k] = seed[k]
      PROVE  Doubles'
  BY <1>3 DEF Doubles, Cached
<1>4. ASSUME NEW l \in Loader,
             \/ \E c \in Cond : Skip(l, c) \/ Check(l, c)
             \/ Retire(l) \/ Uninterest(l) \/ Drop(l) \/ Track(l) \/ Finish(l)
      PROVE  /\ UNCHANGED <<place, doubled>>
             /\ \A k \in Loader : pc'[k] = "replay" => pc[k] = "replay" /\ seed'[k] = seed[k]
  BY <1>0, <1>4 DEF Skip, Check, Retire, Uninterest, Drop, Track, Finish, entries
<1>5. CASE Restart
  BY <1>5 DEF Restart, Doubles
<1>6. CASE UNCHANGED vars
  BY <1>6 DEF vars, entries, loader, Doubles, Cached
<1>. QED
  BY <1>1, <1>2, <1>3, <1>4, <1>5, <1>6 DEF Next, LoaderStep

(* The listing depends on the dumps in the cache and their order.          *)
LEMMA SameListing ==
    ASSUME NEW c \in Cond, First(c)' = First(c), covers' = covers
    PROVE  Listed(c)' = Listed(c)
  BY DEF Listed

(* A seed that was not in the cache comes behind the first one.            *)
LEMMA LaterIsBehind ==
    ASSUME Typed, Behind, NEW l \in Loader, Store(l) \/ StoreNone(l), seed[l] \notin Cached,
           NEW c \in Cond, First(c) # {}
    PROVE  First(c)' = First(c)
<1> DEFINE s == seed[l]
<1>1. /\ s \in Seed /\ place' = Placed(s) /\ covers' = covers
      /\ parsed' = parsed \cup {s} \/ parsed' = parsed \ {s}
  BY DEF Store, StoreNone, Typed, InFlight
<1>2. s \notin parsed /\ parsed \subseteq Seed /\ place \in [Seed -> Nat]
  BY DEF Behind, Typed, TypeOK
<1> HIDE DEF s
<1>3. /\ \A r \in Seed : r # s => place'[r] = place[r]
      /\ \A r \in Seed : r # s => place'[r] < place'[s]
  BY <1>1, PlacedIs DEF Typed, s
<1>4. Reaching(c)' = Reaching(c) \/ Reaching(c)' = Reaching(c) \cup {s}
  BY <1>1, <1>2 DEF Reaching, Dump
<1>5. Reaching(c) \subseteq Seed /\ s \notin Reaching(c)
  BY <1>2 DEF Reaching
<1>6. place' \in [Seed -> Nat]
  BY <1>1, <1>2, CachedCount DEF Placed, Typed
<1>7. \A r, q \in Reaching(c) : place'[r] = place[r] /\ (place'[r] <= place'[q] <=> place[r] <= place[q])
  BY <1>3, <1>5
<1>8. \A r \in Reaching(c) : place'[r] <= place'[s] /\ ~(place'[s] <= place'[r])
  BY <1>1, <1>3, <1>5, <1>6
<1>9. PICK f \in First(c) : TRUE
  OBVIOUS
<1>10. f \in Reaching(c)
  BY <1>9 DEF First
<1>11. CASE Reaching(c)' = Reaching(c)
  BY <1>7, <1>11 DEF First
<1>12. CASE Reaching(c)' = Reaching(c) \cup {s}
  <2>1. s \notin First(c)'
    BY <1>8, <1>10, <1>12 DEF First
  <2>2. \A r \in Reaching(c) : r \in First(c)' <=> r \in First(c)
    BY <1>7, <1>8, <1>12 DEF First
  <2>3. First(c)' \subseteq Reaching(c) \cup {s} /\ First(c) \subseteq Reaching(c)
    BY <1>12 DEF First
  <2>. QED
    BY <2>1, <2>2, <2>3
<1>. QED
  BY <1>4, <1>11, <1>12

(* A seed stored again leaves the listing of what it does not reach.       *)
LEMMA AgainElsewhere ==
    ASSUME Typed, Behind, NEW l \in Loader, Store(l) \/ StoreNone(l), seed[l] \in Cached,
           NEW c \in Cond, c \notin Dump(seed[l])
    PROVE  First(c)' = First(c)
<1>1. /\ seed[l] \in Seed /\ place' = Placed(seed[l]) /\ covers' = covers
      /\ parsed' = parsed \cup {seed[l]} \/ parsed' = parsed \ {seed[l]}
  BY DEF Store, StoreNone, Typed, InFlight
<1>2. place' = place
  BY <1>1, PlacedIs DEF Typed
<1>3. Reaching(c)' = Reaching(c)
  BY <1>1 DEF Reaching, Dump
<1>. QED
  BY <1>2, <1>3 DEF First

(* ListingStands: within a session only a seed that two threads were       *)
(* replaying at the same time changes what is listed of a condition.       *)
THEOREM ListedForTheSession == Spec => ListingStands
<1>1. Init => Behind /\ Doubles
  <2> SUFFICES ASSUME Init PROVE Behind /\ Doubles
    OBVIOUS
  <2>1. Cached = {} /\ Cardinality({}) = 0
    BY FS_EmptySet DEF Init, Cached
  <2>2. Behind
    BY <2>1 DEF Init, Behind
  <2>. QED
    BY <2>1, <2>2 DEF Init, Doubles
<1>2. ASSUME Typed, Behind, Doubles, [Next]_vars, NEW c \in Cond, First(c) # {}, Listed(c)' # Listed(c)
      PROVE  Restart \/ \E s \in doubled : c \in Dump(s)
  <2>1. ASSUME NEW l \in Loader, Store(l) \/ StoreNone(l) PROVE \E s \in doubled : c \in Dump(s)
    <3>1. covers' = covers /\ pc[l] = "replay"
      BY <2>1 DEF Store, StoreNone
    <3>2. First(c)' # First(c)
      BY <1>2, <3>1, SameListing
    <3>3. seed[l] \in Cached
      BY <1>2, <2>1, <3>2, LaterIsBehind
    <3>4. c \in Dump(seed[l])
      BY <1>2, <2>1, <3>2, <3>3, AgainElsewhere
    <3>. QED
      BY <1>2, <3>1, <3>3, <3>4 DEF Doubles
  <2>2. ASSUME UNCHANGED <<covers, entries>> PROVE FALSE
    <3>1. First(c)' = First(c)
      BY <2>2 DEF entries, First, Reaching, Dump
    <3>. QED
      BY <1>2, <2>2, <3>1, SameListing
  <2>. QED
    BY <1>2, <2>1, <2>2
    DEF Next, LoaderStep, Begin, Starts, Skip, Check, Retire, Uninterest, Drop, Track, Finish, vars
<1>3. Typed /\ Behind /\ Doubles /\ [Next]_vars
        => [\A c \in Cond :
              First(c) # {} /\ Listed(c)' # Listed(c)
                => Restart \/ \E s \in doubled : c \in Dump(s)]_vars
  BY <1>2
<1>. QED
  BY <1>1, <1>3, NextBehind, NextDoubles, ControlTyped, PTL DEF Spec, ListingStands

(***************************************************************************)
(* Requests to the model.  The size of a request is a sum over its         *)
(* messages: what it is after a message was cut, and when all of them are. *)
(***************************************************************************)
(* The sums of the first messages, and of their first n.                   *)
Counts(ms) == Len(ms) \in Nat /\ \A i \in 1 .. Len(ms) : Requests!Chars(ms[i]) \in Nat
SumsTo(u, ms, n) ==
    /\ u \in [0 .. n -> Nat] /\ u[0] = 0
    /\ \A i \in 0 .. n - 1 : u[i + 1] = u[i] + Requests!Chars(ms[i + 1])
Sums(u, ms) == SumsTo(u, ms, Len(ms))

LEMMA SumsExist == ASSUME NEW ms, Counts(ms) PROVE \E u : Sums(u, ms)
<1> DEFINE T == {n \in Nat : n <= Len(ms) => \E u : SumsTo(u, ms, n)}
<1>1. 0 \in T
  <2>1. SumsTo([i \in 0 .. 0 |-> 0], ms, 0)
    BY DEF SumsTo
  <2>. QED
    BY <2>1
<1>2. ASSUME NEW n \in Nat, n \in T PROVE n + 1 \in T
  <2>. SUFFICES ASSUME n + 1 <= Len(ms) PROVE \E u : SumsTo(u, ms, n + 1)
    OBVIOUS
  <2>1. n <= Len(ms) /\ n + 1 \in 1 .. Len(ms)
    BY DEF Counts
  <2>2. PICK u : SumsTo(u, ms, n)
    BY <1>2, <2>1
  <2>3. PICK c \in Nat : c = Requests!Chars(ms[n + 1])
    BY <2>1 DEF Counts
  <2> DEFINE v == [i \in 0 .. n + 1 |-> IF i = n + 1 THEN u[n] + c ELSE u[i]]
  <2>4. v \in [0 .. n + 1 -> Nat] /\ v[0] = 0
    BY <2>2 DEF SumsTo
  <2>5. ASSUME NEW i \in 0 .. n PROVE v[i + 1] = v[i] + Requests!Chars(ms[i + 1])
    BY <2>2, <2>3 DEF SumsTo
  <2>6. (n + 1) - 1 = n
    OBVIOUS
  <2> HIDE DEF v
  <2>7. SumsTo(v, ms, n + 1)
    BY <2>4, <2>5, <2>6 DEF SumsTo
  <2>. QED
    BY <2>7
<1> HIDE DEF T
<1>3. \A n \in Nat : n \in T
  BY <1>1, <1>2, AllOf
<1>4. Len(ms) \in T
  BY <1>3 DEF Counts
<1>. QED
  BY <1>4 DEF T, Sums, Counts

LEMMA SumsAgree ==
  ASSUME NEW a, NEW b, Counts(a), NEW u, Sums(u, a), NEW v, Sums(v, b), Len(a) = Len(b),
         \A i \in 1 .. Len(a) : Requests!Chars(a[i]) = Requests!Chars(b[i])
  PROVE  u[Len(a)] = v[Len(b)]
<1> DEFINE T == {n \in Nat : n <= Len(a) => u[n] = v[n]}
<1>1. 0 \in T
  BY DEF Sums, SumsTo
<1>2. ASSUME NEW n \in Nat, n \in T PROVE n + 1 \in T
  <2>. SUFFICES ASSUME n + 1 <= Len(a) PROVE u[n + 1] = v[n + 1]
    OBVIOUS
  <2>1. n \in 0 .. Len(a) - 1 /\ n + 1 \in 1 .. Len(a) /\ n <= Len(a)
    BY DEF Counts
  <2>. QED
    BY <1>2, <2>1 DEF Sums, SumsTo
<1> HIDE DEF T
<1>3. \A n \in Nat : n \in T
  BY <1>1, <1>2, AllOf
<1>. QED
  BY <1>3 DEF T, Counts

LEMMA OneChanged ==
  ASSUME NEW a, NEW b, Counts(a), Counts(b), NEW u, Sums(u, a), NEW v, Sums(v, b), Len(a) = Len(b),
         NEW k \in 1 .. Len(a), \A i \in 1 .. Len(a) : i # k => a[i] = b[i]
  PROVE  v[Len(b)] = u[Len(a)] - Requests!Chars(a[k]) + Requests!Chars(b[k])
<1>1. PICK c \in Nat, d \in Nat : c = Requests!Chars(a[k]) /\ d = Requests!Chars(b[k])
  BY DEF Counts
<1> DEFINE T == {n \in Nat : n <= Len(a) => v[n] = IF n < k THEN u[n] ELSE u[n] - c + d}
<1>2. 0 \in T
  BY DEF Sums, SumsTo
<1>3. ASSUME NEW n \in Nat, n \in T PROVE n + 1 \in T
  <2>. SUFFICES ASSUME n + 1 <= Len(a) PROVE v[n + 1] = IF n + 1 < k THEN u[n + 1] ELSE u[n + 1] - c + d
    OBVIOUS
  <2>1. n \in 0 .. Len(a) - 1 /\ n + 1 \in 1 .. Len(a) /\ n <= Len(a) /\ Len(a) \in Nat
    BY DEF Counts
  <2>2. PICK x \in Nat, y \in Nat : x = Requests!Chars(a[n + 1]) /\ y = Requests!Chars(b[n + 1])
    BY <2>1 DEF Counts
  <2>3. u[n + 1] = u[n] + x /\ v[n + 1] = v[n] + y /\ u[n] \in Nat /\ v[n] \in Nat
    BY <2>1, <2>2 DEF Sums, SumsTo
  <2>4. v[n] = IF n < k THEN u[n] ELSE u[n] - c + d
    BY <1>3, <2>1
  <2>5. CASE n + 1 = k
    BY <1>1, <2>2, <2>3, <2>4, <2>5
  <2>6. CASE n + 1 # k
    <3>1. x = y
      BY <2>1, <2>2, <2>6
    <3>. QED
      BY <2>3, <2>4, <2>6, <3>1
  <2>. QED
    BY <2>5, <2>6
<1> HIDE DEF T
<1>4. \A n \in Nat : n \in T
  BY <1>2, <1>3, AllOf
<1>5. Len(a) \in T /\ Len(a) \in Nat
  BY <1>4 DEF Counts
<1>6. v[Len(a)] = u[Len(a)] - c + d
  BY <1>5 DEF T
<1>. QED
  BY <1>1, <1>6

(* The sum of at most n numbers, each an n-th of the limit.                *)
LEMMA SmallSum ==
  ASSUME NEW a, Counts(a), NEW u, Sums(u, a), NEW most \in Nat, Len(a) <= most, NEW h \in Nat,
         \A i \in 1 .. Len(a) : most * Requests!Chars(a[i]) <= h
  PROVE  most * u[Len(a)] <= Len(a) * h
<1> DEFINE T == {n \in Nat : n <= Len(a) => most * u[n] <= n * h}
<1>1. 0 \in T
  BY DEF Sums, SumsTo
<1>2. ASSUME NEW n \in Nat, n \in T PROVE n + 1 \in T
  <2>. SUFFICES ASSUME n + 1 <= Len(a) PROVE most * u[n + 1] <= (n + 1) * h
    OBVIOUS
  <2>1. n \in 0 .. Len(a) - 1 /\ n + 1 \in 1 .. Len(a) /\ n <= Len(a)
    BY DEF Counts
  <2>2. PICK c \in Nat : c = Requests!Chars(a[n + 1])
    BY <2>1 DEF Counts
  <2>3. PICK x \in Nat : x = u[n]
    BY <2>1 DEF Sums, SumsTo
  <2>4. u[n + 1] = x + c
    BY <2>1, <2>2, <2>3 DEF Sums, SumsTo
  <2>5. most * x <= n * h /\ most * c <= h
    BY <1>2, <2>1, <2>2, <2>3
  <2>6. most * (x + c) = most * x + most * c /\ (n + 1) * h = n * h + h
    OBVIOUS
  <2>7. most * x \in Nat /\ most * c \in Nat /\ n * h \in Nat
    OBVIOUS
  <2>. QED
    BY <2>4, <2>5, <2>6, <2>7
<1> HIDE DEF T
<1>3. \A n \in Nat : n \in T
  BY <1>1, <1>2, AllOf
<1>. QED
  BY <1>3 DEF T, Counts

(* The model's estimate is the last of these sums.                         *)
LEMMA EstimateIs == ASSUME NEW ms, Counts(ms) PROVE \E u : Sums(u, ms) /\ Requests!Estimate(ms) = u[Len(ms)]
<1> DEFINE upto[n \in 0 .. Len(ms)] == IF n = 0 THEN 0 ELSE upto[n - 1] + Requests!Chars(ms[n])
<1>1. PICK u : Sums(u, ms)
  BY SumsExist
<1>2. u = [n \in 0 .. Len(ms) |-> IF n = 0 THEN 0 ELSE u[n - 1] + Requests!Chars(ms[n])]
  <2>1. ASSUME NEW n \in 0 .. Len(ms) PROVE u[n] = IF n = 0 THEN 0 ELSE u[n - 1] + Requests!Chars(ms[n])
    <3>1. CASE n # 0
      <4>1. n - 1 \in 0 .. Len(ms) - 1 /\ (n - 1) + 1 = n
        BY <3>1 DEF Counts
      <4>. QED
        BY <1>1, <3>1, <4>1 DEF Sums, SumsTo
    <3>. QED
      BY <1>1, <3>1 DEF Sums, SumsTo
  <2>. QED
    BY <1>1, <2>1 DEF Sums, SumsTo
<1>3. upto = [n \in 0 .. Len(ms) |-> IF n = 0 THEN 0 ELSE upto[n - 1] + Requests!Chars(ms[n])]
  BY <1>2, Zenon
<1>4. Requests!Estimate(ms) = upto[Len(ms)]
  BY DEF Requests!Estimate
<1> HIDE DEF upto
<1> DEFINE T == {n \in Nat : n <= Len(ms) => upto[n] = u[n]}
<1>5. 0 \in T
  <2>1. 0 \in 0 .. Len(ms)
    BY DEF Counts
  <2>. QED
    BY <1>1, <1>3, <2>1 DEF Sums, SumsTo
<1>6. ASSUME NEW n \in Nat, n \in T PROVE n + 1 \in T
  <2>. SUFFICES ASSUME n + 1 <= Len(ms) PROVE upto[n + 1] = u[n + 1]
    OBVIOUS
  <2>1. n <= Len(ms) /\ n + 1 \in 0 .. Len(ms) /\ n + 1 # 0 /\ (n + 1) - 1 = n
    BY DEF Counts
  <2>. QED
    BY <1>2, <1>3, <1>6, <2>1
<1> HIDE DEF T
<1>7. \A n \in Nat : n \in T
  BY <1>5, <1>6, AllOf
<1>8. upto[Len(ms)] = u[Len(ms)]
  BY <1>7 DEF T, Counts
<1>. QED
  BY <1>1, <1>4, <1>8

(***************************************************************************)
(* What is known of a conversation, and of its copy while it is cut: from  *)
(* the start as it was, then at most one message cut in two, then none of  *)
(* more than a notice.                                                     *)
(***************************************************************************)
Said == [role : Requests!Role, len : Nat]
Sent == [role : Requests!Role, len : Nat, form : Requests!Forms]

TalkGrows ==
    /\ dialogue.tries \in 0 .. 3 /\ round \in Nat
    /\ talk \in Seq(Said)
    /\ turn = "idle" => round = 0
    /\ turn \in {"copy", "shrink", "wait"} => round < dialogue.tries /\ Len(talk) <= 2 + 2 * round

Cleared(m) == (m.form = "notice" /\ m.len = NoticeLen) \/ m.len = 0
CopyShrinks ==
    turn = "shrink" =>
        /\ prompt \in Seq(Sent) /\ Len(prompt) = Len(talk) /\ upTo \in 0 .. Len(prompt)
        /\ \A i \in 1 .. upTo : prompt[i] = Requests!Whole(talk[i])
        /\ \A i \in upTo + 1 .. Len(prompt) :
              \/ Cleared(prompt[i])
              \/ prompt[i].form = "cut" /\ i = upTo + 1 /\ Requests!Estimate(prompt) = HardLimit - Spare
        /\ Requests!Estimate(talk) <= HardLimit => upTo = Len(prompt)

RequestInv == TalkGrows /\ CopyShrinks /\ RequestsFit

LEMMA Limits ==
  /\ NoticeLen \in Nat /\ Spare \in Nat /\ HardLimit \in Nat /\ FeedbackLen \in Nat
  /\ Lengths \subseteq Nat /\ RoleLen \in [Requests!Role -> Nat] /\ MaxRequests \in Nat \ {0}
  /\ \A r \in Requests!Role : 8 * (RoleLen[r] + NoticeLen) <= HardLimit
  BY RequestLimits DEF Requests!LimitsAssumption, Requests!MostMessages

LEMMA Countable ==
  ASSUME NEW ms, ms \in Seq(Said) \/ ms \in Seq(Sent)
  PROVE  Counts(ms)
<1>1. ASSUME NEW i \in 1 .. Len(ms) PROVE Requests!Chars(ms[i]) \in Nat
  <2>. PICK m : m = ms[i]
    OBVIOUS
  <2>0. m \in Said \/ m \in Sent
    OBVIOUS
  <2>1. ms[i].role \in Requests!Role /\ ms[i].len \in Nat
    BY <2>0 DEF Said, Sent
  <2>2. RoleLen[ms[i].role] \in Nat
    BY <2>1, Limits
  <2>. QED
    BY <2>1, <2>2 DEF Requests!Chars
<1>2. Len(ms) \in Nat
  OBVIOUS
<1>. QED
  BY <1>1, <1>2 DEF Counts

LEMMA EstimateIsNat == ASSUME NEW ms, Counts(ms) PROVE Requests!Estimate(ms) \in Nat
<1>1. PICK u : Sums(u, ms) /\ Requests!Estimate(ms) = u[Len(ms)]
  BY EstimateIs
<1>. QED
  BY <1>1 DEF Sums, SumsTo, Counts

(* A copy of which nothing is cut yet is as long as the conversation.      *)
LEMMA WholeIsAsLong ==
  ASSUME NEW ms \in Seq(Said), NEW p \in Seq(Sent), Len(p) = Len(ms),
         \A i \in 1 .. Len(ms) : p[i] = Requests!Whole(ms[i])
  PROVE  Requests!Estimate(p) = Requests!Estimate(ms)
<1>1. Counts(ms) /\ Counts(p)
  BY Countable
<1>2. PICK u : Sums(u, ms) /\ Requests!Estimate(ms) = u[Len(ms)]
  BY <1>1, EstimateIs
<1>3. PICK v : Sums(v, p) /\ Requests!Estimate(p) = v[Len(p)]
  BY <1>1, EstimateIs
<1>4. ASSUME NEW i \in 1 .. Len(ms) PROVE Requests!Chars(ms[i]) = Requests!Chars(p[i])
  <2>1. p[i] = Requests!Whole(ms[i])
    OBVIOUS
  <2>2. p[i].role = ms[i].role /\ p[i].len = ms[i].len
    BY <2>1 DEF Requests!Whole
  <2>. QED
    BY <2>2 DEF Requests!Chars
<1>. QED
  BY <1>1, <1>2, <1>3, <1>4, SumsAgree

LEMMA UpToEight == ASSUME NEW n \in Nat, n <= 8, NEW h \in Nat PROVE n * h <= 8 * h
<1>1. n = 0 \/ n = 1 \/ n = 2 \/ n = 3 \/ n = 4 \/ n = 5 \/ n = 6 \/ n = 7 \/ n = 8
  OBVIOUS
<1>. QED
  BY <1>1

(* Notices fit, as many as there may be messages.                          *)
LEMMA NoticesFit ==
  ASSUME NEW p \in Seq(Sent), Len(p) <= 8, \A i \in 1 .. Len(p) : Cleared(p[i])
  PROVE  Requests!Estimate(p) <= HardLimit
<1>1. Counts(p)
  BY Countable
<1>2. PICK u : Sums(u, p) /\ Requests!Estimate(p) = u[Len(p)]
  BY <1>1, EstimateIs
<1>3. ASSUME NEW i \in 1 .. Len(p) PROVE 8 * Requests!Chars(p[i]) <= HardLimit
  <2>0. p[i] \in Sent /\ Cleared(p[i])
    OBVIOUS
  <2>1. p[i].role \in Requests!Role /\ p[i].len \in Nat
    BY <2>0 DEF Sent
  <2>2. p[i].len <= NoticeLen
    BY <2>0, <2>1, Limits DEF Cleared
  <2>3. RoleLen[p[i].role] \in Nat /\ 8 * (RoleLen[p[i].role] + NoticeLen) <= HardLimit
    BY <2>1, Limits
  <2>. QED
    BY <2>1, <2>2, <2>3, Limits DEF Requests!Chars
<1>4. 8 * u[Len(p)] <= Len(p) * HardLimit
  BY <1>1, <1>2, <1>3, Limits, SmallSum
<1>5. Len(p) \in Nat /\ HardLimit \in Nat
  BY <1>1, Limits DEF Counts
<1>6. Len(p) * HardLimit <= 8 * HardLimit
  BY <1>5, UpToEight
<1>7. u[Len(p)] \in Nat
  BY <1>1, <1>2, EstimateIsNat
<1>. QED
  BY <1>2, <1>4, <1>5, <1>6, <1>7

SameBut(a, b, k) == Len(b) = Len(a) /\ k \in 1 .. Len(a) /\ \A i \in 1 .. Len(a) : i # k => b[i] = a[i]

LEMMA EstimateMoves ==
  ASSUME NEW a, NEW b, Counts(a), Counts(b), NEW k, SameBut(a, b, k)
  PROVE  Requests!Estimate(b) = Requests!Estimate(a) - Requests!Chars(a[k]) + Requests!Chars(b[k])
<1>1. PICK u : Sums(u, a) /\ Requests!Estimate(a) = u[Len(a)]
  BY EstimateIs
<1>2. PICK v : Sums(v, b) /\ Requests!Estimate(b) = v[Len(b)]
  BY EstimateIs
<1>3. /\ Len(a) = Len(b) /\ k \in 1 .. Len(a) /\ \A i \in 1 .. Len(a) : i # k => a[i] = b[i]
      /\ Sums(u, a) /\ Sums(v, b)
  BY <1>1, <1>2 DEF SameBut
<1>4. v[Len(b)] = u[Len(a)] - Requests!Chars(a[k]) + Requests!Chars(b[k])
  BY <1>3, OneChanged
<1>. QED
  BY <1>1, <1>2, <1>4

(* What a cut does: the message loses the overflow, or becomes a notice.   *)
CutAt(p, k) == [p EXCEPT ![k] = Requests!Cut(p[k], Requests!Estimate(p))]

LEMMA CutIs ==
  ASSUME NEW p \in Seq(Sent), NEW k \in 1 .. Len(p), NEW q, q = CutAt(p, k)
  PROVE  /\ q \in Seq(Sent) /\ SameBut(p, q, k)
         /\ \/ Cleared(q[k])
            \/ q[k].form = "cut" /\ Requests!Estimate(q) = HardLimit - Spare
<1>1. Counts(p) /\ p[k] \in Sent
  BY Countable
<1>2. PICK e \in Nat : e = Requests!Estimate(p)
  BY <1>1, EstimateIsNat
<1>3. PICK o \in Int : o = e - HardLimit + NoticeLen + Spare
  BY <1>2, Limits
<1>4. Requests!Cut(p[k], e) =
        IF p[k].len - o > 0 THEN [p[k] EXCEPT !.len = (p[k].len - o) + NoticeLen, !.form = "cut"]
        ELSE [p[k] EXCEPT !.len = NoticeLen, !.form = "notice"]
  BY <1>3 DEF Requests!Cut, Requests!Overflow
<1>5. PICK c : c = Requests!Cut(p[k], e)
  OBVIOUS
<1>6. /\ c \in Sent /\ c.role = p[k].role
      /\ \/ c.form = "notice" /\ c.len = NoticeLen
         \/ c.form = "cut" /\ c.len = (p[k].len - o) + NoticeLen
  <2>1. CASE p[k].len - o > 0
    <3>1. c = [p[k] EXCEPT !.len = (p[k].len - o) + NoticeLen, !.form = "cut"]
      BY <1>4, <1>5, <2>1
    <3>0. p[k].len \in Nat /\ NoticeLen \in Nat
      BY <1>1, Limits DEF Sent
    <3>2. (p[k].len - o) + NoticeLen \in Nat
      BY <1>3, <2>1, <3>0
    <3>. QED
      BY <1>1, <3>1, <3>2 DEF Sent, Requests!Forms
  <2>2. CASE ~(p[k].len - o > 0)
    <3>1. c = [p[k] EXCEPT !.len = NoticeLen, !.form = "notice"]
      BY <1>4, <1>5, <2>2
    <3>. QED
      BY <1>1, <3>1, Limits DEF Sent, Requests!Forms
  <2>. QED
    BY <2>1, <2>2
<1>7. q = [p EXCEPT ![k] = c]
  BY <1>2, <1>5 DEF CutAt
<1>8. q \in Seq(Sent) /\ q[k] = c /\ SameBut(p, q, k)
  BY <1>6, <1>7 DEF SameBut
<1>9. CASE c.form = "cut" /\ c.len = (p[k].len - o) + NoticeLen
  <2>1. Counts(q)
    BY <1>8, Countable
  <2>4. Requests!Estimate(q) = Requests!Estimate(p) - Requests!Chars(p[k]) + Requests!Chars(q[k])
    BY <1>1, <1>8, <2>1, EstimateMoves
  <2>5. PICK r \in Nat, n \in Nat : r = RoleLen[p[k].role] /\ n = p[k].len
    BY <1>1, Limits DEF Sent
  <2>6. Requests!Chars(p[k]) = r + n /\ Requests!Chars(q[k]) = r + ((n - o) + NoticeLen)
    BY <1>6, <1>8, <1>9, <2>5 DEF Requests!Chars
  <2>7. Requests!Estimate(q) = e - (r + n) + (r + ((n - o) + NoticeLen))
    BY <1>2, <2>4, <2>6
  <2>8. Requests!Estimate(q) = HardLimit - Spare
    BY <1>3, <2>7, Limits
  <2>. QED
    BY <1>8, <1>9, <2>8
<1>. QED
  BY <1>6, <1>8, <1>9 DEF Cleared

(***************************************************************************)
(* The steps.                                                              *)
(***************************************************************************)
LEMMA DialogueTries == ASSUME NEW d \in Requests!Dialogues PROVE d.tries \in 1 .. 3
<1>. USE DEF Requests!Dialogue, Requests!Once
<1>2. Requests!SuggestWithTaint.tries = 3 /\ Requests!SuggestWithoutTaint.tries = 3
  BY DEF Requests!SuggestWithTaint, Requests!SuggestWithoutTaint
<1>3. Requests!MutateScript.tries = 1 /\ Requests!SeedTargetedScript.tries = 3
  BY DEF Requests!MutateScript, Requests!SeedTargetedScript
<1>4. Requests!TextMutationPlan.tries = 3 /\ Requests!DirectText.tries = 3 /\ Requests!DirectPlan.tries = 3
  BY DEF Requests!TextMutationPlan, Requests!DirectText, Requests!DirectPlan
<1>5. Requests!GenerateScript.tries = 3 /\ Requests!Analysis.tries = 3 /\ Requests!JsonObject.tries = 3
  BY DEF Requests!GenerateScript, Requests!Analysis, Requests!JsonObject
<1>6. Requests!SolveWithFlags.tries = 1 /\ Requests!Chat.tries = 1 /\ Requests!Advice.tries = 1
  BY DEF Requests!SolveWithFlags, Requests!Chat, Requests!Advice
<1>7. d.tries = 3 \/ d.tries = 1
  BY <1>2, <1>3, <1>4, <1>5, <1>6, Zenon DEF Requests!Dialogues
<1>. QED
  BY <1>7

LEMMA InitRequests == Requests!Init => RequestInv
<1>1. Requests!Idle.tries = 0
  BY DEF Requests!Idle, Requests!Dialogue
<1>. QED
  BY <1>1 DEF Requests!Init, RequestInv, TalkGrows, CopyShrinks, RequestsFit, Requests!RequestsFit

LEMMA BeginRequest ==
  ASSUME RequestInv, turn = "idle", NEW d \in Requests!Dialogues, NEW system \in Lengths, NEW user \in Lengths,
         Requests!Begin(d, system, user)
  PROVE  RequestInv'
<1>1. /\ turn' = "copy" /\ dialogue' = d /\ round' = 0 /\ d.tries \in 1 .. 3
      /\ talk' = <<Requests!Msg("system", system), Requests!Msg("user", user)>>
  BY DialogueTries DEF Requests!Begin, RequestInv, TalkGrows
<1>2. ASSUME NEW r \in Requests!Role, NEW n \in Lengths PROVE Requests!Msg(r, n) \in Said
  BY Limits DEF Requests!Msg, Said
<1>3. "system" \in Requests!Role /\ "user" \in Requests!Role
  BY DEF Requests!Role
<1>4. talk' \in Seq(Said) /\ Len(talk') = 2
  BY <1>1, <1>2, <1>3
<1>. QED
  BY <1>1, <1>4 DEF RequestInv, TalkGrows, CopyShrinks, RequestsFit, Requests!RequestsFit

LEMMA CopyRequest == ASSUME RequestInv, Requests!Copy PROVE RequestInv'
<1>1. /\ turn = "copy" /\ turn' = "shrink" /\ UNCHANGED <<dialogue, talk, round>>
      /\ prompt' = [i \in DOMAIN talk |-> Requests!Whole(talk[i])] /\ upTo' = Len(talk) /\ talk \in Seq(Said)
  BY DEF Requests!Copy, RequestInv, TalkGrows
<1>2. \A m \in Said : Requests!Whole(m) \in Sent
  BY DEF Requests!Whole, Said, Sent, Requests!Forms
<1>3. PICK p : p = prompt'
  OBVIOUS
<1>4. p \in Seq(Sent) /\ Len(p) = Len(talk) /\ \A i \in 1 .. Len(talk) : p[i] = Requests!Whole(talk[i])
  BY <1>1, <1>2, <1>3
<1>5. TalkGrows'
  BY <1>1 DEF RequestInv, TalkGrows
<1>6. CopyShrinks'
  BY <1>1, <1>3, <1>4 DEF CopyShrinks
<1>7. RequestsFit'
  BY <1>1 DEF RequestsFit, Requests!RequestsFit
<1>. QED
  BY <1>5, <1>6, <1>7 DEF RequestInv

LEMMA ShrinkRequest == ASSUME RequestInv, Requests!Shrink PROVE RequestInv'
<1>1. /\ turn = "shrink" /\ UNCHANGED <<dialogue, talk, round>> /\ talk \in Seq(Said)
      /\ Len(talk) <= 8 /\ turn' \in {"shrink", "wait"}
  BY DEF Requests!Shrink, RequestInv, TalkGrows
<1>2. /\ prompt \in Seq(Sent) /\ Len(prompt) = Len(talk) /\ upTo \in 0 .. Len(prompt)
      /\ \A i \in 1 .. upTo : prompt[i] = Requests!Whole(talk[i])
      /\ \A i \in upTo + 1 .. Len(prompt) :
            \/ Cleared(prompt[i])
            \/ prompt[i].form = "cut" /\ i = upTo + 1 /\ Requests!Estimate(prompt) = HardLimit - Spare
      /\ Requests!Estimate(talk) <= HardLimit => upTo = Len(prompt)
  BY <1>1 DEF RequestInv, CopyShrinks
<1>3. Requests!Estimate(prompt) \in Nat /\ Requests!Estimate(talk) \in Nat
  BY <1>1, <1>2, Countable, EstimateIsNat
<1>4. TalkGrows'
  BY <1>1 DEF RequestInv, TalkGrows
<1>5. CASE Requests!Estimate(prompt) <= HardLimit \/ upTo = 0
  <2>1. turn' = "wait" /\ UNCHANGED <<prompt, upTo>>
    BY <1>5 DEF Requests!Shrink
  <2>2. Requests!Estimate(prompt) <= HardLimit
    <3>1. CASE upTo = 0 /\ ~(Requests!Estimate(prompt) <= HardLimit)
      <4>1. Requests!Estimate(prompt) # HardLimit - Spare
        BY <1>3, <3>1, Limits
      <4>2. \A i \in 1 .. Len(prompt) : Cleared(prompt[i])
        BY <1>2, <3>1, <4>1
      <4>. QED
        BY <1>1, <1>2, <4>2, NoticesFit
    <3>. QED
      BY <1>5, <3>1
  <2>3. upTo \in 0 .. Len(prompt) /\ \A i \in 1 .. upTo : prompt[i] = Requests!Whole(talk[i])
    BY <1>2
  <2>4. \A i \in upTo + 1 .. Len(prompt) :
            \/ prompt[i].form = "notice" \/ prompt[i].len = 0
            \/ prompt[i].form = "cut" /\ i = upTo + 1 /\ Requests!Estimate(prompt) = HardLimit - Spare
    BY <1>2 DEF Cleared
  <2>5. Requests!Estimate(talk) <= HardLimit => \A i \in DOMAIN prompt : prompt[i].form = "whole"
    <3>1. ASSUME NEW i \in DOMAIN prompt, Requests!Estimate(talk) <= HardLimit PROVE prompt[i].form = "whole"
      <4>1. prompt[i] = Requests!Whole(talk[i])
        BY <1>2, <3>1
      <4>. QED
        BY <4>1 DEF Requests!Whole
    <3>. QED
      BY <3>1
  <2>6. RequestsFit'
    BY <1>1, <1>2, <2>1, <2>2, <2>3, <2>4, <2>5 DEF RequestsFit, Requests!RequestsFit
  <2>. QED
    BY <1>4, <2>1, <2>6 DEF RequestInv, CopyShrinks
<1>6. CASE ~(Requests!Estimate(prompt) <= HardLimit \/ upTo = 0)
  <2>1. /\ turn' = "shrink" /\ upTo' = upTo - 1
        /\ prompt' = IF prompt[upTo].len = 0 THEN prompt
                     ELSE [prompt EXCEPT ![upTo] = Requests!Cut(prompt[upTo], Requests!Estimate(prompt))]
    BY <1>1, <1>6 DEF Requests!Shrink
  <2>2. upTo \in 1 .. Len(prompt)
    BY <1>2, <1>6
  <2>3. \A i \in upTo + 1 .. Len(prompt) : Cleared(prompt[i])
    BY <1>2, <1>3, <1>6, Limits
  <2>4. ~(Requests!Estimate(talk) <= HardLimit)
    <3>. SUFFICES ASSUME Requests!Estimate(talk) <= HardLimit PROVE FALSE
      OBVIOUS
    <3>1. \A i \in 1 .. Len(talk) : prompt[i] = Requests!Whole(talk[i])
      BY <1>2
    <3>2. Requests!Estimate(prompt) = Requests!Estimate(talk)
      BY <1>1, <1>2, <3>1, WholeIsAsLong
    <3>. QED
      BY <1>6, <3>2
  <2>5. PICK q : q = prompt'
    OBVIOUS
  <2>6. /\ q \in Seq(Sent) /\ Len(q) = Len(prompt) /\ \A i \in 1 .. Len(prompt) : i # upTo => q[i] = prompt[i]
        /\ \/ Cleared(q[upTo])
           \/ q[upTo].form = "cut" /\ Requests!Estimate(q) = HardLimit - Spare
    <3>1. CASE prompt[upTo].len = 0
      BY <1>2, <2>1, <2>5, <3>1 DEF Cleared
    <3>2. CASE prompt[upTo].len # 0
      <4>1. q = CutAt(prompt, upTo)
        BY <2>1, <2>5, <3>2 DEF CutAt
      <4>2. prompt \in Seq(Sent)
        BY <1>2
      <4>3. q \in Seq(Sent) /\ SameBut(prompt, q, upTo)
            /\ (Cleared(q[upTo]) \/ (q[upTo].form = "cut" /\ Requests!Estimate(q) = HardLimit - Spare))
        BY <2>2, <4>1, <4>2, CutIs
      <4>. QED
        BY <4>3 DEF SameBut
    <3>. QED
      BY <3>1, <3>2
  <2>7. \A i \in 1 .. upTo - 1 : q[i] = Requests!Whole(talk[i])
    BY <1>2, <2>2, <2>6
  <2>8. \A i \in (upTo - 1) + 1 .. Len(q) :
            \/ Cleared(q[i])
            \/ q[i].form = "cut" /\ i = (upTo - 1) + 1 /\ Requests!Estimate(q) = HardLimit - Spare
    BY <1>2, <2>2, <2>3, <2>6
  <2>9. CopyShrinks'
    BY <1>1, <1>2, <2>1, <2>2, <2>4, <2>5, <2>6, <2>7, <2>8 DEF CopyShrinks
  <2>10. RequestsFit'
    BY <2>1 DEF RequestsFit, Requests!RequestsFit
  <2>. QED
    BY <1>4, <2>9, <2>10 DEF RequestInv
<1>. QED
  BY <1>5, <1>6

LEMMA SameRequest == ASSUME RequestInv, UNCHANGED <<turn, dialogue, talk, prompt, upTo, round>> PROVE RequestInv'
<1>1. TalkGrows'
  BY DEF RequestInv, TalkGrows
<1>2. CopyShrinks'
  BY DEF RequestInv, CopyShrinks
<1>3. RequestsFit'
  BY DEF RequestInv, RequestsFit, Requests!RequestsFit
<1>. QED
  BY <1>1, <1>2, <1>3 DEF RequestInv

LEMMA AnswerRequest ==
  ASSUME RequestInv, NEW r \in Requests!Reply, NEW n \in Requests!ReplyLengths(r), Requests!Answer(r, n)
  PROVE  RequestInv'
<1>1. /\ turn = "wait" /\ UNCHANGED dialogue /\ dialogue.tries \in 0 .. 3 /\ round \in Nat
      /\ talk \in Seq(Said) /\ Len(talk) <= 2 + 2 * round
  BY DEF Requests!Answer, RequestInv, TalkGrows
<1>2. \/ turn' = "over" /\ UNCHANGED talk /\ round' \in {round, round + 1}
      \/ turn' = "over" /\ talk' = Requests!Told(n) /\ round' = round + 1
      \/ turn' = "copy" /\ talk' \in {talk, Requests!Told(n)} /\ round' = round + 1 /\ round + 1 < dialogue.tries
  BY DEF Requests!Answer, Requests!End, Requests!Unusable
<1>3. Requests!Told(n) \in Seq(Said) /\ Len(Requests!Told(n)) = Len(talk) + 2
  <2>1. n \in Nat /\ FeedbackLen \in Nat
    BY Limits DEF Requests!ReplyLengths
  <2>2. <<Requests!Msg("assistant", n), Requests!Msg("user", FeedbackLen)>> \in Seq(Said)
    BY <2>1 DEF Requests!Msg, Said, Requests!Role
  <2>3. Len(<<Requests!Msg("assistant", n), Requests!Msg("user", FeedbackLen)>>) = 2
    OBVIOUS
  <2>. QED
    BY <1>1, <2>2, <2>3 DEF Requests!Told
<1>4. TalkGrows'
  BY <1>1, <1>2, <1>3 DEF TalkGrows
<1>5. turn' \in {"over", "copy"}
  BY <1>2
<1>. QED
  BY <1>4, <1>5 DEF RequestInv, CopyShrinks, RequestsFit, Requests!RequestsFit

LEMMA NextRequests ==
  ASSUME RequestInv, [Requests!Next]_Requests!llmVars
  PROVE  RequestInv'
<1>1. ASSUME turn = "idle", NEW d \in Requests!Dialogues, NEW system \in Lengths, NEW user \in Lengths,
             Requests!Begin(d, system, user)
      PROVE  RequestInv'
  BY <1>1, BeginRequest
<1>2. CASE Requests!Copy
  BY <1>2, CopyRequest
<1>3. CASE Requests!Shrink
  BY <1>3, ShrinkRequest
<1>4. CASE Requests!Repeat
  BY <1>4, SameRequest DEF Requests!Repeat
<1>5. ASSUME NEW r \in Requests!Reply, NEW n \in Requests!ReplyLengths(r), Requests!Answer(r, n)
      PROVE  RequestInv'
  BY <1>5, AnswerRequest
<1>6. CASE UNCHANGED Requests!llmVars
  BY <1>6, SameRequest DEF Requests!llmVars
<1>. QED
  BY <1>1, <1>2, <1>3, <1>4, <1>5, <1>6, Zenon DEF Requests!Next

(* Whatever the lengths of prompts, replies and corrections, a request is  *)
(* sent only when it fits, and is cut from the end                         *)
(* (_shrink_messages_to_limit, append_llm_retry_feedback).                 *)
THEOREM RequestsAlwaysFit == Requests!Spec => []RequestsFit
<1>1. RequestInv => RequestsFit
  BY DEF RequestInv
<1>. QED
  BY <1>1, InitRequests, NextRequests, PTL DEF Requests!Spec, Requests!llmVars, llmVars

(***************************************************************************)
(* Runs of seeds.  Files come and go, and names are used again: what is    *)
(* known is that a trace in the cache is of a seed that once had its name. *)
(***************************************************************************)
HitBy(r) == {f \in ever : Trace[f][r].hit}
HitRecord == {[name |-> f.name, functions |-> Trace[f][of_rb].functions] : f \in HitBy(of_rb)}
HitName == {f.name : f \in HitBy(of_rb)}

SummariesTell ==
    \A k \in DOMAIN summaries :
        \E r \in Rb, f \in ever :
            k = Evidence!Key(r, f.name) /\ summaries[k] \in {Evidence!Shows(f, r), Evidence!CutShort}

SlicesTell ==
    \A k \in DOMAIN autoslices :
        \E r \in Rb, f \in ever : k = Evidence!Key(r, f.name) /\ autoslices[k] = Evidence!Slice(r, f)

Underway ==
    /\ scan \in {"idle", "look", "rank", "replay", "built"}
    /\ scan # "idle" => of_rb \in Rb
    /\ scan = "look" => paths \in Seq(Name)
    /\ scan = "rank" => paths \in Seq(ever)
    /\ scan \in {"replay", "built"} => paths \in Seq(HitName)
    /\ hits \in Seq(HitRecord)

ContextTells ==
    /\ DOMAIN context = {"functions", "seed", "slice"}
    /\ scan \in {"idle", "look", "rank"} => context = Evidence!NoContext
    /\ scan = "replay" => context.slice = {}
    /\ EvidenceHits

EvidenceInv ==
    present \subseteq ever /\ ever \subseteq Evidence!File /\ Underway /\ SummariesTell /\ SlicesTell /\ ContextTells

LEMMA InitEvidence == Evidence!Init => EvidenceInv
  BY DEF Evidence!Init, Evidence!NoContext, EvidenceInv, Underway, SummariesTell, SlicesTell, ContextTells,
     EvidenceHits, Evidence!EvidenceHits

(* What is found by a name is there, under a name that begins as it.       *)
LEMMA FoundBegins ==
  ASSUME NEW n \in Name, NEW f \in Evidence!Resolve(n)
  PROVE  f \in present /\ <<StemOf[n], StemOf[f.name]>> \in Begins
<1>1. CASE Evidence!Direct(n) # {}
  <2>1. f \in Evidence!Direct(n)
    BY <1>1 DEF Evidence!Resolve
  <2>2. f \in present /\ f.name = n
    BY <2>1 DEF Evidence!Direct
  <2>. QED
    BY <2>2, EvidenceInputs DEF Evidence!EvidenceAssumption
<1>2. CASE Evidence!Direct(n) = {}
  <2>1. PICK d : f \in Evidence!FirstOf(Evidence!Like(n, d))
    BY <1>2 DEF Evidence!Resolve
  <2>. QED
    BY <2>1 DEF Evidence!FirstOf, Evidence!Like
<1>. QED
  BY <1>1, <1>2

(* A seed under the name of the one that is found for a hit hits as well,  *)
(* or the hit's name is doubtful.                                          *)
LEMMA TakenFor ==
  ASSUME EvidenceInv, NEW n \in HitName, NEW f \in Evidence!Resolve(n), NEW g \in ever, g.name = f.name
  PROVE  Trace[g][of_rb].hit \/ Evidence!Doubtful(n)
<1>1. PICK x \in ever : x.name = n /\ Trace[x][of_rb].hit
  BY DEF HitName, HitBy
<1>2. n \in Name
  BY <1>1 DEF EvidenceInv, Evidence!File
<1>3. <<StemOf[n], StemOf[g.name]>> \in Begins
  BY <1>2, FoundBegins
<1>4. <<StemOf[n], StemOf[x.name]>> \in Begins
  BY <1>1, <1>2, EvidenceInputs DEF Evidence!EvidenceAssumption
<1>5. g \in Evidence!Begun(n) /\ x \in Evidence!Begun(n)
  BY <1>1, <1>3, <1>4 DEF Evidence!Begun
<1>. QED
  BY <1>1, <1>5 DEF Evidence!Doubtful

(* The seeds there have been are only added to.                            *)
LEMMA DoubtStays == ASSUME ever \subseteq ever', NEW n, Evidence!Doubtful(n) PROVE Evidence!Doubtful(n)'
  BY DEF Evidence!Doubtful, Evidence!Begun

LEMMA HitsStay ==
  ASSUME ever \subseteq ever', of_rb' = of_rb
  PROVE  HitRecord \subseteq HitRecord' /\ HitName \subseteq HitName' /\ HitBy(of_rb) \subseteq HitBy(of_rb)'
  BY DEF HitRecord, HitName, HitBy

LEMMA ContextStays ==
  ASSUME ContextTells, ever \subseteq ever', UNCHANGED <<scan, of_rb, paths, hits, context>>
  PROVE  ContextTells'
<1>1. \A n : Evidence!Doubtful(n) => Evidence!Doubtful(n)'
  BY DoubtStays
<1>. QED
  BY <1>1 DEF ContextTells, EvidenceHits, Evidence!EvidenceHits, Evidence!NoContext, Evidence!Range

LEMMA CachesStay ==
  ASSUME SummariesTell, SlicesTell, ever \subseteq ever', UNCHANGED <<summaries, autoslices>>
  PROVE  SummariesTell' /\ SlicesTell'
  BY DEF SummariesTell, SlicesTell, Evidence!Key, Evidence!Shows, Evidence!CutShort, Evidence!Slice

LEMMA EmptyContext ==
  ASSUME context' = Evidence!NoContext PROVE EvidenceHits' /\ DOMAIN context' = {"functions", "seed", "slice"}
  BY DEF Evidence!NoContext, EvidenceHits, Evidence!EvidenceHits

(***************************************************************************)
(* The steps.                                                              *)
(***************************************************************************)
LEMMA DiskChanges ==
  ASSUME EvidenceInv, ever \subseteq ever', present' \subseteq ever', ever' \subseteq Evidence!File,
         UNCHANGED <<scan, of_rb, paths, hits, context, summaries, autoslices>>
  PROVE  EvidenceInv'
<1>1. Underway'
  <2>1. HitRecord \subseteq HitRecord' /\ HitName \subseteq HitName'
    BY HitsStay
  <2>. QED
    BY <2>1 DEF EvidenceInv, Underway
<1>2. SummariesTell' /\ SlicesTell'
  BY CachesStay DEF EvidenceInv
<1>3. ContextTells'
  BY ContextStays DEF EvidenceInv
<1>. QED
  BY <1>1, <1>2, <1>3 DEF EvidenceInv

LEMMA LocateTells == ASSUME EvidenceInv, Evidence!Locate PROVE EvidenceInv'
<1>1. /\ scan = "look" /\ scan' = "rank"
      /\ UNCHANGED <<of_rb, hits, context, present, ever, summaries, autoslices>>
  BY DEF Evidence!Locate, Evidence!caches, Evidence!disk
<1>2. paths' \in Seq(present)
  <2>1. PICK n \in 0 .. Len(paths) : paths' \in [1 .. n -> present]
    BY Zenon DEF Evidence!Locate
  <2>2. Len(paths) \in Nat
    BY <1>1 DEF EvidenceInv, Underway
  <2>. QED
    BY <2>1, <2>2
<1>3. HitRecord' = HitRecord
  BY <1>1 DEF HitRecord, HitBy
<1>4. Underway'
  BY <1>1, <1>2, <1>3 DEF EvidenceInv, Underway
<1>5. SummariesTell' /\ SlicesTell'
  BY <1>1, CachesStay DEF EvidenceInv
<1>6. ContextTells'
  BY <1>1, EmptyContext DEF EvidenceInv, ContextTells
<1>. QED
  BY <1>1, <1>4, <1>5, <1>6 DEF EvidenceInv

(* A candidate that was traced, by now or before: it is noted as a hit     *)
(* only with a trace of a seed of its name that hit.                       *)
LEMMA RankedTells ==
  ASSUME EvidenceInv, NEW f, NEW s, Evidence!Ranked(f, s), SummariesTell',
         s.hit => \E g \in ever : g.name = f.name /\ s = Evidence!Shows(g, of_rb)
  PROVE  EvidenceInv'
<1>1. /\ scan = "rank" /\ paths # <<>> /\ paths' = Tail(paths)
      /\ hits' = IF s.hit THEN Append(hits, [name |-> f.name, functions |-> s.functions]) ELSE hits
      /\ UNCHANGED <<scan, of_rb, context, present, ever, autoslices>>
  BY DEF Evidence!Ranked, Evidence!disk
<1>2. HitRecord' = HitRecord
  BY <1>1 DEF HitRecord, HitBy
<1>3. s.hit => [name |-> f.name, functions |-> s.functions] \in HitRecord
  <2>1. ASSUME s.hit PROVE \E g \in HitBy(of_rb) : g.name = f.name /\ s.functions = Trace[g][of_rb].functions
    BY <2>1 DEF HitBy, Evidence!Shows
  <2>. QED
    BY <2>1 DEF HitRecord
<1>4. hits' \in Seq(HitRecord)
  <2>. DEFINE h == [name |-> f.name, functions |-> s.functions]
  <2>1. hits \in Seq(HitRecord)
    BY DEF EvidenceInv, Underway
  <2>2. hits' = IF s.hit THEN Append(hits, h) ELSE hits
    BY <1>1
  <2>3. s.hit => h \in HitRecord
    BY <1>3
  <2>. HIDE DEF h
  <2>. QED
    BY <2>1, <2>2, <2>3
<1>5. Underway'
  BY <1>1, <1>2, <1>4 DEF EvidenceInv, Underway
<1>6. SlicesTell'
  BY <1>1 DEF EvidenceInv, SlicesTell, Evidence!Key, Evidence!Slice
<1>7. ContextTells'
  BY <1>1, EmptyContext DEF EvidenceInv, ContextTells
<1>. QED
  BY <1>1, <1>5, <1>6, <1>7 DEF EvidenceInv

LEMMA TraceTells ==
  ASSUME EvidenceInv, NEW f \in ever, NEW s \in Evidence!Runs(f), NEW stored \in BOOLEAN,
         Evidence!TraceSeed(f, s, stored)
  PROVE  EvidenceInv'
<1>1. /\ Evidence!Ranked(f, s) /\ scan = "rank" /\ UNCHANGED <<of_rb, ever>>
      /\ summaries' = IF stored THEN Evidence!With(summaries, Evidence!Key(of_rb, f.name), s) ELSE summaries
  BY DEF Evidence!TraceSeed, Evidence!Ranked, Evidence!disk
<1>2. of_rb \in Rb
  BY <1>1 DEF EvidenceInv, Underway
<1>3. \E g \in ever : g.name = f.name /\ s \in {Evidence!Shows(g, of_rb), Evidence!CutShort}
  <2>1. CASE s = Evidence!CutShort
    BY <2>1
  <2>2. CASE s # Evidence!CutShort
    <3>1. PICK g \in Evidence!Now(f) : s = Evidence!Shows(g, of_rb)
      BY <2>2 DEF Evidence!Runs
    <3>2. g \in ever /\ g.name = f.name
      BY DEF Evidence!Now, Evidence!Spot, EvidenceInv
    <3>. QED
      BY <3>1, <3>2
  <2>. QED
    BY <2>1, <2>2
<1>4. SummariesTell'
  <2>1. ASSUME NEW k \in DOMAIN summaries'
        PROVE  \E r \in Rb, g \in ever :
                  k = Evidence!Key(r, g.name) /\ summaries'[k] \in {Evidence!Shows(g, r), Evidence!CutShort}
    <3>1. CASE stored /\ k = Evidence!Key(of_rb, f.name)
      <4>1. summaries'[k] = s
        BY <1>1, <3>1 DEF Evidence!With
      <4>. QED
        BY <1>2, <1>3, <3>1, <4>1
    <3>2. CASE ~(stored /\ k = Evidence!Key(of_rb, f.name))
      <4>1. k \in DOMAIN summaries /\ summaries'[k] = summaries[k]
        BY <1>1, <2>1, <3>2 DEF Evidence!With
      <4>. QED
        BY <4>1 DEF EvidenceInv, SummariesTell
    <3>. QED
      BY <3>1, <3>2
  <2>. QED
    BY <1>1, <2>1 DEF SummariesTell, Evidence!Key, Evidence!Shows, Evidence!CutShort
<1>5. s.hit => \E g \in ever : g.name = f.name /\ s = Evidence!Shows(g, of_rb)
  BY <1>3 DEF Evidence!CutShort
<1>. QED
  BY <1>1, <1>4, <1>5, RankedTells

LEMMA AggregateTells == ASSUME EvidenceInv, Evidence!Aggregate PROVE EvidenceInv'
<1>1. scan = "rank" /\ paths = <<>> /\ UNCHANGED <<of_rb, hits, present, ever, summaries, autoslices>>
  BY DEF Evidence!Aggregate, Evidence!caches, Evidence!disk
<1>2. SummariesTell' /\ SlicesTell'
  BY <1>1, CachesStay DEF EvidenceInv
<1>3. HitRecord' = HitRecord /\ HitName' = HitName
  BY <1>1 DEF HitRecord, HitName, HitBy
<1>4. context = Evidence!NoContext /\ hits \in Seq(HitRecord)
  BY <1>1 DEF EvidenceInv, ContextTells, Underway
<1>5. CASE hits = <<>>
  <2>1. scan' = "built" /\ paths' = <<>> /\ context' = Evidence!NoContext
    BY <1>1, <1>4, <1>5 DEF Evidence!Aggregate
  <2>2. Underway'
    BY <1>1, <1>3, <1>4, <2>1 DEF EvidenceInv, Underway
  <2>3. ContextTells'
    BY <2>1, EmptyContext DEF ContextTells
  <2>. QED
    BY <1>1, <1>2, <2>2, <2>3 DEF EvidenceInv
<1>6. CASE hits # <<>>
  <2>. DEFINE sel == Evidence!Selected
  <2>1. /\ scan' = "replay" /\ paths' = [i \in DOMAIN sel |-> sel[i].name]
        /\ context' = [functions |-> UNION {h.functions : h \in Evidence!Range(sel)},
                       seed |-> Evidence!Resolve(hits[1].name), slice |-> {}]
    BY <1>6 DEF Evidence!Aggregate
  <2>2. sel \in Seq(HitRecord) /\ DOMAIN sel = 1 .. Len(sel) /\ Len(sel) \in Nat
        /\ \A i \in DOMAIN sel : \E j \in DOMAIN hits : sel[i] = hits[j]
    <3>. DEFINE most == IF Len(hits) < MaxSeeds THEN Len(hits) ELSE MaxSeeds
    <3>1. MaxSeeds \in Nat /\ Len(hits) \in Nat
      BY <1>4, EvidenceInputs DEF Evidence!EvidenceAssumption
    <3>2. most \in Nat /\ most <= Len(hits)
      BY <3>1
    <3>3. sel = SubSeq(hits, 1, most)
      BY DEF Evidence!Selected
    <3>. HIDE DEF most, sel
    <3>4. Len(sel) = most /\ sel \in Seq(HitRecord) /\ \A i \in 1 .. most : sel[i] = hits[i]
      BY <1>4, <3>2, <3>3
    <3>5. DOMAIN hits = 1 .. Len(hits)
      BY <1>4
    <3>6. DOMAIN sel = 1 .. most
      BY <3>4
    <3>7. \A i \in DOMAIN sel : i \in DOMAIN hits
      BY <3>1, <3>2, <3>5, <3>6
    <3>. QED
      BY <3>2, <3>4, <3>6, <3>7
  <2>. HIDE DEF sel
  <2>3. \A h \in HitRecord : h.name \in HitName
    BY DEF HitRecord, HitName
  <2>4. \A i \in DOMAIN sel : sel[i] \in HitRecord
    BY <2>2
  <2>5. paths' \in [1 .. Len(sel) -> HitName]
    BY <2>1, <2>2, <2>3, <2>4
  <2>6. paths' \in Seq(HitName)
    BY <2>2, <2>5
  <2>7. Underway'
    BY <1>1, <1>3, <1>4, <2>1, <2>6 DEF EvidenceInv, Underway
  <2>8. 1 \in DOMAIN hits /\ hits[1] \in HitRecord
    BY <1>4, <1>6
  <2>9. ASSUME NEW f \in context'.seed PROVE Trace[f][of_rb].hit \/ Evidence!Doubtful(hits[1].name)
    <3>1. f \in Evidence!Resolve(hits[1].name) /\ hits[1].name \in HitName
      BY <2>1, <2>3, <2>8
    <3>2. f \in ever
      <4>1. hits[1].name \in Name
        BY <3>1 DEF HitName, HitBy, EvidenceInv, Evidence!File
      <4>. QED
        BY <3>1, <4>1, FoundBegins DEF EvidenceInv
    <3>. QED
      BY <3>1, <3>2, TakenFor
  <2>10. ASSUME NEW g \in context'.functions
         PROVE  \E f \in ever, h \in Evidence!Range(hits) :
                   f.name = h.name /\ Trace[f][of_rb].hit /\ g \in Trace[f][of_rb].functions
    <3>1. PICK h \in Evidence!Range(sel) : g \in h.functions
      BY <2>1
    <3>2. h \in HitRecord /\ h \in Evidence!Range(hits)
      BY <2>2, <2>4 DEF Evidence!Range
    <3>3. PICK f \in HitBy(of_rb) : h = [name |-> f.name, functions |-> Trace[f][of_rb].functions]
      BY <3>2 DEF HitRecord
    <3>. QED
      BY <3>1, <3>2, <3>3 DEF HitBy
  <2>11. Evidence!EvidenceHits'
    <3>1. \A n : Evidence!Doubtful(n)' <=> Evidence!Doubtful(n)
      BY <1>1 DEF Evidence!Doubtful, Evidence!Begun
    <3>2. context'.slice = {}
      BY <2>1
    <3>. QED
      BY <1>1, <2>9, <2>10, <3>1, <3>2 DEF Evidence!EvidenceHits, Evidence!Range
  <2>12. ContextTells'
    BY <2>1, <2>11 DEF ContextTells, EvidenceHits
  <2>. QED
    BY <1>1, <1>2, <2>7, <2>12 DEF EvidenceInv
<1>. QED
  BY <1>5, <1>6

LEMMA TookTells ==
  ASSUME EvidenceInv, NEW slice, Evidence!Took(slice), scan = "replay", SlicesTell',
         \A s \in slice : s.of = of_rb /\ (Trace[s.by][of_rb].hit \/ Evidence!Doubtful(Head(paths)))
  PROVE  EvidenceInv'
<1>1. /\ scan' = "built" /\ UNCHANGED <<of_rb, paths, hits, present, ever, summaries>>
      /\ context' = [context EXCEPT !.slice = slice]
  BY DEF Evidence!Took, Evidence!disk
<1>2. Underway'
  BY <1>1 DEF EvidenceInv, Underway, HitRecord, HitName, HitBy
<1>3. SummariesTell'
  BY <1>1 DEF EvidenceInv, SummariesTell, Evidence!Key, Evidence!Shows, Evidence!CutShort
<1>4. \A n : Evidence!Doubtful(n)' <=> Evidence!Doubtful(n)
  BY <1>1 DEF Evidence!Doubtful, Evidence!Begun
<1>5. /\ DOMAIN context' = {"functions", "seed", "slice"} /\ context'.slice = slice
      /\ context'.seed = context.seed /\ context'.functions = context.functions
  BY <1>1 DEF EvidenceInv, ContextTells
<1>6. Evidence!EvidenceHits'
  BY <1>1, <1>4, <1>5 DEF EvidenceInv, ContextTells, EvidenceHits, Evidence!EvidenceHits, Evidence!Range
<1>7. ContextTells'
  BY <1>1, <1>5, <1>6 DEF ContextTells, EvidenceHits
<1>. QED
  BY <1>1, <1>2, <1>3, <1>7 DEF EvidenceInv

LEMMA ReuseTells == ASSUME EvidenceInv, NEW f, Evidence!ReuseSlice(f) PROVE EvidenceInv'
<1>. DEFINE key == Evidence!Key(of_rb, f.name)
<1>1. /\ scan = "replay" /\ paths # <<>> /\ f \in Evidence!Resolve(Head(paths)) /\ key \in DOMAIN autoslices
      /\ Evidence!Took({autoslices[key]}) /\ autoslices' = autoslices /\ ever' = ever
  BY DEF Evidence!ReuseSlice, Evidence!Replays, Evidence!Took, Evidence!disk
<1>2. PICK r \in Rb, g \in ever : key = Evidence!Key(r, g.name) /\ autoslices[key] = Evidence!Slice(r, g)
  BY <1>1 DEF EvidenceInv, SlicesTell
<1>3. r = of_rb /\ g.name = f.name
  BY <1>2 DEF Evidence!Key
<1>4. Head(paths) \in HitName
  BY <1>1 DEF EvidenceInv, Underway
<1>5. Trace[g][of_rb].hit \/ Evidence!Doubtful(Head(paths))
  BY <1>1, <1>3, <1>4, TakenFor
<1>6. SlicesTell'
  BY <1>1 DEF EvidenceInv, SlicesTell, Evidence!Key, Evidence!Slice
<1>7. autoslices[key].of = of_rb /\ autoslices[key].by = g
  BY <1>2, <1>3 DEF Evidence!Slice
<1>. HIDE DEF key
<1>. QED
  BY <1>1, <1>5, <1>6, <1>7, TookTells

LEMMA MakeTells ==
  ASSUME EvidenceInv, NEW f, NEW stored \in BOOLEAN, Evidence!MakeSlice(f, stored) PROVE EvidenceInv'
<1>. DEFINE key == Evidence!Key(of_rb, f.name)
            slice == Evidence!Slice(of_rb, f)
<1>1. /\ scan = "replay" /\ paths # <<>> /\ f \in Evidence!Resolve(Head(paths))
      /\ Evidence!Took({slice}) /\ ever' = ever
      /\ autoslices' = IF stored THEN Evidence!With(autoslices, key, slice) ELSE autoslices
  BY DEF Evidence!MakeSlice, Evidence!Replays, Evidence!Took, Evidence!disk
<1>2. Head(paths) \in HitName /\ of_rb \in Rb
  BY <1>1 DEF EvidenceInv, Underway
<1>3. f \in ever
  <2>1. Head(paths) \in Name
    BY <1>2 DEF HitName, HitBy, EvidenceInv, Evidence!File
  <2>. QED
    BY <1>1, <2>1, FoundBegins DEF EvidenceInv
<1>4. Trace[f][of_rb].hit \/ Evidence!Doubtful(Head(paths))
  BY <1>1, <1>2, <1>3, TakenFor
<1>5. SlicesTell'
  <2>1. ASSUME NEW k \in DOMAIN autoslices'
        PROVE  \E r \in Rb, g \in ever : k = Evidence!Key(r, g.name) /\ autoslices'[k] = Evidence!Slice(r, g)
    <3>1. CASE stored /\ k = key
      <4>1. autoslices'[k] = slice
        BY <1>1, <3>1 DEF Evidence!With
      <4>. QED
        BY <1>2, <1>3, <3>1, <4>1
    <3>2. CASE ~(stored /\ k = key)
      <4>1. k \in DOMAIN autoslices /\ autoslices'[k] = autoslices[k]
        BY <1>1, <2>1, <3>2 DEF Evidence!With
      <4>. QED
        BY <4>1 DEF EvidenceInv, SlicesTell
    <3>. QED
      BY <3>1, <3>2
  <2>. QED
    BY <1>1, <2>1 DEF SlicesTell, Evidence!Key, Evidence!Slice
<1>6. slice.of = of_rb /\ slice.by = f
  BY DEF Evidence!Slice
<1>. HIDE DEF key, slice
<1>. QED
  BY <1>1, <1>4, <1>5, <1>6, TookTells

LEMMA NextTold == ASSUME EvidenceInv, Evidence!Next PROVE EvidenceInv'
<1>1. ASSUME NEW f \in Evidence!File, Evidence!FileAppears(f) PROVE EvidenceInv'
  <2>1. /\ UNCHANGED <<scan, of_rb, paths, hits, context, summaries, autoslices>>
        /\ present' = present \cup {f} /\ ever' = ever \cup {f}
    BY <1>1 DEF Evidence!FileAppears, Evidence!caches
  <2>. QED
    BY <2>1, DiskChanges DEF EvidenceInv
<1>2. ASSUME NEW f \in present, Evidence!FileLeaves(f) PROVE EvidenceInv'
  <2>1. /\ UNCHANGED <<scan, of_rb, paths, hits, context, summaries, autoslices>>
        /\ present' = present \ {f} /\ ever' = ever
    BY <1>2 DEF Evidence!FileLeaves, Evidence!caches
  <2>. QED
    BY <2>1, DiskChanges DEF EvidenceInv
<1>3. CASE Evidence!Locate
  BY <1>3, LocateTells
<1>4. ASSUME NEW f \in ever, Evidence!Cached(f) PROVE EvidenceInv'
  <2>. DEFINE key == Evidence!Key(of_rb, f.name)
  <2>1. key \in DOMAIN summaries /\ Evidence!Ranked(f, summaries[key]) /\ UNCHANGED <<summaries, ever>>
    BY <1>4 DEF Evidence!Cached, Evidence!Ranked, Evidence!disk
  <2>2. PICK r \in Rb, g \in ever :
            key = Evidence!Key(r, g.name) /\ summaries[key] \in {Evidence!Shows(g, r), Evidence!CutShort}
    BY <2>1 DEF EvidenceInv, SummariesTell
  <2>3. r = of_rb /\ g.name = f.name
    BY <2>2 DEF Evidence!Key
  <2>4. ~Evidence!CutShort.hit
    BY DEF Evidence!CutShort
  <2>5. SummariesTell'
    BY <2>1 DEF EvidenceInv, SummariesTell, Evidence!Key, Evidence!Shows, Evidence!CutShort
  <2>. HIDE DEF key
  <2>6. summaries[key].hit => \E x \in ever : x.name = f.name /\ summaries[key] = Evidence!Shows(x, of_rb)
    BY <2>2, <2>3, <2>4
  <2>. QED
    BY <2>1, <2>5, <2>6, RankedTells
<1>5. ASSUME NEW f \in ever, Evidence!TraceFails(f) PROVE EvidenceInv'
  <2>1. Evidence!Ranked(f, Evidence!CutShort) /\ UNCHANGED <<summaries, ever>>
    BY <1>5 DEF Evidence!TraceFails, Evidence!Ranked, Evidence!disk
  <2>2. ~Evidence!CutShort.hit
    BY DEF Evidence!CutShort
  <2>3. SummariesTell'
    BY <2>1 DEF EvidenceInv, SummariesTell, Evidence!Key, Evidence!Shows, Evidence!CutShort
  <2>. QED
    BY <2>1, <2>2, <2>3, RankedTells
<1>6. ASSUME NEW f \in ever, NEW stored \in BOOLEAN, NEW s \in Evidence!Runs(f), Evidence!TraceSeed(f, s, stored)
      PROVE  EvidenceInv'
  BY <1>6, TraceTells
<1>7. ASSUME NEW r \in Rb, NEW seeds \in Evidence!Seeds, Evidence!Start(r, seeds) PROVE EvidenceInv'
  <2>1. /\ scan' = "look" /\ of_rb' = r /\ paths' = seeds /\ hits' = <<>> /\ context' = Evidence!NoContext
        /\ UNCHANGED <<present, ever, summaries, autoslices>>
    BY <1>7 DEF Evidence!Start, Evidence!caches, Evidence!disk
  <2>2. seeds \in Seq(Name)
    BY DEF Evidence!Seeds
  <2>3. Underway'
    BY <2>1, <2>2 DEF Underway
  <2>4. ContextTells'
    BY <2>1, EmptyContext DEF ContextTells, Evidence!NoContext
  <2>. QED
    BY <2>1, <2>3, <2>4, CachesStay DEF EvidenceInv
<1>8. CASE Evidence!CutOff
  <2>1. /\ scan' = "idle" /\ hits' = <<>> /\ context' = Evidence!NoContext
        /\ UNCHANGED <<present, ever, summaries, autoslices>>
    BY <1>8 DEF Evidence!CutOff, Evidence!caches, Evidence!disk
  <2>2. Underway'
    BY <2>1 DEF Underway
  <2>3. ContextTells'
    BY <2>1, EmptyContext DEF ContextTells, Evidence!NoContext
  <2>. QED
    BY <2>1, <2>2, <2>3, CachesStay DEF EvidenceInv
<1>9. CASE Evidence!Aggregate
  BY <1>9, AggregateTells
<1>10. ASSUME NEW f \in ever, Evidence!ReuseSlice(f) PROVE EvidenceInv'
  BY <1>10, ReuseTells
<1>11. ASSUME NEW f \in ever, NEW stored \in BOOLEAN, Evidence!MakeSlice(f, stored) PROVE EvidenceInv'
  BY <1>11, MakeTells
<1>12. CASE Evidence!NoSlice
  <2>1. /\ scan = "replay" /\ paths # <<>> /\ paths' = Tail(paths)
        /\ UNCHANGED <<scan, of_rb, hits, context, present, ever, summaries, autoslices>>
    BY <1>12 DEF Evidence!NoSlice, Evidence!caches, Evidence!disk
  <2>2. HitRecord' = HitRecord /\ HitName' = HitName
    BY <2>1 DEF HitRecord, HitName, HitBy
  <2>3. Underway'
    BY <2>1, <2>2 DEF EvidenceInv, Underway
  <2>4. \A n : Evidence!Doubtful(n)' <=> Evidence!Doubtful(n)
    BY <2>1 DEF Evidence!Doubtful, Evidence!Begun
  <2>5. ContextTells'
    BY <2>1, <2>4 DEF EvidenceInv, ContextTells, EvidenceHits, Evidence!EvidenceHits, Evidence!Range, Evidence!NoContext
  <2>. QED
    BY <2>1, <2>3, <2>5, CachesStay DEF EvidenceInv
<1>13. CASE Evidence!Without
  <2>1. Evidence!Took({}) /\ scan = "replay" /\ UNCHANGED <<autoslices, ever>>
    BY <1>13 DEF Evidence!Without, Evidence!Took, Evidence!disk
  <2>2. SlicesTell'
    BY <2>1 DEF EvidenceInv, SlicesTell, Evidence!Key, Evidence!Slice
  <2>. QED
    BY <2>1, <2>2, TookTells
<1>. QED
  BY <1>1, <1>2, <1>3, <1>4, <1>5, <1>6, <1>7, <1>8, <1>9, <1>10, <1>11, <1>12, <1>13 DEF Evidence!Next

(* Whatever is moved away, cached or cut off, and whatever names are used  *)
(* again, an attempt is told of functions only from runs that hit its      *)
(* roadblock, of seeds that had the names it is told of, and of slices     *)
(* made for its roadblock; the seeds looked up again hit it too, unless    *)
(* their names are doubtful (_load_or_build_dynamic_summary,               *)
(* build_autobug_slice_context).                                           *)
THEOREM ContextIsOfHits == Evidence!Spec => []EvidenceHits
<1>1. ASSUME EvidenceInv, [Evidence!Next]_(Evidence!evidenceVars) PROVE EvidenceInv'
  <2>1. CASE Evidence!Next
    BY <1>1, <2>1, NextTold
  <2>2. CASE UNCHANGED Evidence!evidenceVars
    BY <1>1, <2>2, DiskChanges DEF Evidence!evidenceVars, Evidence!disk, EvidenceInv
  <2>. QED
    BY <1>1, <2>1, <2>2
<1>2. EvidenceInv => EvidenceHits
  BY DEF EvidenceInv, ContextTells
<1>. QED
  BY <1>1, <1>2, InitEvidence, PTL DEF Evidence!Spec

(***************************************************************************)
(* Slices of code.  Those in memory are of the file they are kept under,   *)
(* those in files of a file in which the label's function is sliced; both  *)
(* of the same line, case and way of slicing.                              *)
(***************************************************************************)
SameAim(of, k) == \A i \in 2 .. 4 : of[i] = k[i]

Alone(of, b) == of[2] = b.line /\ of[3] = b.at /\ of[4] = FALSE

(* The file in which a function nobody calls is sliced.                    *)
AloneFile(b) == IF Slices!Sliceable(b.function) THEN Slices!First(b.function).file ELSE b.file

AskedFor ==
    /\ slicing \in {"idle", "look", "read", "got"}
    /\ slicing # "idle" => wanted \in Slices!Requests /\ Slices!CanAsk(wanted) /\ aim = Slices!Aim(wanted)
AimNamed == slicing \in {"look", "read"} => aim.name \in Slices!Names /\ aim.file \in Slices!FilesOf(aim.name)
MemoryFits ==
    \A k \in DOMAIN memory :
        memory[k].kind = "slice" => Slices!SameName(memory[k].of[1], k[1]) /\ SameAim(memory[k].of, k)
FilesFit ==
    \A l \in DOMAIN sliceFiles :
        sliceFiles[l].kind = "slice" => sliceFiles[l].of[1] \in Slices!FilesOf(l[1]) /\ SameAim(sliceFiles[l].of, l)
DirectFits ==
    \A b \in DOMAIN direct :
        direct[b].kind = "slice" =>
            Slices!SameName(direct[b].of[1], AloneFile(b)) /\ Alone(direct[b].of, b)
CodeFits ==
    slicing = "got" /\ code.kind = "slice" =>
        Slices!SameName(code.of[1], aim.file) /\ SameAim(code.of, Slices!Key)

SliceInv == AskedFor /\ AimNamed /\ MemoryFits /\ FilesFit /\ DirectFits /\ CodeFits

LEMMA InitSlices == Slices!Init => SliceInv
  BY DEF Slices!Init, SliceInv, AskedFor, AimNamed, MemoryFits, FilesFit, DirectFits, CodeFits

(***************************************************************************)
(* What is sliced.                                                         *)
(***************************************************************************)
LEMMA LastExists ==
  ASSUME NEW n \in Nat, NEW T \in SUBSET (1 .. n), T # {}
  PROVE  \E i \in T : \A j \in T : j <= i
<1>. DEFINE D == {n - i : i \in T}
<1>0. \A i \in T : n - i \in Nat
  OBVIOUS
<1>1. D \in SUBSET Nat /\ D # {}
  BY <1>0
<1>2. PICK d \in D : \A e \in D : d <= e
  BY <1>1, LeastOf
<1>3. PICK i \in T : d = n - i
  OBVIOUS
<1>4. ASSUME NEW j \in T PROVE j <= i
  <2>1. n - j \in D
    OBVIOUS
  <2>. QED
    BY <1>2, <1>3, <2>1
<1>. QED
  BY <1>4

LEMMA LastIsOne ==
  ASSUME NEW c, NEW n \in Nat, DOMAIN c = 1 .. n, NEW names, \E i \in 1 .. n : c[i] \in names
  PROVE  Slices!LastOf(c, names) \in names
<1>. DEFINE Here == {i \in DOMAIN c : c[i] \in names}
<1>1. \E i \in Here : \A j \in Here : j <= i
  BY LastExists
<1>. QED
  BY <1>1 DEF Slices!LastOf

LEMMA LastIsEnd ==
  ASSUME NEW c, NEW n \in Nat \ {0}, DOMAIN c = 1 .. n, NEW names, c[n] \in names
  PROVE  Slices!LastOf(c, names) = c[n]
<1>. DEFINE Here == {i \in DOMAIN c : c[i] \in names}
<1>1. n \in Here /\ \A j \in Here : j <= n /\ j \in Nat
  OBVIOUS
<1>2. ASSUME NEW i \in Here, \A j \in Here : j <= i PROVE i = n
  BY <1>1, <1>2
<1>. QED
  BY <1>1, <1>2 DEF Slices!LastOf

(* A chain ends in the function of the roadblock.                          *)
LEMMA ChainEnds ==
  ASSUME NEW q \in Slices!Requests, Slices!CanAsk(q)
  PROVE  /\ q.of \in Blocked /\ Len(q.chain) \in Nat \ {0} /\ DOMAIN q.chain = 1 .. Len(q.chain)
         /\ q.chain[Len(q.chain)] = q.of.function
         /\ q.alone => q.chain = <<q.of.function>> /\ Len(q.chain) = 1
         /\ q.alone => q.given
<1>1. q.of \in Blocked /\ (q.alone => q.given) /\ q.alone \in BOOLEAN
  BY DEF Slices!Requests
<1>2. CASE q.alone
  <2>1. q.chain = <<q.of.function>> /\ Len(q.chain) = 1
    BY <1>2 DEF Slices!CanAsk
  <2>. QED
    BY <1>1, <2>1
<1>3. CASE ~q.alone
  <2>1. q.chain \in ChainsTo[q.of.function]
    BY <1>3 DEF Slices!CanAsk
  <2>2. q.chain \in Seq(STRING) /\ q.chain # <<>> /\ q.chain[Len(q.chain)] = q.of.function
    BY <1>1, <2>1, SlicedFunctions DEF Slices!SlicesAssumption
  <2>. QED
    BY <1>1, <1>3, <2>2
<1>. QED
  BY <1>1, <1>2, <1>3

Can(q) == {n \in {q.chain[i] : i \in DOMAIN q.chain} : Slices!Sliceable(n)}
Wished(q) == IF Can(q) \cap q.preferred # {} THEN Can(q) \cap q.preferred ELSE Can(q)

LEMMA AimIs ==
  ASSUME NEW q
  PROVE  Slices!Aim(q) = IF Can(q) # {} THEN [name |-> Slices!LastOf(q.chain, Wished(q)),
                                              file |-> Slices!First(Slices!LastOf(q.chain, Wished(q))).file]
                         ELSE IF q.given THEN [name |-> q.of.around, file |-> q.of.file]
                         ELSE Slices!NoAim
  BY DEF Slices!Aim, Can, Wished

LEMMA AimIsNamed ==
  ASSUME NEW q \in Slices!Requests, Slices!CanAsk(q), Slices!Aim(q) # Slices!NoAim
  PROVE  Slices!Aim(q).name \in Slices!Names /\ Slices!Aim(q).file \in Slices!FilesOf(Slices!Aim(q).name)
<1>1. CASE Can(q) # {}
  <2>. DEFINE n == Slices!LastOf(q.chain, Wished(q))
  <2>1. \E i \in 1 .. Len(q.chain) : q.chain[i] \in Wished(q)
    BY <1>1, ChainEnds DEF Can, Wished
  <2>2. n \in Wished(q)
    BY <2>1, ChainEnds, LastIsOne
  <2>3. Slices!Sliceable(n)
    BY <2>2 DEF Can, Wished
  <2>4. n \in Slices!Names /\ Slices!First(n).file \in Slices!FilesOf(n)
    BY <2>3 DEF Slices!Sliceable, Slices!Named, Slices!Names, Slices!FilesOf
  <2>. QED
    BY <1>1, <2>4, AimIs
<1>2. CASE Can(q) = {}
  <2>1. Slices!Aim(q) = [name |-> q.of.around, file |-> q.of.file]
    BY <1>2, AimIs
  <2>2. q.of \in Blocked
    BY ChainEnds
  <2>. QED
    BY <2>1, <2>2 DEF Slices!Names, Slices!FilesOf
<1>. QED
  BY <1>1, <1>2

(* The function of the roadblock is sliced, if it can be and is wished.    *)
LEMMA AimIsOwn ==
  ASSUME NEW q \in Slices!Requests, Slices!CanAsk(q), Slices!Sliceable(q.of.function),
         q.of.function \in q.preferred \/ q.preferred = {}
  PROVE  Slices!Aim(q).file = Slices!First(q.of.function).file
<1>1. q.of.function \in Can(q) /\ q.of.function \in Wished(q)
  BY ChainEnds DEF Can, Wished
<1>2. Slices!LastOf(q.chain, Wished(q)) = q.of.function
  BY <1>1, ChainEnds, LastIsEnd
<1>. QED
  BY <1>1, <1>2, AimIs

(* What is sliced of a function nobody calls depends on nothing else.      *)
LEMMA AimAlone ==
  ASSUME NEW q \in Slices!Requests, Slices!CanAsk(q), q.alone
  PROVE  Slices!Aim(q).file = AloneFile(q.of)
<1>. DEFINE own == q.of.function
<1>1. q.chain = <<own>> /\ q.given
  BY ChainEnds
<1>2. Can(q) = IF Slices!Sliceable(own) THEN {own} ELSE {}
  BY <1>1 DEF Can
<1>3. CASE Slices!Sliceable(own)
  <2>1. own \in Wished(q)
    BY <1>2, <1>3 DEF Wished
  <2>2. Slices!LastOf(q.chain, Wished(q)) = own
    BY <2>1, ChainEnds, LastIsEnd
  <2>. QED
    BY <1>2, <1>3, <2>2, AimIs DEF AloneFile
<1>4. CASE ~Slices!Sliceable(own)
  BY <1>1, <1>2, <1>4, AimIs DEF AloneFile
<1>. QED
  BY <1>3, <1>4

(***************************************************************************)
(* The steps.                                                              *)
(***************************************************************************)
LEMMA KeyIs ==
  /\ Slices!Key[1] = aim.file /\ Slices!Key[2] = wanted.of.line /\ Slices!Key[3] = wanted.of.at
  /\ Slices!Key[4] = (Len(wanted.chain) > 1)
  /\ Slices!Label[1] = aim.name /\ SameAim(Slices!Key, Slices!Label) /\ SameAim(Slices!Label, Slices!Key)
  BY DEF Slices!Key, Slices!Label, SameAim

LEMMA CodeIs == ASSUME NEW x, NEW c, c = Slices!Code("slice", x) PROVE c.of = x
  BY DEF Slices!Code

LEMMA NoSliceIn == ASSUME NEW c, c \in {Slices!NoMatch, Slices!Nothing} PROVE c.kind # "slice"
<1>1. Slices!NoMatch.kind # "slice" /\ Slices!Nothing.kind # "slice"
  BY DEF Slices!NoMatch, Slices!Nothing, Slices!Code
<1>. QED
  BY <1>1

LEMMA SameAimTrans == ASSUME NEW a, NEW b, NEW c, SameAim(a, b), SameAim(b, c) PROVE SameAim(a, c)
  BY DEF SameAim

(* What the slicer has of a label is of a file of its function.            *)
LEMMA OnFileFits ==
  ASSUME SliceInv, slicing \in {"look", "read"}, Slices!OnFile.kind = "slice"
  PROVE  Slices!SameName(Slices!OnFile.of[1], aim.file) /\ SameAim(Slices!OnFile.of, Slices!Key)
<1>1. Slices!OnFile = sliceFiles[Slices!Label] /\ Slices!Label \in DOMAIN sliceFiles
  BY DEF Slices!OnFile, Slices!Nothing, Slices!Code
<1>2. Slices!OnFile.of[1] \in Slices!FilesOf(aim.name) /\ SameAim(Slices!OnFile.of, Slices!Label)
  BY <1>1, KeyIs DEF SliceInv, FilesFit
<1>3. aim.name \in Slices!Names /\ aim.file \in Slices!FilesOf(aim.name)
  BY DEF SliceInv, AimNamed
<1>. QED
  BY <1>2, <1>3, KeyIs, SameAimTrans DEF Slices!SameName

LEMMA SameKey == ASSUME UNCHANGED <<aim, wanted>> PROVE Slices!Key' = Slices!Key
  BY DEF Slices!Key

LEMMA SameAsked ==
  ASSUME AskedFor, slicing # "idle", slicing' \in {"look", "read", "got"}, UNCHANGED <<wanted, aim>>
  PROVE  AskedFor'
<1>1. wanted \in Slices!Requests /\ Slices!CanAsk(wanted) /\ aim = Slices!Aim(wanted)
  BY DEF AskedFor
<1>2. wanted' \in Slices!Requests' 
  BY <1>1 DEF Slices!Requests
<1>3. Slices!CanAsk(wanted)'
  BY <1>1 DEF Slices!CanAsk
<1>4. (aim = Slices!Aim(wanted))'
  BY <1>1, Zenon
<1>. QED
  BY <1>2, <1>3, <1>4 DEF AskedFor

LEMMA TakeFits ==
  ASSUME SliceInv, slicing \in {"look", "read"}, Slices!OnFile.kind = "slice", Slices!Take
  PROVE  SliceInv'
<1>1. /\ slicing' = "got" /\ code' = Slices!OnFile
      /\ memory' = Slices!With(memory, Slices!Key, Slices!OnFile)
      /\ UNCHANGED <<wanted, aim, direct, sliceFiles>>
  BY DEF Slices!Take, Slices!Got, Slices!Same
<1>2. AskedFor' /\ AimNamed'
  BY <1>1, SameAsked DEF SliceInv, AimNamed
<1>3. MemoryFits'
  <2>1. ASSUME NEW k \in DOMAIN memory', memory'[k].kind = "slice"
        PROVE  Slices!SameName(memory'[k].of[1], k[1]) /\ SameAim(memory'[k].of, k)
    BY <1>1, <2>1, OnFileFits, KeyIs DEF SliceInv, MemoryFits, Slices!With
  <2>. QED
    BY <2>1 DEF MemoryFits, SameAim
<1>4. FilesFit' /\ DirectFits'
  BY <1>1 DEF SliceInv, FilesFit, DirectFits, SameAim, AloneFile
<1>5. CodeFits'
  BY <1>1, OnFileFits, SameKey DEF CodeFits, SameAim
<1>. QED
  BY <1>2, <1>3, <1>4, <1>5 DEF SliceInv

LEMMA AskFits == ASSUME SliceInv, NEW q \in Slices!Requests, Slices!Ask(q) PROVE SliceInv'
<1>1. /\ slicing = "idle" /\ Slices!CanAsk(q) /\ wanted' = q /\ aim' = Slices!Aim(q)
      /\ UNCHANGED <<memory, sliceFiles, direct>>
  BY DEF Slices!Ask, Slices!Kept
<1>2. \/ q.alone /\ q.of \in DOMAIN direct /\ slicing' = "got" /\ code' = direct[q.of]
      \/ slicing' = "got" /\ code' = Slices!Nothing
      \/ slicing' = "look" /\ Slices!Aim(q) # Slices!NoAim
  BY DEF Slices!Ask, Slices!Got
<1>3. slicing' \in {"look", "got"}
  BY <1>2
<1>4. AskedFor'
  BY <1>1, <1>3 DEF AskedFor
<1>5. AimNamed'
  <2>1. slicing' = "look" => aim'.name \in Slices!Names /\ aim'.file \in Slices!FilesOf(aim'.name)
    BY <1>1, <1>2, AimIsNamed
  <2>. QED
    BY <1>3, <2>1 DEF AimNamed
<1>6. MemoryFits' /\ FilesFit' /\ DirectFits'
  BY <1>1 DEF SliceInv, MemoryFits, FilesFit, DirectFits
<1>7. ASSUME slicing' = "got", code'.kind = "slice"
      PROVE  Slices!SameName(code'.of[1], aim'.file) /\ SameAim(code'.of, Slices!Key')
  <2>1. q.alone /\ q.of \in DOMAIN direct /\ code' = direct[q.of]
    BY <1>2, <1>7 DEF Slices!Nothing, Slices!Code
  <2>2. /\ Slices!SameName(code'.of[1], AloneFile(q.of))
        /\ Alone(code'.of, q.of)
    BY <1>7, <2>1 DEF SliceInv, DirectFits
  <2>3. aim'.file = AloneFile(q.of) /\ Len(q.chain) = 1
    BY <1>1, <2>1, AimAlone, ChainEnds
  <2>4. (Len(q.chain) > 1) = FALSE
    BY <2>3
  <2>5. Slices!Key'[2] = q.of.line /\ Slices!Key'[3] = q.of.at /\ Slices!Key'[4] = FALSE
    BY <1>1, <2>4 DEF Slices!Key
  <2>6. SameAim(code'.of, Slices!Key')
    <3>1. code'.of[2] = Slices!Key'[2] /\ code'.of[3] = Slices!Key'[3] /\ code'.of[4] = Slices!Key'[4]
      BY <2>2, <2>5, Zenon DEF Alone
    <3>. QED
      BY <3>1 DEF SameAim
  <2>. QED
    BY <2>2, <2>3, <2>6
<1>8. CodeFits'
  BY <1>7 DEF CodeFits
<1>. QED
  BY <1>4, <1>5, <1>6, <1>8 DEF SliceInv

LEMMA NextSlices == ASSUME SliceInv, Slices!Next PROVE SliceInv'
<1>1. ASSUME NEW q \in Slices!Requests, Slices!Ask(q) PROVE SliceInv'
  BY <1>1, AskFits
<1>2. ASSUME slicing' = "got", slicing \in {"look", "read"}, code'.kind # "slice",
             UNCHANGED <<wanted, aim, memory, sliceFiles, direct>>
      PROVE  SliceInv'
  <2>1. AskedFor'
    BY <1>2, SameAsked DEF SliceInv
  <2>. QED
    BY <1>2, <2>1 DEF SliceInv, AimNamed, MemoryFits, FilesFit, DirectFits, CodeFits, SameAim
<1>3. CASE Slices!TraceDriven
  BY <1>2, <1>3 DEF Slices!TraceDriven, Slices!Got, Slices!Same, Slices!Code
<1>4. CASE Slices!InMemory
  <2>1. /\ slicing = "look" /\ slicing' = "got" /\ Slices!Key \in DOMAIN memory /\ code' = memory[Slices!Key]
        /\ UNCHANGED <<wanted, aim, memory, sliceFiles, direct>>
    BY <1>4 DEF Slices!InMemory, Slices!Got, Slices!Same
  <2>2. AskedFor'
    BY <2>1, SameAsked DEF SliceInv
  <2>3. CodeFits'
    BY <2>1, KeyIs, SameKey DEF SliceInv, MemoryFits, CodeFits, SameAim
  <2>. QED
    BY <2>1, <2>2, <2>3 DEF SliceInv, AimNamed, MemoryFits, FilesFit, DirectFits
<1>5. CASE Slices!OnDisk \/ Slices!ReadSlice
  BY <1>5, TakeFits DEF Slices!OnDisk, Slices!ReadSlice
<1>6. ASSUME NEW output \in {"fails", "empty", "no match", "slice"}, Slices!RunSlicer(output) PROVE SliceInv'
  <2>1. slicing = "look" /\ slicing' = "read" /\ UNCHANGED <<wanted, aim, memory, direct>>
    BY <1>6 DEF Slices!RunSlicer, Slices!Same
  <2>2. AskedFor'
    BY <2>1, SameAsked DEF SliceInv
  <2>3. aim.file \in Slices!FilesOf(aim.name)
    BY <2>1 DEF SliceInv, AimNamed
  <2>4. \/ sliceFiles' = sliceFiles
        \/ sliceFiles' = Slices!With(sliceFiles, Slices!Label, Slices!Code("slice", Slices!Key))
        \/ \E c \in {Slices!NoMatch, Slices!Nothing} : sliceFiles' = Slices!With(sliceFiles, Slices!Label, c)
    BY <1>6 DEF Slices!RunSlicer
  <2>5. ASSUME NEW l \in DOMAIN sliceFiles', sliceFiles'[l].kind = "slice"
        PROVE  sliceFiles'[l].of[1] \in Slices!FilesOf(l[1]) /\ SameAim(sliceFiles'[l].of, l)
    <3>1. CASE sliceFiles'[l] = Slices!Code("slice", Slices!Key) /\ l = Slices!Label
      <4>1. sliceFiles'[l].of = Slices!Key
        BY <3>1, CodeIs
      <4>2. sliceFiles'[l].of[1] = aim.file /\ l[1] = aim.name
        BY <3>1, <4>1, KeyIs
      <4>. QED
        BY <2>3, <3>1, <4>1, <4>2, KeyIs
    <3>2. CASE l \in DOMAIN sliceFiles /\ sliceFiles'[l] = sliceFiles[l]
      BY <2>5, <3>2 DEF SliceInv, FilesFit
    <3>. QED
      <4>1. ASSUME NEW c, c \in {Slices!NoMatch, Slices!Nothing}, sliceFiles' = Slices!With(sliceFiles, Slices!Label, c)
            PROVE  l \in DOMAIN sliceFiles /\ sliceFiles'[l] = sliceFiles[l]
        <5>1. c.kind # "slice"
          BY <4>1, NoSliceIn
        <5>. QED
          BY <2>5, <4>1, <5>1 DEF Slices!With
      <4>2. ASSUME sliceFiles' = Slices!With(sliceFiles, Slices!Label, Slices!Code("slice", Slices!Key)), l # Slices!Label
            PROVE  l \in DOMAIN sliceFiles /\ sliceFiles'[l] = sliceFiles[l]
        BY <4>2 DEF Slices!With
      <4>3. ASSUME sliceFiles' = Slices!With(sliceFiles, Slices!Label, Slices!Code("slice", Slices!Key)), l = Slices!Label
            PROVE  sliceFiles'[l] = Slices!Code("slice", Slices!Key)
        BY <4>3 DEF Slices!With
      <4>. QED
        BY <2>4, <3>1, <3>2, <4>1, <4>2, <4>3
  <2>6. FilesFit'
    BY <2>5 DEF FilesFit
  <2>. QED
    BY <2>1, <2>2, <2>6 DEF SliceInv, AimNamed, MemoryFits, DirectFits, CodeFits
<1>7. ASSUME NEW replay \in BOOLEAN, Slices!FallBack(replay) PROVE SliceInv'
  BY <1>2, <1>7 DEF Slices!FallBack, Slices!Got, Slices!Same, Slices!Code, Slices!NoMatch
<1>8. ASSUME NEW long \in BOOLEAN, Slices!Use(long) PROVE SliceInv'
  <2>1. /\ slicing = "got" /\ slicing' = "idle" /\ UNCHANGED <<memory, sliceFiles>>
        /\ direct' = IF wanted.alone /\ long /\ code.kind \notin {"nothing", "no match"}
                     THEN Slices!With(direct, wanted.of, code) ELSE direct
    BY <1>8 DEF Slices!Use
  <2>2. wanted \in Slices!Requests /\ Slices!CanAsk(wanted) /\ aim = Slices!Aim(wanted)
    BY <2>1 DEF SliceInv, AskedFor
  <2>3. ASSUME wanted.alone, code.kind = "slice"
        PROVE  /\ Slices!SameName(code.of[1], AloneFile(wanted.of))
               /\ Alone(code.of, wanted.of)
    <3>1. aim.file = AloneFile(wanted.of) /\ Len(wanted.chain) = 1
      BY <2>2, <2>3, AimAlone, ChainEnds
    <3>2. Slices!SameName(code.of[1], aim.file) /\ SameAim(code.of, Slices!Key)
      BY <2>1, <2>3 DEF SliceInv, CodeFits
    <3>3. (Len(wanted.chain) > 1) = FALSE
      BY <3>1
    <3>4. Slices!Key[2] = wanted.of.line /\ Slices!Key[3] = wanted.of.at /\ Slices!Key[4] = FALSE
      BY <3>3, KeyIs
    <3>5. Alone(code.of, wanted.of)
      BY <3>2, <3>4 DEF SameAim, Alone
    <3>. QED
      BY <3>1, <3>2, <3>5
  <2>4. ASSUME NEW b \in DOMAIN direct', direct'[b].kind = "slice"
        PROVE  /\ Slices!SameName(direct'[b].of[1], AloneFile(b))
               /\ Alone(direct'[b].of, b)
    BY <2>1, <2>3, <2>4 DEF SliceInv, DirectFits, Slices!With
  <2>5. DirectFits'
    BY <2>4 DEF DirectFits
  <2>. QED
    BY <2>1, <2>5 DEF SliceInv, AskedFor, AimNamed, MemoryFits, FilesFit, CodeFits
<1>9. CASE Slices!Killed
  <2>1. slicing' = "idle" /\ memory' = <<>> /\ UNCHANGED <<sliceFiles, direct>>
    BY <1>9 DEF Slices!Killed
  <2>2. AskedFor' /\ AimNamed' /\ CodeFits'
    BY <2>1 DEF AskedFor, AimNamed, CodeFits
  <2>3. MemoryFits'
    BY <2>1 DEF MemoryFits
  <2>. QED
    BY <2>1, <2>2, <2>3 DEF SliceInv, FilesFit, DirectFits
<1>. QED
  BY <1>1, <1>3, <1>4, <1>5, <1>6, <1>7, <1>8, <1>9 DEF Slices!Next

(* A slice is of the line, the case and the way of slicing wanted, and of  *)
(* the file, unless that shares a name with the file it is of; and of the  *)
(* file of the roadblock, if that is where its function is found.          *)
THEOREM SlicesAreOfWhatIsAsked == Slices!Spec => []SlicesAreOfTarget
<1>1. ASSUME SliceInv, [Slices!Next]_sliceCodeVars PROVE SliceInv'
  <2>1. CASE UNCHANGED sliceCodeVars
    <3>1. AskedFor'
      BY <1>1, <2>1, SameAsked DEF sliceCodeVars, SliceInv, AskedFor
    <3>. QED
      BY <1>1, <2>1, <3>1, SameKey DEF sliceCodeVars, SliceInv, AimNamed, MemoryFits, FilesFit, DirectFits, CodeFits
  <2>. QED
    BY <1>1, <2>1, NextSlices
<1>2. SliceInv => SlicesAreOfTarget
  <2>. SUFFICES ASSUME SliceInv, slicing = "got", code.kind = "slice"
                PROVE  /\ Slices!SameName(code.of[1], aim.file)
                       /\ \A i \in 2 .. Len(Slices!Key) : code.of[i] = Slices!Key[i]
                       /\ LET own == wanted.of.function
                          IN  /\ Slices!Sliceable(own) /\ Slices!First(own).file = wanted.of.file
                              /\ own \in wanted.preferred \/ wanted.preferred = {}
                              => Slices!SameName(code.of[1], wanted.of.file)
    BY DEF SlicesAreOfTarget, Slices!SlicesAreOfTarget
  <2>1. Slices!SameName(code.of[1], aim.file) /\ SameAim(code.of, Slices!Key)
    BY DEF SliceInv, CodeFits
  <2>2. Len(Slices!Key) = 4
    BY DEF Slices!Key
  <2>3. wanted \in Slices!Requests /\ Slices!CanAsk(wanted) /\ aim = Slices!Aim(wanted)
    BY DEF SliceInv, AskedFor
  <2>4. ASSUME Slices!Sliceable(wanted.of.function), Slices!First(wanted.of.function).file = wanted.of.file,
               wanted.of.function \in wanted.preferred \/ wanted.preferred = {}
        PROVE  aim.file = wanted.of.file
    BY <2>3, <2>4, AimIsOwn
  <2>. QED
    BY <2>1, <2>2, <2>4 DEF SameAim
<1>. QED
  BY <1>1, <1>2, InitSlices, PTL DEF Slices!Spec, Slices!sliceCodeVars, sliceCodeVars

(***************************************************************************)
(* First seeds.  What the files hold, by where the session is: nothing of  *)
(* this session while seeds are asked for, the first seeds kept while they *)
(* are saved, anything while a script is at work.                          *)
(***************************************************************************)
Asking == {"dimensions", "seeds", "add", "bundle", "dump"}
Storing == {"save", "write", "manifest"}

Counted ==
    /\ session \in Nat /\ ended \subseteq 1 .. session
    /\ spot # "out" => session \in 1 .. session /\ session \notin ended
    /\ \A i \in DOMAIN corpus : corpus[i].session \in 1 .. session

KeptAreVaried == kept \in Seq(Value) /\ Diversifier!Varied(kept)

(* A manifest that a script left is of a session that did not come to its  *)
(* end.                                                                    *)
LooseIsOpen ==
    /\ loose.kind = "valid" => /\ loose.by \in (1 .. session) \ ended
                               /\ spot \in Asking \cup Storing => loose.by < session
    /\ spot = "move" => loose.kind = "valid"
    /\ spot \in {"report", "dumpReport"} => loose.kind = "absent"

Written(i) == Diversifier!File(Diversifier!Final(setup.encoding, kept[i]))
FilesHoldKept ==
    /\ spot \in Asking => saved = 0 /\ \A i \in DOMAIN corpus : corpus[i].session < session
    /\ spot \in Storing => /\ saved \in 0 .. Len(kept)
                           /\ \A i \in 1 .. saved : i \in DOMAIN corpus /\ corpus[i] = Written(i)
    /\ spot = "write" => saved < Len(kept)
    /\ spot = "manifest" => saved = Len(kept)

(* The file of a seed of the manifest.                                     *)
Holds(i) ==
    /\ i \in DOMAIN corpus
    /\ \/ corpus[i] = [value |-> meta.seeds[i], session |-> meta.session]
       \/ corpus[i].session > meta.session /\ corpus[i].session \notin ended

ManifestHolds ==
    meta.kind = "seeds" =>
        /\ meta.session \in 1 .. session /\ (spot # "out" => meta.session < session)
        /\ Diversifier!OfVaried(meta)
        /\ \A i \in DOMAIN meta.seeds : Holds(i)

ScriptIsOpen(m) ==
    m.kind = "script" => /\ m.session \in 1 .. session /\ m.by \in 1 .. m.session
                         /\ Diversifier!FromOpenSession(m)
ReportsTell ==
    /\ ScriptIsOpen(meta) /\ ScriptIsOpen(bundle)
    /\ spot \in {"unlink", "report", "dumpReport"} => meta.kind = "script"
    /\ bundle.kind = "seeds" => Diversifier!OfVaried(bundle)

DiversifierInv ==
    Counted /\ KeptAreVaried /\ LooseIsOpen /\ FilesHoldKept /\ ManifestHolds /\ ReportsTell

LEMMA InitDiversifier == Diversifier!Init => DiversifierInv
  BY DEF Diversifier!Init, DiversifierInv, Counted, KeptAreVaried, LooseIsOpen, FilesHoldKept, ManifestHolds,
     ReportsTell, ScriptIsOpen, Diversifier!Varied, Diversifier!Absent, Diversifier!FromOpenSession, Asking, Storing

(***************************************************************************)
(* The steps.                                                              *)
(***************************************************************************)

LEMMA NextList ==
  ASSUME NEW m, Diversifier!OfVaried(m)
  PROVE  /\ meta' = m => Diversifier!OfVaried(meta)'
         /\ bundle' = m => Diversifier!OfVaried(bundle)'
<1>1. PICK texts \in [DOMAIN m.seeds -> Value] :
          Diversifier!Varied(texts) /\ m.seeds = Diversifier!Finals(m.encoding, texts)
  BY Zenon DEF Diversifier!OfVaried
<1>2. Diversifier!Varied(texts)'
  BY <1>1 DEF Diversifier!Varied
<1>3. ASSUME meta' = m PROVE Diversifier!OfVaried(meta)'
  <2>1. (texts \in [DOMAIN meta.seeds -> Value] /\ meta.seeds = Diversifier!Finals(meta.encoding, texts))'
    BY <1>1, <1>3 DEF Diversifier!Finals, Diversifier!Final
  <2> QED
    BY <1>2, <2>1, Zenon DEF Diversifier!OfVaried
<1>4. ASSUME bundle' = m PROVE Diversifier!OfVaried(bundle)'
  <2>1. (texts \in [DOMAIN bundle.seeds -> Value] /\ bundle.seeds = Diversifier!Finals(bundle.encoding, texts))'
    BY <1>1, <1>4 DEF Diversifier!Finals, Diversifier!Final
  <2> QED
    BY <1>2, <2>1, Zenon DEF Diversifier!OfVaried
<1> QED
  BY <1>3, <1>4

LEMMA SameLists ==
  /\ meta' = meta /\ Diversifier!OfVaried(meta) => Diversifier!OfVaried(meta)'
  /\ bundle' = bundle /\ Diversifier!OfVaried(bundle) => Diversifier!OfVaried(bundle)'
  BY NextList

(* The seeds kept are what their list says.                                *)
LEMMA KeptAreOf == ASSUME KeptAreVaried PROVE Diversifier!OfVaried(Diversifier!OfSeeds(session, setup.encoding, kept))
<1> DEFINE m == Diversifier!OfSeeds(session, setup.encoding, kept)
<1>1. m.seeds = Diversifier!Finals(setup.encoding, kept) /\ m.encoding = setup.encoding
  BY DEF Diversifier!OfSeeds
<1>2. DOMAIN m.seeds = DOMAIN kept
  BY <1>1 DEF Diversifier!Finals
<1>3. kept \in [DOMAIN m.seeds -> Value] /\ Diversifier!Varied(kept)
  BY <1>2 DEF KeptAreVaried
<1> HIDE DEF m
<1>4. Diversifier!OfVaried(m)
  BY <1>1, <1>3, Zenon DEF Diversifier!OfVaried
<1> QED
  BY <1>4 DEF m

(* The seeds are kept, and so are the files: only the place changes.       *)
Onward ==
    {<<"dimensions", "script">>, <<"dimensions", "seeds">>, <<"seeds", "add">>, <<"add", "seeds">>,
     <<"seeds", "bundle">>, <<"seeds", "save">>, <<"script", "run">>}

LEMMA PlaceOnly ==
  ASSUME DiversifierInv, UNCHANGED <<session, setup, kept, saved, corpus, loose, meta, bundle, ended>>,
         spot # "out", spot' \in {spot, "out"} \/ <<spot, spot'>> \in Onward
  PROVE  DiversifierInv'
<1>. USE DEF DiversifierInv, Onward, Asking, Storing
<1>1. Counted'
  BY DEF Counted
<1>2. KeptAreVaried'
  BY DEF KeptAreVaried, Diversifier!Varied
<1>3. LooseIsOpen'
  BY DEF LooseIsOpen
<1>4. FilesHoldKept'
  BY DEF FilesHoldKept, Written, Diversifier!File, Diversifier!Final, KeptAreVaried
<1>5. ManifestHolds'
  BY SameLists DEF ManifestHolds, Holds
<1>6. ReportsTell'
  BY SameLists DEF ReportsTell, ScriptIsOpen, Diversifier!FromOpenSession
<1>. QED
  BY <1>1, <1>2, <1>3, <1>4, <1>5, <1>6

LEMMA SameManifest ==
  ASSUME UNCHANGED <<corpus, meta, ended>>
  PROVE  /\ (\A i \in DOMAIN meta.seeds : Holds(i)) => (\A i \in DOMAIN meta.seeds : Holds(i))'
         /\ Diversifier!OfVaried(meta) => Diversifier!OfVaried(meta)'
<1>1. (\A i \in DOMAIN meta.seeds : Holds(i)) => (\A i \in DOMAIN meta.seeds : Holds(i))'
  BY DEF Holds
<1> QED
  BY <1>1, SameLists

LEMMA BeginKeeps == ASSUME DiversifierInv, NEW s \in Setups, Diversifier!Begin(s) PROVE DiversifierInv'
<1>. USE DEF DiversifierInv, Asking, Storing
<1>1. /\ session' = session + 1 /\ spot' \in {"script", "dimensions"} /\ kept' = <<>> /\ saved' = 0
      /\ UNCHANGED <<corpus, loose, meta, bundle, ended>> /\ session \in Nat /\ ended \subseteq 1 .. session
  BY DEF Diversifier!Begin, Diversifier!disk, Counted
<1>2. Counted'
  BY <1>1 DEF Counted
<1>3. KeptAreVaried'
  BY <1>1 DEF KeptAreVaried, Diversifier!Varied
<1>4. LooseIsOpen'
  BY <1>1 DEF LooseIsOpen
<1>5. FilesHoldKept'
  BY <1>1 DEF FilesHoldKept, Counted
<1>6. ManifestHolds'
  <2>1. meta.kind = "seeds" =>
            /\ meta.session \in 1 .. session /\ Diversifier!OfVaried(meta)
            /\ \A i \in DOMAIN meta.seeds : Holds(i)
    BY DEF ManifestHolds
  <2>2. meta.session \in 1 .. session => meta.session \in 1 .. session + 1 /\ meta.session < session + 1
    BY <1>1
  <2>. QED
    BY <1>1, <2>1, <2>2, SameManifest DEF ManifestHolds
<1>7. ReportsTell'
  BY <1>1, SameLists DEF ReportsTell, ScriptIsOpen, Diversifier!FromOpenSession
<1>. QED
  BY <1>2, <1>3, <1>4, <1>5, <1>6, <1>7

LEMMA MaybeAddKeeps == ASSUME DiversifierInv, NEW v \in Value, Diversifier!MaybeAdd(v) PROVE DiversifierInv'
<1>. USE DEF DiversifierInv, Asking, Storing
<1>1. /\ spot = "add" /\ UNCHANGED <<session, spot, saved, corpus, loose, meta, bundle, ended>>
      /\ kept' = IF Diversifier!Accepts(v) THEN Append(kept, v) ELSE kept
  BY DEF Diversifier!MaybeAdd, Diversifier!disk
<1>2. KeptAreVaried'
  <2>1. CASE kept' = kept
    BY <2>1 DEF KeptAreVaried, Diversifier!Varied
  <2>2. CASE Diversifier!Accepts(v) /\ kept' = Append(kept, v)
    <3>1. v # Blank /\ \A i \in DOMAIN kept : <<v, kept[i]>> \notin Alike
      BY <2>2 DEF Diversifier!Accepts, Diversifier!Similar
    <3>2. kept \in Seq(Value) /\ kept' \in Seq(Value) /\ Diversifier!Varied(kept)
      BY <2>2 DEF KeptAreVaried
    <3>3. ASSUME NEW i \in DOMAIN kept' PROVE kept'[i] # Blank /\ \A j \in 1 .. i - 1 : <<kept'[i], kept'[j]>> \notin Alike
      <4>1. CASE i \in DOMAIN kept
        BY <2>2, <3>2, <4>1 DEF Diversifier!Varied
      <4>2. CASE i = Len(kept) + 1
        BY <2>2, <3>1, <3>2, <4>2
      <4>. QED
        BY <2>2, <3>2, <4>1, <4>2
    <3>. QED
      BY <3>2, <3>3 DEF KeptAreVaried, Diversifier!Varied
  <2>. QED
    BY <1>1, <2>1, <2>2
<1>3. Counted' /\ LooseIsOpen' /\ FilesHoldKept'
  BY <1>1 DEF Counted, LooseIsOpen, FilesHoldKept
<1>4. ManifestHolds'
  BY <1>1, SameLists DEF ManifestHolds, Holds
<1>5. ReportsTell'
  BY <1>1, SameLists DEF ReportsTell, ScriptIsOpen, Diversifier!FromOpenSession
<1>. QED
  BY <1>2, <1>3, <1>4, <1>5

(* A file of the running session is written over whatever was there.       *)
LEMMA Overwritten ==
  ASSUME Counted, ManifestHolds, spot # "out", UNCHANGED <<session, meta, ended>>, NEW files,
         DOMAIN corpus' = DOMAIN corpus \cup files,
         \A i \in files : corpus'[i].session = session,
         \A i \in DOMAIN corpus \ files : corpus'[i] = corpus[i]
  PROVE  ManifestHolds'
<1>. SUFFICES ASSUME meta.kind = "seeds" PROVE ManifestHolds'
  BY DEF ManifestHolds
<1>1. /\ meta.session \in 1 .. session /\ meta.session < session /\ Diversifier!OfVaried(meta)
      /\ session \notin ended
  BY DEF Counted, ManifestHolds
<1>2. ASSUME NEW i \in DOMAIN meta.seeds PROVE Holds(i)'
  <2>1. Holds(i)
    BY DEF ManifestHolds
  <2>2. CASE i \in files
    BY <1>1, <2>2 DEF Holds
  <2>3. CASE i \notin files
    BY <2>1, <2>3 DEF Holds
  <2>. QED
    BY <2>2, <2>3
<1>3. Diversifier!OfVaried(meta)'
  BY <1>1, SameLists
<1>. QED
  BY <1>1, <1>2, <1>3 DEF ManifestHolds

LEMMA SaveKeeps == ASSUME DiversifierInv, Diversifier!OpenSeed \/ Diversifier!WriteSeed PROVE DiversifierInv'
<1>. USE DEF DiversifierInv, Asking, Storing
<1>1. UNCHANGED <<session, setup, kept, loose, meta, bundle, ended>>
  BY DEF Diversifier!OpenSeed, Diversifier!WriteSeed, Diversifier!Saving
<1>2. PICK v \in {Blank, Diversifier!Final(setup.encoding, kept[saved + 1])} :
          /\ corpus' = Diversifier!With(corpus, saved + 1, Diversifier!File(v))
          /\ \/ spot = "save" /\ spot' = "write" /\ saved < Len(kept) /\ saved' = saved
             \/ spot = "write" /\ spot' = "save" /\ saved' = saved + 1
                /\ v = Diversifier!Final(setup.encoding, kept[saved + 1])
  BY DEF Diversifier!OpenSeed, Diversifier!WriteSeed
<1>3. /\ DOMAIN corpus' = DOMAIN corpus \cup {saved + 1} /\ corpus'[saved + 1] = Diversifier!File(v)
      /\ \A i \in DOMAIN corpus \ {saved + 1} : corpus'[i] = corpus[i]
  BY <1>2 DEF Diversifier!With
<1>4. corpus'[saved + 1].session = session /\ session \in 1 .. session
  BY <1>2, <1>3 DEF Diversifier!File, Counted
<1>5. Counted'
  BY <1>1, <1>2, <1>3, <1>4 DEF Counted
<1>6. KeptAreVaried'
  BY <1>1 DEF KeptAreVaried, Diversifier!Varied
<1>7. LooseIsOpen'
  BY <1>1, <1>2 DEF LooseIsOpen
<1>8. FilesHoldKept'
  <2>1. /\ saved \in 0 .. Len(kept) /\ saved < Len(kept) /\ Len(kept) \in Nat
        /\ \A i \in 1 .. saved : i \in DOMAIN corpus /\ corpus[i] = Written(i)
    BY <1>2 DEF FilesHoldKept, KeptAreVaried
  <2>2. \A i \in 1 .. saved : i \in DOMAIN corpus' /\ corpus'[i] = Written(i)
    BY <1>3, <2>1
  <2>3. spot' = "save" => saved + 1 \in DOMAIN corpus' /\ corpus'[saved + 1] = Written(saved + 1)
    BY <1>2, <1>3 DEF Written
  <2>4. saved' \in 0 .. Len(kept) /\ (spot' = "write" => saved' < Len(kept))
    BY <1>2, <2>1
  <2>5. \A i \in 1 .. saved' : i \in DOMAIN corpus' /\ corpus'[i] = Written(i)
    BY <1>2, <2>1, <2>2, <2>3
  <2>6. \A i \in 1 .. saved' : i \in DOMAIN corpus' /\ corpus'[i] = Written(i)'
    BY <1>1, <2>5 DEF Written, Diversifier!File, Diversifier!Final
  <2>. QED
    BY <1>1, <1>2, <2>4, <2>6 DEF FilesHoldKept
<1>9. ManifestHolds'
  <2>1. PICK files : files = {saved + 1}
    OBVIOUS
  <2>2. /\ DOMAIN corpus' = DOMAIN corpus \cup files
        /\ \A i \in files : corpus'[i].session = session
        /\ \A i \in DOMAIN corpus \ files : corpus'[i] = corpus[i]
    BY <1>3, <1>4, <2>1
  <2>3. spot # "out" /\ Counted /\ ManifestHolds /\ UNCHANGED <<session, meta, ended>>
    BY <1>1, <1>2
  <2>. HIDE DEF DiversifierInv
  <2>. QED
    BY <2>2, <2>3, Overwritten, Zenon
<1>10. ReportsTell'
  BY <1>1, <1>2, SameLists DEF ReportsTell, ScriptIsOpen, Diversifier!FromOpenSession
<1>. QED
  BY <1>5, <1>6, <1>7, <1>8, <1>9, <1>10

LEMMA OpenManifestKeeps == ASSUME DiversifierInv, Diversifier!OpenManifest PROVE DiversifierInv'
<1>. USE DEF DiversifierInv, Asking, Storing
<1>1. /\ spot = "save" /\ saved = Len(kept) /\ spot' = "manifest" /\ meta' = Diversifier!Torn
      /\ UNCHANGED <<session, setup, kept, saved, corpus, loose, bundle, ended>>
  BY DEF Diversifier!OpenManifest, Diversifier!Saving
<1>2. meta'.kind = "torn"
  BY <1>1 DEF Diversifier!Torn
<1>3. Counted' /\ LooseIsOpen' /\ ManifestHolds'
  BY <1>1, <1>2 DEF Counted, LooseIsOpen, ManifestHolds
<1>4. KeptAreVaried' /\ FilesHoldKept'
  BY <1>1 DEF KeptAreVaried, FilesHoldKept, Written, Diversifier!Varied, Diversifier!File, Diversifier!Final
<1>5. ReportsTell'
  BY <1>1, <1>2, SameLists DEF ReportsTell, ScriptIsOpen, Diversifier!FromOpenSession
<1>. QED
  BY <1>3, <1>4, <1>5

LEMMA WriteManifestKeeps == ASSUME DiversifierInv, Diversifier!WriteManifest PROVE DiversifierInv'
<1>. USE DEF DiversifierInv, Asking, Storing
<1>1. /\ spot = "manifest" /\ spot' = "out" /\ ended' = ended \cup {session} /\ session \in 1 .. session
      /\ meta' = Diversifier!OfSeeds(session, setup.encoding, kept) /\ saved = Len(kept)
      /\ UNCHANGED <<session, kept, saved, corpus, loose, bundle>>
  BY DEF Diversifier!WriteManifest, Diversifier!End, Diversifier!Saving, Counted, FilesHoldKept
<1>2. /\ meta'.kind = "seeds" /\ meta'.session = session
      /\ meta'.seeds = Diversifier!Finals(setup.encoding, kept)
  BY <1>1 DEF Diversifier!OfSeeds
<1>3. Counted' /\ LooseIsOpen'
  BY <1>1 DEF Counted, LooseIsOpen
<1>4. KeptAreVaried' /\ FilesHoldKept'
  BY <1>1 DEF KeptAreVaried, FilesHoldKept, Diversifier!Varied
<1>5. ManifestHolds'
  <2>1. Diversifier!OfVaried(meta)'
    BY <1>1, KeptAreOf, NextList
  <2>2. ASSUME NEW i \in DOMAIN kept PROVE Holds(i)'
    <3>1. i \in 1 .. saved
      BY <1>1 DEF KeptAreVaried
    <3>2. i \in DOMAIN corpus /\ corpus[i] = [value |-> meta'.seeds[i], session |-> session]
      BY <1>1, <1>2, <3>1 DEF FilesHoldKept, Written, Diversifier!File, Diversifier!Finals
    <3>. QED
      BY <1>1, <1>2, <3>2 DEF Holds
  <2>3. DOMAIN meta'.seeds = DOMAIN kept
    BY <1>2 DEF Diversifier!Finals
  <2>. QED
    BY <1>1, <1>2, <2>1, <2>2, <2>3 DEF ManifestHolds
<1>6. ReportsTell'
  BY <1>1, <1>2, SameLists DEF ReportsTell, ScriptIsOpen, Diversifier!FromOpenSession
<1>. QED
  BY <1>3, <1>4, <1>5, <1>6

LEMMA OpenBundleKeeps == ASSUME DiversifierInv, Diversifier!OpenBundle PROVE DiversifierInv'
<1>. USE DEF DiversifierInv, Asking, Storing
<1>1. /\ \/ spot = "bundle" /\ spot' = "dump"
         \/ spot = "report" /\ spot' = "dumpReport"
      /\ bundle' = Diversifier!Torn /\ UNCHANGED <<session, kept, saved, corpus, loose, meta, ended>>
  BY DEF Diversifier!OpenBundle, Diversifier!Saving
<1>2. bundle'.kind = "torn"
  BY <1>1 DEF Diversifier!Torn
<1>3. Counted' /\ LooseIsOpen'
  BY <1>1 DEF Counted, LooseIsOpen
<1>4. KeptAreVaried' /\ FilesHoldKept'
  BY <1>1 DEF KeptAreVaried, FilesHoldKept, Diversifier!Varied
<1>5. ManifestHolds'
  BY <1>1, SameManifest DEF ManifestHolds
<1>6. ReportsTell'
  BY <1>1, <1>2 DEF ReportsTell, ScriptIsOpen, Diversifier!FromOpenSession
<1>. QED
  BY <1>3, <1>4, <1>5, <1>6

(* The end of a session changes nothing of what older ones left, as long   *)
(* as it left no file beside an older list of seeds.                       *)
LEMMA EndKeeps ==
  ASSUME DiversifierInv, spot # "out", spot' = "out", ended' = ended \cup {session},
         UNCHANGED <<session, kept, saved, corpus, meta>>,
         (loose' = loose /\ (loose.kind = "valid" => loose.by < session)) \/ loose'.kind = "absent",
         meta.kind = "seeds" => \A i \in DOMAIN corpus : corpus[i].session < session,
         bundle' = bundle \/ bundle' = meta \/ bundle' = Diversifier!OfSeeds(session, setup.encoding, kept)
  PROVE  DiversifierInv'
<1>. USE DEF DiversifierInv, Asking, Storing
<1>1. session \in 1 .. session /\ session \notin ended
  BY DEF Counted
<1>2. Counted' /\ LooseIsOpen'
  BY <1>1 DEF Counted, LooseIsOpen
<1>3. KeptAreVaried' /\ FilesHoldKept'
  BY DEF KeptAreVaried, FilesHoldKept, Diversifier!Varied
<1>4. ManifestHolds'
  <2>. SUFFICES ASSUME meta.kind = "seeds" PROVE ManifestHolds'
    BY DEF ManifestHolds
  <2>1. meta.session \in 1 .. session /\ Diversifier!OfVaried(meta)
    BY DEF ManifestHolds
  <2>2. ASSUME NEW i \in DOMAIN meta.seeds PROVE Holds(i)'
    <3>1. Holds(i)
      BY DEF ManifestHolds
    <3>2. corpus[i].session < session
      BY <3>1 DEF Holds
    <3>. QED
      BY <1>1, <3>1, <3>2 DEF Holds
  <2>3. Diversifier!OfVaried(meta)'
    BY <2>1, SameLists
  <2>. QED
    BY <2>1, <2>2, <2>3 DEF ManifestHolds
<1>5. ReportsTell'
  <2>1. ASSUME NEW m, ScriptIsOpen(m) PROVE ScriptIsOpen(m)'
    BY <1>1, <2>1 DEF ScriptIsOpen, Diversifier!FromOpenSession
  <2>2. bundle' = Diversifier!OfSeeds(session, setup.encoding, kept) => bundle'.kind = "seeds"
    BY DEF Diversifier!OfSeeds
  <2>3. ScriptIsOpen(meta)'
    BY <2>1 DEF ReportsTell, ScriptIsOpen, Diversifier!FromOpenSession
  <2>4. ScriptIsOpen(bundle)'
    BY <2>1, <2>2, <2>3 DEF ReportsTell, ScriptIsOpen, Diversifier!FromOpenSession
  <2>5. bundle'.kind = "seeds" => Diversifier!OfVaried(bundle)'
    <3>1. CASE bundle' = bundle
      BY <3>1, SameLists DEF ReportsTell
    <3>2. CASE bundle' = meta
      BY <3>2, NextList DEF ManifestHolds
    <3>3. CASE bundle' = Diversifier!OfSeeds(session, setup.encoding, kept)
      BY <3>3, KeptAreOf, NextList
    <3>. QED
      BY <3>1, <3>2, <3>3
  <2>. QED
    BY <2>3, <2>4, <2>5 DEF ReportsTell
<1>. QED
  BY <1>2, <1>3, <1>4, <1>5

LEMMA WriteBundleKeeps == ASSUME DiversifierInv, Diversifier!WriteBundle PROVE DiversifierInv'
<1>1. /\ spot \in {"dump", "dumpReport"} /\ spot' = "out" /\ ended' = ended \cup {session}
      /\ bundle' = meta \/ bundle' = Diversifier!OfSeeds(session, setup.encoding, kept)
      /\ UNCHANGED <<session, kept, saved, corpus, loose, meta>>
  BY DEF Diversifier!WriteBundle, Diversifier!End, Diversifier!Saving
<1>2. loose.kind = "valid" => loose.by < session
  BY <1>1 DEF DiversifierInv, LooseIsOpen, Asking
<1>3. meta.kind = "seeds" => \A i \in DOMAIN corpus : corpus[i].session < session
  BY <1>1 DEF DiversifierInv, FilesHoldKept, ReportsTell, Asking
<1>. QED
  BY <1>1, <1>2, <1>3, EndKeeps

(***************************************************************************)
(* A script.                                                               *)
(***************************************************************************)
LEMMA RunScriptKeeps ==
  ASSUME DiversifierInv, NEW files, NEW manifest \in {"none", "invalid", "valid"}, NEW succeeds \in BOOLEAN,
         Diversifier!RunScript(files, manifest, succeeds)
  PROVE  DiversifierInv'
<1>. USE DEF DiversifierInv, Asking, Storing
<1>1. /\ spot = "run" /\ spot' \in {"validate", "out", "script"}
      /\ UNCHANGED <<session, kept, saved, meta, bundle, ended>>
      /\ loose' = loose \/ loose' = [kind |-> manifest, by |-> session]
  BY DEF Diversifier!RunScript, Diversifier!ScriptFails
<1>2. corpus' = [i \in DOMAIN corpus \cup files |-> IF i \in files THEN Diversifier!File(Blank) ELSE corpus[i]]
  BY DEF Diversifier!RunScript
<1>3. /\ DOMAIN corpus' = DOMAIN corpus \cup files
      /\ \A i \in files : corpus'[i].session = session
      /\ \A i \in DOMAIN corpus \ files : corpus'[i] = corpus[i]
  BY <1>2 DEF Diversifier!File
<1>4. session \in 1 .. session /\ session \notin ended
  BY <1>1 DEF Counted
<1>5. Counted'
  BY <1>1, <1>3, <1>4 DEF Counted
<1>6. KeptAreVaried' /\ FilesHoldKept'
  BY <1>1 DEF KeptAreVaried, FilesHoldKept, Diversifier!Varied
<1>7. LooseIsOpen'
  BY <1>1, <1>4 DEF LooseIsOpen
<1>8. ManifestHolds'
  <2>1. spot # "out" /\ Counted /\ ManifestHolds
    BY <1>1
  <2>2. UNCHANGED <<session, meta, ended>>
    BY <1>1
  <2>. HIDE DEF DiversifierInv
  <2>. QED
    BY <1>3, <2>1, <2>2, Overwritten, Zenon
<1>9. ReportsTell'
  BY <1>1, SameLists DEF ReportsTell, ScriptIsOpen, Diversifier!FromOpenSession
<1>. QED
  BY <1>5, <1>6, <1>7, <1>8, <1>9

LEMMA ValidateKeeps == ASSUME DiversifierInv, Diversifier!Validate PROVE DiversifierInv'
<1>. USE DEF DiversifierInv, Asking, Storing
<1>1. /\ spot = "validate" /\ UNCHANGED <<session, kept, saved, corpus, loose, bundle, ended>>
      /\ \/ loose.kind = "valid" /\ spot' = "move" /\ meta' = Diversifier!Torn
         \/ spot' \in {"out", "script"} /\ meta' = meta
  BY DEF Diversifier!Validate, Diversifier!ScriptFails, Diversifier!Validating
<1>2. meta' = Diversifier!Torn => meta'.kind = "torn"
  BY DEF Diversifier!Torn
<1>3. Counted' /\ LooseIsOpen'
  BY <1>1 DEF Counted, LooseIsOpen
<1>4. KeptAreVaried' /\ FilesHoldKept'
  BY <1>1 DEF KeptAreVaried, FilesHoldKept, Diversifier!Varied
<1>5. ManifestHolds'
  <2>1. CASE meta' = meta
    BY <1>1, <2>1, SameManifest DEF ManifestHolds
  <2>2. CASE meta'.kind = "torn"
    BY <2>2 DEF ManifestHolds
  <2>. QED
    BY <1>1, <1>2, <2>1, <2>2
<1>6. ReportsTell'
  BY <1>1, <1>2, SameLists DEF ReportsTell, ScriptIsOpen, Diversifier!FromOpenSession
<1>. QED
  BY <1>3, <1>4, <1>5, <1>6

LEMMA MoveKeeps == ASSUME DiversifierInv, Diversifier!Move PROVE DiversifierInv'
<1>. USE DEF DiversifierInv, Asking, Storing
<1>1. /\ spot = "move" /\ spot' = "unlink" /\ meta' = Diversifier!OfScript(session, loose.by)
      /\ UNCHANGED <<session, kept, saved, corpus, loose, bundle, ended>>
  BY DEF Diversifier!Move, Diversifier!Validating
<1>2. meta'.kind = "script" /\ meta'.session = session /\ meta'.by = loose.by
  BY <1>1 DEF Diversifier!OfScript
<1>3. session \in 1 .. session /\ loose.by \in (1 .. session) \ ended
  BY <1>1 DEF Counted, LooseIsOpen
<1>4. Counted' /\ LooseIsOpen' /\ ManifestHolds'
  BY <1>1, <1>2 DEF Counted, LooseIsOpen, ManifestHolds
<1>5. KeptAreVaried' /\ FilesHoldKept'
  BY <1>1 DEF KeptAreVaried, FilesHoldKept, Diversifier!Varied
<1>6. ReportsTell'
  BY <1>1, <1>2, <1>3, SameLists DEF ReportsTell, ScriptIsOpen, Diversifier!FromOpenSession
<1>. QED
  BY <1>4, <1>5, <1>6

LEMMA UnlinkKeeps == ASSUME DiversifierInv, Diversifier!Unlink PROVE DiversifierInv'
<1>1. /\ spot = "unlink" /\ UNCHANGED <<session, kept, saved, corpus, meta, bundle>>
      /\ loose' = Diversifier!Absent
      /\ \/ spot' = "report" /\ UNCHANGED ended
         \/ spot' = "out" /\ ended' = ended \cup {session}
  BY DEF Diversifier!Unlink, Diversifier!Taken, Diversifier!End, Diversifier!Validating
<1>2. loose'.kind = "absent" /\ meta.kind = "script"
  BY <1>1 DEF Diversifier!Absent, DiversifierInv, ReportsTell
<1>3. CASE spot' = "out" /\ ended' = ended \cup {session}
  BY <1>1, <1>2, <1>3, EndKeeps
<1>4. CASE spot' = "report" /\ UNCHANGED ended
  <2>. USE DEF DiversifierInv, Asking, Storing
  <2>1. Counted' /\ LooseIsOpen' /\ ManifestHolds'
    BY <1>1, <1>2, <1>4 DEF Counted, LooseIsOpen, ManifestHolds
  <2>2. KeptAreVaried' /\ FilesHoldKept'
    BY <1>1, <1>4 DEF KeptAreVaried, FilesHoldKept, Diversifier!Varied
  <2>3. ReportsTell'
    BY <1>1, <1>2, <1>4, SameLists DEF ReportsTell, ScriptIsOpen, Diversifier!FromOpenSession
  <2>. QED
    BY <2>1, <2>2, <2>3
<1>. QED
  BY <1>1, <1>3, <1>4

(***************************************************************************)
(* The specification.                                                      *)
(***************************************************************************)
LEMMA QuietKeeps ==
  ASSUME DiversifierInv, NEW n, NEW long \in BOOLEAN,
         \/ Diversifier!RequestFails \/ Diversifier!Dies \/ Diversifier!Dimensions(n, long) \/ Diversifier!Items(n)
         \/ Diversifier!Added \/ Diversifier!Save \/ Diversifier!Code
  PROVE  DiversifierInv'
<1>1. UNCHANGED <<session, setup, kept, saved, corpus, loose, meta, bundle, ended>>
  BY DEF Diversifier!RequestFails, Diversifier!Dies, Diversifier!Dimensions, Diversifier!Items, Diversifier!Added,
     Diversifier!Save, Diversifier!Code, Diversifier!Asked, Diversifier!disk
<1>2. spot # "out" /\ (spot' \in {spot, "out"} \/ <<spot, spot'>> \in Onward)
  BY DEF Diversifier!RequestFails, Diversifier!Dies, Diversifier!Dimensions, Diversifier!Items, Diversifier!Added,
     Diversifier!Save, Diversifier!Code, Onward
<1>. QED
  BY <1>1, <1>2, PlaceOnly

LEMMA NextDiversifier ==
  ASSUME DiversifierInv, [Diversifier!Next]_Diversifier!diversifierVars
  PROVE  DiversifierInv'
<1>1. CASE UNCHANGED Diversifier!diversifierVars
  <2>1. UNCHANGED <<session, spot, setup, kept, saved, corpus, loose, meta, bundle, ended>>
    BY <1>1 DEF Diversifier!diversifierVars
  <2>2. CASE spot = "out"
    <3>. USE DEF DiversifierInv, Asking, Storing
    <3>1. Counted' /\ LooseIsOpen'
      BY <2>1 DEF Counted, LooseIsOpen
    <3>2. KeptAreVaried' /\ FilesHoldKept'
      BY <2>1, <2>2 DEF KeptAreVaried, FilesHoldKept, Diversifier!Varied
    <3>3. ManifestHolds'
      BY <2>1, SameManifest DEF ManifestHolds
    <3>4. ReportsTell'
      BY <2>1, SameLists DEF ReportsTell, ScriptIsOpen, Diversifier!FromOpenSession
    <3>. QED
      BY <3>1, <3>2, <3>3, <3>4
  <2>. QED
    BY <2>1, <2>2, PlaceOnly
<1>2. ASSUME NEW s \in Setups, Diversifier!Begin(s) PROVE DiversifierInv'
  BY <1>2, BeginKeeps
<1>3. CASE Diversifier!RequestFails \/ Diversifier!Dies \/ Diversifier!Added \/ Diversifier!Save \/ Diversifier!Code
  BY <1>3, QuietKeeps
<1>4. ASSUME NEW n, NEW long \in BOOLEAN, Diversifier!Dimensions(n, long) \/ Diversifier!Items(n)
      PROVE  DiversifierInv'
  BY <1>4, QuietKeeps
<1>5. ASSUME NEW v \in Value, Diversifier!MaybeAdd(v) PROVE DiversifierInv'
  BY <1>5, MaybeAddKeeps
<1>6. CASE Diversifier!OpenSeed \/ Diversifier!WriteSeed
  BY <1>6, SaveKeeps
<1>7. CASE Diversifier!OpenManifest
  BY <1>7, OpenManifestKeeps
<1>8. CASE Diversifier!WriteManifest
  BY <1>8, WriteManifestKeeps
<1>9. CASE Diversifier!OpenBundle
  BY <1>9, OpenBundleKeeps
<1>10. CASE Diversifier!WriteBundle
  BY <1>10, WriteBundleKeeps
<1>11. ASSUME NEW files, NEW manifest \in {"none", "invalid", "valid"}, NEW succeeds \in BOOLEAN,
              Diversifier!RunScript(files, manifest, succeeds)
       PROVE  DiversifierInv'
  BY <1>11, RunScriptKeeps
<1>12. CASE Diversifier!Validate
  BY <1>12, ValidateKeeps
<1>13. CASE Diversifier!Move
  BY <1>13, MoveKeeps
<1>14. CASE Diversifier!Unlink
  BY <1>14, UnlinkKeeps
<1>. QED
  BY <1>1, <1>2, <1>3, <1>4, <1>5, <1>6, <1>7, <1>8, <1>9, <1>10, <1>11, <1>12, <1>13, <1>14, Zenon
     DEF Diversifier!Next

(* A manifest lists what the files hold, and seeds that differ enough; and *)
(* a script's manifest is taken over only from a session that was broken   *)
(* off (save_as_files, maybe_add_seed, the move of the script's manifest). *)
THEOREM ManifestsAreTrue == Diversifier!Spec => []ManifestsTell
<1>1. DiversifierInv => ManifestsTell
  <2>. SUFFICES ASSUME DiversifierInv PROVE ManifestsTell
    OBVIOUS
  <2>1. Diversifier!FromOpenSession(meta) /\ Diversifier!FromOpenSession(bundle)
    BY DEF DiversifierInv, ReportsTell, ScriptIsOpen, Diversifier!FromOpenSession
  <2>2. /\ meta.kind = "seeds" => Diversifier!OfVaried(meta) /\ \A i \in DOMAIN meta.seeds : Holds(i)
        /\ bundle.kind = "seeds" => Diversifier!OfVaried(bundle)
    BY DEF DiversifierInv, ManifestHolds, ReportsTell
  <2>. QED
    BY <2>1, <2>2 DEF ManifestsTell, Diversifier!ManifestsTell, Holds
<1>. QED
  BY <1>1, InitDiversifier, NextDiversifier, PTL DEF Diversifier!Spec, Diversifier!diversifierVars, diversifierVars
=============================================================================
