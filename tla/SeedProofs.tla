----------------------------- MODULE SeedProofs -----------------------------
(* Theorems about SeedGeneration: no run overwrites what another left, the *)
(* last copy of a content stays, and what AFL passes over is explained,    *)
(* for every layout a script may leave; and about SeedRewards, at the end: *)
(* the reward that is fed once and that no scan passes over, and the saves *)
(* of two threads that keep both tables.                                   *)
EXTENDS SeedGeneration, SeedRewards, FiniteSetTheorems, WellFoundedInduction, TLAPS

USE GenerationAssumption

----------------------------------------------------------------------------
(* The least and the largest of a set of numbers.                          *)
Less == {p \in Nat \X Nat : p[1] < p[2]}

LEMMA LeastOf ==
    ASSUME NEW S \in SUBSET Nat, S # {}
    PROVE  \E m \in S : \A n \in S : m <= n
<1>1. IsWellFoundedOn(Less, Nat)
  <2>1. OpToRel(<, Nat) = Less
    BY DEF OpToRel, Less
  <2> QED
    BY <2>1, NatLessThanWellFounded
<1>2. PICK m \in S : \A n \in S : <<n, m>> \notin Less
  BY <1>1, WFMin
<1>3. ASSUME NEW n \in S PROVE m <= n
  <2>1. n \in Nat /\ m \in Nat /\ <<n, m>> \notin Less
    BY <1>2
  <2>2. ~(n < m)
    BY <2>1 DEF Less
  <2> QED
    BY <2>1, <2>2
<1> QED
  BY <1>3

LEMMA MaxOfBounded ==
    ASSUME NEW S \in SUBSET Int, S # {}, NEW b \in Int, \A x \in S : x <= b
    PROVE  Max(S) \in S /\ \A x \in S : x <= Max(S)
<1> DEFINE Gaps == {b - x : x \in S}
<1>1. Gaps \in SUBSET Nat /\ Gaps # {}
  <2>1. PICK x \in S : TRUE
    OBVIOUS
  <2>2. b - x \in Gaps
    BY <2>1
  <2> QED
    BY <2>2
<1> HIDE DEF Gaps
<1>2. PICK m \in Gaps : \A n \in Gaps : m <= n
  BY <1>1, LeastOf
<1>3. PICK x \in S : m = b - x
  BY DEF Gaps
<1>4. \A y \in S : x >= y
  <2> TAKE y \in S
  <2>1. b - y \in Gaps
    BY DEF Gaps
  <2>2. m <= b - y
    BY <1>2, <2>1
  <2> QED
    BY <1>3, <2>2
<1> QED
  BY <1>4 DEF Max

(* The search for a free number finds the first.                           *)
LEMMA FirstBeyond ==
    ASSUME NEW n \in Nat, NEW taken \in SUBSET Nat, NEW b \in Nat, \A k \in taken : k < b
    PROVE  /\ Beyond(n, taken) \in Nat /\ n <= Beyond(n, taken) /\ Beyond(n, taken) \notin taken
           /\ \A k \in Nat : n <= k /\ k < Beyond(n, taken) => k \in taken
<1> DEFINE S == taken \cup {n}
           top == Max(S)
           Free == {m \in Nat : n <= m /\ m \notin taken}
<1>1. top \in Nat /\ n <= top /\ \A k \in taken : k <= top
  <2>1. S \in SUBSET Int /\ S # {} /\ b + n \in Int /\ \A x \in S : x <= b + n
    OBVIOUS
  <2> HIDE DEF S
  <2>2. top \in S /\ \A x \in S : x <= top
    BY <2>1, MaxOfBounded
  <2> QED
    BY <2>2 DEF S
<1> HIDE DEF top
<1>2. top + 1 \in Free
  BY <1>1
<1>3. PICK m \in Free : \A k \in Free : m <= k
  <2>1. Free \in SUBSET Nat /\ Free # {}
    BY <1>2
  <2> HIDE DEF Free
  <2> QED
    BY <2>1, LeastOf
<1>4. m \in n .. top + 1 /\ m \notin taken /\ n .. m - 1 \subseteq taken
  <2>1. m \in Nat /\ n <= m /\ m <= top + 1 /\ m \notin taken
    BY <1>2, <1>3
  <2>2. ASSUME NEW k \in n .. m - 1 PROVE k \in taken
    <3>1. k \in Nat /\ n <= k /\ ~(m <= k)
      BY <2>1, <2>2
    <3>2. k \notin Free
      BY <1>3, <3>1
    <3> QED
      BY <3>1, <3>2
  <2> QED
    BY <1>1, <2>1, <2>2
<1>5. Beyond(n, taken) = CHOOSE x \in n .. top + 1 : x \notin taken /\ n .. x - 1 \subseteq taken
  BY DEF Beyond, top
<1>6. /\ Beyond(n, taken) \in n .. top + 1 /\ Beyond(n, taken) \notin taken
      /\ n .. Beyond(n, taken) - 1 \subseteq taken
  BY <1>4, <1>5
<1> QED
  BY <1>1, <1>6

----------------------------------------------------------------------------
(* The ids of a queue: bounded, so that there is a next one.               *)
Bounded ==
    /\ files \subseteq File /\ stuck \subseteq Nat
    /\ \E b \in Nat : (\A f \in files : f.id < b) /\ (\A n \in stuck : n < b)

LEMMA TopOfQueue ==
    ASSUME Bounded, NEW q \in Queue
    PROVE  /\ TopId(q) + 1 \in Nat /\ TopId(q) \in Int
           /\ \A f \in In(q) : f.id <= TopId(q)
           /\ TopId(q) = -1 \/ \E f \in In(q) : f.id = TopId(q)
<1> DEFINE S == {f.id : f \in In(q)} \cup {-1}
<1>1. PICK b \in Nat : \A f \in files : f.id < b
  BY DEF Bounded
<1>2. In(q) \subseteq files /\ \A f \in In(q) : f.id \in Nat
  BY DEF In, Bounded, File
<1>3. S \in SUBSET Int /\ S # {} /\ b \in Int /\ \A x \in S : x <= b
  BY <1>1, <1>2
<1>4. TopId(q) = Max(S)
  BY DEF TopId
<1>5. -1 \in S /\ (\A f \in In(q) : f.id \in S) /\ \A x \in S : x = -1 \/ \E f \in In(q) : x = f.id
  OBVIOUS
<1> HIDE DEF S
<1>6. Max(S) \in S /\ \A x \in S : x <= Max(S)
  BY <1>3, MaxOfBounded
<1>7. Max(S) \in Int /\ -1 <= Max(S)
  BY <1>3, <1>5, <1>6
<1> QED
  BY <1>2, <1>4, <1>5, <1>6, <1>7

LEMMA NextIdIsFresh ==
    ASSUME Bounded, NEW q \in Queue
    PROVE  /\ NextId(q) \in Nat /\ TopId(q) < NextId(q) /\ NextId(q) \notin Blocked(q)
           /\ \A k \in Nat : TopId(q) < k /\ k < NextId(q) => k \in Blocked(q)
<1>1. TopId(q) + 1 \in Nat /\ TopId(q) \in Int
  BY TopOfQueue
<1>2. PICK b \in Nat : Blocked(q) \in SUBSET Nat /\ \A k \in Blocked(q) : k < b
  BY DEF Bounded, Blocked
<1> DEFINE n == TopId(q) + 1
<1>3. /\ Beyond(n, Blocked(q)) \in Nat /\ n <= Beyond(n, Blocked(q)) /\ Beyond(n, Blocked(q)) \notin Blocked(q)
      /\ \A k \in Nat : n <= k /\ k < Beyond(n, Blocked(q)) => k \in Blocked(q)
  <2>1. n \in Nat
    BY <1>1
  <2> HIDE DEF n
  <2> QED
    BY <1>2, <2>1, FirstBeyond
<1>4. NextId(q) = Beyond(n, Blocked(q))
  BY DEF NextId
<1> QED
  BY <1>1, <1>3, <1>4

LEMMA SecondIsFresh ==
    ASSUME Bounded
    PROVE  /\ SecondId \in Nat /\ \A f \in In("target") : f.id < SecondId
           /\ \/ SecondId = 0 \/ SecondId - 1 \in stuck
              \/ \E f \in In("target") : f.id = SecondId - 1
<1> DEFINE S == {f.id : f \in In("target")} \cup stuck \cup {-1}
<1>1. PICK b \in Nat : (\A f \in files : f.id < b) /\ \A n \in stuck : n < b
  BY DEF Bounded
<1>2. In("target") \subseteq files /\ (\A f \in In("target") : f.id \in Nat) /\ stuck \subseteq Nat
  BY DEF In, Bounded, File
<1>3. S \in SUBSET Int /\ S # {} /\ b \in Int /\ \A x \in S : x <= b
  <2>1. \A f \in In("target") : f.id \in Int /\ f.id <= b
    BY <1>1, <1>2
  <2>2. \A n \in stuck : n \in Int /\ n <= b
    BY <1>1, <1>2
  <2>3. -1 \in Int /\ -1 <= b /\ b \in Int
    BY <1>1
  <2> QED
    BY <2>1, <2>2, <2>3
<1>4. SecondId = Max(S) + 1
  BY DEF SecondId
<1>5. /\ -1 \in S /\ \A f \in In("target") : f.id \in S
      /\ \A x \in S : x = -1 \/ x \in stuck \/ \E f \in In("target") : x = f.id
  OBVIOUS
<1> HIDE DEF S
<1>6. Max(S) \in S /\ \A x \in S : x <= Max(S)
  BY <1>3, MaxOfBounded
<1>7. Max(S) \in Int /\ -1 <= Max(S)
  BY <1>3, <1>5, <1>6
<1>8. SecondId - 1 = Max(S)
  BY <1>4, <1>7
<1> QED
  BY <1>2, <1>4, <1>5, <1>6, <1>7, <1>8

(* Two files share an id only as twins of a directory.                     *)
Distinct ==
    \A f, g \in files : f.q = g.q /\ f.id = g.id /\ f.aux # 1 /\ g.aux # 1 => f.aux = g.aux

(* Every id below the last of a queue's, or below AFL's cursor, has a file *)
(* or a directory or was freed.                                            *)
Known(q, n) == <<q, n>> \in freed \/ n \in Blocked(q) \/ \E f \in In(q) : f.id = n
Gapless ==
    \A q \in Queue, n \in Nat :
        n < cursor[q] \/ (\E f \in In(q) : n <= f.id) \/ (\E k \in Blocked(q) : n <= k) => Known(q, n)

IdInv == Bounded /\ cursor \in [Queue -> Nat] /\ Distinct /\ Gapless /\ SeenOrExplained

(* New files join the others, or take the name of one that has no company, *)
(* and leave no gap.                                                       *)
FitsIn(new) ==
    /\ \E b \in Nat : \A f \in new : f.id < b
    /\ \A f \in new, n \in Nat : n < f.id => Known(f.q, n) \/ \E g \in new : g.q = f.q /\ g.id = n
    /\ \A f \in new, g \in files \cup new :
         g.q = f.q /\ g.id = f.id /\ f.aux # 1 /\ g.aux # 1 => f.aux = g.aux
    /\ \A f \in new, g \in files :
         f.aux # 1 /\ g.q = f.q /\ g.id = f.id
             => g.aux = f.aux /\ \A h \in new : Name(h) = Name(f) => h = f

LEMMA NewFilesFit ==
    ASSUME IdInv, NEW new \in SUBSET File, FitsIn(new), UNCHANGED <<cursor, freed, stuck>>,
           files' = Stored(new), imported' = imported \cap files', replaced' = replaced \cup (files \ files')
    PROVE  IdInv'
<1>1. files' \subseteq files \cup new /\ new \subseteq files'
  BY DEF Stored
<1>2. \A g \in files \ files' : \E f \in new : Name(f) = Name(g)
  BY DEF Stored
<1>3. \A f \in files \cup new : f.id \in Nat /\ f.q \in Queue
  BY DEF IdInv, Bounded, File
<1>4. \A f, g : Name(f) = Name(g) <=> f.q = g.q /\ f.id = g.id /\ f.aux = g.aux
  BY DEF Name
<1>5. Bounded'
  <2>1. PICK b \in Nat : (\A f \in files : f.id < b) /\ \A n \in stuck : n < b
    BY DEF IdInv, Bounded
  <2>2. PICK c \in Nat : \A f \in new : f.id < c
    BY DEF FitsIn
  <2>3. PICK e \in Nat : b <= e /\ c <= e
    <3>1. b + c \in Nat /\ b <= b + c /\ c <= b + c
      OBVIOUS
    <3> QED
      BY <3>1
  <2>4. (\A f \in files' : f.id < e) /\ \A n \in stuck' : n < e
    BY <1>1, <1>3, <2>1, <2>2, <2>3 DEF IdInv, Bounded
  <2> QED
    BY <1>1, <2>4 DEF IdInv, Bounded
<1>6. Distinct'
  <2>1. \A f \in new, g \in files \cup new :
          g.q = f.q /\ g.id = f.id /\ f.aux # 1 /\ g.aux # 1 => f.aux = g.aux
    BY DEF FitsIn
  <2> QED
    BY <1>1, <2>1 DEF IdInv, Distinct
<1>7. ASSUME NEW q \in Queue, NEW n \in Nat, Known(q, n) PROVE Known(q, n)'
  <2>1. ASSUME NEW g \in files, g.q = q, g.id = n PROVE \E f \in files' : f.q = q /\ f.id = n
    BY <1>1, <1>2, <1>4, <2>1
  <2> QED
    BY <1>7, <2>1 DEF Known, In, Blocked
<1>8. Gapless'
  <2> SUFFICES ASSUME NEW q \in Queue, NEW n \in Nat,
                      \/ n < cursor[q] \/ \E k \in Blocked(q) : n <= k
                      \/ \E f \in files' : f.q = q /\ n <= f.id
               PROVE  Known(q, n)'
      BY DEF Gapless, In, Blocked
  <2>1. CASE n < cursor[q] \/ (\E k \in Blocked(q) : n <= k) \/ \E f \in files : f.q = q /\ n <= f.id
    BY <1>7, <2>1 DEF IdInv, Gapless, In
  <2>2. ASSUME NEW f \in new, f.q = q, n <= f.id PROVE Known(q, n)'
    <3>1. CASE n = f.id
      BY <1>1, <2>2, <3>1 DEF Known, In
    <3>2. CASE n < f.id
      <4>1. Known(q, n) \/ \E g \in new : g.q = q /\ g.id = n
        BY <2>2, <3>2 DEF FitsIn
      <4>2. ASSUME NEW g \in new, g.q = q, g.id = n PROVE Known(q, n)'
        BY <1>1, <4>2 DEF Known, In
      <4> QED
        BY <1>7, <4>1, <4>2
    <3> QED
      BY <1>3, <2>2, <3>1, <3>2
  <2> QED
    BY <1>1, <2>1, <2>2
<1>9. SeenOrExplained'
  <2> SUFFICES ASSUME NEW f \in files', f.id < cursor[f.q], f.aux # 1,
                      <<f.q, f.id>> \notin freed, f.id \notin Blocked(f.q)
               PROVE  f \in imported' \/ \E g \in replaced' : Name(g) = Name(f)
      BY DEF SeenOrExplained, Blocked
  <2>1. CASE f \in files
    BY <2>1 DEF IdInv, SeenOrExplained
  <2>2. CASE f \in new
    <3>1. Known(f.q, f.id)
      BY <1>1, <1>3 DEF IdInv, Gapless
    <3>2. PICK g \in files : g.q = f.q /\ g.id = f.id
      BY <3>1 DEF Known, In
    <3>3. Name(g) = Name(f) /\ \A h \in new : Name(h) = Name(f) => h = f
      BY <1>4, <2>2, <3>2 DEF FitsIn
    <3>4. CASE g \in files'
      <4>1. g \in new
        BY <2>2, <3>3, <3>4 DEF Stored
      <4> QED
        BY <2>1, <3>2, <3>3, <4>1
    <3> QED
      BY <3>3, <3>4
  <2> QED
    BY <1>1, <2>1, <2>2
<1> QED
  BY <1>5, <1>6, <1>8, <1>9 DEF IdInv

----------------------------------------------------------------------------
(* A run has its id to itself until its directory is flattened, but for    *)
(* its own leftovers if both queues are one.                               *)
Allotted ==
    pc \in {"move", "promote"} /\ run.dir # {} =>
        /\ \A n \in Nat : n < run.target => Known("target", n)
        /\ \A f \in In("target") :
             /\ f.id <= run.target
             /\ f.id = run.target => pc = "promote" /\ OneQueue /\ f \in run.moved /\ f.aux = 0

Inv == TypeOK /\ IdInv /\ Allotted

(* What a run leaves is added to what is there; what makes room is noted.  *)
Gathers ==
    /\ files \ files' \subseteq replaced' /\ replaced \subseteq replaced'
    /\ made' \subseteq made \cup Contents(files')
    /\ UNCHANGED <<setting, corpus>>

(* Files that bear a free id of a queue, no name of which is skipped but   *)
(* for a directory.                                                        *)
LEMMA FilesJoin ==
    ASSUME Inv, NEW q \in Queue, NEW new \in SUBSET File, NEW n \in Nat,
           \A f \in new : f.q = q /\ f.id = n,
           \A f, g \in new : f.aux # 1 /\ g.aux # 1 => f.aux = g.aux,
           TopId(q) < n, \A k \in Nat : TopId(q) < k /\ k < n => k \in Blocked(q),
           Fills(new), UNCHANGED <<setting, cursor, corpus, freed>>
    PROVE  /\ Gathers /\ files' = files \cup new /\ UNCHANGED <<imported, replaced>>
           /\ UNCHANGED stuck => IdInv'
           /\ files' \subseteq File /\ made' \subseteq Data
<1>1. Bounded /\ TopId(q) \in Int /\ (\A f \in In(q) : f.id <= TopId(q))
      /\ (TopId(q) = -1 \/ \E f \in In(q) : f.id = TopId(q))
  BY TopOfQueue DEF Inv, IdInv
<1>2. \A f \in files : f.q = q => f.id < n
  <2>1. \A f \in files : f.id \in Nat
    BY <1>1 DEF Bounded, File
  <2> QED
    BY <1>1, <2>1 DEF In
<1>3. Stored(new) = files \cup new
  <2>1. \A f \in new, g \in files : Name(g) # Name(f)
    BY <1>2 DEF Name
  <2> QED
    BY <2>1 DEF Stored
<1>4. files' = files \cup new /\ imported' = imported /\ replaced' = replaced
  BY <1>3 DEF Fills, Inv, TypeOK
<1>5. ASSUME UNCHANGED stuck PROVE IdInv'
  <2>1. FitsIn(new)
    <3>1. \E b \in Nat : \A f \in new : f.id < b
      <4>1. n + 1 \in Nat /\ n < n + 1
        OBVIOUS
      <4> QED
        BY <4>1
    <3>2. ASSUME NEW f \in new, NEW k \in Nat, k < f.id PROVE Known(f.q, k)
      <4>1. CASE TopId(q) < k
        BY <3>2, <4>1 DEF Known
      <4>2. CASE ~(TopId(q) < k)
        <5>1. PICK g \in In(q) : k <= g.id
          BY <1>1, <4>2
        <5> QED
          BY <3>2, <5>1 DEF Inv, IdInv, Gapless
      <4> QED
        BY <4>1, <4>2
    <3>3. \A f \in new, g \in files : ~(g.q = f.q /\ g.id = f.id)
      BY <1>2
    <3> QED
      BY <3>1, <3>2, <3>3 DEF FitsIn
  <2> QED
    BY <1>5, <2>1, NewFilesFit DEF Inv, Fills
<1>6. Contents(new) \subseteq Contents(files') /\ Contents(new) \subseteq Data
  BY <1>4 DEF Contents, File
<1> QED
  BY <1>4, <1>5, <1>6 DEF Gathers, Fills, Inv, TypeOK

(* A directory that stays behind keeps its id from being a gap.            *)
LEMMA DirectoryStays ==
    ASSUME IdInv, UNCHANGED <<files, imported, replaced, cursor, freed>>,
           stuck' = stuck \cup {NextId("target")}
    PROVE  IdInv'
<1> DEFINE n == NextId("target")
<1>1. /\ "target" \in Queue /\ n \in Nat
      /\ \A k \in Nat : TopId("target") < k /\ k < n => k \in Blocked("target")
  BY NextIdIsFresh DEF IdInv, Queue
<1>2. /\ TopId("target") \in Int
      /\ TopId("target") = -1 \/ \E f \in In("target") : f.id = TopId("target")
  BY <1>1, TopOfQueue DEF IdInv
<1>3. stuck' = stuck \cup {n}
  OBVIOUS
<1> HIDE DEF n
<1>4. Bounded'
  <2>1. PICK b \in Nat : (\A f \in files : f.id < b) /\ \A k \in stuck : k < b
    BY DEF IdInv, Bounded
  <2>2. PICK c \in Nat : b <= c /\ n < c
    <3>1. b + n + 1 \in Nat /\ b <= b + n + 1 /\ n < b + n + 1
      BY <1>1
    <3> QED
      BY <3>1
  <2>3. (\A f \in files : f.id < c) /\ \A k \in stuck' : k < c
    <3>1. stuck \subseteq Nat /\ \A f \in files : f.id \in Nat
      BY DEF IdInv, Bounded, File
    <3> QED
      BY <1>1, <1>3, <2>1, <2>2, <3>1
  <2> QED
    BY <1>1, <1>3, <2>3 DEF IdInv, Bounded
<1>5. \A q, k : Known(q, k) => Known(q, k)'
  BY <1>3 DEF Known, Blocked, In
<1>6. Gapless'
  <2> SUFFICES ASSUME NEW q \in Queue, NEW k \in Nat,
                      k < cursor[q] \/ (\E f \in In(q) : k <= f.id) \/ \E m \in Blocked(q)' : k <= m
               PROVE  Known(q, k)'
      BY DEF Gapless, In
  <2>1. CASE k < cursor[q] \/ (\E f \in In(q) : k <= f.id) \/ \E m \in Blocked(q) : k <= m
    BY <1>5, <2>1 DEF IdInv, Gapless
  <2>2. CASE q = "target" /\ k <= n
    <3>1. CASE k = n
      BY <1>3, <2>2, <3>1 DEF Known, Blocked
    <3>2. CASE k < n /\ TopId("target") < k
      BY <1>1, <1>5, <2>2, <3>2 DEF Known
    <3>3. CASE ~(TopId("target") < k)
      <4>1. \E f \in In("target") : k <= f.id
        BY <1>2, <3>3
      <4> QED
        BY <2>1, <2>2, <4>1
    <3> QED
      BY <1>1, <2>2, <3>1, <3>2, <3>3
  <2> QED
    BY <1>3, <2>1, <2>2 DEF Blocked
<1>7. SeenOrExplained'
  BY <1>3 DEF IdInv, SeenOrExplained, Blocked
<1> QED
  BY <1>4, <1>6, <1>7 DEF IdInv, Distinct

Records ==
    [dir : SUBSET Data, left : SUBSET Data, target : Nat, moved : SUBSET File,
     promoted : SUBSET File, cur : SUBSET File, stderr : BOOLEAN]

LEMMA Setup ==
    ASSUME TypeOK
    PROVE  /\ setting \in Setting /\ setting.data \subseteq Data
           /\ NoRun \in Records
           /\ FirstLoop \in [phase : {"errors", "empty"}, errs : 0 .. setting.errMax,
                             empties : 0 .. setting.emptyMax, dups : 0 .. setting.dupMax, zero : BOOLEAN]
<1>1. setting \in Setting
  BY DEF TypeOK
<1>2. /\ setting.data \subseteq Data
      /\ setting.errMax \in Nat /\ setting.emptyMax \in Nat /\ setting.dupMax \in Nat
  BY <1>1 DEF Setting
<1>3. NoRun \in Records
  BY DEF NoRun, Records
<1> QED
  BY <1>1, <1>2, <1>3 DEF FirstLoop

LEMMA ScriptGathers ==
    ASSUME Inv, UNCHANGED setting, NEW l \in setting.layouts, NEW err \in BOOLEAN,
           Script(l[1], l[2], err)
    PROVE  Gathers /\ Inv' /\ files \subseteq files'
<1>1. PICK D \in SUBSET setting.data, A \in SUBSET setting.data :
        /\ Fills(IF l[1] = "file"
                 THEN {[q |-> "target", id |-> NextId("target"), aux |-> NoAux, data |-> d] : d \in D}
                 ELSE {})
        /\ \/ /\ run' = [NoRun EXCEPT !.dir = IF l[1] = "dir" THEN D ELSE {}, !.left = A,
                                      !.target = NextId("target"), !.stderr = err]
              /\ Goes("move") /\ UNCHANGED <<loop, stuck>>
           \/ /\ run' = NoRun /\ loop' = FirstLoop
              /\ stuck' = IF l[1] = "dir" THEN stuck \cup {NextId("target")} ELSE stuck
              /\ Goes("idle")
  BY DEF Script
<1> DEFINE n == NextId("target")
           new == IF l[1] = "file"
                  THEN {[q |-> "target", id |-> n, aux |-> NoAux, data |-> d] : d \in D}
                  ELSE {}
<1>2. /\ n \in Nat /\ "target" \in Queue /\ TopId("target") < n /\ n \notin Blocked("target")
      /\ \A k \in Nat : TopId("target") < k /\ k < n => k \in Blocked("target")
  BY NextIdIsFresh DEF Inv, IdInv, Queue
<1>3. D \subseteq Data /\ A \subseteq Data
  BY Setup DEF Inv
<1>4. /\ new \in SUBSET File
      /\ \A f \in new : f.q = "target" /\ f.id = n /\ f.aux = NoAux
      /\ l[1] # "file" => new = {}
  BY <1>2, <1>3 DEF File, NoAux, Queue
<1>5. UNCHANGED <<setting, cursor, corpus, freed>>
  BY <1>1 DEF Script, Goes
<1>6. Fills(new)
  BY <1>1
<1>10. \/ /\ run' = [NoRun EXCEPT !.dir = IF l[1] = "dir" THEN D ELSE {}, !.left = A,
                                  !.target = n, !.stderr = err]
          /\ Goes("move") /\ UNCHANGED <<loop, stuck>>
       \/ /\ run' = NoRun /\ loop' = FirstLoop
          /\ stuck' = IF l[1] = "dir" THEN stuck \cup {n} ELSE stuck
          /\ Goes("idle")
  BY <1>1
<1>11. n = NextId("target")
  OBVIOUS
<1> HIDE DEF new, n
<1>7. /\ Gathers /\ files' = files \cup new /\ UNCHANGED <<imported, replaced>>
      /\ UNCHANGED stuck => IdInv'
      /\ files' \subseteq File /\ made' \subseteq Data
  BY <1>2, <1>4, <1>5, <1>6, FilesJoin
<1>8. CASE /\ run' = [NoRun EXCEPT !.dir = IF l[1] = "dir" THEN D ELSE {}, !.left = A,
                                   !.target = n, !.stderr = err]
           /\ Goes("move") /\ UNCHANGED <<loop, stuck>>
  <2>1. /\ run'.dir = (IF l[1] = "dir" THEN D ELSE {})
        /\ run'.target = n /\ run' \in Records
    BY <1>2, <1>3, <1>8, Setup DEF Inv, NoRun, Records
  <2>2. TypeOK'
    BY <1>5, <1>7, <1>8, <2>1 DEF TypeOK, Inv, Records, Goes
  <2>3. Allotted'
    <3>1. SUFFICES ASSUME run'.dir # {}
                   PROVE  /\ \A k \in Nat : k < n => Known("target", k)'
                          /\ \A f \in In("target")' : f.id < n
      <4>1. ASSUME \A f \in In("target")' : f.id < n
            PROVE  \A f \in In("target")' : f.id <= n /\ f.id # n
        <5>1. \A f \in In("target")' : f.id \in Nat
          BY <1>7 DEF In, File
        <5> QED
          BY <1>2, <4>1, <5>1
      <4> QED
        BY <2>1, <4>1 DEF Allotted
    <3>2. files' = files
      BY <1>4, <1>7, <2>1, <3>1
    <3>3. /\ TopId("target") \in Int /\ \A f \in In("target") : f.id <= TopId("target")
          /\ TopId("target") = -1 \/ \E f \in In("target") : f.id = TopId("target")
      BY <1>2, TopOfQueue DEF Inv, IdInv
    <3>4. ASSUME NEW k \in Nat, k < n PROVE Known("target", k)
      <4>1. CASE TopId("target") < k
        BY <1>2, <3>4, <4>1 DEF Known
      <4>2. CASE ~(TopId("target") < k)
        <5>1. \E f \in In("target") : k <= f.id
          BY <3>3, <4>2
        <5> QED
          BY <1>2, <5>1 DEF Inv, IdInv, Gapless
      <4> QED
        BY <4>1, <4>2
    <3>5. \A k \in Nat : Known("target", k) => Known("target", k)'
      BY <1>5, <1>8, <3>2 DEF Known, Blocked, In
    <3>6. \A f \in In("target") : f.id < n
      <4>1. \A f \in In("target") : f.id \in Nat
        BY DEF In, Inv, TypeOK, File
      <4> QED
        BY <1>2, <3>3, <4>1
    <3> QED
      BY <3>2, <3>4, <3>5, <3>6 DEF In
  <2> QED
    BY <1>7, <1>8, <2>2, <2>3 DEF Inv
<1>9. CASE /\ run' = NoRun /\ loop' = FirstLoop
           /\ stuck' = IF l[1] = "dir" THEN stuck \cup {n} ELSE stuck
           /\ Goes("idle")
  <2>1. IdInv'
    <3>1. CASE stuck' = stuck
      BY <1>7, <3>1
    <3>2. CASE l[1] = "dir" /\ stuck' = stuck \cup {n}
      BY <1>4, <1>5, <1>7, <1>11, <3>2, DirectoryStays DEF Inv
    <3> QED
      BY <1>9, <3>1, <3>2
  <2>2. stuck' \subseteq Nat
    BY <2>1 DEF IdInv, Bounded
  <2>3. TypeOK'
    BY <1>5, <1>7, <1>9, <2>2, Setup DEF TypeOK, Inv, Goes, Records
  <2> QED
    BY <1>7, <1>9, <2>1, <2>3 DEF Inv, Allotted, Goes
<1> QED
  BY <1>8, <1>9, <1>10

LEMMA MoveGathers ==
    ASSUME Inv, UNCHANGED setting, MoveArtifacts
    PROVE  Gathers /\ Inv' /\ files \subseteq files'
<1> DEFINE n == ArtifactId(SideQueue)
           new == {[q |-> SideQueue, id |-> n, aux |-> 0, data |-> d] : d \in run.left}
<1>1. /\ pc = "move" /\ Fills(new) /\ pc' = "promote" /\ UNCHANGED <<stuck, loop, freed, cursor, corpus>>
      /\ run' = [run EXCEPT !.moved = new, !.left = {}]
  BY DEF MoveArtifacts, Goes
<1>2. SideQueue \in Queue /\ run \in Records /\ "target" \in Queue
  BY DEF SideQueue, Queue, Inv, TypeOK, Records
<1>3. n \in Nat /\ n = TopId(SideQueue) + 1 /\ TopId(SideQueue) \in Int
      /\ (TopId(SideQueue) = -1 \/ \E f \in In(SideQueue) : f.id = TopId(SideQueue))
  BY <1>2, TopOfQueue DEF Inv, IdInv, ArtifactId
<1>4. /\ new \in SUBSET File
      /\ \A f \in new : f.q = SideQueue /\ f.id = n /\ f.aux = 0
  BY <1>2, <1>3 DEF File, Records
<1> HIDE DEF new, n
<1>5. TopId(SideQueue) < n /\ \A k \in Nat : ~(TopId(SideQueue) < k /\ k < n)
  BY <1>3
<1>6. /\ Gathers /\ files' = files \cup new /\ UNCHANGED <<imported, replaced>> /\ IdInv'
      /\ files' \subseteq File /\ made' \subseteq Data
  BY <1>1, <1>2, <1>3, <1>4, <1>5, FilesJoin
<1>7. run' \in Records /\ run'.dir = run.dir /\ run'.target = run.target /\ run'.moved = new
  BY <1>1, <1>2, <1>4 DEF Records
<1>8. TypeOK'
  BY <1>1, <1>6, <1>7 DEF TypeOK, Inv, Records
<1>9. Allotted'
  <2>1. SUFFICES ASSUME run.dir # {}
                 PROVE  /\ \A k \in Nat : k < run.target => Known("target", k)'
                        /\ \A f \in In("target")' :
                             /\ f.id <= run.target
                             /\ f.id = run.target => OneQueue' /\ f \in new /\ f.aux = 0
    BY <1>1, <1>7 DEF Allotted
  <2>2. /\ \A k \in Nat : k < run.target => Known("target", k)
        /\ \A f \in In("target") : f.id <= run.target /\ f.id # run.target
    BY <1>1, <2>1 DEF Inv, Allotted
  <2>3. \A k \in Nat : Known("target", k) => Known("target", k)'
    BY <1>1, <1>6 DEF Known, Blocked, In
  <2>4. ASSUME NEW f \in new, f.q = "target" PROVE f.id <= run.target /\ OneQueue' /\ f.aux = 0
    <3>1. SideQueue = "target" /\ OneQueue' /\ f.id = TopId("target") + 1 /\ f.aux = 0
      BY <1>3, <1>4, <2>4 DEF SideQueue, OneQueue
    <3>2. run.target \in Nat /\ \A g \in In("target") : g.id \in Nat
      BY <1>2 DEF Records, In, Inv, TypeOK, File
    <3> QED
      BY <1>3, <2>2, <3>1, <3>2
  <2> QED
    BY <1>6, <2>2, <2>3, <2>4 DEF In
<1> QED
  BY <1>6, <1>8, <1>9 DEF Inv

LEMMA PromoteGathers ==
    ASSUME Inv, UNCHANGED setting, Promote
    PROVE  Gathers /\ Inv' /\ \A f \in files : f \in files' \/ Eclipsed(f)
<1>1. pc = "promote" /\ pc' = "pick" /\ UNCHANGED <<stuck, loop, freed, cursor, corpus>> /\ run \in Records
  BY DEF Promote, Goes, Inv, TypeOK, Records
<1>2. CASE run.dir = {} /\ run' = run /\ UNCHANGED stored
  <2>1. TypeOK' /\ IdInv'
    BY <1>1, <1>2 DEF Inv, TypeOK, IdInv, Bounded, Distinct, Gapless, Known, Blocked, SeenOrExplained, In, stored
  <2> QED
    BY <1>1, <1>2, <2>1 DEF Gathers, Inv, Allotted, stored
<1>3. ASSUME NEW d \in run.dir, NEW e \in run.dir, run.dir = {d, e},
             Fills({f \in Flattened(d, e) : d = e => f.aux = 0}),
             run' = [run EXCEPT !.promoted = {f \in {g \in Flattened(d, e) : d = e => g.aux = 0} : f.aux = 0},
                                !.dir = {}]
      PROVE  Gathers /\ Inv' /\ \A f \in files : f \in files' \/ Eclipsed(f)
  <2> DEFINE new == {f \in Flattened(d, e) : d = e => f.aux = 0}
             n == run.target
             m == SecondId
             one == [q |-> "target", id |-> n, aux |-> 0, data |-> d]
             two == [q |-> "target", id |-> m, aux |-> 1, data |-> e]
  <2>1. "target" \in Queue /\ n \in Nat /\ d \in Data /\ e \in Data /\ run.dir # {}
    BY <1>1, <1>3 DEF Queue, Records
  <2>2. /\ m \in Nat /\ \A f \in In("target") : f.id < m
        /\ m = 0 \/ m - 1 \in stuck \/ \E f \in In("target") : f.id = m - 1
    BY SecondIsFresh DEF Inv, IdInv
  <2>3. /\ \A k \in Nat : k < n => Known("target", k)
        /\ \A f \in In("target") : f.id = n => OneQueue /\ f \in run.moved /\ f.aux = 0
    BY <1>1, <2>1 DEF Inv, Allotted
  <2>4. new \subseteq {one, two} /\ one \in new
    BY DEF Flattened
  <2>5. /\ one \in File /\ one.q = "target" /\ one.id = n /\ one.aux = 0
        /\ two \in File /\ two.q = "target" /\ two.id = m /\ two.aux = 1
    BY <2>1, <2>2 DEF File
  <2>6. Fills(new) /\ run' = [run EXCEPT !.promoted = {f \in new : f.aux = 0}, !.dir = {}]
    BY <1>3
  <2> HIDE DEF new, n, m, one, two
  <2>7. new \in SUBSET File
    BY <2>4, <2>5
  <2>8. ASSUME NEW k \in Nat, k < m PROVE Known("target", k)
    <3>1. m - 1 \in stuck \/ \E f \in In("target") : f.id = m - 1
      BY <2>2, <2>8
    <3>2. k <= m - 1
      BY <2>2, <2>8
    <3> QED
      BY <2>1, <3>1, <3>2 DEF Inv, IdInv, Gapless, Blocked
  <2>9. FitsIn(new)
    <3>1. \E b \in Nat : \A f \in new : f.id < b
      <4>1. n + m + 1 \in Nat /\ n < n + m + 1 /\ m < n + m + 1
        BY <2>1, <2>2
      <4> QED
        BY <2>4, <2>5, <4>1
    <3>2. \A f \in new, k \in Nat : k < f.id => Known(f.q, k)
      BY <2>3, <2>4, <2>5, <2>8
    <3>3. ASSUME NEW g \in files, g.q = "target", g.id = n PROVE g.aux = 0
      BY <2>3, <3>3 DEF In
    <3>4. ASSUME NEW f \in new, NEW g \in files \cup new,
                 g.q = f.q, g.id = f.id, f.aux # 1, g.aux # 1
          PROVE  f.aux = g.aux
      BY <2>4, <2>5, <3>3, <3>4
    <3>5. ASSUME NEW f \in new, NEW g \in files, f.aux # 1, g.q = f.q, g.id = f.id
          PROVE  g.aux = f.aux /\ \A h \in new : Name(h) = Name(f) => h = f
      <4>1. f = one
        BY <2>4, <2>5, <3>5
      <4>2. \A h \in new : Name(h) = Name(f) => h.aux = 0
        BY <2>5, <4>1 DEF Name
      <4> QED
        BY <2>4, <2>5, <3>3, <3>5, <4>1, <4>2
    <3> QED
      BY <3>1, <3>2, <3>4, <3>5 DEF FitsIn
  <2>10. IdInv'
    BY <1>1, <2>6, <2>7, <2>9, NewFilesFit DEF Inv, Fills
  <2>11. ASSUME NEW f \in files, f \notin files' PROVE Eclipsed(f)
    <3>1. PICK g \in new : Name(f) = Name(g)
      BY <2>6, <2>11 DEF Fills, Stored
    <3>2. f.q = g.q /\ f.id = g.id
      BY <3>1 DEF Name
    <3>3. f \in In("target")
      BY <2>4, <2>5, <3>2 DEF In
    <3>4. f.id # m
      BY <2>2, <3>3
    <3>5. f.id = n
      BY <2>4, <2>5, <3>2, <3>4
    <3> QED
      BY <1>1, <2>1, <2>3, <3>3, <3>5 DEF Eclipsed, n
  <2>12. files' \subseteq files \cup new /\ new \subseteq files'
    BY <2>6 DEF Fills, Stored
  <2>13. Gathers /\ made' \subseteq Data
    <3>1. Contents(new) \subseteq Contents(files') /\ Contents(new) \subseteq Data
      BY <2>7, <2>12 DEF Contents, File
    <3> QED
      BY <1>1, <2>6, <3>1 DEF Gathers, Fills, Inv, TypeOK
  <2>14. run' \in Records
    BY <1>1, <2>6, <2>7 DEF Records
  <2>15. files' \subseteq File /\ imported' \subseteq files' /\ replaced' \subseteq File
    BY <2>6, <2>7, <2>12 DEF Fills, Inv, TypeOK
  <2>16. TypeOK'
    BY <1>1, <2>13, <2>14, <2>15 DEF TypeOK, Inv, Records
  <2> QED
    BY <1>1, <2>10, <2>11, <2>13, <2>16 DEF Inv, Allotted
<1> QED
  BY <1>2, <1>3 DEF Promote

----------------------------------------------------------------------------
(* The steps that leave the queues alone.                                  *)
LEMMA QueuesStay ==
    ASSUME Inv, UNCHANGED <<setting, files, stuck, cursor, imported, freed, replaced>>
    PROVE  IdInv'
BY DEF Inv, IdInv, Bounded, Distinct, Gapless, Known, Blocked, SeenOrExplained, In

Looks == FixErrors \/ FirstLook \/ EmptyLoop

LEMMA LooksKeep ==
    ASSUME Inv, UNCHANGED setting, Looks
    PROVE  /\ Inv' /\ UNCHANGED <<stored, cursor, corpus>>
<1>1. /\ UNCHANGED <<stored, stuck, freed, cursor, corpus>> /\ pc' \in {"run", "judge", "gate", "idle"}
      /\ run' = run \/ run' = NoRun
  BY DEF Looks, FixErrors, FirstLook, EmptyLoop, Repair, Ends, Keeps, Goes
<1>2. IdInv'
  BY <1>1, QueuesStay DEF stored
<1> DEFINE Loop == [phase : {"errors", "empty"}, errs : 0 .. setting.errMax,
                    empties : 0 .. setting.emptyMax, dups : 0 .. setting.dupMax, zero : BOOLEAN]
<1>3. loop \in Loop /\ FirstLoop \in Loop /\ setting \in Setting
  BY Setup DEF Inv, TypeOK
<1>4. setting.errMax \in Nat /\ setting.emptyMax \in Nat /\ setting.dupMax \in Nat
  BY <1>3 DEF Setting
<1>5. loop' \in Loop
  <2>1. CASE FixErrors
    <3>1. \/ loop.errs < setting.errMax /\ loop' = [loop EXCEPT !.errs = @ + 1]
          \/ loop' = FirstLoop
      BY <2>1 DEF FixErrors, Repair, Ends, Counted
    <3>2. loop.errs < setting.errMax => loop.errs + 1 \in 0 .. setting.errMax
      BY <1>3, <1>4
    <3>3. CASE loop.errs < setting.errMax /\ loop' = [loop EXCEPT !.errs = @ + 1]
      BY <1>3, <3>2, <3>3
    <3> QED
      BY <1>3, <3>1, <3>3
  <2>2. CASE FirstLook
    <3>1. \/ loop' = loop \/ loop' = FirstLoop
          \/ loop' = [loop EXCEPT !.phase = "empty", !.zero = \E f \in run.cur : f.data = Empty]
      BY <2>2 DEF FirstLook, Ends
    <3>2. (\E f \in run.cur : f.data = Empty) \in BOOLEAN
      OBVIOUS
    <3> QED
      BY <1>3, <3>1, <3>2
  <2>3. CASE EmptyLoop
    <3>1. \/ loop' = loop \/ loop' = FirstLoop
          \/ loop.empties < setting.emptyMax /\ loop' = [loop EXCEPT !.empties = @ + 1, !.zero = TRUE]
      BY <2>3 DEF EmptyLoop, Repair, Ends, Counted
    <3>2. loop.empties < setting.emptyMax => loop.empties + 1 \in 0 .. setting.emptyMax
      BY <1>3, <1>4
    <3>3. CASE loop.empties < setting.emptyMax /\ loop' = [loop EXCEPT !.empties = @ + 1, !.zero = TRUE]
      BY <1>3, <3>2, <3>3
    <3> QED
      BY <1>3, <3>1, <3>3
  <2> QED
    BY <2>1, <2>2, <2>3 DEF Looks
<1>6. TypeOK'
  BY <1>1, <1>5, Setup DEF Inv, TypeOK, Records, stored
<1> QED
  BY <1>1, <1>2, <1>6 DEF Inv, Allotted

LEMMA CallKeeps ==
    ASSUME Inv, UNCHANGED setting, Call
    PROVE  Inv' /\ UNCHANGED <<stored, cursor, corpus>>
<1>1. UNCHANGED <<stored, stuck, run, loop, freed, cursor, corpus>> /\ pc' = "run"
  BY DEF Call, Goes
<1> QED
  BY <1>1, QueuesStay DEF Inv, TypeOK, Allotted, stored

LEMMA PickKeeps ==
    ASSUME Inv, UNCHANGED setting, Pick
    PROVE  Inv' /\ UNCHANGED <<stored, cursor, corpus>>
<1> DEFINE own == {f \in files : Name(f) = <<"target", run.target, NoAux>>}
<1>1. /\ UNCHANGED <<stored, stuck, loop, freed, cursor, corpus>> /\ pc' = "judge"
      /\ run' = [NoRun EXCEPT !.stderr = run.stderr,
                              !.cur = IF run.promoted # {} THEN run.promoted
                                      ELSE IF own # {} THEN own ELSE run.moved]
  BY DEF Pick, Goes
<1>2. run \in Records /\ own \subseteq File
  BY DEF Inv, TypeOK, Records
<1> HIDE DEF own
<1>3. run' \in Records
  BY <1>1, <1>2 DEF Records, NoRun
<1> QED
  BY <1>1, <1>3, QueuesStay DEF Inv, TypeOK, Allotted, stored, Records

----------------------------------------------------------------------------
(* The gate.                                                               *)
LEMMA RejectionExplained ==
    ASSUME IdInv, NEW f, f \in files, Rejects(f)
    PROVE  IdInv'
<1>1. files' = files \ {f} /\ imported' = imported \ {f} /\ freed' = freed \cup {<<f.q, f.id>>}
      /\ UNCHANGED <<cursor, stuck, replaced>>
  BY DEF Rejects
<1>2. Bounded' /\ Distinct'
  BY <1>1 DEF IdInv, Bounded, Distinct
<1>3. SeenOrExplained'
  BY <1>1 DEF IdInv, SeenOrExplained, Blocked
<1>4. Gapless'
  <2> SUFFICES ASSUME NEW q \in Queue, NEW n \in Nat,
                      \/ n < cursor[q] \/ \E k \in Blocked(q) : n <= k
                      \/ \E g \in files \ {f} : g.q = q /\ n <= g.id
               PROVE  \/ <<q, n>> \in freed \cup {<<f.q, f.id>>} \/ n \in Blocked(q)
                      \/ \E g \in files \ {f} : g.q = q /\ g.id = n
      BY <1>1 DEF Gapless, Known, Blocked, In
  <2>1. <<q, n>> \in freed \/ n \in Blocked(q) \/ \E g \in files : g.q = q /\ g.id = n
    BY DEF IdInv, Gapless, Known, In
  <2> QED
    BY <2>1
<1> QED
  BY <1>1, <1>2, <1>3, <1>4 DEF IdInv

(* A rejected seed was too large, or another copy of it stays.             *)
LEMMA GateStep ==
    ASSUME Inv, UNCHANGED setting, Gate
    PROVE  /\ Inv' /\ pc = "gate" /\ made' = made /\ corpus' = corpus /\ replaced' = replaced
           /\ \/ files' = files
              \/ \E f \in run.cur :
                   /\ files' = files \ {f}
                   /\ \/ f.data \in {Empty} \cup corpus \cup setting.large
                      \/ \E g \in files \ {f} : g.data = f.data
<1> DEFINE Loop == [phase : {"errors", "empty"}, errs : 0 .. setting.errMax,
                    empties : 0 .. setting.emptyMax, dups : 0 .. setting.dupMax, zero : BOOLEAN]
<1>0. loop \in Loop /\ FirstLoop \in Loop /\ setting \in Setting /\ NoRun \in Records
  BY Setup DEF Inv, TypeOK
<1>1. ASSUME NEW f \in run.cur, Rejects(f), pc = "gate", run' = NoRun, pc' \in {"idle", "run"}, loop' \in Loop,
             \/ f.data \in {Empty} \cup corpus \cup setting.large
             \/ \E g \in files \ {f} : g.data = f.data
      PROVE  /\ Inv' /\ made' = made /\ corpus' = corpus /\ replaced' = replaced /\ files' = files \ {f}
  <2>1. files' = files \ {f} /\ imported' = imported \ {f} /\ UNCHANGED <<cursor, corpus, made, stuck, replaced>>
        /\ freed' = freed \cup {<<f.q, f.id>>}
    BY <1>1 DEF Rejects
  <2>2. f \in File
    BY <1>1 DEF Inv, TypeOK
  <2>3. freed' \subseteq Queue \X Nat
    BY <2>1, <2>2 DEF File, Inv, TypeOK
  <2>4. TypeOK'
    BY <1>0, <1>1, <2>1, <2>3 DEF Inv, TypeOK, Records
  <2>5. IdInv'
    <3>1. CASE f \in files
      BY <1>1, <3>1, RejectionExplained DEF Inv
    <3>2. CASE f \notin files
      <4>1. UNCHANGED <<files, cursor, imported, stuck, replaced>> /\ freed \subseteq freed'
        BY <2>1, <3>2 DEF Inv, TypeOK
      <4> QED
        BY <4>1 DEF Inv, IdInv, Bounded, Distinct, Gapless, Known, Blocked, SeenOrExplained, In
    <3> QED
      BY <3>1, <3>2
  <2> QED
    BY <1>1, <2>1, <2>4, <2>5 DEF Inv, Allotted
<1>2. ASSUME NEW f \in run.cur, IsDuplicate(f)
      PROVE  f.data \in corpus \/ \E g \in files \ {f} : g.data = f.data
  BY <1>2 DEF IsDuplicate, In
<1>3. ASSUME NEW f \in run.cur, pc = "gate", GateRejects(f)
      PROVE  /\ Inv' /\ made' = made /\ corpus' = corpus /\ replaced' = replaced /\ files' = files \ {f}
             /\ \/ f.data \in {Empty} \cup corpus \cup setting.large
                \/ \E g \in files \ {f} : g.data = f.data
  BY <1>0, <1>1, <1>2, <1>3 DEF GateRejects
<1>4. ASSUME NEW f \in run.cur, pc = "gate", GateRegenerates(f)
      PROVE  /\ Inv' /\ made' = made /\ corpus' = corpus /\ replaced' = replaced /\ files' = files \ {f}
             /\ \/ f.data \in {Empty} \cup corpus \cup setting.large
                \/ \E g \in files \ {f} : g.data = f.data
  <2>1. loop.dups < setting.dupMax /\ loop' = [FirstLoop EXCEPT !.dups = loop.dups + 1] /\ setting.dupMax \in Nat
    BY <1>0, <1>4 DEF GateRegenerates, Setting
  <2>2. loop' \in Loop
    BY <1>0, <2>1
  <2> HIDE DEF Loop
  <2> QED
    BY <1>1, <1>2, <1>4, <2>2 DEF GateRegenerates
<1>5. ASSUME NEW f \in run.cur, pc = "gate", GateAccepts(f)
      PROVE  Inv' /\ made' = made /\ corpus' = corpus /\ replaced' = replaced /\ files' = files
  <2>1. /\ UNCHANGED <<files, imported, made, replaced, stuck, freed, cursor, corpus>>
        /\ run' = NoRun /\ loop' = FirstLoop /\ pc' = "idle"
    BY <1>5 DEF GateAccepts, Ends, Keeps, Goes, stored
  <2> QED
    BY <1>0, <2>1, QueuesStay DEF Inv, TypeOK, Allotted, Records
<1> HIDE DEF Loop
<1> QED
  BY <1>3, <1>4, <1>5 DEF Gate

----------------------------------------------------------------------------
(* AFL imports.                                                            *)
LEMMA SyncKeeps ==
    ASSUME Inv, UNCHANGED setting, NEW q \in Queue, AflSyncs(q)
    PROVE  Inv' /\ UNCHANGED <<files, made, replaced>> /\ corpus \subseteq corpus'
<1> DEFINE seen == {f \in Fresh(q) : \A g \in Fresh(q) : g.id = f.id => NameOrder(f, g)}
           ids == {f.id : f \in Fresh(q)}
<1>1. /\ Fresh(q) # {} /\ imported' = imported \cup seen
      /\ UNCHANGED <<files, stuck, run, loop, pc, made, freed, replaced>>
      /\ cursor' = [cursor EXCEPT ![q] = Max(ids) + 1]
      /\ \E keep \in SUBSET Contents(seen) : corpus' = corpus \cup keep
  BY DEF AflSyncs
<1>2. Fresh(q) \subseteq In(q) /\ In(q) \subseteq files /\ \A f \in Fresh(q) : f.id \in Nat
  BY DEF Fresh, In, Inv, TypeOK, File
<1>3. Max(ids) \in Nat /\ (\E f \in In(q) : f.id = Max(ids)) /\ \A f \in Fresh(q) : f.id <= Max(ids)
  <2>1. PICK b \in Nat : \A f \in files : f.id < b
    BY DEF Inv, IdInv, Bounded
  <2>2. ids \in SUBSET Int /\ (\A x \in ids : x <= b) /\ b \in Int
    BY <1>2, <2>1
  <2>3. PICK f \in Fresh(q) : TRUE
    BY <1>1
  <2>4. f.id \in ids /\ \A g \in Fresh(q) : g.id \in ids
    BY <2>3
  <2>5. \A x \in ids : \E g \in Fresh(q) : g.id = x
    OBVIOUS
  <2> HIDE DEF ids
  <2>6. Max(ids) \in ids /\ \A x \in ids : x <= Max(ids)
    BY <2>2, <2>4, MaxOfBounded
  <2> QED
    BY <1>2, <2>4, <2>5, <2>6
<1>4. seen \subseteq Fresh(q) /\ Contents(seen) \subseteq Data
  BY <1>2 DEF Contents, Inv, TypeOK, File
<1>5. \A f \in Fresh(q) \ seen : f.aux = 1
  <2> SUFFICES ASSUME NEW f \in Fresh(q), f.aux # 1, NEW g \in Fresh(q), g.id = f.id, ~NameOrder(f, g)
               PROVE  FALSE
      OBVIOUS
  <2>1. f \in files /\ g \in files /\ f.q = q /\ g.q = q /\ f.aux \in {-1, 0, 1} /\ g.aux \in {-1, 0, 1}
    BY <1>2 DEF In, Inv, TypeOK, File, NoAux
  <2>2. g.aux < f.aux
    BY <2>1 DEF NameOrder
  <2> QED
    BY <2>1, <2>2 DEF Inv, IdInv, Distinct
<1> HIDE DEF seen, ids
<1>6. cursor \in [Queue -> Nat] /\ cursor' \in [Queue -> Nat] /\ cursor'[q] = Max(ids) + 1
      /\ \A r \in Queue : r # q => cursor'[r] = cursor[r]
  BY <1>1, <1>3 DEF Inv, IdInv
<1>7. TypeOK'
  BY <1>1, <1>2, <1>4, <1>6 DEF Inv, TypeOK
<1>8. Gapless'
  <2> SUFFICES ASSUME NEW r \in Queue, NEW n \in Nat,
                      n < cursor'[r] \/ (\E f \in In(r) : n <= f.id) \/ \E k \in Blocked(r) : n <= k
               PROVE  Known(r, n)
      BY <1>1 DEF Gapless, Known, Blocked, In
  <2>1. n < cursor[r] \/ (\E f \in In(r) : n <= f.id) \/ \E k \in Blocked(r) : n <= k
    BY <1>2, <1>3, <1>6
  <2> QED
    BY <2>1 DEF Inv, IdInv, Gapless
<1>9. SeenOrExplained'
  <2> SUFFICES ASSUME NEW f \in files, f.id < cursor'[f.q]
               PROVE  \/ f \in imported' \/ f.aux = 1
                      \/ <<f.q, f.id>> \in freed \/ f.id \in Blocked(f.q)
                      \/ \E g \in replaced : Name(g) = Name(f)
      BY <1>1 DEF SeenOrExplained, Blocked
  <2>1. f.q \in Queue /\ f.id \in Nat
    BY DEF Inv, TypeOK, File
  <2>2. CASE f.id < cursor[f.q]
    BY <1>1, <2>2 DEF Inv, IdInv, SeenOrExplained
  <2>3. CASE ~(f.id < cursor[f.q])
    <3>1. f.q = q
      BY <1>6, <2>1, <2>3
    <3>2. f \in Fresh(q)
      BY <1>6, <2>1, <2>3, <3>1 DEF Fresh, In
    <3> QED
      BY <1>1, <1>5, <3>2
  <2> QED
    BY <2>2, <2>3
<1>10. Bounded' /\ Distinct' /\ Allotted'
  BY <1>1 DEF Inv, IdInv, Bounded, Distinct, Allotted, Known, Blocked, In, OneQueue
<1> QED
  BY <1>1, <1>6, <1>7, <1>8, <1>9, <1>10 DEF Inv, IdInv

----------------------------------------------------------------------------
LEMMA InitInv == Init => Inv
<1> SUFFICES ASSUME Init PROVE Inv
    OBVIOUS
<1>1. TypeOK
  <2>1. NoRun \in Records
    BY DEF NoRun, Records
  <2>2. /\ setting \in Setting
        /\ setting.errMax \in Nat /\ setting.emptyMax \in Nat /\ setting.dupMax \in Nat
    BY DEF Init, Setting
  <2>3. FirstLoop \in [phase : {"errors", "empty"}, errs : 0 .. setting.errMax,
                       empties : 0 .. setting.emptyMax, dups : 0 .. setting.dupMax, zero : BOOLEAN]
    BY <2>2 DEF FirstLoop
  <2> QED
    BY <2>1, <2>3 DEF Init, TypeOK, Records
<1>2. IdInv
  BY DEF Init, IdInv, Bounded, Distinct, Gapless, Blocked, SeenOrExplained, In
<1> QED
  BY <1>1, <1>2 DEF Init, Inv, Allotted

LEMMA StepInv ==
    ASSUME Inv, [Next]_vars
    PROVE  Inv'
<1>1. CASE UNCHANGED vars
  BY <1>1, QueuesStay DEF vars, stored, Inv, TypeOK, Allotted, Known, Blocked, In, OneQueue
<1>2. CASE Next
  <2>1. UNCHANGED setting
    BY <1>2 DEF Next
  <2>2. CASE Attempt
    BY <2>1, <2>2, ScriptGathers, MoveGathers, PromoteGathers, PickKeeps, LooksKeep, GateStep DEF Attempt, Looks
  <2> QED
    BY <1>2, <2>1, <2>2, CallKeeps, SyncKeeps DEF Next
<1> QED
  BY <1>1, <1>2

(* TypeOK: the files, the run, the loops and AFL's view keep their types;  *)
(* what AFL has imported and not lost is in the queues.                    *)
THEOREM TypeCorrect == Spec => []TypeOK
<1>1. Inv /\ [Next]_vars => Inv'
  BY StepInv
<1>2. Inv => TypeOK
  BY DEF Inv
<1> QED
  BY InitInv, <1>1, <1>2, PTL DEF Spec

(* NothingOverwritten: a file leaves its queue only by the gate's decision *)
(* on the seed it was asked about, or as a leftover of the run whose       *)
(* directory takes its name: no script, move or flattened directory takes  *)
(* the name of what another run left, whatever the scripts leave.          *)
THEOREM NothingLost == Spec => NothingOverwritten
<1>1. Inv /\ [Next]_vars => Inv'
  BY StepInv
<1>2. Inv /\ [Next]_vars => [\A f \in files : f \in files' \/ (pc = "gate" /\ f \in run.cur) \/ Eclipsed(f)]_vars
  <2> SUFFICES ASSUME Inv, Next, NEW f \in files
               PROVE  f \in files' \/ (pc = "gate" /\ f \in run.cur) \/ Eclipsed(f)
      OBVIOUS
  <2>1. UNCHANGED setting
    BY DEF Next
  <2>2. CASE Gate
    BY <2>1, <2>2, GateStep
  <2>3. CASE Attempt /\ ~Gate
    BY <2>1, <2>3, ScriptGathers, MoveGathers, PromoteGathers, PickKeeps, LooksKeep DEF Attempt, Looks, stored
  <2> QED
    BY <2>1, <2>2, <2>3, CallKeeps, SyncKeeps DEF Next, stored
<1> QED
  BY InitInv, <1>1, <1>2, PTL DEF Spec, NothingOverwritten

(* SeenOrExplained: AFL passes over a seed unread only if its id was freed *)
(* by the gate or skipped for a directory, if it is the second file of a   *)
(* directory, or took the name of an eclipsed leftover.                    *)
THEOREM ImportsExplained == Spec => []SeenOrExplained
<1>1. Inv /\ [Next]_vars => Inv'
  BY StepInv
<1>2. Inv => SeenOrExplained
  BY DEF Inv, IdInv
<1> QED
  BY InitInv, <1>1, <1>2, PTL DEF Spec

(* LastCopyKept: rejecting duplicates, of which the gate removes the newer *)
(* one, never removes the last copy of a content; only the content of an   *)
(* eclipsed leftover may go.                                               *)
THEOREM LastCopyStays == Spec => []LastCopyKept
<1>1. Init => Inv /\ LastCopyKept
  BY InitInv DEF Init, LastCopyKept
<1>2. Inv /\ LastCopyKept /\ [Next]_vars => Inv' /\ LastCopyKept'
  <2> SUFFICES ASSUME Inv, LastCopyKept, [Next]_vars PROVE LastCopyKept'
      BY StepInv
  <2>1. ASSUME UNCHANGED <<setting, made, replaced>>, files \subseteq files', corpus \subseteq corpus'
        PROVE  LastCopyKept'
    BY <2>1 DEF LastCopyKept, Contents
  <2>2. ASSUME Gathers PROVE LastCopyKept'
    BY <2>2 DEF LastCopyKept, Gathers, Contents
  <2>3. CASE UNCHANGED vars
    BY <2>1, <2>3 DEF vars, stored
  <2>4. CASE Next
    <3>1. UNCHANGED setting
      BY <2>4 DEF Next
    <3>2. CASE Gate
      <4>1. CASE files' = files
        BY <2>1, <3>1, <3>2, <4>1, GateStep
      <4>2. ASSUME NEW f \in run.cur, files' = files \ {f},
                   \/ f.data \in {Empty} \cup corpus \cup setting.large
                   \/ \E g \in files \ {f} : g.data = f.data
            PROVE  LastCopyKept'
        <5>1. made' = made /\ corpus' = corpus /\ replaced' = replaced
          BY <3>1, <3>2, GateStep
        <5> QED
          BY <3>1, <4>2, <5>1 DEF LastCopyKept, Contents
      <4> QED
        BY <3>1, <3>2, <4>1, <4>2, GateStep
    <3>3. CASE Attempt /\ ~Gate
      <4>1. Gathers \/ UNCHANGED <<stored, cursor, corpus>>
        BY <3>1, <3>3, ScriptGathers, MoveGathers, PromoteGathers, PickKeeps, LooksKeep DEF Attempt, Looks
      <4> QED
        BY <2>1, <2>2, <3>1, <4>1 DEF stored
    <3>4. CASE Call
      BY <2>1, <3>1, <3>4, CallKeeps DEF stored
    <3> QED
      BY <2>1, <2>4, <3>1, <3>2, <3>3, <3>4, SyncKeeps DEF Next
  <2> QED
    BY <2>3, <2>4
<1> QED
  BY <1>1, <1>2, PTL DEF Spec

(* GeneratedReachesAfl: what was generated is in a queue, and AFL does not *)
(* pass over it, but for the decisions of the gate, eclipsed leftovers and *)
(* ids of directories.                                                     *)
THEOREM GeneratedSeedsArrive == Spec => []GeneratedReachesAfl
  BY ImportsExplained, LastCopyStays, PTL DEF GeneratedReachesAfl

----------------------------------------------------------------------------
(* How much of a call is left, under the limits s and with the counts l:   *)
(* the regenerations, each with all repairs of its loops, the repairs of   *)
(* this one, and the stages of the run.                                    *)
Counts(s) ==
    [phase : {"errors", "empty"}, errs : 0 .. s.errMax, empties : 0 .. s.emptyMax,
     dups : 0 .. s.dupMax, zero : BOOLEAN]
Repairs(s) == s.errMax + s.emptyMax + 2
RepairsLeft(s, l) ==
    (s.errMax - l.errs) + (s.emptyMax - l.empties) + (IF l.phase = "errors" THEN 1 ELSE 0)
LoopsLeft(s, l) == (s.dupMax - l.dups) * Repairs(s) + RepairsLeft(s, l)
Stage(p) ==
    IF p = "run" THEN 5 ELSE IF p = "move" THEN 4 ELSE IF p = "promote" THEN 3
    ELSE IF p = "pick" THEN 2 ELSE IF p = "judge" THEN 1 ELSE 0
Unfinished == 6 * LoopsLeft(setting, loop) + Stage(pc)

(* What is left is at most the budget; each step of a call lowers it, and  *)
(* what else happens leaves the call where it is.                          *)
WithinBudget == Unfinished \in 0 .. 6 * ((setting.dupMax + 1) * Repairs(setting))
RunsDown ==
    [][pc # "idle" => pc' = "idle" \/ Unfinished' < Unfinished \/ UNCHANGED <<run, loop, pc>>]_vars

Counting == setting \in Setting /\ loop \in Counts(setting)

LEMMA OneLess == ASSUME NEW a \in Int, NEW k \in Int PROVE (a - 1) * k = a * k - k
  OBVIOUS

LEMMA FewerTimes ==
    ASSUME NEW a \in Nat, NEW b \in Nat, a <= b, NEW k \in Nat
    PROVE  a * k \in Nat /\ a * k <= b * k
  OBVIOUS

LEMMA LoopsLeftIsNat ==
    ASSUME NEW s \in Setting, NEW l \in Counts(s)
    PROVE  /\ Repairs(s) \in Nat /\ RepairsLeft(s, l) \in Nat /\ RepairsLeft(s, l) < Repairs(s)
           /\ LoopsLeft(s, l) \in Nat /\ LoopsLeft(s, l) < (s.dupMax + 1) * Repairs(s)
<1>1. /\ s.errMax \in Nat /\ s.emptyMax \in Nat /\ s.dupMax \in Nat
      /\ l.errs \in 0 .. s.errMax /\ l.empties \in 0 .. s.emptyMax /\ l.dups \in 0 .. s.dupMax
  BY DEF Counts, Setting
<1>2. Repairs(s) \in Nat /\ RepairsLeft(s, l) \in Nat /\ RepairsLeft(s, l) < Repairs(s)
  BY <1>1 DEF Repairs, RepairsLeft
<1>3. (s.dupMax - l.dups) * Repairs(s) \in Nat /\ (s.dupMax - l.dups) * Repairs(s) <= s.dupMax * Repairs(s)
  <2>1. s.dupMax - l.dups \in Nat /\ s.dupMax - l.dups <= s.dupMax
    BY <1>1
  <2> QED
    BY <1>1, <1>2, <2>1, FewerTimes
<1>4. s.dupMax * Repairs(s) = (s.dupMax + 1) * Repairs(s) - Repairs(s)
  <2>1. (s.dupMax + 1) - 1 = s.dupMax /\ s.dupMax + 1 \in Int /\ Repairs(s) \in Int
    BY <1>1, <1>2
  <2> QED
    BY <2>1, OneLess
<1>5. (s.dupMax + 1) * Repairs(s) \in Int
  BY <1>1, <1>2
<1>6. LoopsLeft(s, l) \in Nat /\ LoopsLeft(s, l) < (s.dupMax + 1) * Repairs(s)
  BY <1>2, <1>3, <1>4, <1>5 DEF LoopsLeft
<1> QED
  BY <1>2, <1>6

(* A repair, the end of the first loop, and a regeneration, which starts   *)
(* both loops over.                                                        *)
LEMMA LoopsFall ==
    ASSUME NEW s \in Setting, NEW l \in Counts(s), NEW m \in Counts(s),
           \/ /\ m.dups = l.dups
              /\ \/ m.errs = l.errs + 1 /\ m.empties = l.empties /\ m.phase = l.phase
                 \/ m.errs = l.errs /\ m.empties = l.empties + 1 /\ m.phase = l.phase
                 \/ m.errs = l.errs /\ m.empties = l.empties /\ l.phase = "errors" /\ m.phase = "empty"
           \/ m.dups = l.dups + 1
    PROVE  LoopsLeft(s, m) < LoopsLeft(s, l)
<1>1. /\ s.errMax \in Nat /\ s.emptyMax \in Nat /\ s.dupMax \in Nat
      /\ l.errs \in Nat /\ l.empties \in Nat /\ l.dups \in Nat
      /\ m.errs \in Nat /\ m.empties \in Nat /\ m.dups \in Nat
  BY DEF Counts, Setting
<1>2. /\ Repairs(s) \in Nat /\ RepairsLeft(s, l) \in Nat
      /\ RepairsLeft(s, m) \in Nat /\ RepairsLeft(s, m) < Repairs(s)
  BY LoopsLeftIsNat
<1>3. CASE m.dups = l.dups + 1
  <2>1. (s.dupMax - m.dups) * Repairs(s) = (s.dupMax - l.dups) * Repairs(s) - Repairs(s)
    <3>1. s.dupMax - m.dups = (s.dupMax - l.dups) - 1 /\ s.dupMax - l.dups \in Int /\ Repairs(s) \in Int
      BY <1>1, <1>2, <1>3
    <3> QED
      BY <3>1, OneLess
  <2>2. (s.dupMax - l.dups) * Repairs(s) \in Int
    BY <1>1, <1>2
  <2> QED
    BY <1>2, <2>1, <2>2 DEF LoopsLeft
<1>4. CASE /\ m.dups = l.dups
           /\ \/ m.errs = l.errs + 1 /\ m.empties = l.empties /\ m.phase = l.phase
              \/ m.errs = l.errs /\ m.empties = l.empties + 1 /\ m.phase = l.phase
              \/ m.errs = l.errs /\ m.empties = l.empties /\ l.phase = "errors" /\ m.phase = "empty"
  <2>1. RepairsLeft(s, m) < RepairsLeft(s, l)
    BY <1>1, <1>4 DEF RepairsLeft
  <2>2. (s.dupMax - m.dups) * Repairs(s) = (s.dupMax - l.dups) * Repairs(s)
        /\ (s.dupMax - l.dups) * Repairs(s) \in Int
    BY <1>1, <1>2, <1>4
  <2> QED
    BY <1>2, <2>1, <2>2 DEF LoopsLeft
<1> QED
  BY <1>3, <1>4

(* What a step of a call makes of its loops and its stage.                 *)
LEMMA AttemptFalls ==
    ASSUME Counting, Attempt, UNCHANGED setting
    PROVE  /\ loop' \in Counts(setting)
           /\ \/ pc' = "idle"
              \/ loop' = loop /\ Stage(pc') < Stage(pc)
              \/ LoopsLeft(setting, loop') < LoopsLeft(setting, loop)
<1>1. /\ setting \in Setting /\ loop \in Counts(setting)
      /\ setting.errMax \in Nat /\ setting.emptyMax \in Nat /\ setting.dupMax \in Nat
      /\ loop.errs \in 0 .. setting.errMax /\ loop.empties \in 0 .. setting.emptyMax
      /\ loop.dups \in 0 .. setting.dupMax /\ loop.phase \in {"errors", "empty"} /\ loop.zero \in BOOLEAN
  BY DEF Counting, Counts, Setting
<1>2. FirstLoop \in Counts(setting)
  BY <1>1 DEF FirstLoop, Counts
<1>3. ASSUME NEW l \in setting.layouts, NEW err \in BOOLEAN, Script(l[1], l[2], err)
      PROVE  (loop' = loop /\ Stage(pc') < Stage(pc)) \/ (loop' = FirstLoop /\ pc' = "idle")
  BY <1>3 DEF Script, Goes, Stage
<1>4. CASE MoveArtifacts \/ Promote \/ Pick
  <2>1. loop' = loop /\ <<pc, pc'>> \in {<<"move", "promote">>, <<"promote", "pick">>, <<"pick", "judge">>}
    BY <1>4 DEF MoveArtifacts, Promote, Pick, Goes
  <2>2. Stage(pc') < Stage(pc)
    BY <2>1 DEF Stage
  <2> QED
    BY <1>1, <2>1, <2>2
<1>5. CASE FixErrors
  <2>1. CASE Ends
    BY <1>2, <2>1 DEF Ends, Goes
  <2>2. CASE loop.errs < setting.errMax /\ loop' = [loop EXCEPT !.errs = @ + 1]
    <3>1. loop.errs + 1 \in 0 .. setting.errMax
      BY <1>1, <2>2
    <3>2. loop' \in Counts(setting)
      BY <1>1, <2>2, <3>1 DEF Counts
    <3>3. loop'.errs = loop.errs + 1 /\ loop'.empties = loop.empties /\ loop'.phase = loop.phase /\ loop'.dups = loop.dups
      BY <1>1, <2>2 DEF Counts
    <3> QED
      BY <1>1, <3>2, <3>3, LoopsFall
  <2> QED
    BY <1>5, <2>1, <2>2 DEF FixErrors, Repair, Counted
<1>6. CASE FirstLook
  <2>1. CASE Ends
    BY <1>2, <2>1 DEF Ends, Goes
  <2>2. CASE pc' = "gate" /\ loop' = loop
    BY <1>1, <1>6, <2>2 DEF FirstLook, Stage
  <2>3. CASE loop' = [loop EXCEPT !.phase = "empty", !.zero = \E f \in run.cur : f.data = Empty]
    <3>1. (\E f \in run.cur : f.data = Empty) \in BOOLEAN
      OBVIOUS
    <3>2. loop' \in Counts(setting)
      BY <1>1, <2>3, <3>1 DEF Counts
    <3>3. loop'.errs = loop.errs /\ loop'.empties = loop.empties /\ loop'.phase = "empty" /\ loop'.dups = loop.dups
      BY <1>1, <2>3 DEF Counts
    <3>4. loop.phase = "errors"
      BY <1>6 DEF FirstLook
    <3> QED
      BY <1>1, <3>2, <3>3, <3>4, LoopsFall
  <2> QED
    BY <1>6, <2>1, <2>2, <2>3 DEF FirstLook, Goes
<1>7. CASE EmptyLoop
  <2>1. CASE Ends
    BY <1>2, <2>1 DEF Ends, Goes
  <2>2. CASE pc' = "gate" /\ loop' = loop
    BY <1>1, <1>7, <2>2 DEF EmptyLoop, Stage
  <2>3. CASE loop.empties < setting.emptyMax /\ loop' = [loop EXCEPT !.empties = @ + 1, !.zero = TRUE]
    <3>1. loop.empties + 1 \in 0 .. setting.emptyMax
      BY <1>1, <2>3
    <3>2. loop' \in Counts(setting)
      BY <1>1, <2>3, <3>1 DEF Counts
    <3>3. loop'.errs = loop.errs /\ loop'.empties = loop.empties + 1 /\ loop'.phase = loop.phase /\ loop'.dups = loop.dups
      BY <1>1, <2>3 DEF Counts
    <3> QED
      BY <1>1, <3>2, <3>3, LoopsFall
  <2> QED
    BY <1>7, <2>1, <2>2, <2>3 DEF EmptyLoop, Repair, Counted, Goes
<1>8. CASE Gate
  <2>1. PICK f \in run.cur : GateRejects(f) \/ GateRegenerates(f) \/ GateAccepts(f)
    BY <1>8 DEF Gate
  <2>2. CASE GateRejects(f) \/ GateAccepts(f)
    BY <1>2, <2>2 DEF GateRejects, GateAccepts, Ends, Goes
  <2>3. CASE GateRegenerates(f)
    <3>1. loop.dups < setting.dupMax /\ loop' = [FirstLoop EXCEPT !.dups = loop.dups + 1]
      BY <2>3 DEF GateRegenerates
    <3>2. loop.dups + 1 \in 0 .. setting.dupMax
      BY <1>1, <3>1
    <3>3. loop' \in Counts(setting) /\ loop'.dups = loop.dups + 1
      BY <1>1, <1>2, <3>1, <3>2 DEF Counts, FirstLoop
    <3> QED
      BY <1>1, <3>3, LoopsFall
  <2> QED
    BY <2>1, <2>2, <2>3
<1> QED
  BY <1>1, <1>2, <1>3, <1>4, <1>5, <1>6, <1>7, <1>8 DEF Attempt

LEMMA CountingStep ==
    ASSUME Counting, [Next]_vars
    PROVE  /\ Counting'
           /\ pc # "idle" => pc' = "idle" \/ Unfinished' < Unfinished \/ UNCHANGED <<run, loop, pc>>
<1>1. CASE UNCHANGED vars
  BY <1>1 DEF vars, Counting
<1>2. CASE Next
  <2>1. UNCHANGED setting
    BY <1>2 DEF Next
  <2>2. CASE Attempt
    <3>1. /\ loop' \in Counts(setting)
          /\ \/ pc' = "idle"
             \/ loop' = loop /\ Stage(pc') < Stage(pc)
             \/ LoopsLeft(setting, loop') < LoopsLeft(setting, loop)
      BY <2>1, <2>2, AttemptFalls
    <3>2. LoopsLeft(setting, loop') \in Nat /\ LoopsLeft(setting, loop) \in Nat
      BY <3>1, LoopsLeftIsNat DEF Counting
    <3>3. Stage(pc) \in 0 .. 5 /\ Stage(pc') \in 0 .. 5
      BY DEF Stage
    <3>4. Unfinished = 6 * LoopsLeft(setting, loop) + Stage(pc)
          /\ Unfinished' = 6 * LoopsLeft(setting, loop') + Stage(pc')
      BY <2>1 DEF Unfinished
    <3>5. pc' = "idle" \/ Unfinished' < Unfinished
      BY <3>1, <3>2, <3>3, <3>4
    <3> QED
      BY <2>1, <3>1, <3>5 DEF Counting
  <2>3. CASE Call \/ \E q \in Queue : AflSyncs(q)
    BY <2>1, <2>3 DEF Call, AflSyncs, Counting
  <2> QED
    BY <1>2, <2>2, <2>3 DEF Next
<1> QED
  BY <1>1, <1>2

LEMMA InitCounting == Init => Counting
<1> SUFFICES ASSUME Init PROVE Counting
    OBVIOUS
<1>1. setting \in Setting /\ setting.errMax \in Nat /\ setting.emptyMax \in Nat /\ setting.dupMax \in Nat
  BY DEF Init, Setting
<1> QED
  BY <1>1 DEF Init, Counting, Counts, FirstLoop

(* A call of extract_and_test or mutate_and_test runs down: whatever its   *)
(* scripts write and the model answers, and wherever AFL imports between,  *)
(* each step of the call uses some of what is left, and what is left never *)
(* exceeds what the limits of its three loops allow.                       *)
THEOREM CallsRunDown == Spec => []WithinBudget /\ RunsDown
<1>1. Counting => WithinBudget
  <2> SUFFICES ASSUME Counting PROVE WithinBudget
      OBVIOUS
  <2>1. LoopsLeft(setting, loop) \in Nat /\ LoopsLeft(setting, loop) < (setting.dupMax + 1) * Repairs(setting)
    BY LoopsLeftIsNat DEF Counting
  <2>2. (setting.dupMax + 1) * Repairs(setting) \in Int
    BY LoopsLeftIsNat DEF Counting, Setting
  <2>3. Stage(pc) \in 0 .. 5
    BY DEF Stage
  <2> QED
    BY <2>1, <2>2, <2>3 DEF WithinBudget, Unfinished
<1>2. Counting /\ [Next]_vars => Counting'
  BY CountingStep
<1>3. Counting /\ [Next]_vars => [pc # "idle" => pc' = "idle" \/ Unfinished' < Unfinished \/ UNCHANGED <<run, loop, pc>>]_vars
  BY CountingStep
<1> QED
  BY InitCounting, <1>1, <1>2, <1>3, PTL DEF Spec, RunsDown

----------------------------------------------------------------------------
(* SeedRewards.                                                            *)
USE RewardAssumption

----------------------------------------------------------------------------
(* Types.                                                                  *)
LEMMA NextTyped == RewardTypeOK /\ [NextReward]_rewardVars => RewardTypeOK'
<1> SUFFICES ASSUME RewardTypeOK, [NextReward]_rewardVars PROVE RewardTypeOK'
    OBVIOUS
<1> USE DEF RewardTypeOK, state, scan, losses, history, Saver
<1>0. OnFile \in Tables
  BY DEF OnFile, Blank, NoOrigin, Tables
<1>1. ASSUME NEW s \in Seed, AflImports(s) PROVE RewardTypeOK'
  BY <1>1 DEF AflImports
<1>2. ASSUME NEW s \in Seed, NEW r \in Roadblock, Register(s, r) PROVE RewardTypeOK'
  BY <1>2 DEF Register
<1>3. CASE Scan
  <2>1. todo' \subseteq Seed /\ below' \subseteq Seed
    BY <1>3 DEF Scan, NewNames
  <2>2. doing' \in [Saver -> {"idle", "detect", "copy", "open", "write"}]
    BY <1>3 DEF Scan
  <2> QED
    BY <1>3, <2>1, <2>2 DEF Scan
<1>12. ASSUME NEW s \in Seed, AflRewrites(s) PROVE RewardTypeOK'
  BY <1>12 DEF AflRewrites
<1>13. CASE ScanAborts
  BY <1>13 DEF ScanAborts, NewNames
<1>4. ASSUME NEW s \in Seed, Skip(s) PROVE RewardTypeOK'
  BY <1>4 DEF Skip
<1>5. ASSUME NEW s \in Seed, Reward(s) PROVE RewardTypeOK'
  BY <1>5 DEF Reward, Earns
<1>6. CASE ScanEnds
  BY <1>6 DEF ScanEnds
<1>7. ASSUME NEW t \in Saver, Copies(t) PROVE RewardTypeOK'
  <2>1. [origin |-> origin, rewarded |-> rewarded] \in Tables
    BY DEF Tables
  <2>2. raced' \in BOOLEAN
    BY <1>7 DEF Copies
  <2> QED
    BY <1>7, <2>1, <2>2 DEF Copies
<1>8. ASSUME NEW t \in Saver, Opens(t) PROVE RewardTypeOK'
  BY <1>8 DEF Opens
<1>9. ASSUME NEW t \in Saver, Writes(t) PROVE RewardTypeOK'
  <2>1. copy[t] \in Tables /\ Blank \in Tables
    BY DEF Blank, NoOrigin, Tables
  <2>2. file' \in [torn : BOOLEAN, of : Tables]
    <3>1. PICK torn \in BOOLEAN : file' = [torn |-> torn, of |-> copy[t]]
      BY <1>9 DEF Writes, Payload
    <3> QED
      BY <2>1, <3>1
  <2> QED
    BY <1>9, <2>1, <2>2 DEF Writes
<1>10. CASE Killed
  <2>1. /\ origin' \in [Seed -> Roadblock \cup {None}] /\ rewarded' \subseteq Seed
        /\ Blank \in Tables
    BY <1>0, <1>10 DEF Killed, Tables, Blank, NoOrigin
  <2>2. unsaved' \in [Seed -> Nat] /\ kills' \in Nat
    BY <1>10 DEF Killed
  <2>3. raced' \in BOOLEAN /\ mislaid' \subseteq Seed
    BY <1>10 DEF Killed
  <2> QED
    BY <1>10, <2>1, <2>2, <2>3 DEF Killed
<1>11. CASE UNCHANGED rewardVars
  BY <1>11 DEF rewardVars
<1> QED
  BY <1>1, <1>2, <1>3, <1>4, <1>5, <1>6, <1>7, <1>8, <1>9, <1>10, <1>11, <1>12, <1>13 DEF NextReward, Monitor, Main

(* Every reachable state is typed.                                         *)
THEOREM RewardsTyped == RewardSpec => []RewardTypeOK
<1>1. InitRewards => RewardTypeOK
  <2>1. Blank \in Tables
    BY DEF Blank, NoOrigin, Tables
  <2>2. [torn |-> FALSE, of |-> Blank] \in [torn : BOOLEAN, of : Tables]
    BY <2>1
  <2>3. ASSUME InitRewards
        PROVE  /\ origin \in [Seed -> Roadblock \cup {None}] /\ rewarded \subseteq Seed
               /\ feed \in [Seed -> Nat] /\ interest \in [Roadblock -> Nat] /\ unsaved \in [Seed -> Nat]
    BY <2>3 DEF InitRewards, NoOrigin
  <2>4. ASSUME InitRewards
        PROVE  doing \in [Saver -> {"idle", "detect", "copy", "open", "write"}] /\ copy \in [Saver -> Tables]
    BY <2>1, <2>4 DEF InitRewards
  <2>5. ASSUME InitRewards
        PROVE  /\ file \in [torn : BOOLEAN, of : Tables] /\ kills \in Nat
               /\ queue \subseteq Seed /\ read \subseteq Seed /\ todo \subseteq Seed
               /\ early \subseteq Seed /\ mislaid \subseteq Seed
               /\ below \subseteq Seed /\ dropped \subseteq Seed /\ unfed \subseteq Seed
    BY <2>2, <2>5 DEF InitRewards
  <2>6. ASSUME InitRewards PROVE applied \in BOOLEAN /\ watermark \in BOOLEAN /\ raced \in BOOLEAN
    BY <2>6 DEF InitRewards
  <2> QED
    BY <2>3, <2>4, <2>5, <2>6 DEF RewardTypeOK
<1> QED
  BY <1>1, NextTyped, PTL DEF RewardSpec

----------------------------------------------------------------------------
(* A seed is among the rewarded from its reward on.  A kill takes it from  *)
(* them only if the file did not have it, and counts.                      *)
FeedInv == \A s \in Seed : feed[s] <= unsaved[s] + (IF s \in rewarded THEN 1 ELSE 0)

LEMMA NextFed == RewardTypeOK /\ FeedInv /\ [NextReward]_rewardVars => FeedInv'
<1> SUFFICES ASSUME RewardTypeOK, FeedInv, [NextReward]_rewardVars, NEW s \in Seed
             PROVE  (feed[s] <= unsaved[s] + (IF s \in rewarded THEN 1 ELSE 0))'
    BY DEF FeedInv
<1>0. /\ feed[s] \in Nat /\ unsaved[s] \in Nat
      /\ feed[s] <= unsaved[s] + (IF s \in rewarded THEN 1 ELSE 0)
  BY DEF RewardTypeOK, FeedInv
<1>1. ASSUME NEW q \in Seed, Reward(q) PROVE (feed[s] <= unsaved[s] + (IF s \in rewarded THEN 1 ELSE 0))'
  <2>1. /\ unsaved' = unsaved /\ rewarded' = rewarded \cup {q} /\ q \notin rewarded
        /\ feed' = [feed EXCEPT ![q] = @ + 1] \/ feed' = feed
        /\ feed \in [Seed -> Nat]
    BY <1>1 DEF Reward, Earns, RewardTypeOK
  <2> QED
    BY <1>0, <2>1
<1>2. CASE Killed
  <2>1. /\ feed' = feed /\ rewarded' = OnFile.rewarded
        /\ unsaved'[s] = IF s \in rewarded \ OnFile.rewarded THEN unsaved[s] + 1 ELSE unsaved[s]
    BY <1>2 DEF Killed
  <2> QED
    BY <1>0, <2>1
<1>3. CASE UNCHANGED <<feed, unsaved, rewarded>>
  BY <1>0, <1>3
<1> QED
  BY <1>1, <1>2, <1>3 DEF NextReward, Monitor, Main, AflImports, AflRewrites, Register, Scan, ScanAborts, Skip, ScanEnds, Copies, Opens,
                          Writes, rewardVars, state, history

(* FedOnce: without a kill that found its reward unsaved, a seed is in the *)
(* reward feed once, though each session scans the whole queue again.      *)
THEOREM RewardedOnce == RewardSpec => []FedOnce
<1>1. InitRewards => FeedInv
  <2> SUFFICES ASSUME InitRewards, NEW s \in Seed
               PROVE  feed[s] <= unsaved[s] + (IF s \in rewarded THEN 1 ELSE 0)
      BY DEF FeedInv
  <2>1. feed[s] = 0 /\ unsaved[s] = 0 /\ s \notin rewarded
    BY DEF InitRewards
  <2> QED
    BY <2>1
<1>2. RewardTypeOK /\ FeedInv => FedOnce
  <2> SUFFICES ASSUME RewardTypeOK, FeedInv, NEW s \in Seed PROVE feed[s] <= 1 + unsaved[s]
      BY DEF FedOnce
  <2>1. /\ feed[s] \in Nat /\ unsaved[s] \in Nat
        /\ feed[s] <= unsaved[s] + (IF s \in rewarded THEN 1 ELSE 0)
    BY DEF RewardTypeOK, FeedInv
  <2> QED
    BY <2>1
<1> QED
  BY <1>1, <1>2, NextFed, RewardsTyped, PTL DEF RewardSpec

----------------------------------------------------------------------------
(* Unless saves overlapped: what one thread is about to write lacks at     *)
(* most what the other has yet to save, and so does the file.              *)
Busy(t) == doing[t] \in {"open", "write"}
OriginsOwed == doing["main"] = "copy"
RewardsOwed == doing["monitor"] = "copy" \/ (doing["monitor"] = "detect" /\ applied)
Current(tables) ==
    /\ tables.origin = origin \/ OriginsOwed
    /\ tables.rewarded = rewarded \/ RewardsOwed
SaveInv ==
    ~raced =>
        /\ ~(Busy("main") /\ Busy("monitor"))
        /\ \A t \in Saver : Busy(t) => Current(copy[t])
        /\ (\A t \in Saver : ~Busy(t)) => ~file.torn /\ Current(file.of)

LEMMA NextSaved == RewardTypeOK /\ SaveInv /\ [NextReward]_rewardVars => SaveInv'
<1> SUFFICES ASSUME RewardTypeOK, SaveInv, [NextReward]_rewardVars, ~raced' PROVE SaveInv'
    BY DEF SaveInv
<1> USE DEF SaveInv, Busy, OriginsOwed, RewardsOwed, Current, Saver, state, scan, losses, history
<1>0. doing \in [Saver -> {"idle", "detect", "copy", "open", "write"}] /\ copy \in [Saver -> Tables]
  BY DEF RewardTypeOK
<1>1. ASSUME NEW s \in Seed, AflImports(s) PROVE SaveInv'
  BY <1>1 DEF AflImports
<1>2. ASSUME NEW s \in Seed, NEW r \in Roadblock, Register(s, r) PROVE SaveInv'
  BY <1>0, <1>2 DEF Register
<1>3. CASE Scan
  BY <1>0, <1>3 DEF Scan
<1>12. ASSUME NEW s \in Seed, AflRewrites(s) PROVE SaveInv'
  BY <1>12 DEF AflRewrites
<1>13. CASE ScanAborts
  BY <1>13 DEF ScanAborts
<1>4. ASSUME NEW s \in Seed, Skip(s) PROVE SaveInv'
  BY <1>4 DEF Skip
<1>5. ASSUME NEW s \in Seed, Reward(s) PROVE SaveInv'
  BY <1>0, <1>5 DEF Reward
<1>6. CASE ScanEnds
  BY <1>0, <1>6 DEF ScanEnds
<1>7. ASSUME NEW t \in Saver, Copies(t) PROVE SaveInv'
  <2>1. ~raced /\ \A u \in Saver \ {t} : ~Busy(u)
    BY <1>7 DEF Copies
  <2> QED
    BY <1>0, <1>7, <2>1 DEF Copies
<1>8. ASSUME NEW t \in Saver, Opens(t) PROVE SaveInv'
  BY <1>0, <1>8 DEF Opens
<1>9. ASSUME NEW t \in Saver, Writes(t) PROVE SaveInv'
  <2>1. ~raced /\ Busy(t) /\ \A u \in Saver \ {t} : ~Busy(u)
    BY <1>9 DEF Writes
  <2>2. file' = [torn |-> FALSE, of |-> copy[t]]
    BY <1>9, <2>1 DEF Writes, Payload
  <2> QED
    BY <1>0, <1>9, <2>1, <2>2 DEF Writes
<1>10. CASE Killed
  BY <1>10 DEF Killed, OnFile
<1>11. CASE UNCHANGED rewardVars
  BY <1>11 DEF rewardVars
<1> QED
  BY <1>1, <1>2, <1>3, <1>4, <1>5, <1>6, <1>7, <1>8, <1>9, <1>10, <1>11, <1>12, <1>13 DEF NextReward, Monitor, Main

(* SavesKeepBoth: registrations and rewards that are saved without an      *)
(* overlap are both on file, whichever thread wrote last.                  *)
THEOREM SavedTogether == RewardSpec => []SavesKeepBoth
<1>1. InitRewards => SaveInv
  BY DEF InitRewards, SaveInv, Busy, Current, Saver, Blank
<1>2. RewardTypeOK /\ SaveInv => SavesKeepBoth
  <2> SUFFICES ASSUME RewardTypeOK, SaveInv, \A t \in Saver : doing[t] = "idle", ~raced
               PROVE  file = [torn |-> FALSE, of |-> [origin |-> origin, rewarded |-> rewarded]]
      BY DEF SavesKeepBoth
  <2>1. ~file.torn /\ file.of.origin = origin /\ file.of.rewarded = rewarded
    BY DEF SaveInv, Busy, Current, OriginsOwed, RewardsOwed, Saver
  <2>2. file.of = [origin |-> origin, rewarded |-> rewarded]
    BY <2>1 DEF RewardTypeOK, Tables
  <2> QED
    BY <2>1, <2>2 DEF RewardTypeOK
<1> QED
  BY <1>1, <1>2, NextSaved, RewardsTyped, PTL DEF RewardSpec

(* RewardsAgree: a seed is rewarded once, and what both threads know is on *)
(* file, but for kills and overlapping saves.                              *)
THEOREM RewardsStand == RewardSpec => []RewardsAgree
  BY RewardedOnce, SavedTogether, PTL DEF RewardsAgree

----------------------------------------------------------------------------
(* A scan that looks at a seed owed its reward does not pass over it: once *)
(* it has read the name, the seed is fed, or still on the scan's list, or  *)
(* its line could not be written, or the scan was aborted, or a kill lost  *)
(* its origin; and what it has not read it will, unless the watermark      *)
(* hides it.                                                               *)
NeverPassedOver ==
    \A s \in CovSeed : s \in early =>
        \/ feed[s] > 0 \/ s \in unfed \/ s \in dropped \/ s \in mislaid
        \/ s \in todo \/ s \in NewNames \/ s \in below \ read

(* Who is among the rewarded, in memory, in a copy or on file, is fed or   *)
(* its line failed; a seed registered in time keeps its origin; a scan     *)
(* ends with its list; what was imported stays in the queue.               *)
Fed(set) == \A s \in set : feed[s] > 0 \/ s \in unfed
PaidInv ==
    /\ Fed(rewarded) /\ (~file.torn => Fed(file.of.rewarded)) /\ \A t \in Saver : Fed(copy[t].rewarded)
    /\ \A s \in early : s \in queue /\ (origin[s] # None \/ s \in mislaid)
    /\ read \subseteq queue /\ (doing["monitor"] # "detect" => todo = {})
OweInv == PaidInv /\ NeverPassedOver

LEMMA NextOwed == RewardTypeOK /\ OweInv /\ [NextReward]_rewardVars => OweInv'
<1> SUFFICES ASSUME RewardTypeOK, OweInv, [NextReward]_rewardVars PROVE OweInv'
    OBVIOUS
<1> USE DEF OweInv, PaidInv, Fed, NeverPassedOver, NewNames, state, scan, losses, history
<1>0. /\ doing \in [Saver -> {"idle", "detect", "copy", "open", "write"}] /\ copy \in [Saver -> Tables]
      /\ feed \in [Seed -> Nat] /\ file \in [torn : BOOLEAN, of : Tables] /\ rewarded \subseteq Seed
      /\ "monitor" \in Saver /\ "main" \in Saver
  BY DEF RewardTypeOK, Saver
<1>1. ASSUME NEW s \in Seed, AflImports(s) PROVE OweInv'
  BY <1>1 DEF AflImports
<1>2. ASSUME NEW s \in Seed, NEW r \in Roadblock, Register(s, r) PROVE OweInv'
  <2>1. r # None /\ origin \in [Seed -> Roadblock \cup {None}]
    BY DEF RewardTypeOK
  <2>2. \A q \in early : q \in queue /\ (origin'[q] # None \/ q \in mislaid)
    BY <1>2, <2>1 DEF Register, RewardTypeOK
  <2>3. doing'["monitor"] = doing["monitor"]
    BY <1>0, <1>2 DEF Register
  <2> QED
    BY <1>2, <2>2, <2>3 DEF Register
<1>3. CASE Scan
  <2>1. PICK unlisted \in SUBSET queue :
            /\ todo' = NewNames \ unlisted
            /\ below' = (below \cup queue) \ (unlisted \ below)
    BY <1>3 DEF Scan
  <2>2. /\ read' = read \cup todo'
        /\ UNCHANGED <<origin, rewarded, feed, interest, file, queue, copy, early, mislaid, dropped, unfed>>
    BY <1>3 DEF Scan
  <2>3. todo = {} /\ (doing'["monitor"] # "detect" => todo' = {})
    BY <1>0, <1>3 DEF Scan
  <2>4. NeverPassedOver'
    BY <2>1, <2>2, <2>3
  <2>5. read' \subseteq queue'
    BY <2>1, <2>2
  <2> QED
    BY <2>2, <2>3, <2>4, <2>5
<1>12. ASSUME NEW s \in Seed, AflRewrites(s) PROVE OweInv'
  <2>1. /\ s \in below \ read /\ below' = below \ {s}
        /\ UNCHANGED <<origin, rewarded, feed, file, queue, read, todo, doing, copy, early, mislaid, dropped, unfed>>
    BY <1>12 DEF AflRewrites
  <2> QED
    BY <2>1
<1>13. CASE ScanAborts
  <2>1. PICK marked \in SUBSET NewNames : read' = read \cup marked /\ dropped' = dropped \cup marked
    BY <1>13 DEF ScanAborts
  <2>2. UNCHANGED <<origin, rewarded, feed, file, queue, below, todo, doing, copy, early, mislaid, unfed>>
    BY <1>13 DEF ScanAborts
  <2> QED
    BY <2>1, <2>2
<1>4. ASSUME NEW s \in Seed, Skip(s) PROVE OweInv'
  BY <1>4 DEF Skip, Earns
<1>5. ASSUME NEW s \in Seed, Reward(s) PROVE OweInv'
  <2>1. /\ \/ feed' = [feed EXCEPT ![s] = @ + 1] /\ unfed' = unfed
           \/ unfed' = unfed \cup {s} /\ feed' = feed
        /\ rewarded' = rewarded \cup {s} /\ todo' = todo \ {s} /\ doing["monitor"] = "detect"
        /\ UNCHANGED <<origin, file, queue, below, read, doing, copy, early, mislaid, dropped>>
    BY <1>5 DEF Reward
  <2>2. /\ feed'[s] > 0 \/ s \in unfed'
        /\ \A q \in Seed : feed[q] > 0 \/ q \in unfed => feed'[q] > 0 \/ q \in unfed'
    BY <1>0, <2>1
  <2>3. Fed(rewarded)' /\ (~file.torn => Fed(file.of.rewarded))' /\ \A t \in Saver : Fed(copy[t].rewarded)'
    BY <1>0, <2>1, <2>2 DEF Tables
  <2>4. NeverPassedOver'
    BY <2>1, <2>2, RewardAssumption
  <2> QED
    BY <2>1, <2>3, <2>4
<1>6. CASE ScanEnds
  BY <1>0, <1>6 DEF ScanEnds
<1>7. ASSUME NEW t \in Saver, Copies(t) PROVE OweInv'
  <2>1. \A u \in Saver : Fed(copy'[u].rewarded)
    BY <1>0, <1>7 DEF Copies
  <2>2. doing["monitor"] # "detect" <=> doing'["monitor"] # "detect"
    BY <1>0, <1>7 DEF Copies
  <2> QED
    BY <1>7, <2>1, <2>2 DEF Copies
<1>8. ASSUME NEW t \in Saver, Opens(t) PROVE OweInv'
  BY <1>0, <1>8 DEF Opens
<1>9. ASSUME NEW t \in Saver, Writes(t) PROVE OweInv'
  <2>1. file'.of = copy[t]
    BY <1>0, <1>9 DEF Writes, Payload
  <2>2. copy' = [copy EXCEPT ![t] = Blank] /\ Blank.rewarded = {}
    BY <1>9 DEF Writes, Blank
  <2>3. \A u \in Saver : Fed(copy'[u].rewarded)
    BY <1>0, <2>2
  <2>4. doing["monitor"] # "detect" <=> doing'["monitor"] # "detect"
    BY <1>0, <1>9 DEF Writes
  <2> QED
    BY <1>9, <2>1, <2>3, <2>4 DEF Writes
<1>10. CASE Killed
  <2>1. /\ origin' = OnFile.origin /\ rewarded' = OnFile.rewarded /\ read' = {} /\ todo' = {}
        /\ copy' = [t \in Saver |-> Blank] /\ UNCHANGED <<feed, file, queue, early>>
        /\ below' = {} /\ dropped' = {} /\ unfed' = unfed \cap OnFile.rewarded
        /\ mislaid' = mislaid \cup {s \in Seed : OnFile.origin[s] # origin[s]}
    BY <1>10 DEF Killed
  <2>2. Blank.rewarded = {} /\ Fed(OnFile.rewarded)
    BY DEF Blank, OnFile
  <2>3. \A s \in early : s \in queue /\ (origin'[s] # None \/ s \in mislaid')
    BY <2>1 DEF RewardTypeOK
  <2>4. Fed(rewarded)' /\ \A t \in Saver : Fed(copy[t].rewarded)'
    BY <2>1, <2>2
  <2>5. (~file.torn => Fed(file.of.rewarded))'
    BY <2>1, <2>2 DEF OnFile
  <2>6. NeverPassedOver'
    BY <2>1, <2>3
  <2> QED
    BY <2>1, <2>3, <2>4, <2>5, <2>6
<1>11. CASE UNCHANGED rewardVars
  BY <1>11 DEF rewardVars
<1> HIDE DEF OweInv, PaidInv, Fed, NeverPassedOver, NewNames
<1> QED
  BY <1>0, <1>1, <1>2, <1>3, <1>4, <1>5, <1>6, <1>7, <1>8, <1>9, <1>10, <1>11, <1>12, <1>13 DEF NextReward, Monitor, Main

(* NeverPassedOver: a +cov seed registered before its import waits to be   *)
(* looked at, or has its reward, or is one of the losses the code admits:  *)
(* hidden by the watermark, dropped by an aborted scan, a failed write of  *)
(* the feed, an origin a kill found only in memory.                        *)
THEOREM RewardOwed == RewardSpec => []NeverPassedOver
<1>1. InitRewards => OweInv
  BY DEF InitRewards, OweInv, PaidInv, Fed, NeverPassedOver, Blank
<1>2. OweInv => NeverPassedOver
  BY DEF OweInv
<1> QED
  BY <1>1, <1>2, NextOwed, RewardsTyped, PTL DEF RewardSpec
=============================================================================
