----------------------- MODULE AttemptSchedulerProofs -----------------------
(* Theorems about AttemptScheduler, for every set of keys and of results.  *)
EXTENDS AttemptScheduler, TLAPS

(***************************************************************************)
(* Type correctness, with the control state.                               *)
(***************************************************************************)
Control ==
    /\ phase \in {"pick", "record"} => inHand \in Key
    /\ phase \in {"rest", "offer"} => ~writing
    /\ phase \in {"sync", "offer"} => steady \subseteq cand

Typed == TypeOK /\ Control

LEMMA FreshTyped == Zero \in [Key -> Nat] /\ Fresh \in Table
  BY DEF Zero, Fresh, Table

LEMMA KeptTyped == ASSUME NEW t \in Table, NEW C \in SUBSET Key PROVE Kept(t, C) \in Table
  BY DEF Kept, Table

LEMMA DownTyped == ASSUME NEW f \in [Key -> Nat] PROVE Down(f) \in [Key -> Nat]
  BY DEF Down

LEMMA CoolTyped ==
    ASSUME NEW t \in Table, NEW f \in [Key -> Nat]
    PROVE  [t EXCEPT !.cool = f] \in Table
  BY DEF Table

LEMMA PickTyped ==
    ASSUME NEW t \in Table, NEW k \in Key
    PROVE  [t EXCEPT !.picks[k] = @ + 1, !.last = k] \in Table
<1>1. t.picks \in [Key -> Nat]
  BY DEF Table
<1>2. [t.picks EXCEPT ![k] = @ + 1] \in [Key -> Nat]
  BY <1>1
<1>. QED
  BY <1>2 DEF Table

LEMMA RestNat == ASSUME NEW o \in Outcome, NEW n \in Nat PROVE Rest(o, n) \in Nat
  BY DEF Rest, Cooldown, Outcome

(* A longer run of failures never rests a key for less.                    *)
LEMMA RestMonotone ==
    ASSUME NEW o \in Outcome, NEW m \in Nat, NEW n \in Nat, m <= n
    PROVE  Rest(o, m) <= Rest(o, n)
  BY DEF Rest, Cooldown, Outcome

LEMMA RecordTyped ==
    ASSUME NEW t \in Table, NEW k \in Key, NEW o \in Outcome, NEW f \in Nat
    PROVE  [t EXCEPT !.score[k] = @ - Penalty(o), !.fails[k] = f, !.cool[k] = Rest(o, f)] \in Table
<1>1. Penalty(o) \in Int /\ Rest(o, f) \in Nat
  BY RestNat DEF Penalty, Outcome
<1>2. t.score \in [Key -> Int] /\ t.fails \in [Key -> Nat] /\ t.cool \in [Key -> Nat]
  BY DEF Table
<1>3. /\ [t.score EXCEPT ![k] = @ - Penalty(o)] \in [Key -> Int]
      /\ [t.fails EXCEPT ![k] = f] \in [Key -> Nat]
      /\ [t.cool EXCEPT ![k] = Rest(o, f)] \in [Key -> Nat]
  BY <1>1, <1>2
<1>. QED
  BY <1>3 DEF Table

LEMMA InitTyped == Init => Typed
  BY FreshTyped DEF Init, Typed, TypeOK, Control, Phase

LEMMA NextTyped == Typed /\ [Next]_schedVars => Typed'
<1> SUFFICES ASSUME Typed, [Next]_schedVars PROVE Typed'
  OBVIOUS
<1> USE DEF Typed, TypeOK, Control, Phase, history
<1>1. ASSUME NEW C \in SUBSET Key, Sync(C) PROVE Typed'
  BY <1>1, KeptTyped DEF Sync
<1>2. CASE SaveOpens
  BY <1>2 DEF SaveOpens
<1>3. CASE SaveWrites
  BY <1>3 DEF SaveWrites, FileContents
<1>4. ASSUME NEW k \in Key, Select(k) PROVE Typed'
  BY <1>4, PickTyped DEF Select
<1>5. CASE SelectNothing
  BY <1>5 DEF SelectNothing
<1>6. ASSUME NEW o \in Results, Record(o) PROVE Typed'
  <2>1. inHand \in Key /\ o \in Outcome /\ mem.fails[inHand] \in Nat
    BY <1>6, SchedulerAssumption DEF Record, Table
  <2>2. Failures(mem.fails[inHand], o) \in Nat
    BY <2>1 DEF Failures
  <2> DEFINE count == IF o \in {"breakthrough", "success"} THEN 0
                      ELSE IF inHand \in forgot THEN 1 ELSE streak[inHand] + 1
  <2>3. /\ count \in Nat
        /\ streak' = [streak EXCEPT ![inHand] = count]
        /\ owed' = [owed EXCEPT ![inHand] = Rest(o, count)]
    BY <1>6, <2>1 DEF Record
  <2>4. mem' \in Table
    BY <1>6, <2>1, <2>2, RecordTyped DEF Record
  <2>5. streak' \in [Key -> Nat] /\ owed' \in [Key -> Nat]
    BY <2>1, <2>3, RestNat
  <2>. QED
    BY <1>6, <2>1, <2>4, <2>5 DEF Record
<1>7. CASE Tick
  <2>1. mem.cool \in [Key -> Nat] /\ disk.cool \in [Key -> Nat]
    BY DEF Table
  <2>2. mem' \in Table /\ disk' \in Table /\ owed' \in [Key -> Nat]
    BY <1>7, <2>1, DownTyped, CoolTyped DEF Tick
  <2>. QED
    BY <1>7, <2>2 DEF Tick
<1>8. CASE Killed
  BY <1>8, FreshTyped DEF Killed, Loaded
<1>9. CASE UNCHANGED schedVars
  BY <1>9 DEF schedVars
<1>. QED
  BY <1>1, <1>2, <1>3, <1>4, <1>5, <1>6, <1>7, <1>8, <1>9 DEF Next

(* The table, the file and the control state keep their types.             *)
THEOREM TypeCorrect == Spec => []TypeOK
<1>1. Typed => TypeOK
  BY DEF Typed
<1>. QED
  BY InitTyped, NextTyped, <1>1, PTL DEF Spec

(* The type invariant together with the control state is invariant.        *)
THEOREM ControlTyped == Spec => []Typed
  BY InitTyped, NextTyped, PTL DEF Spec

(***************************************************************************)
(* Durable: the invariant is inductive once the control state is known.    *)
(***************************************************************************)
LEMMA NextDurable == Typed /\ Durable /\ [Next]_schedVars => Durable'
<1> SUFFICES ASSUME Typed, Durable, [Next]_schedVars PROVE Durable'
  OBVIOUS
<1> USE DEF Durable, Typed, TypeOK, Control, Phase
<1>1. CASE SaveWrites
  BY <1>1 DEF SaveWrites, FileContents
<1>2. CASE Tick
  BY <1>2 DEF Tick
<1>3. CASE Killed
  BY <1>3 DEF Killed, Loaded
<1>4. CASE UNCHANGED schedVars
  BY <1>4 DEF schedVars
<1>. QED
  BY <1>1, <1>2, <1>3, <1>4 DEF Next, Sync, SaveOpens, Select, SelectNothing, Record

(* No operation of the scheduler returns before the file holds its result. *)
THEOREM ReturnedIsSaved == Spec => []Durable
<1>1. Init => Durable
  BY DEF Init, Durable
<1>. QED
  BY <1>1, NextDurable, ControlTyped, PTL DEF Spec

(***************************************************************************)
(* FairRotation.  A key that was never penalised ranks above every key     *)
(* that was, so among the steady keys only the counts decide; and the last *)
(* key picked, the one the pool leaves out, has the highest count.         *)
(***************************************************************************)
Fair(t) ==
    /\ \A j, k \in steady : t.picks[j] <= t.picks[k] + 1
    /\ t.last \in steady => \A k \in steady : t.picks[k] <= t.picks[t.last]
    /\ \A k \in steady : t.score[k] = 0 /\ t.fails[k] = 0 /\ t.cool[k] = 0
    /\ \A k \in Key : t.score[k] <= 0

FairInv == Fair(mem) /\ (readable => Fair(disk))

LEMMA SteadyPick ==
    ASSUME Typed, Fair(mem), NEW k \in Key, Select(k), k \in steady
    PROVE  \A j \in steady : mem.picks[k] <= mem.picks[j]
<1> SUFFICES ASSUME NEW j \in steady PROVE mem.picks[k] <= mem.picks[j]
  OBVIOUS
<1>1. mem \in Table /\ j \in Key /\ steady \subseteq cand
  BY DEF Typed, TypeOK, Control, Select
<1>2. j \in Ready /\ k \in Ready
  BY <1>1 DEF Fair, Ready, Eligible
<1>3. CASE j \in Pool
  BY <1>1, <1>3 DEF Select, Better, Fair, Table
<1>4. CASE j \notin Pool
  <2>1. j = mem.last
    BY <1>2, <1>4 DEF Pool
  <2>. QED
    BY <2>1 DEF Fair
<1>. QED
  BY <1>3, <1>4

LEMMA NextFair == Typed /\ FairInv /\ [Next]_schedVars => FairInv'
<1> SUFFICES ASSUME Typed, FairInv, [Next]_schedVars PROVE FairInv'
  OBVIOUS
<1> USE DEF Typed, TypeOK, FairInv
<1>1. ASSUME NEW C \in SUBSET Key, Sync(C) PROVE FairInv'
  <2>1. steady' = steady \cap C /\ mem' = Kept(mem, C) /\ UNCHANGED <<disk, readable>>
    BY <1>1 DEF Sync
  <2>2. Fair(mem)'
    <3>1. /\ \A k \in C : /\ mem'.picks[k] = mem.picks[k] /\ mem'.score[k] = mem.score[k]
                         /\ mem'.fails[k] = mem.fails[k] /\ mem'.cool[k] = mem.cool[k]
          /\ \A k \in Key \ C : mem'.score[k] = 0
          /\ mem'.last = IF mem.last \in C THEN mem.last ELSE None
      BY <2>1 DEF Kept
    <3>. QED
      BY <2>1, <3>1, SchedulerAssumption DEF Fair
  <2>3. (readable => Fair(disk))'
    BY <2>1 DEF Fair
  <2>. QED
    BY <2>2, <2>3
<1>2. CASE SaveOpens
  BY <1>2 DEF SaveOpens, Fair, history
<1>3. CASE SaveWrites
  BY <1>3 DEF SaveWrites, FileContents, Fair, history
<1>4. ASSUME NEW k \in Key, Select(k) PROVE FairInv'
  <2>1. /\ mem' = [mem EXCEPT !.picks[k] = @ + 1, !.last = k]
        /\ UNCHANGED <<disk, readable, steady>>
    BY <1>4 DEF Select, history
  <2>2. /\ mem'.picks = [mem.picks EXCEPT ![k] = @ + 1] /\ mem'.last = k
        /\ mem'.score = mem.score /\ mem'.fails = mem.fails /\ mem'.cool = mem.cool
    BY <2>1 DEF Table
  <2>3. k \in steady => \A j \in steady : mem.picks[k] <= mem.picks[j]
    BY <1>4, SteadyPick
  <2>4. mem.picks \in [Key -> Nat]
    BY DEF Table
  <2>5. Fair(mem)'
    BY <2>1, <2>2, <2>3, <2>4 DEF Fair
  <2>. QED
    BY <2>1, <2>5 DEF Fair
<1>5. CASE SelectNothing
  BY <1>5 DEF SelectNothing, Fair, history
<1>6. ASSUME NEW o \in Results, Record(o) PROVE FairInv'
  <2>1. inHand \in Key /\ o \in Outcome /\ Penalty(o) \in Nat
    BY <1>6, SchedulerAssumption DEF Record, Penalty, Outcome
  <2>2. /\ mem'.picks = mem.picks /\ mem'.last = mem.last
        /\ mem'.score = [mem.score EXCEPT ![inHand] = @ - Penalty(o)]
        /\ \A k \in Key \ {inHand} : mem'.fails[k] = mem.fails[k] /\ mem'.cool[k] = mem.cool[k]
    BY <1>6 DEF Record, Table
  <2>3. steady' = steady \ {inHand} /\ UNCHANGED <<disk, readable>>
    BY <1>6 DEF Record
  <2>4. mem.score \in [Key -> Int]
    BY DEF Table
  <2>5. Fair(mem)'
    BY <2>1, <2>2, <2>3, <2>4 DEF Fair
  <2>. QED
    BY <2>3, <2>5 DEF Fair
<1>7. CASE Tick
  <2>1. \A t \in Table : Fair(t) => Fair([t EXCEPT !.cool = Down(t.cool)])
    BY DEF Fair, Down, Table
  <2>2. /\ mem' = [mem EXCEPT !.cool = Down(mem.cool)]
        /\ disk' = [disk EXCEPT !.cool = Down(disk.cool)]
        /\ UNCHANGED <<steady, readable>>
    BY <1>7 DEF Tick
  <2>3. Fair(mem') /\ (readable => Fair(disk'))
    BY <2>1, <2>2
  <2>. QED
    BY <2>2, <2>3 DEF Fair
<1>8. CASE Killed
  BY <1>8 DEF Killed, Loaded, Fresh, Zero, Fair
<1>9. CASE UNCHANGED schedVars
  BY <1>9 DEF schedVars, history, Fair
<1>. QED
  BY <1>1, <1>2, <1>3, <1>4, <1>5, <1>6, <1>7, <1>8, <1>9 DEF Next

(* Keys that stay on offer and are not penalised take turns.               *)
THEOREM SteadyKeysTakeTurns == Spec => []FairRotation
<1>1. Init => FairInv
  BY DEF Init, FairInv, Fair, Fresh, Zero
<1>2. FairInv => FairRotation
  BY DEF FairInv, Fair, FairRotation
<1>. QED
  BY <1>1, <1>2, NextFair, ControlTyped, PTL DEF Spec

(***************************************************************************)
(* NoEarlyRetry.  What memory and file know of a key covers what the key   *)
(* owes, save for keys whose results were dropped.                         *)
(***************************************************************************)
Covers(t, k) == owed[k] <= t.cool[k] /\ streak[k] <= t.fails[k]

OwedInv ==
    /\ \A k \in Key \ forgot : Covers(mem, k)
    /\ readable => \A k \in Key \ forgot :
                      Covers(disk, k) \/ (phase = "record" /\ k = inHand)

LEMMA NextOwed == Typed /\ OwedInv /\ [Next]_schedVars => OwedInv'
<1> SUFFICES ASSUME Typed, OwedInv, [Next]_schedVars PROVE OwedInv'
  OBVIOUS
<1> USE DEF Typed, TypeOK, OwedInv
<1>1. ASSUME NEW C \in SUBSET Key, Sync(C) PROVE OwedInv'
  BY <1>1 DEF Sync, Kept, Table, Covers
<1>2. CASE SaveOpens
  BY <1>2 DEF SaveOpens, Covers, history
<1>3. CASE SaveWrites
  BY <1>3 DEF SaveWrites, FileContents, Covers, history
<1>4. ASSUME NEW k \in Key, Select(k) PROVE OwedInv'
  <2>1. mem'.fails = mem.fails /\ mem'.cool = mem.cool
    BY <1>4 DEF Select, Table
  <2>. QED
    BY <1>4, <2>1 DEF Select, Covers, history
<1>5. CASE SelectNothing
  BY <1>5 DEF SelectNothing, Covers, history
<1>6. ASSUME NEW o \in Results, Record(o) PROVE OwedInv'
  <2> DEFINE k == inHand
             f == Failures(mem.fails[k], o)
             n == IF o \in {"breakthrough", "success"} THEN 0
                  ELSE IF k \in forgot THEN 1 ELSE streak[k] + 1
  <2>1. k \in Key /\ o \in Outcome /\ mem.fails[k] \in Nat /\ streak[k] \in Nat
    BY <1>6, SchedulerAssumption DEF Record, Table
  <2>2. f \in Nat /\ n \in Nat /\ n <= f
    BY <2>1 DEF Failures, Covers
  <2>3. Rest(o, n) <= Rest(o, f)
    BY <2>1, <2>2, RestMonotone
  <2>4. /\ mem'.fails = [mem.fails EXCEPT ![k] = f]
        /\ mem'.cool = [mem.cool EXCEPT ![k] = Rest(o, f)]
    BY <1>6 DEF Record, Table
  <2>5. /\ streak' = [streak EXCEPT ![k] = n] /\ owed' = [owed EXCEPT ![k] = Rest(o, n)]
        /\ forgot' = forgot \ {k} /\ phase' = "record"
        /\ UNCHANGED <<disk, readable, inHand>>
    BY <1>6 DEF Record
  <2>6. mem.fails \in [Key -> Nat] /\ mem.cool \in [Key -> Nat]
    BY DEF Table
  <2> HIDE DEF k, f, n
  <2>7. \A j \in Key \ forgot' : Covers(mem, j)'
    BY <2>1, <2>2, <2>3, <2>4, <2>5, <2>6 DEF Covers
  <2>8. k = inHand /\ phase = "rest"
    BY <1>6 DEF Record, k
  <2>9. (readable => \A j \in Key \ forgot :
                        Covers(disk, j) \/ (phase = "record" /\ j = inHand))'
    BY <2>1, <2>5, <2>8 DEF Covers
  <2>. QED
    BY <2>7, <2>9
<1>7. CASE Tick
  <2>1. /\ mem'.cool = Down(mem.cool) /\ disk'.cool = Down(disk.cool) /\ owed' = Down(owed)
        /\ mem'.fails = mem.fails /\ disk'.fails = disk.fails
        /\ UNCHANGED <<readable, phase, inHand, streak, forgot>>
    BY <1>7 DEF Tick, Table
  <2>2. mem.cool \in [Key -> Nat] /\ disk.cool \in [Key -> Nat]
    BY DEF Table
  <2>. QED
    BY <2>1, <2>2 DEF Down, Covers
<1>8. CASE Killed
  BY <1>8 DEF Killed, Loaded, Covers
<1>9. CASE UNCHANGED schedVars
  BY <1>9 DEF schedVars, history, Covers
<1>. QED
  BY <1>1, <1>2, <1>3, <1>4, <1>5, <1>6, <1>7, <1>8, <1>9 DEF Next

(* No key is picked before its penalty is over while another could be,     *)
(* unless its results were dropped.                                        *)
THEOREM PenaltiesAreServed == Spec => NoEarlyRetry
<1>1. Init => OwedInv
  BY DEF Init, OwedInv, Fresh, Zero, Covers
<1>2. Typed /\ OwedInv /\ [Next]_schedVars
        => [\A k \in Key : Picks(k) => \/ owed[k] = 0
                                       \/ k \in forgot
                                       \/ \A j \in cand : mem.cool[j] > 0]_schedVars
  <2> SUFFICES ASSUME Typed, OwedInv, Next, NEW k \in Key, Picks(k), owed[k] # 0, k \notin forgot,
                      NEW j \in cand
               PROVE  mem.cool[j] > 0
    BY DEF schedVars, Picks
  <2>1. Select(k)
    BY DEF Next, Picks, Sync, SaveOpens, SaveWrites, Select, SelectNothing, Record, Tick, Killed
  <2>2. mem.cool \in [Key -> Nat] /\ owed \in [Key -> Nat] /\ j \in Key
    BY DEF Typed, TypeOK, Table
  <2>3. mem.cool[k] # 0 /\ k \in Ready
    BY <2>1, <2>2 DEF OwedInv, Covers, Select, Pool
  <2>4. Eligible = {}
    BY <2>3 DEF Ready, Eligible
  <2>. QED
    BY <2>2, <2>4 DEF Eligible
<1>. QED
  BY <1>1, <1>2, NextOwed, ControlTyped, PTL DEF Spec, NoEarlyRetry
=============================================================================
