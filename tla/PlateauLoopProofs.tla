------------------------- MODULE PlateauLoopProofs -------------------------
(* Theorems about PlateauLoop, for every set of roadblocks and every       *)
(* bound.                                                                  *)
EXTENDS PlateauLoop, TLAPS

(***************************************************************************)
(* The loop drives the scheduler through its operations.                   *)
(***************************************************************************)
LEMMA InitRefines == Init => Sched!Init
  BY DEF Init

LEMMA NextRefines == [Next]_vars => [Sched!Next]_(Sched!schedVars)
<1> SUFFICES ASSUME Next PROVE Sched!Next \/ UNCHANGED Sched!schedVars
  BY DEF vars, schedVars, Sched!schedVars, Sched!history
<1>1. ASSUME NEW R \in SUBSET Key, ListRoadblocks(R) PROVE Sched!Next
  BY <1>1 DEF ListRoadblocks, Skipped, Sched!Next
<1>2. CASE Choose
  BY <1>2 DEF Choose, Sched!Next
<1>3. CASE Restart
  BY <1>3 DEF Restart, Sched!Next
<1>4. CASE UNCHANGED schedVars
  BY <1>4 DEF schedVars, Sched!schedVars, Sched!history
<1>. QED
  BY <1>1, <1>2, <1>3, <1>4
  DEF Next, Session, Main, Monitor, Interrupt, AflFinds, AflDies, Clock, MainHead, MainSample,
      MainWaits, ListNothing, Attempt, AttemptRaises, AttemptHangs, ListRaises, Judge, Ends, Joins, Closes,
      MonitorHead, MonitorScans, MonitorWaits

LEMMA LoopRunsScheduler == Spec => Sched!Spec
  BY InitRefines, NextRefines, PTL DEF Spec, Sched!Spec

(***************************************************************************)
(* What was proved of the scheduler holds of the scheduler of the loop.    *)
(***************************************************************************)
Proved == INSTANCE AttemptSchedulerProofs WITH Results <- {}

LEMMA Premise == Proved!SchedulerAssumption
  BY LoopAssumption DEF Proved!SchedulerAssumption, Proved!Outcome

LEMMA SameOperations ==
    /\ Sched!Init <=> Proved!Init
    /\ \A C \in SUBSET Key : Sched!Sync(C) <=> Proved!Sync(C)
    /\ Sched!SaveOpens <=> Proved!SaveOpens
    /\ Sched!SaveWrites <=> Proved!SaveWrites
    /\ \A k \in Key : Sched!Select(k) <=> Proved!Select(k)
    /\ Sched!SelectNothing <=> Proved!SelectNothing
    /\ Sched!Tick <=> Proved!Tick
    /\ Sched!Killed <=> Proved!Killed
  BY DEF Sched!Init, Proved!Init, Sched!Fresh, Proved!Fresh, Sched!Zero, Proved!Zero,
         Sched!Sync, Proved!Sync, Sched!Kept, Proved!Kept,
         Sched!SaveOpens, Proved!SaveOpens, Sched!SaveWrites, Proved!SaveWrites,
         Sched!FileContents, Proved!FileContents, Sched!history, Proved!history,
         Sched!Select, Proved!Select, Sched!Pool, Proved!Pool, Sched!Ready, Proved!Ready,
         Sched!Eligible, Proved!Eligible, Sched!Better, Proved!Better,
         Sched!SelectNothing, Proved!SelectNothing, Sched!Tick, Proved!Tick,
         Sched!Down, Proved!Down, Sched!Killed, Proved!Killed, Sched!Loaded, Proved!Loaded

LEMMA SameNext == Sched!Next <=> Proved!Next
  BY SameOperations DEF Sched!Next, Proved!Next

LEMMA SameSpec == Sched!Spec => Proved!Spec
<1>1. Sched!Init => Proved!Init
  BY SameOperations
<1>2. [Sched!Next]_(Sched!schedVars) => [Proved!Next]_(Proved!schedVars)
  <2>1. UNCHANGED Sched!schedVars => UNCHANGED Proved!schedVars
    BY DEF Sched!schedVars, Proved!schedVars, Sched!history, Proved!history
  <2>. QED
    BY <2>1, SameNext
<1>. QED
  BY <1>1, <1>2, PTL DEF Sched!Spec, Proved!Spec

LEMMA SchedulerTyped == Spec => []Sched!TypeOK
<1>1. Proved!TypeOK => Sched!TypeOK
  BY DEF Proved!TypeOK, Sched!TypeOK, Proved!Table, Sched!Table, Proved!Phase, Sched!Phase
<1>2. Proved!Spec => []Proved!TypeOK
  BY Premise, Proved!TypeCorrect
<1>. QED
  BY <1>1, <1>2, SameSpec, LoopRunsScheduler, PTL

LEMMA SchedulerDurable == Spec => []Sched!Durable
<1>1. Proved!Durable => Sched!Durable
  BY DEF Proved!Durable, Sched!Durable
<1>2. Proved!Spec => []Proved!Durable
  BY Premise, Proved!ReturnedIsSaved
<1>. QED
  BY <1>1, <1>2, SameSpec, LoopRunsScheduler, PTL

(* The roadblocks that every listing of the program contained are picked   *)
(* in turn, through epochs, interrupts, crashes and new sessions.          *)
THEOREM RoadblocksTakeTurns == Spec => []TakeTurns
<1>1. Proved!FairRotation => TakeTurns
  BY DEF Proved!FairRotation, TakeTurns, Sched!FairRotation
<1>2. Proved!Spec => []Proved!FairRotation
  BY Premise, Proved!SteadyKeysTakeTurns
<1>. QED
  BY <1>1, <1>2, SameSpec, LoopRunsScheduler, PTL

(***************************************************************************)
(* The control state of the loop and that of the scheduler go together.    *)
(***************************************************************************)
InStep ==
    /\ mpc \in {"head", "sample", "wait", "list", "attempt", "judge"} => phase = "rest"
    /\ mpc = "choose" => phase \in {"sync", "offer", "pick"}
    /\ (mpc = "choose" /\ phase = "pick") \/ mpc \in {"attempt", "judge"}
          => inHand \in Key /\ mem.last = inHand /\ mem.picks[inHand] > 0
    /\ mpc = "choose" /\ phase = "offer" => readable /\ ~writing
    /\ mpc \in {"attempt", "judge"} => readable

LEMMA InitInStep == Init => InStep
  BY DEF Init, InStep, Sched!Init

LEMMA NextInStep == Sched!TypeOK /\ InStep /\ [Next]_vars => InStep'
<1> SUFFICES ASSUME Sched!TypeOK, InStep, [Next]_vars PROVE InStep'
  OBVIOUS
<1> USE DEF InStep
<1>1. ASSUME NEW R \in SUBSET Key, ListRoadblocks(R) PROVE InStep'
  BY <1>1 DEF ListRoadblocks, Sched!Sync
<1>2. CASE Choose
  <2>1. CASE Sched!SaveOpens
    BY <1>2, <2>1 DEF Choose, Sched!SaveOpens
  <2>2. CASE Sched!SaveWrites
    <3>1. phase \in {"sync", "offer", "pick"} /\ phase # "offer" /\ readable' /\ ~writing'
      BY <1>2, <2>2 DEF Choose, Sched!SaveWrites
    <3>2. mem' = mem /\ inHand' = inHand
      BY <3>1, <2>2 DEF Sched!SaveWrites
    <3>3. CASE phase = "sync"
      BY <1>2, <2>2, <3>1, <3>2, <3>3 DEF Choose, Sched!SaveWrites
    <3>4. CASE phase = "pick"
      BY <1>2, <2>2, <3>1, <3>2, <3>4 DEF Choose, Sched!SaveWrites
    <3>. QED
      BY <3>1, <3>3, <3>4
  <2>3. ASSUME NEW k \in Key, Sched!Select(k) PROVE InStep'
    <3>1. mem.picks[k] \in Nat /\ mem.picks \in [Key -> Nat]
      BY DEF Sched!TypeOK, Sched!Table
    <3>2. /\ mem' = [mem EXCEPT !.picks[k] = @ + 1, !.last = k]
          /\ inHand' = k /\ phase' = "pick" /\ mpc' = "choose"
      BY <1>2, <2>3 DEF Choose, Sched!Select
    <3>3. mem'.last = k /\ mem'.picks = [mem.picks EXCEPT ![k] = @ + 1]
      BY <3>2 DEF Sched!TypeOK, Sched!Table
    <3>. QED
      BY <3>1, <3>2, <3>3
  <2>. QED
    BY <1>2, <2>1, <2>2, <2>3 DEF Choose
<1>3. CASE Restart
  BY <1>3 DEF Restart, Sched!Killed
<1>4. CASE UNCHANGED vars
  BY <1>4 DEF vars, schedVars
<1>5. CASE ListNothing
  BY <1>5 DEF ListNothing, schedVars
<1>6. ASSUME NEW attempted \in BOOLEAN, Attempt(attempted) PROVE InStep'
  BY <1>6 DEF Attempt, schedVars
<1>. QED
  BY <1>1, <1>2, <1>3, <1>4, <1>5, <1>6
  DEF Next, Session, Main, Monitor, Interrupt, AflFinds, AflDies, Clock, MainHead, MainSample,
      MainWaits, AttemptRaises, AttemptHangs, ListRaises, Judge, Ends, Joins, Closes, Looping,
      MonitorHead, MonitorScans, MonitorWaits, schedVars

LEMMA AlwaysInStep == Spec => []InStep
  BY InitInStep, NextInStep, SchedulerTyped, PTL DEF Spec

(* A pick is in the state file before the roadblock is attempted, so no    *)
(* crash during an attempt makes the next session forget it.               *)
THEOREM PickSavedFirst == Spec => []AttemptIsOnFile
<1>1. Sched!TypeOK /\ InStep /\ Sched!Durable => AttemptIsOnFile
  BY LoopAssumption DEF InStep, Sched!Durable, AttemptIsOnFile
<1>. QED
  BY <1>1, AlwaysInStep, SchedulerTyped, SchedulerDurable, PTL

(***************************************************************************)
(* Type correctness of the loop.                                           *)
(***************************************************************************)
LoopTyped ==
    /\ alive \in BOOLEAN /\ epoch \in BOOLEAN /\ stop \in BOOLEAN /\ grew \in BOOLEAN
    /\ edges \in Nat /\ seen \in Nat /\ age \in 0 .. Threshold
    /\ mpc \in MainPC /\ spc \in MonitorPC
    /\ failed \subseteq Key

LEMMA InitTyped == Init => LoopTyped
<1>1. Threshold \in Nat
  BY LoopAssumption
<1>2. Init => edges \in Nat /\ seen \in Nat /\ age \in 0 .. Threshold
  BY <1>1 DEF Init
<1>3. Init => alive \in BOOLEAN /\ epoch \in BOOLEAN /\ stop \in BOOLEAN /\ grew \in BOOLEAN
  BY DEF Init
<1>4. Init => mpc \in MainPC /\ spc \in MonitorPC /\ failed \subseteq Key
  BY DEF Init, MainPC, MonitorPC, Looping
<1>. QED
  BY <1>2, <1>3, <1>4 DEF LoopTyped

LEMMA NextTyped == LoopTyped /\ InStep /\ [Next]_vars => LoopTyped'
<1> SUFFICES ASSUME LoopTyped, InStep, [Next]_vars PROVE LoopTyped'
  OBVIOUS
<1> USE DEF LoopTyped, MainPC, MonitorPC, Looping
<1>0. 0 \in 0 .. Threshold
  BY LoopAssumption
<1>1. CASE Main
  <2>1. CASE MainHead
    BY <2>1 DEF MainHead, sampled
  <2>2. CASE MainSample
    <3>1. /\ seen' \in {edges, seen} /\ age' \in {0, age}
          /\ mpc' \in {"wait", "list"} /\ epoch' \in {epoch, TRUE}
          /\ UNCHANGED <<alive, edges, stop, spc, failed>>
      BY <2>2 DEF MainSample, CheckCoverageGrowth
    <3>2. grew' \in BOOLEAN
      BY <2>2 DEF MainSample
    <3>3. age' \in 0 .. Threshold
      BY <1>0, <3>1
    <3>. QED
      BY <3>1, <3>2, <3>3
  <2>3. CASE MainWaits \/ AttemptRaises \/ AttemptHangs \/ ListRaises \/ Ends \/ Joins \/ Closes
    BY <2>3 DEF MainWaits, AttemptRaises, AttemptHangs, ListRaises, Ends, Joins, Closes, sampled
  <2>4. CASE ListNothing
    BY <2>4 DEF ListNothing, sampled
  <2>5. ASSUME NEW R \in SUBSET Key, ListRoadblocks(R) PROVE LoopTyped'
    BY <2>5 DEF ListRoadblocks, sampled
  <2>6. CASE Choose
    BY <2>6 DEF Choose, sampled
  <2>7. ASSUME NEW attempted \in BOOLEAN, Attempt(attempted) PROVE LoopTyped'
    BY <2>7 DEF Attempt, sampled, InStep
  <2>8. CASE Judge
    <3>1. /\ seen' \in {edges, seen} /\ age' \in {0, age} /\ mpc' = "head"
          /\ UNCHANGED <<alive, edges, stop, spc, failed>>
      BY <2>8 DEF Judge, CheckCoverageGrowth
    <3>2. epoch' \in BOOLEAN /\ grew' \in BOOLEAN
      BY <2>8 DEF Judge
    <3>3. age' \in 0 .. Threshold
      BY <1>0, <3>1
    <3>. QED
      BY <3>1, <3>2, <3>3
  <2>. QED
    BY <1>1, <2>1, <2>2, <2>3, <2>4, <2>5, <2>6, <2>7, <2>8 DEF Main
<1>2. CASE Monitor
  BY <1>2 DEF Monitor, MonitorHead, MonitorScans, MonitorWaits, sampled, CheckFuzzerAlive
<1>3. CASE Interrupt
  BY <1>3 DEF Interrupt, sampled
<1>4. CASE AflFinds \/ AflDies
  <2>1. edges' \in {edges, edges + 1}
    BY <1>4 DEF AflFinds, AflDies
  <2>2. edges' \in Nat
    BY <2>1
  <2>3. alive' \in BOOLEAN
    BY <1>4 DEF AflFinds, AflDies
  <2>. QED
    BY <1>4, <2>2, <2>3 DEF AflFinds, AflDies, sampled
<1>5. CASE Clock
  <2>1. age + 1 \in 0 .. Threshold
    BY <1>5, LoopAssumption DEF Clock
  <2>. QED
    BY <1>5, <2>1 DEF Clock
<1>6. CASE Restart
  BY <1>0, <1>6 DEF Restart
<1>7. CASE UNCHANGED vars
  BY <1>7 DEF vars, sampled
<1>. QED
  BY <1>1, <1>2, <1>3, <1>4, <1>5, <1>6, <1>7 DEF Next, Session

LEMMA AlwaysTyped == Spec => []LoopTyped
  BY InitTyped, NextTyped, AlwaysInStep, PTL DEF Spec

(* The loop and the scheduler it drives keep their types.                  *)
THEOREM TypeCorrect == Spec => []TypeOK
<1>1. LoopTyped /\ Sched!TypeOK => TypeOK
  BY DEF LoopTyped, TypeOK
<1>. QED
  BY <1>1, AlwaysTyped, SchedulerTyped, PTL

(***************************************************************************)
(* BreakthroughEarned.  An epoch starts when the time without growth has   *)
(* reached the threshold, and only growth sets that time back.             *)
(***************************************************************************)
Stagnant == epoch /\ ~grew => age >= Threshold

LEMMA NextStagnant == LoopTyped /\ Stagnant /\ [Next]_vars => Stagnant'
<1> SUFFICES ASSUME LoopTyped, Stagnant, [Next]_vars PROVE Stagnant'
  OBVIOUS
<1> USE LoopAssumption DEF LoopTyped, Stagnant
<1>1. CASE MainSample
  <2>1. PICK current \in {edges, seen} :
           /\ CheckCoverageGrowth(current)
           /\ IF StaysIdle(age')
              THEN UNCHANGED <<epoch, grew>>
              ELSE epoch' = TRUE /\ grew' = (epoch /\ (grew \/ current > seen))
    BY <1>1 DEF MainSample
  <2>2. age' = (IF current - seen >= 1 THEN 0 ELSE age)
    BY <2>1 DEF CheckCoverageGrowth
  <2>3. CASE StaysIdle(age')
    BY <2>1, <2>3 DEF StaysIdle
  <2>4. CASE ~StaysIdle(age') /\ ~epoch
    <3>1. ~(age' < Threshold)
      BY <2>4 DEF StaysIdle
    <3>2. age' \in Int /\ Threshold \in Int
      BY <2>2, LoopAssumption
    <3>. QED
      BY <3>1, <3>2
  <2>5. CASE ~StaysIdle(age') /\ epoch
    <3>1. grew' = (grew \/ current > seen)
      BY <2>1, <2>5
    <3>2. CASE current > seen
      BY <3>1, <3>2
    <3>3. CASE ~(current > seen)
      <4>1. age' = age
        BY <2>2, <3>3
      <4>. QED
        BY <3>1, <3>3, <4>1, <2>5
    <3>. QED
      BY <3>2, <3>3
  <2>. QED
    BY <2>3, <2>4, <2>5
<1>2. CASE Judge
  BY <1>2 DEF Judge, CheckCoverageGrowth
<1>3. CASE ListNothing
  BY <1>3 DEF ListNothing, sampled
<1>4. CASE Clock
  BY <1>4 DEF Clock
<1>5. CASE Restart
  BY <1>5 DEF Restart
<1>6. CASE UNCHANGED <<age, grew, epoch>>
  BY <1>6
<1>. QED
  BY <1>1, <1>2, <1>3, <1>4, <1>5, <1>6
  DEF Next, Session, Main, Monitor, Interrupt, AflFinds, AflDies, MainHead, MainWaits,
      ListRoadblocks, Choose, Attempt, AttemptRaises, AttemptHangs, ListRaises, Ends, Joins, Closes,
      MonitorHead, MonitorScans, MonitorWaits, sampled, vars

(* A cycle closes the epoch as a breakthrough only if a sample since the   *)
(* epoch began saw coverage grow.                                          *)
THEOREM BreakthroughsAreEarned == Spec => BreakthroughEarned
<1>1. Init => Stagnant
  BY DEF Init, Stagnant
<1>2. LoopTyped /\ Stagnant /\ [Next]_vars => [Judge /\ epoch /\ ~epoch' => grew']_vars
  BY LoopAssumption DEF LoopTyped, Stagnant, Judge, CheckCoverageGrowth
<1>. QED
  BY <1>1, <1>2, NextStagnant, AlwaysTyped, PTL DEF Spec, BreakthroughEarned
(***************************************************************************)
(* A turn of the loop runs down, and so does the session once it must end. *)
(***************************************************************************)
SaveLeft ==
    IF phase = "sync" THEN (IF writing THEN 4 ELSE 5)
    ELSE IF phase = "offer" THEN 3
    ELSE IF writing THEN 1 ELSE 2

Left ==
    IF mpc = "sample" THEN 13 ELSE IF mpc = "list" THEN 12
    ELSE IF mpc = "choose" THEN 6 + SaveLeft
    ELSE IF mpc = "attempt" THEN 6 ELSE IF mpc \in {"judge", "wait", "hung"} THEN 5
    ELSE IF mpc = "head" THEN 4 ELSE IF mpc = "ending" THEN 3
    ELSE IF mpc = "joining" THEN 2 ELSE IF mpc = "closing" THEN 1 ELSE 0

(* Only at the head of the loop, and only while the session may go on,     *)
(* does a step of the main thread or an interrupt lead back; all other     *)
(* steps of the session leave the thread and its saves where they are.  A  *)
(* session that has to end stays so.                                       *)
Turns ==
    \/ mpc = "head" /\ ~MustEnd /\ mpc' = "sample" /\ UNCHANGED schedVars
    \/ Left' < Left
    \/ UNCHANGED <<mpc, schedVars>>
TurnsRunDown == [][Restart \/ (Turns /\ (MustEnd => MustEnd'))]_vars

LEMMA ChooseFalls == ASSUME InStep, Choose PROVE Left' < Left
<1>1. mpc = "choose" /\ phase \in {"sync", "offer", "pick"} /\ (phase = "offer" => ~writing)
      /\ mpc' = (IF phase' = "rest" THEN "attempt" ELSE "choose")
  BY DEF Choose, InStep
<1>2. CASE Sched!SaveOpens
  <2>1. phase \in {"sync", "pick"} /\ ~writing /\ writing' /\ phase' = phase
    BY <1>1, <1>2 DEF Sched!SaveOpens
  <2>. QED
    BY <1>1, <2>1 DEF Left, SaveLeft
<1>3. CASE Sched!SaveWrites
  <2>1. writing /\ phase' = (IF phase = "sync" THEN "offer" ELSE "rest")
    BY <1>3 DEF Sched!SaveWrites
  <2>. QED
    BY <1>1, <2>1 DEF Left, SaveLeft
<1>4. ASSUME NEW k \in Key, Sched!Select(k) PROVE Left' < Left
  <2>1. phase = "offer" /\ phase' = "pick"
    BY <1>4 DEF Sched!Select
  <2>. QED
    BY <1>1, <2>1 DEF Left, SaveLeft
<1>. QED
  BY <1>2, <1>3, <1>4 DEF Choose

LEMMA SessionFalls ==
    ASSUME InStep, [Next]_vars
    PROVE  Restart \/ Turns
<1> USE DEF Turns
<1>1. CASE MainHead
  BY <1>1 DEF MainHead, Left
<1>2. CASE MainSample \/ MainWaits \/ ListNothing \/ AttemptRaises \/ AttemptHangs \/ ListRaises \/ Judge \/ Ends \/ Joins \/ Closes
  BY <1>2 DEF MainSample, MainWaits, ListNothing, AttemptRaises, AttemptHangs, ListRaises, Judge, Ends, Joins, Closes, Left
<1>3. ASSUME NEW R \in SUBSET Key, ListRoadblocks(R) PROVE Left' < Left
  <2>1. mpc = "list" /\ mpc' = "choose" /\ phase' = "sync"
    BY <1>3 DEF ListRoadblocks, Sched!Sync
  <2>. QED
    BY <2>1 DEF Left, SaveLeft
<1>4. ASSUME NEW attempted \in BOOLEAN, Attempt(attempted) PROVE Left' < Left
  BY <1>4 DEF Attempt, Left
<1>5. CASE Interrupt
  <2>1. \/ mpc \in Looping \cup {"hung"} /\ mpc' = "ending"
        \/ mpc \in {"ending", "joining"} /\ mpc' = "closing"
    BY <1>5 DEF Interrupt, Looping
  <2>2. mpc \in Looping \cup {"hung"} => Left > 3
    BY DEF Looping, Left, SaveLeft
  <2>. QED
    BY <2>1, <2>2 DEF Left
<1>6. CASE Monitor \/ AflFinds \/ AflDies \/ Clock \/ UNCHANGED vars
  BY <1>6 DEF Monitor, MonitorHead, MonitorScans, MonitorWaits, AflFinds, AflDies, Clock, vars
<1>. QED
  BY <1>1, <1>2, <1>3, <1>4, <1>5, <1>6, ChooseFalls DEF Next, Session, Main

(* TurnsRunDown: every turn of the loop, its pick and two saves included,  *)
(* comes back to the head, goes to the end or hangs in its attempt; once   *)
(* the stop event is set or the fuzzer is dead, each step of the thread    *)
(* brings it nearer to that.                                               *)
THEOREM SessionRunsDown == Spec => TurnsRunDown
<1>1. [Next]_vars => Restart \/ (MustEnd => MustEnd')
  <2>1. [Next]_vars => \/ Restart \/ UNCHANGED <<alive, stop>> \/ MonitorHead
                       \/ Ends \/ AflDies
    BY DEF Next, Session, Main, Monitor, Interrupt, AflFinds, Clock, MainHead, MainSample, MainWaits,
           ListNothing, ListRoadblocks, Choose, Attempt, AttemptRaises, AttemptHangs, ListRaises, Judge, Joins, Closes,
           MonitorScans, MonitorWaits, vars
  <2>2. MonitorHead \/ Ends \/ AflDies => (MustEnd => MustEnd')
    BY Zenon DEF MonitorHead, Ends, AflDies, MustEnd, CheckFuzzerAlive
  <2>3. UNCHANGED <<alive, stop>> => (MustEnd => MustEnd')
    BY DEF MustEnd, CheckFuzzerAlive
  <2>. QED
    BY <2>1, <2>2, <2>3
<1>2. InStep /\ [Next]_vars => [Restart \/ (Turns /\ (MustEnd => MustEnd'))]_vars
  BY <1>1, SessionFalls
<1>. QED
  BY <1>2, AlwaysInStep, PTL DEF Spec, TurnsRunDown
=============================================================================
