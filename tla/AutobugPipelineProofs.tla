----------------------- MODULE AutobugPipelineProofs -----------------------
EXTENDS AutobugPipeline, FiniteSetTheorems, TLAPS

(***************************************************************************)
(* Type correctness.                                                       *)
(***************************************************************************)
LEMMA EmptyType == Empty \in [Seed -> Verdict]
  BY DEF Empty, Verdict

LEMMA InitType == Init => TypeOK
<1> SUFFICES ASSUME Init PROVE TypeOK
  OBVIOUS
<1>1. cache \in [Seed -> Verdict] /\ saved \in [torn : BOOLEAN, of : [Seed -> Verdict]]
  BY EmptyType DEF Init
<1>2. snap \in [Worker -> [Seed -> Verdict]]
  BY EmptyType DEF Init
<1>3. primeLock \in Caller \cup {"free"} /\ thread \in Worker \cup {NoWorker}
  BY DEF Init
<1>4. /\ pc \in [Caller -> CallerPC] /\ wpc \in [Worker -> WorkerPC]
      /\ cur \in [Loader -> Seed \cup {NoSeed}]
  BY DEF Init, CallerPC, WorkerPC
<1>5. /\ readFiles \in [Caller -> SUBSET Seed] /\ wbatch \in [Worker -> SUBSET Seed]
      /\ todo \in [Caller -> SUBSET Seed] /\ batch \in [Caller -> SUBSET Seed]
  BY DEF Init
<1>6. /\ queue \subseteq Seed /\ deque \subseteq [seed : Seed, at : Nat]
      /\ tail \in Nat /\ pendingSet \subseteq Seed /\ stopEvent \in BOOLEAN
      /\ lost \subseteq Seed /\ raced \in BOOLEAN /\ contended \subseteq Seed
  BY DEF Init
<1>7. ClockOK
  BY StampAssumption DEF Init, ClockOK
<1>. QED
  BY <1>1, <1>2, <1>3, <1>4, <1>5, <1>6, <1>7 DEF TypeOK

(* The clock of the files and the watermarks: only AFL, a scan and a       *)
(* restart touch them.                                                     *)
LEMMA NextClock == TypeOK /\ [Next]_vars => ClockOK'
<1> SUFFICES ASSUME TypeOK, [Next]_vars PROVE ClockOK'
  OBVIOUS
<1>0. ClockOK /\ queue \subseteq Seed
  BY DEF TypeOK
<1>1. ASSUME NEW s \in Seed, AflAdds(s) \/ AflRewrites(s) PROVE ClockOK'
  <2>1. PICK n \in 1 .. MaxStamp : stamp' = [stamp EXCEPT ![s] = n] /\ watermark' = watermark
    BY <1>1 DEF AflAdds, AflRewrites, Now
  <2>. QED
    BY <1>0, <2>1, StampAssumption DEF ClockOK
<1>2. ASSUME NEW c \in Caller, Scan(c) PROVE ClockOK'
  <2>1. PICK n \in {Known} \cup {stamp[s] : s \in queue} :
          watermark' = [watermark EXCEPT ![c] = n] /\ stamp' = stamp
    BY <1>2 DEF Scan
  <2>2. n \in 0 .. MaxStamp
    BY <1>0, <2>1, StampAssumption DEF ClockOK
  <2>. QED
    BY <1>0, <2>1, <2>2 DEF ClockOK
<1>3. CASE Restart
  BY <1>0, <1>3, StampAssumption DEF Restart, ClockOK
<1>4. CASE UNCHANGED clock
  BY <1>0, <1>4 DEF clock, ClockOK
<1>. QED
  BY <1>1, <1>2, <1>3, <1>4
  DEF Next, CallerStep, ScanAborts, Enqueue, KickBusy, KickCheck, KickSelect, KickAssign, KickStart,
      KickStartFails, Stop, MainStep, MainLoads, MainStores, MainLoadFails, Shutdown, WorkerStep,
      WorkerNoAnalyzer, WorkerFilter, WorkerLoadsCached, WorkerLoads, WorkerStores, WorkerDies,
      WorkerSaveOpens, WorkerSaveWrites, WorkerExits, vars

LEMMA NextType == TypeOK /\ [Next]_vars => TypeOK'
<1> USE DEF TypeOK
<1>c. TypeOK /\ [Next]_vars => ClockOK'
  BY NextClock
<1> SUFFICES ASSUME TypeOK, [Next]_vars, ClockOK' PROVE TypeOK'
  BY <1>c
<1>1. ASSUME NEW s \in Seed, AflAdds(s) \/ AflRewrites(s) PROVE TypeOK'
  BY <1>1 DEF AflAdds, AflRewrites, shared, callers, workers, history
<1>2. ASSUME NEW c \in Caller, CallerStep(c) PROVE TypeOK'
  <2>1. CASE Scan(c)
    BY <2>1 DEF Scan, NewFor, Unread, CallerPC, shared, callers, workers, history
  <2>2. CASE ScanAborts(c)
    BY <2>2 DEF ScanAborts, NewFor, Unread, CallerPC, shared, callers, workers, history
  <2>3. ASSUME NEW s \in Seed, Enqueue(c, s) PROVE TypeOK'
    BY <2>3 DEF Enqueue, CallerPC, shared, callers, workers, history
  <2>4. CASE KickBusy(c)
    BY <2>4 DEF KickBusy, CallerPC, shared, callers, workers, history
  <2>5. CASE KickCheck(c)
    BY <2>5 DEF KickCheck, CallerPC, shared, callers, workers, history
  <2>6. CASE KickSelect(c)
    <3>0. Eligible \subseteq deque /\ Oldest(Eligible) \subseteq Eligible
      BY DEF Eligible, Oldest
    <3>1. NextBatch \subseteq Seed
      BY <3>0 DEF NextBatch
    <3>2. Retained(NextBatch) \subseteq deque
      BY DEF Retained
    <3>3. batch' \in [Caller -> SUBSET Seed] /\ pc' \in [Caller -> CallerPC]
      BY <2>6, <3>1 DEF KickSelect, CallerPC
    <3>4. deque' \subseteq [seed : Seed, at : Nat] /\ tail' \in Nat /\ pendingSet' \subseteq Seed
      BY <2>6, <3>2 DEF KickSelect
    <3>. QED
      BY <2>6, <3>3, <3>4 DEF KickSelect, shared, callers, workers, history
  <2>7. CASE KickAssign(c)
    BY <2>7 DEF KickAssign, Unstarted, CallerPC, WorkerPC, shared, callers, workers, history
  <2>8. CASE KickStart(c)
    BY <2>8 DEF KickStart, CallerPC, WorkerPC, shared, callers, workers, history
  <2>9. CASE KickStartFails(c)
    BY <2>9 DEF KickStartFails, CallerPC, shared, callers, workers, history
  <2>10. CASE Stop(c)
    BY <2>10 DEF Stop, CallerPC, shared, callers, workers, history
  <2>. QED
    BY <1>2, <2>1, <2>2, <2>3, <2>4, <2>5, <2>6, <2>7, <2>8, <2>9, <2>10 DEF CallerStep
<1>3. CASE MainStep
  <2>1. ASSUME NEW s \in Seed, MainLoads(s) PROVE TypeOK'
    BY <2>1 DEF MainLoads, BeginReplay, CallerPC, shared, callers, workers, history
  <2>2. CASE MainStores
    <3>1. PICK v \in {"none", "parsed"} : cache' = [cache EXCEPT ![cur["main"]] = v]
      BY <2>2 DEF MainStores
    <3>2. cache' \in [Seed -> Verdict]
      BY <3>1 DEF Verdict
    <3>. QED
      BY <2>2, <3>2 DEF MainStores, CallerPC, shared, callers, workers, history
  <2>3. CASE MainLoadFails
    BY <2>3 DEF MainLoadFails, CallerPC, shared, callers, workers, history
  <2>4. CASE Shutdown
    <3>1. wpc' \in [Worker -> WorkerPC] /\ wbatch' \in [Worker -> SUBSET Seed]
      BY <2>4 DEF Shutdown, WorkerPC
    <3>2. lost' \subseteq Seed
      BY <2>4 DEF Shutdown, Unstarted
    <3>. QED
      BY <2>4, <3>1, <3>2 DEF Shutdown, CallerPC, shared, callers, workers, history
  <2>. QED
    BY <1>3, <2>1, <2>2, <2>3, <2>4 DEF MainStep
<1>4. ASSUME NEW w \in Worker, WorkerStep(w) PROVE TypeOK'
  <2>1. CASE WorkerNoAnalyzer(w)
    BY <2>1 DEF WorkerNoAnalyzer, WorkerPC, shared, callers, workers, history
  <2>2. CASE WorkerFilter(w)
    BY <2>2 DEF WorkerFilter, WorkerPC, shared, callers, workers, history
  <2>3. ASSUME NEW s \in Seed, WorkerLoadsCached(w, s) PROVE TypeOK'
    BY <2>3 DEF WorkerLoadsCached, shared, callers, workers, history
  <2>4. ASSUME NEW s \in Seed, WorkerLoads(w, s) PROVE TypeOK'
    BY <2>4 DEF WorkerLoads, BeginReplay, WorkerPC, shared, callers, workers, history
  <2>5. CASE WorkerStores(w)
    <3>1. PICK v \in {"none", "parsed"} : cache' = [cache EXCEPT ![cur[w]] = v]
      BY <2>5 DEF WorkerStores
    <3>2. cache' \in [Seed -> Verdict]
      BY <3>1 DEF Verdict
    <3>. QED
      BY <2>5, <3>2 DEF WorkerStores, WorkerPC, shared, callers, workers, history
  <2>6. CASE WorkerDies(w)
    BY <2>6 DEF WorkerDies, WorkerPC, shared, callers, workers, history
  <2>7. CASE WorkerSaveOpens(w)
    BY <2>7, EmptyType DEF WorkerSaveOpens, WorkerPC, shared, callers, workers, history
  <2>8. CASE WorkerSaveWrites(w)
    <3>1. saved' \in [torn : BOOLEAN, of : [Seed -> Verdict]]
      <4>1. snap[w] \in [Seed -> Verdict]
        OBVIOUS
      <4>2. CASE saved' = [torn |-> FALSE, of |-> snap[w]]
        BY <4>1, <4>2
      <4>3. CASE saved' = [torn |-> TRUE, of |-> Empty]
        BY <4>3, EmptyType
      <4>. QED
        BY <2>8, <4>2, <4>3 DEF WorkerSaveWrites
    <3>2. snap' \in [Worker -> [Seed -> Verdict]] /\ wpc' \in [Worker -> WorkerPC]
      BY <2>8, EmptyType DEF WorkerSaveWrites, WorkerPC
    <3>. QED
      BY <2>8, <3>1, <3>2 DEF WorkerSaveWrites, shared, callers, workers, history
  <2>9. CASE WorkerExits(w)
    BY <2>9 DEF WorkerExits, WorkerPC, shared, callers, workers, history
  <2>. QED
    BY <1>4, <2>1, <2>2, <2>3, <2>4, <2>5, <2>6, <2>7, <2>8, <2>9 DEF WorkerStep
<1>5. CASE Restart
  <2>1. cache' \in [Seed -> Verdict] /\ saved' = saved /\ queue' = queue
    BY <1>5, EmptyType DEF Restart, LoadedCache
  <2>2. snap' \in [Worker -> [Seed -> Verdict]]
    BY <1>5, EmptyType DEF Restart
  <2>3. /\ pc' \in [Caller -> CallerPC] /\ wpc' \in [Worker -> WorkerPC]
        /\ cur' \in [Loader -> Seed \cup {NoSeed}]
    BY <1>5 DEF Restart, CallerPC, WorkerPC
  <2>. QED
    BY <1>5, <2>1, <2>2, <2>3 DEF Restart
<1>6. CASE UNCHANGED vars
  BY <1>6 DEF vars, shared, callers, workers, history
<1>. QED
  BY <1>1, <1>2, <1>3, <1>4, <1>5, <1>6 DEF Next

(* Every variable keeps its type in every reachable state.                 *)
THEOREM TypeCorrect == Spec => []TypeOK
  BY InitType, NextType, PTL DEF Spec

(***************************************************************************)
(* The deque and its set.  Positions never pass the tail, so an append     *)
(* takes a position nobody has.                                            *)
(***************************************************************************)
BehindTail == \A e \in deque : e.at <= tail

LEMMA NextPending == TypeOK /\ PendingConsistent /\ BehindTail /\ [Next]_vars => (PendingConsistent /\ BehindTail)'
<1> SUFFICES ASSUME TypeOK, PendingConsistent, BehindTail, [Next]_vars PROVE (PendingConsistent /\ BehindTail)'
  OBVIOUS
<1>1. ASSUME NEW s \in Seed, AflAdds(s) \/ AflRewrites(s) PROVE (PendingConsistent /\ BehindTail)'
  BY <1>1
    DEF AflAdds, AflRewrites, TypeOK, PendingConsistent, BehindTail, Pending, shared, callers, workers, history
<1>2. ASSUME NEW c \in Caller, CallerStep(c) PROVE (PendingConsistent /\ BehindTail)'
  <2>1. CASE Scan(c)
    BY <2>1
    DEF Scan, NewFor, Unread, TypeOK, PendingConsistent, BehindTail, Pending, shared, workers, history
  <2>2. CASE ScanAborts(c)
    BY <2>2 DEF ScanAborts, NewFor, Unread, TypeOK, PendingConsistent, BehindTail, Pending, shared, workers
  <2>3. ASSUME NEW s \in Seed, Enqueue(c, s) PROVE (PendingConsistent /\ BehindTail)'
    <3>1. CASE AlreadyKnown(s)
      BY <2>3, <3>1 DEF Enqueue, PendingConsistent, BehindTail, Pending, shared
    <3>2. CASE ~AlreadyKnown(s)
      <4>1. /\ deque' = deque \cup {[seed |-> s, at |-> tail + 1]}
            /\ tail' = tail + 1 /\ pendingSet' = pendingSet \cup {s}
        BY <2>3, <3>2 DEF Enqueue
      <4>2. s \notin Pending
        BY <3>2 DEF AlreadyKnown, PendingConsistent
      <4>3. BehindTail'
        BY <4>1 DEF BehindTail, TypeOK
      <4>4. Pending' = pendingSet'
        <5>1. Pending' = Pending \cup {s}
          <6>1. \A x : x \in Pending' <=> \E e \in deque' : e.seed = x
            BY DEF Pending
          <6>2. \A x : x \in Pending <=> \E e \in deque : e.seed = x
            BY DEF Pending
          <6>3. [seed |-> s, at |-> tail + 1].seed = s
            OBVIOUS
          <6>4. \A x : x \in Pending' <=> x \in Pending \/ x = s
            BY <4>1, <6>1, <6>2, <6>3
          <6>. QED
            BY <6>4
        <5>. QED
          BY <4>1, <5>1 DEF PendingConsistent
      <4>5. ASSUME NEW d \in deque', NEW e \in deque', d.seed = e.seed \/ d.at = e.at
            PROVE  d = e
        BY <4>1, <4>2, <4>5 DEF PendingConsistent, Pending, BehindTail, TypeOK
      <4>. QED
        BY <4>3, <4>4, <4>5 DEF PendingConsistent
    <3>. QED
      BY <3>1, <3>2
  <2>4. CASE KickBusy(c)
    BY <2>4
    DEF KickBusy, TypeOK, PendingConsistent, BehindTail, Pending, shared, workers, history
  <2>5. CASE KickCheck(c)
    BY <2>5 DEF KickCheck, TypeOK, PendingConsistent, BehindTail, Pending, shared, workers
  <2>6. CASE KickSelect(c)
    BY <2>6
    DEF KickSelect, Retained, TypeOK, PendingConsistent, BehindTail, Pending, workers, history
  <2>7. CASE KickAssign(c)
    BY <2>7
    DEF KickAssign, Unstarted, TypeOK, PendingConsistent, BehindTail, Pending, shared
  <2>8. CASE KickStart(c)
    BY <2>8
    DEF KickStart, Unstarted, TypeOK, PendingConsistent, BehindTail, Pending, shared, history
  <2>9. CASE KickStartFails(c)
    BY <2>9
    DEF KickStartFails, TypeOK, PendingConsistent, BehindTail, Pending, shared, workers, history
  <2>10. CASE Stop(c)
    BY <2>10
    DEF Stop, TypeOK, PendingConsistent, BehindTail, Pending, shared, workers, history
  <2>. QED
    BY <1>2, <2>1, <2>2, <2>3, <2>4, <2>5, <2>6, <2>7, <2>8, <2>9, <2>10 DEF CallerStep
<1>3. CASE MainStep
  <2>1. ASSUME NEW s \in Seed, MainLoads(s) PROVE (PendingConsistent /\ BehindTail)'
    BY <2>1
    DEF MainLoads, BeginReplay, NeedsReplay, TypeOK, PendingConsistent, BehindTail, Pending, shared, workers
  <2>2. CASE MainStores
    BY <2>2
    DEF MainStores, TypeOK, PendingConsistent, BehindTail, Pending, shared, workers, history
  <2>3. CASE MainLoadFails
    BY <2>3
    DEF MainLoadFails, TypeOK, PendingConsistent, BehindTail, Pending, shared, workers, history
  <2>4. CASE Shutdown
    BY <2>4 DEF Shutdown, Unstarted, TypeOK, PendingConsistent, BehindTail, Pending, shared
  <2>. QED
    BY <1>3, <2>1, <2>2, <2>3, <2>4 DEF MainStep
<1>4. ASSUME NEW w \in Worker, WorkerStep(w) PROVE (PendingConsistent /\ BehindTail)'
  <2>1. CASE WorkerNoAnalyzer(w)
    BY <2>1
    DEF WorkerNoAnalyzer, TypeOK, PendingConsistent, BehindTail, Pending, shared, callers
  <2>2. CASE WorkerFilter(w)
    BY <2>2
    DEF WorkerFilter, TypeOK, PendingConsistent, BehindTail, Pending, shared, callers, history
  <2>3. ASSUME NEW s \in Seed, WorkerLoadsCached(w, s) PROVE (PendingConsistent /\ BehindTail)'
    BY <2>3
    DEF WorkerLoadsCached, TypeOK, PendingConsistent, BehindTail, Pending, shared, callers, history
  <2>4. ASSUME NEW s \in Seed, WorkerLoads(w, s) PROVE (PendingConsistent /\ BehindTail)'
    BY <2>4
    DEF WorkerLoads, BeginReplay, NeedsReplay, TypeOK, PendingConsistent, BehindTail, Pending, shared, callers
  <2>5. CASE WorkerStores(w)
    BY <2>5
    DEF WorkerStores, TypeOK, PendingConsistent, BehindTail, Pending, shared, callers, history
  <2>6. CASE WorkerDies(w)
    BY <2>6 DEF WorkerDies, TypeOK, PendingConsistent, BehindTail, Pending, shared, callers
  <2>7. CASE WorkerSaveOpens(w)
    BY <2>7
    DEF WorkerSaveOpens, TypeOK, PendingConsistent, BehindTail, Pending, shared, callers, history
  <2>8. CASE WorkerSaveWrites(w)
    BY <2>8
    DEF WorkerSaveWrites, TypeOK, PendingConsistent, BehindTail, Pending, shared, callers, history
  <2>9. CASE WorkerExits(w)
    BY <2>9
    DEF WorkerExits, TypeOK, PendingConsistent, BehindTail, Pending, shared, callers, history
  <2>. QED
    BY <1>4, <2>1, <2>2, <2>3, <2>4, <2>5, <2>6, <2>7, <2>8, <2>9 DEF WorkerStep
<1>5. CASE Restart
  BY <1>5 DEF Restart, TypeOK, PendingConsistent, BehindTail, Pending
<1>6. CASE UNCHANGED vars
  BY <1>6 DEF vars, TypeOK, PendingConsistent, BehindTail, Pending, shared, callers, workers, history
<1>. QED
  BY <1>1, <1>2, <1>3, <1>4, <1>5, <1>6 DEF Next


(* The deque and the duplicate guard agree in every reachable state.       *)
THEOREM DequeAndSetAgree == Spec => []PendingConsistent
<1>1. Init => PendingConsistent /\ BehindTail
  BY DEF Init, PendingConsistent, BehindTail, Pending
<1>. QED
  BY <1>1, InitType, NextType, NextPending, PTL DEF Spec

(***************************************************************************)
(* No name a scanner marked read disappears.  Accounted is not inductive:  *)
(* a step that overwrites a hand (the names to enqueue, a caller's batch,  *)
(* a thread's batch) is harmless only because that hand is empty then, and *)
(* a name skipped as pending is on the deque only because set and deque    *)
(* agree.                                                                  *)
(***************************************************************************)
IdleHandsEmpty ==
    /\ \A c \in Caller : /\ pc[c] # "enq" => todo[c] = {}
                         /\ pc[c] # "assign" => batch[c] = {}
    /\ \A w \in Worker : wpc[w] \in {"free", "save", "exit"} => wbatch[w] = {}

LEMMA NextHands == TypeOK /\ IdleHandsEmpty /\ [Next]_vars => IdleHandsEmpty'
<1> SUFFICES ASSUME TypeOK, IdleHandsEmpty, [Next]_vars PROVE IdleHandsEmpty'
  OBVIOUS
<1>1. ASSUME NEW s \in Seed, AflAdds(s) \/ AflRewrites(s) PROVE IdleHandsEmpty'
  BY <1>1 DEF AflAdds, AflRewrites, TypeOK, IdleHandsEmpty, shared, callers, workers, history
<1>2. ASSUME NEW c \in Caller, CallerStep(c) PROVE IdleHandsEmpty'
  <2>1. CASE Scan(c)
    BY <2>1 DEF Scan, NewFor, Unread, TypeOK, IdleHandsEmpty, shared, workers, history
  <2>2. CASE ScanAborts(c)
    BY <2>2 DEF ScanAborts, NewFor, Unread, TypeOK, IdleHandsEmpty, shared, workers
  <2>3. ASSUME NEW s \in Seed, Enqueue(c, s) PROVE IdleHandsEmpty'
    BY <2>3 DEF Enqueue, AlreadyKnown, TypeOK, IdleHandsEmpty, shared, workers, history
  <2>4. CASE KickBusy(c)
    BY <2>4 DEF KickBusy, TypeOK, IdleHandsEmpty, shared, workers, history
  <2>5. CASE KickCheck(c)
    BY <2>5 DEF KickCheck, TypeOK, IdleHandsEmpty, shared, workers
  <2>6. CASE KickSelect(c)
    BY <2>6 DEF KickSelect, Retained, TypeOK, IdleHandsEmpty, workers, history
  <2>7. CASE KickAssign(c)
    BY <2>7 DEF KickAssign, Unstarted, TypeOK, IdleHandsEmpty, shared
  <2>8. CASE KickStart(c)
    BY <2>8 DEF KickStart, Unstarted, TypeOK, IdleHandsEmpty, shared, history
  <2>9. CASE KickStartFails(c)
    BY <2>9 DEF KickStartFails, TypeOK, IdleHandsEmpty, shared, workers, history
  <2>10. CASE Stop(c)
    BY <2>10 DEF Stop, TypeOK, IdleHandsEmpty, shared, workers, history
  <2>. QED
    BY <1>2, <2>1, <2>2, <2>3, <2>4, <2>5, <2>6, <2>7, <2>8, <2>9, <2>10 DEF CallerStep
<1>3. CASE MainStep
  <2>1. ASSUME NEW s \in Seed, MainLoads(s) PROVE IdleHandsEmpty'
    BY <2>1
    DEF MainLoads, BeginReplay, NeedsReplay, TypeOK, IdleHandsEmpty, shared, workers
  <2>2. CASE MainStores
    BY <2>2 DEF MainStores, TypeOK, IdleHandsEmpty, shared, workers, history
  <2>3. CASE MainLoadFails
    BY <2>3 DEF MainLoadFails, TypeOK, IdleHandsEmpty, shared, workers, history
  <2>4. CASE Shutdown
    BY <2>4 DEF Shutdown, Unstarted, TypeOK, IdleHandsEmpty, shared
  <2>. QED
    BY <1>3, <2>1, <2>2, <2>3, <2>4 DEF MainStep
<1>4. ASSUME NEW w \in Worker, WorkerStep(w) PROVE IdleHandsEmpty'
  <2>1. CASE WorkerNoAnalyzer(w)
    BY <2>1 DEF WorkerNoAnalyzer, TypeOK, IdleHandsEmpty, shared, callers
  <2>2. CASE WorkerFilter(w)
    BY <2>2 DEF WorkerFilter, TypeOK, IdleHandsEmpty, shared, callers, history
  <2>3. ASSUME NEW s \in Seed, WorkerLoadsCached(w, s) PROVE IdleHandsEmpty'
    BY <2>3 DEF WorkerLoadsCached, TypeOK, IdleHandsEmpty, shared, callers, history
  <2>4. ASSUME NEW s \in Seed, WorkerLoads(w, s) PROVE IdleHandsEmpty'
    BY <2>4
    DEF WorkerLoads, BeginReplay, NeedsReplay, TypeOK, IdleHandsEmpty, shared, callers
  <2>5. CASE WorkerStores(w)
    BY <2>5 DEF WorkerStores, TypeOK, IdleHandsEmpty, shared, callers, history
  <2>6. CASE WorkerDies(w)
    BY <2>6 DEF WorkerDies, TypeOK, IdleHandsEmpty, shared, callers
  <2>7. CASE WorkerSaveOpens(w)
    BY <2>7 DEF WorkerSaveOpens, TypeOK, IdleHandsEmpty, shared, callers, history
  <2>8. CASE WorkerSaveWrites(w)
    BY <2>8 DEF WorkerSaveWrites, TypeOK, IdleHandsEmpty, shared, callers, history
  <2>9. CASE WorkerExits(w)
    BY <2>9 DEF WorkerExits, TypeOK, IdleHandsEmpty, shared, callers, history
  <2>. QED
    BY <1>4, <2>1, <2>2, <2>3, <2>4, <2>5, <2>6, <2>7, <2>8, <2>9 DEF WorkerStep
<1>5. CASE Restart
  BY <1>5 DEF Restart, TypeOK, IdleHandsEmpty
<1>6. CASE UNCHANGED vars
  BY <1>6 DEF vars, TypeOK, IdleHandsEmpty, shared, callers, workers, history
<1>. QED
  BY <1>1, <1>2, <1>3, <1>4, <1>5, <1>6 DEF Next


(* A step keeps Accounted if every name in hand stays in hand and every    *)
(* name it newly marks read is in hand.                                    *)
LEMMA KeepsAccounted ==
    ASSUME TypeOK, Accounted,
           \A s \in Seed : InHand(s) => InHand(s)',
           \A c \in Caller : \A s \in readFiles'[c] : s \in readFiles[c] \/ InHand(s)'
    PROVE  Accounted'
  BY DEF Accounted, TypeOK

LEMMA NextAccounted == TypeOK /\ PendingConsistent /\ IdleHandsEmpty /\ Accounted /\ [Next]_vars => Accounted'
<1> SUFFICES ASSUME TypeOK, PendingConsistent, IdleHandsEmpty, Accounted, [Next]_vars PROVE Accounted'
  OBVIOUS
<1>1. ASSUME NEW s \in Seed, AflAdds(s) \/ AflRewrites(s) PROVE Accounted'
  BY <1>1, KeepsAccounted
    DEF AflAdds, AflRewrites, TypeOK, IdleHandsEmpty, InHand, Cached, shared, callers, workers, history
<1>2. ASSUME NEW c \in Caller, CallerStep(c) PROVE Accounted'
  <2>1. CASE Scan(c)
    BY <2>1, KeepsAccounted
    DEF Scan, NewFor, Unread, TypeOK, IdleHandsEmpty, InHand, Cached, shared, workers, history
  <2>2. CASE ScanAborts(c)
    BY <2>2, KeepsAccounted
    DEF ScanAborts, NewFor, Unread, TypeOK, IdleHandsEmpty, InHand, Cached, shared, workers
  <2>3. ASSUME NEW s \in Seed, Enqueue(c, s) PROVE Accounted'
    <3>1. \A x \in Seed : InHand(x) => InHand(x)'
      <4>1. CASE AlreadyKnown(s)
        <5>1. s \in Cached \/ \E e \in deque : e.seed = s
          BY <4>1 DEF AlreadyKnown, PendingConsistent, Pending
        <5>. QED
          BY <2>3, <4>1, <5>1 DEF Enqueue, TypeOK, InHand, Cached, shared, workers, history
      <4>2. CASE ~AlreadyKnown(s)
        <5>1. [seed |-> s, at |-> tail + 1] \in deque' /\ deque \subseteq deque'
          BY <2>3, <4>2 DEF Enqueue
        <5>. QED
          BY <2>3, <5>1 DEF Enqueue, TypeOK, InHand, Cached, workers, history
      <4>. QED
        BY <4>1, <4>2
    <3>. QED
      BY <2>3, <3>1, KeepsAccounted DEF Enqueue
  <2>4. CASE KickBusy(c)
    BY <2>4, KeepsAccounted
    DEF KickBusy, TypeOK, IdleHandsEmpty, InHand, Cached, shared, workers, history
  <2>5. CASE KickCheck(c)
    BY <2>5, KeepsAccounted
    DEF KickCheck, TypeOK, IdleHandsEmpty, InHand, Cached, shared, workers
  <2>6. CASE KickSelect(c)
    BY <2>6, KeepsAccounted
    DEF KickSelect, Retained, TypeOK, IdleHandsEmpty, InHand, Cached, workers, history
  <2>7. CASE KickAssign(c)
    <3>1. PICK w \in Worker :
            /\ wpc[w] = "free"
            /\ wbatch' = [v \in Worker |-> IF v = w THEN batch[c]
                             ELSE IF v \in Unstarted THEN {} ELSE wbatch[v]]
      BY <2>7 DEF KickAssign
    <3>2. \A v \in Worker : wbatch[v] \subseteq wbatch'[v] \cup lost'
      BY <2>7, <3>1 DEF KickAssign, IdleHandsEmpty, Unstarted
    <3>3. batch[c] \subseteq wbatch'[w] /\ \A d \in Caller : d # c => batch'[d] = batch[d]
      BY <2>7, <3>1 DEF KickAssign, TypeOK
    <3>4. /\ todo' = todo /\ deque' = deque /\ cache' = cache /\ lost \subseteq lost'
          /\ readFiles' = readFiles
      BY <2>7 DEF KickAssign, shared
    <3>5. \A s \in Seed : InHand(s) => InHand(s)'
      BY <3>2, <3>3, <3>4 DEF InHand, Cached
    <3>. QED
      BY <3>4, <3>5, KeepsAccounted DEF Accounted
  <2>8. CASE KickStart(c)
    BY <2>8, KeepsAccounted
    DEF KickStart, Unstarted, TypeOK, IdleHandsEmpty, InHand, Cached, shared, history
  <2>9. CASE KickStartFails(c)
    BY <2>9, KeepsAccounted
    DEF KickStartFails, TypeOK, IdleHandsEmpty, InHand, Cached, shared, workers, history
  <2>10. CASE Stop(c)
    BY <2>10, KeepsAccounted
    DEF Stop, TypeOK, IdleHandsEmpty, InHand, Cached, shared, workers, history
  <2>. QED
    BY <1>2, <2>1, <2>2, <2>3, <2>4, <2>5, <2>6, <2>7, <2>8, <2>9, <2>10 DEF CallerStep
<1>3. CASE MainStep
  <2>1. ASSUME NEW s \in Seed, MainLoads(s) PROVE Accounted'
    BY <2>1, KeepsAccounted
    DEF MainLoads, BeginReplay, NeedsReplay, TypeOK, IdleHandsEmpty, InHand, Cached, shared, workers
  <2>2. CASE MainStores
    BY <2>2, KeepsAccounted
    DEF MainStores, TypeOK, IdleHandsEmpty, InHand, Cached, shared, workers, history
  <2>3. CASE MainLoadFails
    BY <2>3, KeepsAccounted
    DEF MainLoadFails, TypeOK, IdleHandsEmpty, InHand, Cached, shared, workers, history
  <2>4. CASE Shutdown
    BY <2>4, KeepsAccounted
    DEF Shutdown, Unstarted, TypeOK, IdleHandsEmpty, InHand, Cached, shared
  <2>. QED
    BY <1>3, <2>1, <2>2, <2>3, <2>4 DEF MainStep
<1>4. ASSUME NEW w \in Worker, WorkerStep(w) PROVE Accounted'
  <2>1. CASE WorkerNoAnalyzer(w)
    BY <2>1, KeepsAccounted
    DEF WorkerNoAnalyzer, TypeOK, IdleHandsEmpty, InHand, Cached, shared, callers
  <2>2. CASE WorkerFilter(w)
    BY <2>2, KeepsAccounted
    DEF WorkerFilter, TypeOK, IdleHandsEmpty, InHand, Cached, shared, callers, history
  <2>3. ASSUME NEW s \in Seed, WorkerLoadsCached(w, s) PROVE Accounted'
    BY <2>3, KeepsAccounted
    DEF WorkerLoadsCached, TypeOK, IdleHandsEmpty, InHand, Cached, shared, callers, history
  <2>4. ASSUME NEW s \in Seed, WorkerLoads(w, s) PROVE Accounted'
    BY <2>4, KeepsAccounted
    DEF WorkerLoads, BeginReplay, NeedsReplay, TypeOK, IdleHandsEmpty, InHand, Cached, shared, callers
  <2>5. CASE WorkerStores(w)
    BY <2>5, KeepsAccounted
    DEF WorkerStores, TypeOK, IdleHandsEmpty, InHand, Cached, shared, callers, history
  <2>6. CASE WorkerDies(w)
    BY <2>6, KeepsAccounted
    DEF WorkerDies, TypeOK, IdleHandsEmpty, InHand, Cached, shared, callers
  <2>7. CASE WorkerSaveOpens(w)
    BY <2>7, KeepsAccounted
    DEF WorkerSaveOpens, TypeOK, IdleHandsEmpty, InHand, Cached, shared, callers, history
  <2>8. CASE WorkerSaveWrites(w)
    BY <2>8, KeepsAccounted
    DEF WorkerSaveWrites, TypeOK, IdleHandsEmpty, InHand, Cached, shared, callers, history
  <2>9. CASE WorkerExits(w)
    BY <2>9, KeepsAccounted
    DEF WorkerExits, TypeOK, IdleHandsEmpty, InHand, Cached, shared, callers, history
  <2>. QED
    BY <1>4, <2>1, <2>2, <2>3, <2>4, <2>5, <2>6, <2>7, <2>8, <2>9 DEF WorkerStep
<1>5. CASE Restart
  BY <1>5 DEF Restart, Accounted
<1>6. CASE UNCHANGED vars
  BY <1>6, KeepsAccounted DEF vars, TypeOK, IdleHandsEmpty, InHand, Cached, shared, callers, workers, history
<1>. QED
  BY <1>1, <1>2, <1>3, <1>4, <1>5, <1>6 DEF Next


(* In every reachable state a name some scanner has marked read is on its  *)
(* way to a verdict, has one, or was taken by a named loss.                *)
THEOREM NothingReadDisappears == Spec => []Accounted
<1>1. Init => PendingConsistent /\ BehindTail /\ IdleHandsEmpty /\ Accounted
  BY DEF Init, PendingConsistent, BehindTail, Pending, IdleHandsEmpty, Accounted
<1>. QED
  BY <1>1, InitType, NextType, NextPending, NextHands, NextAccounted, PTL DEF Spec

(***************************************************************************)
(* Two threads are needed to replay a seed whose verdict is known: replays *)
(* of one seed that overlap mark it contended, and a thread is replaying   *)
(* exactly the seed its control state says.                                *)
(***************************************************************************)
OverlapMarks ==
    /\ \A k, l \in Loader : k # l /\ cur[k] = cur[l] /\ cur[k] # NoSeed
            => cur[k] \in contended
    /\ RedundantReplay

LEMMA NextOverlap == TypeOK /\ OverlapMarks /\ [Next]_vars => OverlapMarks'
<1> SUFFICES ASSUME TypeOK, OverlapMarks, [Next]_vars PROVE OverlapMarks'
  OBVIOUS
<1>1. ASSUME NEW s \in Seed, AflAdds(s) \/ AflRewrites(s) PROVE OverlapMarks'
  BY <1>1, SeedAssumption, WorkerAssumption
    DEF AflAdds, AflRewrites, TypeOK, OverlapMarks, RedundantReplay, Cached, Loader, shared, callers, workers, history
<1>2. ASSUME NEW c \in Caller, CallerStep(c) PROVE OverlapMarks'
  <2>1. CASE Scan(c)
    BY <2>1, SeedAssumption, WorkerAssumption
    DEF Scan, NewFor, Unread, TypeOK, OverlapMarks, RedundantReplay, Cached, Loader, shared, workers, history
  <2>2. CASE ScanAborts(c)
    BY <2>2, SeedAssumption, WorkerAssumption
    DEF ScanAborts, NewFor, Unread, TypeOK, OverlapMarks, RedundantReplay, Cached, Loader, shared, workers
  <2>3. ASSUME NEW s \in Seed, Enqueue(c, s) PROVE OverlapMarks'
    BY <2>3, SeedAssumption, WorkerAssumption
    DEF Enqueue, AlreadyKnown, TypeOK, OverlapMarks, RedundantReplay, Cached, Loader, shared, workers, history
  <2>4. CASE KickBusy(c)
    BY <2>4, SeedAssumption, WorkerAssumption
    DEF KickBusy, TypeOK, OverlapMarks, RedundantReplay, Cached, Loader, shared, workers, history
  <2>5. CASE KickCheck(c)
    BY <2>5, SeedAssumption, WorkerAssumption
    DEF KickCheck, TypeOK, OverlapMarks, RedundantReplay, Cached, Loader, shared, workers
  <2>6. CASE KickSelect(c)
    BY <2>6, SeedAssumption, WorkerAssumption
    DEF KickSelect, Retained, TypeOK, OverlapMarks, RedundantReplay, Cached, Loader, workers, history
  <2>7. CASE KickAssign(c)
    BY <2>7, SeedAssumption, WorkerAssumption
    DEF KickAssign, Unstarted, TypeOK, OverlapMarks, RedundantReplay, Cached, Loader, shared
  <2>8. CASE KickStart(c)
    BY <2>8, SeedAssumption, WorkerAssumption
    DEF KickStart, Unstarted, TypeOK, OverlapMarks, RedundantReplay, Cached, Loader, shared, history
  <2>9. CASE KickStartFails(c)
    BY <2>9, SeedAssumption, WorkerAssumption
    DEF KickStartFails, TypeOK, OverlapMarks, RedundantReplay, Cached, Loader, shared, workers, history
  <2>10. CASE Stop(c)
    BY <2>10, SeedAssumption, WorkerAssumption
    DEF Stop, TypeOK, OverlapMarks, RedundantReplay, Cached, Loader, shared, workers, history
  <2>. QED
    BY <1>2, <2>1, <2>2, <2>3, <2>4, <2>5, <2>6, <2>7, <2>8, <2>9, <2>10 DEF CallerStep
<1>3. CASE MainStep
  <2>1. ASSUME NEW s \in Seed, MainLoads(s) PROVE OverlapMarks'
    BY <2>1, SeedAssumption, WorkerAssumption
    DEF MainLoads, BeginReplay, NeedsReplay, TypeOK, OverlapMarks, RedundantReplay, Cached, Loader, shared, workers
  <2>2. CASE MainStores
    BY <2>2, SeedAssumption, WorkerAssumption
    DEF MainStores, TypeOK, OverlapMarks, RedundantReplay, Cached, Loader, shared, workers, history
  <2>3. CASE MainLoadFails
    BY <2>3, SeedAssumption, WorkerAssumption
    DEF MainLoadFails, TypeOK, OverlapMarks, RedundantReplay, Cached, Loader, shared, workers, history
  <2>4. CASE Shutdown
    BY <2>4, SeedAssumption, WorkerAssumption
    DEF Shutdown, Unstarted, TypeOK, OverlapMarks, RedundantReplay, Cached, Loader, shared
  <2>. QED
    BY <1>3, <2>1, <2>2, <2>3, <2>4 DEF MainStep
<1>4. ASSUME NEW w \in Worker, WorkerStep(w) PROVE OverlapMarks'
  <2>1. CASE WorkerNoAnalyzer(w)
    BY <2>1, SeedAssumption, WorkerAssumption
    DEF WorkerNoAnalyzer, TypeOK, OverlapMarks, RedundantReplay, Cached, Loader, shared, callers
  <2>2. CASE WorkerFilter(w)
    BY <2>2, SeedAssumption, WorkerAssumption
    DEF WorkerFilter, TypeOK, OverlapMarks, RedundantReplay, Cached, Loader, shared, callers, history
  <2>3. ASSUME NEW s \in Seed, WorkerLoadsCached(w, s) PROVE OverlapMarks'
    BY <2>3, SeedAssumption, WorkerAssumption
    DEF WorkerLoadsCached, TypeOK, OverlapMarks, RedundantReplay, Cached, Loader, shared, callers, history
  <2>4. ASSUME NEW s \in Seed, WorkerLoads(w, s) PROVE OverlapMarks'
    BY <2>4, SeedAssumption, WorkerAssumption
    DEF WorkerLoads, BeginReplay, NeedsReplay, TypeOK, OverlapMarks, RedundantReplay, Cached, Loader, shared, callers
  <2>5. CASE WorkerStores(w)
    BY <2>5, SeedAssumption, WorkerAssumption
    DEF WorkerStores, TypeOK, OverlapMarks, RedundantReplay, Cached, Loader, shared, callers, history
  <2>6. CASE WorkerDies(w)
    BY <2>6, SeedAssumption, WorkerAssumption
    DEF WorkerDies, TypeOK, OverlapMarks, RedundantReplay, Cached, Loader, shared, callers
  <2>7. CASE WorkerSaveOpens(w)
    BY <2>7, SeedAssumption, WorkerAssumption
    DEF WorkerSaveOpens, TypeOK, OverlapMarks, RedundantReplay, Cached, Loader, shared, callers, history
  <2>8. CASE WorkerSaveWrites(w)
    BY <2>8, SeedAssumption, WorkerAssumption
    DEF WorkerSaveWrites, TypeOK, OverlapMarks, RedundantReplay, Cached, Loader, shared, callers, history
  <2>9. CASE WorkerExits(w)
    BY <2>9, SeedAssumption, WorkerAssumption
    DEF WorkerExits, TypeOK, OverlapMarks, RedundantReplay, Cached, Loader, shared, callers, history
  <2>. QED
    BY <1>4, <2>1, <2>2, <2>3, <2>4, <2>5, <2>6, <2>7, <2>8, <2>9 DEF WorkerStep
<1>5. CASE Restart
  BY <1>5, SeedAssumption
     DEF Restart, OverlapMarks, RedundantReplay, Cached, Loader
<1>6. CASE UNCHANGED vars
  BY <1>6, SeedAssumption, WorkerAssumption DEF vars, TypeOK, OverlapMarks, RedundantReplay, Cached, Loader, shared, callers, workers, history
<1>. QED
  BY <1>1, <1>2, <1>3, <1>4, <1>5, <1>6 DEF Next


(* A verdict that is already cached is about to be overwritten only when   *)
(* two threads replayed its seed at the same time.                         *)
THEOREM OverwriteNeedsTwo == Spec => []RedundantReplay
<1>1. Init => OverlapMarks
  BY SeedAssumption DEF Init, OverlapMarks, RedundantReplay, Cached, Empty
<1>2. OverlapMarks => RedundantReplay
  BY DEF OverlapMarks
<1>. QED
  BY <1>1, <1>2, InitType, NextType, NextOverlap, PTL DEF Spec

(***************************************************************************)
(* Serial priming.  Without an overlap of two kicks, a thread object that  *)
(* has not ended is the one the attribute refers to, a caller past its     *)
(* check found no such object, and only one caller is past its check.      *)
(***************************************************************************)
SerialInv ==
    ~raced /\ pc["main"] # "exited" =>
      /\ \A w \in Worker : wpc[w] # "free" => thread = w
      /\ \A c \in Caller : pc[c] \in {"select", "assign"} =>
            \A w \in Worker : wpc[w] = "free"
      /\ \A c \in Caller : pc[c] = "start" => Unstarted # {}
      /\ \A w \in Worker : wpc[w] = "created" => \E c \in Caller : pc[c] = "start"
      /\ \A c, d \in Caller : InKick(c) /\ InKick(d) => c = d

LEMMA NextSerial == TypeOK /\ SerialInv /\ [Next]_vars => SerialInv'
<1> SUFFICES ASSUME TypeOK, SerialInv, [Next]_vars PROVE SerialInv'
  OBVIOUS
<1>1. ASSUME NEW s \in Seed, AflAdds(s) \/ AflRewrites(s) PROVE SerialInv'
  BY <1>1
    DEF AflAdds, AflRewrites, TypeOK, SerialInv, InKick, Unstarted, ThreadAlive, Caller, shared, callers, workers, history
<1>2. ASSUME NEW c \in Caller, CallerStep(c) PROVE SerialInv'
  <2>1. CASE Scan(c)
    BY <2>1
    DEF Scan, NewFor, Unread, TypeOK, SerialInv, InKick, Unstarted, ThreadAlive, Caller, shared, workers, history
  <2>2. CASE ScanAborts(c)
    BY <2>2
    DEF ScanAborts, NewFor, Unread, TypeOK, SerialInv, InKick, Unstarted, ThreadAlive, Caller, shared, workers
  <2>3. ASSUME NEW s \in Seed, Enqueue(c, s) PROVE SerialInv'
    BY <2>3
    DEF Enqueue, AlreadyKnown, TypeOK, SerialInv, InKick, Unstarted, ThreadAlive, Caller, shared, workers, history
  <2>4. CASE KickBusy(c)
    BY <2>4
    DEF KickBusy, TypeOK, SerialInv, InKick, Unstarted, ThreadAlive, Caller, shared, workers, history
  <2>5. CASE KickCheck(c)
    BY <2>5
    DEF KickCheck, TypeOK, SerialInv, InKick, Unstarted, ThreadAlive, Caller, shared, workers
  <2>6. CASE KickSelect(c)
    BY <2>6
    DEF KickSelect, Retained, TypeOK, SerialInv, InKick, Unstarted, ThreadAlive, Caller, workers, history
  <2>7. CASE KickAssign(c)
    BY <2>7
    DEF KickAssign, Unstarted, TypeOK, SerialInv, InKick, Unstarted, ThreadAlive, Caller, shared
  <2>8. CASE KickStart(c)
    BY <2>8
    DEF KickStart, Unstarted, TypeOK, SerialInv, InKick, Unstarted, ThreadAlive, Caller, shared, history
  <2>9. CASE KickStartFails(c)
    BY <2>9
    DEF KickStartFails, TypeOK, SerialInv, InKick, Unstarted, ThreadAlive, Caller, shared, workers, history
  <2>10. CASE Stop(c)
    BY <2>10
    DEF Stop, TypeOK, SerialInv, InKick, Unstarted, ThreadAlive, Caller, shared, workers, history
  <2>. QED
    BY <1>2, <2>1, <2>2, <2>3, <2>4, <2>5, <2>6, <2>7, <2>8, <2>9, <2>10 DEF CallerStep
<1>3. CASE MainStep
  <2>1. ASSUME NEW s \in Seed, MainLoads(s) PROVE SerialInv'
    BY <2>1
    DEF MainLoads, BeginReplay, NeedsReplay, TypeOK, SerialInv, InKick, Unstarted, ThreadAlive, Caller, shared, workers
  <2>2. CASE MainStores
    BY <2>2
    DEF MainStores, TypeOK, SerialInv, InKick, Unstarted, ThreadAlive, Caller, shared, workers, history
  <2>3. CASE MainLoadFails
    BY <2>3
    DEF MainLoadFails, TypeOK, SerialInv, InKick, Unstarted, ThreadAlive, Caller, shared, workers, history
  <2>4. CASE Shutdown
    BY <2>4
    DEF Shutdown, Unstarted, TypeOK, SerialInv, InKick, Unstarted, ThreadAlive, Caller, shared
  <2>. QED
    BY <1>3, <2>1, <2>2, <2>3, <2>4 DEF MainStep
<1>4. ASSUME NEW w \in Worker, WorkerStep(w) PROVE SerialInv'
  <2>1. CASE WorkerNoAnalyzer(w)
    BY <2>1
    DEF WorkerNoAnalyzer, TypeOK, SerialInv, InKick, Unstarted, ThreadAlive, Caller, shared, callers
  <2>2. CASE WorkerFilter(w)
    BY <2>2
    DEF WorkerFilter, TypeOK, SerialInv, InKick, Unstarted, ThreadAlive, Caller, shared, callers, history
  <2>3. ASSUME NEW s \in Seed, WorkerLoadsCached(w, s) PROVE SerialInv'
    BY <2>3
    DEF WorkerLoadsCached, TypeOK, SerialInv, InKick, Unstarted, ThreadAlive, Caller, shared, callers, history
  <2>4. ASSUME NEW s \in Seed, WorkerLoads(w, s) PROVE SerialInv'
    BY <2>4
    DEF WorkerLoads, BeginReplay, NeedsReplay, TypeOK, SerialInv, InKick, Unstarted, ThreadAlive, Caller, shared, callers
  <2>5. CASE WorkerStores(w)
    BY <2>5
    DEF WorkerStores, TypeOK, SerialInv, InKick, Unstarted, ThreadAlive, Caller, shared, callers, history
  <2>6. CASE WorkerDies(w)
    BY <2>6
    DEF WorkerDies, TypeOK, SerialInv, InKick, Unstarted, ThreadAlive, Caller, shared, callers
  <2>7. CASE WorkerSaveOpens(w)
    BY <2>7
    DEF WorkerSaveOpens, TypeOK, SerialInv, InKick, Unstarted, ThreadAlive, Caller, shared, callers, history
  <2>8. CASE WorkerSaveWrites(w)
    BY <2>8
    DEF WorkerSaveWrites, TypeOK, SerialInv, InKick, Unstarted, ThreadAlive, Caller, shared, callers, history
  <2>9. CASE WorkerExits(w)
    BY <2>9
    DEF WorkerExits, TypeOK, SerialInv, InKick, Unstarted, ThreadAlive, Caller, shared, callers, history
  <2>. QED
    BY <1>4, <2>1, <2>2, <2>3, <2>4, <2>5, <2>6, <2>7, <2>8, <2>9 DEF WorkerStep
<1>5. CASE Restart
  BY <1>5 DEF Restart, TypeOK, SerialInv, InKick, Unstarted, ThreadAlive, Caller
<1>6. CASE UNCHANGED vars
  BY <1>6 DEF vars, TypeOK, SerialInv, InKick, Unstarted, ThreadAlive, Caller, shared, callers, workers, history
<1>. QED
  BY <1>1, <1>2, <1>3, <1>4, <1>5, <1>6 DEF Next


(* Absent an overlap of two kicks, at most one priming thread exists.      *)
THEOREM PrimingIsSerial == Spec => []SerialPriming
<1>1. Init => SerialInv
  BY DEF Init, SerialInv, InKick
<1>2. SerialInv => SerialPriming
  BY DEF SerialInv, SerialPriming
<1>. QED
  BY <1>1, <1>2, InitType, NextType, NextSerial, PTL DEF Spec

(* NoDoubleWork: seeds are primed by one thread, and replayed once, unless *)
(* two kicks or two replays of the seed overlapped.                        *)
THEOREM WorkIsDoneOnce == Spec => []NoDoubleWork
  BY PrimingIsSerial, OverwriteNeedsTwo, PTL DEF NoDoubleWork

(***************************************************************************)
(* The file never promises more than the cache holds: a snapshot waiting   *)
(* to be written was taken from a cache that has only grown since.         *)
(***************************************************************************)
SnapshotsCached ==
    /\ \A w \in Worker : \A s \in Seed : snap[w][s] # "absent" => s \in Cached
    /\ PersistedIsCached

LEMMA NextSnapshots == TypeOK /\ SnapshotsCached /\ [Next]_vars => SnapshotsCached'
<1> SUFFICES ASSUME TypeOK, SnapshotsCached, [Next]_vars PROVE SnapshotsCached'
  OBVIOUS
<1>1. ASSUME NEW s \in Seed, AflAdds(s) \/ AflRewrites(s) PROVE SnapshotsCached'
  BY <1>1
    DEF AflAdds, AflRewrites, TypeOK, SnapshotsCached, PersistedIsCached, Cached, Empty, shared, callers, workers, history
<1>2. ASSUME NEW c \in Caller, CallerStep(c) PROVE SnapshotsCached'
  <2>1. CASE Scan(c)
    BY <2>1
    DEF Scan, NewFor, Unread, TypeOK, SnapshotsCached, PersistedIsCached, Cached, Empty, shared, workers, history
  <2>2. CASE ScanAborts(c)
    BY <2>2
    DEF ScanAborts, NewFor, Unread, TypeOK, SnapshotsCached, PersistedIsCached, Cached, Empty, shared, workers
  <2>3. ASSUME NEW s \in Seed, Enqueue(c, s) PROVE SnapshotsCached'
    BY <2>3
    DEF Enqueue, AlreadyKnown, TypeOK, SnapshotsCached, PersistedIsCached, Cached, Empty, shared, workers, history
  <2>4. CASE KickBusy(c)
    BY <2>4
    DEF KickBusy, TypeOK, SnapshotsCached, PersistedIsCached, Cached, Empty, shared, workers, history
  <2>5. CASE KickCheck(c)
    BY <2>5
    DEF KickCheck, TypeOK, SnapshotsCached, PersistedIsCached, Cached, Empty, shared, workers
  <2>6. CASE KickSelect(c)
    BY <2>6
    DEF KickSelect, Retained, TypeOK, SnapshotsCached, PersistedIsCached, Cached, Empty, workers, history
  <2>7. CASE KickAssign(c)
    BY <2>7
    DEF KickAssign, Unstarted, TypeOK, SnapshotsCached, PersistedIsCached, Cached, Empty, shared
  <2>8. CASE KickStart(c)
    BY <2>8
    DEF KickStart, Unstarted, TypeOK, SnapshotsCached, PersistedIsCached, Cached, Empty, shared, history
  <2>9. CASE KickStartFails(c)
    BY <2>9
    DEF KickStartFails, TypeOK, SnapshotsCached, PersistedIsCached, Cached, Empty, shared, workers, history
  <2>10. CASE Stop(c)
    BY <2>10
    DEF Stop, TypeOK, SnapshotsCached, PersistedIsCached, Cached, Empty, shared, workers, history
  <2>. QED
    BY <1>2, <2>1, <2>2, <2>3, <2>4, <2>5, <2>6, <2>7, <2>8, <2>9, <2>10 DEF CallerStep
<1>3. CASE MainStep
  <2>1. ASSUME NEW s \in Seed, MainLoads(s) PROVE SnapshotsCached'
    BY <2>1
    DEF MainLoads, BeginReplay, NeedsReplay, TypeOK, SnapshotsCached, PersistedIsCached, Cached, Empty, shared, workers
  <2>2. CASE MainStores
    BY <2>2
    DEF MainStores, TypeOK, SnapshotsCached, PersistedIsCached, Cached, Empty, shared, workers, history
  <2>3. CASE MainLoadFails
    BY <2>3
    DEF MainLoadFails, TypeOK, SnapshotsCached, PersistedIsCached, Cached, Empty, shared, workers, history
  <2>4. CASE Shutdown
    BY <2>4
    DEF Shutdown, Unstarted, TypeOK, SnapshotsCached, PersistedIsCached, Cached, Empty, shared
  <2>. QED
    BY <1>3, <2>1, <2>2, <2>3, <2>4 DEF MainStep
<1>4. ASSUME NEW w \in Worker, WorkerStep(w) PROVE SnapshotsCached'
  <2>1. CASE WorkerNoAnalyzer(w)
    BY <2>1
    DEF WorkerNoAnalyzer, TypeOK, SnapshotsCached, PersistedIsCached, Cached, Empty, shared, callers
  <2>2. CASE WorkerFilter(w)
    BY <2>2
    DEF WorkerFilter, TypeOK, SnapshotsCached, PersistedIsCached, Cached, Empty, shared, callers, history
  <2>3. ASSUME NEW s \in Seed, WorkerLoadsCached(w, s) PROVE SnapshotsCached'
    BY <2>3
    DEF WorkerLoadsCached, TypeOK, SnapshotsCached, PersistedIsCached, Cached, Empty, shared, callers, history
  <2>4. ASSUME NEW s \in Seed, WorkerLoads(w, s) PROVE SnapshotsCached'
    BY <2>4
    DEF WorkerLoads, BeginReplay, NeedsReplay, TypeOK, SnapshotsCached, PersistedIsCached, Cached, Empty, shared, callers
  <2>5. CASE WorkerStores(w)
    BY <2>5
    DEF WorkerStores, TypeOK, SnapshotsCached, PersistedIsCached, Cached, Empty, shared, callers, history
  <2>6. CASE WorkerDies(w)
    BY <2>6
    DEF WorkerDies, TypeOK, SnapshotsCached, PersistedIsCached, Cached, Empty, shared, callers
  <2>7. CASE WorkerSaveOpens(w)
    BY <2>7
    DEF WorkerSaveOpens, TypeOK, SnapshotsCached, PersistedIsCached, Cached, Empty, shared, callers, history
  <2>8. CASE WorkerSaveWrites(w)
    BY <2>8
    DEF WorkerSaveWrites, TypeOK, SnapshotsCached, PersistedIsCached, Cached, Empty, shared, callers, history
  <2>9. CASE WorkerExits(w)
    BY <2>9
    DEF WorkerExits, TypeOK, SnapshotsCached, PersistedIsCached, Cached, Empty, shared, callers, history
  <2>. QED
    BY <1>4, <2>1, <2>2, <2>3, <2>4, <2>5, <2>6, <2>7, <2>8, <2>9 DEF WorkerStep
<1>5. CASE Restart
  BY <1>5 DEF Restart, LoadedCache, TypeOK, SnapshotsCached, PersistedIsCached, Cached, Empty
<1>6. CASE UNCHANGED vars
  BY <1>6 DEF vars, TypeOK, SnapshotsCached, PersistedIsCached, Cached, Empty, shared, callers, workers, history
<1>. QED
  BY <1>1, <1>2, <1>3, <1>4, <1>5, <1>6 DEF Next


(* The persisted verdicts are a part of the cached ones.                   *)
THEOREM SavedWithinCache == Spec => []PersistedIsCached
<1>1. Init => SnapshotsCached
  BY DEF Init, SnapshotsCached, PersistedIsCached, Empty
<1>2. SnapshotsCached => PersistedIsCached
  BY DEF SnapshotsCached
<1>. QED
  BY <1>1, <1>2, InitType, NextType, NextSnapshots, PTL DEF Spec

(***************************************************************************)
(* What both liveness properties rest on: a batch runs down, the prime     *)
(* lock comes free, and a loop that is told to stop gets there.            *)
(*                                                                         *)
(* How many steps a thread is from its end at most: two for each seed of   *)
(* its batch, and those around them.                                       *)
(***************************************************************************)
ThreadLeft(n, p) ==
    IF p \in {"free", "created", "entry"} THEN 2 * n + (IF p = "free" THEN 0 ELSE IF p = "created" THEN 5 ELSE 4)
    ELSE IF p = "work" THEN 2 * n + 3 ELSE IF p = "replay" THEN 2 * n + 2
    ELSE IF p = "save" THEN 2 ELSE 1

(* A thread object that is not free comes nearer to its end with each of   *)
(* its own steps; a step of another thread leaves it alone, starts it or   *)
(* throws it away.                                                         *)
Batched(w) == ThreadLeft(Cardinality(wbatch[w]), wpc[w])
BatchesRunDown ==
    [][\A w \in Worker : wpc[w] # "free" =>
         \/ Batched(w)' < Batched(w)
         \/ ~WorkerStep(w) /\ UNCHANGED <<wpc[w], wbatch[w]>>]_vars

(* What is in hand are files of the queue, of which there are finitely     *)
(* many; a thread replays a seed of its own batch.                         *)
Queued ==
    /\ IsFiniteSet(queue) /\ Pending \subseteq queue
    /\ \A c \in Caller : todo[c] \subseteq queue /\ batch[c] \subseteq queue
    /\ \A w \in Worker : wbatch[w] \subseteq queue /\ (wpc[w] = "replay" => cur[w] \in wbatch[w])

LEMMA NextQueued == TypeOK /\ Queued /\ [Next]_vars => Queued'
<1> SUFFICES ASSUME TypeOK, Queued, [Next]_vars PROVE Queued'
  OBVIOUS
<1>1. ASSUME NEW s \in Seed, AflAdds(s) \/ AflRewrites(s) PROVE Queued'
  <2>1. IsFiniteSet(queue')
    BY <1>1, FS_AddElement DEF AflAdds, AflRewrites, Queued
  <2>. QED
    BY <1>1, <2>1 DEF AflAdds, AflRewrites, Queued, Pending, shared, callers, workers
<1>2. ASSUME NEW c \in Caller, CallerStep(c) PROVE Queued'
  <2>1. CASE Scan(c)
    BY <2>1 DEF Scan, NewFor, Unread, TypeOK, Queued, Pending, shared, workers
  <2>2. CASE ScanAborts(c) \/ KickBusy(c) \/ KickCheck(c) \/ KickStartFails(c) \/ Stop(c)
    BY <2>2 DEF ScanAborts, NewFor, Unread, KickBusy, KickCheck, KickStartFails, Stop, Queued, Pending, shared, workers
  <2>3. ASSUME NEW s \in Seed, Enqueue(c, s) PROVE Queued'
    <3>1. s \in todo[c] /\ todo' = [todo EXCEPT ![c] = @ \ {s}] /\ UNCHANGED <<queue, batch, workers, cur>>
      BY <2>3 DEF Enqueue
    <3>2. deque' = deque \/ deque' = deque \cup {[seed |-> s, at |-> tail + 1]}
      BY <2>3 DEF Enqueue, shared
    <3>3. Pending' \subseteq Pending \cup {s}
      BY <3>2 DEF Pending
    <3>. QED
      BY <3>1, <3>3 DEF TypeOK, Queued, workers
  <2>4. CASE KickSelect(c)
    <3>1. /\ batch' = [batch EXCEPT ![c] = NextBatch] /\ deque' = Retained(NextBatch)
          /\ UNCHANGED <<queue, todo, workers, cur>>
      BY <2>4 DEF KickSelect
    <3>2. NextBatch \subseteq Pending /\ Pending' \subseteq Pending
      BY <3>1 DEF NextBatch, Oldest, Eligible, Retained, Pending
    <3>. QED
      BY <3>1, <3>2 DEF TypeOK, Queued, workers
  <2>5. CASE KickAssign(c)
    BY <2>5 DEF KickAssign, Unstarted, TypeOK, Queued, Pending, shared
  <2>6. CASE KickStart(c)
    BY <2>6 DEF KickStart, Unstarted, TypeOK, Queued, Pending, shared
  <2>. QED
    BY <1>2, <2>1, <2>2, <2>3, <2>4, <2>5, <2>6 DEF CallerStep
<1>3. CASE MainStep
  <2>1. ASSUME NEW s \in Seed, MainLoads(s) PROVE Queued'
    BY <2>1, WorkerAssumption DEF MainLoads, BeginReplay, TypeOK, Queued, Pending, shared, workers, Loader
  <2>2. CASE MainStores \/ MainLoadFails
    BY <2>2, WorkerAssumption DEF MainStores, MainLoadFails, TypeOK, Queued, Pending, shared, workers, Loader
  <2>3. CASE Shutdown
    BY <2>3 DEF Shutdown, Unstarted, TypeOK, Queued, Pending, shared
  <2>. QED
    BY <1>3, <2>1, <2>2, <2>3 DEF MainStep
<1>4. ASSUME NEW w \in Worker, WorkerStep(w) PROVE Queued'
  <2>. USE DEF TypeOK, Queued, Pending, shared, callers, Loader
  <2>1. CASE WorkerNoAnalyzer(w)
    BY <2>1 DEF WorkerNoAnalyzer
  <2>2. CASE WorkerFilter(w)
    BY <2>2 DEF WorkerFilter
  <2>3. ASSUME NEW s \in Seed, WorkerLoadsCached(w, s) PROVE Queued'
    BY <2>3 DEF WorkerLoadsCached
  <2>4. ASSUME NEW s \in Seed, WorkerLoads(w, s) PROVE Queued'
    BY <2>4 DEF WorkerLoads, BeginReplay, FirstIn
  <2>5. CASE WorkerStores(w)
    BY <2>5 DEF WorkerStores
  <2>6. CASE WorkerDies(w)
    BY <2>6 DEF WorkerDies
  <2>7. CASE WorkerSaveOpens(w) \/ WorkerSaveWrites(w) \/ WorkerExits(w)
    BY <2>7 DEF WorkerSaveOpens, WorkerSaveWrites, WorkerExits
  <2>. QED
    BY <1>4, <2>1, <2>2, <2>3, <2>4, <2>5, <2>6, <2>7 DEF WorkerStep
<1>5. CASE Restart
  BY <1>5 DEF Restart, Queued, Pending
<1>6. CASE UNCHANGED vars
  BY <1>6 DEF vars, Queued, Pending, shared, callers, workers
<1>. QED
  BY <1>1, <1>2, <1>3, <1>4, <1>5, <1>6 DEF Next

LEMMA AlwaysHandsEmpty == Spec => []IdleHandsEmpty
<1>1. Init => IdleHandsEmpty
  BY DEF Init, IdleHandsEmpty
<1>. QED
  BY <1>1, NextHands, TypeCorrect, PTL DEF Spec

LEMMA AlwaysQueued == Spec => []Queued
<1>1. Init => Queued
  BY FS_EmptySet DEF Init, Queued, Pending
<1>. QED
  BY <1>1, NextQueued, TypeCorrect, PTL DEF Spec

(* The steps of a thread, and what the others may do to it.                *)
LEMMA ThreadFalls ==
    ASSUME TypeOK, IdleHandsEmpty, Queued, NEW w \in Worker, WorkerStep(w)
    PROVE  /\ Batched(w)' < Batched(w)
           /\ \A v \in Worker \ {w} : UNCHANGED <<wpc[v], wbatch[v]>>
           /\ UNCHANGED <<callers, primeLock, stopEvent>>
<1> DEFINE n == Cardinality(wbatch[w])
<1>1. IsFiniteSet(wbatch[w]) /\ n \in Nat /\ (wbatch[w] = {} => n = 0)
  BY FS_Subset, FS_CardinalityType, FS_EmptySet DEF Queued
<1>2. /\ wpc \in [Worker -> WorkerPC] /\ wbatch \in [Worker -> SUBSET Seed]
      /\ wpc[w] \in {"free", "save", "exit"} => wbatch[w] = {}
      /\ wpc[w] = "replay" => cur[w] \in wbatch[w]
  BY DEF TypeOK, IdleHandsEmpty, Queued
<1>3. \A s \in wbatch[w] : Cardinality(wbatch[w] \ {s}) = n - 1 /\ n > 0
  <2> TAKE s \in wbatch[w]
  <2>1. Cardinality(wbatch[w] \ {s}) = n - 1
    BY <1>1, FS_RemoveElement
  <2>2. n # 0
    BY <1>1, FS_EmptySet
  <2>. QED
    BY <1>1, <2>1, <2>2
<1>4. \A T \in SUBSET wbatch[w] : Cardinality(T) \in Nat /\ Cardinality(T) <= n
  BY <1>1, FS_Subset, FS_CardinalityType
<1>5. Batched(w) = ThreadLeft(n, wpc[w]) /\ Batched(w)' = ThreadLeft(Cardinality(wbatch'[w]), wpc'[w])
  BY DEF Batched, ThreadLeft
<1>6. Cardinality({}) = 0
  BY FS_EmptySet
<1> HIDE DEF n
<1>7. CASE WorkerNoAnalyzer(w)
  <2>1. /\ wpc[w] = "entry" /\ wpc'[w] = "exit"
        /\ wpc' = [wpc EXCEPT ![w] = "exit"] /\ wbatch' = [wbatch EXCEPT ![w] = {}]
    BY <1>2, <1>7 DEF WorkerNoAnalyzer
  <2>. QED
    BY <1>1, <1>2, <1>5, <1>7, <2>1 DEF WorkerNoAnalyzer, ThreadLeft
<1>8. CASE WorkerFilter(w)
  <2>1. /\ wpc[w] = "entry" /\ wpc'[w] \in {"exit", "work"} /\ wbatch'[w] \subseteq wbatch[w]
        /\ \A v \in Worker \ {w} : UNCHANGED <<wpc[v], wbatch[v]>>
    BY <1>2, <1>8 DEF WorkerFilter
  <2>2. Cardinality(wbatch'[w]) \in Nat /\ Cardinality(wbatch'[w]) <= n
    BY <1>4, <2>1
  <2>. QED
    BY <1>1, <1>5, <1>8, <2>1, <2>2 DEF WorkerFilter, ThreadLeft
<1>9. ASSUME NEW s \in Seed, WorkerLoadsCached(w, s)
      PROVE  /\ Batched(w)' < Batched(w) /\ UNCHANGED <<callers, primeLock, stopEvent>>
             /\ \A v \in Worker \ {w} : UNCHANGED <<wpc[v], wbatch[v]>>
  <2>1. /\ wpc[w] = "work" /\ wpc' = wpc /\ s \in wbatch[w]
        /\ wbatch' = [wbatch EXCEPT ![w] = @ \ {s}]
    BY <1>9 DEF WorkerLoadsCached, FirstIn
  <2>2. Cardinality(wbatch'[w]) = n - 1
    BY <1>2, <1>3, <2>1
  <2>. QED
    BY <1>1, <1>2, <1>5, <1>9, <2>1, <2>2 DEF WorkerLoadsCached, ThreadLeft
<1>10. ASSUME NEW s \in Seed, WorkerLoads(w, s)
       PROVE  /\ Batched(w)' < Batched(w) /\ UNCHANGED <<callers, primeLock, stopEvent>>
              /\ \A v \in Worker \ {w} : UNCHANGED <<wpc[v], wbatch[v]>>
  <2>1. wpc[w] = "work" /\ wpc' = [wpc EXCEPT ![w] = "replay"] /\ wbatch' = wbatch
    BY <1>10 DEF WorkerLoads
  <2>2. Cardinality(wbatch'[w]) = n
    BY <2>1 DEF n
  <2>. QED
    BY <1>1, <1>2, <1>5, <1>10, <2>1, <2>2 DEF WorkerLoads, ThreadLeft
<1>11. CASE WorkerStores(w)
  <2>1. /\ wpc[w] = "replay" /\ wpc' = [wpc EXCEPT ![w] = "work"]
        /\ wbatch' = [wbatch EXCEPT ![w] = @ \ {cur[w]}]
    BY <1>11 DEF WorkerStores
  <2>2. Cardinality(wbatch'[w]) = n - 1
    BY <1>2, <1>3, <2>1
  <2>. QED
    BY <1>1, <1>2, <1>5, <1>11, <2>1, <2>2 DEF WorkerStores, ThreadLeft
<1>12. CASE WorkerDies(w)
  <2>1. /\ wpc[w] = "replay" /\ wpc' = [wpc EXCEPT ![w] = "free"] /\ wbatch' = [wbatch EXCEPT ![w] = {}]
    BY <1>12 DEF WorkerDies
  <2>2. Cardinality(wbatch'[w]) = 0
    BY <1>2, <1>6, <2>1
  <2>. QED
    BY <1>1, <1>2, <1>5, <1>12, <2>1, <2>2 DEF WorkerDies, ThreadLeft
<1>13. CASE WorkerSaveOpens(w)
  <2>1. wpc[w] = "work" /\ wpc' = [wpc EXCEPT ![w] = "save"] /\ wbatch' = wbatch
    BY <1>13 DEF WorkerSaveOpens
  <2>. QED
    BY <1>1, <1>2, <1>5, <1>13, <2>1 DEF WorkerSaveOpens, ThreadLeft
<1>14. CASE WorkerSaveWrites(w)
  <2>1. wpc[w] = "save" /\ wpc' = [wpc EXCEPT ![w] = "exit"] /\ wbatch' = wbatch
    BY <1>14 DEF WorkerSaveWrites
  <2>. QED
    BY <1>2, <1>5, <1>14, <2>1 DEF WorkerSaveWrites, ThreadLeft
<1>15. CASE WorkerExits(w)
  <2>1. wpc[w] = "exit" /\ wpc' = [wpc EXCEPT ![w] = "free"] /\ wbatch' = wbatch
    BY <1>15 DEF WorkerExits
  <2>2. Cardinality(wbatch'[w]) = 0
    BY <1>2, <1>6, <2>1
  <2>. QED
    BY <1>2, <1>5, <1>15, <2>1, <2>2 DEF WorkerExits, ThreadLeft
<1>. QED
  BY <1>7, <1>8, <1>9, <1>10, <1>11, <1>12, <1>13, <1>14, <1>15 DEF WorkerStep

LEMMA OthersLeaveThreads ==
    ASSUME TypeOK, IdleHandsEmpty, Queued, [Next]_vars, NEW w \in Worker, wpc[w] # "free"
    PROVE  Batched(w)' < Batched(w) \/ UNCHANGED <<wpc[w], wbatch[w]>>
<1>1. /\ wpc \in [Worker -> WorkerPC] /\ wbatch \in [Worker -> SUBSET Seed]
      /\ Cardinality(wbatch[w]) \in Nat /\ Cardinality({}) = 0
      /\ Batched(w) = ThreadLeft(Cardinality(wbatch[w]), wpc[w])
      /\ Batched(w)' = ThreadLeft(Cardinality(wbatch'[w]), wpc'[w])
  <2>1. IsFiniteSet(wbatch[w])
    BY FS_Subset DEF Queued
  <2>. QED
    BY <2>1, FS_CardinalityType, FS_EmptySet DEF TypeOK, Batched, ThreadLeft
<1>2. ASSUME wpc'[w] = "free", wbatch'[w] = {} PROVE Batched(w)' < Batched(w)
  BY <1>1, <1>2 DEF ThreadLeft, WorkerPC
<1>3. ASSUME NEW c \in Caller, KickAssign(c) PROVE Batched(w)' < Batched(w) \/ UNCHANGED <<wpc[w], wbatch[w]>>
  <2>1. (wpc'[w] = "free" /\ wbatch'[w] = {}) \/ UNCHANGED <<wpc[w], wbatch[w]>>
    BY <1>3 DEF KickAssign
  <2>. QED
    BY <1>2, <2>1
<1>4. ASSUME NEW c \in Caller, KickStart(c) PROVE Batched(w)' < Batched(w) \/ UNCHANGED <<wpc[w], wbatch[w]>>
  <2>1. /\ wpc[thread] = "created" /\ wpc' = [wpc EXCEPT ![thread] = "entry"] /\ wbatch' = wbatch
    BY <1>4 DEF KickStart, Unstarted
  <2>. QED
    BY <1>1, <2>1 DEF ThreadLeft
<1>5. CASE Shutdown
  <2>1. (wpc'[w] = "free" /\ wbatch'[w] = {}) \/ UNCHANGED <<wpc[w], wbatch[w]>>
    BY <1>5 DEF Shutdown
  <2>. QED
    BY <1>2, <2>1
<1>6. CASE Restart
  BY <1>2, <1>6 DEF Restart
<1>7. ASSUME NEW v \in Worker, WorkerStep(v) PROVE Batched(w)' < Batched(w) \/ UNCHANGED <<wpc[w], wbatch[w]>>
  BY <1>7, ThreadFalls
<1>8. CASE UNCHANGED <<wpc, wbatch>>
  BY <1>8
<1>. QED
  BY <1>3, <1>4, <1>5, <1>6, <1>7, <1>8
  DEF Next, CallerStep, MainStep, AflAdds, AflRewrites, Scan, ScanAborts, Enqueue, KickBusy, KickCheck, KickSelect,
      KickStartFails, Stop, MainLoads, MainStores, MainLoadFails, vars, workers

(* BatchesRunDown: a thread that replays a batch comes nearer to its end   *)
(* with each of its steps, whatever fails, and no kick, stop or other      *)
(* thread gives it more to do: with Accounted, what EveryFileReplayed      *)
(* rests on besides the scheduling.                                        *)
THEOREM PrimingRunsDown == Spec => BatchesRunDown
<1>1. TypeOK /\ IdleHandsEmpty /\ Queued /\ [Next]_vars
        => [\A w \in Worker : wpc[w] # "free" =>
               \/ Batched(w)' < Batched(w)
               \/ ~WorkerStep(w) /\ UNCHANGED <<wpc[w], wbatch[w]>>]_vars
  BY ThreadFalls, OthersLeaveThreads
<1>. QED
  BY <1>1, TypeCorrect, AlwaysHandsEmpty, AlwaysQueued, PTL DEF Spec, BatchesRunDown

(* The prime lock is held by a caller that needs nothing but itself to     *)
(* give it back: one with names left to enqueue, or choosing its batch.    *)
LockHolderWorks ==
    \A c \in Caller :
        /\ primeLock = c => pc[c] \in {"enq", "select"}
        /\ pc[c] = "select" => primeLock = c
        /\ pc[c] = "enq" => todo[c] # {}

LEMMA NextLock == TypeOK /\ LockHolderWorks /\ [Next]_vars => LockHolderWorks'
<1> SUFFICES ASSUME TypeOK, LockHolderWorks, [Next]_vars PROVE LockHolderWorks'
  OBVIOUS
<1> USE DEF LockHolderWorks
<1>0. /\ pc \in [Caller -> CallerPC] /\ todo \in [Caller -> SUBSET Seed]
      /\ "free" \notin Caller /\ "main" \in Caller
  BY DEF TypeOK, Caller
<1>2. ASSUME NEW c \in Caller, CallerStep(c) PROVE LockHolderWorks'
  <2>1. CASE Scan(c)
    BY <1>0, <2>1 DEF Scan
  <2>2. CASE ScanAborts(c)
    BY <1>0, <2>2 DEF ScanAborts
  <2>3. ASSUME NEW s \in Seed, Enqueue(c, s) PROVE LockHolderWorks'
    <3>1. /\ pc[c] = "enq" /\ s \in todo[c] /\ primeLock \in {"free", c}
          /\ todo' = [todo EXCEPT ![c] = @ \ {s}]
      BY <2>3 DEF Enqueue
    <3>2. CASE todo[c] = {s}
      <4>1. primeLock' = "free" /\ pc' = [pc EXCEPT ![c] = "kick"]
        BY <2>3, <3>2 DEF Enqueue
      <4>. QED
        BY <1>0, <3>1, <4>1
    <3>3. CASE todo[c] # {s}
      <4>1. primeLock' = c /\ pc' = [pc EXCEPT ![c] = "enq"] /\ todo[c] \ {s} # {}
        BY <2>3, <3>1, <3>3 DEF Enqueue
      <4>. QED
        BY <1>0, <3>1, <4>1
    <3>. QED
      BY <3>2, <3>3
  <2>4. CASE KickBusy(c) \/ KickStart(c) \/ KickStartFails(c) \/ Stop(c) \/ KickAssign(c)
    BY <1>0, <2>4 DEF KickBusy, KickStart, KickStartFails, Stop, KickAssign
  <2>5. CASE KickCheck(c)
    BY <1>0, <2>5 DEF KickCheck
  <2>6. CASE KickSelect(c)
    <3>1. /\ pc[c] = "select" /\ primeLock = c /\ primeLock' = "free" /\ todo' = todo
          /\ pc' = [pc EXCEPT ![c] = IF NextBatch = {} THEN "idle" ELSE "assign"]
      BY <2>6 DEF KickSelect
    <3>. QED
      BY <1>0, <3>1
  <2>. QED
    BY <1>2, <2>1, <2>2, <2>3, <2>4, <2>5, <2>6 DEF CallerStep
<1>3. CASE MainStep
  <2>1. ASSUME NEW s \in Seed, MainLoads(s) PROVE LockHolderWorks'
    BY <1>0, <2>1 DEF MainLoads
  <2>2. CASE MainStores \/ MainLoadFails \/ Shutdown
    BY <1>0, <2>2 DEF MainStores, MainLoadFails, Shutdown
  <2>. QED
    BY <1>3, <2>1, <2>2 DEF MainStep
<1>4. ASSUME NEW w \in Worker, WorkerStep(w) PROVE LockHolderWorks'
  <2>1. UNCHANGED <<pc, todo, primeLock>>
    BY <1>4 DEF WorkerStep, WorkerNoAnalyzer, WorkerFilter, WorkerLoadsCached, WorkerLoads, WorkerStores,
                WorkerDies, WorkerSaveOpens, WorkerSaveWrites, WorkerExits, callers
  <2>. QED
    BY <2>1
<1>5. CASE Restart
  BY <1>0, <1>5 DEF Restart
<1>6. CASE UNCHANGED <<pc, todo, primeLock>>
  BY <1>6
<1>. QED
  BY <1>2, <1>3, <1>4, <1>5, <1>6 DEF Next, AflAdds, AflRewrites, vars, callers

(* LockHolderWorks: whoever holds the prime lock between two steps has a   *)
(* step of its own to take that waits for nobody, so that the two loops    *)
(* and the threads that report their backlog never wait for each other.    *)
THEOREM LockComesFree == Spec => []LockHolderWorks
<1>1. Init => LockHolderWorks
  BY DEF Init, LockHolderWorks, Caller
<1>. QED
  BY <1>1, NextLock, TypeCorrect, PTL DEF Spec

(* How many steps a loop that is told to stop is from its end.             *)
LoopLeft(n, p) ==
    IF p = "enq" THEN 7 + n ELSE IF p = "kick" THEN 7 ELSE IF p = "select" THEN 6
    ELSE IF p = "assign" THEN 5 ELSE IF p \in {"start", "replay"} THEN 4
    ELSE IF p = "idle" THEN 3 ELSE IF p = "stopped" THEN 2 ELSE 1

(* The stop event stays set until the process ends.  From then on each     *)
(* step of a loop brings it nearer to its end, but for the seeds that the  *)
(* plateau loop still replays for an attempt; no other thread leads it     *)
(* back.                                                                   *)
Remaining(c) == LoopLeft(Cardinality(todo[c]), pc[c])
LoopStep(c) == CallerStep(c) \/ (c = "main" /\ MainStep)
StopsRunDown ==
    [][stopEvent /\ ~Restart =>
         /\ stopEvent'
         /\ \A c \in Caller :
              \/ Remaining(c)' < Remaining(c)
              \/ c = "main" /\ \E s \in Seed : MainLoads(s)
              \/ ~LoopStep(c) /\ UNCHANGED <<pc[c], todo[c]>>]_vars

LEMMA CallerFalls ==
    ASSUME TypeOK, Queued, stopEvent, NEW c \in Caller, CallerStep(c)
    PROVE  /\ stopEvent' /\ Remaining(c)' < Remaining(c)
           /\ \A d \in Caller \ {c} : UNCHANGED <<pc[d], todo[d]>>
<1>1. /\ pc \in [Caller -> CallerPC] /\ todo \in [Caller -> SUBSET Seed]
      /\ Remaining(c) = LoopLeft(Cardinality(todo[c]), pc[c])
      /\ Remaining(c)' = LoopLeft(Cardinality(todo'[c]), pc'[c])
  BY DEF TypeOK, Remaining, LoopLeft
<1>2. IsFiniteSet(todo[c]) /\ Cardinality(todo[c]) \in Nat
  BY FS_Subset, FS_CardinalityType DEF Queued
<1>3. ~Scan(c) /\ ~ScanAborts(c)
  BY DEF Scan, NewFor, Unread, ScanAborts
<1>4. ASSUME NEW s \in Seed, Enqueue(c, s)
      PROVE  /\ stopEvent' /\ Remaining(c)' < Remaining(c)
             /\ \A d \in Caller \ {c} : UNCHANGED <<pc[d], todo[d]>>
  <2>1. /\ pc[c] = "enq" /\ s \in todo[c] /\ todo' = [todo EXCEPT ![c] = @ \ {s}] /\ stopEvent' = stopEvent
        /\ pc' = [pc EXCEPT ![c] = IF todo[c] = {s} THEN "kick" ELSE "enq"]
    BY <1>4 DEF Enqueue
  <2>2. Cardinality(todo[c] \ {s}) = Cardinality(todo[c]) - 1 /\ Cardinality(todo[c]) > 0
    <3>1. Cardinality(todo[c] \ {s}) = Cardinality(todo[c]) - 1
      BY <1>2, <2>1, FS_RemoveElement
    <3>2. Cardinality(todo[c]) # 0
      BY <1>2, <2>1, FS_EmptySet
    <3>. QED
      BY <1>2, <3>1, <3>2
  <2>3. todo'[c] = todo[c] \ {s} /\ pc'[c] \in {"kick", "enq"}
    BY <1>1, <2>1
  <2>4. Remaining(c)' < Remaining(c)
    BY <1>1, <1>2, <2>1, <2>2, <2>3 DEF LoopLeft
  <2>. QED
    BY <1>1, <2>1, <2>4
<1>5. CASE KickBusy(c) \/ KickCheck(c) \/ Stop(c)
  <2>1. \/ pc[c] = "kick" /\ pc' = [pc EXCEPT ![c] = "idle"]
        \/ pc[c] = "kick" /\ pc' = [pc EXCEPT ![c] = "select"]
        \/ pc[c] = "idle" /\ pc' = [pc EXCEPT ![c] = "stopped"]
    BY <1>5 DEF KickBusy, KickCheck, Stop
  <2>2. stopEvent' /\ todo' = todo
    BY <1>5 DEF KickBusy, KickCheck, Stop
  <2>. QED
    BY <1>1, <2>1, <2>2 DEF LoopLeft
<1>6. CASE KickSelect(c)
  <2>1. /\ pc[c] = "select" /\ stopEvent' = stopEvent /\ todo' = todo
        /\ pc' = [pc EXCEPT ![c] = IF NextBatch = {} THEN "idle" ELSE "assign"]
    BY <1>6 DEF KickSelect
  <2>. QED
    BY <1>1, <2>1 DEF LoopLeft
<1>7. CASE KickAssign(c) \/ KickStart(c)
  <2>1. \/ pc[c] = "assign" /\ pc' = [pc EXCEPT ![c] = "start"]
        \/ pc[c] = "start" /\ pc' = [pc EXCEPT ![c] = "idle"]
    BY <1>7 DEF KickAssign, KickStart
  <2>2. stopEvent' /\ todo' = todo
    BY <1>7 DEF KickAssign, KickStart
  <2>. QED
    BY <1>1, <2>1, <2>2 DEF LoopLeft
<1>8. CASE KickStartFails(c)
  <2>1. pc[c] = "start" /\ pc' = [pc EXCEPT ![c] = IF c = "monitor" THEN "idle" ELSE "stopped"]
    BY <1>8 DEF KickStartFails
  <2>2. stopEvent' /\ todo' = todo
    BY <1>8 DEF KickStartFails
  <2>. QED
    BY <1>1, <2>1, <2>2 DEF LoopLeft
<1>. QED
  BY <1>3, <1>4, <1>5, <1>6, <1>7, <1>8 DEF CallerStep

LEMMA MainFalls ==
    ASSUME TypeOK, stopEvent, MainStep
    PROVE  /\ Remaining("main")' < Remaining("main") \/ \E s \in Seed : MainLoads(s)
           /\ stopEvent' /\ \A d \in Caller \ {"main"} : UNCHANGED <<pc[d], todo[d]>>
<1>1. /\ pc \in [Caller -> CallerPC] /\ "main" \in Caller
      /\ Remaining("main") = LoopLeft(Cardinality(todo["main"]), pc["main"])
      /\ Remaining("main")' = LoopLeft(Cardinality(todo'["main"]), pc'["main"])
  BY DEF TypeOK, Remaining, LoopLeft, Caller
<1>2. ASSUME NEW s \in Seed, MainLoads(s) PROVE stopEvent' /\ \A d \in Caller \ {"main"} : UNCHANGED <<pc[d], todo[d]>>
  BY <1>1, <1>2 DEF MainLoads
<1>3. CASE MainStores \/ MainLoadFails \/ Shutdown
  <2>1. \/ pc["main"] = "replay" /\ pc' = [pc EXCEPT !["main"] = "idle"]
        \/ pc["main"] = "replay" /\ pc' = [pc EXCEPT !["main"] = "stopped"]
        \/ pc["main"] = "stopped" /\ pc' = [pc EXCEPT !["main"] = "exited"]
    BY <1>3 DEF MainStores, MainLoadFails, Shutdown
  <2>2. stopEvent' /\ todo' = todo
    BY <1>3 DEF MainStores, MainLoadFails, Shutdown
  <2>. QED
    BY <1>1, <2>1, <2>2 DEF LoopLeft
<1>. QED
  BY <1>2, <1>3 DEF MainStep

(* StopsRunDown: the stop event is taken back only by the end of the       *)
(* process, and every step of a loop that it has told to stop, whatever it *)
(* was doing, is one towards its end: what StopEndsLoops rests on besides  *)
(* the scheduling.                                                         *)
THEOREM LoopsRunDown == Spec => StopsRunDown
<1> DEFINE Goal ==
      stopEvent /\ ~Restart =>
         /\ stopEvent'
         /\ \A c \in Caller :
              \/ Remaining(c)' < Remaining(c)
              \/ c = "main" /\ \E s \in Seed : MainLoads(s)
              \/ ~LoopStep(c) /\ UNCHANGED <<pc[c], todo[c]>>
<1>1. ASSUME TypeOK, Queued, Next, stopEvent, ~Restart
      PROVE  /\ stopEvent'
             /\ \A c \in Caller :
                  \/ Remaining(c)' < Remaining(c)
                  \/ c = "main" /\ \E s \in Seed : MainLoads(s)
                  \/ ~LoopStep(c) /\ UNCHANGED <<pc[c], todo[c]>>
  <2>1. \A c \in Caller : LoopStep(c) => Remaining(c)' < Remaining(c) \/ (c = "main" /\ \E s \in Seed : MainLoads(s))
    BY <1>1, CallerFalls, MainFalls DEF LoopStep
  <2>2. ASSUME NEW c \in Caller, CallerStep(c)
        PROVE  /\ stopEvent' /\ Remaining(c)' < Remaining(c)
               /\ \A d \in Caller \ {c} : UNCHANGED <<pc[d], todo[d]>>
    BY <1>1, <2>2, CallerFalls
  <2>3. CASE MainStep
    BY <1>1, <2>1, <2>3, MainFalls DEF LoopStep
  <2>4. ASSUME UNCHANGED <<pc, todo, stopEvent>>
        PROVE  stopEvent' /\ \A c \in Caller : UNCHANGED <<pc[c], todo[c]>>
    BY <1>1, <2>4
  <2>5. ASSUME NEW w \in Worker, WorkerStep(w) PROVE UNCHANGED <<pc, todo, stopEvent>>
    BY <2>5 DEF WorkerStep, WorkerNoAnalyzer, WorkerFilter, WorkerLoadsCached, WorkerLoads, WorkerStores,
                WorkerDies, WorkerSaveOpens, WorkerSaveWrites, WorkerExits, callers
  <2>6. ASSUME NEW s \in Seed, AflAdds(s) \/ AflRewrites(s) PROVE UNCHANGED <<pc, todo, stopEvent>>
    BY <2>6 DEF AflAdds, AflRewrites, callers
  <2>. QED
    BY <1>1, <2>1, <2>2, <2>3, <2>4, <2>5, <2>6 DEF Next
<1>2. TypeOK /\ Queued /\ [Next]_vars => [Goal]_vars
  BY <1>1
<1>. QED
  BY <1>2, TypeCorrect, AlwaysQueued, PTL DEF Spec, StopsRunDown
=============================================================================
