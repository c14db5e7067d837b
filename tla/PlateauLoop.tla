---------------------------- MODULE PlateauLoop ----------------------------
(***************************************************************************)
(* main.py: the plateau loop of the main thread, the seed_monitor thread   *)
(* and how they end.  The main thread samples AFL's edge count; once it    *)
(* has not grown for THRESHOLD_TIME an epoch starts, and as long as the    *)
(* epoch lasts every turn of the loop has the first scheduler pick one     *)
(* roadblock, attempts it and samples again.  The scheduler is the module  *)
(* AttemptScheduler; no result is ever recorded with it.                   *)
(*                                                                         *)
(* Abstractions.  The attempt (handle_roadblock_simplified) either raises, *)
(* produces candidates, fails, or hangs in a program it runs without a     *)
(* timeout; the listing of roadblocks is any set.  Time since the last     *)
(* growth is counted up to Threshold.                                      *)
(***************************************************************************)
EXTENDS Integers

CONSTANTS
    Key,             \* roadblocks
    None,            \* no roadblock
    MaxPicks,        \* bound on the picks of a roadblock
    MaxEdges,        \* bound on the edges AFL finds
    Threshold,       \* THRESHOLD_TIME
    StagnationTrace  \* ENABLE_STAGNATION_TRACE

ASSUME LoopAssumption ==
    /\ None \notin Key /\ MaxPicks \in Nat /\ MaxEdges \in Nat
    /\ Threshold \in Nat \ {0} /\ StagnationTrace \in BOOLEAN

VARIABLES
    mem, disk, readable, phase, writing, cand, inHand,   \* the scheduler
    owed, streak, forgot, steady,
    alive,           \* the fuzzer process exists
    edges,           \* edges_found of AFL
    seen, age,       \* last_coverage, time since last_growth_time
    epoch,           \* epoch_active
    stop,            \* stop_event
    mpc, spc,        \* control of the main thread and of seed_monitor
    grew,            \* history: growth was sampled since the epoch started
    failed           \* history: roadblocks whose attempt failed this session

Sched == INSTANCE AttemptScheduler WITH Results <- {}

schedVars == <<mem, disk, readable, phase, writing, cand, inHand, owed, streak, forgot, steady>>
sampled == <<seen, age, grew>>
vars == <<schedVars, alive, edges, sampled, epoch, stop, mpc, spc, failed>>

Looping == {"head", "sample", "wait", "list", "choose", "attempt", "judge"}
MainPC == Looping \cup {"hung", "ending", "joining", "closing", "ended"}
MonitorPC == {"head", "scan", "wait", "ended"}

TypeOK ==
    /\ Sched!TypeOK
    /\ alive \in BOOLEAN /\ epoch \in BOOLEAN /\ stop \in BOOLEAN /\ grew \in BOOLEAN
    /\ edges \in Nat /\ seen \in Nat /\ age \in 0 .. Threshold
    /\ mpc \in MainPC /\ spc \in MonitorPC
    /\ failed \subseteq Key

Init ==
    /\ Sched!Init
    /\ alive = TRUE /\ edges = 0 /\ seen = 0 /\ age = 0
    /\ epoch = FALSE /\ stop = FALSE /\ grew = FALSE
    /\ mpc = "head" /\ spc = "head" /\ failed = {}

----------------------------------------------------------------------------
(* The main thread.                                                        *)
AlwaysAlive == TRUE                                                    \* mutant
CheckFuzzerAlive == alive
MustEnd == stop \/ ~CheckFuzzerAlive

MainHead ==
    /\ mpc = "head"
    /\ mpc' = IF MustEnd THEN "ending" ELSE "sample"
    /\ UNCHANGED <<schedVars, alive, edges, sampled, epoch, stop, spc, failed>>

(* check_coverage_growth, on what fuzzer_stats says (what was seen last if *)
(* it says nothing).                                                       *)
CheckCoverageGrowth(current) ==
    /\ seen' = current
    /\ age' = IF current - seen >= 1 THEN 0 ELSE age

OneShort(stuck) == ~epoch /\ stuck < Threshold - 1                     \* mutant
NoEpochs(stuck) == ~epoch                                              \* mutant
StaysIdle(stuck) == ~epoch /\ stuck < Threshold

MainSample ==
    /\ mpc = "sample"
    /\ \E current \in {edges, seen} :
          /\ CheckCoverageGrowth(current)
          /\ IF StaysIdle(age')
             THEN mpc' = "wait" /\ UNCHANGED <<epoch, grew>>
             ELSE /\ mpc' = "list" /\ epoch' = TRUE
                  /\ grew' = (epoch /\ (grew \/ current > seen))
    /\ UNCHANGED <<schedVars, alive, edges, stop, spc, failed>>

MainWaits ==
    /\ mpc = "wait" /\ mpc' = "head"
    /\ UNCHANGED <<schedVars, alive, edges, sampled, epoch, stop, spc, failed>>

(* run_cycle up to the pick.  refresh_candidates leaves out the roadblocks *)
(* marked failed or resolved; the program only marks them on paths the     *)
(* loop does not take, so there are none.                                  *)
Skipped == {}

ListNothing ==
    /\ mpc = "list"
    /\ epoch' = (epoch /\ ~StagnationTrace)
    /\ mpc' = IF StagnationTrace THEN "head" ELSE "ending"     \* sys.exit(1)
    /\ UNCHANGED <<schedVars, alive, edges, sampled, stop, spc, failed>>

(* The main thread scans the queue too, and stat() of a file the gate has  *)
(* just moved away raises.                                                 *)
ListRaises ==
    /\ mpc = "list" /\ StagnationTrace /\ mpc' = "ending"
    /\ UNCHANGED <<schedVars, alive, edges, sampled, epoch, stop, spc, failed>>

ListRoadblocks(R) ==
    /\ mpc = "list" /\ R # {}
    /\ \A k \in R : mem.picks[k] < MaxPicks
    /\ Sched!Sync(R \ Skipped)
    /\ mpc' = "choose"
    /\ UNCHANGED <<alive, edges, sampled, epoch, stop, spc, failed>>

BeforeSave ==                                                          \* mutant
    /\ mpc = "choose"
    /\ Sched!SaveOpens \/ Sched!SaveWrites \/ \E k \in Key : Sched!Select(k)
    /\ mpc' = IF phase' = "pick" THEN "attempt" ELSE "choose"
    /\ UNCHANGED <<alive, edges, sampled, epoch, stop, spc, failed>>
Choose ==
    /\ mpc = "choose"
    /\ Sched!SaveOpens \/ Sched!SaveWrites \/ \E k \in Key : Sched!Select(k)
    /\ mpc' = IF phase' = "rest" THEN "attempt" ELSE "choose"
    /\ UNCHANGED <<alive, edges, sampled, epoch, stop, spc, failed>>

(* handle_roadblock_simplified looks for the fuzzer before it works; what  *)
(* it raises ends the loop.                                                *)
Attempt(attempted) ==
    /\ mpc = "attempt" /\ mpc' = "judge"
    /\ failed' = IF attempted THEN failed ELSE failed \cup {inHand}
    /\ UNCHANGED <<schedVars, alive, edges, sampled, epoch, stop, spc>>

AttemptRaises ==
    /\ mpc = "attempt" /\ mpc' = "ending"
    /\ UNCHANGED <<schedVars, alive, edges, sampled, epoch, stop, spc, failed>>

(* The field extractor and the slicer are run without a timeout: one that  *)
(* does not end holds the main thread until an interrupt.                  *)
AttemptHangs ==
    /\ mpc = "attempt" /\ mpc' = "hung"
    /\ UNCHANGED <<schedVars, alive, edges, sampled, epoch, stop, spc, failed>>

(* A sample below the threshold counts as a breakthrough of the attempt.   *)
Judge ==
    /\ mpc = "judge" /\ mpc' = "head"
    /\ \E current \in {edges, seen} :
          /\ CheckCoverageGrowth(current)
          /\ epoch' = (epoch /\ age' >= Threshold)
          /\ grew' = (grew \/ current > seen)
    /\ UNCHANGED <<schedVars, alive, edges, stop, spc, failed>>

(* The two finally clauses: set the event, join for five seconds, close.   *)
Ends ==
    /\ mpc = "ending" /\ mpc' = "joining" /\ stop' = TRUE
    /\ UNCHANGED <<schedVars, alive, edges, sampled, epoch, spc, failed>>

Joins ==
    /\ mpc = "joining" /\ mpc' = "closing"
    /\ UNCHANGED <<schedVars, alive, edges, sampled, epoch, stop, spc, failed>>

(* main() returns; the daemon thread ends with the process.                *)
Closes ==
    /\ mpc = "closing" /\ mpc' = "ended" /\ spc' = "ended"
    /\ UNCHANGED <<schedVars, alive, edges, sampled, epoch, stop, failed>>

(* KeyboardInterrupt is raised in the main thread wherever it is, in the   *)
(* middle of a save or in a finally clause too.                            *)
Interrupt ==
    /\ mpc \in Looping \cup {"hung", "ending", "joining"}
    /\ mpc' = IF mpc \in {"ending", "joining"} THEN "closing" ELSE "ending"
    /\ UNCHANGED <<schedVars, alive, edges, sampled, epoch, stop, spc, failed>>

----------------------------------------------------------------------------
(* seed_monitor_loop; an exception of the scan is caught.                  *)
MonitorHead ==
    /\ spc = "head"
    /\ spc' = IF MustEnd THEN "ended" ELSE "scan"
    /\ stop' = (stop \/ ~CheckFuzzerAlive)
    /\ UNCHANGED <<schedVars, alive, edges, sampled, epoch, mpc, failed>>

MonitorScans ==
    /\ spc = "scan" /\ spc' = "wait"
    /\ UNCHANGED <<schedVars, alive, edges, sampled, epoch, stop, mpc, failed>>

MonitorWaits ==
    /\ spc = "wait" /\ spc' = "head"
    /\ UNCHANGED <<schedVars, alive, edges, sampled, epoch, stop, mpc, failed>>

----------------------------------------------------------------------------
(* The surroundings: AFL, the clock, a new session.                        *)
AflFinds ==
    /\ alive /\ edges < MaxEdges
    /\ edges' = edges + 1
    /\ UNCHANGED <<schedVars, alive, sampled, epoch, stop, mpc, spc, failed>>

AflDies ==
    /\ alive /\ alive' = FALSE
    /\ UNCHANGED <<schedVars, edges, sampled, epoch, stop, mpc, spc, failed>>

Clock ==
    /\ age < Threshold /\ age' = age + 1
    /\ UNCHANGED <<schedVars, alive, edges, seen, grew, epoch, stop, mpc, spc, failed>>

Restart ==
    /\ Sched!Killed
    /\ alive' = TRUE /\ seen' = edges /\ age' = 0
    /\ epoch' = FALSE /\ stop' = FALSE /\ grew' = FALSE
    /\ mpc' = "head" /\ spc' = "head" /\ failed' = {}
    /\ UNCHANGED edges

Main ==
    \/ MainHead \/ MainSample \/ MainWaits \/ ListNothing \/ ListRaises
    \/ \E R \in SUBSET Key : ListRoadblocks(R)
    \/ Choose
    \/ \E attempted \in BOOLEAN : Attempt(attempted)
    \/ AttemptRaises \/ AttemptHangs \/ Judge \/ Ends \/ Joins \/ Closes

Monitor == MonitorHead \/ MonitorScans \/ MonitorWaits

Session == Main \/ Monitor \/ Interrupt \/ AflFinds \/ AflDies \/ Clock

Next == Session \/ Restart

Spec == Init /\ [][Next]_vars

(* Both threads get to run.  Their waits, the join and the replays of      *)
(* candidates have timeouts; an attempt that does not come back is         *)
(* AttemptHangs, and nothing is assumed to free it.                        *)
FairSpec == Init /\ [][Session]_vars /\ WF_vars(Main) /\ WF_vars(Monitor)

----------------------------------------------------------------------------
(* Roadblocks that stay listed are attempted in turn, through epochs and   *)
(* sessions.                                                               *)
TakeTurns == Sched!FairRotation

(* A cycle is called a breakthrough only if coverage grew after the epoch  *)
(* began.                                                                  *)
BreakthroughEarned == [][Judge /\ epoch /\ ~epoch' => grew']_vars

(* A pick is saved before it is attempted: no crash during the attempt     *)
(* makes the next session forget it.                                       *)
AttemptIsOnFile ==
    mpc \in {"attempt", "judge"} => readable /\ inHand # None /\ disk.last = inHand
                                             /\ disk.picks[inHand] > 0

(* The death of the fuzzer ends the session, wherever the threads are,     *)
(* unless the attempt under way hangs.                                     *)
DeathEndsSession == ~alive ~> mpc \in {"ended", "hung"}

(* A session that stays without growth and in its loop, neither ended nor  *)
(* hung, keeps listing roadblocks.                                         *)
PlateauIsWorked == <>[](age = Threshold /\ mpc \in Looping) => []<>(mpc = "list")

(* update_pass_roadblock: failed roadblocks "are not retried".             *)
FailedNotRetried == [][\A k \in Key : Sched!Picks(k) => k \notin failed]_vars
=============================================================================
