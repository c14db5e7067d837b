---------------------------- MODULE FuzzerSession ----------------------------
(***************************************************************************)
(* The life of a process of main.py: it starts by reading static.json,     *)
(* registers signal handlers twice (its own, then those of FuzzerRunner),  *)
(* looks up the PID of the fuzzer, works until it is interrupted or finds  *)
(* the fuzzer gone, and rewrites static.json before it exits.  What it     *)
(* does while it works is the module RoadblockAttempt.                     *)
(*                                                                         *)
(* Abstractions.  The fuzzer is started by somebody else (nothing calls    *)
(* FuzzerRunner.run, so fuzzer_process is None and terminate() only sets   *)
(* its flag).  The process may be killed anywhere.                         *)
(***************************************************************************)
EXTENDS Naturals

CONSTANTS
    MaxSignals,      \* bound on the signals of a session
    MaxSessions      \* bound on the sessions

ASSUME SessionAssumption == MaxSignals \in Nat /\ MaxSessions \in Nat \ {0}

VARIABLES
    alive,           \* the fuzzer exists
    known,           \* fuzzer_pid_from_stats is not None
    handlers,        \* who handles SIGINT and SIGTERM
    asked,           \* _shutdown_requested of main.py; cleanup_child_processes ran
    terminating,     \* _terminating of the FuzzerRunner
    static,          \* static.json is "whole" or "cut"
    pc,              \* where the main thread is
    signals,         \* signals of this session
    sessions,        \* sessions so far
    dumpHit          \* history: a signal or kill came while static.json was cut

session == <<alive, known, handlers, asked, terminating, static, signals,
             sessions, dumpHit>>

Boot == {"import", "store", "runner", "pid", "tracer"}
Closing == {"ending", "closing", "dumping", "saved"}
Over == {"exited", "broken"}

SessionInit ==
    /\ alive = TRUE /\ known = FALSE /\ handlers = "default"
    /\ asked = FALSE /\ terminating = FALSE
    /\ static = "whole" /\ pc = "import" /\ signals = 0 /\ sessions = 1 /\ dumpHit = FALSE

----------------------------------------------------------------------------
(* Start.                                                                  *)

(* config reads static.json when it is imported: a cut file raises.  Then  *)
(* main() registers signal_handler.                                        *)
Import ==
    /\ pc = "import"
    /\ IF static = "whole"
       THEN pc' = "store" /\ handlers' = "main"
       ELSE pc' = "broken" /\ UNCHANGED handlers
    /\ UNCHANGED <<alive, known, asked, terminating, static, signals, sessions, dumpHit>>

(* The constructor of FuzzerRunner registers its own handlers.             *)
CreateRunner ==
    /\ pc = "runner" /\ pc' = "pid" /\ handlers' = "runner"
    /\ UNCHANGED <<alive, known, asked, terminating, static, signals, sessions, dumpHit>>

(* fuzzer_stats may be missing or have no fuzzer_pid.                      *)
LoadFuzzerPid ==
    /\ pc = "pid" /\ pc' = "tracer"
    /\ known' \in BOOLEAN
    /\ UNCHANGED <<alive, handlers, asked, terminating, static, signals, sessions, dumpHit>>

CreateTracer == pc = "tracer" /\ pc' = "head" /\ UNCHANGED session

(* check_alive, is_alive_from_stats: signal 0 to the PID that was loaded.  *)
CheckAlive == known /\ alive

NeverDead == TRUE                                                      \* mutant
CheckFuzzerAlive == CheckAlive

MainHead(next) ==
    /\ pc = "head" /\ pc' = IF CheckFuzzerAlive THEN next ELSE "ending"
    /\ UNCHANGED session

----------------------------------------------------------------------------
(* The finally clauses.                                                    *)
OpensFirst ==                                                          \* mutant
    /\ pc = "ending" /\ pc' = "closing" /\ static' = "cut"
    /\ UNCHANGED <<alive, known, handlers, asked, terminating, signals, sessions, dumpHit>>
StopMonitor == pc = "ending" /\ pc' = "closing" /\ UNCHANGED session

OpenStatic ==
    /\ pc = "closing" /\ pc' = "dumping" /\ static' = "cut"
    /\ UNCHANGED <<alive, known, handlers, asked, terminating, signals, sessions, dumpHit>>

DumpStatic ==
    /\ pc = "dumping" /\ pc' = "saved" /\ static' = "whole"
    /\ UNCHANGED <<alive, known, handlers, asked, terminating, signals, sessions, dumpHit>>

Exit == pc = "saved" /\ pc' = "exited" /\ UNCHANGED session

----------------------------------------------------------------------------
(* Signals.  KeyboardInterrupt in the loop is caught there, and ends it;   *)
(* in the clause that stops the monitor it goes on to the outer finally;   *)
(* before the try, and in the outer finally, nothing catches it.           *)
Unwound ==
    IF pc \in Boot \ {"tracer"} \/ pc \in {"closing", "dumping", "saved"} THEN "exited"
    ELSE IF pc \in {"tracer", "ending"} THEN "closing"
    ELSE "ending"

Interrupted(to) ==
    /\ pc' = to
    /\ dumpHit' = (dumpHit \/ pc = "dumping")

(* signal_handler: the first signal cleans up and is remembered, but the   *)
(* program goes on; nothing else reads what it remembers.                  *)
SignalHandler ==
    /\ handlers = "main" /\ asked' = TRUE
    /\ IF asked THEN Interrupted("exited") ELSE UNCHANGED <<pc, dumpHit>>
    /\ UNCHANGED terminating

(* FuzzerRunner._signal_handler and terminate.                             *)
RunnerHandler ==
    /\ handlers = "runner" /\ terminating' = TRUE
    /\ Interrupted(Unwound) /\ UNCHANGED asked

DefaultHandler ==
    /\ handlers = "default"
    /\ Interrupted("exited") /\ UNCHANGED <<asked, terminating>>

Signal ==
    /\ pc \notin Over /\ signals < MaxSignals /\ signals' = signals + 1
    /\ SignalHandler \/ RunnerHandler \/ DefaultHandler
    /\ UNCHANGED <<alive, known, handlers, static, sessions>>

Kill ==
    /\ pc \notin Over /\ Interrupted("exited")
    /\ UNCHANGED <<alive, known, handlers, asked, terminating, static, signals, sessions>>

Dies ==
    /\ alive /\ alive' = FALSE
    /\ UNCHANGED <<pc, known, handlers, asked, terminating, static, signals, sessions, dumpHit>>

(* Somebody starts the program again, and the fuzzer if it has died.       *)
Restart ==
    /\ pc = "exited" /\ sessions < MaxSessions
    /\ sessions' = sessions + 1 /\ pc' = "import"
    /\ alive' = TRUE /\ known' = FALSE /\ handlers' = "default"
    /\ asked' = FALSE /\ terminating' = FALSE /\ signals' = 0
    /\ UNCHANGED <<static, dumpHit>>

SessionStep ==
    \/ Import \/ CreateRunner \/ LoadFuzzerPid \/ CreateTracer
    \/ StopMonitor \/ OpenStatic \/ DumpStatic \/ Exit

----------------------------------------------------------------------------
(* The next session can start unless a signal or a kill came just while    *)
(* the file was being rewritten.                                           *)
StartsAgain == pc = "broken" => dumpHit
=============================================================================
