-------------------------- MODULE AutobugPipeline --------------------------
(***************************************************************************)
(* The AutoBug seed pipeline of CoverageTracer.py: how a file that AFL     *)
(* drops in its queue directory becomes an entry of the branch cache.      *)
(*                                                                         *)
(* Two long-lived threads feed and drive it: the plateau loop ("main",     *)
(* get_trace) and the seed monitor ("monitor", poll_autobug_seed_queue).   *)
(* Each scans the queue directory with a read set of its own, appends the  *)
(* new names to a pending deque shared under _autobug_prime_lock, and then *)
(* kicks a background thread that takes a batch off the deque and replays  *)
(* its seeds one at a time.  The batch is chosen under the lock; the       *)
(* thread object is assigned and started after the lock is released.       *)
(*                                                                         *)
(* Abstractions.  The deque is a set of entries [seed, at] ordered by the  *)
(* position "at".  Files of an earlier session, which have their verdicts, *)
(* are not followed: they only raise the watermark.  The order of names    *)
(* within one scan, and of names with the same +cov class within a batch,  *)
(* is left open.  A thread that has ended is "free" and its identity may   *)
(* be used again.                                                          *)
(***************************************************************************)
EXTENDS Naturals, FiniteSets

CONSTANTS
    Seed,        \* names of seeds AFL may create
    CovSeed,     \* the names AFL marked "+cov"
    Worker,      \* identities of priming threads (bounds how many coexist)
    NoWorker,    \* _autobug_prime_thread is None
    NoSeed,      \* a loader that is replaying nothing
    BatchMax,    \* AUTOBUG_PRIME_MAX_SEEDS_PER_ROUND
    Known,       \* stamp of the youngest file of an earlier session, or 0
    MaxStamp,    \* bound on the file system's clock
    Faults       \* which faults of the environment may happen

FaultKinds == {"crash", "stop", "vanish", "noAnalyzer", "exception"}

ASSUME SeedAssumption == CovSeed \subseteq Seed /\ NoSeed \notin Seed
ASSUME WorkerAssumption == NoWorker \notin Worker /\ "main" \notin Worker
ASSUME BatchAssumption == BatchMax \in Nat \ {0}
ASSUME StampAssumption == MaxStamp \in Nat \ {0} /\ Known \in 0 .. MaxStamp
ASSUME FaultAssumption == Faults \subseteq FaultKinds

Caller == {"main", "monitor"}
Loader == Worker \cup {"main"}       \* threads that may replay a seed
Verdict == {"absent", "none", "parsed"}
CallerPC == {"idle", "enq", "kick", "select", "assign", "start", "replay",
             "stopped", "exited"}
WorkerPC == {"free", "created", "entry", "work", "replay", "save", "exit"}

VARIABLES
    queue,       \* files in AFL's queue directory
    stamp,       \* the later of a file's ctime and mtime; 0: no such file
    readFiles,   \* the read set of each scanner
    watermark,   \* the last_scan_time of each scanner
    deque,       \* _autobug_pending_seed_names
    tail,        \* position of the last append to the deque
    pendingSet,  \* _autobug_pending_seed_name_set
    cache,       \* _autobug_seed_branch_cache
    saved,       \* seed_branches.json
    primeLock,   \* holder of _autobug_prime_lock across steps, or "free"
    thread,      \* _autobug_prime_thread
    stopEvent,   \* main()'s stop_event
    pc, todo, batch,             \* per caller: control, names to enqueue, batch
    wpc, wbatch, snap,           \* per worker: control, remaining batch, snapshot
    cur,         \* per loader: the seed being replayed
    lost,        \* history: seeds dropped by a fault or by two racing kicks
    raced,       \* history: two kicks overlapped between check and start
    contended    \* history: seeds replayed by two threads at the same time

clock == <<stamp, watermark>>
shared == <<deque, tail, pendingSet>>
callers == <<pc, todo, batch>>
workers == <<wpc, wbatch, snap>>
history == <<lost, raced, contended>>
vars == <<queue, readFiles, clock, shared, cache, saved, primeLock, thread, stopEvent,
          callers, workers, cur, history>>

Cached == {s \in Seed : cache[s] # "absent"}
Empty == [s \in Seed |-> "absent"]
Pending == {e.seed : e \in deque}

ClockOK ==
    /\ stamp \in [Seed -> 0 .. MaxStamp]
    /\ watermark \in [Caller -> 0 .. MaxStamp]

TypeOK ==
    /\ queue \subseteq Seed
    /\ ClockOK
    /\ readFiles \in [Caller -> SUBSET Seed]
    /\ deque \subseteq [seed : Seed, at : Nat]
    /\ tail \in Nat
    /\ pendingSet \subseteq Seed
    /\ cache \in [Seed -> Verdict]
    /\ saved \in [torn : BOOLEAN, of : [Seed -> Verdict]]
    /\ primeLock \in Caller \cup {"free"}
    /\ thread \in Worker \cup {NoWorker}
    /\ stopEvent \in BOOLEAN
    /\ pc \in [Caller -> CallerPC]
    /\ todo \in [Caller -> SUBSET Seed]
    /\ batch \in [Caller -> SUBSET Seed]
    /\ wpc \in [Worker -> WorkerPC]
    /\ wbatch \in [Worker -> SUBSET Seed]
    /\ snap \in [Worker -> [Seed -> Verdict]]
    /\ cur \in [Loader -> Seed \cup {NoSeed}]
    /\ lost \subseteq Seed
    /\ raced \in BOOLEAN
    /\ contended \subseteq Seed

----------------------------------------------------------------------------
Init ==
    /\ queue = {}
    /\ stamp = [s \in Seed |-> 0]
    /\ watermark = [c \in Caller |-> 0]
    /\ saved = [torn |-> FALSE, of |-> Empty]
    /\ cache = Empty
    /\ readFiles = [c \in Caller |-> {}]
    /\ deque = {} /\ tail = 0 /\ pendingSet = {}
    /\ primeLock = "free" /\ thread = NoWorker /\ stopEvent = FALSE
    /\ pc = [c \in Caller |-> "idle"]
    /\ todo = [c \in Caller |-> {}]
    /\ batch = [c \in Caller |-> {}]
    /\ wpc = [w \in Worker |-> "free"]
    /\ wbatch = [w \in Worker |-> {}]
    /\ snap = [w \in Worker |-> Empty]
    /\ cur = [l \in Loader |-> NoSeed]
    /\ lost = {} /\ raced = FALSE /\ contended = {}

(* The clock of the file system does not go back, but its grain is coarse: *)
(* two files may carry the same stamp.                                     *)
Now == {n \in 1 .. MaxStamp : Known <= n /\ \A t \in Seed : stamp[t] <= n}

(* AFL adds a test case.                                                   *)
AflAdds(s) ==
    /\ s \notin queue
    /\ queue' = queue \cup {s}
    /\ \E n \in Now : stamp' = [stamp EXCEPT ![s] = n]
    /\ UNCHANGED <<readFiles, watermark, shared, cache, saved, primeLock, thread,
                   stopEvent, callers, workers, cur, history>>

(* AFL trims a test case: the file is unlinked and written anew.           *)
AflRewrites(s) ==
    /\ "vanish" \in Faults /\ s \in queue
    /\ \E n \in Now : n # stamp[s] /\ stamp' = [stamp EXCEPT ![s] = n]
    /\ UNCHANGED <<queue, readFiles, watermark, shared, cache, saved, primeLock,
                   thread, stopEvent, callers, workers, cur, history>>

(* What get_new_seeds takes for new: a name the scanner has not read, in a *)
(* file younger than everything it saw in the scan before.                 *)
Unread(c) == queue \ readFiles[c]
NewFor(c) == {s \in Unread(c) : stamp[s] > watermark[c]}

(* get_new_seeds, called by a scanner with its own read set and its own    *)
(* watermark: every new file is marked read and handed over, and the       *)
(* watermark moves up to the youngest file of the directory, so that a     *)
(* file that comes later and is no younger is never new.                   *)
Scan(c) ==
    /\ pc[c] = "idle" /\ ~stopEvent
    /\ LET new == NewFor(c)
       IN  /\ readFiles' = [readFiles EXCEPT ![c] = @ \cup new]
           /\ todo' = [todo EXCEPT ![c] = new]
           /\ pc' = [pc EXCEPT ![c] = IF new = {} THEN "kick" ELSE "enq"]
    /\ \E n \in {Known} \cup {stamp[s] : s \in queue} :
         /\ Known <= n /\ \A s \in queue : stamp[s] <= n
         /\ watermark' = [watermark EXCEPT ![c] = n]
    /\ UNCHANGED <<queue, stamp, shared, cache, saved, primeLock, thread,
                   stopEvent, batch, workers, cur, history>>

(* A file disappears between the two stat calls of get_new_seeds (AFL      *)
(* unlinks and rewrites a test case it trims): the new files looked at     *)
(* before it stay marked and are handed to nobody, and the watermark stays *)
(* where it was.  The monitor swallows the error; in the plateau loop it   *)
(* ends the session.                                                       *)
ScanAborts(c) ==
    /\ "vanish" \in Faults
    /\ pc[c] = "idle" /\ ~stopEvent
    /\ \E gone \in queue :
         \E marked \in SUBSET (NewFor(c) \ {gone}) :
            /\ readFiles' = [readFiles EXCEPT ![c] = @ \cup marked]
            /\ lost' = lost \cup marked
    /\ pc' = [pc EXCEPT ![c] = IF c = "monitor" THEN "kick" ELSE "stopped"]
    /\ stopEvent' = (c = "main")
    /\ UNCHANGED <<queue, clock, shared, cache, saved, primeLock, thread, todo,
                   batch, workers, cur, raced, contended>>

(* A name is appended unless it is cached or pending already.              *)
AlreadyKnown(s) == s \in Cached \cup pendingSet

(* One round of the loop of enqueue_autobug_seed_names, which holds the    *)
(* prime lock from its first round to its last.                            *)
Enqueue(c, s) ==
    /\ pc[c] = "enq" /\ s \in todo[c]
    /\ primeLock \in {"free", c}
    /\ IF AlreadyKnown(s)
         THEN UNCHANGED shared
         ELSE /\ deque' = deque \cup {[seed |-> s, at |-> tail + 1]}
              /\ tail' = tail + 1
              /\ pendingSet' = pendingSet \cup {s}
    /\ todo' = [todo EXCEPT ![c] = @ \ {s}]
    /\ primeLock' = IF todo[c] = {s} THEN "free" ELSE c
    /\ pc' = [pc EXCEPT ![c] = IF todo[c] = {s} THEN "kick" ELSE "enq"]
    /\ UNCHANGED <<queue, readFiles, clock, cache, saved, thread, stopEvent, batch,
                   workers, cur, history>>

(* kick_autobug_prime_async takes the prime lock and looks at the thread.  *)
NoLivenessCheck == FALSE                    \* mutant
ThreadAlive == thread \in {w \in Worker : wpc[w] \notin {"free", "created"}}
Unstarted == {w \in Worker : w = thread /\ wpc[w] = "created"}

KickBusy(c) ==
    /\ pc[c] \in {"idle", "kick"} /\ primeLock = "free"
    /\ pc[c] = "idle" => ~stopEvent
    /\ ThreadAlive
    /\ pc' = [pc EXCEPT ![c] = "idle"]
    /\ UNCHANGED <<queue, readFiles, clock, shared, cache, saved, primeLock, thread,
                   stopEvent, todo, batch, workers, cur, history>>

InKick(c) == pc[c] \in {"select", "assign", "start"}
KickCheck(c) ==
    /\ pc[c] \in {"idle", "kick"} /\ primeLock = "free"
    /\ pc[c] = "idle" => ~stopEvent
    /\ ~ThreadAlive
    /\ primeLock' = c
    /\ pc' = [pc EXCEPT ![c] = "select"]
    /\ raced' = (raced \/ \E d \in Caller \ {c} : InKick(d))
    /\ UNCHANGED <<queue, readFiles, clock, shared, cache, saved, thread, stopEvent,
                   todo, batch, workers, cur, lost, contended>>

(* The batch: every uncached +cov name, else the oldest BatchMax uncached  *)
(* ones.  Its names leave the deque and the set; a name that is cached     *)
(* already stays in both.                                                  *)
Eligible == {e \in deque : e.seed \notin Cached}
Oldest(D) == {e \in D : Cardinality({d \in D : d.at < e.at}) < BatchMax}
CovOnly == {e.seed : e \in {d \in Eligible : d.seed \in CovSeed}}   \* mutant
NextBatch ==
    LET cov == {e \in Eligible : e.seed \in CovSeed}
    IN  {e.seed : e \in IF cov # {} THEN cov ELSE Oldest(Eligible)}

DropUnselected(b) == IF b = {} THEN deque ELSE {}     \* mutant
Retained(b) == {e \in deque : e.seed \notin b}

KickSelect(c) ==
    /\ pc[c] = "select" /\ primeLock = c
    /\ LET b == NextBatch
       IN  /\ batch' = [batch EXCEPT ![c] = b]
           /\ deque' = Retained(b)
           /\ tail' = IF deque' = {} THEN 0 ELSE tail
           /\ pendingSet' = pendingSet \ b
           /\ pc' = [pc EXCEPT ![c] = IF b = {} THEN "idle" ELSE "assign"]
    /\ primeLock' = "free"
    /\ UNCHANGED <<queue, readFiles, clock, cache, saved, thread, stopEvent, todo,
                   workers, cur, history>>

(* Identities are alike: any free one will do for a new thread.            *)
FreshThread == CHOOSE w \in Worker : wpc[w] = "free"

(* With the lock released: a new thread object replaces the attribute.  An *)
(* object that was assigned by the other caller and never started is       *)
(* garbage from here on, and its batch with it.                            *)
KickAssign(c) ==
    /\ pc[c] = "assign"
    /\ \E w \in Worker :
         /\ wpc[w] = "free" /\ w = FreshThread
         /\ thread' = w
         /\ wpc' = [v \in Worker |-> IF v = w THEN "created"
                        ELSE IF v \in Unstarted THEN "free" ELSE wpc[v]]
         /\ wbatch' = [v \in Worker |-> IF v = w THEN batch[c]
                        ELSE IF v \in Unstarted THEN {} ELSE wbatch[v]]
    /\ lost' = lost \cup UNION {wbatch[v] : v \in Unstarted}
    /\ batch' = [batch EXCEPT ![c] = {}]
    /\ pc' = [pc EXCEPT ![c] = "start"]
    /\ UNCHANGED <<queue, readFiles, clock, shared, cache, saved, primeLock, stopEvent,
                   todo, snap, cur, raced, contended>>

(* self._autobug_prime_thread.start() reads the attribute again: the       *)
(* object found there may have been started, or cleared by the shutdown.   *)
KickStart(c) ==
    /\ pc[c] = "start"
    /\ Unstarted # {}
    /\ wpc' = [wpc EXCEPT ![thread] = "entry"]
    /\ pc' = [pc EXCEPT ![c] = "idle"]
    /\ UNCHANGED <<queue, readFiles, clock, shared, cache, saved, primeLock, thread,
                   stopEvent, todo, batch, wbatch, snap, cur, history>>

(* The monitor logs the exception and goes on; the plateau loop ends.      *)
KickStartFails(c) ==
    /\ pc[c] = "start"
    /\ Unstarted = {}
    /\ pc' = [pc EXCEPT ![c] = IF c = "monitor" THEN "idle" ELSE "stopped"]
    /\ stopEvent' = (stopEvent \/ c = "main")
    /\ UNCHANGED <<queue, readFiles, clock, shared, cache, saved, primeLock, thread,
                   todo, batch, workers, cur, history>>

----------------------------------------------------------------------------
(* The priming thread: _run_autobug_prime_batch.                           *)
WorkerNoAnalyzer(w) ==
    /\ "noAnalyzer" \in Faults
    /\ wpc[w] = "entry"
    /\ lost' = lost \cup wbatch[w]
    /\ wbatch' = [wbatch EXCEPT ![w] = {}]
    /\ wpc' = [wpc EXCEPT ![w] = "exit"]
    /\ UNCHANGED <<queue, readFiles, clock, shared, cache, saved, primeLock, thread,
                   stopEvent, callers, snap, cur, raced, contended>>

WorkerFilter(w) ==
    /\ wpc[w] = "entry"
    /\ wbatch' = [wbatch EXCEPT ![w] = @ \ Cached]
    /\ wpc' = [wpc EXCEPT ![w] = IF wbatch[w] \subseteq Cached THEN "exit"
                                                             ELSE "work"]
    /\ UNCHANGED <<queue, readFiles, clock, shared, cache, saved, primeLock, thread,
                   stopEvent, callers, snap, cur, history>>

(* _load_autobug_seed_branches: the cache is consulted under its lock, the *)
(* replay itself holds none.  +cov names come first.                       *)
NeedsReplay(s) == s \notin Cached

BeginReplay(l, s) ==
    /\ cur' = [cur EXCEPT ![l] = s]
    /\ contended' = IF \E k \in Loader \ {l} : cur[k] = s
                      THEN contended \cup {s} ELSE contended

FirstIn(b, s) == s \in b /\ (s \in CovSeed \/ b \cap CovSeed = {})

WorkerLoadsCached(w, s) ==
    /\ wpc[w] = "work" /\ FirstIn(wbatch[w], s) /\ s \in Cached
    /\ wbatch' = [wbatch EXCEPT ![w] = @ \ {s}]
    /\ UNCHANGED <<queue, readFiles, clock, shared, cache, saved, primeLock, thread,
                   stopEvent, callers, wpc, snap, cur, history>>

WorkerLoads(w, s) ==
    /\ wpc[w] = "work" /\ FirstIn(wbatch[w], s) /\ NeedsReplay(s)
    /\ BeginReplay(w, s)
    /\ wpc' = [wpc EXCEPT ![w] = "replay"]
    /\ UNCHANGED <<queue, readFiles, clock, shared, cache, saved, primeLock, thread,
                   stopEvent, callers, wbatch, snap, lost, raced>>

(* A timeout, a failed run or a failed get-branch stores None; a good one  *)
(* stores the parsed branches.  Either replaces what is there.             *)
WorkerStores(w) ==
    /\ wpc[w] = "replay"
    /\ \E v \in {"none", "parsed"} : cache' = [cache EXCEPT ![cur[w]] = v]
    /\ wbatch' = [wbatch EXCEPT ![w] = @ \ {cur[w]}]
    /\ cur' = [cur EXCEPT ![w] = NoSeed]
    /\ wpc' = [wpc EXCEPT ![w] = "work"]
    /\ UNCHANGED <<queue, readFiles, clock, shared, saved, primeLock, thread, stopEvent,
                   callers, snap, history>>

(* An exception nobody catches (get-branch missing, the seed unreadable)   *)
(* ends the thread: the rest of its batch is gone and nothing is saved.    *)
WorkerDies(w) ==
    /\ "exception" \in Faults
    /\ wpc[w] = "replay"
    /\ lost' = lost \cup wbatch[w]
    /\ wbatch' = [wbatch EXCEPT ![w] = {}]
    /\ cur' = [cur EXCEPT ![w] = NoSeed]
    /\ wpc' = [wpc EXCEPT ![w] = "free"]
    /\ UNCHANGED <<queue, readFiles, clock, shared, cache, saved, primeLock, thread,
                   stopEvent, callers, snap, raced, contended>>

(* _save_persisted_autobug_branch_cache copies the cache, then write_text  *)
(* truncates the file and fills it.                                        *)
WorkerSaveOpens(w) ==
    /\ wpc[w] = "work" /\ wbatch[w] = {}
    /\ snap' = [snap EXCEPT ![w] = cache]
    /\ saved' = [torn |-> TRUE, of |-> Empty]
    /\ wpc' = [wpc EXCEPT ![w] = "save"]
    /\ UNCHANGED <<queue, readFiles, clock, shared, cache, primeLock, thread, stopEvent,
                   callers, wbatch, cur, history>>

(* Over a file that another thread filled since, the shorter text may      *)
(* leave the tail of the longer one behind.                                *)
WorkerSaveWrites(w) ==
    /\ wpc[w] = "save"
    /\ \/ saved' = [torn |-> FALSE, of |-> snap[w]]
       \/ ~saved.torn /\ saved' = [torn |-> TRUE, of |-> Empty]
    /\ snap' = [snap EXCEPT ![w] = Empty]
    /\ wpc' = [wpc EXCEPT ![w] = "exit"]
    /\ UNCHANGED <<queue, readFiles, clock, shared, cache, primeLock, thread, stopEvent,
                   callers, wbatch, cur, history>>

(* The thread takes the prime lock once more to report the backlog.        *)
WorkerExits(w) ==
    /\ wpc[w] = "exit" /\ primeLock = "free"
    /\ wpc' = [wpc EXCEPT ![w] = "free"]
    /\ UNCHANGED <<queue, readFiles, clock, shared, cache, saved, primeLock, thread,
                   stopEvent, callers, wbatch, snap, cur, history>>

----------------------------------------------------------------------------
(* The plateau loop replays a seed itself when it needs the coverage of a  *)
(* recent seed that cond_status does not know.                             *)
MainLoads(s) ==
    /\ pc["main"] = "idle" /\ s \in queue /\ NeedsReplay(s)
    /\ BeginReplay("main", s)
    /\ pc' = [pc EXCEPT !["main"] = "replay"]
    /\ UNCHANGED <<queue, readFiles, clock, shared, cache, saved, primeLock, thread,
                   stopEvent, todo, batch, workers, lost, raced>>

MainStores ==
    /\ pc["main"] = "replay"
    /\ \E v \in {"none", "parsed"} : cache' = [cache EXCEPT ![cur["main"]] = v]
    /\ cur' = [cur EXCEPT !["main"] = NoSeed]
    /\ pc' = [pc EXCEPT !["main"] = "idle"]
    /\ UNCHANGED <<queue, readFiles, clock, shared, saved, primeLock, thread, stopEvent,
                   todo, batch, workers, history>>

MainLoadFails ==
    /\ "exception" \in Faults
    /\ pc["main"] = "replay"
    /\ cur' = [cur EXCEPT !["main"] = NoSeed]
    /\ pc' = [pc EXCEPT !["main"] = "stopped"]
    /\ stopEvent' = TRUE
    /\ UNCHANGED <<queue, readFiles, clock, shared, cache, saved, primeLock, thread,
                   todo, batch, workers, history>>

(* A loop leaves at its head: the stop event is set, or it finds the       *)
(* fuzzer dead (or is interrupted) and sets it.                            *)
OnlyMainLooks(c) == stopEvent /\ c = "main"    \* mutant
LoopEnds(c) == stopEvent

Stop(c) ==
    /\ pc[c] = "idle"
    /\ LoopEnds(c) \/ (~stopEvent /\ "stop" \in Faults)
    /\ stopEvent' = TRUE
    /\ pc' = [pc EXCEPT ![c] = "stopped"]
    /\ UNCHANGED <<queue, readFiles, clock, shared, cache, saved, primeLock, thread,
                   todo, batch, workers, cur, history>>

(* main's outer finally: shutdown_background_workers(wait=False).          *)
Shutdown ==
    /\ pc["main"] = "stopped" /\ primeLock = "free"
    /\ thread' = NoWorker
    /\ wpc' = [w \in Worker |-> IF w \in Unstarted THEN "free" ELSE wpc[w]]
    /\ wbatch' = [w \in Worker |-> IF w \in Unstarted THEN {} ELSE wbatch[w]]
    /\ lost' = lost \cup UNION {wbatch[w] : w \in Unstarted}
    /\ pc' = [pc EXCEPT !["main"] = "exited"]
    /\ UNCHANGED <<queue, readFiles, clock, shared, cache, saved, primeLock, stopEvent,
                   todo, batch, snap, cur, raced, contended>>

(* The process ends (daemon threads die with it) or is killed, and a new   *)
(* session starts from the two things on disk.                             *)
ColdStart == Empty                            \* mutant
LoadedCache == IF saved.torn THEN Empty ELSE saved.of

Restart ==
    /\ pc["main"] = "exited" \/ "crash" \in Faults
    /\ cache' = LoadedCache
    /\ readFiles' = [c \in Caller |-> {}]
    /\ watermark' = [c \in Caller |-> 0]
    /\ deque' = {} /\ tail' = 0 /\ pendingSet' = {}
    /\ primeLock' = "free" /\ thread' = NoWorker /\ stopEvent' = FALSE
    /\ pc' = [c \in Caller |-> "idle"]
    /\ todo' = [c \in Caller |-> {}]
    /\ batch' = [c \in Caller |-> {}]
    /\ wpc' = [w \in Worker |-> "free"]
    /\ wbatch' = [w \in Worker |-> {}]
    /\ snap' = [w \in Worker |-> Empty]
    /\ cur' = [l \in Loader |-> NoSeed]
    /\ lost' = {} /\ raced' = FALSE /\ contended' = {}
    /\ UNCHANGED <<queue, stamp, saved>>

----------------------------------------------------------------------------
CallerStep(c) ==
    \/ Scan(c) \/ ScanAborts(c) \/ (\E s \in Seed : Enqueue(c, s))
    \/ KickBusy(c) \/ KickCheck(c) \/ KickSelect(c)
    \/ KickAssign(c) \/ KickStart(c) \/ KickStartFails(c) \/ Stop(c)

MainStep == (\E s \in Seed : MainLoads(s)) \/ MainStores \/ MainLoadFails \/ Shutdown

WorkerStep(w) ==
    \/ WorkerNoAnalyzer(w) \/ WorkerFilter(w)
    \/ (\E s \in Seed : WorkerLoadsCached(w, s) \/ WorkerLoads(w, s))
    \/ WorkerStores(w) \/ WorkerDies(w)
    \/ WorkerSaveOpens(w) \/ WorkerSaveWrites(w) \/ WorkerExits(w)

Next ==
    \/ \E s \in Seed : AflAdds(s) \/ AflRewrites(s)
    \/ \E c \in Caller : CallerStep(c)
    \/ MainStep
    \/ \E w \in Worker : WorkerStep(w)
    \/ Restart

Spec == Init /\ [][Next]_vars

----------------------------------------------------------------------------
(* Every name a scanner has marked read is still somewhere: waiting to be  *)
(* enqueued, pending, in a batch on its way to a thread, in a thread's     *)
(* batch, or in the cache; otherwise one of the named losses took it.      *)
(* Neither scanner will ever hand that name over again, so a name that is  *)
(* nowhere is never replayed in this session.                              *)
InHand(s) ==
    \/ \E c \in Caller : s \in todo[c] \/ s \in batch[c]
    \/ \E e \in deque : e.seed = s
    \/ \E w \in Worker : s \in wbatch[w]
    \/ s \in Cached
    \/ s \in lost

Accounted == \A c \in Caller : \A s \in readFiles[c] : InHand(s)

(* The deque and the set that guards it against duplicates stay in step    *)
(* although they are updated by two callers and drained by a third path,   *)
(* and the deque never holds a name, or a position, twice.                 *)
PendingConsistent ==
    /\ Pending = pendingSet
    /\ \A d, e \in deque : d.seed = e.seed \/ d.at = e.at => d = e

(* Priming is serial ("already running") as long as no two kicks overlap   *)
(* between the liveness check and the start: at most one thread object has *)
(* been created and not ended.                                             *)
SerialPriming ==
    ~raced /\ pc["main"] # "exited" =>
        \A v, w \in Worker : wpc[v] # "free" /\ wpc[w] # "free" => v = w

(* A thread replays a seed whose verdict is already cached (and is about   *)
(* to overwrite that verdict) only if two threads replayed that seed at    *)
(* the same time.                                                          *)
RedundantReplay ==
    \A l \in Loader : cur[l] \in Cached => cur[l] \in contended

(* No work is done twice but for these: there is one priming thread unless *)
(* two kicks overlap, and one verdict for a seed unless two replays do.    *)
NoDoubleWork == SerialPriming /\ RedundantReplay

(* Whatever seed_branches.json promises the next session is in the cache   *)
(* of this one: no save resurrects a name and no load forgets one.         *)
PersistedIsCached ==
    ~saved.torn => \A s \in Seed : saved.of[s] # "absent" => s \in Cached

----------------------------------------------------------------------------
(* Fairness.  The threads are scheduled; a lock that is free again and     *)
(* again is obtained (the plateau loop spends its cycles in LLM calls, not *)
(* under the lock); replays end (30 s timeout on the subject; get-branch   *)
(* has none and is assumed to terminate).  AFL, faults, the direct loads   *)
(* of the plateau loop and its decision to scan are not forced.            *)
CallerProgress(c) ==
    \/ \E s \in Seed : Enqueue(c, s)
    \/ KickBusy(c) \/ KickCheck(c) \/ KickSelect(c)
    \/ KickAssign(c) \/ KickStart(c) \/ KickStartFails(c)
    \/ stopEvent /\ Stop(c)

Fairness ==
    /\ \A c \in Caller : SF_vars(CallerProgress(c))
    /\ SF_vars(Scan("monitor"))
    /\ SF_vars(MainStores \/ Shutdown)
    /\ \A w \in Worker : SF_vars(WorkerStep(w))

FairSpec == Spec /\ Fairness

(* A file that the monitor will never take for new although it has not     *)
(* read it: one no younger than the youngest it saw in its last scan.      *)
Overlooked(s) == s \in Unread("monitor") /\ stamp[s] <= watermark["monitor"]

(* A file in the queue is eventually discovered, enqueued, batched and     *)
(* given a verdict (or its batch is lost to two racing kicks, its name to  *)
(* an aborted scan), unless the session is stopped first or the file came  *)
(* with a stamp the monitor's watermark had reached already.               *)
EveryFileReplayed ==
    \A s \in Seed :
        s \in queue ~> s \in Cached \cup lost \/ Overlooked(s) \/ stopEvent

(* Once the stop event is set both loops end.                              *)
StopEndsLoops ==
    stopEvent ~> ~stopEvent \/ (pc["monitor"] = "stopped" /\ pc["main"] = "exited")
=============================================================================
