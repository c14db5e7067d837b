---------------------------- MODULE SeedRewards ----------------------------
(***************************************************************************)
(* The reward feedback of CoverageTracer.py: the roadblock a seed was      *)
(* generated for is registered under "queue:id"; when AFL imports the seed *)
(* and calls it new coverage, the scan of AFL's queue credits the          *)
(* roadblock once, in memory and in an append-only feed.                   *)
(*                                                                         *)
(* Two threads write the state file: the one that registers ("main") and   *)
(* the seed monitor, which saves after a scan that applied a reward.  Each *)
(* copies the tables, then truncates and fills the file; only the copy of  *)
(* the origins is taken under a lock.                                      *)
(*                                                                         *)
(* Abstractions.  A seed stands for its slot "queue:id" and for the name   *)
(* AFL gives its import; ids are not reused.  The read set of the scan and *)
(* its watermark are in memory, so a new process scans the whole queue     *)
(* again.  A time stamp is older or younger than the watermark, no more is *)
(* told apart.  Two writes that overlap leave the copy of either writer or *)
(* a file that does not parse.                                             *)
(***************************************************************************)
EXTENDS Naturals

CONSTANTS
    Seed,        \* generated seeds
    CovSeed,     \* those whose import AFL names "+cov"
    Roadblock,   \* roadblock keys
    None,        \* no roadblock
    MaxKills     \* bound on the number of kills

ASSUME RewardAssumption ==
    CovSeed \subseteq Seed /\ None \notin Roadblock /\ MaxKills \in Nat

Saver == {"main", "monitor"}

VARIABLES
    origin,      \* _seed_origin_map
    rewarded,    \* _rewarded_sync_ids
    feed,        \* how often a seed is in the reward feed
    interest,    \* rewards of a roadblock in _interesting_conds
    file,        \* seed_reward_state.json
    queue,       \* imports in AFL's queue directory
    below,       \* those whose file is no younger than the watermark
    watermark,   \* a scan of this process has set the watermark
    read,        \* the read set of the monitor's scan
    todo,        \* discovered names the scan has not looked at
    applied,     \* the scan has applied a reward
    doing,          \* what each thread does
    copy,        \* what a saver is about to write
    kills,       \* history: kills so far
    unsaved,     \* history: kills that found the seed fed and not on file
    early,       \* history: seeds registered before they were imported
    raced,       \* history: two saves overlapped, or a kill left the file torn
    mislaid,     \* history: seeds whose origin a kill found only in memory
    dropped,     \* history: names a scan of this process read and then lost
    unfed        \* history: rewarded seeds whose line did not get into the feed

state == <<origin, rewarded, feed, interest>>
scan == <<queue, below, watermark, read, todo, applied>>
losses == <<dropped, unfed>>
history == <<kills, unsaved, early, raced, mislaid, losses>>
rewardVars == <<state, file, scan, doing, copy, history>>

NoOrigin == [s \in Seed |-> None]
Tables == [origin : [Seed -> Roadblock \cup {None}], rewarded : SUBSET Seed]
Blank == [origin |-> NoOrigin, rewarded |-> {}]

RewardTypeOK ==
    /\ origin \in [Seed -> Roadblock \cup {None}] /\ rewarded \subseteq Seed
    /\ feed \in [Seed -> Nat] /\ interest \in [Roadblock -> Nat]
    /\ file \in [torn : BOOLEAN, of : Tables]
    /\ queue \subseteq Seed /\ read \subseteq Seed /\ todo \subseteq Seed
    /\ below \subseteq Seed /\ watermark \in BOOLEAN /\ applied \in BOOLEAN
    /\ doing \in [Saver -> {"idle", "detect", "copy", "open", "write"}]
    /\ copy \in [Saver -> Tables]
    /\ kills \in Nat /\ unsaved \in [Seed -> Nat]
    /\ early \subseteq Seed /\ raced \in BOOLEAN /\ mislaid \subseteq Seed
    /\ dropped \subseteq Seed /\ unfed \subseteq Seed

InitRewards ==
    /\ origin = NoOrigin /\ rewarded = {}
    /\ feed = [s \in Seed |-> 0] /\ interest = [r \in Roadblock |-> 0]
    /\ file = [torn |-> FALSE, of |-> Blank]
    /\ queue = {} /\ read = {} /\ todo = {} /\ applied = FALSE
    /\ below = {} /\ watermark = FALSE
    /\ doing = [t \in Saver |-> "idle"] /\ copy = [t \in Saver |-> Blank]
    /\ kills = 0 /\ unsaved = [s \in Seed |-> 0] /\ early = {}
    /\ raced = FALSE /\ mislaid = {} /\ dropped = {} /\ unfed = {}

----------------------------------------------------------------------------
(* AFL imports a generated seed, registered or not: it polls the sync      *)
(* directory on its own.  A file that appears while a scan looks at the    *)
(* others, or in the tick of the youngest of them, is no younger than the  *)
(* watermark.                                                              *)
AflImports(s) ==
    /\ s \notin queue
    /\ queue' = queue \cup {s}
    /\ \/ UNCHANGED below
       \/ watermark /\ below' = below \cup {s}
    /\ early' = IF origin[s] # None THEN early \cup {s} ELSE early
    /\ UNCHANGED <<state, file, watermark, read, todo, applied, doing, copy, kills, unsaved,
                   raced, mislaid, losses>>

(* AFL trims a test case: it unlinks its file and writes it anew.  That    *)
(* matters for a name the scan has not read.                               *)
AflRewrites(s) ==
    /\ s \in below \ read /\ below' = below \ {s}
    /\ UNCHANGED <<state, file, queue, watermark, read, todo, applied, doing, copy, history>>

(* register_generated_seed, up to its save                                 *)
Register(s, r) ==
    /\ doing["main"] = "idle" /\ origin[s] = None
    /\ origin' = [origin EXCEPT ![s] = r]
    /\ doing' = [doing EXCEPT !["main"] = "copy"]
    /\ UNCHANGED <<rewarded, feed, interest, file, scan, copy, history>>

(* poll_autobug_seed_queue, get_new_seeds: what it has not read and finds  *)
(* younger than its watermark is read and looked at; the watermark rises   *)
(* to the youngest file it saw.  A file AFL is rewriting is not listed.    *)
NewNames == queue \ (read \cup below)

Scan ==
    /\ doing["monitor"] = "idle"
    /\ \E unlisted \in SUBSET queue :
         /\ todo' = NewNames \ unlisted
         /\ below' = (below \cup queue) \ (unlisted \ below)
    /\ read' = read \cup todo' /\ watermark' = TRUE /\ applied' = FALSE
    /\ doing' = IF todo' = {} THEN doing ELSE [doing EXCEPT !["monitor"] = "detect"]
    /\ UNCHANGED <<state, file, queue, copy, history>>

(* A file is gone at the second stat: the names marked before it stay      *)
(* marked and are looked at by nobody, the error is swallowed and the      *)
(* watermark stays where it was.                                           *)
ScanAborts ==
    /\ doing["monitor"] = "idle"
    /\ \E marked \in SUBSET NewNames :
         /\ marked # {}
         /\ read' = read \cup marked /\ dropped' = dropped \cup marked
    /\ UNCHANGED <<state, file, queue, below, watermark, todo, applied, doing, copy,
                   kills, unsaved, early, raced, mislaid, unfed>>

(* _detect_and_apply_rewards, one name: which of them earn a reward        *)
FirstOnly(s) == s \in CovSeed \ rewarded /\ origin[s] # None /\ ~applied   \* mutant
Earns(s) == s \in CovSeed /\ s \notin rewarded /\ origin[s] # None

Skip(s) ==
    /\ doing["monitor"] = "detect" /\ s \in todo /\ ~Earns(s)
    /\ todo' = todo \ {s}
    /\ UNCHANGED <<state, file, queue, below, watermark, read, applied, doing, copy, history>>

(* _apply_seed_reward; if the feed cannot be written, that is only logged  *)
(* and the seed stays among the rewarded.                                  *)
Reward(s) ==
    /\ doing["monitor"] = "detect" /\ s \in todo /\ Earns(s)
    /\ todo' = todo \ {s} /\ applied' = TRUE
    /\ rewarded' = rewarded \cup {s}
    /\ interest' = [interest EXCEPT ![origin[s]] = @ + 1]
    /\ \/ feed' = [feed EXCEPT ![s] = @ + 1] /\ UNCHANGED unfed
       \/ unfed' = unfed \cup {s} /\ UNCHANGED feed
    /\ UNCHANGED <<origin, file, queue, below, watermark, read, doing, copy,
                   kills, unsaved, early, raced, mislaid, dropped>>

ScanEnds ==
    /\ doing["monitor"] = "detect" /\ todo = {}
    /\ doing' = [doing EXCEPT !["monitor"] = IF applied THEN "copy" ELSE "idle"]
    /\ UNCHANGED <<state, file, scan, copy, history>>

(* _save_seed_origin_map: copy, truncate, fill                             *)
Copies(t) ==
    /\ doing[t] = "copy"
    /\ copy' = [copy EXCEPT ![t] = [origin |-> origin, rewarded |-> rewarded]]
    /\ doing' = [doing EXCEPT ![t] = "open"]
    /\ raced' = (raced \/ \E u \in Saver \ {t} : doing[u] \in {"open", "write"})
    /\ UNCHANGED <<state, file, scan, kills, unsaved, early, mislaid, losses>>

Opens(t) ==
    /\ doing[t] = "open"
    /\ file' = [file EXCEPT !.torn = TRUE]
    /\ doing' = [doing EXCEPT ![t] = "write"]
    /\ UNCHANGED <<state, scan, copy, history>>

RewardedOnly(t) == [copy[t] EXCEPT !.origin = NoOrigin]                \* mutant
Payload(t) == copy[t]

(* What the file holds when a writer closes it: another writer that has    *)
(* the file open may have left its bytes behind or in between.             *)
Writes(t) ==
    /\ doing[t] = "write"
    /\ doing' = [doing EXCEPT ![t] = "idle"]
    /\ IF \E u \in Saver \ {t} : doing[u] = "write"
       THEN \E torn \in BOOLEAN : file' = [torn |-> torn, of |-> Payload(t)]
       ELSE file' = [torn |-> FALSE, of |-> Payload(t)]
    /\ copy' = [copy EXCEPT ![t] = Blank]
    /\ UNCHANGED <<state, scan, history>>

(* The process is killed; the next one loads the file, if it parses        *)
(* (_load_seed_origin_map).                                                *)
OnFile == IF file.torn THEN Blank ELSE file.of

Killed ==
    /\ kills < MaxKills /\ kills' = kills + 1
    /\ origin' = OnFile.origin /\ rewarded' = OnFile.rewarded
    /\ interest' = [r \in Roadblock |-> 0]
    /\ read' = {} /\ todo' = {} /\ applied' = FALSE
    /\ below' = {} /\ watermark' = FALSE
    /\ doing' = [t \in Saver |-> "idle"] /\ copy' = [t \in Saver |-> Blank]
    /\ unsaved' = [s \in Seed |->
                     IF s \in rewarded \ OnFile.rewarded THEN unsaved[s] + 1 ELSE unsaved[s]]
    /\ mislaid' = mislaid \cup {s \in Seed : OnFile.origin[s] # origin[s]}
    /\ raced' = file.torn
    /\ dropped' = {} /\ unfed' = unfed \cap OnFile.rewarded
    /\ UNCHANGED <<feed, file, queue, early>>

Monitor == Scan \/ (\E s \in Seed : Skip(s) \/ Reward(s)) \/ ScanEnds
             \/ Copies("monitor") \/ Opens("monitor") \/ Writes("monitor")
Main == Copies("main") \/ Opens("main") \/ Writes("main")

NextReward ==
    \/ \E s \in Seed : AflImports(s) \/ AflRewrites(s) \/ \E r \in Roadblock : Register(s, r)
    \/ ScanAborts \/ Monitor \/ Main
    \/ Killed

RewardSpec == InitRewards /\ [][NextReward]_rewardVars
LiveRewardSpec == RewardSpec /\ WF_rewardVars(Monitor) /\ WF_rewardVars(Main)

----------------------------------------------------------------------------
(* A seed enters the feed a second time only after a kill that found it    *)
(* fed but not yet among the rewarded ids on file: the rescan of the whole *)
(* queue after a restart rewards nothing twice by itself.                  *)
FedOnce == \A s \in Seed : feed[s] <= 1 + unsaved[s]

(* When no save is under way, none overlapped another and no kill left the *)
(* file torn, it parses and holds both tables: neither thread's save takes *)
(* back what the other one saved.                                          *)
SavesKeepBoth ==
    (\A t \in Saver : doing[t] = "idle") /\ ~raced
        => file = [torn |-> FALSE, of |-> [origin |-> origin, rewarded |-> rewarded]]

(* Rewards are given once and known on file: the feed has no second entry  *)
(* and the file no older table than a kill or an overlap accounts for.     *)
RewardsAgree == FedOnce /\ SavesKeepBoth

(* What the session will not look at: a file that came no younger than the *)
(* watermark, until AFL rewrites it, and a name an aborted scan dropped.   *)
Overlooked(s) == s \in below \ read \/ s \in dropped

(* A +cov seed registered before its import and not overlooked is in the   *)
(* feed one day, through the kills that interrupt its scan, unless its     *)
(* line could not be written, a scan drops its name or a kill finds its    *)
(* origin only in memory; a new process starts with nothing overlooked.    *)
RewardArrives ==
    \A s \in CovSeed :
        s \in early /\ ~Overlooked(s)
            ~> feed[s] > 0 \/ s \in unfed \/ s \in dropped \/ s \in mislaid
=============================================================================
