-------------------------- MODULE AttemptScheduler --------------------------
(***************************************************************************)
(* attempt_scheduler.py: the table from which one path of the plateau loop *)
(* picks the roadblock to try next.  An operation changes the table in     *)
(* memory and ends by rewriting the state file: write_text truncates the   *)
(* file and then fills it, and the process may be killed at any point.     *)
(*                                                                         *)
(* Abstractions.  A key without an entry has the default the code reads    *)
(* for it, 0.  Scores are counted in half points and are relative to the   *)
(* base score all candidates of one path share.  Time is counted in        *)
(* minutes, and a cooldown deadline is the time that is left to it.        *)
(***************************************************************************)
EXTENDS Integers

CONSTANTS
    Key,         \* candidate keys
    None,        \* no key
    Results,     \* results that are recorded, {} if nobody records any
    MaxPicks     \* bound on the number of times a key is picked

Outcome == {"breakthrough", "success", "attempted", "not_attempted"}

ASSUME SchedulerAssumption ==
    None \notin Key /\ MaxPicks \in Nat /\ Results \subseteq Outcome

VARIABLES
    mem,         \* interesting_scores, failure_counts, cooldown_until,
                 \* selection_counts and last_selected_key
    disk,        \* what the state file last held
    readable,    \* whether the file parses
    phase,       \* the operation in progress and how far it is
    writing,     \* the file is open and truncated
    cand,        \* the candidates of the last sync
    inHand,      \* the candidate that was selected and not recorded
    \* history
    owed,        \* time a key has to rest, by the results it had
    streak,      \* failures in a row a key had
    forgot,      \* keys whose results a sync or a crash dropped
    steady       \* keys offered by every sync and not recorded since Fresh

history == <<owed, streak, forgot, steady>>
schedVars == <<mem, disk, readable, phase, writing, cand, inHand, history>>

Zero == [k \in Key |-> 0]
Fresh == [score |-> Zero, fails |-> Zero, cool |-> Zero, picks |-> Zero, last |-> None]
Table == [score : [Key -> Int], fails : [Key -> Nat], cool : [Key -> Nat],
          picks : [Key -> Nat], last : Key \cup {None}]
Phase == {"rest", "sync", "offer", "pick", "record"}

TypeOK ==
    /\ mem \in Table /\ disk \in Table
    /\ readable \in BOOLEAN /\ writing \in BOOLEAN
    /\ phase \in Phase
    /\ cand \subseteq Key
    /\ inHand \in Key \cup {None}
    /\ owed \in [Key -> Nat] /\ streak \in [Key -> Nat]
    /\ forgot \subseteq Key /\ steady \subseteq Key

Init ==
    /\ mem = Fresh /\ disk = Fresh /\ readable = FALSE
    /\ phase = "rest" /\ writing = FALSE
    /\ cand = {} /\ inHand = None
    /\ owed = Zero /\ streak = Zero /\ forgot = {} /\ steady = Key

----------------------------------------------------------------------------
(* sync_candidates: what is known of a key that is not offered is dropped. *)
Kept(t, C) ==
    LET Of(f) == [k \in Key |-> IF k \in C THEN f[k] ELSE 0]
    IN  [score |-> Of(t.score), fails |-> Of(t.fails), cool |-> Of(t.cool),
         picks |-> Of(t.picks), last |-> IF t.last \in C THEN t.last ELSE None]

Sync(C) ==
    /\ phase = "rest"
    /\ mem' = Kept(mem, C)
    /\ cand' = C
    /\ inHand' = None
    /\ forgot' = forgot \cup (Key \ C)
    /\ steady' = steady \cap C
    /\ phase' = "sync"
    /\ UNCHANGED <<disk, readable, writing, owed, streak>>

(* _save                                                                   *)
SaveOpens ==
    /\ phase \in {"sync", "pick", "record"} /\ ~writing
    /\ writing' = TRUE /\ readable' = FALSE
    /\ UNCHANGED <<mem, disk, phase, cand, inHand, history>>

WithoutLast == [mem EXCEPT !.last = None]                              \* mutant
FileContents == mem

SaveWrites ==
    /\ writing
    /\ disk' = FileContents
    /\ writing' = FALSE /\ readable' = TRUE
    /\ phase' = IF phase = "sync" THEN "offer" ELSE "rest"
    /\ inHand' = IF phase = "record" THEN None ELSE inHand
    /\ UNCHANGED <<mem, cand, history>>

(* select_candidate                                                        *)
Eligible == {k \in cand : mem.cool[k] = 0}
Ready == IF Eligible # {} THEN Eligible ELSE cand
CoolingToo == IF cand \ {mem.last} # {} THEN cand \ {mem.last} ELSE cand   \* mutant
Pool == IF Ready \ {mem.last} # {} THEN Ready \ {mem.last} ELSE Ready

ScoreOnly(j, k) == mem.score[j] > mem.score[k]                         \* mutant
Better(j, k) ==
    \/ mem.score[j] > mem.score[k]
    \/ /\ mem.score[j] = mem.score[k]
       /\ \/ mem.fails[j] < mem.fails[k]
          \/ mem.fails[j] = mem.fails[k] /\ mem.picks[j] < mem.picks[k]

Select(k) ==
    /\ phase = "offer" /\ k \in Pool
    /\ \A j \in Pool : ~Better(j, k)
    /\ mem.picks[k] < MaxPicks
    /\ mem' = [mem EXCEPT !.picks[k] = @ + 1, !.last = k]
    /\ inHand' = k
    /\ phase' = "pick"
    /\ UNCHANGED <<disk, readable, writing, cand, history>>

SelectNothing ==
    /\ phase = "offer" /\ cand = {}
    /\ phase' = "rest"
    /\ UNCHANGED <<mem, disk, readable, writing, cand, inHand, history>>

(* record_result                                                           *)
Cooldown(n) == IF n < 2 THEN 1 ELSE IF n > 5 THEN 30 ELSE <<1, 2, 4, 8, 16>>[n]
Rest(o, n) == CASE o = "breakthrough" -> 10
                [] o = "success" -> 5
                [] o = "attempted" -> Cooldown(n)
                [] OTHER -> Cooldown(n + 1)
Penalty(o) == CASE o = "breakthrough" -> 6
                [] o = "success" -> 4
                [] o = "attempted" -> 3
                [] OTHER -> 5

Failures(f, o) == IF o \in {"breakthrough", "success"} THEN 0 ELSE f + 1

Record(o) ==
    /\ phase = "rest" /\ inHand # None
    /\ LET k == inHand
           f == Failures(mem.fails[k], o)
           n == IF o \in {"breakthrough", "success"} THEN 0
                ELSE IF k \in forgot THEN 1 ELSE streak[k] + 1
       IN  /\ mem' = [mem EXCEPT !.score[k] = @ - Penalty(o), !.fails[k] = f,
                                 !.cool[k] = Rest(o, f)]
           /\ streak' = [streak EXCEPT ![k] = n]
           /\ owed' = [owed EXCEPT ![k] = Rest(o, n)]
           /\ forgot' = forgot \ {k}
           /\ steady' = steady \ {k}
    /\ phase' = "record"
    /\ UNCHANGED <<disk, readable, writing, cand, inHand>>

----------------------------------------------------------------------------
Down(f) == [k \in Key |-> IF f[k] > 0 THEN f[k] - 1 ELSE 0]

(* A minute passes.                                                        *)
Tick ==
    /\ \E k \in Key : mem.cool[k] > 0 \/ disk.cool[k] > 0 \/ owed[k] > 0
    /\ mem' = [mem EXCEPT !.cool = Down(@)]
    /\ disk' = [disk EXCEPT !.cool = Down(@)]
    /\ owed' = Down(owed)
    /\ UNCHANGED <<readable, phase, writing, cand, inHand, streak, forgot, steady>>

(* The process dies and a new one loads the file, if it parses (_load).    *)
Loaded == IF readable THEN disk ELSE Fresh

Killed ==
    /\ mem' = Loaded
    /\ forgot' = IF ~readable THEN Key
                 ELSE IF phase = "record" THEN forgot \cup {inHand} ELSE forgot
    /\ steady' = IF readable THEN steady ELSE Key
    /\ phase' = "rest" /\ writing' = FALSE
    /\ cand' = {} /\ inHand' = None
    /\ UNCHANGED <<disk, readable, owed, streak>>

Next ==
    \/ \E C \in SUBSET Key : Sync(C)
    \/ SaveOpens \/ SaveWrites
    \/ \E k \in Key : Select(k)
    \/ SelectNothing
    \/ \E o \in Results : Record(o)
    \/ Tick \/ Killed

Spec == Init /\ [][Next]_schedVars

----------------------------------------------------------------------------
(* Between operations, and between sync and select, the file holds what    *)
(* the memory holds: no operation returns before its change is saved.      *)
Durable == phase \in {"rest", "offer"} /\ readable => disk = mem

(* The keys that every sync offered, and no result penalised, take turns:  *)
(* none is picked twice more often than another, whatever other keys come  *)
(* and go.                                                                 *)
FairRotation == \A j, k \in steady : mem.picks[j] <= mem.picks[k] + 1

(* A key is picked before its penalty is over only if a sync without it or *)
(* a crash dropped its results, or if every candidate is cooling down.     *)
Picks(k) == phase = "offer" /\ phase' = "pick" /\ inHand' = k
NoEarlyRetry ==
    [][\A k \in Key : Picks(k) => \/ owed[k] = 0
                                  \/ k \in forgot
                                  \/ \A j \in cand : mem.cool[j] > 0]_schedVars
=============================================================================
