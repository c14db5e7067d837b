--------------------------- MODULE SeedGeneration ---------------------------
(***************************************************************************)
(* How a script written by the LLM becomes a seed: extract_and_test and    *)
(* mutate_and_test of main.py, the runs and moves of LLM/LLMUtil.py, the   *)
(* queue names of config.py and the gate that judges the result, beside    *)
(* AFL, which imports the queues by ascending id on a schedule of its own. *)
(*                                                                         *)
(* A run allots the next id of the target queue and executes the script    *)
(* with that path.  The script may write a file there, or a directory, or  *)
(* nothing, and may leave other files in its working directory: these are  *)
(* moved to the side queue, then a directory is flattened into the target  *)
(* queue.  For direct generation both queues are LLM/queue; the directory  *)
(* has an id there that is not counted, so that its first file takes the   *)
(* name of a leftover moved before it.                                     *)
(*                                                                         *)
(* Abstractions.  A file name is its id and its aux number (NoAux without  *)
(* one): path, roadblock and suffix are the same for all runs of a call.   *)
(* Contents are members of a small set.  A script that times out leaves    *)
(* what it wrote, a directory too.  The loops count with the code's limits *)
(* as constants.                                                           *)
(***************************************************************************)
EXTENDS Integers, FiniteSets, FiniteSetsExt

CONSTANTS
    Data,        \* contents of a seed
    Empty,       \* the content of an empty file, in Data
    Settings     \* the calls a session makes, see Setting

NoAux == -1
Kinds == {"none", "file", "dir"}

(* What is fixed for a session: the contents its scripts write; those      *)
(* above the size limit of the gate; whether target and side queue are one *)
(* directory (direct generation); extract_and_test or mutate_and_test;     *)
(* ~SEED_GATE_DISABLE_REJECT; what a script leaves (output and leftovers); *)
(* the limits on repairs (3 and 3 in the code) and regenerations (2); and  *)
(* the bound of the model: no call begins when an id has reached maxId.    *)
Setting ==
    [data : SUBSET Data, large : SUBSET Data, oneQueue : BOOLEAN, generator : BOOLEAN,
     rejecting : BOOLEAN, layouts : SUBSET (Kinds \X {0, 1}), errMax : Nat, emptyMax : Nat,
     dupMax : Nat, maxId : Nat]

ASSUME GenerationAssumption ==
    /\ IsFiniteSet(Data) /\ Empty \in Data /\ Settings \subseteq Setting
    /\ \A s \in Settings : s.large \subseteq s.data \ {Empty}

VARIABLE setting

OneQueue == setting.oneQueue
Generator == setting.generator
Rejecting == setting.rejecting

Queue == {"target", "side"}
SideQueue == IF OneQueue THEN "target" ELSE "side"
File == [q : Queue, id : Nat, aux : {NoAux, 0, 1}, data : Data]

VARIABLES
    files,       \* regular files in the two queues
    stuck,       \* ids of directories that timed-out scripts left in the target queue
    run,         \* the run in progress: what the script left, new_seed_path's
                 \* id, artifact_paths, promoted_output_paths, the file
                 \* new_seed_path names ({} if none), whether there is stderr
    loop,        \* the loop the run belongs to, err_times,
                 \* empty_file_times, budget spent, file_size = 0
    pc,          \* where the call is
    cursor,      \* per queue: the lowest id AFL still looks at
    imported,    \* files of the queues that AFL has read
    corpus,      \* contents AFL kept in default/queue
    \* history
    made,        \* non-empty contents that were in a queue
    freed,       \* ids of a queue the gate made free again
    replaced     \* files whose name another file took

stored == <<files, imported, made, replaced>>
vars == <<setting, stored, stuck, run, loop, pc, cursor, corpus, freed>>

Name(f) == <<f.q, f.id, f.aux>>
In(q) == {f \in files : f.q = q}
Exists == run.cur # {} /\ run.cur \subseteq files
Contents(F) == {f.data : f \in F} \ {Empty}

NoRun == [dir |-> {}, left |-> {}, target |-> 0, moved |-> {}, promoted |-> {},
          cur |-> {}, stderr |-> FALSE]
FirstLoop == [phase |-> "errors", errs |-> 0, empties |-> 0, dups |-> 0, zero |-> FALSE]

TypeOK ==
    /\ setting \in Settings
    /\ files \subseteq File /\ imported \subseteq files
    /\ run \in [dir : SUBSET Data, left : SUBSET Data, target : Nat, moved : SUBSET File,
                promoted : SUBSET File, cur : SUBSET File, stderr : BOOLEAN]
    /\ loop \in [phase : {"errors", "empty"}, errs : 0 .. setting.errMax, empties : 0 .. setting.emptyMax,
                 dups : 0 .. setting.dupMax, zero : BOOLEAN]
    /\ pc \in {"idle", "run", "move", "promote", "pick", "judge", "gate"}
    /\ cursor \in [Queue -> Nat]
    /\ corpus \subseteq Data /\ made \subseteq Data
    /\ freed \subseteq Queue \X Nat /\ stuck \subseteq Nat /\ replaced \subseteq File

Init ==
    /\ setting \in Settings
    /\ files = {} /\ run = NoRun /\ loop = FirstLoop /\ pc = "idle"
    /\ cursor = [q \in Queue |-> 0] /\ imported = {} /\ corpus = {}
    /\ made = {} /\ freed = {} /\ stuck = {} /\ replaced = {}

----------------------------------------------------------------------------
(* config.next_queue_seed_path: one above the largest id of a regular      *)
(* file, or further if a directory has the name; names with an aux number  *)
(* do not meet one.                                                        *)
Blocked(q) == IF q = "target" THEN stuck ELSE {}
TopId(q) == Max({f.id : f \in In(q)} \cup {-1})
Beyond(n, taken) ==
    CHOOSE m \in n .. Max(taken \cup {n}) + 1 : m \notin taken /\ n .. m - 1 \subseteq taken

ArtifactId(q) == TopId(q) + 1
NextId(q) == Beyond(TopId(q) + 1, Blocked(q))
Room == \A q \in Queue : NextId(q) < setting.maxId

(* shutil.move and a script's write: a file of that name is replaced.      *)
Stored(new) == {g \in files : \A f \in new : Name(g) # Name(f)} \cup new

Goes(to) == pc' = to /\ UNCHANGED <<cursor, corpus>>
Fills(new) ==
    /\ files' = Stored(new) /\ made' = made \cup Contents(new)
    /\ imported' = imported \cap files'
    /\ replaced' = replaced \cup (files \ files')

Call ==
    /\ pc = "idle" /\ Room
    /\ Goes("run") /\ UNCHANGED <<stored, stuck, run, loop, freed>>

(* run_generator, run_mutate_script: the path is allotted and the script   *)
(* runs.  TimeoutExpired becomes ScriptExtractError, which ends the call:  *)
(* the run directory is removed, what is at the target path stays, a       *)
(* directory too.                                                          *)
Script(kind, n, err) ==
    /\ pc = "run"
    /\ \E D, A \in SUBSET setting.data :
         /\ Cardinality(A) = n
         /\ Cardinality(D) \in CASE kind = "none" -> {0} [] kind = "file" -> {1} [] OTHER -> 0 .. 2
         /\ Fills(IF kind = "file"
                  THEN {[q |-> "target", id |-> NextId("target"), aux |-> NoAux, data |-> d] : d \in D}
                  ELSE {})
         /\ \/ /\ run' = [NoRun EXCEPT !.dir = IF kind = "dir" THEN D ELSE {}, !.left = A,
                                       !.target = NextId("target"), !.stderr = err]
               /\ Goes("move") /\ UNCHANGED <<loop, stuck>>
            \/ /\ run' = NoRun /\ loop' = FirstLoop
               /\ stuck' = IF kind = "dir" THEN stuck \cup {NextId("target")} ELSE stuck
               /\ Goes("idle")
    /\ UNCHANGED freed

(* _move_generator_artifacts_to_queue, _move_mutator_artifacts_to_queue    *)
MoveArtifacts ==
    /\ pc = "move"
    /\ LET new == {[q |-> SideQueue, id |-> ArtifactId(SideQueue), aux |-> 0, data |-> d] : d \in run.left}
       IN  /\ Fills(new)
           /\ run' = [run EXCEPT !.moved = new, !.left = {}]
    /\ Goes("promote") /\ UNCHANGED <<stuck, loop, freed>>

(* _promote_directory_output_to_queue: the first file keeps the name of    *)
(* the directory, whatever bears it by now; the next gets an id above the  *)
(* files and the other directories.                                        *)
SecondId == Max({f.id : f \in In("target")} \cup stuck \cup {-1}) + 1
FromZero(d, e) ==                                                      \* mutant
    {[q |-> "target", id |-> run.target, aux |-> 0, data |-> d],
     [q |-> "target", id |-> 0, aux |-> 1, data |-> e]}
Flattened(d, e) ==
    {[q |-> "target", id |-> run.target, aux |-> 0, data |-> d],
     [q |-> "target", id |-> SecondId, aux |-> 1, data |-> e]}

Promote ==
    /\ pc = "promote"
    /\ \/ /\ run.dir = {}
          /\ run' = run /\ UNCHANGED stored
       \/ \E d, e \in run.dir :
            /\ run.dir = {d, e}
            /\ LET new == {f \in Flattened(d, e) : d = e => f.aux = 0}
               IN  /\ Fills(new)
                   /\ run' = [run EXCEPT !.promoted = {f \in new : f.aux = 0}, !.dir = {}]
    /\ Goes("pick") /\ UNCHANGED <<stuck, loop, freed>>

(* The seed the run reports: the first file of the directory, the target   *)
(* file, or the first artifact.                                            *)
Pick ==
    /\ pc = "pick"
    /\ LET own == {f \in files : Name(f) = <<"target", run.target, NoAux>>}
       IN  run' = [NoRun EXCEPT !.stderr = run.stderr,
                                !.cur = IF run.promoted # {} THEN run.promoted
                                        ELSE IF own # {} THEN own ELSE run.moved]
    /\ Goes("judge") /\ UNCHANGED <<stored, stuck, loop, freed>>

----------------------------------------------------------------------------
Ends == Goes("idle") /\ run' = NoRun /\ loop' = FirstLoop
Keeps == UNCHANGED <<stored, stuck, freed>>

(* A repair asks the model for another script, which is run, or gets the   *)
(* client's error text instead, which only counts.                         *)
Repair(to) == \E next \in {"run", "judge"} : Goes(next) /\ run' = run /\ loop' = to

Uncounted(n) == n                                                      \* mutant
Counted(n) == n + 1

(* while stderr                                                            *)
FixErrors ==
    /\ pc = "judge" /\ loop.phase = "errors" /\ run.stderr
    /\ IF loop.errs < setting.errMax THEN Repair([loop EXCEPT !.errs = Counted(@)]) ELSE Ends
    /\ Keeps

(* Without errors: a missing file ends the call; mutate_and_test goes on   *)
(* to the gate, extract_and_test measures the file.                        *)
FirstLook ==
    /\ pc = "judge" /\ loop.phase = "errors" /\ ~run.stderr
    /\ IF ~Exists THEN Ends
       ELSE IF ~Generator THEN Goes("gate") /\ UNCHANGED <<run, loop>>
       ELSE /\ loop' = [loop EXCEPT !.phase = "empty", !.zero = \E f \in run.cur : f.data = Empty]
            /\ Goes("judge") /\ run' = run
    /\ Keeps

(* while file_size == 0: the size is measured again only if the repaired   *)
(* script wrote a file; stderr is not looked at again.                     *)
IsEmpty == IF Exists THEN \E f \in run.cur : f.data = Empty ELSE loop.zero

EmptyLoop ==
    /\ pc = "judge" /\ loop.phase = "empty"
    /\ IF ~IsEmpty THEN Goes("gate") /\ UNCHANGED <<run, loop>>
       ELSE IF loop.empties < setting.emptyMax
       THEN Repair([loop EXCEPT !.empties = Counted(@), !.zero = TRUE])
       ELSE Ends
    /\ Keeps

----------------------------------------------------------------------------
(* find_duplicate_seed_path looks into LLM, mut and AFL's own queue.       *)
WithItself(f) == f.data \in corpus \/ \E g \in In(SideQueue) : g.data = f.data   \* mutant
IsDuplicate(f) == f.data \in corpus \/ \E g \in In(SideQueue) \ {f} : g.data = f.data

(* _audit_rejected_seed                                                    *)
Rejects(f) ==
    /\ files' = files \ {f} /\ imported' = imported \ {f}
    /\ freed' = freed \cup {<<f.q, f.id>>}
    /\ UNCHANGED <<cursor, corpus, made, replaced, stuck>>

GateRejects(f) ==
    /\ \/ f.data = Empty
       \/ Rejecting /\ (IsDuplicate(f) \/ f.data \in setting.large)
    /\ Rejects(f)
    /\ run' = NoRun /\ loop' = FirstLoop /\ pc' = "idle"

(* A rejected duplicate is regenerated while there is budget and the model *)
(* offers another script.                                                  *)
GateRegenerates(f) ==
    /\ Rejecting /\ Generator /\ loop.dups < setting.dupMax
    /\ f.data # Empty /\ IsDuplicate(f)
    /\ Rejects(f)
    /\ run' = NoRun /\ loop' = [FirstLoop EXCEPT !.dups = loop.dups + 1] /\ pc' = "run"

GateAccepts(f) ==
    /\ f.data # Empty
    /\ Rejecting => ~IsDuplicate(f) /\ f.data \notin setting.large
    /\ Ends /\ Keeps

Gate ==
    /\ pc = "gate"
    /\ \E f \in run.cur : GateRejects(f) \/ GateRegenerates(f) \/ GateAccepts(f)

----------------------------------------------------------------------------
(* AFL looks at one queue: of the files from its cursor on it reads one    *)
(* per id, and keeps what it finds interesting.                            *)
NameOrder(f, g) == f.aux <= g.aux
Fresh(q) == {f \in In(q) : f.id >= cursor[q]}

AflSyncs(q) ==
    /\ Fresh(q) # {}
    /\ LET seen == {f \in Fresh(q) : \A g \in Fresh(q) : g.id = f.id => NameOrder(f, g)}
       IN  /\ imported' = imported \cup seen
           /\ \E keep \in SUBSET Contents(seen) : corpus' = corpus \cup keep
    /\ cursor' = [cursor EXCEPT ![q] = Max({f.id : f \in Fresh(q)}) + 1]
    /\ UNCHANGED <<files, stuck, run, loop, pc, made, freed, replaced>>

Attempt == \/ \E l \in setting.layouts, err \in BOOLEAN : Script(l[1], l[2], err)
           \/ MoveArtifacts \/ Promote \/ Pick
           \/ FixErrors \/ FirstLook \/ EmptyLoop \/ Gate

Next ==
    /\ Call \/ Attempt \/ \E q \in Queue : AflSyncs(q)
    /\ UNCHANGED setting

Spec == Init /\ [][Next]_vars
LiveSpec == Spec /\ WF_vars(Attempt /\ UNCHANGED setting)

----------------------------------------------------------------------------
(* A leftover of direct generation whose script wrote a directory as well: *)
(* the first file of the directory takes its name.                         *)
Eclipsed(f) ==
    /\ pc = "promote" /\ OneQueue /\ run.dir # {}
    /\ f \in run.moved /\ f.id = run.target

(* What was gathered from a run stays: a file leaves its queue only by the *)
(* decision of the gate on the seed it was asked about, or as the eclipsed *)
(* leftover of the very run whose directory is flattened: no run takes the *)
(* name of what another run, or another script, left.                      *)
NothingOverwritten ==
    [][\A f \in files : f \in files' \/ (pc = "gate" /\ f \in run.cur) \/ Eclipsed(f)]_vars

(* AFL passes over a seed without reading it only if its id was free again *)
(* after the gate had removed a file, or had been skipped for a directory  *)
(* that was left behind, if it is the second file of a directory a script  *)
(* wrote in place of its output, or took the name of an eclipsed leftover. *)
SeenOrExplained ==
    \A f \in files :
        f.id < cursor[f.q] =>
            \/ f \in imported \/ f.aux = 1
            \/ <<f.q, f.id>> \in freed \/ f.id \in Blocked(f.q)
            \/ \E g \in replaced : Name(g) = Name(f)

(* Rejecting duplicates never removes the last copy: a content that was    *)
(* ever in a queue is still in one, or in AFL's corpus, unless the gate    *)
(* found it too large or it was that of an eclipsed leftover.              *)
LastCopyKept == made \subseteq Contents(files \cup replaced) \cup corpus \cup setting.large

(* What was generated reaches AFL: it is still in a queue, and is not      *)
(* passed over, but for what the gate decided, leftovers eclipsed by a     *)
(* directory, and ids of directories.                                      *)
GeneratedReachesAfl == SeenOrExplained /\ LastCopyKept

(* Every call ends, whatever scripts and the model return.                 *)
CallsEnd == pc # "idle" ~> pc = "idle"
=============================================================================
