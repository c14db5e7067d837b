-------------------------- MODULE SeedDiversifier --------------------------
(* The generator of first seeds (llm_seed_diversifier.py): it asks for the *)
(* dimensions of the input, for seeds along each of them from the view of  *)
(* each persona, for variants of the baseline and for what is still        *)
(* missing, drops what is too similar to a seed it has, and saves the rest *)
(* with a manifest; or it has a script written that makes the seeds and    *)
(* the manifest.  It is run again over the output of earlier sessions, and *)
(* a session may end at any point.                                         *)
EXTENDS Integers, Sequences, Tables

CONSTANTS
    Value,         \* the values of seeds; Blank is empty once normalised
    Blank,
    Alike,         \* <<v, w>>: v scores above the threshold against w
    Undecodable,   \* the values that are no base64
    DecodesTo,     \* what a value of base64 is once decoded: several may be
                   \* the same, and one that is not blank may be empty
    Setups,        \* bound: the arguments it is run with
    Personas,      \* how many there are
    MaxDimensions,
    PerAnswer,     \* bound: items of an answer
    MaxFixes,      \* generator_fix_attempts
    Sessions       \* bound: sessions

(* The arguments: a preset makes text directly, or binaries by a script,   *)
(* and has a baseline; each of it can be given by hand.  The output is a   *)
(* directory or JSON, by its suffix and by the save mode alike.            *)
Setup ==
    [encoding : {"text", "base64"}, mode : {"direct", "python-generator"},
     textual : BOOLEAN, baseline : BOOLEAN, sweep : BOOLEAN, output : {"dir", "json"}]

DiversifierAssumption ==
    /\ Blank \in Value /\ Undecodable \subseteq Value /\ DecodesTo \in [Value -> Value] /\ Setups \subseteq Setup
    /\ Personas \in Nat /\ MaxDimensions \in Nat /\ PerAnswer \in Nat /\ MaxFixes \in Nat /\ Sessions \in Nat

AnswerTries == 3 \* max_retries of ask_json and ask_text

VARIABLES
    session,   \* the sessions begun
    spot,      \* where the session is; out when none runs
    setup,     \* its arguments
    agenda,    \* the stages still to be asked for
    requests,  \* failed requests for this answer
    items,     \* the items of the answer still to be added
    kept,      \* accepted
    saved,     \* the seed files written in this session
    fixes,     \* scripts that failed
    corpus,    \* the seed files: what they hold and whose it is
    loose,     \* the manifest beside the seeds, as a script left it
    meta,      \* meta/manifest.json
    bundle,    \* the JSON output
    ended      \* the sessions that came to their end

diversifierVars ==
    <<session, spot, setup, agenda, requests, items, kept, saved, fixes, corpus, loose, meta, bundle, ended>>
disk == <<corpus, loose, meta, bundle>>

----------------------------------------------------------------------------
Absent == [kind |-> "absent"]
Torn == [kind |-> "torn"]
(* A text is saved as it is; of base64, what it decodes to is saved.       *)
Final(encoding, v) == IF encoding = "base64" THEN DecodesTo[v] ELSE v
Finals(encoding, texts) == [i \in DOMAIN texts |-> Final(encoding, texts[i])]
OfSeeds(s, encoding, texts) ==
    [kind |-> "seeds", session |-> s, encoding |-> encoding, seeds |-> Finals(encoding, texts)]
OfScript(s, by) == [kind |-> "script", session |-> s, by |-> by]

Init ==
    /\ session = 0 /\ spot = "out" /\ setup = (CHOOSE s \in Setups : TRUE) /\ agenda = <<>> /\ requests = 0 /\ items = 0
    /\ kept = <<>> /\ saved = 0 /\ fixes = 0 /\ ended = {}
    /\ corpus = <<>> /\ loose = Absent /\ meta = Absent /\ bundle = Absent

Begin(s) ==
    /\ spot = "out" /\ session < Sessions
    /\ session' = session + 1 /\ setup' = s
    /\ spot' = IF s.mode = "python-generator" THEN "script" ELSE "dimensions"
    /\ agenda' = <<>> /\ requests' = 0 /\ items' = 0 /\ kept' = <<>> /\ saved' = 0 /\ fixes' = 0
    /\ UNCHANGED <<disk, ended>>

Asked == <<session, setup, kept, saved, disk, ended>>

(* A request that fails, or whose answer is no list, is repeated; after    *)
(* the last one the session ends, as it does at once if there is no script *)
(* in the answer (Dies).                                                   *)
RequestFails ==
    /\ spot \in {"dimensions", "script"} \/ (spot = "seeds" /\ agenda # <<>>)
    /\ requests' = requests + 1
    /\ spot' = IF requests + 1 = AnswerTries THEN "out" ELSE spot
    /\ UNCHANGED <<Asked, agenda, items, fixes>>

(* An exception that nobody catches, or a kill.                            *)
Dies ==
    /\ spot # "out" /\ spot' = "out"
    /\ UNCHANGED <<Asked, agenda, requests, items, fixes>>

----------------------------------------------------------------------------
(* Seeds from the model.  Dimensions that suggest long texts make a script *)
(* of it.                                                                  *)
SwitchesToScript(long) == long /\ setup.encoding = "text" /\ setup.textual

If(condition, stage) == IF condition THEN <<stage>> ELSE <<>>
Agenda(dimensions) ==
    [i \in 1 .. Personas * dimensions |-> "per_dimension"]
    \o If(setup.baseline, "structural_mutation") \o If(setup.sweep, "diversity_sweep")

Dimensions(n, long) ==
    /\ spot = "dimensions" /\ requests' = 0
    /\ IF SwitchesToScript(long) THEN spot' = "script" /\ UNCHANGED agenda
       ELSE spot' = "seeds" /\ agenda' = Agenda(n)
    /\ UNCHANGED <<Asked, items, fixes>>

Items(n) ==
    /\ spot = "seeds" /\ agenda # <<>>
    /\ spot' = "add" /\ items' = n /\ requests' = 0 /\ agenda' = Tail(agenda)
    /\ UNCHANGED <<Asked, fixes>>

(* maybe_add_seed compares the texts, and only tries whether base64 can be *)
(* decoded; what is no object is an exception (Dies).                      *)
Similar(v) == \E i \in DOMAIN kept : <<v, kept[i]>> \in Alike
Accepts(v) == v # Blank /\ ~Similar(v) /\ ~(setup.encoding = "base64" /\ v \in Undecodable)

MaybeAdd(v) ==
    /\ spot = "add" /\ items > 0 /\ items' = items - 1
    /\ kept' = IF Accepts(v) THEN Append(kept, v) ELSE kept
    /\ UNCHANGED <<session, spot, setup, agenda, requests, saved, fixes, disk, ended>>

Added ==
    /\ spot = "add" /\ items = 0 /\ spot' = "seeds"
    /\ UNCHANGED <<Asked, agenda, requests, items, fixes>>

(* Nothing is saved before the last answer.                                *)
Save ==
    /\ spot = "seeds" /\ agenda = <<>>
    /\ spot' = IF setup.output = "json" THEN "bundle" ELSE "save"
    /\ UNCHANGED <<Asked, agenda, requests, items, fixes>>

Saving == <<session, setup, agenda, requests, items, kept, fixes, loose>>

(* A file is empty between its opening and its writing.                    *)
File(v) == [value |-> v, session |-> session]
OpenSeed ==
    /\ spot = "save" /\ saved < Len(kept) /\ spot' = "write"
    /\ corpus' = With(corpus, saved + 1, File(Blank))
    /\ UNCHANGED <<Saving, saved, meta, bundle, ended>>

WriteSeed ==
    /\ spot = "write" /\ spot' = "save"
    /\ corpus' = With(corpus, saved + 1, File(Final(setup.encoding, kept[saved + 1])))
    /\ saved' = saved + 1
    /\ UNCHANGED <<Saving, meta, bundle, ended>>

OpenManifest ==
    /\ spot = "save" /\ saved = Len(kept)
    /\ spot' = "manifest" /\ meta' = Torn
    /\ UNCHANGED <<Saving, saved, corpus, bundle, ended>>

End == spot' = "out" /\ ended' = ended \cup {session}

WriteManifest ==
    /\ spot = "manifest" /\ End
    /\ meta' = OfSeeds(session, setup.encoding, kept)
    /\ UNCHANGED <<Saving, saved, corpus, bundle>>

(* save_as_json, or the end of a script's session.                         *)
OpenBundle ==
    /\ spot \in {"bundle", "report"} /\ bundle' = Torn
    /\ spot' = IF spot = "bundle" THEN "dump" ELSE "dumpReport"
    /\ UNCHANGED <<Saving, saved, corpus, meta, ended>>

WriteBundle ==
    /\ spot \in {"dump", "dumpReport"} /\ End
    /\ bundle' = IF spot = "dump" THEN OfSeeds(session, setup.encoding, kept) ELSE meta
    /\ UNCHANGED <<Saving, saved, corpus, meta>>

----------------------------------------------------------------------------
(* A script from the model.                                                *)
Code ==
    /\ spot = "script" /\ spot' = "run" /\ requests' = 0
    /\ UNCHANGED <<Asked, agenda, items, fixes>>

(* The model is shown why the script failed, a few times.                  *)
ScriptFails ==
    /\ fixes' = fixes + 1
    /\ spot' = IF fixes >= MaxFixes THEN "out" ELSE "script"

(* A script writes what it likes, beside what is there, and may leave a    *)
(* manifest, one that is valid or one that cannot be read as such.         *)
RunScript(files, manifest, succeeds) ==
    /\ spot = "run"
    /\ corpus' = [i \in DOMAIN corpus \cup files |-> IF i \in files THEN File(Blank) ELSE corpus[i]]
    /\ loose' = IF manifest = "none" THEN loose ELSE [kind |-> manifest, by |-> session]
    /\ IF succeeds THEN spot' = "validate" /\ UNCHANGED fixes ELSE ScriptFails
    /\ UNCHANGED <<session, setup, agenda, requests, items, kept, saved, meta, bundle, ended>>

(* validate_generated_manifest                                             *)
Validating == <<session, setup, agenda, requests, items, kept, saved, corpus, bundle>>
Validate ==
    /\ spot = "validate"
    /\ IF loose.kind = "valid" THEN spot' = "move" /\ meta' = Torn /\ UNCHANGED fixes
       ELSE ScriptFails /\ UNCHANGED meta
    /\ UNCHANGED <<Validating, loose, ended>>

Move ==
    /\ spot = "move" /\ spot' = "unlink"
    /\ meta' = OfScript(session, loose.by)
    /\ UNCHANGED <<Validating, loose, fixes, ended>>

LeftThere == loose                                                  \* mutant
Taken == Absent
Unlink ==
    /\ spot = "unlink" /\ loose' = Taken
    /\ IF setup.output = "json" THEN spot' = "report" /\ UNCHANGED ended ELSE End
    /\ UNCHANGED <<Validating, fixes, meta>>

----------------------------------------------------------------------------
Next ==
    \/ \E s \in Setups : Begin(s)
    \/ RequestFails \/ Dies
    \/ \E n \in 0 .. MaxDimensions, long \in BOOLEAN : (long => n > 0) /\ Dimensions(n, long)
    \/ \E n \in 0 .. PerAnswer : Items(n)
    \/ \E v \in Value : MaybeAdd(v)
    \/ Added \/ Save \/ OpenSeed \/ WriteSeed \/ OpenManifest \/ WriteManifest \/ OpenBundle \/ WriteBundle
    \/ Code
    \/ \E files \in SUBSET (1 .. 2), manifest \in {"none", "invalid", "valid"}, succeeds \in BOOLEAN :
          RunScript(files, manifest, succeeds)
    \/ Validate \/ Move \/ Unlink

Spec == Init /\ [][Next]_diversifierVars

----------------------------------------------------------------------------
TypeOK ==
    /\ session \in 0 .. Sessions /\ setup \in Setups /\ ended \subseteq 1 .. session
    /\ requests \in 0 .. AnswerTries /\ items \in 0 .. PerAnswer /\ fixes \in 0 .. MaxFixes + 1
    /\ kept \in Seq(Value) /\ saved \in 0 .. Len(kept)
    /\ \A i \in DOMAIN corpus : corpus[i] \in [value : Value, session : 1 .. session]

(* What a saved list says: it is what texts that differ enough were saved  *)
(* as.  Of base64 two may be the same bytes, and one may be none.          *)
Varied(texts) ==
    \A i \in DOMAIN texts : texts[i] # Blank /\ \A j \in 1 .. i - 1 : <<texts[i], texts[j]>> \notin Alike
OfVaried(m) ==
    \E texts \in [DOMAIN m.seeds -> Value] : Varied(texts) /\ m.seeds = Finals(m.encoding, texts)
FromOpenSession(m) == m.kind = "script" /\ m.by # m.session => m.by \notin ended

(* The lists of seeds that are saved are what texts were saved as, of      *)
(* which none is blank or too similar to one before it; the file of each   *)
(* seed of the manifest is there, and holds what the manifest lists or     *)
(* something of a later session that did not come to its end; and a        *)
(* script's manifest is taken from another session only if that one did    *)
(* not come to its end.                                                    *)
ManifestsTell ==
    /\ meta.kind = "seeds" =>
          /\ OfVaried(meta)
          /\ \A i \in DOMAIN meta.seeds :
                /\ i \in DOMAIN corpus
                /\ \/ corpus[i] = [value |-> meta.seeds[i], session |-> meta.session]
                   \/ corpus[i].session > meta.session /\ corpus[i].session \notin ended
    /\ bundle.kind = "seeds" => OfVaried(bundle)
    /\ FromOpenSession(meta) /\ FromOpenSession(bundle)
=============================================================================
