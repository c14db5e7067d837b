-------------------------- MODULE AnalysisCaches --------------------------
(* What is found out once about the project and kept on disk: the input    *)
(* format, which the model is asked for (ensure_cached_format_info and     *)
(* LLM/format_detector.py), and the flag variables, which an external      *)
(* analysis of the bitcode finds (LLM/flag_var_detector.py).  Both files   *)
(* are rewritten in place; a process may be killed anywhere and another    *)
(* one starts.                                                             *)
EXTENDS Naturals

CONSTANT MaxAttempts \* attempts of one process

VARIABLES
    at,        \* what the process is doing
    known,     \* cached_format_info: none, the normalised nothing, or the format
    shared,    \* whether _input_format_cache has the project
    format,    \* the file of formats: absent, torn or whole
    flags,     \* the file of flag variables
    used,      \* whether the attempt has flag variables to use
    attempts,
    asked,     \* how often the process has asked the model for the format
    inherited  \* the file was whole when the process started

cacheVars == <<at, known, shared, format, flags, used, attempts, asked, inherited>>

Init ==
    /\ at = "start" /\ known = "none" /\ shared = FALSE
    /\ format = "absent" /\ flags = "absent"
    /\ used = FALSE /\ attempts = 0
    /\ asked = 0 /\ inherited = FALSE

----------------------------------------------------------------------------
(* The format.  What detect_format gives, or fails to give, is normalised  *)
(* to a dictionary that is never None: it is remembered in both cases.     *)
AsItIs(found) == IF found THEN "info" ELSE "none"                  \* mutant
Normalized(found) == IF found THEN "info" ELSE "nothing"

(* ensure_cached_format_info and the two looks of detect_format: in the    *)
(* process, in the module, on disk, where a torn file reads as empty.      *)
EnsureFormat ==
    /\ at = "start"
    /\ IF known # "none" THEN at' = "flags" /\ UNCHANGED <<known, shared>>
       ELSE IF shared \/ format = "whole"
       THEN at' = "flags" /\ known' = Normalized(TRUE) /\ shared' = TRUE
       ELSE at' = "extract" /\ UNCHANGED <<known, shared>>
    /\ UNCHANGED <<format, flags, used, attempts, asked, inherited>>

(* _extract_entry_function: the harness or main, if its source is there.   *)
ExtractEntry(found) ==
    /\ at = "extract"
    /\ IF found THEN at' = "ask" /\ UNCHANGED known
       ELSE at' = "flags" /\ known' = Normalized(FALSE)
    /\ UNCHANGED <<shared, format, flags, used, attempts, asked, inherited>>

(* _call_llm_for_format: any exception, unusable or empty answer is none.  *)
CallLLMForFormat(answered) ==
    /\ at = "ask" /\ asked' = asked + 1
    /\ IF answered THEN at' = "persist" /\ shared' = TRUE /\ UNCHANGED known
       ELSE at' = "flags" /\ known' = Normalized(FALSE) /\ UNCHANGED shared
    /\ UNCHANGED <<format, flags, used, attempts, inherited>>

(* _augment_with_input_subspace_info raises on requirements or constraints *)
(* that are no dictionaries.  The first look is at the start of the        *)
(* session, where nothing catches it.                                      *)
AugmentRaises ==
    /\ at = "ask" /\ at' = "over" /\ asked' = asked + 1
    /\ UNCHANGED <<known, shared, format, flags, used, attempts, inherited>>

(* _persist_cache: the file is read, and opened for writing; an exception  *)
(* of the writing is logged.                                               *)
OpenFormatFile(opened) ==
    /\ at = "persist"
    /\ at' = IF opened THEN "dump" ELSE "keep"
    /\ format' = IF opened THEN "torn" ELSE format
    /\ UNCHANGED <<known, shared, flags, used, attempts, asked, inherited>>

DumpFormatFile(written) ==
    /\ at = "dump" /\ at' = "keep"
    /\ format' = IF written THEN "whole" ELSE format
    /\ UNCHANGED <<known, shared, flags, used, attempts, asked, inherited>>

KeepFormat ==
    /\ at = "keep" /\ at' = "flags"
    /\ known' = Normalized(TRUE)
    /\ UNCHANGED <<shared, format, flags, used, attempts, asked, inherited>>

----------------------------------------------------------------------------
(* The flags, at each attempt: from the file if it parses, otherwise from  *)
(* a run of the analysis, if there is bitcode for it.                      *)
LoadFlags(bitcode) ==
    /\ at = "flags"
    /\ used' = (flags = "whole")
    /\ at' = IF flags # "whole" /\ bitcode THEN "flagrec" ELSE "work"
    /\ UNCHANGED <<known, shared, format, flags, attempts, asked, inherited>>

(* run_flagrec_analysis raises on a timeout, a bad exit or a missing or    *)
(* unreadable flags.json.                                                  *)
RunFlagrec(found) ==
    /\ at = "flagrec"
    /\ used' = found
    /\ at' = IF found THEN "save" ELSE "work"
    /\ UNCHANGED <<known, shared, format, flags, attempts, asked, inherited>>

(* save_flagrec_results: its exceptions leave the result in use.           *)
OpenFlagsFile(opened) ==
    /\ at = "save"
    /\ at' = IF opened THEN "write" ELSE "work"
    /\ flags' = IF opened THEN "torn" ELSE flags
    /\ UNCHANGED <<known, shared, format, used, attempts, asked, inherited>>

WriteFlagsFile(written) ==
    /\ at = "write" /\ at' = "work"
    /\ flags' = IF written THEN "whole" ELSE flags
    /\ UNCHANGED <<known, shared, format, used, attempts, asked, inherited>>

(* The attempt goes on, and another one begins.                            *)
NextAttempt ==
    /\ at = "work" /\ attempts < MaxAttempts
    /\ attempts' = attempts + 1
    /\ at' = "start" /\ used' = FALSE
    /\ UNCHANGED <<known, shared, format, flags, asked, inherited>>

(* A kill or the end of the process, and the next start.                   *)
NewProcess ==
    /\ at' = "start" /\ known' = "none" /\ shared' = FALSE
    /\ used' = FALSE /\ attempts' = 0 /\ asked' = 0
    /\ inherited' = (format = "whole")
    /\ UNCHANGED <<format, flags>>

Next ==
    \/ EnsureFormat \/ AugmentRaises \/ KeepFormat \/ NextAttempt \/ NewProcess
    \/ \E ok \in BOOLEAN :
          \/ ExtractEntry(ok) \/ CallLLMForFormat(ok)
          \/ OpenFormatFile(ok) \/ DumpFormatFile(ok)
          \/ LoadFlags(ok) \/ RunFlagrec(ok)
          \/ OpenFlagsFile(ok) \/ WriteFlagsFile(ok)

Spec == Init /\ [][Next]_cacheVars

----------------------------------------------------------------------------
TypeOK ==
    /\ known \in {"none", "nothing", "info"}
    /\ {format, flags} \subseteq {"absent", "torn", "whole"}
    /\ {shared, used, inherited} \subseteq BOOLEAN

(* "Ensure input format detection runs at most once per project per        *)
(* process" (the docstring of ensure_cached_format_info): a failed or      *)
(* unusable answer is not asked for again at each attempt, and a process   *)
(* that finds the file of an earlier one does not ask at all.              *)
FormatAskedOnce == asked <= 1 /\ (inherited => asked = 0)
=============================================================================
