--------------------------- MODULE PromptMachines ---------------------------
(* The machines around the requests to the model: the requests themselves, *)
(* what prompts are made of (runs of seeds, slices of code), and the       *)
(* generator of first seeds, each with variables of its own.  MCAnalyses   *)
(* puts them beside the analyses.                                          *)
EXTENDS Integers, Sequences, FiniteSets

CONSTANTS
    HardLimit, NoticeLen, Spare, RoleLen, Lengths, FeedbackLen, MaxRequests,
    Rb, Name, StemOf, Begins, Bytes, Directories, Trace, MaxSeeds, MaxFiles, MaxBuilt,
    Functions, Blocked, ChainsTo, MaxAsked, MaxLaunches,
    Value, Blank, Alike, Undecodable, DecodesTo, Setups, Personas, MaxDimensions, PerAnswer, MaxFixes, Sessions

VARIABLES
    turn, dialogue, talk, prompt, upTo, round, failures, ending,
    scan, of_rb, paths, hits, context, present, ever, summaries, autoslices, built,
    slicing, wanted, aim, code, memory, sliceFiles, direct, many, launches,
    session, spot, setup, agenda, requests, items, kept, saved, fixes, corpus, loose, meta, bundle, ended

Requests == INSTANCE LlmRequests
Evidence == INSTANCE SeedEvidence
Slices == INSTANCE RoadblockSlices
Diversifier == INSTANCE SeedDiversifier

ASSUME RequestLimits == Requests!LimitsAssumption
ASSUME EvidenceInputs == Evidence!EvidenceAssumption
ASSUME SlicedFunctions == Slices!SlicesAssumption
ASSUME DiversifierInputs == Diversifier!DiversifierAssumption

llmVars == <<turn, dialogue, talk, prompt, upTo, round, failures, ending>>
evidenceVars == <<scan, of_rb, paths, hits, context, present, ever, summaries, autoslices, built>>
sliceCodeVars == <<slicing, wanted, aim, code, memory, sliceFiles, direct, many, launches>>
diversifierVars ==
    <<session, spot, setup, agenda, requests, items, kept, saved, fixes, corpus, loose, meta, bundle, ended>>
promptVars == <<llmVars, evidenceVars, sliceCodeVars, diversifierVars>>

----------------------------------------------------------------------------
(* What is checked of each: see the modules.                               *)
(* Requests fit the size limit, and are cut from the end.                  *)
RequestsFit == Requests!RequestsFit
(* What is known of a roadblock is from runs that hit it.                  *)
EvidenceHits == Evidence!EvidenceHits
(* A slice is of what was asked for.                                       *)
SlicesAreOfTarget == Slices!SlicesAreOfTarget
(* Manifests say what is in the files of seeds.                            *)
ManifestsTell == Diversifier!ManifestsTell
=============================================================================
