-------------------------- MODULE AnalysisMachines --------------------------
(* The analyses that are small machines: state inference, the caches of    *)
(* format and flags, the gate for seeds, the repair loop, the search for   *)
(* call chains, flagrec, the extractor of static.json, the slicer, and the *)
(* fields of a seed, each with variables of its own.  MCAnalyses puts them *)
(* beside the others; AnalysesProofs and ExtractionProofs prove about      *)
(* them.                                                                   *)
EXTENDS Integers, Sequences, FiniteSets, TLC

CONSTANTS
    Var, Known, Patterned, Norm, MaxVars, MaxTries,
    MaxAttempts,
    Place, Cluster, Size, MaxPayloads, MaxQueue,
    Message, FamiliesOf, MaxCandidates,
    Graphs, Func, Entry, Target,
    Inputs, MinGroupSize, IgnorePrefixes, MinConfidence,
    Modules,
    Jobs, CdDepth, SuccSteps,
    SeedFiles

VARIABLES
    pc, stage, vars, maps, todo, decided, cache, funcs, about, tries, res,
    at, known, shared, format, flags, used, attempts, asked, inherited,
    structured, rejecting, gate, call, queue, policy, clusters, frontier, advances,
    step, base, left, best, clean,
    search, graph, withRefs, begun, stack, visited, expansions, found, result,
    tool, input, file, groups, candidates, identified, flagVariables, filtered, reports,
    job, ir, site, pass, frames, memo, cutoff, targets_of, refs, ranges, static,
    phase, prog, req, targets, target, work, followed, insts, walk, deps, rounds, shown, asserts, printed,
    seed, reading, position, nest, fields, wellFormed, leftover, pendingKey

Hints == INSTANCE StateInference
Caches == INSTANCE AnalysisCaches
Gate == INSTANCE SeedGate
Breaker == INSTANCE BreakerLoop
Chains == INSTANCE CallChains
Flags == INSTANCE FlagRec
Extractor == INSTANCE StaticExtraction
Slicer == INSTANCE BranchSlicer
Semantic == INSTANCE SemanticFields

ASSUME CallGraphs == Chains!ChainsAssumption
ASSUME FlagInputs == Flags!InputsAssumption
ASSUME ExtractInputs == Extractor!ModulesAssumption
ASSUME SliceInputs == Slicer!JobsAssumption
ASSUME SeedContents == Semantic!FieldsAssumption

infVars == <<pc, stage, vars, maps, todo, decided, cache, funcs, about, tries, res>>
cacheVars == <<at, known, shared, format, flags, used, attempts, asked, inherited>>
gateVars == <<structured, rejecting, gate, call, queue, policy, clusters, frontier, advances>>
breakerVars == <<step, base, left, best, clean>>
chainVars == <<search, graph, withRefs, begun, stack, visited, expansions, found, result>>
flagrecVars == <<tool, input, file, groups, candidates, identified, flagVariables, filtered, reports>>
extractVars == <<job, ir, site, pass, frames, memo, cutoff, targets_of, refs, ranges, static>>
sliceVars == <<phase, prog, req, targets, target, work, followed, insts, walk, deps, rounds, shown, asserts, printed>>
fieldVars == <<seed, reading, position, nest, fields, wellFormed, leftover, pendingKey>>

----------------------------------------------------------------------------
(* What is checked of each: see the modules.                               *)
(* The hints of a state analysis are those of its mappings.                *)
HintsAreMapped == Hints!HintsAreMapped
(* The input format is asked for at most once.                             *)
FormatAskedOnce == Caches!FormatAskedOnce
(* A level of parser depth is an advance at most once.                     *)
FrontierIsRatchet == Gate!FrontierIsRatchet
(* A repair that the parser accepts is the best candidate.                 *)
RepairWins == Breaker!RepairWins
(* The searches find the call chains.                                      *)
ChainsAreFound == Chains!ChainsAreFound
(* Flag variables are reported on the evidence of all their uses.          *)
FlagsAreJustified == Flags!FlagsAreJustified
(* Indirect calls are resolved to the functions they may reach.            *)
CallsAreResolved == Extractor!CallsAreResolved
(* The walks find the control dependences.                                 *)
DependencesFound == Slicer!DependencesFound
=============================================================================
