----------------------------- MODULE SeedGate -----------------------------
(* What happens to a seed once it is written: the direct-text loop that    *)
(* writes one (write_direct_text_seed_and_test) and the payloads of a text *)
(* plan that are tried in turn (try_text_mutation), the gate with its size *)
(* policy (gate_seed), and the evaluation (evaluate_seed), which remembers *)
(* per place of the program the parser messages and the depth it has seen. *)
(* Sizes are numbers, messages are members of a small set; what is written *)
(* where is the module SeedGeneration's and TextMutation's.                *)
EXTENDS Integers, Sequences, FiniteSets, FiniteSetsExt, SequencesExt

CONSTANTS
    Place,       \* file, line and function of a roadblock
    Cluster,     \* the normalised parser messages but unknown
    Size,        \* sizes of seeds, in units of 4096 bytes
    MaxTries,    \* MAX_TIME, the tries of the direct-text loop
    MaxPayloads, \* the payloads of a text plan
    MaxQueue     \* bound: files of AFL's queue

VARIABLES
    structured,  \* classify_input_target says structured_text_parser
    rejecting,   \* ~SEED_GATE_DISABLE_REJECT
    gate,        \* where the seed under way is
    call,        \* what is under way: its kind, its place, what is left to try
    queue,       \* the sizes in AFL's queue
    policy,      \* the size policy, computed once: hard_max, 0 before
    clusters,    \* _seed_stderr_cluster_history
    frontier,    \* the parser depth in _seed_frontier_history
    advances     \* history: how often a seed advanced it

gateVars == <<structured, rejecting, gate, call, queue, policy, clusters, frontier, advances>>

NoCall == [kind |-> "none", left |-> 0, place |-> CHOOSE p \in Place : TRUE]

Init ==
    /\ structured \in BOOLEAN /\ rejecting \in BOOLEAN
    /\ gate = "idle" /\ call = NoCall
    /\ queue = <<>> /\ policy = 0
    /\ clusters = [p \in Place |-> {}]
    /\ frontier = [p \in Place |-> 0] /\ advances = [p \in Place |-> 0]

----------------------------------------------------------------------------
(* _compute_percentile and _build_seed_gate_size_policy, on the sizes of   *)
(* the queue at the first call; the multipliers are config's.              *)
Percentile95(values) ==
    LET s == SortSeq(values, <)
        pos == 95 * (Len(s) - 1)
        low == pos \div 100
        weight == pos % 100
    IN  IF Len(s) = 1 THEN s[1]
        ELSE (s[low + 1] * (100 - weight) + s[low + 2] * weight) \div 100

HardMax(sizes) ==
    IF sizes = <<>> THEN 1024
    ELSE Max({2 * Percentile95(sizes), 4 * Max(Range(sizes)), 1})

(* AFL's queue grows beside it; once the policy is made nobody looks.      *)
AflAdds(n) ==
    /\ policy = 0 /\ Len(queue) < MaxQueue /\ queue' = Append(queue, n)
    /\ UNCHANGED <<structured, rejecting, gate, call, policy, clusters, frontier, advances>>

----------------------------------------------------------------------------
(* A direct-text generation: a reply without a text is asked for again.    *)
BeginText(p) ==
    /\ gate = "idle"
    /\ gate' = "reply" /\ call' = [kind |-> "text", left |-> MaxTries, place |-> p]
    /\ UNCHANGED <<structured, rejecting, queue, policy, clusters, frontier, advances>>

NoText ==
    /\ gate = "reply"
    /\ call' = IF call.left > 1 THEN [call EXCEPT !.left = @ - 1] ELSE NoCall
    /\ gate' = IF call.left > 1 THEN "reply" ELSE "idle"
    /\ UNCHANGED <<structured, rejecting, queue, policy, clusters, frontier, advances>>

(* The text is written; a probing attempt skips the gate.                  *)
Text(skip) ==
    /\ gate = "reply"
    /\ gate' = IF skip THEN "idle" ELSE "judge"
    /\ call' = IF skip THEN NoCall ELSE call
    /\ UNCHANGED <<structured, rejecting, queue, policy, clusters, frontier, advances>>

(* A text plan has written its payloads.                                   *)
BeginPlan(p, n) ==
    /\ gate = "idle"
    /\ gate' = "judge" /\ call' = [kind |-> "plan", left |-> n, place |-> p]
    /\ UNCHANGED <<structured, rejecting, queue, policy, clusters, frontier, advances>>

(* What the caller does with the verdict: a direct text returns (its only  *)
(* caller defers the question of progress), a plan ends with the first     *)
(* payload that makes progress.                                            *)
Verdict(progress) ==
    IF call.kind = "plan" /\ ~progress /\ call.left > 1
    THEN gate' = "judge" /\ call' = [call EXCEPT !.left = @ - 1]
    ELSE gate' = "idle" /\ call' = NoCall

(* gate_seed.  A missing or empty file is rejected, a duplicate and one    *)
(* above the limit if rejecting is on; the limit is computed only when the *)
(* seed is not rejected as a duplicate.                                    *)
RejectsOutright ==
    /\ gate = "judge" /\ Verdict(FALSE)
    /\ UNCHANGED <<structured, rejecting, queue, policy, clusters, frontier, advances>>

RejectsDuplicate ==
    /\ gate = "judge" /\ rejecting /\ Verdict(FALSE)
    /\ UNCHANGED <<structured, rejecting, queue, policy, clusters, frontier, advances>>

Judge(n) ==
    LET limit == IF policy = 0 THEN HardMax(queue) ELSE policy
    IN  /\ gate = "judge"
        /\ policy' = limit
        /\ IF rejecting /\ n > limit
           THEN Verdict(FALSE)
           ELSE gate' = "execute" /\ UNCHANGED call
        /\ UNCHANGED <<structured, rejecting, queue, clusters, frontier, advances>>

----------------------------------------------------------------------------
(* What an execution shows: whether it succeeded, the message on stderr    *)
(* (none, unknown or a cluster) and how deep in the parser it was raised.  *)
Outcome ==
    {[ok |-> ok, cluster |-> "none", depth |-> 0] : ok \in BOOLEAN}
    \cup [ok : BOOLEAN, cluster : Cluster \cup {"unknown"}, depth : 0 .. 3]

(* _mark_stderr_cluster_seen, _mark_frontier_advance (the distance is not  *)
(* measured here and the call-chain index is always -1).                   *)
Novel(o) == o.cluster # "none" /\ o.cluster \notin clusters[call.place]
Advances(o) == o.depth > frontier[call.place]
Latest(o) == o.depth                                                   \* mutant
Deepest(o) == Max({frontier[call.place], o.depth})

FamilyHit(o) == structured /\ o.cluster \notin {"none", "unknown"}

(* _seed_eval_indicates_local_progress                                     *)
LocalProgress(o) ==
    /\ o.ok
    /\ \/ Advances(o)
       \/ structured /\ (Novel(o) \/ o.depth >= 2)
       \/ ~structured /\ FamilyHit(o)

(* evaluate_seed: the histories take the seed in whether or not it ran to  *)
(* the end.                                                                *)
Evaluate(o) ==
    /\ gate = "execute"
    /\ clusters' = IF Novel(o) THEN [clusters EXCEPT ![call.place] = @ \cup {o.cluster}] ELSE clusters
    /\ advances' = IF Advances(o) THEN [advances EXCEPT ![call.place] = @ + 1] ELSE advances
    /\ frontier' = [frontier EXCEPT ![call.place] = Deepest(o)]
    /\ Verdict(LocalProgress(o))
    /\ UNCHANGED <<structured, rejecting, queue, policy>>

Next ==
    \/ \E n \in Size : AflAdds(n) \/ Judge(n)
    \/ \E p \in Place : BeginText(p) \/ \E n \in 1 .. MaxPayloads : BeginPlan(p, n)
    \/ NoText \/ (\E skip \in BOOLEAN : Text(skip))
    \/ RejectsOutright \/ RejectsDuplicate
    \/ \E o \in Outcome : Evaluate(o)

Spec == Init /\ [][Next]_gateVars

----------------------------------------------------------------------------
TypeOK ==
    /\ gate \in {"idle", "reply", "judge", "execute"}
    /\ call.left \in 0 .. Max({MaxTries, MaxPayloads}) /\ call.place \in Place
    /\ clusters \in [Place -> SUBSET (Cluster \cup {"unknown"})]
    /\ frontier \in [Place -> 0 .. 3]

(* The depth of the parser is a ratchet: however many payloads and calls   *)
(* return to a place, and whether or not they ran to the end, a level of   *)
(* depth counts as an advance at most once, so that "local progress"       *)
(* cannot be reported for ever by seeds that go up and down.               *)
FrontierIsRatchet == \A p \in Place : advances[p] <= frontier[p]
=============================================================================
