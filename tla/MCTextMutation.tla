--------------------------- MODULE MCTextMutation ---------------------------
(* TLC instances of TextMutation.                                          *)
EXTENDS TextMutation

Letters == <<11, 12, 13>>
NamedFields == <<[name |-> 1, start |-> 0, end |-> 1], [name |-> 2, start |-> 1, end |-> 3],
                 [name |-> 1, start |-> 2, end |-> 3]>>

ByOffset(o, n, op, rank) == [by |-> "offset", name |-> 0, offset |-> o, size |-> n, op |-> op, rank |-> rank]
ByField(f, k, op, rank) == [by |-> "field", name |-> f, occurrence |-> k, op |-> op, rank |-> rank]

(* Edits of every operation, on adjacent, nested, empty and missing spans. *)
Items ==
    {ByOffset(0, 1, "replace", 0), ByOffset(1, 0, "insert_before", 0), ByOffset(1, 1, "wrap", 1), ByOffset(1, 2, "replace", 1),
     ByOffset(0, 3, "delete", 2), ByOffset(2, -1, "append_suffix", 2), ByOffset(2, 2, "replace", 0),
     ByOffset(3, 0, "insert_after", 1),
     ByField(1, 1, "duplicate", 0), ByField(1, 2, "delete", 1), ByField(1, 3, "replace", 0),
     ByField(2, 1, "prepend_prefix", 2)}
SomePlans == UNION {[1 .. n -> Items] : n \in 2 .. 3}

(* Few plans, for what happens in the queue.                               *)
FewPlans == {<<ByOffset(0, 1, "replace", 0), ByOffset(1, 1, "replace", 0)>>,
             <<ByOffset(1, 1, "wrap", 0), ByOffset(1, 1, "delete", 0)>>}

(* All plans, one after another; few plans beside removals by the gate;    *)
(* few plans without removals, deeper.                                     *)
AllSettings ==
    {[plans |-> SomePlans, maxOutputs |-> 5, rejecting |-> FALSE, maxFiles |-> 1],
     [plans |-> FewPlans, maxOutputs |-> 3, rejecting |-> TRUE, maxFiles |-> 5],
     [plans |-> FewPlans, maxOutputs |-> 3, rejecting |-> FALSE, maxFiles |-> 6]}
=============================================================================
