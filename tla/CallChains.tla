---------------------------- MODULE CallChains ----------------------------
(* How a call chain from an entry point of the harness to the function of  *)
(* a roadblock is looked for (get_call_chain): in callgraph.dot, then in   *)
(* the call sites of static.json, then in its functions, each a depth-     *)
(* first search against the calls with the functions of the chain under    *)
(* construction as visited, and each with limits; at last with references  *)
(* in place of calls as well.                                              *)
EXTENDS Naturals, Sequences, FiniteSets

CONSTANTS
    Graphs,    \* call graphs with limits, see MCAnalyses
    Func,      \* the functions
    Entry,     \* valid_entry_points among them
    Target     \* the function of the roadblock

Edge == [caller : Func, callee : Func, kind : {"direct", "ref"}, site : Nat]
Limits == [depth : Nat \ {0}, chains : Nat, expansions : Nat]
ChainsAssumption ==
    /\ IsFiniteSet(Func) /\ Target \in Func
    /\ \A g \in Graphs : g.edges \subseteq Edge /\ \A refs \in BOOLEAN : g.limits[refs] \in Limits

VARIABLES
    search,    \* which search is under way
    graph,     \* the call graph, what is known of it
    withRefs,  \* include_refs of the caller
    begun,     \* whether it has
    stack,     \* the frames of dfs, the innermost first
    visited,
    expansions,
    found,     \* all_chains
    result     \* what the last search returned, as a set
chainVars == <<search, graph, withRefs, begun, stack, visited, expansions, found, result>>

Init ==
    /\ search = "idle" /\ graph = <<>> /\ withRefs = FALSE /\ begun = FALSE
    /\ stack = <<>> /\ visited = {} /\ expansions = 0 /\ found = <<>> /\ result = {}

----------------------------------------------------------------------------
(* The searches in their order; a search with references if none without   *)
(* has found a chain.                                                      *)
Then(s) ==
    CASE s = "dot" -> "sites"
      [] s = "sites" -> "functions"
      [] s = "functions" -> IF withRefs THEN "refSites" ELSE "done"
      [] s = "refSites" -> "refFunctions"
      [] s = "refFunctions" -> "done"

UsesRefs == search \in {"refSites", "refFunctions"} \/ (search = "dot" /\ withRefs)
Limit == graph.limits[UsesRefs]

(* The edges into f that this search follows: one for each call site, or   *)
(* one for each caller.  A function without source lines is no caller      *)
(* except in callgraph.dot.                                                *)
Calls(f) ==
    {e \in graph.edges :
        /\ e.callee = f
        /\ e.kind = "ref" => UsesRefs
        /\ search = "dot" \/ e.caller \in graph.sliceable}
OnePerCaller(E) == {e \in E : \A o \in E : o.caller = e.caller => e.site <= o.site}
Callers(f) == IF search \in {"functions", "refFunctions"} THEN OnePerCaller(Calls(f)) ELSE Calls(f)

Available == CASE search = "dot" -> graph.dot
               [] search \in {"sites", "refSites"} -> graph.sites
               [] OTHER -> TRUE

IsEntry(chain) == Head(chain).f \in Entry
Node(f, site) == [f |-> f, site |-> site]
Frame(chain) == [chain |-> chain, todo |-> {}, has |-> FALSE, new |-> TRUE]

GetCallChain(g, refs) ==
    /\ search = "idle" /\ search' = "dot"
    /\ graph' = g /\ withRefs' = refs
    /\ UNCHANGED <<begun, stack, visited, expansions, found, result>>

Begin ==
    /\ search \notin {"idle", "done"} /\ ~begun
    /\ begun' = TRUE
    /\ IF Available THEN stack' = <<Frame(<<Node(Target, 0)>>)>> /\ visited' = {Target}
       ELSE UNCHANGED <<stack, visited>>
    /\ UNCHANGED <<search, graph, withRefs, expansions, found, result>>

----------------------------------------------------------------------------
Top == Head(stack)
Full == Len(found) >= Limit.chains
Spent == search # "dot" /\ expansions >= Limit.expansions
Deep == Len(Top.chain) >= Limit.depth
Keeps(chain) == search = "dot" => IsEntry(chain)

Forgotten(f) == visited                                            \* mutant
Unvisited(f) == visited \ {f}
Pop ==
    /\ stack' = Tail(stack)
    /\ visited' = Unvisited(Head(Top.chain).f)

Record(chain) == found' = IF Keeps(chain) THEN Append(found, chain) ELSE found

(* The head of dfs.  In callgraph.dot the number of chains is looked at    *)
(* before the depth, elsewhere after it.                                   *)
Enter ==
    /\ stack # <<>> /\ Top.new
    /\ IF (search = "dot" /\ Full) \/ (~Deep /\ (Full \/ Spent)) THEN Pop /\ UNCHANGED found
       ELSE IF Deep THEN Pop /\ Record(Top.chain)
       ELSE /\ stack' = <<[Top EXCEPT !.new = FALSE, !.todo = Callers(Head(Top.chain).f)]>> \o Tail(stack)
            /\ UNCHANGED <<visited, found>>
    /\ UNCHANGED <<search, graph, withRefs, begun, expansions, result>>

(* The callers in the order of their sites.  One that is on the chain      *)
(* already is passed over.                                                 *)
Expand(e) ==
    /\ ~Top.new /\ e \in Top.todo /\ (\A o \in Top.todo : e.site <= o.site) /\ ~Full /\ ~Spent
    /\ LET rest == [Top EXCEPT !.todo = @ \ {e}]
           me == Node(Head(Top.chain).f, IF search \in {"sites", "refSites"} THEN e.site ELSE 0)
       IN  IF e.caller \in visited
           THEN stack' = <<rest>> \o Tail(stack) /\ UNCHANGED <<visited, expansions>>
           ELSE /\ stack' = <<Frame(<<Node(e.caller, 0), me>> \o Tail(Top.chain)), [rest EXCEPT !.has = TRUE]>>
                             \o Tail(stack)
                /\ visited' = visited \cup {e.caller}
                /\ expansions' = IF search = "dot" THEN expansions ELSE expansions + 1
    /\ UNCHANGED <<search, graph, withRefs, begun, found, result>>

(* The end of the loop, or a limit: a function without an unvisited caller *)
(* ends the chain.                                                         *)
Leave ==
    /\ stack # <<>> /\ ~Top.new /\ (Top.todo = {} \/ Full \/ Spent)
    /\ Pop
    /\ IF Top.has THEN UNCHANGED found ELSE Record(Top.chain)
    /\ UNCHANGED <<search, graph, withRefs, begun, expansions, result>>

(* Equal chains are dropped, then those that do not begin at an entry.     *)
(* The functions are searched only if the call sites gave no chain at all, *)
(* with what is left of the limits; the search with references has its own *)
(* limits.                                                                 *)
Firsts == {i \in DOMAIN found : IsEntry(found[i]) /\ \A j \in 1 .. i - 1 : found[j] # found[i]}
Chains == {found[i] : i \in {n \in Firsts : Cardinality({m \in Firsts : m < n}) < Limit.chains}}

Searched == begun /\ stack = <<>>
End ==
    /\ Searched
    /\ result' = Chains
    /\ search' = IF Chains # {} THEN "done"
                 ELSE IF search \in {"sites", "refSites"} /\ found # <<>> THEN Then(Then(search))
                 ELSE Then(search)
    /\ expansions' = IF search' \in {"functions", "refFunctions"} THEN expansions ELSE 0
    /\ begun' = FALSE /\ found' = <<>> /\ visited' = {}
    /\ UNCHANGED <<graph, withRefs, stack>>

Next == (search = "idle" /\ \E g \in Graphs, refs \in BOOLEAN : GetCallChain(g, refs))
        \/ Begin \/ Enter \/ (stack # <<>> /\ \E e \in Top.todo : Expand(e)) \/ Leave \/ End

Spec == Init /\ [][Next]_chainVars

----------------------------------------------------------------------------
(* The chains there are: ways from an entry point to the target along the  *)
(* calls of the search, no function twice, that cannot be continued        *)
(* upwards or are as long as a chain may be.                               *)
Injective(p) == \A i, j \in DOMAIN p : p[i] = p[j] => i = j
Leads(p) ==
    /\ p[Len(p)] = Target
    /\ \A i \in 1 .. Len(p) - 1 : \E e \in Calls(p[i + 1]) : e.caller = p[i]
Ends(p) == Len(p) = Limit.depth \/ \A e \in Calls(p[1]) : \E i \in DOMAIN p : p[i] = e.caller
CallPaths ==
    {p \in UNION {[1 .. n -> Func] : n \in 1 .. Cardinality(Func)} :
        p[1] \in Entry /\ Len(p) <= Limit.depth /\ Injective(p) /\ Leads(p) /\ Ends(p)}

Names(chain) == [i \in 1 .. Len(chain) |-> chain[i].f]

(* A search that reached no limit has found all of them, through cycles    *)
(* and through calls that occur twice, and nothing else; one that did has  *)
(* found some of them, so that a slice is never taken along calls that do  *)
(* not exist.                                                              *)
ChainsAreFound ==
    Searched /\ Available =>
        LET names == {Names(c) : c \in Chains}
        IN  names \subseteq CallPaths /\ (~Full /\ ~Spent => names = CallPaths)
=============================================================================
