---------------------------- MODULE GraphBuilder ----------------------------
(***************************************************************************)
(* Graph::validate and the scheduler's levels (aaf-runtime: graph.rs,      *)
(* scheduler.rs).  Node ids are naturals: their order stands for the order *)
(* of the id strings, by which the ready nodes are sorted.                 *)
(***************************************************************************)
EXTENDS Integers, Sequences, FiniteSets, FiniteSetsExt, SequencesExt

Sources(n, edges) == {e[1] : e \in {d \in edges : d[2] = n}}

\* Mutant: a child is ready as soon as one of its sources was visited.
Ready_Any(n, edges, order) ==
    {c \in {e[2] : e \in {d \in edges : d[1] = n}} : c \notin ToSet(order)}

\* The nodes whose in-degree drops to zero when n, the last of order, is taken.
Ready(n, edges, order) ==
    {c \in {e[2] : e \in {d \in edges : d[1] = n}} : Sources(c, edges) \subseteq ToSet(order)}

\* One turn of Kahn's loop: the queue is sorted and popped at its end.
KahnTurn(edges, st) ==
    IF st.queue = {} THEN st
    ELSE LET n     == Max(st.queue)
             order == Append(st.order, n)
         IN  [queue |-> (st.queue \ {n}) \cup Ready(n, edges, order), order |-> order]

Kahn(nodes, edges) ==
    LET start   == [queue |-> {n \in nodes : Sources(n, edges) = {}}, order |-> <<>>]
        turns[k \in 0..Cardinality(nodes)] ==
            IF k = 0 THEN start ELSE KahnTurn(edges, turns[k - 1])
    IN  turns[Cardinality(nodes)].order

\* Graph::validate_with_compensators: an order, or the reason there is none.
Validate(nodes, edges, compensators) ==
    LET order  == Kahn(nodes, edges)
        Error(e) == [error |-> e, order |-> <<>>]
    IN  IF nodes = {} THEN Error("Empty")
        ELSE IF \E e \in edges : {e[1], e[2]} \ nodes # {} THEN Error("MissingNode")
        ELSE IF compensators \ nodes # {} THEN Error("MissingNode")
        ELSE IF ToSet(order) # nodes THEN Error("Cycle")
        ELSE [error |-> "none", order |-> order]

\* parallel_levels: a node comes one level after the highest of its sources.
Levels(edges, order) ==
    LET At(level, n) == IF n \in DOMAIN level THEN level[n] ELSE 0
        Place(level, n) ==
            LET l == Max({0} \cup {At(level, s) + 1 : s \in Sources(n, edges)})
            IN  [m \in DOMAIN level \cup {n} |-> IF m = n THEN l ELSE level[m]]
    IN  FoldLeft(Place, [m \in {} |-> 0], order)
=============================================================================
