----------------------------- MODULE PlanCache ------------------------------
(***************************************************************************)
(* PlanCache (aaf-planner: cache.rs): a map and the order of insertion,    *)
(* read and written under one lock.                                        *)
(***************************************************************************)
EXTENDS Integers, Sequences, FiniteSets, FiniteSetsExt, SequencesExt

CONSTANT Capacity

ASSUME CapacityAssumption == Capacity \in Nat

EmptyCache == [map |-> [k \in {} |-> k], order |-> <<>>]

\* The k oldest entries leave.
DropOldest(c, k) ==
    LET gone == ToSet(SubSeq(c.order, 1, k))
    IN  [map   |-> [x \in DOMAIN c.map \ gone |-> c.map[x]],
         order |-> SubSeq(c.order, k + 1, Len(c.order))]

\* Pop until there is room for one more, or there is nothing to pop.
Evict(c) ==
    LET enough == {k \in 0..Len(c.order) : Cardinality(DOMAIN DropOldest(c, k).map) < Capacity}
    IN  DropOldest(c, IF enough = {} THEN Len(c.order) ELSE Min(enough))

Write(map, k, v) == [x \in DOMAIN map \cup {k} |-> IF x = k THEN v ELSE map[x]]

\* put: an update keeps its place, an insertion evicts first.
Put(c, k, v) ==
    IF k \in DOMAIN c.map
    THEN [c EXCEPT !.map = Write(@, k, v)]
    ELSE LET room == Evict(c)
         IN  [map |-> Write(room.map, k, v), order |-> Append(room.order, k)]
=============================================================================
