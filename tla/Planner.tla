------------------------------- MODULE Planner ------------------------------
(***************************************************************************)
(* RegistryPlanner (aaf-planner) between the registry it discovers in and  *)
(* the graph a caller, such as aaf-server's `run`, builds from the plan.   *)
(* Concurrent calls share the registry and the plan cache; each access to  *)
(* either takes its lock and tasks interleave in between.                  *)
(***************************************************************************)
EXTENDS Composition, GraphBuilder, PlanCache

CONSTANTS
    Tasks,
    Contracts,     \* contracts that may be published, several for one id
    Seeds,         \* the contracts the server registers at its start
    Intents,       \* [id, type, domain, goal, depth, cost, latency]
    Score,         \* Score[goal.text][id]: the hits among the query's terms
    DomainLimit,   \* limit of the discovery within the intent's domain
    AnyLimit,      \* limit of the discovery in every domain
    MaxChanges,    \* bound on the changes of the registry
    GraphNodes,    \* the nodes of the graphs Validate is checked on
    MaxEdges       \* bound on their edges

ASSUME PlannerAssumption ==
    /\ Seeds \subseteq Contracts /\ MaxChanges \in Nat
    /\ \A c, d \in Seeds : c.id = d.id => c = d
    /\ \A i, j \in Intents : i.id = j.id => i = j
    /\ \A c \in Contracts : c.class \in {"Public", "Internal", "Confidential", "Restricted"}
    /\ \A e \in DOMAIN Hint : Hint[e] \in {"Public", "Internal", "Pii", "Regulated"}

VARIABLES
    registry,      \* the contracts registered, one for an id
    cache,         \* the plan cache
    task,          \* each call: where it is, its intent, hits and answer
    graph,         \* the graph built last
    changes        \* changes of the registry so far

vars == <<registry, cache, task, graph, changes>>

NoIntent == [id |-> "none"]
NoPlan == [intent |-> "none", steps |-> <<>>, basis |-> {}]
Idle(intent, error, plan) ==
    [at |-> "idle", intent |-> intent, error |-> error, plan |-> plan]
NoGraph == [plan |-> NoPlan, tools |-> {}, result |-> [error |-> "Empty", order |-> <<>>]]

\* seed_to_capability, with parse_side_effect: a seed declares no dependency
\* and no entity, and an effect it does not know is a read.
SeedContract(id, effect, domains, deterministic) ==
    [id |-> id, deps |-> <<>>, writes |-> {}, reads |-> {}, class |-> "Internal",
     effect |-> IF effect \in WriteEffects \cup {"None"} THEN effect ELSE "Read",
     domains |-> domains, deterministic |-> deterministic]

-----------------------------------------------------------------------------
Init ==
    /\ registry = Seeds /\ cache = EmptyCache /\ changes = 0
    /\ task = [t \in Tasks |-> Idle(NoIntent, "none", NoPlan)]
    /\ graph = NoGraph

\* CapabilityPublisher::publish, one contract at a time: it replaces what the
\* registry holds for the id.
Publish(c) ==
    /\ changes < MaxChanges /\ changes' = changes + 1
    /\ registry' = {d \in registry : d.id # c.id} \cup {c}
    /\ UNCHANGED <<cache, task, graph>>

Withdraw(c) ==
    /\ changes < MaxChanges /\ changes' = changes + 1
    /\ registry' = registry \ {c}
    /\ UNCHANGED <<cache, task, graph>>

-----------------------------------------------------------------------------
(* RegistryPlanner::plan.                                                  *)

\* key_for: the goal's spelling (case, outer blanks) is not part of the key.
KeyFor(intent) == <<intent.type, intent.domain, intent.goal.text>>

\* Cache lookup; a hit is returned as it is.
Lookup(t, intent) ==
    /\ task[t].at = "idle"
    /\ task' = [task EXCEPT ![t] =
           IF KeyFor(intent) \in DOMAIN cache.map
           THEN Idle(intent, "none", cache.map[KeyFor(intent)])
           ELSE [at |-> "scoped", intent |-> intent]]
    /\ UNCHANGED <<registry, cache, graph, changes>>

\* Registry::discover: the matches by falling score.  The registry lists them
\* in the order of a hash map, so equal scores come in any order.
Discoveries(intent, caps, limit) ==
    LET ScoreOf(c) == Score[intent.goal.text][c.id]
        found   == {c \in caps : ScoreOf(c) > 0}
        ranked  == {s \in [1..Cardinality(found) -> found] :
                       /\ ToSet(s) = found
                       /\ \A i \in 1..(Len(s) - 1) : ScoreOf(s[i]) >= ScoreOf(s[i + 1])}
    IN  {SubSeq(s, 1, Min({Len(s), limit})) : s \in ranked}

DiscoverScoped(t) ==
    /\ task[t].at = "scoped"
    /\ LET i == task[t].intent
           scoped == {c \in registry : i.domain \in c.domains}
       IN  \E hits \in Discoveries(i, scoped, DomainLimit) :
               task' = [task EXCEPT ![t] =
                   IF hits = <<>> THEN [at |-> "any", intent |-> i]
                   ELSE [at |-> "compose", intent |-> i, hits |-> hits]]
    /\ UNCHANGED <<registry, cache, graph, changes>>

DiscoverAny(t) ==
    /\ task[t].at = "any"
    /\ LET i == task[t].intent
       IN  \E hits \in Discoveries(i, registry, AnyLimit) :
               task' = [task EXCEPT ![t] =
                   IF hits = <<>> THEN Idle(i, "NoCapability", NoPlan)
                   ELSE [at |-> "compose", intent |-> i, hits |-> hits]]
    /\ UNCHANGED <<registry, cache, graph, changes>>

\* The best hit, and those of the others it names as dependencies.
Chosen(hits) ==
    <<Head(hits)>> \o SelectSeq(Tail(hits), LAMBDA c : c.id \in ToSet(Head(hits).deps))

\* topo_sort: depth first along the dependencies that were chosen.
Visit(caps) ==
    LET visit[st \in [visited : SUBSET caps, order : Seq(caps)], c \in caps] ==
            LET Below(s, d) ==
                    IF \E b \in caps : b.id = d
                    THEN visit[s, CHOOSE b \in caps : b.id = d] ELSE s
                done == FoldLeft(Below, [st EXCEPT !.visited = @ \cup {c}], c.deps)
            IN  IF c \in st.visited THEN st
                ELSE [done EXCEPT !.order = Append(@, c)]
    IN  visit

\* Mutant: the capabilities stay in the order of discovery.
TopoSort_Discovery(chosen) == chosen

TopoSort(chosen) ==
    FoldLeft(LAMBDA s, c : Visit(ToSet(chosen))[s, c],
             [visited |-> {}, order |-> <<>>], chosen).order

\* A plan names its capabilities; basis, for the properties, their contracts.
PlanOf(intent, hits) ==
    LET Step(c) == [cap |-> c.id, kind |-> IF c.deterministic THEN "Deterministic" ELSE "Agent"]
        ordered == TopoSort(Chosen(hits))
    IN  [intent |-> intent.id, basis |-> ToSet(ordered),
         steps  |-> [i \in DOMAIN ordered |-> Step(ordered[i])]]

\* Mutant: an intent beyond its bounds is planned all the same.
PlanError_Unbounded(intent, plan) == CompositionError(plan.basis)

\* Composition, then bounds.
PlanError(intent, plan) ==
    IF CompositionError(plan.basis) # "none" THEN CompositionError(plan.basis)
    ELSE BoundsError(intent, plan.steps)

\* From the hits, contracts and all, to the answer; only a plan is cached.
Compose(t) ==
    /\ task[t].at = "compose"
    /\ LET i     == task[t].intent
           plan  == PlanOf(i, task[t].hits)
           error == PlanError(i, plan)
       IN  /\ task' = [task EXCEPT ![t] =
                  Idle(i, error, IF error = "none" THEN plan ELSE NoPlan)]
           /\ cache' = IF error = "none" THEN Put(cache, KeyFor(i), plan) ELSE cache
    /\ UNCHANGED <<registry, graph, changes>>

-----------------------------------------------------------------------------
(* cmd_run of the server: a chain with one node for each step.             *)

StepsOf(plan) == {plan.steps[i].cap : i \in DOMAIN plan.steps}
Chain(plan) == {<<plan.steps[i].cap, plan.steps[i + 1].cap>> : i \in 1..(Len(plan.steps) - 1)}
Planned(t) == task[t].at = "idle" /\ task[t].plan # NoPlan

\* An agent step gets its capability as a tool if the registry still has it.
Build(t) ==
    /\ Planned(t)
    /\ LET plan   == task[t].plan
           agents == {s \in ToSet(plan.steps) : s.kind = "Agent"}
       IN  graph' = [plan |-> plan,
                     tools |-> {s.cap : s \in agents} \cap {c.id : c \in registry},
                     result |-> Validate(StepsOf(plan), Chain(plan), {})]
    /\ task' = [task EXCEPT ![t] = Idle(NoIntent, "none", NoPlan)]
    /\ UNCHANGED <<registry, cache, changes>>

Next ==
    \/ \E c \in Contracts \ registry : Publish(c)
    \/ \E c \in registry : Withdraw(c)
    \/ \E t \in Tasks :
        \/ \E i \in Intents : Lookup(t, i)
        \/ DiscoverScoped(t) \/ DiscoverAny(t) \/ Compose(t) \/ Build(t)

Spec == Init /\ [][Next]_vars

-----------------------------------------------------------------------------
(* Properties.                                                             *)

Plans == {cache.map[k] : k \in DOMAIN cache.map} \cup {graph.plan}
         \cup {task[t].plan : t \in {u \in Tasks : task[u].at = "idle"}}

Position(plan, id) == CHOOSE i \in DOMAIN plan.steps : plan.steps[i].cap = id
Depends(plan) == {<<c.id, d.id>> : c \in plan.basis, d \in plan.basis}
                 \cap UNION {{<<c.id, d>> : d \in ToSet(c.deps)} : c \in plan.basis}

\* Along R, b can be reached from a: every set closed under R and with a has b.
Reaches(R, S, a, b) ==
    \A T \in SUBSET S : a \in T /\ (\A e \in R : e[1] \in T => e[2] \in T) => b \in T

\* In every plan, cached or returned, each capability comes after the ones it
\* depends on, unless they depend on it in turn (planner.rs:77-81, 176-179);
\* whatever order the registry listed them in.
DependenciesFirst ==
    \A plan \in Plans : \A e \in Depends(plan) :
        \/ Position(plan, e[2]) < Position(plan, e[1])
        \/ Reaches(Depends(plan), StepsOf(plan), e[2], e[1])

\* A plan whose contracts are all registered still is safe, however long it
\* was cached and whatever was published and withdrawn meanwhile: no two of its
\* capabilities write one entity, few enough write at all, and none reads what
\* is classified above it.
SafeUntilReplaced ==
    EntityAware => \A plan \in Plans : plan.basis \subseteq registry =>
        /\ \A c, d \in plan.basis : c # d =>
               {w.entity : w \in c.writes} \cap {w.entity : w \in d.writes} = {}
        /\ Cardinality({c \in plan.basis : c.effect \in WriteEffects}) <= MaxWrites
        /\ \A c \in plan.basis : \A e \in c.reads \cap DOMAIN Hint :
               LevelOfCapability(c.class) >= Level(Hint[e])

\* The cache knows an intent by its type, domain and goal, and a hit skips the
\* bounds (planner.rs:95-97).  Whichever of the tasks that missed a key put its
\* plan there, a task is answered with a plan made for its own type, domain and
\* goal and within the bounds (Rule 8) of the intent it was made for.  Map and
\* insertion order stay in step, so that eviction finds its victim, and the
\* capacity holds, with room for one plan when it is 0 (cache.rs:66-87).
CacheServesItsKey ==
    /\ \A t \in Tasks : Planned(t) =>
         LET i == task[t].intent
             maker == CHOOSE j \in Intents : j.id = task[t].plan.intent
         IN  /\ <<maker.type, maker.domain, maker.goal.text>> = <<i.type, i.domain, i.goal.text>>
             /\ BoundsError(maker, task[t].plan.steps) = "none"
    /\ ToSet(cache.order) = DOMAIN cache.map
    /\ IsInjective(cache.order)
    /\ Len(cache.order) <= Max({1, Capacity})

\* Graph::validate and parallel_levels on every small graph: it is rejected
\* exactly when an edge or a compensator names a node that is not there or the
\* edges form a cycle; otherwise the order holds every node once, no node comes
\* before one of its sources, and no level joins two nodes with an edge.
ValidateIsSound ==
    \A nodes \in SUBSET GraphNodes \ {{}}, k \in 0..MaxEdges : \A edges \in kSubset(k, GraphNodes \X GraphNodes) :
        LET r      == Validate(nodes, edges, {})
            inside == \A e \in edges : {e[1], e[2]} \subseteq nodes
            cyclic == \E e \in edges : Reaches(edges, nodes, e[2], e[1])
            pos(n) == CHOOSE i \in DOMAIN r.order : r.order[i] = n
            level  == Levels(edges, r.order)
        IN  /\ (r.error = "MissingNode") = ~inside
            /\ inside => (r.error = "Cycle") = cyclic
            /\ r.error = "none" =>
                 /\ ToSet(r.order) = nodes /\ Len(r.order) = Cardinality(nodes)
                 /\ \A e \in edges : pos(e[1]) < pos(e[2]) /\ level[e[1]] < level[e[2]]

\* The server's graph of any plan the planner or its cache returns is accepted
\* and runs the steps in the plan's order, by a validation that is right for
\* every small graph (graph.rs:60-130).
GraphFollowsPlan ==
    /\ ValidateIsSound
    /\ graph.plan # NoPlan =>
         graph.result = [error |-> "none",
                         order |-> [i \in DOMAIN graph.plan.steps |-> graph.plan.steps[i].cap]]
=============================================================================
