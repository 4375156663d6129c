----------------------------- MODULE IntentFlow -----------------------------
(* How work enters the system: callers compile sentences through one intent   *)
(* cache, the surface turns events into intents, an intent is enriched and    *)
(* delegated, and an agent's proposal for it goes through the application's   *)
(* review.                                                                    *)
EXTENDS Intents

CONSTANTS
    Callers,             \* who compiles
    Events,              \* the events of the application
    Workloads,           \* what happens in a behaviour: the requests [text, requester, domain,
                         \* budget], the events, the intents a proposal is made for and the
                         \* bounds on intents made and on compilations begun (lookups)
    MaxDeliveries,       \* bound: how often one event is delivered
    MaxIntents           \* bound: the largest of the workloads' bounds on intents

\* A payload is an object with keys, an array with items or neither.
ASSUME EventsAssumption ==
    /\ \A w \in Workloads : w.events \subseteq Events
    /\ \A e \in Events : e.keys \in Nat /\ e.items \in Nat /\ (e.keys > 0 => e.items = 0)

VARIABLES
    work,       \* the workload of this behaviour
    cache,      \* words -> envelope: IntentCache, keyed by semantic_hash
    call,       \* caller -> its compilation
    lookups,    \* compilations begun
    intents,    \* envelopes in circulation
    lastId,     \* ids handed out
    parent,     \* id -> id it was delegated from (history)
    made,       \* event -> for each of its deliveries the intents made, by the
                \* position of the routed event (history)
    proposal    \* id of an intent -> the proposal built for it

vars == <<work, cache, call, lookups, intents, lastId, parent, made, proposal>>

Idle == [pc |-> "idle"]

Init ==
    /\ work \in Workloads
    /\ cache = <<>>
    /\ call = [c \in Callers |-> Idle]
    /\ lookups = 0
    /\ intents = {}
    /\ lastId = 0
    /\ parent = <<>>
    /\ made = [e \in Events |-> <<>>]
    /\ proposal = <<>>

With(f, key, value) == [k \in DOMAIN f \union {key} |-> IF k = key THEN value ELSE f[k]]

-----------------------------------------------------------------------------
(* IntentCompiler::compile: the look-up and the insertion lock the cache apart. *)

\* The key of the cache; the requester, the domain and the budget are no part of it.
Key(text) == text.words

\* Answer from the cache, or go on to compile.  `from` remembers lastId.
Lookup(c, request) ==
    LET hit == Key(request.text) \in DOMAIN cache
    IN  /\ call[c].pc # "missed"
        /\ lookups < work.lookups
        /\ lookups' = lookups + 1
        /\ call' = [call EXCEPT ![c] =
               IF hit THEN [pc |-> "hit", request |-> request, env |-> cache[Key(request.text)],
                            from |-> lastId]
               ELSE [pc |-> "missed", request |-> request]]
        /\ intents' = IF hit THEN intents \union {cache[Key(request.text)]} ELSE intents
        /\ UNCHANGED <<work, cache, lastId, parent, made, proposal>>

\* Mutant: the envelope is cached before it is validated.
Compile_CachedFirst(c) ==
    LET request == call[c].request
        env == Compiled(lastId + 1, request.text, request.requester, request.domain, request.budget)
    IN  /\ call[c].pc = "missed"
        /\ Classify(request.text) # NoKind
        /\ lastId < work.intents
        /\ lastId' = lastId + 1
        /\ cache' = With(cache, Key(request.text), env)
        /\ IF Valid(env)
             THEN /\ intents' = intents \union {env}
                  /\ call' = [call EXCEPT ![c] =
                         [pc |-> "compiled", request |-> request, env |-> env, from |-> lastId]]
             ELSE /\ call' = [call EXCEPT ![c] = [pc |-> "refused"]]
                  /\ UNCHANGED intents
        /\ UNCHANGED <<work, lookups, parent, made, proposal>>

\* The rest of the pipeline after a miss
Compile(c) ==
    LET request == call[c].request
        env == Compiled(lastId + 1, request.text, request.requester, request.domain, request.budget)
        asked == Classify(request.text) # NoKind /\ {"goal", "domain"} \intersect ToSet(QuestionsFor(env)) # {}
        refused == Classify(request.text) = NoKind \/ (~asked /\ ~Valid(env))
    IN  /\ call[c].pc = "missed"
        /\ IF asked \/ refused
             THEN /\ call' = [call EXCEPT ![c] = [pc |-> IF asked THEN "asked" ELSE "refused"]]
                  /\ UNCHANGED <<cache, intents, lastId>>
             ELSE /\ lastId < work.intents
                  /\ lastId' = lastId + 1
                  /\ cache' = With(cache, Key(request.text), env)
                  /\ intents' = intents \union {env}
                  /\ call' = [call EXCEPT ![c] =
                         [pc |-> "compiled", request |-> request, env |-> env, from |-> lastId]]
        /\ UNCHANGED <<work, lookups, parent, made, proposal>>

-----------------------------------------------------------------------------
(* What is done to an intent *)

\* Mutant: the bound is tested against the depth of the delegator.
Delegate_OneTooDeep(env) ==
    LET child == Child(env, lastId + 1)
    IN  /\ lastId < work.intents
        /\ env.depth <= MaxDepth
        /\ lastId' = lastId + 1
        /\ intents' = intents \union {child}
        /\ parent' = With(parent, child.id, env.id)
        /\ UNCHANGED <<work, cache, call, lookups, made, proposal>>

\* IntentEnvelope::delegate
Delegate(env) ==
    LET child == Child(env, lastId + 1)
    IN  /\ lastId < work.intents
        /\ child.depth <= MaxDepth
        /\ lastId' = lastId + 1
        /\ intents' = intents \union {child}
        /\ parent' = With(parent, child.id, env.id)
        /\ UNCHANGED <<work, cache, call, lookups, made, proposal>>

\* The holder of an intent enriches its own copy.
Enriching(env) ==
    /\ intents' = (intents \ {env}) \union {EnrichWithOntology(env)}
    /\ UNCHANGED <<work, cache, call, lookups, lastId, parent, made, proposal>>

\* Mutant: the id is drawn once for the event and not for each of its parts.
Deliver_OneId(event) ==
    LET routed == Route(event)
        ruled == {i \in DOMAIN routed : routed[i].type \in DOMAIN Rules}
        fresh == [i \in ruled |-> Adapted(routed[i], lastId + 1)]
    IN  /\ Len(made[event]) < MaxDeliveries
        /\ lastId < work.intents
        /\ lastId' = lastId + 1
        /\ intents' = intents \union {fresh[i] : i \in ruled}
        /\ made' = [made EXCEPT ![event] = Append(@, fresh)]
        /\ UNCHANGED <<work, cache, call, lookups, parent, proposal>>

\* The surface: an event is routed, and each event that comes out adapted.
Deliver(event) ==
    LET routed == Route(event)
        ruled == {i \in DOMAIN routed : routed[i].type \in DOMAIN Rules}
        fresh == [i \in ruled |-> Adapted(routed[i], lastId + i)]
        ids == IF ruled = {} THEN 0 ELSE Len(routed)
    IN  /\ Len(made[event]) < MaxDeliveries
        /\ lastId + ids <= work.intents
        /\ lastId' = lastId + ids
        /\ intents' = intents \union {fresh[i] : i \in ruled}
        /\ made' = [made EXCEPT ![event] = Append(@, fresh)]
        /\ UNCHANGED <<work, cache, call, lookups, parent, proposal>>

-----------------------------------------------------------------------------
(* Action proposals *)

\* ActionProposal::build: mutations need a compensation.
Build(id, mutates, compensated) ==
    /\ id \notin DOMAIN proposal
    /\ mutates => compensated
    /\ proposal' = With(proposal, id,
           [state |-> "Draft", mutates |-> mutates, compensated |-> compensated])
    /\ UNCHANGED <<work, cache, call, lookups, intents, lastId, parent, made>>

\* Mutant: a proposal the application edited goes back to review.
Legal_SecondReview ==
    {<<"Draft", "Proposed">>, <<"Proposed", "AppReview">>, <<"Transformed", "Accepted">>}
    \union {"AppReview"} \X {"Accepted", "Rejected", "Transformed", "Expired"}

\* ActionProposal::transition_to
Legal ==
    {<<"Draft", "Proposed">>, <<"Proposed", "AppReview">>}
    \union {"AppReview"} \X {"Accepted", "Rejected", "Transformed", "Expired"}

\* ProposalLifecycle: publish takes two transitions, the decisions one.
Steps(op) ==
    [publish |-> <<"Proposed", "AppReview">>, accept |-> <<"Accepted">>,
     reject |-> <<"Rejected">>, transform |-> <<"Transformed">>, expire |-> <<"Expired">>][op]

\* An operation stops at its first illegal transition and keeps the one before it.
After(state, steps) ==
    IF <<state, steps[1]>> \notin Legal THEN state
    ELSE IF Len(steps) = 2 /\ <<steps[1], steps[2]>> \in Legal THEN steps[2] ELSE steps[1]

Advance(id, op) ==
    /\ proposal' = [proposal EXCEPT ![id].state = After(@, Steps(op))]
    /\ UNCHANGED <<work, cache, call, lookups, intents, lastId, parent, made>>

-----------------------------------------------------------------------------
Next ==
    \/ \E c \in Callers : (\E r \in work.requests : Lookup(c, r)) \/ Compile(c)
    \/ \E env \in intents : Delegate(env) \/ Enriching(env)
    \/ \E e \in work.events : Deliver(e)
    \/ \E env \in intents, mutates, compensated \in BOOLEAN :
         env.id \in work.proposed /\ Build(env.id, mutates, compensated)
    \/ \E id \in DOMAIN proposal :
         \E op \in {"publish", "accept", "reject", "transform", "expire"} : Advance(id, op)

Spec == Init /\ [][Next]_vars

-----------------------------------------------------------------------------
(* Properties *)

\* Two callers share one cache keyed by the words alone.  Whoever compiled the
\* envelope a caller is answered with, it was compiled of the same words, it
\* passed validation, and an answer that belongs to somebody else was compiled
\* before this caller looked: compile() never answers with an envelope that is
\* still being made or was refused.
AnswerFitsTheWords ==
    \A c \in Callers : call[c].pc \in {"hit", "compiled"} =>
        LET env == call[c].env
        IN  /\ env.goal = call[c].request.text.words
            /\ Valid(env)
            /\ call[c].pc = "hit" => env.id <= call[c].from
            /\ env.requester # call[c].request.requester => call[c].pc = "hit"

\* However long a chain of delegations, its intents act for the requester, the
\* trace and the budget of the intent it began with, and the depth of each is
\* the number of delegations behind it, never above the limit of delegate().
ChainSpeaksForRoot ==
    \A env \in intents :
        /\ env.depth <= MaxDepth
        /\ (env.depth = 0) = (env.id \notin DOMAIN parent)
        /\ env.depth > 0 =>
             \E up \in intents :
                 /\ up.id = parent[env.id]
                 /\ up.depth = env.depth - 1
                 /\ <<up.requester, up.trace, up.budget>> = <<env.requester, env.trace, env.budget>>

\* For whom, in which trace and with which budget an envelope acts
Acts(env) == <<env.requester, env.trace, env.budget>>

\* Events are decomposed, adapted and enriched while callers compile and holders
\* delegate.  What adapt() made of an event acts for the session of that event
\* and nothing else is taken for it: the enriched copies and the intents
\* delegated from it act for the same requester in the same trace and budget, no
\* other event and no other part of the event has its id, and compile() never
\* answers a caller with it.
IntentIsOfItsEvent ==
    \A e \in Events : \A i \in DOMAIN made[e] : \A n \in DOMAIN made[e][i] :
        LET it == made[e][i][n]
        IN  /\ it.requester = e.session
            /\ \A env \in intents :
                 env.id = it.id \/ (env.id \in DOMAIN parent /\ parent[env.id] = it.id) => Acts(env) = Acts(it)
            /\ \A d \in Events : \A j \in DOMAIN made[d] : \A m \in DOMAIN made[d][j] :
                 <<d, m>> # <<e, n>> => made[d][j][m].id # it.id
            /\ \A c \in Callers : call[c].pc \in {"hit", "compiled"} => call[c].env.id # it.id

\* The task an intent stands for, seen through its proposal
TaskOf(id) ==
    IF id \notin DOMAIN proposal THEN "Proposed"
    ELSE IF proposal[id].state \in {"Draft", "Proposed"} THEN "ProposedMutation"
    ELSE proposal[id].state

Life == INSTANCE TaskLifecycle WITH Tasks <- 1..MaxIntents,
                                    task <- [id \in 1..MaxIntents |-> TaskOf(id)]

\* The proposals of the surface crate and the tasks of the contracts crate have
\* a transition table each.  Through TaskOf every step of a proposal is a legal
\* step of its task, publish() with its two transitions included.
ProposalIsTask == Life!Spec
=============================================================================
