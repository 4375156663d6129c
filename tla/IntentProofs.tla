---------------------------- MODULE IntentProofs ----------------------------
(***************************************************************************)
(* Proofs about IntentFlow, for every set of callers, requests, events and *)
(* rules: what a caller is answered with, what a chain of delegations may  *)
(* do, what a delivery makes, and that a proposal is a task.               *)
(***************************************************************************)
EXTENDS IntentFlow, TLAPS

\* The fields of an envelope that the steps below read or replace
Fields == {"id", "depth", "requester", "trace", "budget", "constraints", "approval", "entities"}

\* An envelope, its id among those handed out
Envelope(env) ==
    /\ Fields \subseteq DOMAIN env
    /\ env.id \in 1..lastId
    /\ env.depth \in Nat

\* An envelope that nobody delegated
Root(env) == Envelope(env) /\ env.depth = 0 /\ env.id \notin DOMAIN parent

\* up is the envelope that env was delegated from.
Above(up, env) ==
    /\ up.id = parent[env.id]
    /\ up.depth = env.depth - 1
    /\ <<up.requester, up.trace, up.budget>> = <<env.requester, env.trace, env.budget>>

\* One envelope of the inductive invariant: its depth is within the limit, and is
\* zero just when it has no delegator; else its delegator is still there.
Chained(env) ==
    /\ env.depth <= MaxDepth
    /\ (env.depth = 0) = (env.id \notin DOMAIN parent)
    /\ env.depth > 0 => \E up \in intents : Above(up, env)

\* What the cache holds was validated and never delegated: compile() puts it there
\* after validate(), and enrich() and delegate() work on copies.
Cached(words) ==
    /\ Root(cache[words])
    /\ cache[words].goal = words
    /\ Valid(cache[words])

\* A caller that has an answer has a validated one for its words.
Answered(c) ==
    call[c].pc \in {"hit", "compiled"} =>
        /\ call[c].env.goal = call[c].request.text.words
        /\ Valid(call[c].env)
        /\ call[c].pc = "hit" => call[c].env.id <= call[c].from
        /\ call[c].env.requester # call[c].request.requester => call[c].pc = "hit"

ChainInv ==
    /\ lastId \in Nat
    /\ DOMAIN call = Callers
    /\ DOMAIN parent \subseteq 1..lastId
    /\ \A words \in DOMAIN cache : Cached(words)
    /\ \A c \in Callers : Answered(c)
    /\ \A env \in intents : Envelope(env) /\ Chained(env)

-----------------------------------------------------------------------------
(* The operators *)

\* Compiled() makes an envelope of the words, for the requester, at depth zero
\* (IntentCompiler::compile).
LEMMA CompiledFacts ==
    ASSUME NEW id, NEW text, NEW requester, NEW domain, NEW budget
    PROVE  LET env == Compiled(id, text, requester, domain, budget)
           IN  /\ Fields \subseteq DOMAIN env
               /\ env.id = id /\ env.depth = 0
               /\ env.goal = text.words /\ env.requester = requester
BY DEF Compiled, Enrich, Fields

\* enrich_with_ontology() touches neither who an envelope is for nor its place in
\* a chain.
LEMMA EnrichedFacts ==
    ASSUME NEW env, Fields \subseteq DOMAIN env
    PROVE  LET rich == EnrichWithOntology(env)
           IN  /\ DOMAIN rich = DOMAIN env
               /\ rich.id = env.id /\ rich.depth = env.depth
               /\ rich.requester = env.requester
               /\ rich.trace = env.trace /\ rich.budget = env.budget
BY DEF EnrichWithOntology, Enrich, Fields

\* delegate() changes the id and the depth.
LEMMA ChildFacts ==
    ASSUME NEW env, Fields \subseteq DOMAIN env, NEW id
    PROVE  LET child == Child(env, id)
           IN  /\ DOMAIN child = DOMAIN env
               /\ child.id = id /\ child.depth = env.depth + 1
               /\ child.requester = env.requester
               /\ child.trace = env.trace /\ child.budget = env.budget
BY DEF Child, Fields

\* An adapted event is an envelope at depth zero, for the session of the event
\* (RuleBasedAdapter::adapt).
LEMMA AdaptedFacts ==
    ASSUME NEW event, NEW id
    PROVE  /\ Fields \subseteq DOMAIN Adapted(event, id)
           /\ Adapted(event, id).id = id /\ Adapted(event, id).depth = 0
           /\ Adapted(event, id).requester = event.session
BY DEF Adapted, Fields

\* Routing gives a list of events of the same session: the event itself, or the
\* parts of an array (EventRouter::route).
LEMMA RouteFacts ==
    ASSUME NEW e \in Events
    PROVE  /\ Len(Route(e)) \in Nat /\ DOMAIN Route(e) = 1..Len(Route(e))
           /\ \A i \in DOMAIN Route(e) : Route(e)[i].session = e.session
<1>1. CASE CategoryOf(e) = "Composite"
  <2> DEFINE part(i) == [e EXCEPT !.type = Append(@, i), !.items = 0]
  <2>1. e.items \in Nat
    BY EventsAssumption
  <2>2. Route(e) = [i \in 1..e.items |-> part(i)]
    BY <1>1 DEF Route, Decompose
  <2>3. \A i : part(i).session = e.session
    OBVIOUS
  <2> HIDE DEF part
  <2>4. Len([i \in 1..e.items |-> part(i)]) = e.items
    BY <2>1
  <2> QED
    BY <2>1, <2>2, <2>3, <2>4
<1>2. CASE CategoryOf(e) # "Composite"
  <2>1. Route(e) = <<e>>
    BY <1>2 DEF Route
  <2> QED
    BY <2>1
<1> QED
  BY <1>1, <1>2

-----------------------------------------------------------------------------
(* Every step preserves ChainInv *)

\* What is there stays an envelope, and stays without a delegator, when ids are
\* handed out and only a new one gets a delegator.
LEMMA EnvelopesStay ==
    ASSUME ChainInv, NEW env, Envelope(env),
           lastId' \in Nat, lastId' >= lastId,
           DOMAIN parent' \subseteq DOMAIN parent \union {lastId + 1}
    PROVE  /\ Envelope(env)'
           /\ Root(env) => Root(env)'
BY DEF ChainInv, Envelope, Root

\* A chain stays a chain while its delegators stay in circulation and keep their
\* places in `parent'.
LEMMA ChainsStay ==
    ASSUME NEW env, Chained(env), intents \subseteq intents',
           (env.id \in DOMAIN parent) = (env.id \in DOMAIN parent'),
           env.id \in DOMAIN parent => parent'[env.id] = parent[env.id]
    PROVE  Chained(env)'
BY DEF Chained, Above

\* An envelope nobody delegated is a chain of its own.
LEMMA RootIsChain ==
    ASSUME NEW env, Root(env) PROVE Chained(env)
BY DepthAssumption DEF Root, Envelope, Chained

LEMMA ChainInvInit == Init => ChainInv
BY DEF Init, ChainInv, Idle, Answered

LEMMA ChainInvLookup ==
    ASSUME ChainInv, NEW c \in Callers, NEW request, Lookup(c, request)
    PROVE  ChainInv'
<1> DEFINE key == Key(request.text)
<1>1. lastId' = lastId /\ parent' = parent /\ cache' = cache
  BY DEF Lookup
<1>2. \A env : (Envelope(env) => Envelope(env)') /\ (Root(env) => Root(env)')
  BY <1>1 DEF Envelope, Root
<1>3. \A words \in DOMAIN cache' : Cached(words)'
  BY <1>1, <1>2 DEF ChainInv, Cached, Valid
<1>4. intents \subseteq intents'
  BY DEF Lookup
<1>5. \A env \in intents' : Envelope(env)' /\ Chained(env)'
  <2> SUFFICES ASSUME NEW env \in intents' PROVE Envelope(env)' /\ Chained(env)'
    OBVIOUS
  <2>1. CASE env \in intents
    BY <2>1, <1>1, <1>2, <1>4, ChainsStay DEF ChainInv
  <2>2. CASE env \notin intents
    <3>1. key \in DOMAIN cache /\ env = cache[key]
      BY <2>2 DEF Lookup
    <3>2. Root(env)
      BY <3>1 DEF ChainInv, Cached
    <3> QED
      BY <3>2, <1>1, <1>2, <1>4, RootIsChain, ChainsStay DEF Root
  <2> QED
    BY <2>1, <2>2
<1>6. DOMAIN call' = Callers
  BY DEF Lookup, ChainInv
<1>7. \A d \in Callers : Answered(d)'
  <2> SUFFICES ASSUME NEW d \in Callers PROVE Answered(d)'
    OBVIOUS
  <2>1. CASE d # c
    BY <2>1 DEF Lookup, ChainInv, Answered, Valid
  <2>2. CASE d = c /\ key \notin DOMAIN cache
    BY <2>2 DEF Lookup, ChainInv, Answered
  <2>3. CASE d = c /\ key \in DOMAIN cache
    <3>1. call'[c] = [pc |-> "hit", request |-> request, env |-> cache[key], from |-> lastId]
      BY <2>3 DEF Lookup, ChainInv
    <3>2. Cached(key)
      BY <2>3 DEF ChainInv
    <3>3. cache[key].id <= lastId /\ cache[key].goal = request.text.words /\ Valid(cache[key])
      BY <3>2 DEF Cached, Root, Envelope, Key, ChainInv
    <3> HIDE DEF key
    <3> QED
      BY <2>3, <3>1, <3>3 DEF Answered, Valid
  <2> QED
    BY <2>1, <2>2, <2>3
<1> QED
  BY <1>1, <1>3, <1>5, <1>6, <1>7 DEF ChainInv

LEMMA ChainInvCompile ==
    ASSUME ChainInv, NEW c \in Callers, Compile(c)
    PROVE  ChainInv'
<1>1. CASE cache' = cache /\ intents' = intents /\ lastId' = lastId
  <2>1. parent' = parent /\ DOMAIN call' = Callers
    BY DEF Compile, ChainInv
  <2>2. \A e : (Envelope(e) <=> Envelope(e)') /\ (Root(e) <=> Root(e)') /\ (Chained(e) <=> Chained(e)')
    BY <1>1, <2>1 DEF Envelope, Root, Chained, Above
  <2>3. \A d \in Callers : Answered(d)'
    <3> SUFFICES ASSUME NEW d \in Callers PROVE Answered(d)'
      OBVIOUS
    <3>1. CASE d # c
      BY <3>1 DEF Compile, ChainInv, Answered, Valid
    <3>2. CASE d = c
      <4>1. call'[c] \in {[pc |-> "asked"], [pc |-> "refused"]}
        BY <1>1 DEF Compile, ChainInv
      <4> QED
        BY <3>2, <4>1 DEF Answered
    <3> QED
      BY <3>1, <3>2
  <2> QED
    BY <1>1, <2>1, <2>2, <2>3 DEF ChainInv, Cached, Valid
<1>2. CASE ~(cache' = cache /\ intents' = intents /\ lastId' = lastId)
  <2> PICK request : request = call[c].request
    OBVIOUS
  <2> PICK env : env = Compiled(lastId + 1, request.text, request.requester, request.domain, request.budget)
    OBVIOUS
  <2> DEFINE key == Key(request.text)
  <2>1. /\ Valid(env)
        /\ lastId' = lastId + 1 /\ parent' = parent
        /\ cache' = With(cache, key, env)
        /\ intents' = intents \union {env}
        /\ call' = [call EXCEPT ![c] =
              [pc |-> "compiled", request |-> request, env |-> env, from |-> lastId]]
    BY <1>2 DEF Compile
  <2>2. /\ Fields \subseteq DOMAIN env
        /\ env.id = lastId + 1 /\ env.depth = 0
        /\ env.goal = request.text.words /\ env.requester = request.requester
    BY CompiledFacts
  <2>3. Root(env)' /\ lastId' \in Nat
    BY <2>1, <2>2 DEF Root, Envelope, ChainInv
  <2>4. \A e : (Envelope(e) => Envelope(e)') /\ (Root(e) => Root(e)')
    BY <2>1, <2>3, EnvelopesStay DEF Root, ChainInv
  <2>5. \A words \in DOMAIN cache' : Cached(words)'
    <3> SUFFICES ASSUME NEW words \in DOMAIN cache' PROVE Cached(words)'
      OBVIOUS
    <3>0. /\ DOMAIN cache' = DOMAIN cache \union {key}
          /\ cache'[key] = env
          /\ \A k \in DOMAIN cache : k # key => cache'[k] = cache[k]
      <4>1. cache' = With(cache, key, env)
        BY <2>1
      <4> HIDE DEF key
      <4> QED
        BY <4>1 DEF With
    <3> HIDE DEF key
    <3>1. CASE words = key
      <4>1. cache'[words] = env
        BY <3>1, <3>0
      <4>2. key = request.text.words
        BY DEF key, Key
      <4> QED
        BY <3>1, <4>1, <4>2, <2>1, <2>2, <2>3 DEF Cached, Valid
    <3>2. CASE words # key
      <4>1. words \in DOMAIN cache /\ cache'[words] = cache[words]
        BY <3>2, <3>0
      <4> QED
        BY <4>1, <2>4 DEF Cached, Valid, ChainInv
    <3> QED
      BY <3>1, <3>2
  <2>6. \A e \in intents' : Envelope(e)' /\ Chained(e)'
    <3>1. Envelope(env)' /\ Chained(env)'
      BY <2>2, <2>3, DepthAssumption DEF Root, Chained
    <3>2. \A e \in intents : Envelope(e)' /\ Chained(e)'
      BY <2>1, <2>4, ChainsStay DEF ChainInv
    <3> QED
      BY <2>1, <3>1, <3>2
  <2>7. DOMAIN call' = Callers
    BY <2>1 DEF ChainInv
  <2>8. \A d \in Callers : Answered(d)'
    <3> SUFFICES ASSUME NEW d \in Callers PROVE Answered(d)'
      OBVIOUS
    <3>1. CASE d # c
      BY <3>1, <2>1 DEF ChainInv, Answered, Valid
    <3>2. CASE d = c
      <4>1. call'[c] = [pc |-> "compiled", request |-> request, env |-> env, from |-> lastId]
        BY <2>1 DEF ChainInv
      <4> QED
        BY <3>2, <4>1, <2>1, <2>2 DEF Answered, Valid
    <3> QED
      BY <3>1, <3>2
  <2>9. DOMAIN parent' \subseteq 1..lastId'
    BY <2>1 DEF ChainInv
  <2> QED
    BY <2>3, <2>5, <2>6, <2>7, <2>8, <2>9 DEF ChainInv
<1> QED
  BY <1>1, <1>2

LEMMA ChainInvDelegate ==
    ASSUME ChainInv, NEW env \in intents, Delegate(env)
    PROVE  ChainInv'
<1> PICK child : child = Child(env, lastId + 1)
  OBVIOUS
<1>1. /\ lastId' = lastId + 1 /\ child.depth <= MaxDepth
      /\ intents' = intents \union {child}
      /\ parent' = With(parent, child.id, env.id)
      /\ cache' = cache /\ call' = call
  BY DEF Delegate
<1>2. Envelope(env) /\ Chained(env)
  BY DEF ChainInv
<1>3. /\ Fields \subseteq DOMAIN child
      /\ child.id = lastId + 1 /\ child.depth = env.depth + 1
      /\ child.requester = env.requester /\ child.trace = env.trace /\ child.budget = env.budget
  BY <1>2, ChildFacts DEF Envelope
<1>4. /\ DOMAIN parent' = DOMAIN parent \union {lastId + 1}
      /\ parent'[lastId + 1] = env.id
      /\ \A k \in DOMAIN parent : k # lastId + 1 => parent'[k] = parent[k]
  BY <1>1, <1>3 DEF With
<1>5. lastId' \in Nat /\ DOMAIN parent' \subseteq 1..lastId'
  BY <1>1, <1>4 DEF ChainInv
<1>6. \A e : (Envelope(e) => Envelope(e)') /\ (Root(e) => Root(e)')
  BY <1>1, <1>4, <1>5, EnvelopesStay DEF Root, ChainInv
<1>7. \A e \in intents : Envelope(e)' /\ Chained(e)'
  <2> SUFFICES ASSUME NEW e \in intents PROVE Envelope(e)' /\ Chained(e)'
    OBVIOUS
  <2>1. Envelope(e) /\ Chained(e) /\ e.id # lastId + 1
    BY DEF ChainInv, Envelope
  <2>2. /\ (e.id \in DOMAIN parent) = (e.id \in DOMAIN parent')
        /\ e.id \in DOMAIN parent => parent'[e.id] = parent[e.id]
    BY <2>1, <1>4
  <2> QED
    BY <2>1, <2>2, <1>1, <1>6, ChainsStay
<1>8. Envelope(child)' /\ Chained(child)'
  <2>1. Envelope(child)'
    BY <1>1, <1>2, <1>3 DEF Envelope, ChainInv
  <2>2. Above(env, child)'
    BY <1>2, <1>3, <1>4 DEF Above, Envelope
  <2>3. child.depth > 0 /\ child.id \in DOMAIN parent'
    BY <1>2, <1>3, <1>4 DEF Envelope
  <2> QED
    BY <1>1, <2>1, <2>2, <2>3 DEF Chained
<1>9. \A words \in DOMAIN cache' : Cached(words)'
  BY <1>1, <1>6 DEF ChainInv, Cached, Valid
<1>10. (\A c \in Callers : Answered(c)') /\ DOMAIN call' = Callers
  BY <1>1 DEF ChainInv, Answered, Valid
<1> QED
  BY <1>1, <1>5, <1>7, <1>8, <1>9, <1>10 DEF ChainInv

LEMMA ChainInvEnriching ==
    ASSUME ChainInv, NEW env \in intents, Enriching(env)
    PROVE  ChainInv'
<1> PICK rich : rich = EnrichWithOntology(env)
  OBVIOUS
<1>1. /\ lastId' = lastId /\ parent' = parent /\ cache' = cache /\ call' = call
      /\ intents' = (intents \ {env}) \union {rich}
  BY DEF Enriching
<1>2. Envelope(env) /\ Chained(env)
  BY DEF ChainInv
<1>3. /\ DOMAIN rich = DOMAIN env
      /\ rich.id = env.id /\ rich.depth = env.depth
      /\ rich.requester = env.requester /\ rich.trace = env.trace /\ rich.budget = env.budget
  BY <1>2, EnrichedFacts DEF Envelope
<1>4. \A e : (Envelope(e) => Envelope(e)') /\ (Root(e) => Root(e)')
  BY <1>1 DEF Envelope, Root
<1>5. ASSUME NEW e, Chained(e) PROVE Chained(e)'
  <2>1. CASE e.depth > 0
    <3>1. PICK up \in intents : Above(up, e)
      BY <1>5, <2>1 DEF Chained
    <3>2. \E u \in intents' : Above(u, e)'
      <4>1. CASE up # env
        BY <3>1, <4>1, <1>1 DEF Above
      <4>2. CASE up = env
        <5>1. rich \in intents'
          BY <1>1
        <5>2. Above(rich, e)'
          BY <3>1, <4>2, <1>1, <1>3 DEF Above
        <5> QED
          BY <5>1, <5>2
      <4> QED
        BY <4>1, <4>2
    <3> QED
      BY <1>1, <1>5, <3>2 DEF Chained
  <2>2. CASE ~(e.depth > 0)
    BY <1>1, <1>5, <2>2 DEF Chained
  <2> QED
    BY <2>1, <2>2
<1>6. Envelope(rich)' /\ Chained(rich)
  <2>1. Envelope(rich)'
    BY <1>1, <1>2, <1>3 DEF Envelope
  <2>2. \A up : Above(up, env) => Above(up, rich)
    BY <1>3 DEF Above
  <2> QED
    BY <1>2, <1>3, <2>1, <2>2 DEF Chained
<1>7. \A e \in intents' : Envelope(e)' /\ Chained(e)'
  BY <1>1, <1>4, <1>5, <1>6 DEF ChainInv
<1>8. \A words \in DOMAIN cache' : Cached(words)'
  BY <1>1, <1>4 DEF ChainInv, Cached, Valid
<1>9. (\A c \in Callers : Answered(c)') /\ DOMAIN call' = Callers
  BY <1>1 DEF ChainInv, Answered, Valid
<1> QED
  BY <1>1, <1>7, <1>8, <1>9 DEF ChainInv

LEMMA ChainInvDeliver ==
    ASSUME ChainInv, NEW event \in Events, Deliver(event)
    PROVE  ChainInv'
<1> DEFINE routed == Route(event)
           ruled == {i \in DOMAIN routed : routed[i].type \in DOMAIN Rules}
<1>1. /\ lastId' = lastId + IF ruled = {} THEN 0 ELSE Len(routed)
      /\ parent' = parent /\ cache' = cache /\ call' = call
      /\ intents' = intents \union {Adapted(routed[i], lastId + i) : i \in ruled}
  BY DEF Deliver
<1>2. Len(routed) \in Nat /\ ruled \subseteq 1..Len(routed)
  BY RouteFacts
<1> HIDE DEF routed, ruled
<1>3. lastId' \in Nat /\ lastId' >= lastId /\ (\A i \in ruled : lastId + i \in 1..lastId' /\ lastId + i > lastId)
  BY <1>1, <1>2 DEF ChainInv
<1>4. \A e : (Envelope(e) => Envelope(e)') /\ (Root(e) => Root(e)')
  BY <1>1, <1>3, EnvelopesStay DEF Root
<1>5. \A e \in intents : Envelope(e)' /\ Chained(e)'
  BY <1>1, <1>4, ChainsStay DEF ChainInv
<1>6. ASSUME NEW i \in ruled, NEW e, e = Adapted(routed[i], lastId + i)
      PROVE  Envelope(e)' /\ Chained(e)'
  <2>1. Fields \subseteq DOMAIN e /\ e.id = lastId + i /\ e.depth = 0
    BY <1>6, AdaptedFacts
  <2>2. e.id \in 1..lastId' /\ e.id \notin DOMAIN parent'
    BY <2>1, <1>1, <1>2, <1>3 DEF ChainInv
  <2> QED
    BY <2>1, <2>2, DepthAssumption DEF Envelope, Chained
<1>7. \A e \in intents' : Envelope(e)' /\ Chained(e)'
  BY <1>1, <1>5, <1>6
<1>8. \A words \in DOMAIN cache' : Cached(words)'
  BY <1>1, <1>4 DEF ChainInv, Cached, Valid
<1>9. (\A c \in Callers : Answered(c)') /\ DOMAIN call' = Callers
  BY <1>1 DEF ChainInv, Answered, Valid
<1>10. DOMAIN parent' \subseteq 1..lastId'
  BY <1>1, <1>3 DEF ChainInv
<1> QED
  BY <1>3, <1>7, <1>8, <1>9, <1>10 DEF ChainInv

LEMMA ChainInvNext == work \in Workloads /\ ChainInv /\ [Next]_vars => ChainInv'
<1> SUFFICES ASSUME work \in Workloads, ChainInv, [Next]_vars PROVE ChainInv'
  OBVIOUS
<1>1. ASSUME NEW c \in Callers, NEW r, Lookup(c, r) PROVE ChainInv'
  BY <1>1, ChainInvLookup
<1>2. ASSUME NEW c \in Callers, Compile(c) PROVE ChainInv'
  BY <1>2, ChainInvCompile
<1>3. ASSUME NEW env \in intents, Delegate(env) PROVE ChainInv'
  BY <1>3, ChainInvDelegate
<1>4. ASSUME NEW env \in intents, Enriching(env) PROVE ChainInv'
  BY <1>4, ChainInvEnriching
<1>5. ASSUME NEW e \in Events, Deliver(e) PROVE ChainInv'
  BY <1>5, ChainInvDeliver
<1>6. ASSUME UNCHANGED <<cache, call, intents, lastId, parent>> PROVE ChainInv'
  BY <1>6 DEF ChainInv, Cached, Root, Envelope, Chained, Above, Answered, Valid
<1>7. work.events \subseteq Events
  BY EventsAssumption
<1> QED
  BY <1>1, <1>2, <1>3, <1>4, <1>5, <1>6, <1>7 DEF Next, Build, Advance, vars

-----------------------------------------------------------------------------
(* Deliveries *)

\* Delivery i of e made an intent of its routed event n.
MadeAt(e, i, n) == e \in Events /\ i \in DOMAIN made[e] /\ n \in DOMAIN made[e][i]

HasAnswer(c) == call[c].pc \in {"hit", "compiled"}

\* What was made of e acts for its session; who has its id acts as it does; and
\* neither the cache nor an answer of compile() has its id.
Own(e, it) ==
    /\ it.requester = e.session
    /\ it.id \in 1..lastId
    /\ \A env \in intents : env.id = it.id => Acts(env) = Acts(it)
    /\ \A words \in DOMAIN cache : cache[words].id # it.id
    /\ \A c \in Callers : HasAnswer(c) => call[c].env.id # it.id

DeliveryInv ==
    /\ DOMAIN made = Events
    /\ \A e \in Events : \E S : made[e] \in Seq(S)
    /\ \A e, i, n : MadeAt(e, i, n) => Own(e, made[e][i][n])
    /\ \A e, i, n, d, j, m :
         MadeAt(e, i, n) /\ MadeAt(d, j, m) /\ made[d][j][m].id = made[e][i][n].id => <<d, j, m>> = <<e, i, n>>
    /\ \A c \in Callers : HasAnswer(c) => call[c].env.id \in 1..lastId

LEMMA DeliveryInvInit == Init => DeliveryInv
<1> SUFFICES ASSUME Init PROVE DeliveryInv
  OBVIOUS
<1>1. DOMAIN made = Events /\ \A e \in Events : made[e] = <<>>
  BY DEF Init
<1>2. <<>> \in Seq({}) /\ DOMAIN <<>> = {}
  OBVIOUS
<1>3. \A e \in Events : \E S : made[e] \in Seq(S)
  BY <1>1, <1>2
<1>4. \A e, i, n : ~MadeAt(e, i, n)
  BY <1>1, <1>2 DEF MadeAt
<1>5. \A c \in Callers : ~HasAnswer(c)
  BY DEF Init, Idle, HasAnswer
<1> QED
  BY <1>1, <1>3, <1>4, <1>5 DEF DeliveryInv

LEMMA DeliveryInvDeliver ==
    ASSUME ChainInv, DeliveryInv, NEW event \in Events, Deliver(event)
    PROVE  DeliveryInv'
<1> DEFINE routed == Route(event)
           ruled == {i \in DOMAIN routed : routed[i].type \in DOMAIN Rules}
<1> PICK fresh : fresh = [i \in ruled |-> Adapted(routed[i], lastId + i)]
  OBVIOUS
<1>1. /\ lastId' = lastId + IF ruled = {} THEN 0 ELSE Len(routed)
      /\ made' = [made EXCEPT ![event] = Append(@, fresh)]
      /\ intents' = intents \union {fresh[i] : i \in ruled}
      /\ cache' = cache /\ call' = call
  BY DEF Deliver
<1>2. /\ Len(routed) \in Nat /\ ruled \subseteq 1..Len(routed)
      /\ \A i \in ruled : routed[i].session = event.session
  BY RouteFacts
<1> HIDE DEF routed, ruled
<1>3. DOMAIN fresh = ruled
  OBVIOUS
<1>4. \A i \in ruled : fresh[i].id = lastId + i /\ fresh[i].requester = event.session
  BY <1>2, AdaptedFacts
<1>5. lastId \in Nat /\ lastId' \in Nat /\ lastId' >= lastId
  BY <1>1, <1>2 DEF ChainInv
<1>6. \A i \in ruled : i \in Nat /\ fresh[i].id \in 1..lastId' /\ fresh[i].id \notin 1..lastId
  BY <1>1, <1>2, <1>4, <1>5
<1>7. \A i, k \in ruled : fresh[i].id = fresh[k].id => i = k
  BY <1>4, <1>5, <1>6
<1>8. /\ \A env \in intents : env.id \in 1..lastId
      /\ \A words \in DOMAIN cache : cache[words].id \in 1..lastId
  BY DEF ChainInv, Envelope, Cached, Root
<1>9. DOMAIN made' = Events /\ \A e \in Events : e # event => made'[e] = made[e]
  BY <1>1 DEF DeliveryInv
<1>10. PICK S : made[event] \in Seq(S)
  BY DEF DeliveryInv
<1> PICK last \in Nat : last = Len(made[event])
  BY <1>10
<1>11. /\ made'[event] = Append(made[event], fresh)
       /\ made'[event] \in Seq(S \union {fresh})
  BY <1>1, <1>10 DEF DeliveryInv
<1>12. /\ DOMAIN made[event] = 1..last /\ DOMAIN made'[event] = 1..(last + 1)
       /\ made'[event][last + 1] = fresh
       /\ \A i \in 1..last : made'[event][i] = made[event][i]
  BY <1>10, <1>11
<1> DEFINE New(e, i, n) == e = event /\ i = last + 1 /\ n \in ruled
<1>13. ASSUME NEW e \in Events, NEW i \in DOMAIN made'[e], NEW n \in DOMAIN made'[e][i]
       PROVE  \/ MadeAt(e, i, n) /\ made'[e][i][n] = made[e][i][n]
              \/ New(e, i, n) /\ made'[e][i][n] = fresh[n]
  BY <1>3, <1>9, <1>12 DEF MadeAt
<1>14. \A e \in Events : \E T : made'[e] \in Seq(T)
  BY <1>9, <1>11 DEF DeliveryInv
<1>15. ASSUME NEW e, NEW i, NEW n, MadeAt(e, i, n)' PROVE Own(e, made[e][i][n])'
  <2> PICK it : it = made'[e][i][n]
    OBVIOUS
  <2>1. CASE New(e, i, n) /\ it = fresh[n]
    <3>1. it.requester = e.session /\ it.id \in 1..lastId' /\ it.id \notin 1..lastId
      BY <2>1, <1>4, <1>6
    <3>2. \A env \in intents' : env.id = it.id => env = it
      BY <2>1, <3>1, <1>1, <1>7, <1>8
    <3> QED
      BY <3>1, <3>2, <1>1, <1>8 DEF Own, DeliveryInv, HasAnswer
  <2>2. CASE MadeAt(e, i, n) /\ it = made[e][i][n]
    <3>1. Own(e, it)
      BY <2>2 DEF DeliveryInv
    <3>2. it.id \in 1..lastId /\ it.id \in 1..lastId'
      BY <3>1, <1>5 DEF Own
    <3>3. \A env \in intents' : env.id = it.id => env \in intents
      BY <3>2, <1>1, <1>6
    <3> QED
      BY <3>1, <3>2, <3>3, <1>1 DEF Own, HasAnswer, Acts
  <2>3. e \in Events /\ i \in DOMAIN made'[e] /\ n \in DOMAIN made'[e][i]
    BY <1>15 DEF MadeAt
  <2> HIDE DEF New
  <2> QED
    BY <2>1, <2>2, <2>3, <1>13
<1>16. ASSUME NEW e, NEW i, NEW n, NEW d, NEW j, NEW m, MadeAt(e, i, n)', MadeAt(d, j, m)',
              made'[d][j][m].id = made'[e][i][n].id
       PROVE  <<d, j, m>> = <<e, i, n>>
  <2>1. \A f, k, l : MadeAt(f, k, l) => made[f][k][l].id \in 1..lastId
    BY DEF DeliveryInv, Own
  <2>2. CASE MadeAt(e, i, n) /\ MadeAt(d, j, m) /\ made'[e][i][n] = made[e][i][n] /\ made'[d][j][m] = made[d][j][m]
    BY <2>2, <1>16 DEF DeliveryInv
  <2>3. CASE New(e, i, n) /\ New(d, j, m) /\ made'[e][i][n] = fresh[n] /\ made'[d][j][m] = fresh[m]
    BY <2>3, <1>7, <1>16
  <2>4. CASE New(e, i, n) /\ MadeAt(d, j, m) /\ made'[e][i][n] = fresh[n] /\ made'[d][j][m] = made[d][j][m]
    BY <2>4, <2>1, <1>6, <1>16
  <2>5. CASE MadeAt(e, i, n) /\ New(d, j, m) /\ made'[e][i][n] = made[e][i][n] /\ made'[d][j][m] = fresh[m]
    BY <2>5, <2>1, <1>6, <1>16
  <2>6. /\ e \in Events /\ i \in DOMAIN made'[e] /\ n \in DOMAIN made'[e][i]
        /\ d \in Events /\ j \in DOMAIN made'[d] /\ m \in DOMAIN made'[d][j]
    BY <1>16 DEF MadeAt
  <2> HIDE DEF New
  <2> QED
    BY <2>2, <2>3, <2>4, <2>5, <2>6, <1>13
<1>17. \A c \in Callers : HasAnswer(c)' => call'[c].env.id \in 1..lastId'
  BY <1>1, <1>5 DEF DeliveryInv, HasAnswer
<1> QED
  BY <1>9, <1>14, <1>15, <1>16, <1>17 DEF DeliveryInv

\* Another step keeps what deliveries made when every id it shows is new, or one
\* that an envelope of the same acts, or of the cache, had before.
LEMMA DeliveryInvOther ==
    ASSUME DeliveryInv, made' = made, lastId \in Nat, lastId' \in Nat, lastId' >= lastId,
           \A env \in intents' :
               \/ env.id \notin 1..lastId
               \/ \E old \in intents : old.id = env.id /\ Acts(old) = Acts(env)
               \/ \E words \in DOMAIN cache : cache[words].id = env.id,
           \A words \in DOMAIN cache' :
               \/ cache'[words].id \notin 1..lastId
               \/ \E old \in DOMAIN cache : cache[old].id = cache'[words].id,
           \A c \in Callers : HasAnswer(c)' =>
               /\ call'[c].env.id \in 1..lastId'
               /\ \/ call'[c].env.id \notin 1..lastId
                  \/ \E words \in DOMAIN cache : cache[words].id = call'[c].env.id
                  \/ HasAnswer(c) /\ call[c].env = call'[c].env
    PROVE  DeliveryInv'
<1>1. \A e, i, n : MadeAt(e, i, n)' <=> MadeAt(e, i, n)
  BY DEF MadeAt
<1>2. ASSUME NEW e, NEW it, Own(e, it) PROVE Own(e, it)'
  <2>1. it.requester = e.session /\ it.id \in 1..lastId /\ it.id \in 1..lastId'
    BY <1>2 DEF Own
  <2>2. \A env \in intents' : env.id = it.id => Acts(env) = Acts(it)
    BY <1>2, <2>1 DEF Own
  <2>3. \A words \in DOMAIN cache' : cache'[words].id # it.id
    BY <1>2, <2>1 DEF Own
  <2>4. \A c \in Callers : HasAnswer(c)' => call'[c].env.id # it.id
    BY <1>2, <2>1 DEF Own
  <2> QED
    BY <2>1, <2>2, <2>3, <2>4 DEF Own, Acts
<1>3. \A e, i, n : MadeAt(e, i, n)' => Own(e, made[e][i][n])'
  BY <1>1, <1>2 DEF DeliveryInv
<1> QED
  BY <1>1, <1>3 DEF DeliveryInv

LEMMA DeliveryInvNext == work \in Workloads /\ ChainInv /\ DeliveryInv /\ [Next]_vars => DeliveryInv'
<1> SUFFICES ASSUME work \in Workloads, ChainInv, DeliveryInv, [Next]_vars PROVE DeliveryInv'
  OBVIOUS
<1>1. lastId \in Nat /\ lastId + 1 \in Nat /\ lastId + 1 \notin 1..lastId /\ lastId + 1 \in 1..(lastId + 1)
  BY DEF ChainInv
<1>2. \A c \in Callers : HasAnswer(c) => call[c].env.id \in 1..lastId /\ call[c].env.id \in 1..(lastId + 1)
  BY <1>1 DEF DeliveryInv
<1>3. \A words \in DOMAIN cache : cache[words].id \in 1..lastId
  BY DEF ChainInv, Cached, Root, Envelope
<1>4. ASSUME NEW c \in Callers, NEW request, Lookup(c, request) PROVE DeliveryInv'
  <2>1. /\ made' = made /\ lastId' = lastId /\ cache' = cache
        /\ intents' = intents \/ \E words \in DOMAIN cache : intents' = intents \union {cache[words]}
    BY <1>4 DEF Lookup
  <2>2. \A d \in Callers : d # c => call'[d] = call[d]
    BY <1>4 DEF Lookup, ChainInv
  <2>3. \/ call'[c] = [pc |-> "missed", request |-> request]
        \/ \E words \in DOMAIN cache :
             call'[c] = [pc |-> "hit", request |-> request, env |-> cache[words], from |-> lastId]
    <3>1. CASE Key(request.text) \in DOMAIN cache
      <4>1. call'[c] = [pc |-> "hit", request |-> request, env |-> cache[Key(request.text)], from |-> lastId]
        BY <1>4, <3>1 DEF Lookup, ChainInv
      <4> QED
        BY <3>1, <4>1
    <3>2. CASE Key(request.text) \notin DOMAIN cache
      BY <1>4, <3>2 DEF Lookup, ChainInv
    <3> QED
      BY <3>1, <3>2
  <2>4. HasAnswer(c)' => \E words \in DOMAIN cache : call'[c].env = cache[words]
    <3>1. CASE call'[c] = [pc |-> "missed", request |-> request]
      BY <3>1 DEF HasAnswer
    <3>2. ASSUME NEW words \in DOMAIN cache,
                 call'[c] = [pc |-> "hit", request |-> request, env |-> cache[words], from |-> lastId]
          PROVE  call'[c].env = cache[words]
      BY <3>2
    <3> QED
      BY <2>3, <3>1, <3>2
  <2>5. \A d \in Callers : HasAnswer(d)' =>
          /\ call'[d].env.id \in 1..lastId'
          /\ \/ \E words \in DOMAIN cache : cache[words].id = call'[d].env.id
             \/ HasAnswer(d) /\ call[d].env = call'[d].env
    BY <2>1, <2>2, <2>4, <1>2, <1>3 DEF HasAnswer
  <2> QED
    BY <2>1, <2>5, <1>1, DeliveryInvOther
<1>5. ASSUME NEW c \in Callers, Compile(c) PROVE DeliveryInv'
  <2> PICK request : request = call[c].request
    OBVIOUS
  <2> PICK env : env = Compiled(lastId + 1, request.text, request.requester, request.domain, request.budget)
    OBVIOUS
  <2>1. env.id = lastId + 1
    BY CompiledFacts
  <2>2. made' = made /\ \A d \in Callers : d # c => call'[d] = call[d]
    BY <1>5 DEF Compile, ChainInv
  <2>3. \/ /\ cache' = cache /\ intents' = intents /\ lastId' = lastId
           /\ call'[c].pc \in {"asked", "refused"}
        \/ /\ lastId' = lastId + 1
           /\ cache' = With(cache, Key(request.text), env)
           /\ intents' = intents \union {env}
           /\ call'[c] = [pc |-> "compiled", request |-> request, env |-> env, from |-> lastId]
    BY <1>5 DEF Compile, ChainInv
  <2>4. CASE /\ cache' = cache /\ intents' = intents /\ lastId' = lastId
             /\ call'[c].pc \in {"asked", "refused"}
    <3>1. ~HasAnswer(c)'
      BY <2>4 DEF HasAnswer
    <3>2. \A d \in Callers : HasAnswer(d)' =>
            call'[d].env.id \in 1..lastId' /\ HasAnswer(d) /\ call[d].env = call'[d].env
      BY <2>2, <2>4, <3>1, <1>2 DEF HasAnswer
    <3> QED
      BY <2>2, <2>4, <3>2, <1>1, DeliveryInvOther
  <2>5. CASE /\ lastId' = lastId + 1
             /\ cache' = With(cache, Key(request.text), env)
             /\ intents' = intents \union {env}
             /\ call'[c] = [pc |-> "compiled", request |-> request, env |-> env, from |-> lastId]
    <3>1. call'[c].env.id = lastId + 1
      BY <2>1, <2>5
    <3>2. \A d \in Callers : HasAnswer(d)' =>
            /\ call'[d].env.id \in 1..lastId'
            /\ call'[d].env.id \notin 1..lastId \/ (HasAnswer(d) /\ call[d].env = call'[d].env)
      BY <2>2, <2>5, <3>1, <1>1, <1>2 DEF HasAnswer
    <3>3. \A words \in DOMAIN cache' :
            cache'[words].id \notin 1..lastId \/ (words \in DOMAIN cache /\ cache'[words] = cache[words])
      BY <2>1, <2>5, <1>1 DEF With
    <3>4. \A e \in intents' : e.id \notin 1..lastId \/ e \in intents
      BY <2>1, <2>5, <1>1
    <3>5. lastId' \in Nat /\ lastId' >= lastId
      BY <2>5, <1>1
    <3>6. /\ \A e \in intents' :
               \/ e.id \notin 1..lastId
               \/ \E old \in intents : old.id = e.id /\ Acts(old) = Acts(e)
          /\ \A words \in DOMAIN cache' :
               \/ cache'[words].id \notin 1..lastId
               \/ \E old \in DOMAIN cache : cache[old].id = cache'[words].id
      BY <3>3, <3>4
    <3> QED
      BY <2>2, <3>2, <3>5, <3>6, <1>1, DeliveryInvOther
  <2> QED
    BY <2>3, <2>4, <2>5
<1>6. ASSUME NEW env \in intents, Delegate(env) PROVE DeliveryInv'
  <2>1. /\ made' = made /\ lastId' = lastId + 1 /\ cache' = cache /\ call' = call
        /\ intents' = intents \union {Child(env, lastId + 1)}
    BY <1>6 DEF Delegate
  <2>2. Child(env, lastId + 1).id = lastId + 1
    BY ChildFacts DEF ChainInv, Envelope
  <2>3. \A e \in intents' :
          e.id \notin 1..lastId \/ \E old \in intents : old.id = e.id /\ Acts(old) = Acts(e)
    BY <2>1, <2>2, <1>1
  <2>4. \A d \in Callers : HasAnswer(d)' =>
          call'[d].env.id \in 1..lastId' /\ HasAnswer(d) /\ call[d].env = call'[d].env
    BY <2>1, <1>2 DEF HasAnswer
  <2> QED
    BY <2>1, <2>3, <2>4, <1>1, DeliveryInvOther
<1>7. ASSUME NEW env \in intents, Enriching(env) PROVE DeliveryInv'
  <2> PICK rich : rich = EnrichWithOntology(env)
    OBVIOUS
  <2>1. /\ made' = made /\ lastId' = lastId /\ cache' = cache /\ call' = call
        /\ intents' = (intents \ {env}) \union {rich}
    BY <1>7 DEF Enriching
  <2>2. rich.id = env.id /\ Acts(rich) = Acts(env)
    BY EnrichedFacts DEF ChainInv, Envelope, Acts
  <2>3. \A e \in intents' : \E old \in intents : old.id = e.id /\ Acts(old) = Acts(e)
    BY <2>1, <2>2
  <2>4. \A d \in Callers : HasAnswer(d)' =>
          call'[d].env.id \in 1..lastId' /\ HasAnswer(d) /\ call[d].env = call'[d].env
    BY <2>1, <1>2 DEF HasAnswer
  <2> QED
    BY <2>1, <2>3, <2>4, <1>1, DeliveryInvOther
<1>8. ASSUME NEW e \in Events, Deliver(e) PROVE DeliveryInv'
  BY <1>8, DeliveryInvDeliver
<1>9. ASSUME UNCHANGED <<made, lastId, cache, call, intents>> PROVE DeliveryInv'
  BY <1>9 DEF DeliveryInv, MadeAt, Own, HasAnswer, Acts
<1>10. work.events \subseteq Events
  BY EventsAssumption
<1> QED
  BY <1>4, <1>5, <1>6, <1>7, <1>8, <1>9, <1>10 DEF Next, Build, Advance, vars

-----------------------------------------------------------------------------
(* Proposals *)

\* The states a proposal rests in: publish() leaves Proposed at once.
Resting == {"Draft", "AppReview", "Accepted", "Rejected", "Transformed", "Expired"}

ProposalInv ==
    \A id \in DOMAIN proposal : "state" \in DOMAIN proposal[id] /\ proposal[id].state \in Resting

\* What an operation makes of a resting state: the same, or one that the task's
\* table allows (ActionProposal::transition_to, TaskState::can_transition_to).
LEMMA AfterIsLegal ==
    ASSUME NEW state \in Resting, NEW op \in {"publish", "accept", "reject", "transform", "expire"}
    PROVE  \/ After(state, Steps(op)) = state
           \/ state = "Draft" /\ After(state, Steps(op)) = "AppReview"
           \/ state = "AppReview" /\ After(state, Steps(op)) \in {"Accepted", "Rejected", "Transformed", "Expired"}
<1>1. CASE op = "publish"
  <2>1. Steps(op) = <<"Proposed", "AppReview">>
    BY <1>1 DEF Steps
  <2>2. <<"Draft", "Proposed">> \in Legal /\ <<"Proposed", "AppReview">> \in Legal
    BY DEF Legal
  <2>3. state # "Draft" => <<state, "Proposed">> \notin Legal
    BY DEF Legal, Resting
  <2>4. CASE state = "Draft"
    BY <2>1, <2>2, <2>4 DEF After
  <2>5. CASE state # "Draft"
    BY <2>1, <2>3, <2>5 DEF After
  <2> QED
    BY <2>4, <2>5
<1>2. CASE op = "accept"
  BY <1>2 DEF After, Steps, Legal, Resting
<1>3. CASE op = "reject"
  BY <1>3 DEF After, Steps, Legal, Resting
<1>4. CASE op = "transform"
  BY <1>4 DEF After, Steps, Legal, Resting
<1>5. CASE op = "expire"
  BY <1>5 DEF After, Steps, Legal, Resting
<1> QED
  BY <1>1, <1>2, <1>3, <1>4, <1>5

\* The task of an intent with and without a proposal
LEMMA TaskOfFacts ==
    ASSUME NEW id
    PROVE  /\ id \notin DOMAIN proposal => TaskOf(id) = "Proposed"
           /\ id \in DOMAIN proposal /\ proposal[id].state = "Draft" => TaskOf(id) = "ProposedMutation"
           /\ id \in DOMAIN proposal /\ proposal[id].state \in Resting \ {"Draft"} => TaskOf(id) = proposal[id].state
BY DEF TaskOf, Resting

\* A step that changes one proposal is a step of its task, or none that shows.
LEMMA OneTaskMoves ==
    ASSUME NEW id, \A other : other # id => TaskOf(other)' = TaskOf(other),
           NEW old, NEW new, old = TaskOf(id), new = TaskOf(id)',
           new # old => new \in Life!TaskStates /\ <<old, new>> \in Life!CanTransition
    PROVE  [Life!Next]_[i \in 1..MaxIntents |-> TaskOf(i)]
<1> DEFINE tasks == [i \in 1..MaxIntents |-> TaskOf(i)]
<1>1. CASE id \notin 1..MaxIntents \/ new = old
  <2>1. \A i \in 1..MaxIntents : TaskOf(i)' = TaskOf(i)
    BY <1>1
  <2>2. tasks' = [i \in 1..MaxIntents |-> TaskOf(i)']
    OBVIOUS
  <2> QED
    BY <2>1, <2>2
<1>2. CASE id \in 1..MaxIntents /\ new # old
  <2>1. tasks' = [tasks EXCEPT ![id] = new]
    <3>1. tasks' = [i \in 1..MaxIntents |-> TaskOf(i)']
      OBVIOUS
    <3>2. \A i \in 1..MaxIntents : TaskOf(i)' = IF i = id THEN new ELSE TaskOf(i)
      OBVIOUS
    <3> QED
      BY <3>1, <3>2
  <2>2. <<tasks[id], new>> \in Life!CanTransition
    BY <1>2
  <2> QED
    BY <1>2, <2>1, <2>2 DEF Life!Next, Life!Transition
<1> QED
  BY <1>1, <1>2

LEMMA ProposalInvInit == Init => ProposalInv
BY DEF Init, ProposalInv

LEMMA ProposalStep ==
    ASSUME ProposalInv, [Next]_vars
    PROVE  ProposalInv' /\ [Life!Next]_[i \in 1..MaxIntents |-> TaskOf(i)]
<1>1. CASE proposal' = proposal
  <2>1. \A i \in 1..MaxIntents : TaskOf(i)' = TaskOf(i)
    BY <1>1 DEF TaskOf
  <2>2. [i \in 1..MaxIntents |-> TaskOf(i)]' = [i \in 1..MaxIntents |-> TaskOf(i)']
    OBVIOUS
  <2> QED
    BY <1>1, <2>1, <2>2 DEF ProposalInv
<1>2. ASSUME NEW id, NEW mutates, NEW compensated, Build(id, mutates, compensated)
      PROVE  ProposalInv' /\ [Life!Next]_[i \in 1..MaxIntents |-> TaskOf(i)]
  <2>1. /\ id \notin DOMAIN proposal
        /\ DOMAIN proposal' = DOMAIN proposal \union {id}
        /\ proposal'[id] = [state |-> "Draft", mutates |-> mutates, compensated |-> compensated]
        /\ \A other \in DOMAIN proposal : other # id => proposal'[other] = proposal[other]
    BY <1>2 DEF Build, With
  <2>2. ProposalInv'
    BY <2>1 DEF ProposalInv, Resting
  <2>3. \A other : other # id => TaskOf(other)' = TaskOf(other)
    BY <2>1 DEF TaskOf
  <2>4. TaskOf(id) = "Proposed" /\ TaskOf(id)' = "ProposedMutation"
    BY <2>1 DEF TaskOf
  <2>5. "ProposedMutation" \in Life!TaskStates /\ <<"Proposed", "ProposedMutation">> \in Life!CanTransition
    BY DEF Life!TaskStates, Life!CanTransition
  <2> QED
    BY <2>2, <2>3, <2>4, <2>5, OneTaskMoves
<1>3. ASSUME NEW id \in DOMAIN proposal,
             NEW op \in {"publish", "accept", "reject", "transform", "expire"}, Advance(id, op)
      PROVE  ProposalInv' /\ [Life!Next]_[i \in 1..MaxIntents |-> TaskOf(i)]
  <2> PICK state \in Resting : state = proposal[id].state
    BY DEF ProposalInv
  <2> PICK next : next = After(state, Steps(op))
    OBVIOUS
  <2>1. /\ DOMAIN proposal' = DOMAIN proposal
        /\ "state" \in DOMAIN proposal'[id] /\ proposal'[id].state = next
        /\ \A other \in DOMAIN proposal : other # id => proposal'[other] = proposal[other]
    BY <1>3 DEF Advance, ProposalInv
  <2>2. /\ next \in Resting
        /\ \/ next = state
           \/ state = "Draft" /\ next = "AppReview"
           \/ state = "AppReview" /\ next \in {"Accepted", "Rejected", "Transformed", "Expired"}
    BY AfterIsLegal DEF Resting
  <2>3. ProposalInv'
    BY <2>1, <2>2 DEF ProposalInv
  <2>4. \A other : other # id => TaskOf(other)' = TaskOf(other)
    BY <2>1 DEF TaskOf
  <2>5. /\ TaskOf(id) = IF state = "Draft" THEN "ProposedMutation" ELSE state
        /\ TaskOf(id)' = IF next = "Draft" THEN "ProposedMutation" ELSE next
    BY <1>3, <2>1, <2>2 DEF TaskOf, Resting
  <2> PICK old : old = TaskOf(id)
    OBVIOUS
  <2> PICK new : new = TaskOf(id)'
    OBVIOUS
  <2>6. ASSUME new # old PROVE new \in Life!TaskStates /\ <<old, new>> \in Life!CanTransition
    <3>1. CASE state = "Draft" /\ next = "AppReview"
      <4>1. old = "ProposedMutation" /\ new = "AppReview"
        BY <3>1, <2>5
      <4> QED
        BY <4>1 DEF Life!TaskStates, Life!CanTransition
    <3>2. CASE state = "AppReview" /\ next \in {"Accepted", "Rejected", "Transformed", "Expired"}
      <4>1. old = "AppReview" /\ new = next
        BY <3>2, <2>5
      <4> QED
        BY <3>2, <4>1 DEF Life!TaskStates, Life!CanTransition
    <3> QED
      BY <2>2, <2>5, <2>6, <3>1, <3>2
  <2> QED
    BY <2>3, <2>4, <2>6, OneTaskMoves
<1> QED
  BY <1>1, <1>2, <1>3 DEF Next, Lookup, Compile, Delegate, Enriching, Deliver, vars

-----------------------------------------------------------------------------
(* The theorems *)

FlowInv == work \in Workloads /\ ChainInv /\ DeliveryInv /\ ProposalInv

LEMMA FlowInvNext == FlowInv /\ [Next]_vars => FlowInv'
<1> SUFFICES ASSUME FlowInv, [Next]_vars PROVE FlowInv'
  OBVIOUS
<1>1. work' = work
  BY DEF Next, Lookup, Compile, Delegate, Enriching, Deliver, Build, Advance, vars
<1> QED
  BY <1>1, ChainInvNext, DeliveryInvNext, ProposalStep DEF FlowInv

LEMMA FlowInvHolds == Spec => []FlowInv
<1>1. Init => FlowInv
  BY ChainInvInit, DeliveryInvInit, ProposalInvInit DEF FlowInv, Init
<1> QED
  BY <1>1, FlowInvNext, PTL DEF Spec

\* Whoever filled the shared cache, a caller of compile() is answered with a
\* validated envelope of its own words, and with somebody else's only if that one
\* was finished before the caller looked.
THEOREM AnswersFit == Spec => []AnswerFitsTheWords
<1>1. FlowInv => AnswerFitsTheWords
  BY DEF FlowInv, ChainInv, Answered, AnswerFitsTheWords
<1> QED
  BY <1>1, FlowInvHolds, PTL

\* Every delegated intent acts for the requester, trace and budget of one that is
\* still there and one delegation nearer the root, and delegate() keeps the depth
\* within its limit.
THEOREM ChainsSpeakForRoots == Spec => []ChainSpeaksForRoot
<1>1. FlowInv => ChainSpeaksForRoot
  BY DEF FlowInv, ChainInv, Chained, Above, ChainSpeaksForRoot
<1> QED
  BY <1>1, FlowInvHolds, PTL

\* What adapt() made of an event acts for the session of the event, and so does
\* whatever has its id or was delegated from it; no other event, no other part and
\* no answer of compile() has its id.
THEOREM IntentsAreOfTheirEvents == Spec => []IntentIsOfItsEvent
<1>1. FlowInv => IntentIsOfItsEvent
  <2> SUFFICES ASSUME FlowInv, NEW e \in Events, NEW i \in DOMAIN made[e], NEW n \in DOMAIN made[e][i],
                      NEW it, it = made[e][i][n]
               PROVE  /\ it.requester = e.session
                      /\ \A env \in intents :
                           env.id = it.id \/ (env.id \in DOMAIN parent /\ parent[env.id] = it.id)
                              => Acts(env) = Acts(it)
                      /\ \A d \in Events : \A j \in DOMAIN made[d] : \A m \in DOMAIN made[d][j] :
                           <<d, m>> # <<e, n>> => made[d][j][m].id # it.id
                      /\ \A c \in Callers : call[c].pc \in {"hit", "compiled"} => call[c].env.id # it.id
    BY DEF IntentIsOfItsEvent
  <2>1. MadeAt(e, i, n) /\ Own(e, it)
    BY DEF FlowInv, DeliveryInv, MadeAt
  <2>2. ASSUME NEW env \in intents, env.id \in DOMAIN parent, parent[env.id] = it.id
        PROVE  Acts(env) = Acts(it)
    <3>1. Chained(env) /\ env.depth \in Nat
      BY DEF FlowInv, ChainInv, Envelope
    <3>2. PICK up \in intents : Above(up, env)
      BY <2>2, <3>1 DEF Chained
    <3>3. up.id = it.id /\ Acts(up) = Acts(env)
      BY <2>2, <3>2 DEF Above, Acts
    <3> QED
      BY <2>1, <3>3 DEF Own
  <2>3. ASSUME NEW d \in Events, NEW j \in DOMAIN made[d], NEW m \in DOMAIN made[d][j],
               made[d][j][m].id = it.id
        PROVE  <<d, m>> = <<e, n>>
    BY <2>1, <2>3 DEF FlowInv, DeliveryInv, MadeAt
  <2> QED
    BY <2>1, <2>2, <2>3 DEF Own, HasAnswer
<1> QED
  BY <1>1, FlowInvHolds, PTL

\* A proposal of the surface crate implements a task of the contracts crate:
\* ProposalLifecycle takes no step that TaskState::can_transition_to forbids.
THEOREM ProposalsAreTasks == Spec => ProposalIsTask
<1> DEFINE tasks == [id \in 1..MaxIntents |-> TaskOf(id)]
<1>1. Init => Life!Init
  BY DEF Init, Life!Init, TaskOf
<1>2. FlowInv /\ [Next]_vars => [Life!Next]_tasks
  BY ProposalStep DEF FlowInv
<1> QED
  BY <1>1, <1>2, FlowInvHolds, PTL DEF Spec, ProposalIsTask, Life!Spec
=============================================================================
