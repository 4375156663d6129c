------------------------------- MODULE Intents -------------------------------
(* Intent envelopes: how the compiler makes one of a sentence, how the surface *)
(* makes one of an application event, and what is done to one afterwards.  A   *)
(* sentence is known by its normalised words, the kinds whose keywords occur   *)
(* in it and the constraints the extractor finds.                              *)
EXTENDS Integers, Sequences, FiniteSets, SequencesExt

CONSTANTS
    MaxDepth,       \* MAX_DEPTH: 5 in the code
    Resolve,        \* domain -> the entity references the ontology knows for it
    Rules,          \* event type -> intent type: the adapter's rules
    DefaultBudget,  \* the adapter's budget
    NoValue         \* an option that is None

ASSUME DepthAssumption == MaxDepth \in Nat

NoKind == "no kind"
NoTenant == "no tenant"
Blank == "blank"

\* The order in which the classifier tries its keyword lists
Kinds == <<"Transactional", "Analytical", "Planning", "Delegation", "Governance">>

\* RuleClassifier::classify: the first list with a keyword in the sentence
Classify(text) ==
    LET hits == {i \in DOMAIN Kinds : Kinds[i] \in text.cues}
    IN  IF hits = {} THEN NoKind ELSE Kinds[CHOOSE i \in hits : \A j \in hits : i <= j]

RiskTier(kind) ==
    [Transactional |-> "Write", Analytical |-> "Read", Planning |-> "Advisory",
     Delegation |-> "Delegation", Governance |-> "Governance"][kind]

\* RuleExtractor::extract: the patterns that occur in the sentence
Extract(text) == text.marks

\* Enricher::enrich
Enrich(env) ==
    [env EXCEPT
        !.constraints = IF env.requester.role = "analyst" THEN @ \union {"dimension"} ELSE @,
        !.approval = IF env.risk = "Read" THEN "none" ELSE @]

Qualified(ref, env) ==
    IF ref.tenant = NoTenant THEN [ref EXCEPT !.tenant = env.requester.tenant] ELSE ref

MergeEntity(entities, own) == IF own \in ToSet(entities) THEN entities ELSE Append(entities, own)

\* Enricher::enrich_with_ontology
EnrichWithOntology(env) ==
    [Enrich(env) EXCEPT
        !.entities = FoldLeft(LAMBDA found, ref : MergeEntity(found, Qualified(ref, env)), @, Resolve[env.domain])]

\* Refiner::questions_for, the fields it asks about
QuestionsFor(env) ==
    LET all == (IF env.goal = Blank THEN <<"goal">> ELSE <<>>)
               \o (IF env.domain = Blank THEN <<"domain">> ELSE <<>>)
               \o (IF env.type = "Transactional" /\ "target" \notin env.constraints
                     THEN <<"target">> ELSE <<>>)
               \o (IF env.type = "Analytical" /\ "period_ref" \notin env.constraints
                     THEN <<"period_ref">> ELSE <<>>)
    IN  SubSeq(all, 1, IF Len(all) > 2 THEN 2 ELSE Len(all))

\* IntentEnvelope::validate and BudgetContract::validate; a cost that is not a
\* number is a negative one here.
Valid(env) ==
    /\ env.goal # Blank
    /\ env.domain # Blank
    /\ env.depth <= MaxDepth
    /\ env.budget.cost >= 0

\* The envelope IntentCompiler::compile puts together
Compiled(id, text, requester, domain, budget) ==
    LET kind == Classify(text)
    IN  Enrich([id |-> id, type |-> kind, requester |-> requester, goal |-> text.words,
                domain |-> domain, constraints |-> Extract(text), budget |-> budget,
                risk |-> RiskTier(kind), approval |-> "human", trace |-> id, depth |-> 0,
                entities |-> <<>>])

\* IntentEnvelope::delegate without its bound
Child(env, id) == [env EXCEPT !.id = id, !.depth = @ + 1]

-----------------------------------------------------------------------------
(* Application events *)

\* RuleBasedClassifier::classify: by the keys of an object or the items of an array
CategoryOf(event) ==
    IF event.fast \/ event.keys \in 1..5 THEN "FastPath"
    ELSE IF event.items >= 2 THEN "Composite" ELSE "AgentInterpret"

\* RuleBasedClassifier::decompose: item i carries the type "t[i]".
Decompose(event) ==
    [i \in 1..event.items |-> [event EXCEPT !.type = Append(@, i), !.items = 0]]

\* EventRouter::route
Route(event) == IF CategoryOf(event) = "Composite" THEN Decompose(event) ELSE <<event>>

\* RuleBasedAdapter::adapt with the SituationPackager's entities; an event no
\* rule names makes no intent.  The goal's text is known by the type the
\* application gave the event.
Adapted(event, id) ==
    LET kind == Rules[event.type]
        Or(value, default) == IF value = NoValue THEN default ELSE value
    IN  [id |-> id, type |-> kind, requester |-> event.session, goal |-> event.type[1],
         domain |-> event.surface, constraints |-> {},
         budget |-> [cost |-> Or(event.cost, DefaultBudget.cost),
                     latency |-> Or(event.latency, DefaultBudget.latency)],
         risk |-> RiskTier(kind), approval |-> "human",
         trace |-> IF event.trace = NoValue THEN id ELSE event.trace, depth |-> 0,
         entities |-> event.entities]
=============================================================================
