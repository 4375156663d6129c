# TLA+ models of the Agentic Application Framework

A verification project for the Rust workspace under `src/core/crates`: TLA+
modules translated from the code, TLC configurations that check them on small
instances, and TLAPS proofs for every value of the constants. `PROJECT.json`
maps each definition to its source lines and lists runs, mutants, hazards and
theorems. Paths below are relative to `src/core/crates` unless they start with
`docs/` or `PROJECT.md`.

Check everything from this directory with `tlc -config <run>.cfg <module>` and
`tlapm <module>Proofs.tla`.

## 1. The system

An *intent* is compiled, planned over a registry of *capabilities*, and executed
as a graph of nodes under policy hooks, a budget, a trace and a compensation
chain. Around that core sit sagas, trust, learning, identity, federation and
adapters.

| Component | State | Operations | Talks to | Hard part | What makes it correct |
|---|---|---|---|---|---|
| Policy engine (`aaf-policy`) | list of rules | `evaluate`, `add_rule`, three guards | executor, sidecar, wrapper | seven rules folded into one decision | decisions are monotone |
| Scope algebra | none | `scope_matches`, `effective_scopes`, `compute_effective_scopes` | trust | nested ceilings | scopes follow the level |
| Approval workflow, gate | requests by id | `open`, `resolve`, `run` of the gate | executor, reviewers | lookup and open are two steps | an answer is lost only when two gates overlap |
| Graph executor (`aaf-runtime`) | per run: step, outputs, chain; shared: tracker | `run` | policy, recorder, nodes, revocation | runs interleave at every await; node, compensator and store failures | results match traces, rollback is complete, budget and gate hold |
| Graph builder | none | `validate`, levels | server, executor | duplicated edges, cycles | an order that respects the plan |
| Nodes | event hub | `run` of agent, fork, event wait, deterministic | LLM, tools | timeout against event, first failure of a join | a fork speaks for its children; agents are bounded |
| Saga engine (`aaf-saga`) | saga state | `run` | registry through the bridge | failure in the middle of a rollback; deregistration; a second `run` | every completed step is accounted for |
| Capability registry (`aaf-registry`) | contracts, rate map | `register`, `deregister`, `update_reputation`, pipeline, `discover` | storage, trust, planner | read, change, write without a lock | only an overlap loses anything |
| Circuit breaker | state, failures, `opened_at` | `allows`, `record_*`, `snapshot`, `force_*` | callers of capabilities | the clock is read before the lock | three-state machine, refusal only in the cooldown |
| Trace recorder (`aaf-trace`) | cached documents, store, subscribers | `open`, `record_step`, `close` | executor, store, learning | store written after the lock; spawned fan-out | the store catches up |
| Trust registry (`aaf-trust`) | score, level, history | `register`, `observe` | registration, scopes | level recomputed and adjusted at each event | violation pins, promotion is earned |
| Planner (`aaf-planner`) | plan cache, fast-path rules | `plan`, `route` | registry, learning | a hit skips the checks | ordered, safe plans that fit their key |
| Intent compiler (`aaf-intent`) | compile cache | `compile`, `delegate` | planner | cache keyed by the words | answers fit the words, chains speak for their root |
| LLM (`aaf-llm`) | call budget | `complete`, `check`, `deduct` | agent node | check, await, deduct | overspending is bounded |
| Learning (`aaf-learn`) | evidence, proposals, scores | four subscribers, review | recorder, planner | observations out of order, colliding ids | evidence counts once, what was learned can be switched off |
| Identity (`aaf-identity`) | keys, revocation list and index | `issue`, `verify`, `step_down`, `revoke`, SBOM | executor, federation | list and index under two locks | documents are faithful, delegation attenuates |
| Federation (`aaf-federation`) | agreements | three enforcement functions, co-signing | identity | first match decides | the border is consistent |
| Surface (`aaf-surface`) | none | routing, adaptation, proposal life cycle | intent, tasks | redelivery, two transition tables | an intent acts for the session of its event; a proposal is a task |
| Ontology (`aaf-ontology`), memory (`aaf-memory`, `aaf-storage`) | entities; records and index | `upsert`, `remove`; `insert`, searches | planner, policy | three locks of one upsert | flaws need an overlap; the index is complete |
| Sidecar, wrapper, server | local rules, health | proxy, commands | planner, policy | | covered where they meet the above |
| Checkpoints, export, evaluation, transport | | | | | not modelled, section 7 |

How the modelled parts interact: the executor calls the policy engine at four
hooks (`PolicyRules` is *extended* by `GraphRuntime`, so the same operators decide
there and in the policy run), asks the revocation registry once, charges the
shared tracker and writes through the recorder. The planner asks discovery, and
the server turns its plan into the graph the executor runs. The recorder feeds
the learners, whose proposals become rules of the planner and the sidecar. The
saga bridge asks the registry at every step; the registration pipeline writes
both the registry and the trust registry, whose level is the ceiling of an
agent's scopes. Tokens are co-signed under the agreements of two cells.

## 2. Modules

| Module | Models | State and actions |
|---|---|---|
| `PolicyRules` | rules, hook dispatch and decision of `aaf-policy` | operators only |
| `PolicyEngine` (`MCPolicyEngine`) | the engine under its guards | a context and a rule list; guard checks, `AddRule`, and single changes to the context |
| `GraphRuntime` (`MCGraphRuntime`) | `GraphExecutor::run`, `BudgetTracker`, `CompensationChain` | one program counter per run; an action is the code from one await or lock to the next |
| `SagaEngine` (`MCSagaEngine`) | `SagaExecutor::run`, `decide`, `RegistryBridge` | the loop over steps, the rollback loop turn by turn, `RunAgain` after a pause, `Deregister` at any time |
| `CircuitBreaker`, `BreakerAbstract` | one breaker and its callers; the documented three-state machine | reading the clock (`Ask`, `View`, `Finish`) and acting under the lock are separate actions |
| `TrustRegistry`, `ScopeAlgebra`, `AutonomyScopes` (`MCTrustRegistry`) | `observe` and `register` of one agent; scope matching and ceilings; the two together | each method of the registry is atomic, as its lock makes it; scopes are operators |
| `CapabilityRegistry` | `Registry` and `RegistrationPipeline` for one id | one action per lock |
| `Planner` (`MCPlanner`) with `Composition`, `PlanCache`, `GraphBuilder` | `plan()`, discovery, the server's graph of a plan; composition and bounds; the cache; `validate` and levels | tasks between lookup and put, contracts published and withdrawn meanwhile; the rest are operators |
| `Nodes` (`MCNodes`) with `LlmProvider` | forks over gates, waits, agents and deterministic nodes; the call budget; the provider's request, retries and response | one program counter per child task, so the tasks a failed fork leaves behind go on |
| `Identity` (`MCIdentity`) with `Federation`, `Sbom` | documents signed, altered and verified, chains of delegation, revocation; agreements; bill of materials | a set of documents in circulation, the list and the index of revocations |
| `IntentFlow` (`MCIntentFlow`) with `Intents`, `TaskLifecycle` | compile cache, events, delegation, proposals; envelopes; the task state machine | a caller between lookup and put, the deliveries, the intents made, the proposals |
| `LearningLoop` (`MCLearningLoop`) with `TraceRecorder`, `FastPath` | learners, review and rule lists composed with the recorder and its subscribers | recorder calls cut at the store's await; spawned tasks are a set |
| `Knowledge` (`MCKnowledge`) | ontology registry, long-term memory | upserts cut at their three locks; insertions and searches |
| `GovernanceProofs`, `GraphRuntimeProofs`, `SagaProofs`, `NodesProofs`, `PlannerProofs`, `IntentProofs`, `IdentityProofs`, `LearningProofs` | theorems, section 4 | |

Operators whose name holds an underscore, `CompensateOk_Forwards` for example,
are *mutants*: the definition next to them with a plausible bug. They belong to no
specification; each exists to show that a property notices that bug.

### Abstractions

* Money, tokens, milliseconds and scores are integers; the code's `f64` sums
  are not modelled, so float rounding at a boundary is outside these models.
* A text is what is found in it: the patterns (`pii`, `injection`) it matches, the
  intent cues and constraints, the words of a search. What the regular
  expressions accept is not modelled.
* In the executor a graph is its topological order with the side effect each
  node *reports*; that `validate` yields such an order is `GraphFollowsPlan`.
  A fork is one node there, and a set of tasks in `Nodes`.
* Where instances are independent (trace ids, capability ids, agents, breakers)
  one is modelled: they share only a lock that is never held across another.
* Hashes and signatures are ideal: a signature is its key and what it was made
  over, so altering what is covered is seen and altering what is not is not.
* Duplicate saga step numbers are legal for the code, and a rollback then undoes
  the first step of a number for all of them. The instance numbers its steps with
  gaps and without duplicates, and the saga's two invariants are about sagas
  whose numbers differ (`UniqueNumbers`).
* A *workload* (`Nodes`, `Identity`, `IntentFlow`, `LearningLoop`) selects in the
  initial state which parts are active in a behaviour. Parts of different
  workloads share no state, so nothing is lost by not interleaving them.

## 3. Runs

| Run | Instance and bounds | Shows |
|---|---|---|
| `PolicyEngine` | 3 scopes, 2 tenants, 5 capabilities that reach every rule, cost 0..5, 3 composed writes | `DecisionsAreMonotone` over every sequence of checks and changes |
| `GraphRuntime` | 2 runs of 4 nodes (a fork, two compensable writes, a send), each called up to twice, both shadow modes, failing nodes, compensators and stores, a custom rule, revocation at any time, a shared budget too small for all | `ResultMatchesTrace`, `AcceptedWithinBudget`, `OverrunBounded`, `WritesAreGated`, `RolledBackIsComplete`, `EveryRunReturns` |
| `SagaEngine` | 5 steps whose rules select every recovery action, 3 failure tags, each capability deregistered at any time, 2 calls of `run` | `EveryStepAccounted`, `UndoneInReverse`, `SagaEnds` |
| `CircuitBreaker` | 2 callers, threshold 2, window 3, cooldown 2, clock to 5, one operator override | `ClosedBelowThreshold`, `RefusedOnlyInCooldown`, `RefinesAbstract` |
| `TrustRegistry` | default thresholds in units of 0.05, 12 events between registrations, 4 sets of grants, 5 needs | `ViolationPins`, `PromotionIsEarned`, `ScopesFollowTrust` |
| `CapabilityRegistry` | 2 tasks, 2 valid and 1 invalid contract, 4 calls, clock to 3, rate limit 2 | `OverwriteNeedsOverlap`, `LossNeedsOverlap` |
| `Planner` | 2 tasks, 6 versions of 3 capabilities, 4 intents of which some exceed the bounds, cache of 1, 2 registry changes; graphs of up to 4 nodes and 4 edges | `DependenciesFirst`, `SafeUntilReplaced`, `CacheServesItsKey`, `GraphFollowsPlan` |
| `Nodes` | 7 forks in 5 workloads of up to 3 children, 2 callers of one call budget, 2 tool calls, 1 retry | `AnswerLostOnlyInOverlap`, `ForkSpeaksForChildren`, `AgentsAreBounded`, `EveryForkSettles` |
| `Identity` | 2 key stores, 3 documents (one more if it is an altered co-signed token), 2 revocations, clock to 2; 3 cells, 2 agreements; 2 SBOM entries | `DocumentsAreFaithful`, `DelegationAttenuates`, `BorderIsConsistent`, `RevocationTakesEffect` |
| `IntentFlow` | 2 callers, 5 requests, 4 events delivered up to twice, one of them composite with a rule for each part, 4 intents, depth 2 | `AnswerFitsTheWords`, `ChainSpeaksForRoot`, `IntentIsOfItsEvent`, `ProposalIsTask` |
| `LearningLoop` | 2 tasks, 4 subscribers, 4 calls, any put may fail, threshold 2 over 2 sessions, 3 rules of the planner, 1 of the sidecar | `StoreFollowsTrace`, `EvidenceCountsOnce`, `LearnedIsReversible`, `RipePatternIsProposed` |
| `Knowledge` | 2 registrars, 4 drafts of 2 entities, 4 upserts, 1 removal, 2 records of 2 tenants | `FlawNeedsOverlap`, `IndexIsComplete` |

What each property says is the comment above its definition. Several are of the
form *this goes wrong only when these calls overlap* (`OverwriteNeedsOverlap`,
`LossNeedsOverlap`, `AnswerLostOnlyInOverlap`, `FlawNeedsOverlap`): the code has
the race, and the property says that the race is the only way to the damage.

Why the bounds are enough. The executor properties relate one run's locals to its
trace, and runs meet only in the tracker, the shadow flag and the revocation
set: two runs make them compete, four nodes give a chain of two compensable
writes and a failure after it. A breaker needs two failures to trip, a cooldown
and a stale stamp of a second caller: clock 5 holds trip, cooldown, probe and
relapse. In the recorder, four calls are an open, two overtaking steps and the
call that repairs the store; for the miner they are one ripe pattern, or two with
colliding ids. In the registry, four calls are a registration, two overlapping
updates and a replacement. In the trust model twelve events pass the minimum of
seven executions with room for overrides on both sides of the limits. A planner
cache of one makes every second put evict. Three children are a join that
succeeds, fails and leaves one behind. Two upserts overlap and a third party
removes. The fourth document is what a token, its altered copy, a co-signature
of the copy and the co-signature moved to the original need.

`CHECK_DEADLOCK FALSE` stands where a system may stop: all runs returned, the saga
ended, calls or clock used up.

### Fairness

Only what the code drives forward is fair; users, operators, reviewers, senders,
revocations, ticks and new calls are not.

* `GraphRuntime`: weak fairness of each run's next action, a future that is
  awaited being polled to its end. The executor wraps no node in a timeout
  (`aaf-runtime/src/timeout.rs` is used by nothing), so that a node returns at
  all is an assumption of `EveryRunReturns`.
* `SagaEngine`: of the loop of `run`, its closures returning. `RunAgain` is not fair.
* `Nodes`: of each fork's join and each child's next step, timers included, since
  tokio runs what is spawned. An event and an answer may never come.
* `Identity`: a call of `revoke` that took its first lock takes its second.
* `LearningLoop`: of a recorder call in progress and of each spawned task.

## 4. Proofs

| Theorem | Says, for all constants | Argument |
|---|---|---|
| `GraphRuntimeProofs!TypeCorrect` | `[]TypeOK` | one case per action; `TypeOK` is inductive because it holds that the step index is positive inside the loop |
| `GraphRuntimeProofs!BudgetRespected` | `[]AcceptedWithinBudget` | `BudgetInv`: what was accepted is at most what was charged, for a refused charge stays in `used`; a charge accepted against `used` is then within the budget for `accepted` too |
| `GraphRuntimeProofs!GateHolds` | `[]WritesAreGated` | `GateInv`: a run past the pre-step hook of a write node passed the gate; rests on `GateNeverProceeds` (no custom rule can outvote the default gate) and `ModeIsFixed` |
| `GraphRuntimeProofs!OverrunIsBounded` | `[]OverrunBounded` | `OverrunInv`: what is used exceeds the budget by at most the largest charge for each call that *settled*; a charge beyond the budget settles its call, so it is the call's last |
| `GraphRuntimeProofs!ResultsMatchTraces` | `[]ResultMatchesTrace` | `TraceInv`: at each program counter the trace is a prefix of the order of a known length, and the pending result fits the status about to be written |
| `GraphRuntimeProofs!RollbacksAreComplete` | `[]RolledBackIsComplete` | `RollbackInv`: in the loop the chain is the undoable part of the order so far; in a rollback chain and `undone` partition it, everything undone later in the order than everything left |
| `GovernanceProofs!DecisionsMoveOneWay` | `DecisionsAreMonotone` | action property: violations that *cover* others are decided no milder (`DecideIsMonotone`); a lemma for each direction goes through the seven rules; `EngineInv` has the types they need |
| `SagaProofs!StepsAreAccounted`, `CompensationsAreOrdered` | `[]EveryStepAccounted`, `[]UndoneInReverse` | `SagaInv`: `completed` is increasing, and the entries above the position `left` are exactly those listed as compensated, preserved or failed; the disjointness of the lists comes from counting |
| `GovernanceProofs!BreakerKnowsWhen` | `[]OpenKnowsWhen` | with the types of clock and stamps: a stamp is never the encoding of None |
| `GovernanceProofs!RefusalsAreTimed` | `RefusedOnlyInCooldown` | action property, from the same invariant |
| `GovernanceProofs!ClosedStartsAfresh` | `[]ClosedBelowThreshold` | `RecordInv`: the failures are finitely many; every way into `Closed` clears them or has pruned and counted them |
| `GovernanceProofs!BreakerRefines` | the breaker implements `BreakerAbstract` | initial states map to initial states; each step is a step or a stutter, stale stamps included |
| `GovernanceProofs!TrustTypeCorrect`, `ViolationStays`, `PromotionsAreEarned` | `[]` of the type invariant, `ViolationPins`, `PromotionIsEarned` | the conjunction `Levelled` is inductive; the bracket of the bootstrap score being Level1 is what lets a violation hold |
| `GovernanceProofs!ScopesTrackTrust` | `ScopesFollowTrust` | action property: the ceilings are nested (`CeilingsAreNested`), so scopes grow with the level (`ScopesGrowWithLevel`), and `Levelled` puts a violator on the floor, which has none |
| `GovernanceProofs!OverwritesOverlap`, `LossesOverlap` | `OverwriteNeedsOverlap`, `LossNeedsOverlap` | action properties from `RegistryInv`: two busy tasks are crowded, and what a task that is not crowded has looked up or copied is what the store holds |
| `NodesProofs!AnswersLostInOverlap` | `[]AnswerLostOnlyInOverlap` | `GateInv`: whatever request there is was opened by a gate that found none and has ended; a gate about to open over an answer has not ended, so it is another one |
| `NodesProofs!ForksSpeakForChildren` | `[]ForkSpeaksForChildren` | `JoinOK` for each fork: behind the join are children that succeeded, whose tokens it has added up; a child that has ended stays as it is (`DoneStay`), so what the join left behind cannot change; `WaitInv` for waits whose event was there |
| `NodesProofs!AgentsStayBounded` | `[]AgentsAreBounded` | `WithinBounds`: at the start of turn *t* and try *r* at most *t*(`max_retries` + 1) + *r* requests were sent; the roles from the closed form of the conversation (`RequestsAlternate`); `BudgetInv`: once the budget is spent, what the calls in flight can add has room under the bound |
| `PlannerProofs!CacheAnswersItsKey`, `PlansStaySafe` | `[]CacheServesItsKey`, `[]SafeUntilReplaced` | `PlannerInv`: a plan made, cached or answered passed the checks for the intent of its key; composition safety speaks of the contracts alone, so registry changes do not touch it; the cache's order lists its keys once each (`PutKeeps`) |
| `PlannerProofs!FlawsOverlap` | `FlawNeedsOverlap` | action property of the ontology registry, from `OntologyInv`: what a registrar tested and nobody changed since is what the registry holds when it inserts |
| `IntentProofs!AnswersFit`, `ChainsSpeakForRoots` | `[]AnswerFitsTheWords`, `[]ChainSpeaksForRoot` | `ChainInv`: what the cache holds was compiled of its key and validated, ids are at most `lastId`, and every envelope of positive depth has its parent in circulation |
| `IntentProofs!IntentsAreOfTheirEvents` | `[]IntentIsOfItsEvent` | `DeliveryInv`: the ids that deliveries made are at most `lastId` and pairwise different, no cached envelope and no answer has one, and whoever in circulation has one acts for the session of the event; with `ChainInv` this passes to what is delegated |
| `IntentProofs!ProposalsAreTasks` | `ProposalIsTask`: proposals implement `TaskLifecycle` | `ProposalInv`: between calls a proposal is in a resting state; each operation is then a legal step of the task or a stutter (`AfterIsLegal`) |
| `IdentityProofs!VerifiedIsSigned` | `[]DocumentsAreFaithful` | `DocumentInv`: whatever circulates carries a signature that somebody made; with the ideal signature (`SignatureIdentifies`, `HashIdentifies`) what verifies is what was signed |
| `IdentityProofs!DelegationsAttenuate` | `[]DelegationAttenuates` | `DelegationInv`: a chain differs from a body it began with in subject and depth only, and its trust is a lower bound of the levels on its path |
| `IdentityProofs!BorderHolds` | `[]BorderIsConsistent` | no induction over steps: it holds for every list of agreements; the first agreement of two parties is one (`AgreementForIsOne`), and the first rule that forbids is found by a least position (`LeastNatural`) |
| `LearningProofs!StoreFollows` | `[]StoreFollowsTrace` | `StoreInv`: each snapshot on its way to the store is a prefix of the cache, and once a call ran alone none older is left |
| `LearningProofs!EvidenceOnce` | `[]EvidenceCountsOnce` | `LearnersInv`: what the miner holds was delivered, fits its pattern and is in no proposal; the count of each bucket is the cardinality of the observations counted in it |
| `LearningProofs!LearnedReverses` | `[]LearnedIsReversible` | `RulesInv`: a rule without an id is on, and a rule whose id was last disabled is off, however many rules have that id; with every id off the rules that are on are the hand-written ones |

`FlowInv` and `IdentityInv` are the conjunctions of the parts above, proved
together because the actions of one part need the types of another (a delegated
token becomes a document); `NodesInv` and `LearningInv` likewise. Each proof has
one step per action of `Next`.

Two proof modules extend several specifications that share no variable:
`GovernanceProofs` those of `CircuitBreaker`, `CapabilityRegistry`, `AutonomyScopes` and
`PolicyEngine`, `PlannerProofs` those of `Planner` and `Knowledge`. So that their names
do not meet, the specifications beside the first are called `RegistrySpec`, `TrustSpec`,
`PolicySpec` and `KnowledgeSpec`.

The assumptions, each evaluated by TLC: `GraphAssumption` (a duplicate-free order,
as `validate` returns; naturals for amounts), `OutputsAssumption` (some step uses
the most of a resource: the amounts are machine numbers), `SagaAssumption`,
`BreakerAssumption`, `RegistryAssumption`, `PolicyAssumption`, `ProviderAssumption` and
`DepthAssumption` (types), `TrustAssumption` (ordered thresholds with the bootstrap score below the second
level, as the defaults are), `EventsAssumption` (a payload is an object, an array
or neither), `BodiesAssumption` and `BorderAssumption` (the fields of the signed structs and
of agreements; integer levels), `LearningAssumption` (the four learners),
`PlannerAssumption` (an id names one contract of the seeds and one intent; the
classifications there are) and `NodesAssumption` (kinds of children; finitely many
callers; some call uses the most tokens, since they are machine numbers).
The type invariants and `OpenKnowsWhen` are proved and not listed as properties
of a run.

What the attempts showed, and what was changed for it:

* Co-signing. `DocumentsAreFaithful` used to say that the two cells co-signed the
  very token that verifies. The induction fails: `cosign_token` does not verify
  what it signs and covers the claims only through the token's signature, so
  cells may co-sign an altered copy, and moved to the original the co-signature
  verifies. The property now says what holds: the claims are the issuer's, and
  these cells co-signed a token with this signature. The run was one document
  too small to meet the case.
* A saga's lists are told apart by step number, and nothing makes numbers differ:
  `UniqueNumbers` is the premise the proof needs. A saga without steps completes at
  once; the model did not let it start.
* `CASE` with overlapping guards does not say that the first one wins, as the code's
  early returns do. Such definitions in `IntentFlow`, `Composition`, `Federation`,
  `GraphBuilder` and `Nodes` are now chains of `IF`.
* Induction over naturals. What a recursive function computes can be proved where
  a least counterexample can be taken: the naturals are well founded
  (`NatLessThanWellFounded`, `WFMin`), and a set of counterexamples is a set, not an
  operator parameter. The sum of a fork's tokens (`TokensOf`), the messages of a
  request (`Turns`), the first match of a list (`AgreementFor`) and the evictions of
  the plan cache are proved that way, after their definitions were put as recursive
  functions or by positions. The planner's walk `Visit` is a recursive function too.
* The failures of a breaker are a set of stamped reports: only their number and
  their ages are ever read.
* `AnswerLostOnlyInOverlap` spoke of two attempts of an intent. Two gates among the
  children of *one* fork race in the same way, so it now speaks of gates.
* The bound of `AgentsAreBounded` was one token too low for a budget of zero, which no
  call can get past: it starts from `Monus(budget, 1)`.
* `FlawNeedsOverlap` compares levels of classification, not their names, as `upsert`
  does.
* The property of the miner's rules was once about an operator who approves a rule
  before adding it and disables it with its rollback. The methods know nothing
  of each other, so each is an action of its own, and `LearnedIsReversible`
  promises only what `disable_learned` and `enable_learned` bring about.

Only model-checked, and why:

* Liveness (`EveryRunReturns`, `SagaEnds`, `EveryForkSettles`, `RevocationTakesEffect`,
  `RipePatternIsProposed`): fairness and `ENABLED` are out of this prover's reach.
* `DependenciesFirst` and `GraphFollowsPlan` are about what the depth-first walk and the
  topological sort compute for every relation: an induction over the capabilities not
  yet visited, through the fold over the dependencies of each.
* `IndexIsComplete`: what the fold over the references of a record leaves in the index,
  compared up to the limit of 100 hits, which the bound on the records keeps away.

## 5. Where documents and code disagree

Met while modelling; the models do what the code does.

| Code | Says | Does |
|---|---|---|
| `aaf-runtime/src/executor.rs:302` | :126 "Records every step on the recorder" | a step refused by the charge or the post-step hook ran and is not recorded |
| `aaf-runtime/src/executor.rs:405` | :81 shadow mode "does not execute" writes | the compensator of a skipped write is pushed, and a later failure runs it |
| `aaf-runtime/src/node/fork.rs:38` | executor.rs:81-82, no write-class node is executed | a fork reports `None` and runs its children |
| `aaf-runtime/src/node/fork.rs:68` | development/observability.md:289-293 a fork charges "once per child" and its own `tokens` and `cost_usd` "are zero"; development/runtime-internals.md:161-163 "charged **per child**, not once for the fork" | the tokens and costs of the children are summed, and the executor charges the sum once, as the fork's |
| `aaf-runtime/src/node/approval.rs:111` | :9-11 "if `Pending` or missing, the gate opens a fresh request"; development/runtime-internals.md:150 `Pending` gives `Ok(NodeOutput::pending_approval)` | a pending request is left as it is and fails the node |
| `aaf-policy/src/rules/budget.rs:37` | executor.rs:22-23 exhaustion "is returned as `Ok(Partial)`" | a total equal to the budget is accepted, and the next hook then denies |
| `aaf-runtime/src/executor.rs:469` | :62 `RolledBack.compensated` is "in reverse order" | in execution order, as the comment at 469-470 says |
| `aaf-runtime/src/invoke.rs:239` | :22-24 "policy pre-check, post-check, observation recording, and budget charging all happen inside [`GoverningToolExecutor`]" | `execute` looks the capability up and invokes it |
| `aaf-saga/src/executor.rs:119` | definition.rs:56 "Roll back only the failed step's effects." | every completed step but the failed one |
| `aaf-saga/src/executor.rs:137` | :27 "Steps whose effects were rolled back." | a step without compensation is listed |
| `aaf-saga/src/executor.rs:154` | docs/saga.md:94 "retry → (back to running)" | stays in RecoverySelected |
| `aaf-saga/src/bridge.rs:131` | :120-121 resolution "happens up-front when the closure is built" | at each step |
| `aaf-registry/src/circuit_breaker.rs:133` | :17-18 "If the probe succeeds" | any late success closes a half-open breaker |
| `aaf-registry/src/circuit_breaker.rs:237` | :165 "Number of failures in the current window." | counted without pruning |
| `aaf-registry/src/circuit_breaker.rs:119` | :14-15 "exceeds" the threshold | reaching it trips |
| `aaf-trace/src/recorder.rs:153` | :6-7 fan-out after the store is written | before the trace is looked up, for refused steps too |
| `aaf-trace/src/recorder.rs:142` | contracts/trace.rs:1 "append-only record" | a second open replaces the document |
| `aaf-trust/src/promotion.rs:53` | score.rs:11 "Human override applied (lowers trust)." | the override that completes the record can promote |
| `aaf-trust/src/score.rs:26` | PROJECT.md:620-621 "Drop one level" on an accuracy regression | only the score moves |
| `aaf-registry/src/store.rs:128` | contracts/capability.rs:315-316, updates are reversible | a slow update puts back the contract it read over newer ones, a deregistration included |
| `aaf-registry/src/registration.rs:133` | :59 initial trust "always 0.5" | read back after others may have moved it |
| `aaf-registry/src/store.rs:125` | :105 "one update per capability per 60 seconds" | an update that found no contract uses the slot |
| `aaf-runtime/src/executor.rs:237` | :205-206 the chain is "Drained on any failure path" | a denial or a store error after a completed write drops the chain |
| `aaf-saga/src/executor.rs:105` | docs/saga.md:76 `preserve: [step-1, step-2]` | labels that are not plain numbers are dropped and their steps rolled back |
| `aaf-saga/src/executor.rs:86` | state.rs:23 "Resumed after a pause." | a second `run` starts at the first step and repeats it; Resumed is never entered |
| `aaf-registry/src/circuit_breaker.rs:217` | :35 "One probe request is allowed through" | every caller is let through while half open |
| `aaf-registry/src/registration.rs:120` | :103-104 "returns `RegistrationError::Conflict` when the id is already taken" | two overlapping registrations without force both succeed |
| `aaf-registry/src/a2a.rs:88` | :85-87 "no compensation recorded → policy engine forces approval" | `register` refuses an imported write without compensation |
| `aaf-registry/src/discovery.rs:118` | :115-116 registry order "is deterministic for the in-memory backend" | it is the order of a hash map |
| `aaf-planner/src/planner.rs:121` | :116 "depends on transitively" | only direct dependencies that are among the hits |
| `aaf-llm/src/budget.rs:50` | :4-6 calls past zero are refused "before invoking the provider" | only tokens, and calls in flight overspend |
| `aaf-surface/src/event.rs:77` | :76 "Idempotency key"; docs/enhancements/e3-app-native-surface.md:210-211 "retries cannot double-trigger" | never compared: each delivery of an event makes an intent |
| `aaf-surface/src/router.rs:78` | :61 "an array of ≥ 2 objects" | an array of two items of any kind |
| `aaf-surface/src/router.rs:151` | :21-22 sub-events run "through the same router recursively" | the parts are returned and not routed again |
| `aaf-contracts/src/task.rs` | :82 "Returns `true` if the state is terminal" | Failed, Rejected and Expired have outgoing transitions |
| `aaf-learn/src/fast_path_miner.rs:122` | :4-5 and development/learning-pipeline.md:55 "more than `threshold` times" | reaching the threshold is enough |
| `aaf-planner/src/fast_path.rs:106` | contracts/learn.rs:32-33 a rule "Must reach `Approved` before the planner / registry / router honour it" | `add_learned` looks at no state; approval, rejection and rollback, from whatever state, change nothing in the planner's list |
| `aaf-learn/src/fast_path_miner.rs:125` | contracts/learn.rs:50 "Unique id" | rules of equal counts have one id |
| `aaf-storage/src/memory.rs:193` | :191 "Default impl: linear scan." | the default returns nothing |
| `aaf-federation/src/lib.rs:319` | :296-298 without entity rules "delegate to the legacy `enforce_outbound` path using the capability id as a field-style token" | the payload passed is an empty object, so nothing is refused |
| `aaf-runtime/src/executor.rs:152` | identity/revocation.rs:4-6 "Every hot-path call in the runtime consults this before honouring a manifest, capability token, or artifact signature" | the executor alone asks, for the DID of the requester, once at the start of `run` |
| `aaf-identity/src/revocation.rs:153` | :8-9 "every revocation entry is signed by the revoker" | `revoke` lists an entry without looking at its signature |
| `aaf-federation/src/cosign.rs` | :46-50 "any tamper propagates here" | the bytes hold the token's signature, not its claims; `verify_cosigned` sees an altered claim only because it verifies the token too |
| `aaf-policy/src/scope.rs` | :19-20 "The runtime calls [`compute_effective_scopes`] once at the start" | only tests call it |
| `aaf-policy/src/scope.rs` | :120 it "already does this correctly" | at levels 2 to 4 it matches `*:read` literally and returns nothing |
| `aaf-policy/src/scope.rs:88` | :82 level 4: "everything except `:payment`" | five verbs are listed |

Behaviour that no document denies but that a reader may not expect:

* The planner's cache ignores the requester and skips the bounds of the intent
  that hits; the intent cache answers any requester with the envelope of the
  first. A dependency that does not match the goal is left out of a plan.
* A run in progress goes on when its requester is revoked. Manifests do not consult
  `expires_at`.
* `enforce_capability` does not look at `shared_capabilities`, and of several rules
  for one entity and operation only the first can decide.
* Each delegated intent has the whole budget of its parent. Adapted intents are
  not validated, and an event may raise the adapter's budget. The parts of a
  composite event carry types of their own (`t[0]`, `t[1]`), which none of the default
  rules names. A blank goal fails in
  classification before the refiner can ask for it.
* Proposals never expire by themselves. The rules of the planner and those of the
  sidecar are two lists that nothing keeps alike.
* Two gates that find no request both open one, and the second overwrites what a
  reviewer answered to the first. `upsert` of the ontology tests and inserts under
  three locks, so that of two overlapping upserts the later insertion may be a
  downgrade or a breaking change of the earlier.
* Removing an entity of the ontology leaves relations to it. A record that names
  an entity twice is found twice. A put after `working_clear` brings a task back.

## 6. Plan

The components worth modelling are modelled; what remains is deeper.

1. **Proofs**: `DependenciesFirst` by a least counterexample over the size of what `Visit` has
   not visited, then `GraphFollowsPlan`; `IndexIsComplete` once the index is stated by
   its final content.
2. **Instances**: three runs of the executor with one call each; a saga with
   duplicate step numbers.
3. **Compositions**: `Nodes` under the executor, once the state space allows it;
   registration with trust and breaker.

## 7. Not modelled

Cryptography (signing and hashing are ideal), network I/O (HTTP, transport),
formatting and parsing (export, import, A2A documents, command line), and
evaluation of finished runs, which is pure comparison off the execution path.
Checkpoints, `timeout.rs`, health marks and the degradation ladder are used by
nothing. Working, thread and artifact memory are maps behind one lock, the
context budget a sum, lineage and the resolver read-only walks, projections and
the situation packager a choice of fields. `PROJECT.json` gives the reason for
every component.
