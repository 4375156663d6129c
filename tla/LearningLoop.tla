---------------------------- MODULE LearningLoop ----------------------------
(* The feedback loop: observations that the recorder hands to spawned tasks    *)
(* reach the learners in any order; the miner proposes fast-path rules, people *)
(* review them, and the planner's and the sidecar's rule lists change.         *)
EXTENDS TraceRecorder, FastPath

CONSTANTS
    Workloads,       \* behaviours: [callers, subscribers, calls, seen, reviews], where
                     \* seen[n] is the observation of call n
    OwnTrace,        \* the trace the recorder has open
    Threshold,       \* MinerConfig::threshold
    MinSessions,     \* MinerConfig::min_distinct_sessions
    SuccessDelta, FailureDelta,   \* ScorerConfig, in hundredths
    RuleOf,          \* pattern -> the fast-path rule written for it
    HandRules,       \* rules written by hand
    Requests,        \* intents that are classified
    MaxRules,        \* bound on the planner's list
    MaxLocal         \* bound on the sidecar's list

ASSUME LearningAssumption ==
    /\ Subscribers \subseteq {"miner", "scorer", "router", "escalation"}
    /\ \A w \in Workloads : w.callers \subseteq Callers

VARIABLES
    work,
    evidence,    \* pattern -> observations: FastPathMiner::patterns
    proposals,   \* LearnedRules proposed
    scores,      \* agent -> hundredths: CapabilityScorer
    buckets,     \* <<agent, outcome>> -> [count, cost, successes]: RouterTuner
    escalation,  \* [total, escalated]: EscalationTuner
    rules,       \* the planner's FastPathRuleSet
    healthy, local,  \* the sidecar: SidecarHealth and LocalFastPath
    off          \* ids disabled and since then neither enabled nor added again (history)

learners == <<evidence, proposals, scores, buckets, escalation>>
planner == <<rules, healthy, local, off>>
vars == <<work, recorder, learners, planner>>

Seen(obs) == work.seen[obs]
Trace(obs) == Seen(obs).trace

Init ==
    /\ work \in Workloads
    /\ subscribers = work.subscribers
    /\ RecorderInit
    /\ evidence = <<>>
    /\ proposals = <<>>
    /\ scores = <<>>
    /\ buckets = <<>>
    /\ escalation = [total |-> 0, escalated |-> 0]
    /\ rules = <<>>
    /\ healthy = TRUE
    /\ local = <<>>
    /\ off = {}

\* f with the entry for key, default if there is none, replaced by Op of it
Upsert(f, key, default, Op(_)) ==
    [k \in DOMAIN f \union {key} |->
        IF k # key THEN f[k] ELSE Op(IF key \in DOMAIN f THEN f[key] ELSE default)]

-----------------------------------------------------------------------------
(* The learners: on_observation of each subscriber.  An observation whose      *)
(* status is "none" carries no outcome.                                        *)

Sessions(seen) == {Trace(obs) : obs \in ToSet(seen)}

Minable(obs) == Seen(obs).status = "Succeeded" /\ Seen(obs).agentic

PatternKey(obs) == <<Seen(obs).agent, Seen(obs).node>>

\* Mutant: the evidence is not cleared after a proposal.
Mine_KeepsEvidence(obs) ==
    LET key == PatternKey(obs)
        grown == Upsert(evidence, key, <<>>, LAMBDA seen : Append(seen, obs))
        mature == Len(grown[key]) >= Threshold /\ Cardinality(Sessions(grown[key])) >= MinSessions
        rule == [id |-> <<Len(grown[key]), Cardinality(Sessions(grown[key]))>>, key |-> key,
                 evidence |-> grown[key], state |-> "Proposed"]
    IN  IF ~Minable(obs) THEN UNCHANGED <<evidence, proposals>>
        ELSE /\ proposals' = IF mature THEN Append(proposals, rule) ELSE proposals
             /\ evidence' = grown

\* Mutant: the evidence is proposed only when it is exactly enough.
Mine_Exactly(obs) ==
    LET key == PatternKey(obs)
        grown == Upsert(evidence, key, <<>>, LAMBDA seen : Append(seen, obs))
        mature == Len(grown[key]) = Threshold /\ Cardinality(Sessions(grown[key])) >= MinSessions
        rule == [id |-> <<Len(grown[key]), Cardinality(Sessions(grown[key]))>>, key |-> key,
                 evidence |-> grown[key], state |-> "Proposed"]
    IN  IF ~Minable(obs) THEN UNCHANGED <<evidence, proposals>>
        ELSE /\ proposals' = IF mature THEN Append(proposals, rule) ELSE proposals
             /\ evidence' = IF mature THEN [grown EXCEPT ![key] = <<>>] ELSE grown

\* FastPathMiner: collect the evidence and propose once there is enough of it.
Mine(obs) ==
    LET key == PatternKey(obs)
        grown == Upsert(evidence, key, <<>>, LAMBDA seen : Append(seen, obs))
        mature == Len(grown[key]) >= Threshold /\ Cardinality(Sessions(grown[key])) >= MinSessions
        rule == [id |-> <<Len(grown[key]), Cardinality(Sessions(grown[key]))>>, key |-> key,
                 evidence |-> grown[key], state |-> "Proposed"]
    IN  IF ~Minable(obs) THEN UNCHANGED <<evidence, proposals>>
        ELSE /\ proposals' = IF mature THEN Append(proposals, rule) ELSE proposals
             /\ evidence' = IF mature THEN [grown EXCEPT ![key] = <<>>] ELSE grown

\* CapabilityScorer: nudge the score and clamp it.
Score(obs) ==
    LET delta == IF Seen(obs).status = "Succeeded" THEN SuccessDelta
                 ELSE IF Seen(obs).status \in {"Failed", "RolledBack"} THEN -FailureDelta ELSE 0
        Clamp(x) == IF x < 0 THEN 0 ELSE IF x > 100 THEN 100 ELSE x
    IN  scores' = IF delta = 0 THEN scores
                  ELSE Upsert(scores, Seen(obs).agent, 50, LAMBDA x : Clamp(x + delta))

\* RouterTuner: one bucket per agent and coarse outcome.
TuneRouter(obs) ==
    LET key == <<Seen(obs).agent, Seen(obs).outcome>>
        Count(b) == [count |-> b.count + 1, cost |-> b.cost + Seen(obs).cost,
                     successes |-> b.successes + IF Seen(obs).status = "Succeeded" THEN 1 ELSE 0]
    IN  buckets' = IF Seen(obs).status = "none" THEN buckets
                   ELSE Upsert(buckets, key, [count |-> 0, cost |-> 0, successes |-> 0], Count)

\* EscalationTuner
TuneEscalation(obs) ==
    escalation' = IF Seen(obs).status = "none" THEN escalation
                  ELSE [total |-> escalation.total + 1,
                        escalated |-> escalation.escalated
                                      + IF Seen(obs).status = "Escalated" THEN 1 ELSE 0]

\* A spawned task runs its subscriber; each has a lock of its own.
Learn(s, obs) ==
    /\ Deliver(s, obs)
    /\ CASE s = "miner"      -> Mine(obs) /\ UNCHANGED <<scores, buckets, escalation>>
         [] s = "scorer"     -> Score(obs) /\ UNCHANGED <<evidence, proposals, buckets, escalation>>
         [] s = "router"     -> TuneRouter(obs) /\ UNCHANGED <<evidence, proposals, scores, escalation>>
         [] s = "escalation" -> TuneEscalation(obs) /\ UNCHANGED <<evidence, proposals, scores, buckets>>
    /\ UNCHANGED <<work, subscribers, planner>>

-----------------------------------------------------------------------------
(* Review and the rule lists.  Nobody in the repository calls these methods,   *)
(* and none of them calls or looks at another: a verdict changes no list, and  *)
(* the planner's list and the sidecar's are filled apart.                      *)

\* LearnedRule::approve, reject and rollback look at no earlier state.
Review(p, verdict) ==
    /\ proposals' = [proposals EXCEPT ![p].state = verdict]
    /\ UNCHANGED <<work, recorder, evidence, scores, buckets, escalation, planner>>

\* FastPathRuleSet::add_learned, whatever the state of the proposal
Install(p) ==
    /\ Len(rules) < MaxRules
    /\ rules' = AddLearned(rules, RuleOf[proposals[p].key], proposals[p].id)
    /\ off' = off \ {proposals[p].id}
    /\ UNCHANGED <<work, recorder, learners, healthy, local>>

\* FastPathRuleSet::disable_learned and enable_learned
Disable(id) ==
    /\ rules' = SetLearned(rules, id, FALSE)
    /\ off' = off \union {id}
    /\ UNCHANGED <<work, recorder, learners, healthy, local>>

Enable(id) ==
    /\ rules' = SetLearned(rules, id, TRUE)
    /\ off' = off \ {id}
    /\ UNCHANGED <<work, recorder, learners, healthy, local>>

\* A rule written by hand goes to the planner's list,
Author(rule) ==
    /\ Len(rules) < MaxRules
    /\ rules' = Push(rules, rule)
    /\ UNCHANGED <<work, recorder, learners, healthy, local, off>>

\* or to the sidecar's: LocalFastPath::add.
AddLocal(rule) ==
    /\ Len(local) < MaxLocal
    /\ local' = Push(local, rule)
    /\ UNCHANGED <<work, recorder, learners, rules, healthy, off>>

\* SidecarHealth::mark_unhealthy and mark_healthy
Health ==
    /\ healthy' = ~healthy
    /\ UNCHANGED <<work, recorder, learners, rules, local, off>>

-----------------------------------------------------------------------------
Recording(step) == step /\ UNCHANGED <<work, subscribers, learners, planner>>

Next ==
    \/ \E c \in work.callers :
         \/ calls < work.calls /\ Recording(Open(c))
         \/ calls < work.calls /\ Recording(RecordStep(c, Trace(calls + 1) = OwnTrace))
         \/ calls < work.calls /\ Recording(Close(c))
         \/ Recording(Proceed(c))
    \/ \E s \in Subscribers, obs \in Observations : Learn(s, obs)
    \/ /\ work.reviews
       /\ \/ \E p \in DOMAIN proposals :
                \/ \E v \in {"Approved", "Rejected", "RolledBack"} : Review(p, v)
                \/ Install(p) \/ Disable(proposals[p].id) \/ Enable(proposals[p].id)
          \/ \E rule \in HandRules : Author(rule) \/ AddLocal(rule)
          \/ Health

\* Callers need not call; a call in progress returns and a spawned task runs.
Fairness ==
    /\ \A c \in Callers : WF_vars(Recording(Proceed(c)))
    /\ \A s \in Subscribers, obs \in Observations : WF_vars(Learn(s, obs))

Spec == Init /\ [][Next]_vars /\ Fairness

-----------------------------------------------------------------------------
(* Properties *)

\* The observations with an outcome that a subscriber received, of one bucket or all.
Counted(s) == {obs \in delivered[s] : Seen(obs).status # "none"}
CountedIn(key) == {obs \in Counted("router") : <<Seen(obs).agent, Seen(obs).outcome>> = key}

\* Tasks deliver observations in any order and the miner clears what it used: a
\* proposal rests on enough successful agent steps of enough distinct traces,
\* all of one pattern, and no step is evidence for two proposals, so that one
\* session cannot ride on the variety of an earlier one.  The tuners count each
\* observation with an outcome once, each in its bucket, and when no task is
\* left they have counted the same ones.
EvidenceCountsOnce ==
    /\ \A p \in DOMAIN proposals :
         LET used == ToSet(proposals[p].evidence)
         IN  /\ Cardinality(used) >= Threshold
             /\ Cardinality({Trace(obs) : obs \in used}) >= MinSessions
             /\ \A obs \in used : Minable(obs) /\ PatternKey(obs) = proposals[p].key
             /\ \A q \in DOMAIN proposals \ {p} : used \intersect ToSet(proposals[q].evidence) = {}
    /\ {"router", "escalation"} \subseteq subscribers =>
         /\ escalation.total = Cardinality(Counted("escalation"))
         /\ \A key \in DOMAIN buckets : buckets[key].count = Cardinality(CountedIn(key))
         /\ \A obs \in Counted("router") : <<Seen(obs).agent, Seen(obs).outcome>> \in DOMAIN buckets
         /\ tasks = {} => Counted("router") = Counted("escalation")

\* The rules of the planner's list that were written by hand and match r
Written(r) == {k \in DOMAIN rules : rules[k].id = NoId /\ Matches(rules[k].rule, r)}

\* Every rule of the sidecar is in the planner's list too.
Mirrored == \A k \in DOMAIN local : \E m \in DOMAIN rules : rules[m].id = NoId /\ rules[m].rule = local[k].rule

\* Rule ids are made of two counts, so that rules of several proposals share one,
\* while disabling and enabling go by id.  Whatever was added, disabled and
\* enabled before, an id that is off decides no request; when all that was
\* learned is off, each request is decided by the first rule written by hand, as
\* if nothing had been learned; and a sidecar whose rules the planner has too
\* takes nothing for a fast path that the planner sends to an agent.
LearnedIsReversible ==
    \A r \in Requests :
        LET i == Deciding(rules, r)
        IN  /\ i # 0 => rules[i].id \notin off
            /\ (\A k \in DOMAIN rules : rules[k].id \in off \union {NoId}) =>
                 i = IF Written(r) = {} THEN 0 ELSE Min(Written(r))
            /\ Mirrored /\ Handle(healthy, local, r) = "FastPath" => Pattern(rules, r, 1) = "FastPath"

Announced == {obs \in 1..calls : <<"miner", obs>> \in tasks \/ obs \in delivered["miner"]}

Ripe(key) ==
    LET fit == {obs \in Announced : Minable(obs) /\ PatternKey(obs) = key}
    IN  Cardinality(fit) >= Threshold /\ Cardinality({Trace(obs) : obs \in fit}) >= MinSessions

\* Enough successful agent steps of one pattern from enough traces, recorded or
\* refused by the recorder, end in a proposal whatever the order of the tasks.
RipePatternIsProposed ==
    \A key \in DOMAIN RuleOf : Ripe(key) ~> \E p \in DOMAIN proposals : proposals[p].key = key
=============================================================================
