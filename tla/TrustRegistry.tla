--------------------------- MODULE TrustRegistry ----------------------------
(***************************************************************************)
(* TrustRegistry (aaf-trust) for one agent: its score, its autonomy level  *)
(* and the history that promotes or demotes it.  Agents share only the     *)
(* lock, under which each method runs as a whole.                          *)
(*                                                                         *)
(* Scores are integers in 0..MaxScore, the code's floats in units of       *)
(* 1/MaxScore; override rates are compared in percent.                     *)
(* ScoreHistory.success is counted and never read, so it is left out.      *)
(***************************************************************************)
EXTENDS Integers

CONSTANTS
    MaxScore,        \* the score 1.0
    Bootstrap,       \* the score 0.5: TrustScore::initial and the floor
    L2, L3, L4, L5,  \* AutonomyPolicy
    Delta,           \* ScoreEvent::delta
    CeilingPct,      \* PromotionRules.override_rate_ceiling
    FloorPct,        \* PromotionRules.override_rate_floor_for_promotion
    MinExecutions,   \* PromotionRules.min_executions_for_promotion
    MaxEvents        \* bound on the events between two registrations

Events == {"Success", "HumanOverride", "PolicyViolation", "AccuracyRegression"}
Levels == 1..5

ASSUME TrustAssumption ==
    /\ MaxScore \in Nat /\ Bootstrap \in 0..MaxScore
    /\ L2 \in 0..MaxScore /\ L3 \in 0..MaxScore /\ L4 \in 0..MaxScore /\ L5 \in 0..MaxScore
    /\ Bootstrap < L2 /\ L2 <= L3 /\ L3 <= L4 /\ L4 <= L5
    /\ Delta \in [Events -> Int]
    /\ Delta["Success"] >= 0 /\ Delta["HumanOverride"] <= 0
    /\ CeilingPct \in Nat /\ FloorPct \in Nat /\ FloorPct <= CeilingPct
    /\ MinExecutions \in Nat \ {0} /\ MaxEvents \in Nat

VARIABLES
    value,            \* TrustScore.value
    autonomy,         \* TrustScore.autonomy
    total,            \* ScoreHistory.total
    human_overrides,  \* ScoreHistory.human_override
    violations        \* ScoreHistory.policy_violations

trustVars == <<value, autonomy, total, human_overrides, violations>>

-----------------------------------------------------------------------------
Clamped(v) == IF v < 0 THEN 0 ELSE IF v > MaxScore THEN MaxScore ELSE v

LevelFor(score) ==
    IF score >= L5 THEN 5
    ELSE IF score >= L4 THEN 4
    ELSE IF score >= L3 THEN 3
    ELSE IF score >= L2 THEN 2 ELSE 1

\* Mutant: a promotion needs no record.
DecidePromotion_NoRecord(level, n, o, v) ==
    IF v > 0 THEN "DropToFloor"
    ELSE IF 100 * o > CeilingPct * n THEN "Demote"
    ELSE IF level = 5 THEN "Hold" ELSE "Promote"

\* PromotionRules::evaluate for a bracket, n events, o overrides and v policy
\* violations.
DecidePromotion(level, n, o, v) ==
    IF v > 0 THEN "DropToFloor"
    ELSE IF 100 * o > CeilingPct * n THEN "Demote"
    ELSE IF level # 5 /\ n >= MinExecutions /\ 100 * o < FloorPct * n
    THEN "Promote" ELSE "Hold"

Lower(level) == IF level = 1 THEN 1 ELSE level - 1
Raise(level) == IF level = 5 THEN 5 ELSE level + 1

-----------------------------------------------------------------------------
\* An agent nobody registered is treated as one at the bootstrap score.
TrustInit ==
    /\ value = Bootstrap /\ autonomy = 1
    /\ total = 0 /\ human_overrides = 0 /\ violations = 0

\* register(): also for an agent that is known, whose history it discards.
RegisterAgent ==
    /\ value' = Bootstrap /\ autonomy' = 1
    /\ total' = 0 /\ human_overrides' = 0 /\ violations' = 0

\* Mutant: the score is not brought down to the floor.
Observe_KeepsScore(event) ==
    /\ total < MaxEvents
    /\ total' = total + 1
    /\ human_overrides' = IF event = "HumanOverride" THEN human_overrides + 1
                                                     ELSE human_overrides
    /\ violations' = IF event = "PolicyViolation" THEN violations + 1 ELSE violations
    /\ value' = Clamped(value + Delta[event])
    /\ LET level == LevelFor(value')
           decision == DecidePromotion(level, total', human_overrides', violations')
       IN  autonomy' = CASE decision = "DropToFloor" -> 1
                         [] decision = "Demote" -> Lower(level)
                         [] decision = "Promote" -> Raise(level)
                         [] OTHER -> level

\* observe(): count the event, move the score, take its bracket, then let the
\* promotion rules adjust the level around that bracket.
Observe(event) ==
    /\ total < MaxEvents
    /\ total' = total + 1
    /\ human_overrides' = IF event = "HumanOverride" THEN human_overrides + 1
                                                     ELSE human_overrides
    /\ violations' = IF event = "PolicyViolation" THEN violations + 1 ELSE violations
    /\ LET moved == Clamped(value + Delta[event])
           level == LevelFor(moved)
           decision == DecidePromotion(level, total', human_overrides', violations')
       IN  /\ value' = IF decision = "DropToFloor" /\ moved > Bootstrap
                       THEN Bootstrap ELSE moved
           /\ autonomy' = CASE decision = "DropToFloor" -> 1
                            [] decision = "Demote" -> Lower(level)
                            [] decision = "Promote" -> Raise(level)
                            [] OTHER -> level

TrustNext == RegisterAgent \/ \E event \in Events : Observe(event)

TrustSpec == TrustInit /\ [][TrustNext]_trustVars

-----------------------------------------------------------------------------
(* Properties.                                                             *)

TypeOK ==
    /\ value \in 0..MaxScore
    /\ autonomy \in Levels
    /\ total \in Nat /\ human_overrides \in 0..total /\ violations \in 0..total

\* After a policy violation the agent stays at Level1, with no more than the
\* bootstrap score, however many successes follow: no later event of observe()
\* lifts the floor.
ViolationPins == violations > 0 => autonomy = 1 /\ value <= Bootstrap

\* A level above the bracket of the score is one level above it and rests on a
\* record: enough executions, few overrides and no violation.
PromotionIsEarned ==
    autonomy > LevelFor(value) =>
        /\ autonomy = LevelFor(value) + 1
        /\ total >= MinExecutions /\ 100 * human_overrides < FloorPct * total
        /\ violations = 0

=============================================================================
