--------------------------- MODULE CircuitBreaker ---------------------------
(***************************************************************************)
(* One breaker of CircuitBreakerRegistry (aaf-registry) shared by callers  *)
(* that ask allows(), perform their request and report how it went.        *)
(*                                                                         *)
(* Every method of the registry but force_open reads the clock before it   *)
(* takes the lock, so a caller may act on the breaker with a time stamp    *)
(* that is older than one already applied: reading the clock and applying  *)
(* the operation are two actions.  Breakers of different keys share only   *)
(* the lock and are independent.                                           *)
(***************************************************************************)
EXTENDS Integers, FiniteSets

CONSTANTS
    Callers,
    FailureThreshold, Window, Cooldown,   \* BreakerConfig
    MaxTime,                              \* bound on the clock
    MaxOverrides                          \* bound on operator interventions

ASSUME BreakerAssumption ==
    /\ FailureThreshold \in Nat /\ Window \in Nat /\ Cooldown \in Nat
    /\ MaxTime \in Nat /\ MaxOverrides \in Nat

NoTime == -1

VARIABLES
    state,      \* BreakerInner.state
    failures,   \* BreakerInner.failures: pairs of a time stamp and which one of
                \* that time it is, so that equal stamps count one by one
    opened_at,  \* BreakerInner.opened_at, NoTime for None
    clock,      \* Utc::now()
    pc,         \* caller: "idle", "asking", "inFlight", "succeeded", "failed", "viewing"
    stamp,      \* caller: the time it read before taking the lock, 0 when unused
    overrides   \* history: operator interventions

breaker == <<state, failures, opened_at>>
vars == <<breaker, clock, pc, stamp, overrides>>

States == {"Closed", "Open", "HalfOpen"}

-----------------------------------------------------------------------------
(* BreakerInner.                                                           *)

New ==
    /\ state = "Closed"
    /\ failures = {}
    /\ opened_at = NoTime

\* prune(): what the window ending at now keeps.
Pruned(now) == {f \in failures : f[1] > now - Window}

\* One failure more at this time; the window keeps or drops equal stamps together.
WithFailure(kept, now) == kept \cup {<<now, Cardinality({f \in kept : f[1] = now}) + 1>>}

TripsAt(kept) ==
    \/ state = "HalfOpen"
    \/ state = "Closed" /\ Cardinality(kept) >= FailureThreshold

RecordFailure(now) ==
    LET kept == WithFailure(Pruned(now), now)
    IN  /\ failures' = kept
        /\ IF TripsAt(kept)
           THEN state' = "Open" /\ opened_at' = now
           ELSE UNCHANGED <<state, opened_at>>

\* Mutant: the reset keeps the failures of the window.
RecordSuccess_KeepsFailures(now) ==
    /\ failures' = Pruned(now)
    /\ IF state = "HalfOpen"
       THEN state' = "Closed" /\ opened_at' = NoTime
       ELSE UNCHANGED <<state, opened_at>>

\* Mutant: a success resets the breaker from Open as well.
RecordSuccess_FromOpen(now) ==
    IF state # "Closed"
    THEN state' = "Closed" /\ failures' = {} /\ opened_at' = NoTime
    ELSE failures' = Pruned(now) /\ UNCHANGED <<state, opened_at>>

RecordSuccess(now) ==
    IF state = "HalfOpen"
    THEN state' = "Closed" /\ failures' = {} /\ opened_at' = NoTime
    ELSE failures' = Pruned(now) /\ UNCHANGED <<state, opened_at>>

\* Mutant: the cooldown is exceeded instead of reached.
EffectiveState_Late(now) ==
    IF state = "Open" /\ opened_at # NoTime /\ now - opened_at > Cooldown
    THEN "HalfOpen" ELSE state

\* effective_state(): Open turns into HalfOpen once the cooldown has passed.
EffectiveState(now) ==
    IF state = "Open" /\ opened_at # NoTime /\ now - opened_at >= Cooldown
    THEN "HalfOpen" ELSE state

-----------------------------------------------------------------------------
(* The registry's methods, called by the callers and by an operator.       *)

Init ==
    /\ New
    /\ clock = 0
    /\ pc = [c \in Callers |-> "idle"]
    /\ stamp = [c \in Callers |-> 0]
    /\ overrides = 0

Tick ==
    /\ clock < MaxTime
    /\ clock' = clock + 1
    /\ UNCHANGED <<breaker, pc, stamp, overrides>>

\* The caller reads the clock and goes on to wait for the lock.
Stamp(c, from, to) ==
    /\ pc[c] = from
    /\ pc' = [pc EXCEPT ![c] = to]
    /\ stamp' = [stamp EXCEPT ![c] = clock]
    /\ UNCHANGED <<breaker, clock, overrides>>

Ask(c) == Stamp(c, "idle", "asking")
View(c) == Stamp(c, "idle", "viewing")
Finish(c) == \E how \in {"succeeded", "failed"} : Stamp(c, "inFlight", how)

\* allows(): the request goes ahead unless the effective state is Open.
Allows(c) ==
    /\ pc[c] = "asking"
    /\ state' = EffectiveState(stamp[c])
    /\ pc' = [pc EXCEPT ![c] = IF state' = "Open" THEN "idle" ELSE "inFlight"]
    /\ stamp' = [stamp EXCEPT ![c] = 0]
    /\ UNCHANGED <<failures, opened_at, clock, overrides>>

\* snapshot(): resolves the state; the failures are counted without pruning.
Snapshot(c) ==
    /\ pc[c] = "viewing"
    /\ state' = EffectiveState(stamp[c])
    /\ pc' = [pc EXCEPT ![c] = "idle"]
    /\ stamp' = [stamp EXCEPT ![c] = 0]
    /\ UNCHANGED <<failures, opened_at, clock, overrides>>

Report(c) ==
    /\ \/ /\ pc[c] = "failed"
          /\ RecordFailure(stamp[c])
       \/ /\ pc[c] = "succeeded"
          /\ RecordSuccess(stamp[c])
    /\ pc' = [pc EXCEPT ![c] = "idle"]
    /\ stamp' = [stamp EXCEPT ![c] = 0]
    /\ UNCHANGED <<clock, overrides>>

\* force_open(): the only method that reads the clock under the lock.
ForceOpen ==
    /\ overrides < MaxOverrides
    /\ overrides' = overrides + 1
    /\ state' = "Open" /\ opened_at' = clock
    /\ UNCHANGED <<failures, clock, pc, stamp>>

ForceClose ==
    /\ overrides < MaxOverrides
    /\ overrides' = overrides + 1
    /\ state' = "Closed" /\ failures' = {} /\ opened_at' = NoTime
    /\ UNCHANGED <<clock, pc, stamp>>

Next ==
    \/ Tick \/ ForceOpen \/ ForceClose
    \/ \E c \in Callers : \/ Ask(c) \/ View(c) \/ Finish(c)
                          \/ Allows(c) \/ Snapshot(c) \/ Report(c)

Spec == Init /\ [][Next]_vars

-----------------------------------------------------------------------------
(* Properties.                                                             *)

\* A breaker that is not closed knows when it was opened: effective_state could
\* otherwise never leave Open.
OpenKnowsWhen == state = "Closed" <=> opened_at = NoTime

\* A closed breaker has fewer failures on record than trip it, so a recovery or
\* a reset really starts afresh: no old failure is left to trip it at once.
ClosedBelowThreshold ==
    state = "Closed" /\ FailureThreshold > 0 => Cardinality(failures) < FailureThreshold

\* A breaker that has been open for the cooldown admits the next caller to ask,
\* and it never goes back from HalfOpen by itself: a caller who is refused asked
\* with a stamp inside the cooldown.
RefusedOnlyInCooldown ==
    [][\A c \in Callers :
          pc[c] = "asking" /\ pc'[c] = "idle"
              => opened_at' \in 0..MaxTime /\ stamp[c] < opened_at' + Cooldown]_vars

\* Left to itself the breaker is the three-state machine of its documentation.
Abstract == INSTANCE BreakerAbstract WITH state <- state, overrides <- overrides
RefinesAbstract == Abstract!Spec

=============================================================================
