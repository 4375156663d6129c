--------------------------- MODULE GovernanceProofs --------------------------
(***************************************************************************)
(* Proofs about what governs a call: the breaker and the registries that   *)
(* its callers race on, the trust in an agent, and the policy engine.  The *)
(* four share no variable; each has a specification of its own.            *)
(*                                                                         *)
(* CircuitBreaker, for any number of callers, any threshold, window and    *)
(* cooldown, and time stamps as stale as the interleaving makes them: the  *)
(* breaker knows when it opened, refuses only inside the cooldown, has     *)
(* when closed too few failures on record to trip, and implements the      *)
(* three-state machine.                                                    *)
(*                                                                         *)
(* CapabilityRegistry, for any number of tasks, any set of contracts and   *)
(* any rate limit: what an overlap of two calls can spoil, nothing else    *)
(* can.                                                                    *)
(*                                                                         *)
(* AutonomyScopes over TrustRegistry, for every choice of thresholds,      *)
(* deltas and limits that TrustAssumption allows: the type invariant, the  *)
(* floor that a policy violation leaves, the record that a promotion rests *)
(* on, and the scopes that follow from a level.                            *)
(*                                                                         *)
(* PolicyEngine, for every set of scopes, tenants, texts, capabilities and *)
(* custom rules: how a change of the question moves the decision.          *)
(***************************************************************************)
EXTENDS CircuitBreaker, CapabilityRegistry, AutonomyScopes, PolicyEngine,
        FiniteSetTheorems, TLAPS

-----------------------------------------------------------------------------
(* The circuit breaker *)

Labels == {"idle", "asking", "inFlight", "succeeded", "failed", "viewing"}

\* What the proofs need of the types; the recorded failures take no part.
ClockInv ==
    /\ state \in States
    /\ opened_at \in 0..MaxTime \cup {NoTime}
    /\ clock \in 0..MaxTime
    /\ pc \in [Callers -> Labels]
    /\ stamp \in [Callers -> 0..MaxTime]
    /\ overrides \in Nat

BreakerInv == ClockInv /\ OpenKnowsWhen

\* The time of a report is a clock value and so never reads as None.
LEMMA StampIsTime ==
    ASSUME ClockInv, NEW c \in Callers
    PROVE  stamp[c] \in 0..MaxTime /\ stamp[c] # NoTime
BY BreakerAssumption DEF ClockInv, NoTime

\* effective_state moves only from Open to HalfOpen.
LEMMA EffectiveStateMoves ==
    ASSUME NEW when \in Nat, state \in States
    PROVE  \/ EffectiveState(when) = state
           \/ state = "Open" /\ EffectiveState(when) = "HalfOpen"
BY DEF EffectiveState

\* A reported failure leaves the breaker open with a time, or as it was.
LEMMA FailureKeeps ==
    ASSUME BreakerInv, NEW c \in Callers, RecordFailure(stamp[c])
    PROVE  /\ state' \in States /\ opened_at' \in 0..MaxTime \cup {NoTime}
           /\ OpenKnowsWhen'
           /\ \/ state' = state
              \/ state \in {"Closed", "HalfOpen"} /\ state' = "Open"
<1> DEFINE kept == WithFailure(Pruned(stamp[c]), stamp[c])
<1>1. CASE TripsAt(kept)
  <2>1. state' = "Open" /\ opened_at' = stamp[c]
    BY <1>1 DEF RecordFailure
  <2>2. state \in {"Closed", "HalfOpen"}
    BY <1>1 DEF TripsAt
  <2> QED
    BY <2>1, <2>2, StampIsTime DEF BreakerInv, OpenKnowsWhen, States
<1>2. CASE ~ TripsAt(kept)
  <2>1. UNCHANGED <<state, opened_at>>
    BY <1>2 DEF RecordFailure
  <2> QED
    BY <2>1 DEF BreakerInv, ClockInv, OpenKnowsWhen
<1> QED
  BY <1>1, <1>2

\* A reported success closes a half-open breaker, or leaves it as it was.
LEMMA SuccessKeeps ==
    ASSUME BreakerInv, NEW c \in Callers, RecordSuccess(stamp[c])
    PROVE  /\ state' \in States /\ opened_at' \in 0..MaxTime \cup {NoTime}
           /\ OpenKnowsWhen'
           /\ \/ state' = state
              \/ state = "HalfOpen" /\ state' = "Closed"
BY DEF BreakerInv, ClockInv, OpenKnowsWhen, RecordSuccess, States, NoTime

\* Looking at the breaker keeps opened_at, which HalfOpen needs as much as Open.
LEMMA LookKeeps ==
    ASSUME BreakerInv, NEW c \in Callers,
           state' = EffectiveState(stamp[c]), UNCHANGED opened_at
    PROVE  state' \in States /\ OpenKnowsWhen'
<1>1. stamp[c] \in Nat
  BY StampIsTime, BreakerAssumption DEF BreakerInv
<1>2. \/ state' = state
      \/ state = "Open" /\ state' = "HalfOpen"
  BY <1>1, EffectiveStateMoves DEF BreakerInv, ClockInv
<1> QED
  BY <1>2 DEF BreakerInv, ClockInv, OpenKnowsWhen, States

\* Every step preserves the invariant.
LEMMA BreakerInvNext == BreakerInv /\ [Next]_vars => BreakerInv'
<1> SUFFICES ASSUME BreakerInv, [Next]_vars PROVE BreakerInv'
  OBVIOUS
<1>0. clock \in 0..MaxTime /\ BreakerInv
  BY DEF BreakerInv, ClockInv
<1>1. CASE Tick
  BY <1>1, BreakerAssumption DEF Tick, breaker, BreakerInv, ClockInv, OpenKnowsWhen
<1>2. CASE ForceOpen
  BY <1>2, BreakerAssumption DEF ForceOpen, BreakerInv, ClockInv, OpenKnowsWhen, States, NoTime
<1>3. CASE ForceClose
  BY <1>3 DEF ForceClose, BreakerInv, ClockInv, OpenKnowsWhen, States, NoTime
<1>4. ASSUME NEW c \in Callers, Ask(c) \/ View(c) \/ Finish(c) PROVE BreakerInv'
  <2>1. PICK from \in Labels, to \in Labels : Stamp(c, from, to)
    BY <1>4 DEF Ask, View, Finish, Labels
  <2> QED
    BY <2>1 DEF Stamp, breaker, BreakerInv, ClockInv, OpenKnowsWhen
<1>5. ASSUME NEW c \in Callers, Allows(c) PROVE BreakerInv'
  <2>1. state' \in States /\ OpenKnowsWhen'
    BY <1>5, LookKeeps DEF Allows
  <2> QED
    BY <1>5, <2>1, BreakerAssumption DEF Allows, BreakerInv, ClockInv, Labels
<1>6. ASSUME NEW c \in Callers, Snapshot(c) PROVE BreakerInv'
  <2>1. state' \in States /\ OpenKnowsWhen'
    BY <1>6, LookKeeps DEF Snapshot
  <2> QED
    BY <1>6, <2>1, BreakerAssumption DEF Snapshot, BreakerInv, ClockInv, Labels
<1>7. ASSUME NEW c \in Callers, Report(c) PROVE BreakerInv'
  <2>1. state' \in States /\ opened_at' \in 0..MaxTime \cup {NoTime} /\ OpenKnowsWhen'
    BY <1>7, FailureKeeps, SuccessKeeps DEF Report
  <2> QED
    BY <1>7, <2>1, BreakerAssumption DEF Report, BreakerInv, ClockInv, Labels
<1>8. CASE UNCHANGED vars
  BY <1>8 DEF vars, breaker, BreakerInv, ClockInv, OpenKnowsWhen
<1> QED
  BY <1>1, <1>2, <1>3, <1>4, <1>5, <1>6, <1>7, <1>8 DEF Next

\* A new breaker (BreakerInner::new) satisfies the invariant.
LEMMA BreakerInvInit == Init => BreakerInv
BY BreakerAssumption DEF Init, New, BreakerInv, ClockInv, OpenKnowsWhen, States, NoTime, Labels

\* A breaker that is not closed knows when it was opened, so that its cooldown
\* can end (effective_state), however stale the stamps of the callers are.
THEOREM BreakerKnowsWhen == Spec => []OpenKnowsWhen
BY BreakerInvInit, BreakerInvNext, PTL DEF Spec, BreakerInv

\* A caller is refused only with a stamp inside the cooldown (allows).
THEOREM RefusalsAreTimed == Spec => RefusedOnlyInCooldown
<1> DEFINE Refusal(c) == pc[c] = "asking" /\ pc'[c] = "idle"
                           => opened_at' \in 0..MaxTime /\ stamp[c] < opened_at' + Cooldown
<1>1. ASSUME BreakerInv, Next, NEW c \in Callers PROVE Refusal(c)
  <2> SUFFICES ASSUME pc[c] = "asking", pc'[c] = "idle"
               PROVE  opened_at' \in 0..MaxTime /\ stamp[c] < opened_at' + Cooldown
    OBVIOUS
  <2>1. Allows(c)
    <3>1. pc \in [Callers -> Labels] /\ pc' # pc
      BY <1>1 DEF BreakerInv, ClockInv
    <3>2. PICK d \in Callers : \/ Ask(d) \/ View(d) \/ Finish(d)
                               \/ Allows(d) \/ Snapshot(d) \/ Report(d)
      BY <1>1, <3>1 DEF Next, Tick, ForceOpen, ForceClose
    <3>3. d = c
      BY <3>1, <3>2 DEF Ask, View, Finish, Stamp, Allows, Snapshot, Report
    <3> QED
      BY <3>1, <3>2, <3>3 DEF Ask, View, Finish, Stamp, Allows, Snapshot, Report
  <2>2. state' = "Open" /\ state' = EffectiveState(stamp[c]) /\ opened_at' = opened_at
    BY <1>1, <2>1 DEF Allows, BreakerInv, ClockInv
  <2>3. state = "Open" /\ ~ (opened_at # NoTime /\ stamp[c] - opened_at >= Cooldown)
    BY <2>2 DEF EffectiveState
  <2>4. opened_at \in 0..MaxTime
    BY <1>1, <2>3 DEF BreakerInv, ClockInv, OpenKnowsWhen
  <2>5. opened_at # NoTime /\ stamp[c] \in 0..MaxTime
    BY <1>1, <2>4, StampIsTime DEF BreakerInv, NoTime
  <2> QED
    BY <2>2, <2>3, <2>4, <2>5, BreakerAssumption
<1>2. BreakerInv /\ [Next]_vars => [\A c \in Callers : Refusal(c)]_vars
  BY <1>1
<1> QED
  BY <1>2, BreakerInvInit, BreakerInvNext, PTL DEF Spec, RefusedOnlyInCooldown

\* The record of failures of a breaker that is closed is too short to trip it.
RecordInv == IsFiniteSet(failures) /\ ClosedBelowThreshold

\* prune shortens the record.
LEMMA PrunedIsShorter ==
    ASSUME IsFiniteSet(failures), NEW when
    PROVE  /\ IsFiniteSet(Pruned(when))
           /\ Cardinality(Pruned(when)) \in Nat /\ Cardinality(failures) \in Nat
           /\ Cardinality(Pruned(when)) <= Cardinality(failures)
<1>1. Pruned(when) \in SUBSET failures
  BY DEF Pruned
<1> QED
  BY <1>1, FS_Subset, FS_CardinalityType

\* A failure is recorded after the pruning and before the record is measured, so
\* the breaker that it leaves closed is measured at its new length.
LEMMA FailureRecorded ==
    ASSUME RecordInv, NEW when, RecordFailure(when)
    PROVE  RecordInv'
<1> PICK kept : kept = WithFailure(Pruned(when), when)
  OBVIOUS
<1>1. failures' = kept
  BY DEF RecordFailure
<1>2. IsFiniteSet(kept) /\ Cardinality(kept) \in Nat
  BY PrunedIsShorter, FS_AddElement, FS_CardinalityType DEF RecordInv, WithFailure
<1>3. state' = "Closed" => Cardinality(kept) < FailureThreshold
  <2>1. CASE TripsAt(kept)
    BY <2>1 DEF RecordFailure
  <2>2. CASE ~ TripsAt(kept)
    BY <2>2, <1>2, BreakerAssumption DEF RecordFailure, TripsAt
  <2> QED
    BY <2>1, <2>2
<1> QED
  BY <1>1, <1>2, <1>3 DEF RecordInv, ClosedBelowThreshold

LEMMA SuccessRecorded ==
    ASSUME RecordInv, NEW when, RecordSuccess(when)
    PROVE  RecordInv'
<1>1. CASE state = "HalfOpen"
  BY <1>1, FS_EmptySet, BreakerAssumption DEF RecordSuccess, RecordInv, ClosedBelowThreshold
<1>2. CASE state # "HalfOpen"
  <2>1. failures' = Pruned(when) /\ state' = state
    BY <1>2 DEF RecordSuccess
  <2> QED
    BY <2>1, PrunedIsShorter, BreakerAssumption DEF RecordInv, ClosedBelowThreshold
<1> QED
  BY <1>1, <1>2

LEMMA RecordInvNext == BreakerInv /\ RecordInv /\ [Next]_vars => RecordInv'
<1> SUFFICES ASSUME BreakerInv, RecordInv, [Next]_vars PROVE RecordInv'
  OBVIOUS
<1>1. ASSUME UNCHANGED <<state, failures>> PROVE RecordInv'
  BY <1>1 DEF RecordInv, ClosedBelowThreshold
<1>2. CASE ForceOpen
  BY <1>2 DEF ForceOpen, RecordInv, ClosedBelowThreshold
<1>3. CASE ForceClose
  BY <1>3, FS_EmptySet, BreakerAssumption DEF ForceClose, RecordInv, ClosedBelowThreshold
<1>4. ASSUME NEW c \in Callers, Allows(c) \/ Snapshot(c) PROVE RecordInv'
  <2>1. stamp[c] \in Nat
    BY StampIsTime, BreakerAssumption DEF BreakerInv
  <2>2. state' = "Closed" => state = "Closed"
    BY <1>4, <2>1, EffectiveStateMoves DEF Allows, Snapshot, BreakerInv, ClockInv
  <2> QED
    BY <1>4, <2>2 DEF Allows, Snapshot, RecordInv, ClosedBelowThreshold
<1>5. ASSUME NEW c \in Callers, Report(c) PROVE RecordInv'
  BY <1>5, FailureRecorded, SuccessRecorded DEF Report
<1>6. ASSUME NEW c \in Callers, Ask(c) \/ View(c) \/ Finish(c) PROVE RecordInv'
  BY <1>1, <1>6 DEF Ask, View, Finish, Stamp, breaker
<1>7. CASE Tick \/ UNCHANGED vars
  BY <1>1, <1>7 DEF Tick, vars, breaker
<1> QED
  BY <1>2, <1>3, <1>4, <1>5, <1>6, <1>7 DEF Next

\* Whatever the threshold and the window, and however stale the stamps, a closed
\* breaker has fewer failures on record than trip it: neither a recovery nor a
\* reset leaves it at the brink (record_failure, record_success, force_close).
THEOREM ClosedStartsAfresh == Spec => []ClosedBelowThreshold
<1>1. Init => RecordInv
  BY FS_EmptySet, BreakerAssumption DEF Init, New, RecordInv, ClosedBelowThreshold
<1>2. RecordInv => ClosedBelowThreshold
  BY DEF RecordInv
<1> QED
  BY <1>1, <1>2, RecordInvNext, BreakerInvInit, BreakerInvNext, PTL DEF Spec

\* A step of the breaker is a step of the three-state machine or leaves its state
\* alone: with stale stamps too, it never skips a state on its own.
LEMMA StepRefines == BreakerInv /\ [Next]_vars => [Abstract!Next]_(Abstract!vars)
<1> SUFFICES ASSUME BreakerInv, Next PROVE Abstract!Next \/ UNCHANGED Abstract!vars
  BY DEF vars, breaker, Abstract!vars
<1>1. CASE Tick
  BY <1>1 DEF Tick, breaker, Abstract!vars
<1>2. CASE ForceOpen \/ ForceClose
  BY <1>2 DEF ForceOpen, ForceClose, Abstract!Next, Abstract!Override
<1>3. ASSUME NEW c \in Callers, Ask(c) \/ View(c) \/ Finish(c)
      PROVE  UNCHANGED Abstract!vars
  BY <1>3 DEF Ask, View, Finish, Stamp, breaker, Abstract!vars
<1>4. ASSUME NEW c \in Callers, Allows(c) \/ Snapshot(c)
      PROVE  Abstract!Next \/ UNCHANGED Abstract!vars
  <2>1. stamp[c] \in Nat
    BY StampIsTime, BreakerAssumption DEF BreakerInv
  <2>2. state' = state \/ (state = "Open" /\ state' = "HalfOpen")
    BY <1>4, <2>1, EffectiveStateMoves DEF Allows, Snapshot, BreakerInv, ClockInv
  <2>3. UNCHANGED overrides
    BY <1>4 DEF Allows, Snapshot
  <2> QED
    BY <2>2, <2>3 DEF Abstract!Next, Abstract!Cool, Abstract!vars
<1>5. ASSUME NEW c \in Callers, Report(c)
      PROVE  Abstract!Next \/ UNCHANGED Abstract!vars
  <2>1. \/ state' = state
        \/ state \in {"Closed", "HalfOpen"} /\ state' = "Open"
        \/ state = "HalfOpen" /\ state' = "Closed"
    BY <1>5, FailureKeeps, SuccessKeeps DEF Report
  <2>2. UNCHANGED overrides
    BY <1>5 DEF Report
  <2> QED
    BY <2>1, <2>2 DEF Abstract!Next, Abstract!Trip, Abstract!Relapse, Abstract!Recover,
                      Abstract!vars
<1> QED
  BY <1>1, <1>2, <1>3, <1>4, <1>5 DEF Next

\* The breaker with its clock, its window and its racing callers implements the
\* three-state machine that circuit_breaker.rs documents.
THEOREM BreakerRefines == Spec => RefinesAbstract
<1>1. Init => Abstract!Init
  BY DEF Init, New, Abstract!Init
<1> QED
  BY <1>1, StepRefines, BreakerInvInit, BreakerInvNext, PTL
     DEF Spec, RefinesAbstract, Abstract!Spec

-----------------------------------------------------------------------------
(* The capability registry.  Both results rest on one invariant, which says    *)
(* what a call that nobody overlapped still knows of the store; no assumption  *)
(* on its constants is needed.                                                 *)

\* The stored contracts, with no bound on the calls.
Kept == [version : Versions, evidence : SUBSET Nat]

Answers == {"none", "Ok", "Invalid", "HealthCheckFailed", "Conflict", "RateLimited",
            "NotFound", "OkOtherTrust"}

\* What a task may be doing, with the local variables it then has.
TaskStates ==
    [at : {"idle"}, answer : Answers]
    \cup [at : {"conflict", "insert", "trust", "report"}, version : Versions,
          force : BOOLEAN, replaced : BOOLEAN]
    \cup [at : {"read"}, id : Nat]
    \cup [at : {"write"}, id : Nat, held : Kept]

RegistryTypeOK ==
    /\ store \in Kept \cup {None}
    /\ task \in [Tasks -> TaskStates]
    /\ calls \in Nat
    /\ crowded \subseteq Tasks

\* Two calls in progress overlapped each other.
BusyAreCrowded ==
    \A t, u \in Tasks : t # u /\ task[t].at # "idle" /\ task[u].at # "idle" => t \in crowded

\* The lookup of a registration that nobody overlapped is still true.
LookupHolds(t) ==
    t \notin crowded /\ task[t].at = "insert" /\ ~task[t].force => store = None

\* So is the copy that a reputation update holds.
CopyIsCurrent(t) ==
    t \notin crowded /\ task[t].at = "write" => store = task[t].held

RegistryInv ==
    /\ RegistryTypeOK
    /\ BusyAreCrowded
    /\ \A t \in Tasks : LookupHolds(t) /\ CopyIsCurrent(t)

\* A task's step from where it is leaves the other tasks where they are, and those
\* that are busy too are known to overlap.
LEMMA StepAlone ==
    ASSUME RegistryInv, NEW t \in Tasks, NEW next \in TaskStates,
           task[t].at # "idle", UNCHANGED <<calls, crowded>>,
           task' = [task EXCEPT ![t] = next],
           store' \in Kept \cup {None},
           t \notin crowded =>
             /\ next.at = "insert" /\ ~next.force => store' = None
             /\ next.at = "write" => store' = next.held
    PROVE  RegistryInv'
<1> USE DEF RegistryInv, RegistryTypeOK
<1>1. \A u \in Tasks \ {t} : task'[u] = task[u]
  OBVIOUS
<1>2. task'[t] = next /\ task' \in [Tasks -> TaskStates]
  OBVIOUS
<1>3. BusyAreCrowded'
  BY <1>1, <1>2 DEF BusyAreCrowded
<1>4. ASSUME NEW u \in Tasks PROVE LookupHolds(u)' /\ CopyIsCurrent(u)'
  <2>1. CASE u = t
    BY <1>2, <2>1 DEF LookupHolds, CopyIsCurrent
  <2>2. CASE u # t
    <3>1. task[u].at = "idle" \/ u \in crowded
      BY <2>2 DEF BusyAreCrowded
    <3> QED
      BY <1>1, <2>2, <3>1 DEF LookupHolds, CopyIsCurrent
  <2> QED
    BY <2>1, <2>2
<1> QED
  BY <1>2, <1>3, <1>4

\* A call that begins marks every call in progress, so what it does to the store is
\* nothing an unmarked task relies on.
LEMMA CallAlone ==
    ASSUME RegistryInv, NEW t \in Tasks, NEW next \in TaskStates, Call(t),
           task' = [task EXCEPT ![t] = next],
           next.at \in {"idle", "conflict", "read"},
           store' \in Kept \cup {None}
    PROVE  RegistryInv'
<1> USE DEF RegistryInv, RegistryTypeOK
<1> DEFINE busy == {u \in Tasks \ {t} : task[u].at # "idle"}
<1>1. task[t].at = "idle" /\ calls' \in Nat /\ crowded' \subseteq Tasks
  BY DEF Call
<1>2. \A u \in Tasks \ {t} : task'[u] = task[u]
  OBVIOUS
<1>3. task'[t] = next /\ task' \in [Tasks -> TaskStates]
  OBVIOUS
<1>4. busy \subseteq crowded' /\ (busy # {} => t \in crowded')
  BY DEF Call
<1>5. \A u \in crowded : u = t \/ u \in crowded'
  BY DEF Call
<1>6. BusyAreCrowded'
  <2> SUFFICES ASSUME NEW u \in Tasks, NEW w \in Tasks, u # w,
                      task'[u].at # "idle", task'[w].at # "idle"
               PROVE  u \in crowded'
    BY DEF BusyAreCrowded
  <2>1. CASE u = t
    BY <1>2, <1>4, <2>1
  <2>2. CASE u # t
    BY <1>2, <1>4, <2>2
  <2> QED
    BY <2>1, <2>2
<1>7. ASSUME NEW u \in Tasks PROVE LookupHolds(u)' /\ CopyIsCurrent(u)'
  <2>1. CASE u = t
    BY <1>3, <2>1 DEF LookupHolds, CopyIsCurrent
  <2>2. CASE u # t
    BY <1>2, <1>4, <2>2 DEF LookupHolds, CopyIsCurrent
  <2> QED
    BY <2>1, <2>2
<1> QED
  BY <1>1, <1>3, <1>6, <1>7

\* Any answer is an idle task's.
LEMMA AnswersAreIdle ==
    ASSUME NEW answer \in Answers
    PROVE  Idle(answer) \in TaskStates /\ Idle(answer).at = "idle"
BY DEF Idle, TaskStates

\* Every step preserves the invariant.
LEMMA RegistryInvNext == RegistryInv /\ [RegistryNext]_registryVars => RegistryInv'
<1> SUFFICES ASSUME RegistryInv, [RegistryNext]_registryVars PROVE RegistryInv'
  OBVIOUS
<1>0. /\ store \in Kept \cup {None} /\ task \in [Tasks -> TaskStates]
      /\ calls \in Nat
  BY DEF RegistryInv, RegistryTypeOK
<1>1. CASE ClockTick \/ ObserveTrust \/ UNCHANGED registryVars
  BY <1>1 DEF ClockTick, ObserveTrust, registryVars, RegistryInv, RegistryTypeOK, BusyAreCrowded,
              LookupHolds, CopyIsCurrent
<1>2. ASSUME NEW t \in Tasks, NEW v \in Versions, Register(t, v) PROVE RegistryInv'
  <2>1. PICK answer \in Answers : task' = [task EXCEPT ![t] = Idle(answer)]
    BY <1>2 DEF Register, Answer, Answers
  <2>2. store' \in Kept \cup {None}
    BY <1>0, <1>2 DEF Register, NewContract, Kept
  <2> QED
    BY <1>2, <2>1, <2>2, AnswersAreIdle, CallAlone DEF Register
<1>3. ASSUME NEW t \in Tasks, Deregister(t) PROVE RegistryInv'
  <2>1. task' = [task EXCEPT ![t] = Idle("Ok")] /\ store' = None /\ Call(t)
    BY <1>3 DEF Deregister, Answer
  <2> QED
    BY <2>1, AnswersAreIdle, CallAlone DEF Answers
<1>4. ASSUME NEW t \in Tasks, NEW v \in Versions, NEW force \in BOOLEAN, Submit(t, v, force)
      PROVE  RegistryInv'
  <2>1. PICK next \in TaskStates :
            next.at \in {"idle", "conflict"} /\ task' = [task EXCEPT ![t] = next]
    <3>1. Pipeline("conflict", v, force, FALSE) \in TaskStates
      BY DEF Pipeline, TaskStates
    <3>2. Pipeline("conflict", v, force, FALSE).at = "conflict"
      BY DEF Pipeline
    <3> QED
      BY <1>4, <3>1, <3>2, AnswersAreIdle DEF Submit, Answer, Answers
  <2> QED
    BY <1>0, <1>4, <2>1, CallAlone DEF Submit
<1>5. ASSUME NEW t \in Tasks, DetectConflict(t) PROVE RegistryInv'
  <2>1. CASE store # None /\ ~task[t].force
    <3>1. task' = [task EXCEPT ![t] = Idle("Conflict")] /\ store' = store
      BY <1>5, <2>1 DEF DetectConflict, Answer
    <3>2. Idle("Conflict") \in TaskStates /\ Idle("Conflict").at = "idle"
      BY AnswersAreIdle DEF Answers
    <3> QED
      BY <1>0, <1>5, <3>1, <3>2, StepAlone DEF DetectConflict
  <2>2. CASE ~ (store # None /\ ~task[t].force)
    <3> DEFINE next == [task[t] EXCEPT !.at = "insert", !.replaced = store # None]
    <3>1. task' = [task EXCEPT ![t] = next] /\ store' = store
      BY <1>0, <1>5, <2>2 DEF DetectConflict
    <3>2. next \in TaskStates /\ next.force = task[t].force /\ next.at = "insert"
      BY <1>0, <1>5 DEF DetectConflict, TaskStates
    <3> HIDE DEF next
    <3> QED
      BY <1>0, <1>5, <2>2, <3>1, <3>2, StepAlone DEF DetectConflict
  <2> QED
    BY <2>1, <2>2
<1>6. ASSUME NEW t \in Tasks, InsertContract(t) PROVE RegistryInv'
  <2> DEFINE next == [task[t] EXCEPT !.at = "trust"]
  <2>1. task' = [task EXCEPT ![t] = next]
    BY <1>0, <1>6 DEF InsertContract
  <2>2. next \in TaskStates /\ next.at = "trust" /\ task[t].version \in Versions
    BY <1>0, <1>6 DEF InsertContract, TaskStates
  <2>3. store' \in Kept
    BY <1>6, <2>2 DEF InsertContract, NewContract, Kept
  <2> HIDE DEF next
  <2> QED
    BY <1>6, <2>1, <2>2, <2>3, StepAlone DEF InsertContract
<1>7. ASSUME NEW t \in Tasks, AssignTrust(t) PROVE RegistryInv'
  <2> DEFINE next == [task[t] EXCEPT !.at = "report"]
  <2>1. task' = [task EXCEPT ![t] = next]
    BY <1>0, <1>7 DEF AssignTrust
  <2>2. next \in TaskStates /\ next.at = "report"
    BY <1>0, <1>7 DEF AssignTrust, TaskStates
  <2> HIDE DEF next
  <2> QED
    BY <1>0, <1>7, <2>1, <2>2, StepAlone DEF AssignTrust
<1>8. ASSUME NEW t \in Tasks, ReportTrust(t) PROVE RegistryInv'
  <2>1. PICK answer \in Answers : task' = [task EXCEPT ![t] = Idle(answer)]
    BY <1>8 DEF ReportTrust, Answer, Answers
  <2> QED
    BY <1>0, <1>8, <2>1, AnswersAreIdle, StepAlone DEF ReportTrust
<1>9. ASSUME NEW t \in Tasks, RateCheck(t) PROVE RegistryInv'
  <2> DEFINE reading == [at |-> "read", id |-> calls']
  <2>1. reading \in TaskStates /\ reading.at = "read"
    <3>1. calls' \in Nat
      BY <1>0, <1>9 DEF RateCheck, Call
    <3> QED
      BY <3>1 DEF TaskStates
  <2>2. PICK next \in TaskStates :
            next.at \in {"idle", "read"} /\ task' = [task EXCEPT ![t] = next]
    <3> HIDE DEF reading
    <3>1. task' = [task EXCEPT ![t] = Idle("RateLimited")] \/ task' = [task EXCEPT ![t] = reading]
      BY <1>9 DEF RateCheck, Answer, reading
    <3> QED
      BY <2>1, <3>1, AnswersAreIdle DEF Answers
  <2> QED
    BY <1>0, <1>9, <2>2, CallAlone DEF RateCheck
<1>10. ASSUME NEW t \in Tasks, ReadContract(t) PROVE RegistryInv'
  <2>1. CASE store = None
    <3>1. task' = [task EXCEPT ![t] = Idle("NotFound")] /\ store' = store
      BY <1>10, <2>1 DEF ReadContract, Answer
    <3>2. Idle("NotFound") \in TaskStates /\ Idle("NotFound").at = "idle"
      BY AnswersAreIdle DEF Answers
    <3> QED
      BY <1>0, <1>10, <3>1, <3>2, StepAlone DEF ReadContract
  <2>2. CASE store # None
    <3> DEFINE next == [at |-> "write", id |-> task[t].id, held |-> store]
    <3>1. task' = [task EXCEPT ![t] = next] /\ store' = store
      BY <1>10, <2>2 DEF ReadContract
    <3>2. next \in TaskStates /\ next.at = "write" /\ next.held = store
      BY <1>0, <1>10, <2>2 DEF ReadContract, TaskStates
    <3> HIDE DEF next
    <3> QED
      BY <1>0, <1>10, <3>1, <3>2, StepAlone DEF ReadContract
  <2> QED
    BY <2>1, <2>2
<1>11. ASSUME NEW t \in Tasks, WriteContract(t) PROVE RegistryInv'
  <2>1. task' = [task EXCEPT ![t] = Idle("Ok")]
    BY <1>11 DEF WriteContract, Answer
  <2>2. task[t].held \in Kept /\ task[t].id \in Nat
    BY <1>0, <1>11 DEF WriteContract, TaskStates
  <2>3. store' \in Kept
    BY <1>11, <2>2 DEF WriteContract, Kept
  <2> QED
    BY <1>11, <2>1, <2>3, AnswersAreIdle, StepAlone DEF WriteContract, Answers
<1> QED
  BY <1>1, <1>2, <1>3, <1>4, <1>5, <1>6, <1>7, <1>8, <1>9, <1>10, <1>11 DEF RegistryNext

\* An empty registry with idle tasks satisfies the invariant.
LEMMA RegistryInvInit == RegistryInit => RegistryInv
<1> SUFFICES ASSUME RegistryInit PROVE RegistryInv
  OBVIOUS
<1>1. \A t \in Tasks : task[t] \in TaskStates /\ task[t].at = "idle"
  BY AnswersAreIdle DEF RegistryInit, Answers
<1>2. task \in [Tasks -> TaskStates]
  BY <1>1 DEF RegistryInit
<1> QED
  BY <1>1, <1>2 DEF RegistryInit, RegistryInv, RegistryTypeOK, BusyAreCrowded,
     LookupHolds, CopyIsCurrent

\* A registration without force overwrites a contract only when another call
\* overlapped it (RegistrationPipeline::register), for any number of tasks.
THEOREM OverwritesOverlap == RegistrySpec => OverwriteNeedsOverlap
<1> DEFINE Safe == \A t \in Tasks \ crowded :
                      task[t].at = "insert" /\ task'[t].at = "trust" /\ ~task[t].force
                        => store = None
<1>1. RegistryInv /\ [RegistryNext]_registryVars => [Safe]_registryVars
  BY DEF RegistryInv, LookupHolds
<1> QED
  BY <1>1, RegistryInvInit, RegistryInvNext, PTL DEF RegistrySpec, OverwriteNeedsOverlap

\* A reputation update that no call overlapped writes back what is there, with
\* nothing but its own evidence added (Registry::update_reputation).
THEOREM LossesOverlap == RegistrySpec => LossNeedsOverlap
<1> DEFINE Safe(t) == task[t].at = "write" /\ task'[t].at = "idle"
                        => store = task[t].held /\ store.evidence \subseteq store'.evidence
<1>1. ASSUME RegistryInv, RegistryNext, NEW t \in Tasks \ crowded PROVE Safe(t)
  <2> SUFFICES ASSUME task[t].at = "write", task'[t].at = "idle"
               PROVE  store = task[t].held /\ store.evidence \subseteq store'.evidence
    OBVIOUS
  <2>0. task \in [Tasks -> TaskStates] /\ task[t] \in TaskStates
    BY <1>1 DEF RegistryInv, RegistryTypeOK
  <2>1. WriteContract(t)
    <3>1. task' # task
      OBVIOUS
    <3>2. PICK u \in Tasks :
            \/ \E v \in Versions : Register(u, v)
            \/ \E v \in Versions, force \in BOOLEAN : Submit(u, v, force)
            \/ Deregister(u) \/ DetectConflict(u) \/ InsertContract(u)
            \/ AssignTrust(u) \/ ReportTrust(u)
            \/ RateCheck(u) \/ ReadContract(u) \/ WriteContract(u)
      BY <1>1, <3>1 DEF RegistryNext, ClockTick, ObserveTrust
    <3>3. \E next : task' = [task EXCEPT ![u] = next]
      BY <2>0, <3>2 DEF Register, Submit, Deregister, DetectConflict, InsertContract, AssignTrust,
                  ReportTrust, RateCheck, ReadContract, WriteContract, Answer
    <3>4. u = t
      BY <2>0, <3>3
    <3> QED
      BY <3>2, <3>4 DEF Register, Submit, Deregister, DetectConflict, InsertContract,
                        AssignTrust, ReportTrust, RateCheck, ReadContract, Call
  <2>2. task[t].held \in Kept /\ store = task[t].held
    BY <1>1, <2>0 DEF RegistryInv, CopyIsCurrent, TaskStates
  <2>3. store' = [task[t].held EXCEPT !.evidence = @ \cup {task[t].id}]
    BY <2>1 DEF WriteContract
  <2> QED
    BY <2>2, <2>3 DEF Kept
<1>2. RegistryInv /\ [RegistryNext]_registryVars => [\A t \in Tasks \ crowded : Safe(t)]_registryVars
  BY <1>1
<1> QED
  BY <1>2, RegistryInvInit, RegistryInvNext, PTL DEF RegistrySpec, LossNeedsOverlap

-----------------------------------------------------------------------------
(* The trust registry, and the scopes that an agent's level allows *)

Levelled == TypeOK /\ ViolationPins /\ PromotionIsEarned

\* A clamped score is a score (TrustScore::clamped).
LEMMA ClampedIsScore ==
    ASSUME NEW v \in Int
    PROVE  Clamped(v) \in 0..MaxScore
BY TrustAssumption DEF Clamped

\* The bracket of a score is a level, and the one of the floor is Level1
\* (AutonomyPolicy::level_for).
LEMMA LevelIsLevel ==
    ASSUME NEW v \in 0..MaxScore
    PROVE  LevelFor(v) \in Levels /\ (v <= Bootstrap => LevelFor(v) = 1)
BY TrustAssumption DEF LevelFor, Levels

\* What the decision of the promotion rules says of the history
\* (PromotionRules::evaluate).
LEMMA DecisionMeans ==
    ASSUME NEW level \in Levels, NEW n \in Nat, NEW o \in 0..n, NEW v \in 0..n
    PROVE  /\ DecidePromotion(level, n, o, v) \in {"DropToFloor", "Demote", "Promote", "Hold"}
           /\ v > 0 <=> DecidePromotion(level, n, o, v) = "DropToFloor"
           /\ DecidePromotion(level, n, o, v) = "Promote" =>
                level # 5 /\ n >= MinExecutions /\ 100 * o < FloorPct * n
BY DEF DecidePromotion

\* The initial state, which register() also restores, satisfies the invariant.
LEMMA LevelledInit == TrustInit => Levelled
<1> SUFFICES ASSUME TrustInit PROVE Levelled
  OBVIOUS
<1>1. TypeOK
  BY TrustAssumption DEF TrustInit, TypeOK, Levels
<1>2. LevelFor(value) = 1
  BY LevelIsLevel, TrustAssumption DEF TrustInit
<1> QED
  BY <1>1, <1>2 DEF TrustInit, Levelled, ViolationPins, PromotionIsEarned

\* observe() preserves the invariant: the four decisions one by one.
LEMMA LevelledObserve ==
    ASSUME Levelled, NEW event \in Events, Observe(event)
    PROVE  Levelled'
<1> DEFINE moved == Clamped(value + Delta[event])
           level == LevelFor(moved)
           decision == DecidePromotion(level, total', human_overrides', violations')
<1>1. total' \in Nat /\ human_overrides' \in 0..total' /\ violations' \in 0..total'
  BY DEF Levelled, TypeOK, Observe
<1>2. moved \in 0..MaxScore
  BY ClampedIsScore, TrustAssumption DEF Levelled, TypeOK
<1>3. level \in Levels
  BY <1>2, LevelIsLevel
<1>4. /\ value' = IF decision = "DropToFloor" /\ moved > Bootstrap THEN Bootstrap ELSE moved
      /\ autonomy' = CASE decision = "DropToFloor" -> 1
                       [] decision = "Demote" -> Lower(level)
                       [] decision = "Promote" -> Raise(level)
                       [] OTHER -> level
  BY DEF Observe
<1>5. /\ decision \in {"DropToFloor", "Demote", "Promote", "Hold"}
      /\ violations' > 0 <=> decision = "DropToFloor"
      /\ decision = "Promote" =>
           level # 5 /\ total' >= MinExecutions /\ 100 * human_overrides' < FloorPct * total'
  BY <1>1, <1>3, DecisionMeans
<1>6. violations' = 0 <=> decision # "DropToFloor"
  BY <1>1, <1>5
<1> HIDE DEF decision
<1>7. CASE decision = "DropToFloor"
  <2>1. value' \in 0..Bootstrap /\ value' \in 0..MaxScore /\ autonomy' = 1
    BY <1>2, <1>4, <1>7, TrustAssumption
  <2>2. LevelFor(value') = 1
    BY <2>1, LevelIsLevel
  <2> QED
    BY <1>1, <2>1, <2>2 DEF Levelled, TypeOK, ViolationPins, PromotionIsEarned, Levels
<1>8. CASE decision # "DropToFloor"
  <2>1. value' = moved /\ LevelFor(value') = level
    BY <1>4, <1>8
  <2>2. autonomy' \in Levels
    BY <1>3, <1>4, <1>5, <1>8 DEF Levels, Lower, Raise
  <2>3. autonomy' > level => autonomy' = level + 1 /\ decision = "Promote"
    BY <1>3, <1>4, <1>5, <1>8 DEF Levels, Lower, Raise
  <2> HIDE DEF level, moved
  <2>4. TypeOK'
    BY <1>1, <1>2, <2>1, <2>2 DEF TypeOK
  <2>5. ViolationPins'
    BY <1>1, <1>5, <1>8 DEF ViolationPins
  <2>6. PromotionIsEarned'
    BY <1>5, <1>6, <1>8, <2>1, <2>3 DEF PromotionIsEarned
  <2> QED
    BY <2>4, <2>5, <2>6 DEF Levelled
<1> QED
  BY <1>7, <1>8

\* Every step preserves the invariant.
LEMMA LevelledNext == Levelled /\ [TrustNext]_trustVars => Levelled'
<1> SUFFICES ASSUME Levelled, [TrustNext]_trustVars PROVE Levelled'
  OBVIOUS
<1>1. CASE RegisterAgent
  <2>1. TypeOK'
    BY <1>1, TrustAssumption DEF RegisterAgent, TypeOK, Levels
  <2>2. LevelFor(value') = 1
    BY <1>1, LevelIsLevel, TrustAssumption DEF RegisterAgent
  <2> QED
    BY <1>1, <2>1, <2>2 DEF RegisterAgent, Levelled, ViolationPins, PromotionIsEarned
<1>2. CASE \E event \in Events : Observe(event)
  BY <1>2, LevelledObserve
<1>3. CASE UNCHANGED trustVars
  BY <1>3 DEF trustVars, Levelled, TypeOK, ViolationPins, PromotionIsEarned, LevelFor
<1> QED
  BY <1>1, <1>2, <1>3 DEF TrustNext

\* Scores, levels and counts keep their ranges under every sequence of events
\* and registrations.
THEOREM TrustTypeCorrect == TrustSpec => []TypeOK
BY LevelledInit, LevelledNext, PTL DEF TrustSpec, Levelled

\* A policy violation pins an agent to Level1 and the bootstrap score until it is
\* registered anew, whatever the deltas and the thresholds are
\* (TrustRegistry::observe).
THEOREM ViolationStays == TrustSpec => []ViolationPins
BY LevelledInit, LevelledNext, PTL DEF TrustSpec, Levelled

\* A level above the bracket of the score is one above it and rests on a record
\* (PromotionRules::evaluate).
THEOREM PromotionsAreEarned == TrustSpec => []PromotionIsEarned
BY LevelledInit, LevelledNext, PTL DEF TrustSpec, Levelled

-----------------------------------------------------------------------------
(* What a level lets a request touch *)

\* s is below the ceiling of the level, for effective_scopes.
Under(s, level) == \E c \in AutonomyCeiling(level) : ScopeMatches(c, s) \/ CeilingMatches(c, s)

\* The ceilings are nested, the global wildcard of Level5 above the lists of the
\* others (autonomy_ceiling).
LEMMA CeilingsAreNested ==
    ASSUME NEW low \in Levels, NEW high \in Levels, low <= high, NEW s, Under(s, low)
    PROVE  Under(s, high)
<1>1. CASE high = 5
  BY <1>1 DEF Under, AutonomyCeiling, CeilingMatches
<1>2. CASE high # 5
  <2>1. low \in 1..4 /\ high \in 1..4
    BY <1>2 DEF Levels
  <2>2. Verbs(low) \subseteq Verbs(high)
    BY <2>1 DEF Verbs
  <2>3. AutonomyCeiling(low) \subseteq AutonomyCeiling(high)
    BY <2>1, <2>2 DEF AutonomyCeiling
  <2> QED
    BY <2>3 DEF Under
<1> QED
  BY <1>1, <1>2

\* A lower level gives no request more (effective_scopes).
LEMMA ScopesGrowWithLevel ==
    ASSUME NEW user, NEW intent, NEW low \in Levels, NEW high \in Levels, low <= high
    PROVE  EffectiveScopes(user, intent, low) \subseteq EffectiveScopes(user, intent, high)
<1>1. \A s : Under(s, low) => Under(s, high)
  BY CeilingsAreNested
<1> QED
  BY <1>1 DEF EffectiveScopes, Under

\* Level1 has an empty ceiling (autonomy_ceiling).
LEMMA FloorHasNoScope ==
    ASSUME NEW user, NEW intent
    PROVE  EffectiveScopes(user, intent, 1) = {}
<1>1. AutonomyCeiling(1) = {}
  BY DEF AutonomyCeiling, Verbs
<1> QED
  BY <1>1 DEF EffectiveScopes

\* Whatever the grants and the needs, the scopes of a request follow the level of
\* the agent: an event that lowers the level adds none, one that raises it takes
\* none, a violation leaves none (TrustRegistry::observe with effective_scopes),
\* and compute_effective_scopes is never the wider of the two.
THEOREM ScopesTrackTrust == TrustSpec => ScopesFollowTrust
<1>1. ASSUME Levelled, Levelled', NEW user
      PROVE  LET before == EffectiveScopes(user, Needs, autonomy)
                 after == EffectiveScopes(user, Needs, autonomy')
             IN  /\ autonomy' <= autonomy => after \subseteq before
                 /\ autonomy' >= autonomy => before \subseteq after
                 /\ violations' > 0 => after = {}
                 /\ ComputeEffectiveScopes(user, Needs, autonomy') \subseteq after
  <2>1. autonomy \in Levels /\ autonomy' \in Levels
    BY <1>1 DEF Levelled, TypeOK
  <2>2. violations' > 0 => autonomy' = 1
    BY <1>1 DEF Levelled, ViolationPins
  <2>3. violations' > 0 => EffectiveScopes(user, Needs, autonomy') = {}
    BY <2>2, FloorHasNoScope
  <2>4. ComputeEffectiveScopes(user, Needs, autonomy') \subseteq EffectiveScopes(user, Needs, autonomy')
    BY DEF ComputeEffectiveScopes, EffectiveScopes
  <2>5. autonomy' <= autonomy =>
          EffectiveScopes(user, Needs, autonomy') \subseteq EffectiveScopes(user, Needs, autonomy)
    BY <2>1, ScopesGrowWithLevel
  <2>6. autonomy' >= autonomy =>
          EffectiveScopes(user, Needs, autonomy) \subseteq EffectiveScopes(user, Needs, autonomy')
    BY <2>1, ScopesGrowWithLevel DEF Levels
  <2> QED
    BY <2>3, <2>4, <2>5, <2>6
<1>2. Levelled /\ Levelled' =>
        [\A user \in Grants :
          LET before == EffectiveScopes(user, Needs, autonomy)
              after == EffectiveScopes(user, Needs, autonomy')
          IN  /\ autonomy' <= autonomy => after \subseteq before
              /\ autonomy' >= autonomy => before \subseteq after
              /\ violations' > 0 => after = {}
              /\ ComputeEffectiveScopes(user, Needs, autonomy') \subseteq after]_trustVars
  BY <1>1
<1>3. TrustSpec => []Levelled
  BY LevelledInit, LevelledNext, PTL DEF TrustSpec
<1> QED
  BY <1>2, <1>3, PTL DEF ScopesFollowTrust

-----------------------------------------------------------------------------
(* The policy engine: how violations decide                                   *)

Severe(v) == v.severity \in {"Error", "Fatal"}

\* w is at least as hard on the caller as v.
AtLeast(w, v) == /\ Severe(v) => Severe(w)
                 /\ v.kind = "SideEffectGate" => w.kind = "SideEffectGate" \/ Severe(w)

\* Every violation of V is met by one of W.
Covers(W, V) == \A v \in V : \E w \in W : AtLeast(w, v)

\* The ladder of decide() respects that: a decision on violations that cover others
\* is no milder.
LEMMA DecideIsMonotone ==
    ASSUME NEW V, NEW W, Covers(W, V)
    PROVE  DecisionRank[Decide(V)] <= DecisionRank[Decide(W)]
<1>1. /\ DecisionRank["Allow"] = 0 /\ DecisionRank["AllowWithWarnings"] = 1
      /\ DecisionRank["RequireApproval"] = 2 /\ DecisionRank["Deny"] = 3
  BY DEF DecisionRank
<1>2. V # {} => W # {}
  BY DEF Covers
<1>3. (\E v \in V : Severe(v)) => \E w \in W : Severe(w)
  BY DEF Covers, AtLeast
<1>4. (\E v \in V : v.kind = "SideEffectGate")
        => (\E w \in W : w.kind = "SideEffectGate") \/ (\E w \in W : Severe(w))
  BY DEF Covers, AtLeast
<1>5. \A U : /\ U = {} => Decide(U) = "Allow"
             /\ (\E v \in U : Severe(v)) => Decide(U) = "Deny"
             /\ U # {} /\ ~ (\E v \in U : Severe(v)) /\ (\E v \in U : v.kind = "SideEffectGate")
                  => Decide(U) = "RequireApproval"
             /\ U # {} /\ ~ (\E v \in U : Severe(v)) /\ ~ (\E v \in U : v.kind = "SideEffectGate")
                  => Decide(U) = "AllowWithWarnings"
  BY DEF Decide, Severe
<1>6. CASE V = {}
  <2>1. Decide(W) \in {"Allow", "AllowWithWarnings", "RequireApproval", "Deny"}
    BY DEF Decide
  <2>2. Decide(V) = "Allow"
    BY <1>5, <1>6
  <2> QED
    BY <1>1, <2>1, <2>2
<1>7. CASE V # {} /\ \E v \in V : Severe(v)
  BY <1>1, <1>3, <1>5, <1>7
<1>8. CASE V # {} /\ ~ (\E v \in V : Severe(v)) /\ \E v \in V : v.kind = "SideEffectGate"
  <2>1. Decide(V) = "RequireApproval"
    BY <1>5, <1>8
  <2>2. Decide(W) \in {"RequireApproval", "Deny"}
    BY <1>2, <1>4, <1>5, <1>8
  <2> QED
    BY <1>1, <2>1, <2>2
<1>9. CASE V # {} /\ ~ (\E v \in V : Severe(v)) /\ ~ (\E v \in V : v.kind = "SideEffectGate")
  <2>1. Decide(V) = "AllowWithWarnings"
    BY <1>5, <1>9
  <2>2. Decide(W) \in {"AllowWithWarnings", "RequireApproval", "Deny"}
    BY <1>2, <1>5, <1>9
  <2> QED
    BY <1>1, <2>1, <2>2
<1> QED
  BY <1>6, <1>7, <1>8, <1>9

\* If every rule is at least as hard on one context as on another of the same hook,
\* so is the engine, whatever its custom rules add.
LEMMA EvaluateIsMonotone ==
    ASSUME NEW R, NEW c, NEW d, NEW X, NEW Y, X \subseteq Y, c.hook = d.hook,
           \A q \in R : Covers(RuleEvaluate(q, d), RuleEvaluate(q, c))
    PROVE  DecisionRank[Evaluate(R, c, X)] <= DecisionRank[Evaluate(R, d, Y)]
<1>1. Covers(Violations(R, d) \cup Y, Violations(R, c) \cup X)
  <2> SUFFICES ASSUME NEW v \in Violations(R, c) \cup X
               PROVE  \E w \in Violations(R, d) \cup Y : AtLeast(w, v)
    BY DEF Covers
  <2>1. CASE v \in X
    BY <2>1 DEF AtLeast
  <2>2. CASE v \in Violations(R, c)
    <3>1. PICK q \in R : c.hook \in ApplicableHooks(q) /\ v \in RuleEvaluate(q, c)
      BY <2>2 DEF Violations
    <3>2. PICK w \in RuleEvaluate(q, d) : AtLeast(w, v)
      BY <3>1 DEF Covers
    <3>3. w \in Violations(R, d)
      BY <3>1, <3>2 DEF Violations
    <3> QED
      BY <3>2, <3>3
  <2> QED
    BY <2>1, <2>2
<1> QED
  BY <1>1, DecideIsMonotone DEF Evaluate

-----------------------------------------------------------------------------
(* The rules of the policy engine *)

\* d asks the same as c, with as much or less budget, as many or more writes
\* composed, and the lookup installed if c has it.
Harder(c, d) ==
    /\ d.hook = c.hook /\ d.capability = c.capability /\ d.scopes = c.scopes
    /\ d.payload = c.payload /\ d.output = c.output /\ d.side_effect = c.side_effect
    /\ d.tenant = c.tenant /\ d.requester_tenant = c.requester_tenant
    /\ d.total = c.total /\ d.remaining <= c.remaining
    /\ d.composed_writes >= c.composed_writes
    /\ c.lookup => d.lookup

\* d asks the same as c with scopes added.
Granted(c, d) ==
    /\ d.hook = c.hook /\ d.capability = c.capability /\ c.scopes \subseteq d.scopes
    /\ d.payload = c.payload /\ d.output = c.output /\ d.side_effect = c.side_effect
    /\ d.tenant = c.tenant /\ d.requester_tenant = c.requester_tenant
    /\ d.total = c.total /\ d.remaining = c.remaining
    /\ d.composed_writes = c.composed_writes /\ d.lookup = c.lookup

Numeric(c) == c.total \in Int /\ c.remaining \in Int /\ c.composed_writes \in Int

\* No default rule finds less, or finds it less severe, in a harder context.
LEMMA RulesGetHarder ==
    ASSUME NEW c, NEW d, Numeric(c), Numeric(d), Harder(c, d), NEW q \in DefaultRules
    PROVE  Covers(RuleEvaluate(q, d), RuleEvaluate(q, c))
<1> USE DEF Harder
<1>0. \A k, s : Violation(k, s).kind = k /\ Violation(k, s).severity = s
  BY DEF Violation
<1>1. CASE q = "ScopeCheck"
  BY <1>1 DEF RuleEvaluate, ScopeCheck, Covers, AtLeast
<1>2. CASE q = "SideEffectGate"
  BY <1>2 DEF RuleEvaluate, SideEffectGate, IsWrite, SideEffectInContext, Covers, AtLeast
<1>3. CASE q = "BudgetControl"
  BY <1>0, <1>3 DEF RuleEvaluate, BudgetControl, Covers, AtLeast, Severe, Numeric
<1>4. CASE q = "PiiGuard"
  BY <1>4 DEF RuleEvaluate, PiiGuard, Covers, AtLeast
<1>5. CASE q = "InjectionGuard"
  BY <1>5 DEF RuleEvaluate, InjectionGuard, Covers, AtLeast
<1>6. CASE q = "CompositionSafety"
  BY <1>6 DEF RuleEvaluate, CompositionSafety, MaxCombinedWrites, IsWrite, SideEffectInContext,
              Covers, AtLeast, Numeric
<1>7. CASE q = "BoundaryEnforcement"
  BY <1>0, <1>7 DEF RuleEvaluate, BoundaryEnforcement, TenantMismatch, LacksClassScope,
                    ClassificationFlow, Covers, AtLeast, Severe
<1> QED
  BY <1>1, <1>2, <1>3, <1>4, <1>5, <1>6, <1>7 DEF DefaultRules

\* No default rule finds more where a scope was granted; a lacking scope may give way
\* to a classification flow, and both deny.
LEMMA RulesGetMilder ==
    ASSUME NEW c, NEW d, Granted(c, d), NEW q \in DefaultRules
    PROVE  Covers(RuleEvaluate(q, c), RuleEvaluate(q, d))
<1> USE DEF Granted
<1>0. \A k, s : Violation(k, s).kind = k /\ Violation(k, s).severity = s
  BY DEF Violation
<1>1. CASE q = "ScopeCheck"
  BY <1>1 DEF RuleEvaluate, ScopeCheck, Covers, AtLeast
<1>2. CASE q = "SideEffectGate"
  BY <1>2 DEF RuleEvaluate, SideEffectGate, IsWrite, SideEffectInContext, Covers, AtLeast
<1>3. CASE q = "BudgetControl"
  BY <1>3 DEF RuleEvaluate, BudgetControl, Covers, AtLeast
<1>4. CASE q = "PiiGuard"
  BY <1>4 DEF RuleEvaluate, PiiGuard, Covers, AtLeast
<1>5. CASE q = "InjectionGuard"
  BY <1>5 DEF RuleEvaluate, InjectionGuard, Covers, AtLeast
<1>6. CASE q = "CompositionSafety"
  BY <1>6 DEF RuleEvaluate, CompositionSafety, IsWrite, SideEffectInContext, Covers, AtLeast
<1>7. CASE q = "BoundaryEnforcement"
  BY <1>0, <1>7 DEF RuleEvaluate, BoundaryEnforcement, TenantMismatch, LacksClassScope,
                    ClassificationFlow, Covers, AtLeast, Severe
<1> QED
  BY <1>1, <1>2, <1>3, <1>4, <1>5, <1>6, <1>7 DEF DefaultRules

-----------------------------------------------------------------------------
(* The policy engine over them *)

Fields == {"hook", "capability", "scopes", "payload", "output", "side_effect", "total",
           "remaining", "tenant", "requester_tenant", "composed_writes", "lookup"}

\* What the rules need to know of a reachable context.
EngineInv ==
    /\ rules \subseteq DefaultRules
    /\ DOMAIN ctx = Fields
    /\ Numeric(ctx)

\* The context a guard starts from.
LEMMA GuardContextFacts ==
    ASSUME NEW scopes, NEW tenant
    PROVE  LET g == GuardContext(scopes, tenant)
           IN  /\ DOMAIN g = Fields
               /\ g.total = Total /\ g.remaining = Total /\ g.composed_writes = 0
BY DEF GuardContext, Fields

LEMMA InputGuardFacts ==
    ASSUME NEW scopes, NEW tenant, NEW text
    PROVE  LET g == InputGuard(scopes, tenant, text) IN DOMAIN g = Fields /\ Numeric(g)
<1> PICK b : b = GuardContext(scopes, tenant)
  OBVIOUS
<1>1. DOMAIN b = Fields /\ b.total = Total /\ b.remaining = Total /\ b.composed_writes = 0
  BY GuardContextFacts
<1> QED
  BY <1>1, PolicyAssumption DEF InputGuard, Numeric, Fields

LEMMA OutputGuardFacts ==
    ASSUME NEW scopes, NEW tenant, NEW text
    PROVE  LET g == OutputGuard(scopes, tenant, text) IN DOMAIN g = Fields /\ Numeric(g)
<1> PICK b : b = GuardContext(scopes, tenant)
  OBVIOUS
<1>1. DOMAIN b = Fields /\ b.total = Total /\ b.remaining = Total /\ b.composed_writes = 0
  BY GuardContextFacts
<1> QED
  BY <1>1, PolicyAssumption DEF OutputGuard, Numeric, Fields

LEMMA ActionGuardFacts ==
    ASSUME NEW scopes, NEW tenant, NEW cap, NEW writes \in Int
    PROVE  LET g == ActionGuard(scopes, tenant, cap, writes) IN DOMAIN g = Fields /\ Numeric(g)
<1> PICK b : b = GuardContext(scopes, tenant)
  OBVIOUS
<1>1. DOMAIN b = Fields /\ b.total = Total /\ b.remaining = Total /\ b.composed_writes = 0
  BY GuardContextFacts
<1> QED
  BY <1>1, PolicyAssumption DEF ActionGuard, Numeric, Fields

LEMMA EngineInvInit == PolicyInit => EngineInv
<1> SUFFICES ASSUME PolicyInit PROVE EngineInv
  OBVIOUS
<1>1. PICK text \in Texts, tenant \in Option(Tenants) : ctx = InputGuard({}, tenant, text)
  BY DEF PolicyInit
<1>2. rules \subseteq DefaultRules
  BY DEF PolicyInit
<1> QED
  BY <1>1, <1>2, InputGuardFacts DEF EngineInv

\* Spending, composing a write and installing the lookup ask a harder question.
LEMMA StepsAreHarder ==
    ASSUME EngineInv, Spend \/ ComposeWrite \/ InstallLookup
    PROVE  DOMAIN ctx' = Fields /\ Numeric(ctx)' /\ Harder(ctx, ctx')
<1> USE DEF EngineInv, Fields, Numeric
<1>1. CASE Spend
  BY <1>1 DEF Spend, Harder
<1>2. CASE ComposeWrite
  BY <1>2 DEF ComposeWrite, Harder
<1>3. CASE InstallLookup
  BY <1>3 DEF InstallLookup, Harder
<1> QED
  BY <1>1, <1>2, <1>3

LEMMA GrantIsMilder ==
    ASSUME EngineInv, GrantScope
    PROVE  DOMAIN ctx' = Fields /\ Numeric(ctx)' /\ Granted(ctx, ctx')
BY DEF EngineInv, Fields, Numeric, GrantScope, Granted

LEMMA EngineInvNext == EngineInv /\ [PolicyNext]_policyVars => EngineInv'
<1> SUFFICES ASSUME EngineInv, [PolicyNext]_policyVars PROVE EngineInv'
  OBVIOUS
<1>1. CASE CheckInput
  <2>1. PICK text \in Texts : ctx' = InputGuard(ctx.scopes, ctx.requester_tenant, text)
    BY <1>1 DEF CheckInput
  <2>2. DOMAIN ctx' = Fields /\ Numeric(ctx')
    BY <2>1, InputGuardFacts
  <2> QED
    BY <1>1, <2>2 DEF CheckInput, EngineInv, Numeric
<1>2. CASE CheckOutput
  <2>1. PICK text \in Texts : ctx' = OutputGuard(ctx.scopes, ctx.requester_tenant, text)
    BY <1>2 DEF CheckOutput
  <2>2. DOMAIN ctx' = Fields /\ Numeric(ctx')
    BY <2>1, OutputGuardFacts
  <2> QED
    BY <1>2, <2>2 DEF CheckOutput, EngineInv, Numeric
<1>3. CASE CheckAction
  <2>1. PICK cap \in Capabilities, writes \in 0..MaxWrites :
           ctx' = ActionGuard(ctx.scopes, ctx.requester_tenant, cap, writes)
    BY <1>3 DEF CheckAction
  <2>2. writes \in Int
    OBVIOUS
  <2>3. DOMAIN ctx' = Fields /\ Numeric(ctx')
    BY <2>1, <2>2, ActionGuardFacts
  <2> QED
    BY <1>3, <2>3 DEF CheckAction, EngineInv, Numeric
<1>4. CASE AddRule
  BY <1>4 DEF AddRule, EngineInv, Numeric
<1>5. CASE Spend \/ ComposeWrite \/ InstallLookup
  <2>1. rules' = rules
    BY <1>5 DEF Spend, ComposeWrite, InstallLookup
  <2> QED
    BY <1>5, <2>1, StepsAreHarder DEF EngineInv
<1>6. CASE SwitchTenant
  BY <1>6 DEF SwitchTenant, EngineInv, Numeric, Fields
<1>7. CASE GrantScope
  <2>1. rules' = rules
    BY <1>7 DEF GrantScope
  <2> QED
    BY <1>7, <2>1, GrantIsMilder DEF EngineInv
<1>8. CASE UNCHANGED policyVars
  BY <1>8 DEF policyVars, EngineInv, Numeric
<1> QED
  BY <1>1, <1>2, <1>3, <1>4, <1>5, <1>6, <1>7, <1>8 DEF PolicyNext

\* Whatever the capabilities, the texts, the tenants and the rules a deployment adds,
\* PolicyEngine::evaluate never relaxes its decision because a rule was added, budget
\* spent, a write composed or the ontology lookup installed, and never tightens it
\* because a scope was granted.
THEOREM DecisionsMoveOneWay == PolicySpec => DecisionsAreMonotone
<1>1. ASSUME EngineInv, AddRule
      PROVE  DecisionRank[Decision'] >= DecisionRank[Decision]
  <2>1. rules' = rules /\ ctx' = ctx /\ custom \subseteq custom'
    BY <1>1 DEF AddRule
  <2>2. \A q \in rules : Covers(RuleEvaluate(q, ctx), RuleEvaluate(q, ctx))
    BY DEF Covers, AtLeast
  <2>3. DecisionRank[Evaluate(rules, ctx, custom)] <= DecisionRank[Evaluate(rules, ctx, custom')]
    BY <2>1, <2>2, EvaluateIsMonotone
  <2> QED
    BY <2>1, <2>3 DEF Decision
<1>2. ASSUME EngineInv, Spend \/ ComposeWrite \/ InstallLookup
      PROVE  DecisionRank[Decision'] >= DecisionRank[Decision]
  <2>1. rules' = rules /\ custom' = custom
    BY <1>2 DEF Spend, ComposeWrite, InstallLookup
  <2>2. Numeric(ctx') /\ Harder(ctx, ctx')
    BY <1>2, StepsAreHarder DEF Numeric
  <2>3. \A q \in rules : Covers(RuleEvaluate(q, ctx'), RuleEvaluate(q, ctx))
    BY <1>2, <2>2, RulesGetHarder DEF EngineInv
  <2>4. DecisionRank[Evaluate(rules, ctx, custom)] <= DecisionRank[Evaluate(rules, ctx', custom)]
    BY <2>2, <2>3, EvaluateIsMonotone DEF Harder
  <2> QED
    BY <2>1, <2>4 DEF Decision
<1>3. ASSUME EngineInv, GrantScope
      PROVE  DecisionRank[Decision'] <= DecisionRank[Decision]
  <2>1. rules' = rules /\ custom' = custom
    BY <1>3 DEF GrantScope
  <2>2. Granted(ctx, ctx')
    BY <1>3, GrantIsMilder
  <2>3. \A q \in rules : Covers(RuleEvaluate(q, ctx), RuleEvaluate(q, ctx'))
    BY <1>3, <2>2, RulesGetMilder DEF EngineInv
  <2>4. DecisionRank[Evaluate(rules, ctx', custom)] <= DecisionRank[Evaluate(rules, ctx, custom)]
    BY <2>2, <2>3, EvaluateIsMonotone DEF Granted
  <2> QED
    BY <2>1, <2>4 DEF Decision
<1> DEFINE Monotone == /\ AddRule \/ Spend \/ ComposeWrite \/ InstallLookup
                            => DecisionRank[Decision'] >= DecisionRank[Decision]
                       /\ GrantScope => DecisionRank[Decision'] <= DecisionRank[Decision]
<1>4. EngineInv => [Monotone]_policyVars
  BY <1>1, <1>2, <1>3
<1> QED
  BY <1>4, EngineInvInit, EngineInvNext, PTL DEF PolicySpec, DecisionsAreMonotone
=============================================================================
