------------------------- MODULE CapabilityRegistry -------------------------
(***************************************************************************)
(* The capability registry (aaf-registry) for one capability id: the       *)
(* stored contract, the rate limit on reputation updates, and the          *)
(* registration pipeline that also enters the id in the trust registry.    *)
(* Ids share no state but the locks of the two maps.                       *)
(*                                                                         *)
(* Each access to the store or to the trust registry takes its own lock,   *)
(* and tasks interleave between them.  A contract is its version and the   *)
(* evidence of the reputation updates applied to it; the score itself is   *)
(* overwritten with each piece of evidence and is left out.                *)
(***************************************************************************)
EXTENDS Integers, FiniteSets

CONSTANTS
    Tasks,        \* concurrent callers
    Versions,     \* contracts a caller may register
    Valid,        \* the versions that pass CapabilityContract::validate
    RateLimit,    \* reputation_rate_limit()
    MaxNow,       \* bound on the clock
    MaxCalls,     \* bound on the calls made
    None          \* an absent contract, or a clock value not yet set

ASSUME RegistryAssumption ==
    /\ Valid \subseteq Versions
    /\ RateLimit \in Nat \ {0} /\ MaxNow \in Nat /\ MaxCalls \in Nat
    /\ None \notin Nat

VARIABLES
    now,      \* Utc::now()
    store,    \* the stored contract, or None
    rated,    \* reputation_rate: the last update that was let through, or None
    trust,    \* the id's record in the trust registry
    task,     \* what each task is doing, with its local variables
    calls,    \* calls made so far
    crowded   \* history: the tasks whose latest call overlapped another one

registryVars == <<now, store, rated, trust, task, calls, crowded>>

Contracts == [version : Versions, evidence : SUBSET (1..MaxCalls)]
NewContract(v) == [version |-> v, evidence |-> {}]
Idle(answer) == [at |-> "idle", answer |-> answer]
Pipeline(at, v, force, replaced) ==
    [at |-> at, version |-> v, force |-> force, replaced |-> replaced]

-----------------------------------------------------------------------------
RegistryInit ==
    /\ now = 0 /\ store = None /\ rated = None /\ trust = "unknown"
    /\ task = [t \in Tasks |-> Idle("none")]
    /\ calls = 0 /\ crowded = {}

ClockTick ==
    /\ now < MaxNow /\ now' = now + 1
    /\ UNCHANGED <<store, rated, trust, task, calls, crowded>>

\* A call begins on an idle task.
Call(t) ==
    LET busy == {u \in Tasks \ {t} : task[u].at # "idle"}
    IN  /\ task[t].at = "idle" /\ calls < MaxCalls
        /\ calls' = calls + 1
        /\ crowded' = IF busy = {} THEN crowded \ {t} ELSE crowded \cup busy \cup {t}

Answer(t, answer) == task' = [task EXCEPT ![t] = Idle(answer)]

\* Registry::register.
Register(t, v) ==
    /\ Call(t)
    /\ IF v \in Valid THEN store' = NewContract(v) /\ Answer(t, "Ok")
                      ELSE store' = store /\ Answer(t, "Invalid")
    /\ UNCHANGED <<now, rated, trust>>

\* Registry::deregister: also of an id that is not there.
Deregister(t) ==
    /\ Call(t)
    /\ store' = None /\ Answer(t, "Ok")
    /\ UNCHANGED <<now, rated, trust>>

-----------------------------------------------------------------------------
(* RegistrationPipeline::register.                                         *)

\* Validation and the health check, which may fail.
Submit(t, v, force) ==
    /\ Call(t)
    /\ \/ v \notin Valid /\ Answer(t, "Invalid")
       \/ v \in Valid /\ Answer(t, "HealthCheckFailed")
       \/ v \in Valid
          /\ task' = [task EXCEPT ![t] = Pipeline("conflict", v, force, FALSE)]
    /\ UNCHANGED <<now, store, rated, trust>>

\* Mutant: a contract that is there is reported and replaced all the same.
DetectConflict_Goes(t) ==
    /\ task[t].at = "conflict"
    /\ task' = [task EXCEPT ![t].at = "insert", ![t].replaced = store # None]
    /\ UNCHANGED <<now, store, rated, trust, calls, crowded>>

\* Conflict detection: look the id up, and give up unless forced.
DetectConflict(t) ==
    /\ task[t].at = "conflict"
    /\ IF store # None /\ ~task[t].force
       THEN Answer(t, "Conflict")
       ELSE task' = [task EXCEPT ![t].at = "insert", ![t].replaced = store # None]
    /\ UNCHANGED <<now, store, rated, trust, calls, crowded>>

InsertContract(t) ==
    /\ task[t].at = "insert"
    /\ store' = NewContract(task[t].version)
    /\ task' = [task EXCEPT ![t].at = "trust"]
    /\ UNCHANGED <<now, rated, trust, calls, crowded>>

AssignTrust(t) ==
    /\ task[t].at = "trust"
    /\ trust' = "initial"
    /\ task' = [task EXCEPT ![t].at = "report"]
    /\ UNCHANGED <<now, store, rated, calls, crowded>>

\* The trust score that goes into the RegistrationResult is read back.
ReportTrust(t) ==
    /\ task[t].at = "report"
    /\ Answer(t, IF trust = "moved" THEN "OkOtherTrust" ELSE "Ok")
    /\ UNCHANGED <<now, store, rated, trust, calls, crowded>>

\* TrustRegistry::observe, from anywhere: the score leaves its initial value.
ObserveTrust ==
    /\ trust # "moved" /\ trust' = "moved"
    /\ UNCHANGED <<now, store, rated, task, calls, crowded>>

-----------------------------------------------------------------------------
(* Registry::update_reputation.                                            *)

\* The rate limit is checked and its slot taken under one lock.
RateCheck(t) ==
    /\ Call(t)
    /\ IF rated # None /\ now - rated < RateLimit
       THEN Answer(t, "RateLimited") /\ UNCHANGED rated
       ELSE /\ task' = [task EXCEPT ![t] = [at |-> "read", id |-> calls']]
            /\ rated' = now
    /\ UNCHANGED <<now, store, trust>>

ReadContract(t) ==
    /\ task[t].at = "read"
    /\ IF store = None
       THEN Answer(t, "NotFound")
       ELSE task' = [task EXCEPT ![t] =
                        [at |-> "write", id |-> task[t].id, held |-> store]]
    /\ UNCHANGED <<now, store, rated, trust, calls, crowded>>

\* Mutant: the new evidence replaces the old.
WriteContract_Replaces(t) ==
    /\ task[t].at = "write"
    /\ store' = [task[t].held EXCEPT !.evidence = {task[t].id}]
    /\ Answer(t, "Ok")
    /\ UNCHANGED <<now, rated, trust, calls, crowded>>

\* The contract read before goes back with the new evidence.
WriteContract(t) ==
    /\ task[t].at = "write"
    /\ store' = [task[t].held EXCEPT !.evidence = @ \cup {task[t].id}]
    /\ Answer(t, "Ok")
    /\ UNCHANGED <<now, rated, trust, calls, crowded>>

-----------------------------------------------------------------------------
RegistryNext ==
    \/ ClockTick \/ ObserveTrust
    \/ \E t \in Tasks :
        \/ \E v \in Versions : Register(t, v)
        \/ \E v \in Versions, force \in BOOLEAN : Submit(t, v, force)
        \/ Deregister(t) \/ DetectConflict(t) \/ InsertContract(t)
        \/ AssignTrust(t) \/ ReportTrust(t)
        \/ RateCheck(t) \/ ReadContract(t) \/ WriteContract(t)

RegistrySpec == RegistryInit /\ [][RegistryNext]_registryVars

-----------------------------------------------------------------------------
(* Properties.                                                             *)

\* A registration without force replaces a contract only if another call
\* overlapped it: between the lookup and the insert the store's lock is free
\* (registration.rs:120-130), and nothing else lets it overwrite.
OverwriteNeedsOverlap ==
    [][\A t \in Tasks \ crowded :
          task[t].at = "insert" /\ task'[t].at = "trust" /\ ~task[t].force
            => store = None]_registryVars

\* A reputation update that no other call overlaps changes the contract it
\* read and takes no evidence away: "every update carries a `LearnedRuleRef` so
\* it is reversible" (capability.rs:315-316).
LossNeedsOverlap ==
    [][\A t \in Tasks \ crowded :
          task[t].at = "write" /\ task'[t].at = "idle"
            => store = task[t].held /\ store.evidence \subseteq store'.evidence]_registryVars

=============================================================================
