---------------------------- MODULE Composition -----------------------------
(***************************************************************************)
(* The checks a set of capabilities passes before it becomes a plan        *)
(* (aaf-planner: composition.rs, bounds.rs).  A contract is a record       *)
(*   [id, deps, effect, writes, reads, class, domains, deterministic]      *)
(* where deps is a sequence of ids, writes a set of [entity, tenant], with *)
(* tenant NoTenant when the reference names none, and reads a set of       *)
(* entities.                                                               *)
(***************************************************************************)
EXTENDS Integers, Sequences, FiniteSets

CONSTANTS
    MaxWrites,       \* CompositionChecker.max_writes
    EntityAware,     \* the planner was wired with an EntityAwareComposition
    Hint,            \* the classification lookup: a function on some entities
    Bounds,          \* BoundedAutonomy: [steps, depth, cost, latency]
    NoTenant

ASSUME CompositionAssumption == MaxWrites \in Nat /\ EntityAware \in BOOLEAN

WriteEffects == {"Write", "Delete", "Send", "Payment"}

\* CompositionChecker::is_safe.
IsSafe(caps) == Cardinality({c \in caps : c.effect \in WriteEffects}) <= MaxWrites

\* ClassificationHint::level, and the level of a capability's own tag.
Level(hint) == CASE hint = "Public" -> 0 [] hint = "Internal" -> 1
                 [] hint = "Pii" -> 2    [] hint = "Regulated" -> 3
LevelOfCapability(class) ==
    CASE class = "Public" -> 0       [] class = "Internal" -> 1
      [] class = "Confidential" -> 2 [] class = "Restricted" -> 3

\* detect_cross_tenant_fan_out: one entity written under two tenants.
CrossTenantFanOut(caps) ==
    LET refs == {w \in UNION {c.writes : c \in caps} : w.tenant # NoTenant}
    IN  \E v, w \in refs : v.entity = w.entity /\ v.tenant # w.tenant

\* Mutant: only references to the same tenant collide.
DoubleWrite_SameTenant(caps) ==
    \E c, d \in caps : c # d /\ \E w \in c.writes \cap d.writes : w.tenant # NoTenant

\* detect_double_write: two references to one entity, whatever their tenants.
DoubleWrite(caps) ==
    LET refs == UNION {{[cap |-> c.id, ref |-> w] : w \in c.writes} : c \in caps}
    IN  \E v, w \in refs : v # w /\ v.ref.entity = w.ref.entity

\* detect_classification_leak: only what a capability reads itself.
ClassificationLeak(caps) ==
    \E c \in caps : \E e \in c.reads \cap DOMAIN Hint :
        Level(Hint[e]) > LevelOfCapability(c.class)

\* The base checker, then, if there is one, EntityAwareComposition::check.
CompositionError(caps) ==
    IF ~IsSafe(caps) THEN "UnsafeComposition"
    ELSE IF EntityAware /\ CrossTenantFanOut(caps) THEN "CrossTenantFanOut"
    ELSE IF EntityAware /\ DoubleWrite(caps) THEN "DoubleWrite"
    ELSE IF EntityAware /\ ClassificationLeak(caps) THEN "ClassificationLeak"
    ELSE "none"

\* BoundedAutonomy::validate: the first bound that is exceeded.
BoundsError(intent, steps) ==
    IF Len(steps) > Bounds.steps THEN "TooManySteps"
    ELSE IF intent.depth > Bounds.depth THEN "DepthExceeded"
    ELSE IF intent.cost > Bounds.cost THEN "BudgetExceeded"
    ELSE IF intent.latency > Bounds.latency THEN "LatencyExceeded"
    ELSE "none"
=============================================================================
