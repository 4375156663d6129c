--------------------------- MODULE PlannerProofs ----------------------------
(***************************************************************************)
(* Proofs about Planner, for any number of tasks, contracts, intents and   *)
(* registry changes: what the plan cache answers, and what a plan can do   *)
(* while its contracts are registered; and about the ontology whose        *)
(* entities its composition checks look up (Knowledge), for any number of  *)
(* registrars and drafts.                                                  *)
(***************************************************************************)
EXTENDS Planner, Knowledge, FiniteSetTheorems, NaturalsInduction,
        WellFoundedInduction, SequenceTheorems, TLAPS

-----------------------------------------------------------------------------
(* The plan cache *)

\* Map and order of insertion hold the same keys, each once, within the capacity.
CacheOK(c) ==
    /\ \E S : c.order \in Seq(S)
    /\ ToSet(c.order) = DOMAIN c.map
    /\ IsInjective(c.order)

Room(c) == Len(c.order) <= Max({1, Capacity})

\* A set of naturals has a least element, which Min gives.
LEMMA MinOfNaturals ==
    ASSUME NEW T, T \subseteq Nat, T # {}
    PROVE  Min(T) \in T
<1> DEFINE less == OpToRel(<, Nat)
<1>1. IsWellFoundedOn(less, Nat)
  BY NatLessThanWellFounded
<1>2. PICK n \in T : \A m \in T : ~(<<m, n>> \in less)
  <2> HIDE DEF less
  <2> QED
    BY <1>1, WFMin
<1>3. \A m \in T : ~(m < n)
  BY <1>2 DEF OpToRel
<1>4. \A m \in T : n <= m
  BY <1>3
<1> QED
  BY <1>4 DEF Min

\* The capacity in effect: one plan even when it is 0.
LEMMA MaxOfTwo ==
    /\ Max({1, Capacity}) \in Nat
    /\ 1 <= Max({1, Capacity}) /\ Capacity <= Max({1, Capacity})
<1> DEFINE greatest(x) == x \in {1, Capacity} /\ \A y \in {1, Capacity} : x >= y
<1>1. \E x : greatest(x)
  <2>1. CASE Capacity <= 1
    BY <2>1, CapacityAssumption
  <2>2. CASE 1 <= Capacity
    BY <2>2, CapacityAssumption
  <2> QED
    BY <2>1, <2>2, CapacityAssumption
<1>2. greatest(Max({1, Capacity}))
  BY <1>1 DEF Max
<1> QED
  BY <1>2, CapacityAssumption

\* A sequence of distinct elements is as long as the set of its elements.
LEMMA LengthCounts ==
    ASSUME NEW S, NEW seq \in Seq(S), IsInjective(seq)
    PROVE  Cardinality(ToSet(seq)) = Len(seq)
<1> PICK T : T = ToSet(seq)
  OBVIOUS
<1>1. Len(seq) \in Nat /\ DOMAIN seq = 1..Len(seq) /\ seq \in [1..Len(seq) -> T]
  BY DEF ToSet
<1>2. seq \in Bijection(1..Len(seq), T)
  <2>1. seq \in Injection(1..Len(seq), T)
    BY <1>1 DEF Injection, IsInjective
  <2>2. seq \in Surjection(1..Len(seq), T)
    BY <1>1 DEF Surjection, ToSet
  <2> QED
    BY <2>1, <2>2 DEF Bijection
<1>3. ExistsBijection(1..Len(seq), T)
  BY <1>2 DEF ExistsBijection
<1> QED
  BY <1>1, <1>3, FS_CountingElements

\* Popping the oldest keys keeps map and order in step.
LEMMA DropOldestKeeps ==
    ASSUME NEW c, CacheOK(c), NEW k \in 0..Len(c.order)
    PROVE  LET d == DropOldest(c, k)
           IN  /\ CacheOK(d)
               /\ Len(d.order) = Len(c.order) - k
               /\ DOMAIN d.map \subseteq DOMAIN c.map
               /\ \A x \in DOMAIN d.map : d.map[x] = c.map[x]
<1> PICK S, o : o = c.order /\ o \in Seq(S)
  BY DEF CacheOK
<1>1. /\ Len(o) \in Nat /\ DOMAIN o = 1..Len(o) /\ k \in 0..Len(o)
      /\ ToSet(o) = DOMAIN c.map /\ IsInjective(o)
  BY DEF CacheOK
<1>p. PICK gone, rest : gone = SubSeq(o, 1, k) /\ rest = SubSeq(o, k + 1, Len(o))
  OBVIOUS
<1>2. /\ gone \in Seq(S) /\ DOMAIN gone = 1..k /\ \A i \in 1..k : gone[i] = o[i]
  BY <1>1, <1>p
<1>3. /\ rest \in Seq(S) /\ Len(rest) = Len(o) - k /\ DOMAIN rest = 1..(Len(o) - k)
      /\ \A i \in 1..(Len(o) - k) : rest[i] = o[i + k]
  BY <1>1, <1>p
<1>4. ToSet(rest) = ToSet(o) \ ToSet(gone)
  <2>1. ASSUME NEW i \in DOMAIN rest PROVE rest[i] \in ToSet(o) \ ToSet(gone)
    <3>1. i + k \in DOMAIN o /\ rest[i] = o[i + k]
      BY <1>1, <1>3
    <3>2. \A j \in 1..k : j \in DOMAIN o /\ gone[j] = o[j] /\ j # i + k
      BY <1>1, <1>2, <1>3
    <3>3. \A j \in 1..k : gone[j] # rest[i]
      BY <1>1, <3>1, <3>2 DEF IsInjective
    <3> QED
      BY <1>2, <3>1, <3>3 DEF ToSet
  <2>2. ASSUME NEW i \in DOMAIN o, o[i] \notin ToSet(gone) PROVE o[i] \in ToSet(rest)
    <3>1. i \notin 1..k
      BY <1>2, <2>2 DEF ToSet
    <3>2. i \in Int /\ k < i /\ i <= Len(o)
      BY <1>1, <3>1
    <3> PICK j : j = i - k
      OBVIOUS
    <3>3. j \in 1..(Len(o) - k) /\ j + k = i
      BY <1>1, <3>2
    <3>4. j \in DOMAIN rest /\ rest[j] = o[i]
      BY <1>3, <3>3
    <3> QED
      BY <3>4 DEF ToSet
  <2>3. ToSet(rest) \subseteq ToSet(o) \ ToSet(gone)
    BY <2>1 DEF ToSet
  <2>4. ToSet(o) \ ToSet(gone) \subseteq ToSet(rest)
    BY <2>2 DEF ToSet
  <2> QED
    BY <2>3, <2>4
<1>5. IsInjective(rest)
  <2> SUFFICES ASSUME NEW i \in DOMAIN rest, NEW j \in DOMAIN rest, rest[i] = rest[j]
               PROVE  i = j
    BY DEF IsInjective
  <2>0. rest[i] = o[i + k] /\ rest[j] = o[j + k]
    BY <1>3
  <2>a. i \in 1..(Len(o) - k) /\ j \in 1..(Len(o) - k) /\ k \in Nat /\ Len(o) \in Nat
    BY <1>1, <1>3
  <2>b. i + k \in 1..Len(o) /\ j + k \in 1..Len(o)
    BY <2>a
  <2>1. i + k \in DOMAIN o /\ j + k \in DOMAIN o /\ o[i + k] = o[j + k]
    BY <1>1, <2>0, <2>b
  <2>2. i + k = j + k
    BY <1>1, <2>1 DEF IsInjective
  <2> QED
    BY <1>3, <2>2
<1> PICK d : d = DropOldest(c, k)
  OBVIOUS
<1>6. /\ d.order = rest /\ DOMAIN d.map = DOMAIN c.map \ ToSet(gone)
      /\ \A x \in DOMAIN d.map : d.map[x] = c.map[x]
  BY <1>p DEF DropOldest
<1> QED
  BY <1>1, <1>3, <1>4, <1>5, <1>6 DEF CacheOK

\* What is left once there is room for one more.
LEMMA EvictMakesRoom ==
    ASSUME NEW c, CacheOK(c)
    PROVE  LET d == Evict(c)
           IN  /\ CacheOK(d)
               /\ Len(d.order) \in Nat /\ Len(d.order) + 1 <= Max({1, Capacity})
               /\ DOMAIN d.map \subseteq DOMAIN c.map
               /\ \A x \in DOMAIN d.map : d.map[x] = c.map[x]
<1> DEFINE enough == {k \in 0..Len(c.order) : Cardinality(DOMAIN DropOldest(c, k).map) < Capacity}
<1>1. Len(c.order) \in Nat
  BY DEF CacheOK
<1> PICK k : k = IF enough = {} THEN Len(c.order) ELSE Min(enough)
  OBVIOUS
<1>2. k \in 0..Len(c.order) /\ (enough # {} => k \in enough)
  <2>1. enough \subseteq 0..Len(c.order) /\ enough \subseteq Nat
    OBVIOUS
  <2> HIDE DEF enough
  <2>2. enough # {} => k \in enough
    BY <2>1, MinOfNaturals
  <2>3. enough = {} => k = Len(c.order)
    OBVIOUS
  <2>4. Len(c.order) \in 0..Len(c.order)
    BY <1>1
  <2> QED
    BY <2>1, <2>2, <2>3, <2>4
<1> PICK d : d = DropOldest(c, k)
  OBVIOUS
<1>3. /\ CacheOK(d) /\ Len(d.order) = Len(c.order) - k
      /\ DOMAIN d.map \subseteq DOMAIN c.map /\ \A x \in DOMAIN d.map : d.map[x] = c.map[x]
  BY <1>2, DropOldestKeeps
<1>4. Cardinality(DOMAIN d.map) = Len(d.order)
  BY <1>3, LengthCounts DEF CacheOK
<1>5. CASE enough = {}
  BY <1>1, <1>3, <1>5, MaxOfTwo DEF Evict
<1>6. CASE enough # {}
  <2>1. Len(d.order) < Capacity
    BY <1>2, <1>4, <1>6
  <2>2. Len(d.order) \in Nat
    BY <1>1, <1>2, <1>3
  <2>3. Len(d.order) + 1 <= Max({1, Capacity})
    BY <2>1, <2>2, MaxOfTwo, CapacityAssumption
  <2>4. d = Evict(c)
    BY <1>6 DEF Evict
  <2> QED
    BY <1>3, <2>2, <2>3, <2>4
<1> QED
  BY <1>5, <1>6

\* put: the key has the new value, the others keep theirs or are gone.
LEMMA PutKeeps ==
    ASSUME NEW c, CacheOK(c), Room(c), NEW key, NEW v,
           DOMAIN c = {"map", "order"}
    PROVE  LET d == Put(c, key, v)
           IN  /\ CacheOK(d) /\ Room(d) /\ DOMAIN d = {"map", "order"}
               /\ key \in DOMAIN d.map /\ d.map[key] = v
               /\ \A x \in DOMAIN d.map \ {key} : x \in DOMAIN c.map /\ d.map[x] = c.map[x]
<1> PICK d : d = Put(c, key, v)
  OBVIOUS
<1>1. CASE key \in DOMAIN c.map
  <2>1. d = [c EXCEPT !.map = Write(@, key, v)]
    BY <1>1 DEF Put
  <2>2. d.order = c.order /\ d.map = Write(c.map, key, v) /\ DOMAIN d = {"map", "order"}
    BY <2>1
  <2>3. DOMAIN d.map = DOMAIN c.map
    BY <1>1, <2>2 DEF Write
  <2> QED
    BY <1>1, <2>2, <2>3 DEF CacheOK, Room, Write
<1>2. CASE key \notin DOMAIN c.map
  <2> PICK r : r = Evict(c)
    OBVIOUS
  <2>1. /\ CacheOK(r) /\ Len(r.order) \in Nat /\ Len(r.order) + 1 <= Max({1, Capacity})
        /\ DOMAIN r.map \subseteq DOMAIN c.map
        /\ \A x \in DOMAIN r.map : r.map[x] = c.map[x]
    BY EvictMakesRoom
  <2>2. d = [map |-> Write(r.map, key, v), order |-> Append(r.order, key)]
    BY <1>2 DEF Put
  <2>3. d.order = Append(r.order, key) /\ d.map = Write(r.map, key, v) /\ DOMAIN d = {"map", "order"}
    BY <2>2
  <2> PICK S, o : o = r.order /\ o \in Seq(S)
    BY <2>1 DEF CacheOK
  <2>4. ToSet(o) = DOMAIN r.map /\ IsInjective(o) /\ key \notin ToSet(o)
    BY <1>2, <2>1 DEF CacheOK
  <2> PICK new : new = Append(o, key)
    OBVIOUS
  <2>5. /\ new \in Seq(S \cup {key}) /\ Len(new) = Len(o) + 1 /\ DOMAIN new = 1..(Len(o) + 1)
        /\ DOMAIN o = 1..Len(o) /\ Len(o) \in Nat
        /\ \A i \in 1..Len(o) : new[i] = o[i]
        /\ new[Len(o) + 1] = key
    BY AppendProperties
  <2>6. ToSet(new) = ToSet(o) \cup {key}
    BY <2>5 DEF ToSet
  <2>7. \A i \in 1..Len(o) : o[i] # key
    BY <2>4, <2>5 DEF ToSet
  <2>8. IsInjective(new)
    <3> SUFFICES ASSUME NEW i \in DOMAIN new, NEW j \in DOMAIN new, new[i] = new[j]
                 PROVE  i = j
      BY DEF IsInjective
    <3>1. CASE i \in 1..Len(o) /\ j \in 1..Len(o)
      BY <2>4, <2>5, <3>1 DEF IsInjective
    <3>2. CASE i = Len(o) + 1 \/ j = Len(o) + 1
      BY <2>5, <2>7, <3>2
    <3> QED
      BY <2>5, <3>1, <3>2
  <2>9. DOMAIN d.map = DOMAIN r.map \cup {key}
    BY <2>3 DEF Write
  <2>10. CacheOK(d) /\ Room(d)
    BY <2>1, <2>3, <2>4, <2>5, <2>6, <2>8, <2>9 DEF CacheOK, Room
  <2> QED
    BY <2>1, <2>3, <2>9, <2>10 DEF Write
<1> QED
  BY <1>1, <1>2
-----------------------------------------------------------------------------
(* The registry and the tasks *)

\* plan was made for one of the intents with the key, passed the composition
\* checks, and is within the bounds of the intent it was made for.
MadeFor(plan, key) ==
    /\ CompositionError(plan.basis) = "none"
    /\ \E i \in Intents :
         KeyFor(i) = key /\ plan.intent = i.id /\ BoundsError(i, plan.steps) = "none"

Checked(plan) == CompositionError(plan.basis) = "none"

RegistryOK == registry \subseteq Contracts /\ \A c, d \in registry : c.id = d.id => c = d

MapOK == \A k \in DOMAIN cache.map : MadeFor(cache.map[k], k)

TaskOK(r) ==
    \/ r.at \in {"scoped", "any", "compose"} /\ r.intent \in Intents
    \/ r.at = "idle" /\ r.plan = NoPlan
    \/ r.at = "idle" /\ r.intent \in Intents /\ MadeFor(r.plan, KeyFor(r.intent))

PlannerInv ==
    /\ RegistryOK
    /\ DOMAIN cache = {"map", "order"} /\ CacheOK(cache) /\ Room(cache) /\ MapOK
    /\ DOMAIN task = Tasks /\ \A t \in Tasks : TaskOK(task[t])
    /\ Checked(graph.plan)

\* A plan without steps passes the composition checks.
LEMMA NoPlanIsChecked == Checked(NoPlan)
<1>1. NoPlan.basis = {}
  BY DEF NoPlan
<1>2. Cardinality({c \in {} : c.effect \in WriteEffects}) = 0
  BY FS_EmptySet
<1>3. IsSafe({})
  BY <1>2, CompositionAssumption DEF IsSafe
<1>4. ~CrossTenantFanOut({}) /\ ~DoubleWrite({}) /\ ~ClassificationLeak({})
  BY DEF CrossTenantFanOut, DoubleWrite, ClassificationLeak
<1> QED
  BY <1>1, <1>3, <1>4 DEF Checked, CompositionError

LEMMA PlannerInvInit == Init => PlannerInv
<1> SUFFICES ASSUME Init PROVE PlannerInv
  OBVIOUS
<1>1. RegistryOK
  BY PlannerAssumption DEF Init, RegistryOK
<1>2. cache.map = [k \in {} |-> k] /\ cache.order = <<>> /\ DOMAIN cache = {"map", "order"}
  BY DEF Init, EmptyCache
<1>3. DOMAIN cache.map = {} /\ DOMAIN cache.order = {} /\ Len(cache.order) = 0 /\ cache.order \in Seq({})
  BY <1>2
<1>4. CacheOK(cache) /\ Room(cache) /\ MapOK
  BY <1>3, MaxOfTwo DEF CacheOK, Room, MapOK, IsInjective, ToSet
<1>5. DOMAIN task = Tasks /\ \A t \in Tasks : task[t].at = "idle" /\ task[t].plan = NoPlan
  BY DEF Init, Idle
<1>6. graph.plan = NoPlan
  BY DEF Init, NoGraph
<1> QED
  BY <1>1, <1>2, <1>4, <1>5, <1>6, NoPlanIsChecked DEF PlannerInv, TaskOK

\* A task's entry is replaced; the others keep theirs.
LEMMA TaskStep ==
    ASSUME NEW new, NEW old, DOMAIN old = Tasks, \A t \in Tasks : TaskOK(old[t]),
           NEW u \in Tasks, NEW r, TaskOK(r), new = [old EXCEPT ![u] = r]
    PROVE  DOMAIN new = Tasks /\ \A t \in Tasks : TaskOK(new[t])
OBVIOUS

LEMMA IdleFields ==
    ASSUME NEW i, NEW e, NEW p
    PROVE  LET r == Idle(i, e, p) IN r.at = "idle" /\ r.intent = i /\ r.plan = p
BY DEF Idle

LEMMA LookupKeeps ==
    ASSUME PlannerInv, NEW t \in Tasks, NEW i \in Intents, Lookup(t, i)
    PROVE  PlannerInv'
<1>1. UNCHANGED <<registry, cache, graph, changes>>
  BY DEF Lookup
<1>2. PICK r : /\ task' = [task EXCEPT ![t] = r]
               /\ r = IF KeyFor(i) \in DOMAIN cache.map
                      THEN Idle(i, "none", cache.map[KeyFor(i)])
                      ELSE [at |-> "scoped", intent |-> i]
  BY DEF Lookup
<1>3. TaskOK(r)
  <2>1. CASE KeyFor(i) \in DOMAIN cache.map
    <3>1. r.at = "idle" /\ r.intent = i /\ r.plan = cache.map[KeyFor(i)]
      BY <1>2, <2>1, IdleFields
    <3>2. MadeFor(cache.map[KeyFor(i)], KeyFor(i))
      BY <2>1 DEF PlannerInv, MapOK
    <3> QED
      BY <3>1, <3>2 DEF TaskOK
  <2>2. CASE KeyFor(i) \notin DOMAIN cache.map
    BY <1>2, <2>2 DEF TaskOK
  <2> QED
    BY <2>1, <2>2
<1> PICK new : new = task'
  OBVIOUS
<1>4. DOMAIN new = Tasks /\ \A u \in Tasks : TaskOK(new[u])
  BY <1>2, <1>3, TaskStep DEF PlannerInv
<1> QED
  BY <1>1, <1>4 DEF PlannerInv, RegistryOK, MapOK

LEMMA DiscoverKeeps ==
    ASSUME PlannerInv, NEW t \in Tasks, DiscoverScoped(t) \/ DiscoverAny(t)
    PROVE  PlannerInv'
<1>1. UNCHANGED <<registry, cache, graph, changes>>
  BY DEF DiscoverScoped, DiscoverAny
<1>2. task[t].intent \in Intents
  BY DEF PlannerInv, TaskOK, DiscoverScoped, DiscoverAny
<1>3. \E r : task' = [task EXCEPT ![t] = r] /\ TaskOK(r)
  <2>1. \A hits : LET i == task[t].intent
                  IN  /\ TaskOK([at |-> "any", intent |-> i])
                      /\ TaskOK([at |-> "compose", intent |-> i, hits |-> hits])
                      /\ TaskOK(Idle(i, "NoCapability", NoPlan))
    BY <1>2, IdleFields DEF TaskOK
  <2> HIDE DEF TaskOK
  <2>2. CASE DiscoverScoped(t)
    BY <2>1, <2>2 DEF DiscoverScoped
  <2>3. CASE DiscoverAny(t)
    BY <2>1, <2>3 DEF DiscoverAny
  <2> QED
    BY <2>2, <2>3
<1> PICK new : new = task'
  OBVIOUS
<1>4. DOMAIN new = Tasks /\ \A u \in Tasks : TaskOK(new[u])
  BY <1>3, TaskStep DEF PlannerInv
<1> QED
  BY <1>1, <1>4 DEF PlannerInv, RegistryOK, MapOK

LEMMA ComposeKeeps ==
    ASSUME PlannerInv, NEW t \in Tasks, Compose(t)
    PROVE  PlannerInv'
<1>1. UNCHANGED <<registry, graph, changes>>
  BY DEF Compose
<1>2. task[t].intent \in Intents
  BY DEF PlannerInv, TaskOK, Compose
<1>3. PICK i, plan, error :
         /\ i = task[t].intent /\ plan = PlanOf(i, task[t].hits) /\ error = PlanError(i, plan)
         /\ task' = [task EXCEPT ![t] = Idle(i, error, IF error = "none" THEN plan ELSE NoPlan)]
         /\ cache' = IF error = "none" THEN Put(cache, KeyFor(i), plan) ELSE cache
  BY DEF Compose
<1>4. plan.intent = i.id
  BY <1>3 DEF PlanOf
<1>5. error = "none" => MadeFor(plan, KeyFor(i))
  BY <1>2, <1>3, <1>4 DEF PlanError, MadeFor
<1>6. TaskOK(Idle(i, error, IF error = "none" THEN plan ELSE NoPlan))
  BY <1>2, <1>3, <1>5, IdleFields DEF TaskOK
<1> PICK new : new = task'
  OBVIOUS
<1>7. DOMAIN new = Tasks /\ \A u \in Tasks : TaskOK(new[u])
  BY <1>3, <1>6, TaskStep DEF PlannerInv
<1> PICK c : c = cache'
  OBVIOUS
<1>8. /\ DOMAIN c = {"map", "order"} /\ CacheOK(c) /\ Room(c)
      /\ \A k \in DOMAIN c.map : MadeFor(c.map[k], k)
  <2>1. CASE error = "none"
    <3>1. c = Put(cache, KeyFor(i), plan)
      BY <1>3, <2>1
    <3>2. /\ CacheOK(c) /\ Room(c) /\ DOMAIN c = {"map", "order"}
          /\ KeyFor(i) \in DOMAIN c.map /\ c.map[KeyFor(i)] = plan
          /\ \A x \in DOMAIN c.map \ {KeyFor(i)} : x \in DOMAIN cache.map /\ c.map[x] = cache.map[x]
      BY <3>1, PutKeeps DEF PlannerInv
    <3> QED
      BY <1>5, <2>1, <3>2 DEF PlannerInv, MapOK
  <2>2. CASE error # "none"
    BY <1>3, <2>2 DEF PlannerInv, MapOK
  <2> QED
    BY <2>1, <2>2
<1> QED
  BY <1>1, <1>7, <1>8 DEF PlannerInv, RegistryOK, MapOK

LEMMA BuildKeeps ==
    ASSUME PlannerInv, NEW t \in Tasks, Build(t)
    PROVE  PlannerInv'
<1>1. UNCHANGED <<registry, cache, changes>>
  BY DEF Build
<1>2. graph'.plan = task[t].plan
  BY DEF Build
<1>3. Checked(task[t].plan)
  BY NoPlanIsChecked DEF PlannerInv, TaskOK, Build, Planned, MadeFor, Checked
<1>4. TaskOK(Idle(NoIntent, "none", NoPlan))
  BY IdleFields DEF TaskOK
<1> PICK new : new = task'
  OBVIOUS
<1>5. DOMAIN new = Tasks /\ \A u \in Tasks : TaskOK(new[u])
  BY <1>4, TaskStep DEF PlannerInv, Build
<1> PICK g : g = graph'
  OBVIOUS
<1>6. Checked(g.plan)
  BY <1>2, <1>3
<1> QED
  BY <1>1, <1>5, <1>6 DEF PlannerInv, RegistryOK, MapOK

\* publish replaces what the registry holds for the id, so that an id has one contract.
LEMMA RegistryChanges ==
    ASSUME PlannerInv, \/ \E c \in Contracts \ registry : Publish(c)
                       \/ \E c \in registry : Withdraw(c)
    PROVE  PlannerInv'
<1>1. UNCHANGED <<cache, task, graph>>
  BY DEF Publish, Withdraw
<1>2. RegistryOK'
  BY DEF PlannerInv, RegistryOK, Publish, Withdraw
<1> QED
  BY <1>1, <1>2 DEF PlannerInv, MapOK

LEMMA PlannerInvNext == PlannerInv /\ [Next]_vars => PlannerInv'
<1> SUFFICES ASSUME PlannerInv, [Next]_vars PROVE PlannerInv'
  OBVIOUS
<1>1. CASE UNCHANGED vars
  BY <1>1 DEF vars, PlannerInv, RegistryOK, MapOK
<1>2. CASE Next
  BY <1>2, RegistryChanges, LookupKeeps, DiscoverKeeps, ComposeKeeps, BuildKeeps DEF Next
<1> QED
  BY <1>1, <1>2

LEMMA PlannerInvariant == Spec => []PlannerInv
BY PlannerInvInit, PlannerInvNext, PTL DEF Spec

-----------------------------------------------------------------------------
(* Theorems *)

\* RegistryPlanner::plan answers a task with a plan made for its own type, domain and
\* goal, within the bounds of the intent it was made for, whichever task put it in the
\* cache; and the cache's map and order stay in step within the capacity.
THEOREM CacheAnswersItsKey == Spec => []CacheServesItsKey
<1>1. PlannerInv => CacheServesItsKey
  <2> SUFFICES ASSUME PlannerInv PROVE CacheServesItsKey
    OBVIOUS
  <2>1. ASSUME NEW t \in Tasks, Planned(t)
        PROVE  LET i == task[t].intent
                   maker == CHOOSE j \in Intents : j.id = task[t].plan.intent
               IN  /\ <<maker.type, maker.domain, maker.goal.text>> = <<i.type, i.domain, i.goal.text>>
                   /\ BoundsError(maker, task[t].plan.steps) = "none"
    <3>1. MadeFor(task[t].plan, KeyFor(task[t].intent))
      BY <2>1 DEF PlannerInv, TaskOK, Planned
    <3>2. PICK i \in Intents : /\ KeyFor(i) = KeyFor(task[t].intent) /\ task[t].plan.intent = i.id
                               /\ BoundsError(i, task[t].plan.steps) = "none"
      BY <3>1 DEF MadeFor
    <3>3. i = CHOOSE j \in Intents : j.id = task[t].plan.intent
      BY <3>2, PlannerAssumption
    <3> QED
      BY <3>2, <3>3 DEF KeyFor
  <2> QED
    BY <2>1 DEF PlannerInv, CacheOK, Room, CacheServesItsKey
<1> QED
  BY <1>1, PlannerInvariant, PTL

\* CompositionChecker and EntityAwareComposition look at a plan once, when it is made; as
\* long as its contracts are the registered ones, what they found stays true of it.
THEOREM PlansStaySafe == Spec => []SafeUntilReplaced
<1>1. PlannerInv => SafeUntilReplaced
  <2> SUFFICES ASSUME PlannerInv, EntityAware, NEW plan \in Plans, plan.basis \subseteq registry
               PROVE  /\ \A c, d \in plan.basis : c # d =>
                           {w.entity : w \in c.writes} \cap {w.entity : w \in d.writes} = {}
                      /\ Cardinality({c \in plan.basis : c.effect \in WriteEffects}) <= MaxWrites
                      /\ \A c \in plan.basis : \A e \in c.reads \cap DOMAIN Hint :
                           LevelOfCapability(c.class) >= Level(Hint[e])
    BY DEF SafeUntilReplaced
  <2>1. Checked(plan)
    <3>1. CASE plan = graph.plan
      BY <3>1 DEF PlannerInv
    <3>2. CASE \E k \in DOMAIN cache.map : plan = cache.map[k]
      BY <3>2 DEF PlannerInv, MapOK, MadeFor, Checked
    <3>3. CASE \E t \in Tasks : task[t].at = "idle" /\ plan = task[t].plan
      BY <3>3, NoPlanIsChecked DEF PlannerInv, TaskOK, MadeFor, Checked
    <3> QED
      BY <3>1, <3>2, <3>3 DEF Plans
  <2> PICK basis : basis = plan.basis
    OBVIOUS
  <2>2. IsSafe(basis) /\ ~DoubleWrite(basis) /\ ~ClassificationLeak(basis)
    BY <2>1 DEF Checked, CompositionError
  <2>3. \A c \in basis : c \in Contracts
    BY DEF PlannerInv, RegistryOK
  <2>4. \A c, d \in basis : c # d => c.id # d.id
    BY DEF PlannerInv, RegistryOK
  <2>5. ASSUME NEW c \in basis, NEW d \in basis, c # d,
               NEW v \in c.writes, NEW w \in d.writes, v.entity = w.entity
        PROVE  FALSE
    <3> DEFINE refs == UNION {{[cap |-> b.id, ref |-> x] : x \in b.writes} : b \in basis}
    <3>1. [cap |-> c.id, ref |-> v] \in refs /\ [cap |-> d.id, ref |-> w] \in refs
      OBVIOUS
    <3>2. [cap |-> c.id, ref |-> v] # [cap |-> d.id, ref |-> w]
      BY <2>4, <2>5
    <3>3. [cap |-> c.id, ref |-> v].ref.entity = [cap |-> d.id, ref |-> w].ref.entity
      BY <2>5
    <3>4. \A x, y \in refs : x = y \/ x.ref.entity # y.ref.entity
      BY <2>2 DEF DoubleWrite
    <3> HIDE DEF refs
    <3> QED
      BY <3>1, <3>2, <3>3, <3>4
  <2>6. \A c, d \in basis : c # d => {w.entity : w \in c.writes} \cap {w.entity : w \in d.writes} = {}
    BY <2>5
  <2>7. ASSUME NEW c \in basis, NEW e \in c.reads \cap DOMAIN Hint
        PROVE  LevelOfCapability(c.class) >= Level(Hint[e])
    <3>1. ~(Level(Hint[e]) > LevelOfCapability(c.class))
      BY <2>2 DEF ClassificationLeak
    <3>2. Level(Hint[e]) \in Int
      BY PlannerAssumption DEF Level
    <3>3. LevelOfCapability(c.class) \in Int
      BY <2>3, PlannerAssumption DEF LevelOfCapability
    <3> QED
      BY <3>1, <3>2, <3>3
  <2> QED
    BY <2>2, <2>6, <2>7 DEF IsSafe
<1> QED
  BY <1>1, PlannerInvariant, PTL

-----------------------------------------------------------------------------
(* The ontology registry *)

\* What an upsert holds after its tests, and what it may still rely on: a relation
\* that was known is known or its entry changed, and so for the version test.
UpsertOK(u) ==
    /\ u.draft \in Drafts /\ u.seen \in [Ids -> Nat]
    /\ \A k \in Ids : u.seen[k] <= stamp[k]
    /\ \A to \in u.draft.relations :
         to = u.draft.id \/ to \in DOMAIN entities \/ stamp[to] # u.seen[to]
    /\ u.pc = "checked" =>
         \/ u.draft.id \notin DOMAIN entities
         \/ stamp[u.draft.id] # u.seen[u.draft.id]
         \/ Acceptable(entities[u.draft.id], u.draft, u.allow)

OntologyInv ==
    /\ DOMAIN entities \subseteq Ids
    /\ stamp \in [Ids -> Nat]
    /\ DOMAIN upsert = Registrars
    /\ \A r \in Registrars :
         \/ upsert[r] = NoUpsert
         \/ /\ upsert[r].pc \in {"related", "checked"}
            /\ DOMAIN upsert[r] = {"pc", "draft", "allow", "seen"}
            /\ UpsertOK(upsert[r])

LEMMA DraftIds ==
    ASSUME NEW d \in Drafts
    PROVE  d.id \in Ids /\ d.relations \subseteq Ids
BY DEF Ids

LEMMA OntologyInit == KnowledgeInit => OntologyInv
<1> SUFFICES ASSUME KnowledgeInit PROVE OntologyInv
  OBVIOUS
<1>1. DOMAIN entities = {}
  BY DEF KnowledgeInit
<1>2. stamp \in [Ids -> Nat]
  BY DEF KnowledgeInit
<1> QED
  BY <1>1, <1>2 DEF KnowledgeInit, OntologyInv

\* An entry that changes is stamped: what an upsert in progress relied on holds or its
\* stamp moved on.
LEMMA UpsertSurvives ==
    ASSUME NEW u, UpsertOK(u), stamp \in [Ids -> Nat], NEW id \in Ids,
           stamp' = [stamp EXCEPT ![id] = @ + 1],
           DOMAIN entities \ {id} \subseteq DOMAIN entities',
           DOMAIN entities' \subseteq DOMAIN entities \cup {id},
           \A k \in DOMAIN entities \ {id} : entities'[k] = entities[k]
    PROVE  UpsertOK(u)'
<1>1. /\ \A k \in Ids \ {id} : stamp'[k] = stamp[k]
      /\ stamp'[id] = stamp[id] + 1 /\ stamp[id] \in Nat
  OBVIOUS
<1>2. u.draft \in Drafts /\ u.seen \in [Ids -> Nat]
  BY DEF UpsertOK
<1>3. u.draft.id \in Ids /\ u.draft.relations \subseteq Ids
  BY <1>2, DraftIds
<1>4. \A k \in Ids : u.seen[k] \in Nat /\ stamp[k] \in Nat /\ u.seen[k] <= stamp[k]
  BY <1>2 DEF UpsertOK
<1>5. stamp'[id] # u.seen[id]
  BY <1>1, <1>4
<1>6. \A k \in Ids : u.seen[k] <= stamp'[k]
  BY <1>1, <1>4
<1>7. ASSUME NEW to \in u.draft.relations
      PROVE  to = u.draft.id \/ to \in DOMAIN entities' \/ stamp'[to] # u.seen[to]
  BY <1>1, <1>3, <1>5 DEF UpsertOK
<1>8. u.pc = "checked" =>
         \/ u.draft.id \notin DOMAIN entities'
         \/ stamp'[u.draft.id] # u.seen[u.draft.id]
         \/ Acceptable(entities'[u.draft.id], u.draft, u.allow)
  BY <1>1, <1>3, <1>5 DEF UpsertOK
<1> QED
  BY <1>2, <1>6, <1>7, <1>8 DEF UpsertOK

\* A change of an entry, with the registrar r done or none.
LEMMA EntryChanges ==
    ASSUME OntologyInv, NEW id \in Ids, stamp' = [stamp EXCEPT ![id] = @ + 1],
           DOMAIN entities \ {id} \subseteq DOMAIN entities',
           DOMAIN entities' \subseteq DOMAIN entities \cup {id},
           \A k \in DOMAIN entities \ {id} : entities'[k] = entities[k],
           DOMAIN upsert' = Registrars,
           \A r \in Registrars : upsert'[r] = upsert[r] \/ upsert'[r] = NoUpsert
    PROVE  OntologyInv'
<1>1. DOMAIN entities' \subseteq Ids
  BY DEF OntologyInv
<1>2. stamp' \in [Ids -> Nat]
  BY DEF OntologyInv
<1> PICK new : new = upsert'
  OBVIOUS
<1>3. ASSUME NEW r \in Registrars, new[r] # NoUpsert
      PROVE  /\ new[r].pc \in {"related", "checked"}
             /\ DOMAIN new[r] = {"pc", "draft", "allow", "seen"} /\ UpsertOK(new[r])'
  <2>1. new[r] = upsert[r]
    BY <1>3
  <2>2. /\ upsert[r].pc \in {"related", "checked"} /\ UpsertOK(new[r])
        /\ DOMAIN upsert[r] = {"pc", "draft", "allow", "seen"}
    BY <1>3, <2>1 DEF OntologyInv
  <2>3. UpsertOK(new[r])'
    BY <2>2, UpsertSurvives DEF OntologyInv
  <2> QED
    BY <2>1, <2>2, <2>3
<1> QED
  BY <1>1, <1>2, <1>3 DEF OntologyInv, NoUpsert

LEMMA CheckRelationsKeeps ==
    ASSUME OntologyInv, NEW r \in Registrars, NEW d \in Drafts, NEW allow,
           CheckRelations(r, d, allow)
    PROVE  OntologyInv'
<1>1. UNCHANGED <<entities, stamp>>
  BY DEF CheckRelations
<1>2. PICK known, u :
         /\ known <=> \A to \in d.relations : to = d.id \/ to \in DOMAIN entities
         /\ u = [pc |-> "related", draft |-> d, allow |-> allow, seen |-> stamp]
         /\ upsert' = [upsert EXCEPT ![r] = IF known THEN u ELSE NoUpsert]
  BY DEF CheckRelations
<1>3. known => UpsertOK(u)
  <2>1. stamp \in [Ids -> Nat]
    BY DEF OntologyInv
  <2>2. u.draft = d /\ u.seen = stamp /\ u.pc = "related"
    BY <1>2
  <2> QED
    BY <1>2, <2>1, <2>2 DEF UpsertOK
<1>4. u.pc = "related" /\ DOMAIN u = {"pc", "draft", "allow", "seen"}
  BY <1>2
<1> PICK new : new = upsert'
  OBVIOUS
<1>5. /\ DOMAIN new = Registrars
      /\ \A q \in Registrars :
           \/ new[q] = NoUpsert
           \/ /\ new[q].pc \in {"related", "checked"}
              /\ DOMAIN new[q] = {"pc", "draft", "allow", "seen"}
              /\ UpsertOK(new[q])
  BY <1>2, <1>3, <1>4 DEF OntologyInv
<1> QED
  BY <1>1, <1>5 DEF OntologyInv, UpsertOK, NoUpsert

LEMMA CheckVersionKeeps ==
    ASSUME OntologyInv, NEW r \in Registrars, CheckVersion(r)
    PROVE  OntologyInv'
<1>1. UNCHANGED <<entities, stamp>>
  BY DEF CheckVersion
<1>2. PICK old : old = upsert[r]
  OBVIOUS
<1>3. /\ old.pc = "related" /\ UpsertOK(old) /\ DOMAIN old = {"pc", "draft", "allow", "seen"}
  BY <1>2 DEF OntologyInv, CheckVersion, NoUpsert
<1> DEFINE fine == old.draft.id \in DOMAIN entities
                     => Acceptable(entities[old.draft.id], old.draft, old.allow)
<1>4. PICK u :
         /\ u = [old EXCEPT !.pc = "checked", !.seen[old.draft.id] = stamp[old.draft.id]]
         /\ upsert' = [upsert EXCEPT ![r] = IF fine THEN u ELSE NoUpsert]
  BY <1>2 DEF CheckVersion
<1>5. /\ u.pc = "checked" /\ u.draft = old.draft /\ u.allow = old.allow
      /\ u.seen = [old.seen EXCEPT ![old.draft.id] = stamp[old.draft.id]]
      /\ DOMAIN u = {"pc", "draft", "allow", "seen"}
  BY <1>3, <1>4
<1>6. fine => UpsertOK(u)
  <2>1. stamp \in [Ids -> Nat] /\ old.seen \in [Ids -> Nat] /\ old.draft \in Drafts
    BY <1>3 DEF OntologyInv, UpsertOK
  <2>2. old.draft.id \in Ids /\ old.draft.relations \subseteq Ids
    BY <2>1, DraftIds
  <2>3. /\ u.seen \in [Ids -> Nat] /\ u.seen[old.draft.id] = stamp[old.draft.id]
        /\ \A k \in Ids \ {old.draft.id} : u.seen[k] = old.seen[k]
    BY <1>5, <2>1, <2>2
  <2>4. \A k \in Ids : u.seen[k] <= stamp[k]
    BY <1>3, <2>1, <2>3 DEF UpsertOK
  <2>5. \A to \in old.draft.relations :
           to = old.draft.id \/ to \in DOMAIN entities \/ stamp[to] # u.seen[to]
    BY <1>3, <2>2, <2>3 DEF UpsertOK
  <2> QED
    BY <1>4, <1>5, <2>1, <2>3, <2>4, <2>5 DEF UpsertOK
<1> PICK new : new = upsert'
  OBVIOUS
<1>7. /\ DOMAIN new = Registrars
      /\ \A q \in Registrars :
           \/ new[q] = NoUpsert
           \/ /\ new[q].pc \in {"related", "checked"}
              /\ DOMAIN new[q] = {"pc", "draft", "allow", "seen"}
              /\ UpsertOK(new[q])
  BY <1>4, <1>5, <1>6 DEF OntologyInv
<1> QED
  BY <1>1, <1>7 DEF OntologyInv, UpsertOK, NoUpsert

\* Insertion and removal are the two changes of an entry.
LEMMA InsertKeeps ==
    ASSUME OntologyInv, NEW r \in Registrars, Insert(r)
    PROVE  /\ OntologyInv'
           /\ DOMAIN entities' = DOMAIN entities \cup {upsert[r].draft.id}
           /\ \A q \in Registrars \ {r} : upsert'[q] = upsert[q]
<1>1. upsert[r].draft \in Drafts
  BY DEF OntologyInv, UpsertOK, Insert, NoUpsert
<1>2. PICK d : d = upsert[r].draft
  OBVIOUS
<1>3. d.id \in Ids
  BY <1>1, <1>2, DraftIds
<1>4. /\ stamp' = [stamp EXCEPT ![d.id] = @ + 1]
      /\ upsert' = [upsert EXCEPT ![r] = NoUpsert]
      /\ entities' = [k \in DOMAIN entities \cup {d.id} |-> IF k = d.id THEN d ELSE entities[k]]
  BY <1>2 DEF Insert, With
<1>5. /\ DOMAIN entities' = DOMAIN entities \cup {d.id}
      /\ \A k \in DOMAIN entities \ {d.id} : entities'[k] = entities[k]
  BY <1>4
<1>6. /\ DOMAIN upsert' = Registrars
      /\ \A q \in Registrars : upsert'[q] = upsert[q] \/ upsert'[q] = NoUpsert
      /\ \A q \in Registrars \ {r} : upsert'[q] = upsert[q]
  BY <1>4 DEF OntologyInv
<1>7. OntologyInv'
  BY <1>3, <1>4, <1>5, <1>6, EntryChanges
<1> QED
  BY <1>2, <1>5, <1>6, <1>7

LEMMA RemoveKeeps ==
    ASSUME OntologyInv, NEW id \in DOMAIN entities, RemoveEntity(id)
    PROVE  OntologyInv'
<1>1. id \in Ids
  BY DEF OntologyInv
<1>2. /\ stamp' = [stamp EXCEPT ![id] = @ + 1] /\ upsert' = upsert
      /\ entities' = [k \in DOMAIN entities \ {id} |-> entities[k]]
  BY DEF RemoveEntity
<1>3. /\ DOMAIN entities' = DOMAIN entities \ {id}
      /\ \A k \in DOMAIN entities \ {id} : entities'[k] = entities[k]
  BY <1>2
<1>4. DOMAIN upsert' = Registrars /\ \A q \in Registrars : upsert'[q] = upsert[q]
  BY <1>2 DEF OntologyInv
<1> QED
  BY <1>1, <1>2, <1>3, <1>4, EntryChanges

LEMMA OntologyNext == OntologyInv /\ [KnowledgeNext]_knowledgeVars => OntologyInv'
<1> SUFFICES ASSUME OntologyInv, [KnowledgeNext]_knowledgeVars PROVE OntologyInv'
  OBVIOUS
<1>1. CASE UNCHANGED ontology
  BY <1>1 DEF ontology, OntologyInv, UpsertOK, NoUpsert
<1>2. CASE UNCHANGED knowledgeVars
  BY <1>1, <1>2 DEF knowledgeVars
<1>3. CASE \E record \in Records : Remember(record)
  BY <1>1, <1>3 DEF Remember
<1>4. CASE KnowledgeNext /\ ~ \E record \in Records : Remember(record)
  BY <1>4, CheckRelationsKeeps, CheckVersionKeeps, InsertKeeps, RemoveKeeps DEF KnowledgeNext
<1> QED
  BY <1>2, <1>3, <1>4

\* However upserts and removals interleave between the three locks of
\* OntologyRegistry::upsert, an insertion lowers a classification, breaks a version without
\* leave or leaves a relation dangling only if the entry concerned changed after the test.
THEOREM FlawsOverlap == KnowledgeSpec => FlawNeedsOverlap
<1> DEFINE Overlap(r) ==
      LET draft == upsert[r].draft
          id    == draft.id
          moved == {k \in Ids : stamp[k] # upsert[r].seen[k]}
      IN  /\ \/ id \notin DOMAIN entities
             \/ id \in moved
             \/ /\ LevelOf(entities[id].class) <= LevelOf(draft.class)
                /\ Breaking(entities[id].version, draft.version) => upsert[r].allow
          /\ draft.relations \ DOMAIN entities' \subseteq moved
<1>1. ASSUME OntologyInv, NEW r \in Registrars, Insert(r)
      PROVE  Overlap(r)
  <2> PICK u : u = upsert[r]
    OBVIOUS
  <2>1. UpsertOK(u) /\ u.pc = "checked"
    BY <1>1 DEF OntologyInv, Insert, NoUpsert
  <2>2. u.draft.id \in Ids /\ u.draft.relations \subseteq Ids
    BY <2>1, DraftIds DEF UpsertOK
  <2>3. DOMAIN entities' = DOMAIN entities \cup {u.draft.id}
    BY <1>1, InsertKeeps
  <2>4. \A to \in u.draft.relations : to \notin DOMAIN entities' => stamp[to] # u.seen[to]
    BY <2>1, <2>3 DEF UpsertOK
  <2>5. \/ u.draft.id \notin DOMAIN entities
        \/ stamp[u.draft.id] # u.seen[u.draft.id]
        \/ /\ LevelOf(entities[u.draft.id].class) <= LevelOf(u.draft.class)
           /\ Breaking(entities[u.draft.id].version, u.draft.version) => u.allow
    BY <2>1 DEF UpsertOK, Acceptable, CanFlowInto
  <2> QED
    BY <2>2, <2>4, <2>5
<1> HIDE DEF Overlap
<1>2. ASSUME OntologyInv, KnowledgeNext, NEW r \in Registrars,
             upsert[r].pc = "checked", upsert'[r] = NoUpsert
      PROVE  Insert(r)
  <2>1. upsert[r] # NoUpsert
    BY <1>2 DEF NoUpsert
  <2>2. CASE \E q \in Registrars : \E d \in Drafts, allow \in BOOLEAN : CheckRelations(q, d, allow)
    BY <1>2, <2>1, <2>2 DEF CheckRelations, OntologyInv
  <2>3. CASE \E q \in Registrars : CheckVersion(q)
    BY <1>2, <2>1, <2>3 DEF CheckVersion, OntologyInv
  <2>4. CASE \E q \in Registrars : Insert(q)
    BY <1>2, <2>1, <2>4, InsertKeeps
  <2>5. CASE \E id \in DOMAIN entities : RemoveEntity(id)
    BY <1>2, <2>1, <2>5 DEF RemoveEntity
  <2>6. CASE \E record \in Records : Remember(record)
    BY <1>2, <2>1, <2>6 DEF Remember, ontology
  <2> QED
    BY <1>2, <2>2, <2>3, <2>4, <2>5, <2>6 DEF KnowledgeNext
<1> DEFINE Step == \A r \in Registrars :
                     upsert[r].pc = "checked" /\ upsert'[r] = NoUpsert => Overlap(r)
<1>3. OntologyInv /\ [KnowledgeNext]_knowledgeVars => [Step]_knowledgeVars
  BY <1>1, <1>2
<1>4. [Step]_knowledgeVars => [\A r \in Registrars :
          upsert[r].pc = "checked" /\ upsert'[r] = NoUpsert =>
            LET draft == upsert[r].draft
                id    == draft.id
                moved == {k \in Ids : stamp[k] # upsert[r].seen[k]}
            IN  /\ \/ id \notin DOMAIN entities
                   \/ id \in moved
                   \/ /\ LevelOf(entities[id].class) <= LevelOf(draft.class)
                      /\ Breaking(entities[id].version, draft.version) => upsert[r].allow
                /\ draft.relations \ DOMAIN entities' \subseteq moved]_knowledgeVars
  BY DEF Overlap
<1> HIDE DEF Step
<1> QED
  BY <1>3, <1>4, OntologyInit, OntologyNext, PTL DEF KnowledgeSpec, FlawNeedsOverlap
=============================================================================
