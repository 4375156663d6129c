--------------------------- MODULE LearningProofs ---------------------------
(***************************************************************************)
(* Proofs about LearningLoop and the TraceRecorder in it, for any number   *)
(* of callers, observations, proposals and rules: the store follows the    *)
(* trace, no observation is used twice, and what was rolled back decides   *)
(* nothing.                                                                *)
(***************************************************************************)
EXTENDS LearningLoop, FiniteSetTheorems, NaturalsInduction, WellFoundedInduction, TLAPS

-----------------------------------------------------------------------------
(* The recorder and its store *)

Documents == [status : {"Absent", "Running"} \cup Closed, steps : Seq(Nat)]

RecorderTypeOK ==
    /\ cache \in Documents /\ stored \in Documents
    /\ pc \in [Callers -> {"idle", "putOpen", "insert", "put"}]
    /\ snapshot \in [Callers -> Documents]
    /\ calls \in Nat /\ opens \in Nat

\* Before the first insertion nothing was recorded.
NothingBeforeOpen ==
    opens = 0 => /\ cache = Absent /\ stored.steps = <<>>
                 /\ \A c \in Callers : pc[c] # "put"

\* open() carries an empty document.
OpensEmpty == \A c \in Callers : pc[c] \in {"putOpen", "insert"} => snapshot[c] = Opened

\* With one insertion, the store and every copy on its way there lag behind.
LagBehind ==
    opens <= 1 => /\ IsPrefixOf(stored.steps, cache.steps)
                  /\ \A c \in Callers : pc[c] = "put" => IsPrefixOf(snapshot[c].steps, cache.steps)

\* While the last put was made by a caller on its own, at most that caller is busy,
\* and what it carries is what the cache has or will have.
SettledIsAlone ==
    settled =>
      /\ (\A c \in Callers : pc[c] = "idle") => stored = cache
      /\ \A c, d \in Callers : pc[c] # "idle" /\ pc[d] # "idle" => c = d
      /\ \A c \in Callers : pc[c] = "put" => snapshot[c] = cache
      /\ \A c \in Callers : pc[c] = "insert" => stored = snapshot[c]

StoreInv == RecorderTypeOK /\ NothingBeforeOpen /\ OpensEmpty /\ LagBehind /\ SettledIsAlone

\* A trace is a prefix of itself, of itself with a step more, and the empty one
\* of all.
LEMMA PrefixFacts ==
    ASSUME NEW s \in Seq(Nat), NEW t \in Seq(Nat), NEW x \in Nat
    PROVE  /\ IsPrefixOf(<<>>, t) /\ IsPrefixOf(s, s)
           /\ IsPrefixOf(s, t) => IsPrefixOf(s, Append(t, x))
<1>1. \A u \in Seq(Nat) : u = SubSeq(u, 1, Len(u)) /\ Len(u) \in Nat
  OBVIOUS
<1>2. <<>> = SubSeq(t, 1, 0) /\ Len(<<>>) = 0
  OBVIOUS
<1>3. ASSUME IsPrefixOf(s, t)
      PROVE  IsPrefixOf(s, Append(t, x))
  <2>1. Len(s) <= Len(t) /\ s = SubSeq(t, 1, Len(s)) /\ Len(s) \in Nat /\ Len(t) \in Nat
    BY <1>3 DEF IsPrefixOf
  <2>2. Len(Append(t, x)) = Len(t) + 1 /\ \A i \in 1..Len(t) : Append(t, x)[i] = t[i]
    OBVIOUS
  <2>3. SubSeq(t, 1, Len(s)) = [i \in 1..Len(s) |-> t[i]]
    BY <2>1
  <2>4. SubSeq(Append(t, x), 1, Len(s)) = [i \in 1..Len(s) |-> Append(t, x)[i]]
    BY <2>1, <2>2
  <2> QED
    BY <2>1, <2>2, <2>3, <2>4 DEF IsPrefixOf
<1> QED
  BY <1>1, <1>2, <1>3 DEF IsPrefixOf

\* A caller takes a copy on its way: open() an empty one, the other calls a copy of
\* what they leave in the cache.
LEMMA StoreInvPutNext ==
    ASSUME StoreInv, NEW c \in Callers, pc[c] = "idle",
           NEW label, NEW doc \in Documents, PutNext(c, label, doc),
           UNCHANGED <<stored, opens>>, calls' \in Nat,
           \/ label = "putOpen" /\ doc = Opened /\ cache' = cache
           \/ /\ label = "put" /\ cache' = doc /\ opens # 0
              /\ \A s \in Seq(Nat) : IsPrefixOf(s, cache.steps) => IsPrefixOf(s, doc.steps)
    PROVE  StoreInv'
<1> USE DEF StoreInv, RecorderTypeOK
<1>1. /\ pc' = [pc EXCEPT ![c] = label] /\ snapshot' = [snapshot EXCEPT ![c] = doc]
      /\ settled' = \A o \in Callers : pc[o] = "idle"
      /\ label \in {"putOpen", "put"}
  BY DEF PutNext
<1>2. /\ pc'[c] = label /\ snapshot'[c] = doc
      /\ \A d \in Callers \ {c} : pc'[d] = pc[d] /\ snapshot'[d] = snapshot[d]
  BY <1>1
<1>3. RecorderTypeOK'
  BY <1>1
<1>4. NothingBeforeOpen'
  BY <1>2 DEF NothingBeforeOpen
<1>5. OpensEmpty'
  BY <1>2 DEF OpensEmpty
<1>6. /\ cache.steps \in Seq(Nat) /\ stored.steps \in Seq(Nat) /\ doc.steps \in Seq(Nat)
      /\ \A d \in Callers : snapshot[d].steps \in Seq(Nat)
  BY DEF Documents
<1>7. ASSUME opens' <= 1, NEW s \in Seq(Nat), IsPrefixOf(s, cache.steps)
      PROVE  IsPrefixOf(s, cache'.steps)
  BY <1>7
<1>8. LagBehind'
  <2> SUFFICES ASSUME opens <= 1
               PROVE  /\ IsPrefixOf(stored.steps, cache'.steps)
                      /\ \A d \in Callers : pc'[d] = "put" => IsPrefixOf(snapshot'[d].steps, cache'.steps)
    BY DEF LagBehind
  <2>1. IsPrefixOf(stored.steps, cache'.steps)
    BY <1>6, <1>7 DEF LagBehind
  <2>2. ASSUME NEW d \in Callers, pc'[d] = "put"
        PROVE  IsPrefixOf(snapshot'[d].steps, cache'.steps)
    <3>1. CASE d = c
      BY <3>1, <2>2, <1>2, <1>6, PrefixFacts
    <3>2. CASE d # c
      BY <3>2, <2>2, <1>2, <1>6, <1>7 DEF LagBehind
    <3> QED
      BY <3>1, <3>2
  <2> QED
    BY <2>1, <2>2
<1>9. SettledIsAlone'
  <2> SUFFICES ASSUME \A o \in Callers : pc[o] = "idle"
               PROVE  SettledIsAlone'
    BY <1>1 DEF SettledIsAlone
  <2>1. pc'[c] # "idle" /\ \A d \in Callers \ {c} : pc'[d] = "idle"
    BY <1>1, <1>2
  <2> QED
    BY <1>1, <1>2, <2>1 DEF SettledIsAlone
<1> QED
  BY <1>3, <1>4, <1>5, <1>8, <1>9

LEMMA StoreInvUnchanged ==
    ASSUME StoreInv, UNCHANGED <<cache, stored, caller, opens, settled>>, calls' \in Nat
    PROVE  StoreInv'
BY DEF StoreInv, RecorderTypeOK, NothingBeforeOpen, OpensEmpty, LagBehind, SettledIsAlone, caller

LEMMA StoreInvRecordStep ==
    ASSUME StoreInv, NEW c \in Callers, NEW mine, RecordStep(c, mine)
    PROVE  StoreInv'
<1>1. pc[c] = "idle" /\ calls' = calls + 1 /\ calls' \in Nat /\ UNCHANGED <<stored, opens>>
  BY DEF RecordStep, Call, StoreInv, RecorderTypeOK
<1>2. CASE UNCHANGED <<cache, caller, recorded, settled>>
  BY <1>1, <1>2, StoreInvUnchanged
<1>3. CASE cache.status = "Running" /\ Take(c, calls', With(calls'), With(calls'))
  <2> PICK doc : doc = With(calls')
    OBVIOUS
  <2>1. cache \in Documents /\ cache.steps \in Seq(Nat)
    BY DEF StoreInv, RecorderTypeOK, Documents
  <2>2. doc.steps = Append(cache.steps, calls') /\ doc \in Documents
    <3>1. doc = [cache EXCEPT !.steps = Append(cache.steps, calls')]
      BY DEF With
    <3>2. Append(cache.steps, calls') \in Seq(Nat)
      BY <1>1, <2>1
    <3> QED
      BY <2>1, <3>1, <3>2 DEF Documents
  <2>3. PutNext(c, "put", doc) /\ cache' = doc
    BY <1>3 DEF Take
  <2>4. opens # 0
    BY <1>3 DEF StoreInv, NothingBeforeOpen, Absent
  <2>5. \A s \in Seq(Nat) : IsPrefixOf(s, cache.steps) => IsPrefixOf(s, doc.steps)
    BY <1>1, <2>1, <2>2, PrefixFacts
  <2> QED
    BY <1>1, <2>2, <2>3, <2>4, <2>5, StoreInvPutNext
<1> QED
  BY <1>2, <1>3 DEF RecordStep, TakeStep

LEMMA StoreInvClose ==
    ASSUME StoreInv, NEW c \in Callers, Close(c)
    PROVE  StoreInv'
<1>1. pc[c] = "idle" /\ calls' \in Nat /\ UNCHANGED <<stored, opens>>
  BY DEF Close, Call, StoreInv, RecorderTypeOK
<1>2. CASE cache.status = "Absent"
  BY <1>1, <1>2, StoreInvUnchanged DEF Close
<1>3. CASE cache.status # "Absent"
  <2>1. PICK st \in Closed : cache' = [cache EXCEPT !.status = st]
                             /\ PutNext(c, "put", [cache EXCEPT !.status = st])
    BY <1>3 DEF Close
  <2> PICK doc : doc = [cache EXCEPT !.status = st]
    OBVIOUS
  <2>2. doc \in Documents /\ doc.steps = cache.steps
    BY DEF StoreInv, RecorderTypeOK, Documents
  <2>3. opens # 0
    BY <1>3 DEF StoreInv, NothingBeforeOpen, Absent
  <2> QED
    BY <1>1, <2>1, <2>2, <2>3, StoreInvPutNext
<1> QED
  BY <1>2, <1>3

LEMMA StoreInvOpen ==
    ASSUME StoreInv, NEW c \in Callers, Open(c)
    PROVE  StoreInv'
<1>1. Opened \in Documents
  BY DEF Opened, Documents
<1>2. /\ pc[c] = "idle" /\ calls' \in Nat /\ UNCHANGED <<cache, stored, opens>>
      /\ PutNext(c, "putOpen", Opened)
  BY DEF Open, Call, StoreInv, RecorderTypeOK
<1> QED
  BY <1>1, <1>2, StoreInvPutNext

\* A put completes, fails, or is followed by the insertion of a new document.
LEMMA StoreInvProceed ==
    ASSUME StoreInv, NEW c \in Callers, Proceed(c)
    PROVE  StoreInv'
<1> USE DEF StoreInv, RecorderTypeOK
<1>0. /\ Absent \in Documents /\ Opened \in Documents /\ Opened.steps = <<>>
      /\ cache.steps \in Seq(Nat) /\ stored.steps \in Seq(Nat)
      /\ \A d \in Callers : snapshot[d] \in Documents /\ snapshot[d].steps \in Seq(Nat)
  BY DEF Absent, Opened, Documents
<1>1. CASE Put(c) /\ pc[c] = "put"
  <2>1. /\ stored' = snapshot[c] /\ pc' = [pc EXCEPT ![c] = "idle"]
        /\ snapshot' = [snapshot EXCEPT ![c] = Absent]
        /\ UNCHANGED <<cache, calls, opens, settled>>
    BY <1>1 DEF Put, Done
  <2>2. /\ pc'[c] = "idle" /\ \A d \in Callers \ {c} : pc'[d] = pc[d] /\ snapshot'[d] = snapshot[d]
    BY <2>1
  <2>3. RecorderTypeOK'
    BY <1>0, <2>1
  <2>4. NothingBeforeOpen' /\ OpensEmpty'
    BY <1>1, <2>1, <2>2 DEF NothingBeforeOpen, OpensEmpty
  <2>5. LagBehind'
    BY <1>1, <2>1, <2>2 DEF LagBehind
  <2>6. SettledIsAlone'
    BY <1>1, <2>1, <2>2 DEF SettledIsAlone
  <2> QED
    BY <2>3, <2>4, <2>5, <2>6
<1>2. CASE Put(c) /\ pc[c] = "putOpen"
  <2>1. /\ stored' = Opened /\ pc' = [pc EXCEPT ![c] = "insert"]
        /\ UNCHANGED <<cache, snapshot, calls, opens, settled>>
    BY <1>2 DEF Put, OpensEmpty
  <2>2. /\ pc'[c] = "insert" /\ \A d \in Callers \ {c} : pc'[d] = pc[d]
    BY <2>1
  <2>3. RecorderTypeOK'
    BY <1>0, <2>1
  <2>4. NothingBeforeOpen' /\ OpensEmpty'
    BY <1>0, <1>2, <2>1, <2>2 DEF NothingBeforeOpen, OpensEmpty
  <2>5. IsPrefixOf(stored'.steps, cache.steps)
    BY <1>0, <2>1, PrefixFacts
  <2>6. LagBehind'
    BY <1>2, <2>1, <2>2, <2>5 DEF LagBehind
  <2>7. SettledIsAlone'
    BY <1>2, <2>1, <2>2 DEF SettledIsAlone, OpensEmpty
  <2> QED
    BY <2>3, <2>4, <2>6, <2>7
<1>3. CASE PutFails(c)
  <2>1. /\ pc[c] # "idle" /\ pc' = [pc EXCEPT ![c] = "idle"]
        /\ snapshot' = [snapshot EXCEPT ![c] = Absent]
        /\ settled' = FALSE /\ UNCHANGED <<cache, stored, calls, opens>>
    BY <1>3 DEF PutFails, Done
  <2>2. /\ pc'[c] = "idle" /\ \A d \in Callers \ {c} : pc'[d] = pc[d] /\ snapshot'[d] = snapshot[d]
    BY <2>1
  <2>3. RecorderTypeOK'
    BY <1>0, <2>1
  <2>4. NothingBeforeOpen' /\ OpensEmpty' /\ LagBehind' /\ SettledIsAlone'
    BY <2>1, <2>2 DEF NothingBeforeOpen, OpensEmpty, LagBehind, SettledIsAlone
  <2> QED
    BY <2>3, <2>4
<1>4. CASE Insert(c)
  <2>1. /\ pc[c] = "insert" /\ cache' = Opened /\ snapshot[c] = Opened /\ opens' = opens + 1
        /\ pc' = [pc EXCEPT ![c] = "idle"] /\ snapshot' = [snapshot EXCEPT ![c] = Absent]
        /\ UNCHANGED <<stored, calls, settled>>
    BY <1>4 DEF Insert, Done, OpensEmpty
  <2>2. /\ pc'[c] = "idle" /\ \A d \in Callers \ {c} : pc'[d] = pc[d] /\ snapshot'[d] = snapshot[d]
    BY <2>1
  <2>3. RecorderTypeOK'
    BY <1>0, <2>1
  <2>4. NothingBeforeOpen' /\ OpensEmpty'
    BY <2>1, <2>2 DEF NothingBeforeOpen, OpensEmpty
  <2>5. LagBehind'
    <3> SUFFICES ASSUME opens = 0
                 PROVE  LagBehind'
      BY <2>1 DEF LagBehind
    <3>1. stored.steps = <<>> /\ \A d \in Callers : pc'[d] # "put"
      BY <2>1, <2>2 DEF NothingBeforeOpen
    <3>2. IsPrefixOf(stored'.steps, cache'.steps)
      BY <1>0, <2>1, <3>1, PrefixFacts
    <3> QED
      BY <3>1, <3>2 DEF LagBehind
  <2>6. SettledIsAlone'
    BY <2>1, <2>2 DEF SettledIsAlone
  <2> QED
    BY <2>3, <2>4, <2>5, <2>6
<1> QED
  BY <1>1, <1>2, <1>3, <1>4 DEF Proceed, Put

-----------------------------------------------------------------------------
(* The rules *)

ProposalsOK ==
    /\ \E S : proposals \in Seq(S)
    /\ \A p \in DOMAIN proposals :
         /\ {"id", "key", "evidence", "state"} \subseteq DOMAIN proposals[p]
         /\ proposals[p].id # NoId

\* A rule written by hand is on, and a rule whose id is off is off.
EntryOK(rule) ==
    /\ {"rule", "id", "enabled"} \subseteq DOMAIN rule
    /\ rule.id = NoId => rule.enabled = TRUE
    /\ rule.id \in off => rule.enabled = FALSE

RulesOK == (\E S : rules \in Seq(S)) /\ \A i \in DOMAIN rules : EntryOK(rules[i])

\* No call switches off what has no id.
RulesInv == ProposalsOK /\ NoId \notin off /\ RulesOK /\ \E S : local \in Seq(S)

\* A set of naturals has a least element, which Min gives.
LEMMA MinIsLeast ==
    ASSUME NEW T, T \subseteq Nat, T # {}
    PROVE  Min(T) \in T
<1> DEFINE less == OpToRel(<, Nat)
<1>1. IsWellFoundedOn(less, Nat)
  BY NatLessThanWellFounded
<1>2. PICK n \in T : \A m \in T : ~(<<m, n>> \in less)
  <2> HIDE DEF less
  <2> QED
    BY <1>1, WFMin
<1>3. \A m \in T : ~(m < n)
  BY <1>2 DEF OpToRel
<1>4. \A m \in T : n <= m
  BY <1>3
<1> QED
  BY <1>4 DEF Min

\* disable_learned and enable_learned: the rules with the id, and nothing else.
Switched(new, list, id, flag) ==
    /\ \E T : new \in Seq(T)
    /\ DOMAIN new = DOMAIN list
    /\ \A i \in DOMAIN list :
         /\ DOMAIN new[i] = DOMAIN list[i]
         /\ new[i].rule = list[i].rule /\ new[i].id = list[i].id
         /\ list[i].id = id => new[i].enabled = flag
         /\ list[i].id # id => new[i] = list[i]

LEMMA SetLearnedSwitches ==
    ASSUME NEW S, NEW list \in Seq(S), NEW id, NEW flag \in BOOLEAN,
           \A i \in DOMAIN list : {"rule", "id", "enabled"} \subseteq DOMAIN list[i],
           NEW new, new = SetLearned(list, id, flag)
    PROVE  Switched(new, list, id, flag)
<1>1. DOMAIN list = 1..Len(list) /\ Len(list) \in Nat
  OBVIOUS
<1>2. /\ DOMAIN new = DOMAIN list
      /\ \A i \in DOMAIN list :
           new[i] = IF list[i].id = id THEN [list[i] EXCEPT !.enabled = flag] ELSE list[i]
  BY DEF SetLearned
<1> PICK T : T = {new[i] : i \in DOMAIN list}
  OBVIOUS
<1>3. new = [i \in 1..Len(list) |-> new[i]] /\ \A i \in 1..Len(list) : new[i] \in T
  BY <1>1, <1>2 DEF SetLearned
<1>4. new \in Seq(T)
  BY <1>1, <1>3
<1>5. ASSUME NEW i \in DOMAIN list
      PROVE  /\ DOMAIN new[i] = DOMAIN list[i]
             /\ new[i].rule = list[i].rule /\ new[i].id = list[i].id
             /\ list[i].id = id => new[i].enabled = flag
             /\ list[i].id # id => new[i] = list[i]
  BY <1>2
<1> QED
  BY <1>2, <1>4, <1>5 DEF Switched

\* A proposal more takes nothing from the ones there are.
LEMMA RulesInvProposed ==
    ASSUME RulesInv, UNCHANGED <<rules, local, off>>,
           proposals' = proposals \/ (\E rule, key, seen, a, b :
             /\ proposals' = Append(proposals, rule)
             /\ rule = [id |-> <<a, b>>, key |-> key, evidence |-> seen, state |-> "Proposed"])
    PROVE  RulesInv'
<1>1. CASE proposals' = proposals
  BY <1>1 DEF RulesInv, ProposalsOK, RulesOK, EntryOK
<1>2. CASE proposals' # proposals
  <2>1. PICK rule, key, seen, a, b :
          /\ proposals' = Append(proposals, rule)
          /\ rule = [id |-> <<a, b>>, key |-> key, evidence |-> seen, state |-> "Proposed"]
    BY <1>2
  <2>2. PICK S : proposals \in Seq(S)
    BY DEF RulesInv, ProposalsOK
  <2>3. /\ proposals' \in Seq(S \cup {rule})
        /\ DOMAIN proposals' = DOMAIN proposals \cup {Len(proposals) + 1}
        /\ \A p \in DOMAIN proposals : proposals'[p] = proposals[p]
        /\ proposals'[Len(proposals) + 1] = rule
    BY <2>1, <2>2
  <2>4. DOMAIN rule = {"id", "key", "evidence", "state"} /\ rule.id # NoId
    BY <2>1 DEF NoId
  <2>5. ProposalsOK'
    BY <2>3, <2>4 DEF RulesInv, ProposalsOK
  <2> QED
    BY <2>5 DEF RulesInv, RulesOK, EntryOK
<1> QED
  BY <1>1, <1>2

LEMMA RulesInvReview ==
    ASSUME RulesInv, NEW p \in DOMAIN proposals, NEW verdict, Review(p, verdict)
    PROVE  RulesInv'
<1>1. PICK S : proposals \in Seq(S)
  BY DEF RulesInv, ProposalsOK
<1> PICK new : new = [proposals[p] EXCEPT !.state = verdict]
  OBVIOUS
<1>2. proposals' = [proposals EXCEPT ![p] = new] /\ UNCHANGED <<rules, local, off>>
  BY <1>1 DEF Review, planner
<1>3. proposals' \in Seq(S \cup {new})
  BY <1>1, <1>2
<1>4. DOMAIN new = DOMAIN proposals[p] /\ new.id = proposals[p].id
  BY DEF RulesInv, ProposalsOK
<1>5. ProposalsOK'
  BY <1>1, <1>2, <1>3, <1>4 DEF RulesInv, ProposalsOK
<1> QED
  BY <1>2, <1>5 DEF RulesInv, RulesOK, EntryOK

\* disable_learned and enable_learned of the id of a proposal
LEMMA RulesInvSwitch ==
    ASSUME RulesInv, NEW p \in DOMAIN proposals, NEW flag \in BOOLEAN,
           rules' = SetLearned(rules, proposals[p].id, flag),
           off' = IF flag THEN off \ {proposals[p].id} ELSE off \cup {proposals[p].id},
           UNCHANGED <<proposals, local>>
    PROVE  RulesInv'
<1>1. PICK S : rules \in Seq(S)
  BY DEF RulesInv, RulesOK
<1>2. \A i \in DOMAIN rules : {"rule", "id", "enabled"} \subseteq DOMAIN rules[i]
  BY DEF RulesInv, RulesOK, EntryOK
<1> PICK new : new = rules'
  OBVIOUS
<1> PICK id : id = proposals[p].id
  OBVIOUS
<1>3. Switched(new, rules, id, flag)
  BY <1>1, <1>2, SetLearnedSwitches
<1>4. id # NoId /\ NoId \notin off'
  BY DEF RulesInv, ProposalsOK
<1>5. ASSUME NEW i \in DOMAIN rules PROVE EntryOK(new[i])'
  <2>1. EntryOK(rules[i]) /\ DOMAIN new[i] = DOMAIN rules[i] /\ new[i].id = rules[i].id
    BY <1>3 DEF RulesInv, RulesOK, Switched
  <2>2. CASE rules[i].id = id
    BY <1>3, <1>4, <2>1, <2>2 DEF EntryOK, Switched
  <2>3. CASE rules[i].id # id
    <3>1. new[i] = rules[i] /\ (rules[i].id \in off' => rules[i].id \in off)
      BY <1>3, <2>3 DEF Switched
    <3> QED
      BY <2>1, <3>1 DEF EntryOK
  <2> QED
    BY <2>2, <2>3
<1>6. RulesOK'
  BY <1>3, <1>5 DEF RulesOK, Switched
<1> QED
  BY <1>4, <1>6 DEF RulesInv, ProposalsOK

\* A rule more at the end of the planner's list
LEMMA RulesInvAppend ==
    ASSUME RulesInv, NEW rule, rules' = Append(rules, rule),
           off' \subseteq off, EntryOK(rule)', UNCHANGED <<proposals, local>>
    PROVE  RulesInv'
<1>1. PICK S : rules \in Seq(S)
  BY DEF RulesInv, RulesOK
<1>2. /\ rules' \in Seq(S \cup {rule})
      /\ DOMAIN rules' = DOMAIN rules \cup {Len(rules) + 1}
      /\ \A i \in DOMAIN rules : rules'[i] = rules[i]
      /\ rules'[Len(rules) + 1] = rule
  BY <1>1
<1>3. \A i \in DOMAIN rules : EntryOK(rules[i])'
  BY <1>2 DEF RulesInv, RulesOK, EntryOK
<1>4. RulesOK'
  BY <1>2, <1>3 DEF RulesOK, EntryOK
<1> QED
  BY <1>4 DEF RulesInv, ProposalsOK

LEMMA RulesInvInstall ==
    ASSUME RulesInv, NEW p \in DOMAIN proposals, Install(p)
    PROVE  RulesInv'
<1> PICK rule : rule = Tagged(RuleOf[proposals[p].key], proposals[p].id)
  OBVIOUS
<1>1. /\ rules' = Append(rules, rule) /\ off' = off \ {proposals[p].id}
      /\ UNCHANGED <<proposals, local>>
  BY DEF Install, AddLearned, learners
<1>2. DOMAIN rule = {"rule", "id", "enabled"} /\ rule.id = proposals[p].id /\ rule.enabled = TRUE
  BY DEF Tagged
<1>3. EntryOK(rule)'
  BY <1>1, <1>2 DEF EntryOK
<1> QED
  BY <1>1, <1>3, RulesInvAppend

LEMMA RulesInvAuthor ==
    ASSUME RulesInv, NEW written, Author(written)
    PROVE  RulesInv'
<1> PICK rule : rule = Tagged(written, NoId)
  OBVIOUS
<1>1. rules' = Append(rules, rule) /\ UNCHANGED <<proposals, local, off>>
  BY DEF Author, Push, learners
<1>2. DOMAIN rule = {"rule", "id", "enabled"} /\ rule.id = NoId /\ rule.enabled = TRUE
  BY DEF Tagged
<1>3. EntryOK(rule)'
  BY <1>1, <1>2 DEF EntryOK, RulesInv
<1> QED
  BY <1>1, <1>3, RulesInvAppend

LEMMA RulesInvLocal ==
    ASSUME RulesInv, NEW written, AddLocal(written)
    PROVE  RulesInv'
<1>1. PICK S : local \in Seq(S)
  BY DEF RulesInv
<1> PICK rule : rule = Tagged(written, NoId)
  OBVIOUS
<1>2. local' = Append(local, rule) /\ UNCHANGED <<proposals, rules, off>>
  BY DEF AddLocal, Push, learners
<1>3. local' \in Seq(S \cup {rule})
  BY <1>1, <1>2
<1> QED
  BY <1>2, <1>3 DEF RulesInv, ProposalsOK, RulesOK, EntryOK

-----------------------------------------------------------------------------
(* The observations and the learners *)

\* The observations a subscriber was told of, whether its task ran or not.
Told(s) == delivered[s] \cup {obs \in Nat : <<s, obs>> \in tasks}

NewsOK ==
    /\ subscribers \subseteq Subscribers /\ calls \in Nat
    /\ tasks \subseteq Subscribers \X (1..calls)
    /\ delivered \in [Subscribers -> SUBSET (1..calls)]
    /\ \A s \in Subscribers : \A obs \in delivered[s] : <<s, obs>> \notin tasks
    /\ \A s, t \in subscribers : Told(s) = Told(t)

\* Evidence for a pattern: distinct observations of it that the miner received.
Fits(seen, key) ==
    /\ seen \in Seq(Nat)
    /\ \A i, j \in DOMAIN seen : seen[i] = seen[j] => i = j
    /\ \A obs \in ToSet(seen) : /\ "miner" \in Subscribers /\ obs \in delivered["miner"]
                                /\ Minable(obs) /\ PatternKey(obs) = key

Apart(seen, other) == ToSet(seen) \cap ToSet(other) = {}

\* What was proposed is no longer evidence and is in no other proposal.
MinerInv ==
    /\ \A k \in DOMAIN evidence : Fits(evidence[k], k)
    /\ \A p \in DOMAIN proposals :
         /\ Fits(proposals[p].evidence, proposals[p].key)
         /\ Len(proposals[p].evidence) >= Threshold
         /\ Cardinality(Sessions(proposals[p].evidence)) >= MinSessions
         /\ \A q \in DOMAIN proposals \ {p} : Apart(proposals[p].evidence, proposals[q].evidence)
         /\ \A k \in DOMAIN evidence : Apart(proposals[p].evidence, evidence[k])

RouterInv ==
    "router" \in Subscribers =>
      /\ \A key \in DOMAIN buckets : buckets[key].count = Cardinality(CountedIn(key))
      /\ \A obs \in Counted("router") : <<Seen(obs).agent, Seen(obs).outcome>> \in DOMAIN buckets

EscalationInv ==
    "escalation" \in Subscribers => escalation.total = Cardinality(Counted("escalation"))

LearnersInv == NewsOK /\ MinerInv /\ RouterInv /\ EscalationInv

\* The miner's evidence is a sequence of distinct observations: as many as it is long.
LEMMA DistinctCount ==
    ASSUME NEW seen \in Seq(Nat), \A i, j \in DOMAIN seen : seen[i] = seen[j] => i = j
    PROVE  Cardinality(ToSet(seen)) = Len(seen)
<1> PICK S : S = ToSet(seen)
  OBVIOUS
<1>1. Len(seen) \in Nat /\ DOMAIN seen = 1..Len(seen) /\ seen \in [1..Len(seen) -> S]
  BY DEF ToSet
<1>2. seen \in Bijection(1..Len(seen), S)
  <2>1. seen \in Injection(1..Len(seen), S)
    BY <1>1 DEF Injection, IsInjective
  <2>2. seen \in Surjection(1..Len(seen), S)
    BY <1>1 DEF Surjection, ToSet
  <2> QED
    BY <2>1, <2>2 DEF Bijection
<1>3. ExistsBijection(1..Len(seen), S)
  BY <1>2 DEF ExistsBijection
<1> QED
  BY <1>1, <1>3, FS_CountingElements

\* What was evidence stays evidence.
LEMMA FitsStays ==
    ASSUME UNCHANGED work, "miner" \in Subscribers => delivered["miner"] \subseteq delivered'["miner"],
           NEW seen, NEW key
    PROVE  (Fits(seen, key) => Fits(seen, key)') /\ Sessions(seen)' = Sessions(seen)
BY DEF Fits, Sessions, Minable, PatternKey, Seen, Trace

LEMMA MinerStays ==
    ASSUME MinerInv, UNCHANGED <<work, evidence, proposals>>,
           "miner" \in Subscribers => delivered["miner"] \subseteq delivered'["miner"]
    PROVE  MinerInv'
<1>1. \A seen, key : (Fits(seen, key) => Fits(seen, key)') /\ Sessions(seen)' = Sessions(seen)
  BY FitsStays
<1> QED
  BY <1>1 DEF MinerInv, Apart

LEMMA RouterStays ==
    ASSUME RouterInv, UNCHANGED <<work, buckets>>,
           "router" \in Subscribers => delivered'["router"] = delivered["router"]
    PROVE  RouterInv'
<1>1. "router" \in Subscribers => Counted("router")' = Counted("router")
  BY DEF Counted, Seen
<1>2. "router" \in Subscribers => \A key : CountedIn(key)' = CountedIn(key)
  BY <1>1 DEF CountedIn, Seen
<1> QED
  BY <1>1, <1>2 DEF RouterInv, Seen

LEMMA EscalationStays ==
    ASSUME EscalationInv, UNCHANGED <<work, escalation>>,
           "escalation" \in Subscribers => delivered'["escalation"] = delivered["escalation"]
    PROVE  EscalationInv'
<1>1. "escalation" \in Subscribers => Counted("escalation")' = Counted("escalation")
  BY DEF Counted, Seen
<1> QED
  BY <1>1 DEF EscalationInv

\* A step that is not a subscriber's leaves what the learners know.
LEMMA LearnersStay ==
    ASSUME MinerInv, RouterInv, EscalationInv, UNCHANGED <<work, delivered, learners>>
    PROVE  MinerInv' /\ RouterInv' /\ EscalationInv'
BY MinerStays, RouterStays, EscalationStays DEF learners

LEMMA NewsStays ==
    ASSUME NewsOK, UNCHANGED <<subscribers, tasks, delivered>>, calls' \in {calls, calls + 1}
    PROVE  NewsOK'
<1>1. calls' \in Nat /\ 1..calls \subseteq 1..calls'
  BY DEF NewsOK
<1> QED
  BY <1>1 DEF NewsOK, Told

\* record_step() tells every subscriber of a new observation.
LEMMA NewsNotify ==
    ASSUME NewsOK, UNCHANGED <<subscribers, delivered>>, calls' = calls + 1, Notify(calls')
    PROVE  NewsOK'
<1>1. calls' \in Nat /\ 1..calls \subseteq 1..calls' /\ calls' \in 1..calls' /\ calls' \notin 1..calls
  BY DEF NewsOK
<1>2. tasks' = tasks \cup {<<s, calls'>> : s \in subscribers}
  BY DEF Notify
<1>3. tasks' \subseteq Subscribers \X (1..calls')
  BY <1>1, <1>2 DEF NewsOK
<1>4. \A s \in Subscribers : \A obs \in delivered[s] : <<s, obs>> \notin tasks'
  BY <1>1, <1>2 DEF NewsOK
<1>5. \A s \in subscribers : Told(s)' = Told(s) \cup {calls'}
  BY <1>1, <1>2 DEF Told
<1>6. \A s, t \in subscribers' : Told(s)' = Told(t)'
  BY <1>5 DEF NewsOK
<1> QED
  BY <1>1, <1>3, <1>4, <1>6 DEF NewsOK

\* A task runs once and its subscriber has the observation for the first time.
LEMMA NewsDeliver ==
    ASSUME NewsOK, NEW s \in Subscribers, NEW obs, Deliver(s, obs), UNCHANGED subscribers
    PROVE  /\ NewsOK'
           /\ obs \in 1..calls /\ obs \notin delivered[s]
           /\ delivered'[s] = delivered[s] \cup {obs}
           /\ \A t \in Subscribers \ {s} : delivered'[t] = delivered[t]
<1>1. /\ <<s, obs>> \in tasks /\ tasks' = tasks \ {<<s, obs>>} /\ calls' = calls
      /\ delivered' = [delivered EXCEPT ![s] = delivered[s] \cup {obs}]
  BY DEF Deliver
<1>2. obs \in 1..calls /\ obs \notin delivered[s] /\ obs \in Nat
  BY <1>1 DEF NewsOK
<1>3. /\ delivered'[s] = delivered[s] \cup {obs}
      /\ \A t \in Subscribers \ {s} : delivered'[t] = delivered[t]
      /\ delivered' \in [Subscribers -> SUBSET (1..calls)]
  BY <1>1, <1>2 DEF NewsOK
<1>4. \A t \in Subscribers : Told(t)' = Told(t)
  BY <1>1, <1>2, <1>3 DEF Told
<1>5. \A t \in Subscribers : \A o \in delivered'[t] : <<t, o>> \notin tasks'
  BY <1>1, <1>3 DEF NewsOK
<1> QED
  BY <1>1, <1>2, <1>3, <1>4, <1>5 DEF NewsOK

\* What a sequence with an element more has.
LEMMA AppendToSet ==
    ASSUME NEW s \in Seq(Nat), NEW x \in Nat
    PROVE  ToSet(Append(s, x)) = ToSet(s) \cup {x}
<1> PICK t : t = Append(s, x)
  OBVIOUS
<1> PICK n \in Nat : n = Len(s)
  OBVIOUS
<1>1. /\ DOMAIN t = 1..(n + 1) /\ DOMAIN s = 1..n
      /\ t[n + 1] = x /\ \A i \in 1..n : t[i] = s[i]
  OBVIOUS
<1>2. ToSet(t) \subseteq ToSet(s) \cup {x}
  BY <1>1 DEF ToSet
<1>3. ToSet(s) \subseteq ToSet(t)
  BY <1>1 DEF ToSet
<1>4. x \in ToSet(t)
  BY <1>1 DEF ToSet
<1> QED
  BY <1>2, <1>3, <1>4

\* The miner adds an observation to its pattern's evidence, and moves the evidence
\* to a proposal when there is enough.
LEMMA MinerLearns ==
    ASSUME MinerInv, ProposalsOK, UNCHANGED work, NEW obs \in Nat, "miner" \in Subscribers,
           obs \notin delivered["miner"], delivered'["miner"] = delivered["miner"] \cup {obs},
           Mine(obs)
    PROVE  /\ MinerInv'
           /\ proposals' = proposals \/ (\E rule, key, seen, a, b :
                /\ proposals' = Append(proposals, rule)
                /\ rule = [id |-> <<a, b>>, key |-> key, evidence |-> seen, state |-> "Proposed"])
<1>1. CASE ~Minable(obs)
  <2>1. UNCHANGED <<evidence, proposals>>
    BY <1>1 DEF Mine
  <2> QED
    BY <2>1, MinerStays
<1>2. CASE Minable(obs)
  <2> PICK key : key = PatternKey(obs)
    OBVIOUS
  <2> PICK old : old = IF key \in DOMAIN evidence THEN evidence[key] ELSE <<>>
    OBVIOUS
  <2> PICK seen : seen = Append(old, obs)
    OBVIOUS
  <2>g. PICK grown : grown = [k \in DOMAIN evidence \cup {key} |-> IF k # key THEN evidence[k] ELSE seen]
    OBVIOUS
  <2>r. PICK rule : rule = [id |-> <<Len(seen), Cardinality(Sessions(seen))>>, key |-> key,
                          evidence |-> seen, state |-> "Proposed"]
    OBVIOUS
  <2>1. \A s, k : (Fits(s, k) => Fits(s, k)') /\ Sessions(s)' = Sessions(s)
    BY FitsStays
  <2>2. Fits(old, key) /\ old \in Seq(Nat)
    BY DEF MinerInv, Fits, ToSet
  <2>3. /\ seen \in Seq(Nat) /\ DOMAIN seen = 1..(Len(old) + 1) /\ DOMAIN old = 1..Len(old)
        /\ \A i \in 1..Len(old) : seen[i] = old[i] /\ old[i] # obs
        /\ seen[Len(old) + 1] = obs
        /\ ToSet(seen) = ToSet(old) \cup {obs}
    <3>1. /\ seen \in Seq(Nat) /\ DOMAIN seen = 1..(Len(old) + 1) /\ DOMAIN old = 1..Len(old)
          /\ \A i \in 1..Len(old) : seen[i] = old[i]
          /\ seen[Len(old) + 1] = obs /\ Len(old) \in Nat
      BY <2>2
    <3>2. \A i \in 1..Len(old) : old[i] # obs
      BY <2>2, <3>1 DEF Fits, ToSet
    <3>3. ToSet(seen) = ToSet(old) \cup {obs}
      BY <2>2, AppendToSet
    <3> QED
      BY <3>1, <3>2, <3>3
  <2>4. Fits(seen, key)'
    <3>1. \A i, j \in DOMAIN seen : seen[i] = seen[j] => i = j
      BY <2>2, <2>3 DEF Fits
    <3>2. ASSUME NEW o \in ToSet(seen)
          PROVE  (o \in delivered["miner"] /\ Minable(o) /\ PatternKey(o) = key)'
      BY <1>2, <2>2, <2>3 DEF Fits, Minable, PatternKey, Seen
    <3> QED
      BY <2>3, <3>1, <3>2 DEF Fits
  <2>5. ASSUME NEW p \in DOMAIN proposals
        PROVE  Apart(proposals[p].evidence, seen)
    <3>1. Apart(proposals[p].evidence, old)
      <4>1. CASE key \in DOMAIN evidence
        BY <4>1 DEF MinerInv
      <4>2. CASE key \notin DOMAIN evidence
        BY <4>2 DEF Apart, ToSet
      <4> QED
        BY <4>1, <4>2
    <3>2. obs \notin ToSet(proposals[p].evidence)
      BY DEF MinerInv, Fits
    <3> QED
      BY <2>3, <3>1, <3>2 DEF Apart
  <2>6. /\ DOMAIN grown = DOMAIN evidence \cup {key}
        /\ grown[key] = seen /\ \A k \in DOMAIN evidence \ {key} : grown[k] = evidence[k]
    BY <2>g
  <2>7. grown = Upsert(evidence, key, <<>>, LAMBDA x : Append(x, obs))
    BY <2>g DEF Upsert
  <2>8. \/ proposals' = proposals /\ evidence' = grown
        \/ /\ Len(seen) >= Threshold /\ Cardinality(Sessions(seen)) >= MinSessions
           /\ proposals' = Append(proposals, rule) /\ evidence' = [grown EXCEPT ![key] = <<>>]
    BY <1>2, <2>6, <2>7, <2>r DEF Mine
  <2>9. CASE proposals' = proposals /\ evidence' = grown
    <3>1. \A k \in DOMAIN grown : Fits(grown[k], k)'
      BY <2>1, <2>4, <2>6 DEF MinerInv
    <3>2. \A p \in DOMAIN proposals, k \in DOMAIN grown : Apart(proposals[p].evidence, grown[k])
      BY <2>5, <2>6 DEF MinerInv
    <3>3. MinerInv'
      BY <2>1, <2>9, <3>1, <3>2 DEF MinerInv, Apart
    <3> QED
      BY <2>9, <3>3
  <2>10. CASE /\ Len(seen) >= Threshold /\ Cardinality(Sessions(seen)) >= MinSessions
              /\ proposals' = Append(proposals, rule) /\ evidence' = [grown EXCEPT ![key] = <<>>]
    <3>1. PICK S : proposals \in Seq(S)
      BY DEF ProposalsOK
    <3> PICK new : new = proposals'
      OBVIOUS
    <3> PICK left : left = evidence'
      OBVIOUS
    <3> PICK last : last = Len(proposals) + 1
      OBVIOUS
    <3>2. /\ DOMAIN new = DOMAIN proposals \cup {last} /\ last \notin DOMAIN proposals
          /\ \A p \in DOMAIN proposals : new[p] = proposals[p]
          /\ new[last] = rule
      BY <2>10, <3>1
    <3>3. rule.evidence = seen /\ rule.key = key
      BY <2>r
    <3>4. /\ DOMAIN left = DOMAIN evidence \cup {key}
          /\ left[key] = <<>> /\ \A k \in DOMAIN evidence \ {key} : left[k] = evidence[k]
      BY <2>6, <2>10
    <3>5. Fits(<<>>, key)' /\ \A s : Apart(s, <<>>)
      BY DEF Fits, Apart, ToSet
    <3>6. \A k \in DOMAIN left : Fits(left[k], k)'
      BY <2>1, <3>4, <3>5 DEF MinerInv
    <3>7. ASSUME NEW k \in DOMAIN evidence \ {key}
          PROVE  Apart(seen, evidence[k])
      <4>1. \A o \in ToSet(evidence[k]) : o \in delivered["miner"] /\ PatternKey(o) = k
        BY DEF MinerInv, Fits
      <4>2. \A o \in ToSet(old) : PatternKey(o) = key
        BY <2>2 DEF Fits
      <4> QED
        BY <2>3, <4>1, <4>2 DEF Apart
    <3>8. ASSUME NEW p \in DOMAIN proposals
          PROVE  Apart(seen, proposals[p].evidence) /\ Apart(proposals[p].evidence, seen)
      BY <2>5 DEF Apart
    <3>9. ASSUME NEW p \in DOMAIN new
          PROVE  /\ Fits(new[p].evidence, new[p].key)'
                 /\ Len(new[p].evidence) >= Threshold
                 /\ Cardinality(Sessions(new[p].evidence)') >= MinSessions
      <4>1. CASE p = last
        BY <2>1, <2>4, <2>10, <3>2, <3>3, <4>1
      <4>2. CASE p # last
        <5>1. /\ p \in DOMAIN proposals /\ new[p] = proposals[p]
              /\ Fits(proposals[p].evidence, proposals[p].key)
              /\ Len(proposals[p].evidence) >= Threshold
              /\ Cardinality(Sessions(proposals[p].evidence)) >= MinSessions
          BY <3>2, <4>2 DEF MinerInv
        <5> QED
          BY <2>1, <5>1
      <4> QED
        BY <4>1, <4>2
    <3>10. ASSUME NEW p \in DOMAIN new, NEW q \in DOMAIN new \ {p}
           PROVE  Apart(new[p].evidence, new[q].evidence)
      <4>1. CASE p = last
        BY <3>2, <3>3, <3>8, <4>1
      <4>2. CASE q = last
        BY <3>2, <3>3, <3>8, <4>2
      <4>3. CASE p # last /\ q # last
        <5>1. Apart(proposals[p].evidence, proposals[q].evidence)
          BY <3>2, <4>3 DEF MinerInv
        <5> QED
          BY <3>2, <4>3, <5>1
      <4> QED
        BY <4>1, <4>2, <4>3
    <3>11. ASSUME NEW p \in DOMAIN new, NEW k \in DOMAIN left
           PROVE  Apart(new[p].evidence, left[k])
      <4>1. CASE k = key
        BY <3>4, <3>5, <4>1
      <4>2. CASE k # key /\ p = last
        <5>1. k \in DOMAIN evidence \ {key} /\ left[k] = evidence[k] /\ new[p].evidence = seen
          BY <3>2, <3>3, <3>4, <4>2
        <5> QED
          BY <3>7, <5>1
      <4>3. CASE k # key /\ p # last
        <5>1. Apart(proposals[p].evidence, evidence[k])
          BY <3>2, <3>4, <4>3 DEF MinerInv
        <5> QED
          BY <3>2, <3>4, <4>3, <5>1
      <4> QED
        BY <4>1, <4>2, <4>3
    <3>12. MinerInv'
      BY <3>6, <3>9, <3>10, <3>11 DEF MinerInv, Apart
    <3>13. proposals' = Append(proposals, rule)
      BY <2>10
    <3>14. \E k, s, a, b : rule = [id |-> <<a, b>>, key |-> k, evidence |-> s, state |-> "Proposed"]
      BY <2>r, Zenon
    <3> QED
      BY <3>12, <3>13, <3>14
  <2> QED
    BY <2>8, <2>9, <2>10
<1> QED
  BY <1>1, <1>2

\* The observations a subscriber counted are finitely many, and a new one with an
\* outcome makes them one more.
LEMMA CountedGrows ==
    ASSUME NEW S, NEW n \in Nat, S \subseteq 1..n, NEW obs, obs \notin S
    PROVE  Cardinality(S \cup {obs}) = Cardinality(S) + 1 /\ Cardinality(S) \in Nat
<1>1. IsFiniteSet(1..n)
  BY FS_Interval
<1>2. IsFiniteSet(S)
  BY <1>1, FS_Subset
<1> QED
  BY <1>2, FS_AddElement, FS_CardinalityType

LEMMA EscalationLearns ==
    ASSUME EscalationInv, NewsOK, UNCHANGED work, NEW obs, "escalation" \in Subscribers,
           obs \notin delivered["escalation"],
           delivered'["escalation"] = delivered["escalation"] \cup {obs},
           TuneEscalation(obs)
    PROVE  EscalationInv'
<1> PICK old : old = Counted("escalation")
  OBVIOUS
<1>1. old \subseteq 1..calls /\ calls \in Nat /\ obs \notin old
  BY DEF NewsOK, Counted
<1>2. CASE Seen(obs).status = "none"
  <2>1. Counted("escalation")' = old /\ escalation' = escalation
    BY <1>2 DEF Counted, Seen, TuneEscalation
  <2> QED
    BY <2>1 DEF EscalationInv
<1>3. CASE Seen(obs).status # "none"
  <2>1. Counted("escalation")' = old \cup {obs} /\ escalation'.total = escalation.total + 1
    BY <1>3 DEF Counted, Seen, TuneEscalation
  <2>2. Cardinality(old \cup {obs}) = Cardinality(old) + 1
    BY <1>1, CountedGrows
  <2> QED
    BY <2>1, <2>2 DEF EscalationInv
<1> QED
  BY <1>2, <1>3

LEMMA RouterLearns ==
    ASSUME RouterInv, NewsOK, UNCHANGED work, NEW obs, "router" \in Subscribers,
           obs \notin delivered["router"], delivered'["router"] = delivered["router"] \cup {obs},
           TuneRouter(obs)
    PROVE  RouterInv'
<1>1. /\ \A key : CountedIn(key) \subseteq 1..calls /\ obs \notin CountedIn(key)
      /\ calls \in Nat
  BY DEF NewsOK, Counted, CountedIn
<1>2. CASE Seen(obs).status = "none"
  <2>1. Counted("router")' = Counted("router") /\ buckets' = buckets
    BY <1>2 DEF Counted, Seen, TuneRouter
  <2>2. \A key : CountedIn(key)' = CountedIn(key)
    BY <2>1 DEF CountedIn, Seen
  <2> QED
    BY <2>1, <2>2 DEF RouterInv, Seen
<1>3. CASE Seen(obs).status # "none"
  <2> PICK mine : mine = <<Seen(obs).agent, Seen(obs).outcome>>
    OBVIOUS
  <2>1. Counted("router")' = Counted("router") \cup {obs}
    BY <1>3 DEF Counted, Seen
  <2>2. CountedIn(mine)' = CountedIn(mine) \cup {obs}
    BY <2>1 DEF CountedIn, Seen
  <2>3. \A key : key # mine => CountedIn(key)' = CountedIn(key)
    BY <2>1 DEF CountedIn, Seen
  <2>4. /\ DOMAIN buckets' = DOMAIN buckets \cup {mine}
        /\ \A key \in DOMAIN buckets \ {mine} : buckets'[key] = buckets[key]
        /\ buckets'[mine].count = (IF mine \in DOMAIN buckets THEN buckets[mine].count ELSE 0) + 1
    BY <1>3 DEF TuneRouter, Upsert
  <2>5. mine \notin DOMAIN buckets => Cardinality(CountedIn(mine)) = 0
    <3>1. mine \notin DOMAIN buckets => CountedIn(mine) = {}
      BY DEF RouterInv, CountedIn
    <3> QED
      BY <3>1, FS_EmptySet
  <2>6. Cardinality(CountedIn(mine) \cup {obs}) = Cardinality(CountedIn(mine)) + 1
    BY <1>1, CountedGrows
  <2>7. buckets'[mine].count = Cardinality(CountedIn(mine)')
    BY <2>2, <2>4, <2>5, <2>6 DEF RouterInv
  <2>8. \A key \in DOMAIN buckets' : buckets'[key].count = Cardinality(CountedIn(key)')
    BY <2>3, <2>4, <2>7 DEF RouterInv
  <2>9. \A o \in Counted("router")' : <<Seen(o).agent, Seen(o).outcome>>' \in DOMAIN buckets'
    BY <2>1, <2>4 DEF RouterInv, Seen
  <2> QED
    BY <2>8, <2>9 DEF RouterInv
<1> QED
  BY <1>2, <1>3

\* A task runs its subscriber.
LEMMA LearnersLearn ==
    ASSUME LearnersInv, RulesInv, NEW s \in Subscribers, NEW obs, Learn(s, obs)
    PROVE  LearnersInv' /\ RulesInv'
<1>1. /\ Deliver(s, obs) /\ UNCHANGED <<work, subscribers, planner>>
      /\ s \in {"miner", "scorer", "router", "escalation"}
      /\ NewsOK /\ MinerInv /\ RouterInv /\ EscalationInv
  BY LearningAssumption DEF Learn, LearnersInv
<1>2. /\ NewsOK' /\ obs \in 1..calls /\ obs \notin delivered[s]
      /\ delivered'[s] = delivered[s] \cup {obs}
      /\ \A t \in Subscribers \ {s} : delivered'[t] = delivered[t]
  BY <1>1, NewsDeliver
<1>3. obs \in Nat
  BY <1>1, <1>2 DEF NewsOK
<1>4. CASE s = "miner"
  <2>1. Mine(obs) /\ UNCHANGED <<buckets, escalation>>
    BY <1>4 DEF Learn
  <2>2. RouterInv' /\ EscalationInv'
    BY <1>1, <1>2, <1>4, <2>1, RouterStays, EscalationStays
  <2>3. ProposalsOK
    BY DEF RulesInv
  <2>4. /\ MinerInv'
        /\ proposals' = proposals \/ (\E rule, key, seen, a, b :
             /\ proposals' = Append(proposals, rule)
             /\ rule = [id |-> <<a, b>>, key |-> key, evidence |-> seen, state |-> "Proposed"])
    BY <1>1, <1>2, <1>3, <1>4, <2>1, <2>3, MinerLearns
  <2>5. RulesInv'
    BY <1>1, <2>4, RulesInvProposed DEF planner
  <2> QED
    BY <1>2, <2>2, <2>4, <2>5 DEF LearnersInv
<1>5. CASE s # "miner"
  <2>1. UNCHANGED <<evidence, proposals>>
    BY <1>1, <1>5 DEF Learn
  <2>2. MinerInv'
    BY <1>1, <1>2, <1>5, <2>1, MinerStays
  <2>3. RulesInv'
    BY <1>1, <2>1, RulesInvProposed DEF planner
  <2>4. RouterInv'
    <3>1. CASE s = "router"
      <4>1. TuneRouter(obs)
        BY <3>1 DEF Learn
      <4> QED
        BY <1>1, <1>2, <3>1, <4>1, RouterLearns
    <3>2. CASE s # "router"
      <4>1. UNCHANGED buckets
        BY <1>1, <1>5, <3>2 DEF Learn
      <4> QED
        BY <1>1, <1>2, <3>2, <4>1, RouterStays
    <3> QED
      BY <3>1, <3>2
  <2>5. EscalationInv'
    <3>1. CASE s = "escalation"
      <4>1. TuneEscalation(obs)
        BY <3>1 DEF Learn
      <4> QED
        BY <1>1, <1>2, <3>1, <4>1, EscalationLearns
    <3>2. CASE s # "escalation"
      <4>1. UNCHANGED escalation
        BY <1>1, <1>5, <3>2 DEF Learn
      <4> QED
        BY <1>1, <1>2, <3>2, <4>1, EscalationStays
    <3> QED
      BY <3>1, <3>2
  <2> QED
    BY <1>2, <2>2, <2>3, <2>4, <2>5 DEF LearnersInv
<1> QED
  BY <1>4, <1>5

\* A verdict changes the state of a proposal and not what it rests on.
LEMMA LearnersReview ==
    ASSUME LearnersInv, RulesInv, NEW p \in DOMAIN proposals, NEW verdict, Review(p, verdict)
    PROVE  LearnersInv'
<1>1. /\ proposals' = [proposals EXCEPT ![p].state = verdict]
      /\ UNCHANGED <<work, evidence, buckets, escalation>> /\ UNCHANGED recorder
      /\ NewsOK /\ MinerInv /\ RouterInv /\ EscalationInv
  BY DEF Review, LearnersInv
<1>2. UNCHANGED <<delivered, subscribers, tasks, calls>>
  BY <1>1 DEF recorder
<1> PICK new : new = proposals'
  OBVIOUS
<1>3. /\ DOMAIN new = DOMAIN proposals
      /\ \A q \in DOMAIN proposals : /\ new[q].evidence = proposals[q].evidence
                                     /\ new[q].key = proposals[q].key
  BY <1>1 DEF RulesInv, ProposalsOK
<1>4. \A seen, key : (Fits(seen, key) => Fits(seen, key)') /\ Sessions(seen)' = Sessions(seen)
  BY <1>1, <1>2, FitsStays
<1>5. MinerInv'
  <2>1. \A k \in DOMAIN evidence : Fits(evidence[k], k)'
    BY <1>1, <1>4 DEF MinerInv
  <2>2. \A q \in DOMAIN new : /\ Fits(new[q].evidence, new[q].key)'
                              /\ Len(new[q].evidence) >= Threshold
                              /\ Cardinality(Sessions(new[q].evidence)') >= MinSessions
    BY <1>1, <1>3, <1>4 DEF MinerInv
  <2>3. \A q \in DOMAIN new : /\ \A o \in DOMAIN new \ {q} : Apart(new[q].evidence, new[o].evidence)
                              /\ \A k \in DOMAIN evidence : Apart(new[q].evidence, evidence[k])
    <3> SUFFICES ASSUME NEW q \in DOMAIN new
                 PROVE  /\ \A o \in DOMAIN new \ {q} : Apart(new[q].evidence, new[o].evidence)
                        /\ \A k \in DOMAIN evidence : Apart(new[q].evidence, evidence[k])
      OBVIOUS
    <3>1. /\ \A o \in DOMAIN proposals \ {q} : Apart(proposals[q].evidence, proposals[o].evidence)
          /\ \A k \in DOMAIN evidence : Apart(proposals[q].evidence, evidence[k])
      BY <1>1, <1>3 DEF MinerInv
    <3> QED
      BY <1>3, <3>1
  <2>4. \A s, o : Apart(s, o)' <=> Apart(s, o)
    BY DEF Apart
  <2> QED
    BY <1>1, <2>1, <2>2, <2>3, <2>4 DEF MinerInv
<1>6. NewsOK' /\ RouterInv' /\ EscalationInv'
  BY <1>1, <1>2, NewsStays, RouterStays, EscalationStays
<1> QED
  BY <1>5, <1>6 DEF LearnersInv

-----------------------------------------------------------------------------
(* The theorems *)

LearningInv == work \in Workloads /\ StoreInv /\ RulesInv /\ LearnersInv

LEMMA LearningInit == Init => LearningInv
<1> SUFFICES ASSUME Init
             PROVE  LearningInv
  OBVIOUS
<1>1. StoreInv
  <2>1. Absent \in Documents /\ Absent.steps = <<>> /\ <<>> \in Seq(Nat)
    BY DEF Absent, Documents
  <2>2. IsPrefixOf(<<>>, <<>>)
    BY <2>1, PrefixFacts
  <2>3. RecorderTypeOK
    BY <2>1 DEF Init, RecorderInit, RecorderTypeOK
  <2>4. NothingBeforeOpen /\ OpensEmpty /\ SettledIsAlone
    BY <2>1 DEF Init, RecorderInit, NothingBeforeOpen, OpensEmpty, SettledIsAlone
  <2>5. LagBehind
    BY <2>1, <2>2 DEF Init, RecorderInit, LagBehind
  <2> QED
    BY <2>3, <2>4, <2>5 DEF StoreInv
<1>2. RulesInv
  <2>1. <<>> \in Seq({}) /\ DOMAIN <<>> = {}
    OBVIOUS
  <2> QED
    BY <2>1 DEF Init, RulesInv, ProposalsOK, RulesOK
<1>3. NewsOK
  BY DEF Init, RecorderInit, NewsOK, Told
<1>4. MinerInv /\ RouterInv /\ EscalationInv
  <2>1. DOMAIN <<>> = {}
    OBVIOUS
  <2>2. \A s \in Subscribers : Counted(s) = {}
    BY DEF Init, RecorderInit, Counted
  <2> QED
    BY <2>1, <2>2, FS_EmptySet DEF Init, MinerInv, RouterInv, EscalationInv
<1> QED
  BY <1>1, <1>2, <1>3, <1>4 DEF LearningInv, LearnersInv, Init

\* A call of the recorder, or a step of one under way.
LEMMA LearningRecording ==
    ASSUME LearningInv, NEW c \in Callers,
           \/ Recording(Open(c))
           \/ Recording(RecordStep(c, Trace(calls + 1) = OwnTrace))
           \/ Recording(Close(c))
           \/ Recording(Proceed(c))
    PROVE  LearningInv'
<1>1. /\ UNCHANGED <<work, subscribers>> /\ UNCHANGED learners /\ UNCHANGED planner
      /\ work \in Workloads /\ StoreInv /\ RulesInv /\ NewsOK
      /\ MinerInv /\ RouterInv /\ EscalationInv
  BY DEF Recording, LearningInv, LearnersInv
<1>2. StoreInv'
  BY <1>1, StoreInvOpen, StoreInvRecordStep, StoreInvClose, StoreInvProceed DEF Recording
<1>3. RulesInv'
  BY <1>1, RulesInvProposed DEF learners, planner
<1>4. delivered' = delivered
  BY DEF Recording, Open, RecordStep, Close, Proceed, Put, PutFails, Insert
<1>5. MinerInv' /\ RouterInv' /\ EscalationInv'
  BY <1>1, <1>4, LearnersStay
<1>6. NewsOK'
  <2>1. CASE Recording(RecordStep(c, Trace(calls + 1) = OwnTrace))
    <3>1. calls' = calls + 1 /\ Notify(calls')
      BY <2>1 DEF Recording, RecordStep, Call
    <3> QED
      BY <1>1, <1>4, <3>1, NewsNotify
  <2>2. CASE Recording(Open(c)) \/ Recording(Close(c)) \/ Recording(Proceed(c))
    <3>1. tasks' = tasks /\ calls' \in {calls, calls + 1}
      BY <2>2 DEF Recording, Open, Close, Call, Proceed, Put, PutFails, Insert
    <3> QED
      BY <1>1, <1>4, <3>1, NewsStays
  <2> QED
    BY <2>1, <2>2
<1> QED
  BY <1>1, <1>2, <1>3, <1>5, <1>6 DEF LearningInv, LearnersInv

\* The steps that leave the recorder and the learners alone.
LEMMA LearningStays ==
    ASSUME LearningInv, UNCHANGED <<work, recorder, learners>>, RulesInv'
    PROVE  LearningInv'
<1>1. /\ UNCHANGED <<cache, stored, caller, opens, settled>> /\ calls' = calls
      /\ UNCHANGED <<subscribers, tasks, delivered>>
  BY DEF recorder
<1>2. StoreInv'
  BY <1>1, StoreInvUnchanged DEF LearningInv, StoreInv, RecorderTypeOK
<1>3. LearnersInv'
  BY <1>1, NewsStays, LearnersStay DEF LearningInv, LearnersInv
<1> QED
  BY <1>2, <1>3 DEF LearningInv

LEMMA LearningStep == LearningInv /\ [Next]_vars => LearningInv'
<1> SUFFICES ASSUME LearningInv, [Next]_vars
             PROVE  LearningInv'
  OBVIOUS
<1>1. work \in Workloads /\ StoreInv /\ RulesInv /\ LearnersInv
  BY DEF LearningInv
<1>2. ASSUME NEW c \in work.callers,
             \/ Recording(Open(c))
             \/ Recording(RecordStep(c, Trace(calls + 1) = OwnTrace))
             \/ Recording(Close(c))
             \/ Recording(Proceed(c))
      PROVE  LearningInv'
  <2>1. c \in Callers
    BY <1>1, LearningAssumption
  <2> QED
    BY <1>2, <2>1, LearningRecording
<1>3. ASSUME NEW s \in Subscribers, NEW obs \in Observations, Learn(s, obs)
      PROVE  LearningInv'
  <2>1. LearnersInv' /\ RulesInv'
    BY <1>1, <1>3, LearnersLearn
  <2>2. UNCHANGED <<cache, stored, caller, opens, settled>> /\ calls' = calls /\ work' = work
    BY <1>3 DEF Learn, Deliver
  <2>3. StoreInv'
    BY <1>1, <2>2, StoreInvUnchanged DEF StoreInv, RecorderTypeOK
  <2> QED
    BY <1>1, <2>1, <2>2, <2>3 DEF LearningInv
<1>4. ASSUME NEW p \in DOMAIN proposals, Install(p)
      PROVE  LearningInv'
  BY <1>1, <1>4, RulesInvInstall, LearningStays DEF Install
<1>5. ASSUME NEW p \in DOMAIN proposals, Disable(proposals[p].id) \/ Enable(proposals[p].id)
      PROVE  LearningInv'
  <2>1. RulesInv'
    <3>1. CASE Disable(proposals[p].id)
      BY <1>1, <3>1, RulesInvSwitch DEF Disable, learners
    <3>2. CASE Enable(proposals[p].id)
      BY <1>1, <3>2, RulesInvSwitch DEF Enable, learners
    <3> QED
      BY <1>5, <3>1, <3>2
  <2> QED
    BY <1>5, <2>1, LearningStays DEF Disable, Enable
<1>6. ASSUME NEW p \in DOMAIN proposals, NEW v, Review(p, v)
      PROVE  LearningInv'
  <2>1. RulesInv' /\ LearnersInv'
    BY <1>1, <1>6, RulesInvReview, LearnersReview
  <2>2. UNCHANGED <<cache, stored, caller, opens, settled>> /\ calls' = calls /\ work' = work
    BY <1>6 DEF Review, recorder
  <2>3. StoreInv'
    BY <1>1, <2>2, StoreInvUnchanged DEF StoreInv, RecorderTypeOK
  <2> QED
    BY <1>1, <2>1, <2>2, <2>3 DEF LearningInv
<1>7. ASSUME NEW rule, Author(rule) \/ AddLocal(rule)
      PROVE  LearningInv'
  <2>1. RulesInv'
    BY <1>1, <1>7, RulesInvAuthor, RulesInvLocal
  <2> QED
    BY <1>7, <2>1, LearningStays DEF Author, AddLocal
<1>8. CASE Health
  <2>1. RulesInv'
    BY <1>1, <1>8, RulesInvProposed DEF Health, learners
  <2> QED
    BY <1>8, <2>1, LearningStays DEF Health
<1>9. CASE UNCHANGED vars
  <2>1. RulesInv'
    BY <1>1, <1>9, RulesInvProposed DEF vars, learners, planner
  <2> QED
    BY <1>9, <2>1, LearningStays DEF vars
<1> QED
  BY <1>2, <1>3, <1>4, <1>5, <1>6, <1>7, <1>8, <1>9 DEF Next

LEMMA LearningInvariant == Spec => []LearningInv
BY LearningInit, LearningStep, PTL DEF Spec

\* Whatever the interleaving of the calls, the puts that overtake each other and the
\* ones that fail: a trace that was opened once at most has in the store a prefix
\* of what the recorder has, and a call that ran alone leaves the two equal.
THEOREM StoreFollows == Spec => []StoreFollowsTrace
<1>1. LearningInv => StoreFollowsTrace
  BY DEF LearningInv, StoreInv, LagBehind, SettledIsAlone, StoreFollowsTrace
<1> QED
  BY <1>1, LearningInvariant, PTL

\* In whatever order the tasks run: a proposal rests on enough distinct successful
\* agent steps of its pattern, none of them in another proposal, and the tuners
\* count every observation with an outcome once.
THEOREM EvidenceOnce == Spec => []EvidenceCountsOnce
<1>1. LearningInv => EvidenceCountsOnce
  <2> SUFFICES ASSUME LearningInv
               PROVE  EvidenceCountsOnce
    OBVIOUS
  <2>1. NewsOK /\ MinerInv /\ RouterInv /\ EscalationInv
    BY DEF LearningInv, LearnersInv
  <2>2. ASSUME NEW p \in DOMAIN proposals
        PROVE  /\ Cardinality(ToSet(proposals[p].evidence)) >= Threshold
               /\ Cardinality({Trace(obs) : obs \in ToSet(proposals[p].evidence)}) >= MinSessions
               /\ \A obs \in ToSet(proposals[p].evidence) :
                    Minable(obs) /\ PatternKey(obs) = proposals[p].key
               /\ \A q \in DOMAIN proposals \ {p} :
                    ToSet(proposals[p].evidence) \intersect ToSet(proposals[q].evidence) = {}
    <3>1. /\ Fits(proposals[p].evidence, proposals[p].key)
          /\ Len(proposals[p].evidence) >= Threshold
          /\ Cardinality(Sessions(proposals[p].evidence)) >= MinSessions
          /\ \A q \in DOMAIN proposals \ {p} : Apart(proposals[p].evidence, proposals[q].evidence)
      BY <2>1 DEF MinerInv
    <3>2. Cardinality(ToSet(proposals[p].evidence)) = Len(proposals[p].evidence)
      BY <3>1, DistinctCount DEF Fits
    <3> QED
      BY <3>1, <3>2 DEF Fits, Sessions, Apart
  <2>3. ASSUME {"router", "escalation"} \subseteq subscribers
        PROVE  /\ escalation.total = Cardinality(Counted("escalation"))
               /\ \A key \in DOMAIN buckets : buckets[key].count = Cardinality(CountedIn(key))
               /\ \A obs \in Counted("router") : <<Seen(obs).agent, Seen(obs).outcome>> \in DOMAIN buckets
               /\ tasks = {} => Counted("router") = Counted("escalation")
    <3>1. {"router", "escalation"} \subseteq Subscribers /\ Told("router") = Told("escalation")
      BY <2>1, <2>3 DEF NewsOK
    <3>2. tasks = {} => Counted("router") = Counted("escalation")
      BY <3>1 DEF Told, Counted
    <3> QED
      BY <2>1, <3>1, <3>2 DEF RouterInv, EscalationInv
  <2> QED
    BY <2>2, <2>3 DEF EvidenceCountsOnce
<1> QED
  BY <1>1, LearningInvariant, PTL

\* Of the rules of a list that are on and match, one decides.
LEMMA DecidingMatches ==
    ASSUME NEW S, NEW list \in Seq(S), NEW r
    PROVE  LET i == Deciding(list, r)
           IN  /\ i # 0 => i \in DOMAIN list /\ list[i].enabled /\ Matches(list[i].rule, r)
               /\ (\E j \in DOMAIN list : list[j].enabled /\ Matches(list[j].rule, r)) => i # 0
<1> PICK hits : hits = {i \in DOMAIN list : list[i].enabled /\ Matches(list[i].rule, r)}
  OBVIOUS
<1>1. hits \subseteq Nat /\ 0 \notin hits
  OBVIOUS
<1>2. hits # {} => Min(hits) \in hits
  BY <1>1, MinIsLeast
<1>3. Deciding(list, r) = IF hits = {} THEN 0 ELSE Min(hits)
  BY DEF Deciding
<1> QED
  BY <1>1, <1>2, <1>3

\* An id that disable_learned was the last to name decides no request; with all ids
\* off FastPathRuleSet::evaluate is what the rules written by hand make it; and the
\* planner sends to no agent what a sidecar with its rules takes for a fast path.
THEOREM LearnedReverses == Spec => []LearnedIsReversible
<1>1. LearningInv => LearnedIsReversible
  <2> SUFFICES ASSUME LearningInv, NEW r \in Requests, NEW i, i = Deciding(rules, r)
               PROVE  /\ i # 0 => rules[i].id \notin off
                      /\ (\A k \in DOMAIN rules : rules[k].id \in off \union {NoId}) =>
                           i = IF Written(r) = {} THEN 0 ELSE Min(Written(r))
                      /\ Mirrored /\ Handle(healthy, local, r) = "FastPath" => Pattern(rules, r, 1) = "FastPath"
    BY DEF LearnedIsReversible
  <2>1. RulesOK /\ \E S : local \in Seq(S)
    BY DEF LearningInv, RulesInv
  <2>2. PICK S : rules \in Seq(S)
    BY <2>1 DEF RulesOK
  <2>3. ASSUME i # 0 PROVE rules[i].id \notin off
    <3>1. i \in DOMAIN rules /\ rules[i].enabled
      BY <2>2, <2>3, DecidingMatches
    <3> QED
      BY <2>1, <3>1 DEF RulesOK, EntryOK
  <2>4. ASSUME \A k \in DOMAIN rules : rules[k].id \in off \union {NoId}
        PROVE  i = IF Written(r) = {} THEN 0 ELSE Min(Written(r))
    <3>1. \A k \in DOMAIN rules : rules[k].enabled <=> rules[k].id = NoId
      BY <2>1, <2>4 DEF RulesOK, EntryOK
    <3>2. {k \in DOMAIN rules : rules[k].enabled /\ Matches(rules[k].rule, r)} = Written(r)
      BY <3>1 DEF Written
    <3> QED
      BY <3>2 DEF Deciding
  <2>5. ASSUME Mirrored, Handle(healthy, local, r) = "FastPath"
        PROVE  Pattern(rules, r, 1) = "FastPath"
    <3>1. Evaluate(local, r) # NoMatch
      BY <2>5 DEF Handle
    <3>2. Deciding(local, r) # 0
      BY <3>1 DEF Evaluate
    <3>3. PICK k \in DOMAIN local : Matches(local[k].rule, r)
      BY <2>1, <3>2, DecidingMatches
    <3>4. PICK m \in DOMAIN rules : rules[m].id = NoId /\ rules[m].rule = local[k].rule
      BY <2>5 DEF Mirrored
    <3>5. rules[m].enabled /\ Matches(rules[m].rule, r)
      BY <2>1, <3>3, <3>4 DEF RulesOK, EntryOK
    <3>6. i # 0
      BY <2>2, <3>5, DecidingMatches
    <3>7. Evaluate(rules, r).matched = TRUE
      BY <3>6 DEF Evaluate
    <3>8. Evaluate(rules, r) # NoMatch
      BY <3>7 DEF NoMatch
    <3> QED
      BY <3>8 DEF Pattern
  <2> QED
    BY <2>3, <2>4, <2>5
<1> QED
  BY <1>1, LearningInvariant, PTL
=============================================================================
