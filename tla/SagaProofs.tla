----------------------------- MODULE SagaProofs -----------------------------
(***************************************************************************)
(* Proofs about SagaEngine, for every list of steps and of recovery rules  *)
(* and every pattern of failures: what run() undoes, in which order, and   *)
(* that nothing it completed is lost from its account.                     *)
(***************************************************************************)
EXTENDS SagaEngine, FiniteSetTheorems, TLAPS

Compensating == {"FullCompensation", "PartialCompensation"}

\* The step behind an entry of completed, the entries that the rollback has dealt
\* with, and the steps whose best-effort compensation failed.
StepOf(p) == Find(completed[p])
Dealt == {p \in 1..Len(completed) : p > left}
FailedNumbers == {Steps[i].step : i \in unrepaired}

SagaTypeOK ==
    /\ pc \in {"new", "resolve", "invoke", "compensating", "ended"}
    /\ outcome \in {"None", "Completed", "Failed", "PendingUser", "Error"}
    /\ (pc = "ended") <=> (outcome # "None")
    /\ at \in 1..(Len(Steps) + 1) /\ (pc = "new" => at = 1)
    /\ pc \in {"resolve", "invoke"} \/ outcome = "PendingUser" => at \in Indices
    /\ completed \in Seq(Numbers)
    /\ compensated \in Seq(Numbers) /\ preserved \in Seq(Numbers)
    /\ undone \in Seq(Indices)
    /\ applied \subseteq Indices /\ unrepaired \subseteq Indices
    /\ left \in 0..Len(completed)
    /\ standing \in [Indices -> Int]
    /\ runs \in Nat \ {0}

\* The completed steps are in the order of the definition, before the current one.
CompletedInOrder ==
    /\ \A p, q \in 1..Len(completed) : p < q => StepOf(p) < StepOf(q)
    /\ applied = {StepOf(p) : p \in 1..Len(completed)}
    /\ pc \in {"resolve", "invoke"} => \A p \in 1..Len(completed) : StepOf(p) < at
    /\ pc = "new" => completed = <<>>

\* Before a compensating recovery nothing is undone or listed.
NothingYet ==
    action \notin Compensating =>
        /\ undone = <<>> /\ compensated = <<>> /\ preserved = <<>> /\ unrepaired = {}
        /\ pc # "compensating" /\ outcome # "Error" /\ left = 0

\* From then on, the entries dealt with are exactly those listed.
DealtAreListed ==
    action \in Compensating =>
        /\ pc \in {"compensating", "ended"} /\ outcome \in {"None", "Failed", "Error"}
        /\ pc = "compensating" \/ outcome = "Error" => left > 0
        /\ outcome = "Failed" => left = 0
        /\ Range(compensated) \cup Range(preserved) \cup FailedNumbers
               = {completed[p] : p \in Dealt}
        /\ IsFiniteSet(FailedNumbers)
        /\ Len(compensated) + Len(preserved) + Cardinality(FailedNumbers)
               = Len(completed) - left
        /\ Range(undone) \subseteq {StepOf(p) : p \in Dealt}
        /\ \A j, k \in 1..Len(undone) : j < k => undone[j] > undone[k]
        /\ outcome = "Error" => Steps[StepOf(left)].compensation_type = "Mandatory"

\* The effects that stand, and the steps that were kept.
EffectsStand ==
    \A i \in Indices :
        LET now == IF i \in applied \ Range(undone) THEN 1 ELSE 0
        IN  /\ standing[i] \in now..(runs - 1 + now)
            /\ Steps[i].step \in Range(preserved) => now = 1

SagaInv == SagaTypeOK /\ CompletedInOrder /\ NothingYet /\ DealtAreListed /\ EffectsStand

-----------------------------------------------------------------------------
\* With different numbers, find() returns the step the number is of.
LEMMA FindIsInverse ==
    ASSUME UniqueNumbers
    PROVE  /\ \A i \in Indices : Find(Steps[i].step) = i
           /\ \A n \in Numbers : Find(n) \in Indices /\ Steps[Find(n)].step = n
PROOF
  <1>0. Indices \subseteq Nat
    BY SagaAssumption DEF Indices
  <1>1. ASSUME NEW i \in Indices PROVE Find(Steps[i].step) = i
    <2> DEFINE First(k) == /\ Steps[k].step = Steps[i].step
                           /\ \A j \in Indices : Steps[j].step = Steps[i].step => k <= j
    <2>1. First(i)
      BY <1>0 DEF UniqueNumbers
    <2>2. \A k \in Indices : First(k) => k = i
      BY DEF UniqueNumbers
    <2>3. Find(Steps[i].step) = CHOOSE k \in Indices : First(k)
      BY DEF Find
    <2> HIDE DEF First
    <2> QED
      BY <2>1, <2>2, <2>3
  <1> QED
    BY <1>1 DEF Numbers

LEMMA RangeAppend ==
    ASSUME NEW S, NEW s \in Seq(S), NEW e \in S
    PROVE  Range(Append(s, e)) = Range(s) \cup {e}
PROOF
  <1>1. /\ DOMAIN Append(s, e) = 1..(Len(s) + 1) /\ DOMAIN s = 1..Len(s)
        /\ Append(s, e)[Len(s) + 1] = e
        /\ \A i \in 1..Len(s) : Append(s, e)[i] = s[i]
    OBVIOUS
  <1>2. 1..(Len(s) + 1) = 1..Len(s) \cup {Len(s) + 1}
    OBVIOUS
  <1> QED
    BY <1>1, <1>2 DEF Range

LEMMA RangeEmpty == Range(<<>>) = {}
PROOF BY DEF Range

\* A new saga.
LEMMA SagaInvInit == UniqueNumbers /\ Init => SagaInv
PROOF
  <1> SUFFICES ASSUME UniqueNumbers, Init PROVE SagaInv
    OBVIOUS
  <1>1. SagaTypeOK
    BY SagaAssumption DEF Init, SagaTypeOK, Indices
  <1>2. CompletedInOrder /\ NothingYet /\ DealtAreListed
    BY DEF Init, CompletedInOrder, NothingYet, DealtAreListed, Compensating
  <1>3. EffectsStand
    BY RangeEmpty DEF Init, EffectsStand
  <1> QED
    BY <1>1, <1>2, <1>3 DEF SagaInv

\* run() called again on a saga that waits for the user.
LEMMA RunAgainKeeps ==
    ASSUME UniqueNumbers, SagaInv, RunAgain
    PROVE  SagaInv'
PROOF
  <1>1. SagaTypeOK'
    <2>1. 1 \in Indices /\ 1 \in 1..(Len(Steps) + 1)
      BY SagaAssumption DEF RunAgain, SagaInv, SagaTypeOK, Indices
    <2>2. standing' \in [Indices -> Int] /\ runs' \in Nat \ {0}
      BY DEF RunAgain, SagaInv, SagaTypeOK
    <2>3. <<>> \in Seq(Numbers) /\ <<>> \in Seq(Indices) /\ 0 \in 0..Len(<<>>)
      OBVIOUS
    <2>4. /\ pc' = "resolve" /\ outcome' = "None" /\ at' = 1 /\ left' = 0
          /\ completed' = <<>> /\ compensated' = <<>> /\ preserved' = <<>> /\ undone' = <<>>
          /\ applied' = {} /\ unrepaired' = {}
      BY DEF RunAgain
    <2> QED
      BY <2>1, <2>2, <2>3, <2>4 DEF SagaTypeOK
  <1>2. CompletedInOrder' /\ NothingYet' /\ DealtAreListed'
    BY DEF RunAgain, CompletedInOrder, NothingYet, DealtAreListed, Compensating
  <1>3. EffectsStand'
    <2>0. applied' = {} /\ Range(preserved') = {} /\ standing' = standing /\ runs' - 1 = runs' - 1 + 0
      BY RangeEmpty DEF RunAgain, SagaInv, SagaTypeOK
    <2> SUFFICES ASSUME NEW i \in Indices
                 PROVE  standing[i] \in 0..(runs' - 1 + 0)
      BY <2>0 DEF EffectsStand
    <2>1. standing[i] \in Int /\ runs \in Nat \ {0} /\ runs' = runs + 1
      BY DEF RunAgain, SagaInv, SagaTypeOK
    <2>2. standing[i] \in 0..(runs - 1) \/ standing[i] \in 1..runs
      BY <2>1 DEF SagaInv, EffectsStand
    <2> QED
      BY <2>1, <2>2
  <1> QED
    BY <1>1, <1>2, <1>3 DEF SagaInv

\* A step failed: nothing has been undone yet, and the rollback starts with every
\* entry of completed before it.
LEMMA StepFailedKeeps ==
    ASSUME UniqueNumbers, SagaInv, pc \in {"resolve", "invoke"}, NEW tag, StepFailed(tag),
           UNCHANGED <<completed, history>>
    PROVE  SagaInv'
PROOF
  <1> USE DEF history
  <1>1. /\ at \in Indices /\ outcome = "None" /\ left = 0 /\ action \notin Compensating
        /\ undone = <<>> /\ compensated = <<>> /\ preserved = <<>> /\ unrepaired = {}
    BY DEF SagaInv, SagaTypeOK, DealtAreListed, NothingYet
  <1>2. UNCHANGED <<compensated, preserved>>
    BY DEF StepFailed, recovery
  <1>3. Len(completed) \in Nat /\ completed \in Seq(Numbers) /\ Len(Steps) \in Nat /\ at \in Nat
    BY <1>1, SagaAssumption DEF SagaInv, SagaTypeOK, Indices
  <1>4. EffectsStand'
    BY <1>2 DEF SagaInv, EffectsStand
  \* Where the failure may lead.
  <1> DEFINE
        Gives == /\ pc' = "ended" /\ outcome' = "Failed" /\ at' = at
                 /\ action' \notin Compensating /\ left' = 0
        Ends == /\ pc' = "ended" /\ outcome' = "Failed" /\ at' = at
                /\ action' \in Compensating /\ left' = 0 /\ completed = <<>>
        Rolls == /\ pc' = "compensating" /\ outcome' = "None" /\ at' = at
                 /\ action' \in Compensating /\ left' = Len(completed) /\ completed # <<>>
        Pauses == /\ pc' = "ended" /\ outcome' = "PendingUser" /\ at' = at
                  /\ action' \notin Compensating /\ left' = 0
        Reruns == /\ pc' = "resolve" /\ outcome' = "None" /\ at' = at
                  /\ action' \notin Compensating /\ left' = 0
        Skips == /\ at' = at + 1 /\ action' \notin Compensating /\ left' = 0
                 /\ \/ at < Len(Steps) /\ pc' = "resolve" /\ outcome' = "None"
                    \/ pc' = "ended" /\ outcome' = "Completed"
  <1>5. Gives \/ Ends \/ Rolls \/ Pauses \/ Reruns \/ Skips
    <2>1. CASE retried
      BY <1>1, <2>1 DEF StepFailed, End, recovery
    <2>2. CASE ~ retried
      <3> DEFINE d == Decide(tag, Steps[at].rules)
      <3>1. action' = d.action
        BY <2>2 DEF StepFailed
      <3>2. CASE d.action \in {"FullCompensation", "PartialCompensation"}
        BY <1>1, <2>2, <3>1, <3>2 DEF StepFailed, End, Compensating
      <3>3. CASE d.action = "PauseAndAskUser"
        BY <1>1, <2>2, <3>1, <3>3 DEF StepFailed, End, Compensating
      <3>4. CASE d.action = "RetryWithAlternative"
        BY <1>1, <2>2, <3>1, <3>4 DEF StepFailed, End, Compensating
      <3>5. CASE d.action = "Skip"
        BY <1>1, <2>2, <3>1, <3>5 DEF StepFailed, End, Compensating
      <3> QED
        BY <2>2, <3>2, <3>3, <3>4, <3>5 DEF StepFailed
    <2> QED
      BY <2>1, <2>2
  <1>6. SagaTypeOK'
    <2>1. pc' \in {"resolve", "compensating", "ended"}
          /\ outcome' \in {"None", "Completed", "Failed", "PendingUser"}
          /\ ((pc' = "ended") <=> (outcome' # "None"))
      BY <1>5
    <2>2. at' \in 1..(Len(Steps) + 1) /\ (pc' = "resolve" \/ outcome' = "PendingUser" => at' \in Indices)
      BY <1>1, <1>3, <1>5, SagaAssumption DEF Indices
    <2>3. left' \in 0..Len(completed)
      BY <1>3, <1>5
    <2> QED
      BY <1>2, <2>1, <2>2, <2>3 DEF SagaInv, SagaTypeOK
  <1>7. CompletedInOrder'
    <2>1. pc' = "resolve" => at' = at \/ at' = at + 1
      BY <1>5
    <2>2. \A p \in 1..Len(completed) : StepOf(p) < at /\ StepOf(p) \in Nat
      <3>1. \A p \in 1..Len(completed) : completed[p] \in Numbers
        BY <1>3
      <3> QED
        BY <3>1, FindIsInverse, SagaAssumption DEF SagaInv, CompletedInOrder, StepOf, Indices
    <2>3. pc' \in {"resolve", "invoke"} => \A p \in 1..Len(completed) : StepOf(p) < at'
      BY <1>3, <1>5, <2>1, <2>2
    <2> QED
      BY <1>5, <2>3 DEF SagaInv, CompletedInOrder, StepOf
  <1>8. NothingYet'
    BY <1>1, <1>2, <1>5 DEF NothingYet
  <1>9. DealtAreListed'
    <2> SUFFICES ASSUME Ends \/ Rolls PROVE DealtAreListed'
      BY <1>5 DEF DealtAreListed
    <2>1. Dealt' = {}
      BY <1>3 DEF Dealt
    <2>2. FailedNumbers' = {} /\ IsFiniteSet(FailedNumbers') /\ Cardinality(FailedNumbers') = 0
      BY <1>1, FS_EmptySet DEF FailedNumbers
    <2>3. Range(compensated') = {} /\ Range(preserved') = {} /\ Range(undone') = {}
      BY <1>1, <1>2, RangeEmpty
    <2>4. Len(compensated') = 0 /\ Len(preserved') = 0 /\ Len(completed') - left' = 0
      BY <1>1, <1>2, <1>3
    <2>5. /\ pc' \in {"compensating", "ended"} /\ outcome' \in {"None", "Failed"}
          /\ pc' = "compensating" => left' > 0
          /\ outcome' = "Failed" => left' = 0
      BY <1>3
    <2>6. \A j, k \in 1..Len(undone') : j < k => undone'[j] > undone'[k]
      BY <1>1
    <2> QED
      BY <2>1, <2>2, <2>3, <2>4, <2>5, <2>6 DEF DealtAreListed
  <1> QED
    BY <1>4, <1>6, <1>7, <1>8, <1>9 DEF SagaInv

\* The next step of a saga begins, or the saga is complete.
LEMMA InvokeOkKeeps ==
    ASSUME UniqueNumbers, SagaInv, InvokeOk
    PROVE  SagaInv'
PROOF
  <1> DEFINE n == Len(completed)
             number == Steps[at].step
  <1>1. /\ at \in Indices /\ pc = "invoke" /\ outcome = "None" /\ left = 0
        /\ action \notin Compensating
        /\ undone = <<>> /\ compensated = <<>> /\ preserved = <<>> /\ unrepaired = {}
    BY DEF SagaInv, SagaTypeOK, DealtAreListed, NothingYet, InvokeOk
  <1>2. /\ UNCHANGED <<action, left, compensated, preserved, undone, unrepaired, runs>>
        /\ completed' = Append(completed, number) /\ applied' = applied \cup {at}
        /\ standing' = [standing EXCEPT ![at] = @ + 1] /\ at' = at + 1
        /\ \/ pc' = "resolve" /\ at + 1 <= Len(Steps) /\ outcome' = "None"
           \/ pc' = "ended" /\ outcome' = "Completed"
    BY <1>1 DEF InvokeOk, Goto, recovery
  <1>3. /\ completed \in Seq(Numbers) /\ n \in Nat /\ number \in Numbers
        /\ Indices = 1..Len(Steps) /\ Len(Steps) \in Nat /\ at \in Nat
    BY <1>1, SagaAssumption DEF SagaInv, SagaTypeOK, Indices, Numbers
  <1>4. Find(number) = at
    BY <1>1, FindIsInverse
  <1> HIDE DEF number
  <1>5. /\ completed' \in Seq(Numbers) /\ Len(completed') = n + 1
        /\ completed'[n + 1] = number
        /\ \A p \in 1..n : completed'[p] = completed[p]
    BY <1>2, <1>3
  <1>6. Find(completed'[n + 1]) = at /\ \A p \in 1..n : Find(completed'[p]) = StepOf(p)
    BY <1>4, <1>5 DEF StepOf
  <1>7. \A p \in 1..n : StepOf(p) < at /\ StepOf(p) \in Nat
    <2>1. \A p \in 1..n : completed[p] \in Numbers
      BY <1>3
    <2> QED
      BY <1>1, <1>3, <2>1, FindIsInverse DEF SagaInv, CompletedInOrder, StepOf
  <1>8. SagaTypeOK'
    <2>1. standing' \in [Indices -> Int]
      BY <1>1, <1>2 DEF SagaInv, SagaTypeOK
    <2>2. at' \in 1..(Len(Steps) + 1) /\ (pc' = "resolve" => at' \in Indices)
      BY <1>1, <1>2, <1>3
    <2>3. left' \in 0..Len(completed')
      BY <1>1, <1>2, <1>3, <1>5
    <2>4. applied' \subseteq Indices
      BY <1>1, <1>2 DEF SagaInv, SagaTypeOK
    <2> QED
      BY <1>2, <1>5, <2>1, <2>2, <2>3, <2>4 DEF SagaInv, SagaTypeOK
  <1>9. CompletedInOrder'
    <2> DEFINE m == Len(completed')
    <2>0. 1..m = 1..n \cup {n + 1} /\ m = n + 1
      BY <1>3, <1>5
    <2> HIDE DEF m
    <2>1. ASSUME NEW p \in 1..m, NEW q \in 1..m, p < q PROVE Find(completed'[p]) < Find(completed'[q])
      <3>1. CASE q \in 1..n
        <4>1. p \in 1..n
          BY <1>3, <2>0, <2>1, <3>1
        <4> QED
          BY <1>6, <2>1, <3>1, <4>1 DEF SagaInv, CompletedInOrder
      <3>2. CASE q = n + 1
        <4>1. p \in 1..n
          BY <1>3, <2>0, <2>1, <3>2
        <4> QED
          BY <1>6, <1>7, <3>2, <4>1
      <3> QED
        BY <2>0, <3>1, <3>2
    <2>2. applied' = {Find(completed'[p]) : p \in 1..m}
      BY <1>2, <1>6, <2>0 DEF SagaInv, CompletedInOrder
    <2>3. \A p \in 1..m : Find(completed'[p]) < at'
      BY <1>2, <1>3, <1>6, <1>7, <2>0
    <2> QED
      BY <1>2, <2>1, <2>2, <2>3 DEF CompletedInOrder, StepOf, m
  <1>10. NothingYet' /\ DealtAreListed'
    BY <1>1, <1>2 DEF NothingYet, DealtAreListed
  <1>11. EffectsStand'
    <2>1. at \notin applied
      BY <1>7 DEF SagaInv, CompletedInOrder
    <2>2. Range(undone) = {} /\ Range(preserved) = {}
      BY <1>1, RangeEmpty
    <2>3. /\ standing \in [Indices -> Int] /\ runs \in Nat \ {0}
      BY DEF SagaInv, SagaTypeOK
    <2>4. ASSUME NEW i \in Indices
          PROVE  LET now == IF i \in applied' THEN 1 ELSE 0
                 IN  standing'[i] \in now..(runs - 1 + now)
      <3>1. CASE i = at
        <4>1. standing[i] \in 0..(runs - 1 + 0)
          BY <2>1, <2>2, <3>1 DEF SagaInv, EffectsStand
        <4> QED
          BY <1>1, <1>2, <2>3, <3>1, <4>1
      <3>2. CASE i # at
        <4>1. i \in applied' <=> i \in applied \ Range(undone)
          BY <1>2, <2>2, <3>2
        <4>2. standing'[i] = standing[i]
          BY <1>2, <2>3, <3>2
        <4> QED
          BY <4>1, <4>2 DEF SagaInv, EffectsStand
      <3> QED
        BY <3>1, <3>2
    <2> QED
      BY <1>2, <2>2, <2>4 DEF EffectsStand
  <1> QED
    BY <1>8, <1>9, <1>10, <1>11 DEF SagaInv

-----------------------------------------------------------------------------
(* The rollback.                                                           *)

\* The entry whose turn it is: its step was completed and is not undone or listed
\* yet, and those that were undone come after it.
LEMMA EntryIsFresh ==
    ASSUME UniqueNumbers, SagaInv, pc = "compensating"
    PROVE  /\ left \in 1..Len(completed) /\ completed[left] \in Numbers /\ outcome = "None"
           /\ action \in Compensating
           /\ StepOf(left) \in Indices /\ Steps[StepOf(left)].step = completed[left]
           /\ StepOf(left) \in applied
           /\ \A i \in Range(undone) : i > StepOf(left)
           /\ completed[left] \notin Range(compensated) \cup Range(preserved) \cup FailedNumbers
PROOF
  <1>1. /\ action \in Compensating /\ left \in 1..Len(completed) /\ outcome = "None"
        /\ completed \in Seq(Numbers) /\ Len(completed) \in Nat
    BY DEF SagaInv, NothingYet, DealtAreListed, SagaTypeOK
  <1>2. \A p \in 1..Len(completed) :
            /\ completed[p] \in Numbers
            /\ StepOf(p) \in Indices /\ Steps[StepOf(p)].step = completed[p]
    BY <1>1, FindIsInverse DEF StepOf
  <1>3. Indices \subseteq Nat
    BY SagaAssumption DEF Indices
  <1>4. \A p \in Dealt : p \in 1..Len(completed) /\ StepOf(left) < StepOf(p)
    BY <1>1 DEF SagaInv, CompletedInOrder, Dealt
  <1>5. \A i \in Range(undone) : i > StepOf(left)
    <2> SUFFICES ASSUME NEW i \in Range(undone) PROVE i > StepOf(left)
      OBVIOUS
    <2>1. PICK p \in Dealt : i = StepOf(p)
      BY <1>1 DEF SagaInv, DealtAreListed
    <2>2. StepOf(p) \in Nat /\ StepOf(left) \in Nat
      BY <1>1, <1>2, <1>3, <1>4
    <2> QED
      BY <1>4, <2>1, <2>2
  <1>6. completed[left] \notin {completed[p] : p \in Dealt}
    <2> SUFFICES ASSUME NEW p \in Dealt, completed[left] = completed[p] PROVE FALSE
      OBVIOUS
    <2>1. StepOf(left) = StepOf(p) /\ StepOf(p) \in Nat
      BY <1>2, <1>3, <1>4 DEF StepOf
    <2> QED
      BY <1>4, <2>1
  <1> QED
    BY <1>1, <1>2, <1>5, <1>6 DEF SagaInv, DealtAreListed, CompletedInOrder

\* The types of what a turn changes, and the order of the compensations so far.
LEMMA RollbackTypes ==
    ASSUME SagaInv, action \in Compensating
    PROVE  /\ preserved \in Seq(Numbers) /\ compensated \in Seq(Numbers) /\ undone \in Seq(Indices)
           /\ Len(preserved) \in Nat /\ Len(compensated) \in Nat
           /\ IsFiniteSet(FailedNumbers) /\ Cardinality(FailedNumbers) \in Nat
           /\ \A j, k \in 1..Len(undone) : j < k => undone[j] > undone[k]
           /\ standing \in [Indices -> Int] /\ runs \in Nat \ {0} /\ unrepaired \subseteq Indices
PROOF
  <1>1. /\ preserved \in Seq(Numbers) /\ compensated \in Seq(Numbers) /\ undone \in Seq(Indices)
        /\ standing \in [Indices -> Int] /\ runs \in Nat \ {0} /\ unrepaired \subseteq Indices
    BY DEF SagaInv, SagaTypeOK
  <1>2. /\ IsFiniteSet(FailedNumbers)
        /\ \A j, k \in 1..Len(undone) : j < k => undone[j] > undone[k]
    BY DEF SagaInv, DealtAreListed
  <1>3. Cardinality(FailedNumbers) \in Nat
    BY <1>2, FS_CardinalityType
  <1> QED
    BY <1>1, <1>2, <1>3

\* A turn that lists its entry once, undoes at most its step and leaves the effects
\* in order keeps the account.
LEMMA TurnKeeps ==
    ASSUME UniqueNumbers, SagaInv, pc = "compensating", AfterTurn,
           UNCHANGED <<at, completed, action, applied, runs>>,
           compensated' \in Seq(Numbers), preserved' \in Seq(Numbers), undone' \in Seq(Indices),
           unrepaired' \subseteq Indices, standing' \in [Indices -> Int],
           Range(compensated') \cup Range(preserved') \cup FailedNumbers'
               = (Range(compensated) \cup Range(preserved) \cup FailedNumbers) \cup {completed[left]},
           IsFiniteSet(FailedNumbers'),
           Len(compensated') + Len(preserved') + Cardinality(FailedNumbers')
               = Len(compensated) + Len(preserved) + Cardinality(FailedNumbers) + 1,
           Range(undone') \subseteq Range(undone) \cup {StepOf(left)},
           \A j, k \in 1..Len(undone') : j < k => undone'[j] > undone'[k],
           EffectsStand'
    PROVE  SagaInv'
PROOF
  <1>1. /\ left \in 1..Len(completed) /\ outcome = "None" /\ action \in Compensating
        /\ Len(completed) \in Nat
    BY EntryIsFresh DEF SagaInv, SagaTypeOK
  <1>2. /\ left' = left - 1
        /\ \/ left = 1 /\ pc' = "ended" /\ outcome' = "Failed"
           \/ left # 1 /\ pc' = "compensating" /\ outcome' = "None"
    BY <1>1 DEF AfterTurn, End
  <1>3. left' \in 0..Len(completed) /\ (left # 1 => left' > 0) /\ (left = 1 => left' = 0)
        /\ Len(completed) - left' = Len(completed) - left + 1
    BY <1>1, <1>2
  <1>4. Dealt' = Dealt \cup {left}
    BY <1>1, <1>2 DEF Dealt
  <1>5. SagaTypeOK'
    BY <1>2, <1>3 DEF SagaInv, SagaTypeOK
  <1>6. CompletedInOrder'
    BY <1>2 DEF SagaInv, CompletedInOrder, StepOf
  <1>7. NothingYet'
    BY <1>1 DEF NothingYet
  <1>8. DealtAreListed'
    <2>1. {completed[p] : p \in Dealt'} = {completed[p] : p \in Dealt} \cup {completed[left]}
      BY <1>4
    <2>2. {StepOf(p) : p \in Dealt'} = {StepOf(p) : p \in Dealt} \cup {StepOf(left)}
      BY <1>4
    <2>3. Range(compensated') \cup Range(preserved') \cup FailedNumbers'
               = {completed[p] : p \in Dealt'}
      BY <1>1, <2>1 DEF SagaInv, DealtAreListed
    <2>4. Range(undone') \subseteq {StepOf(p) : p \in Dealt'}
      BY <1>1, <2>2 DEF SagaInv, DealtAreListed
    <2>5. Len(compensated') + Len(preserved') + Cardinality(FailedNumbers')
               = Len(completed') - left'
      BY <1>1, <1>3 DEF SagaInv, DealtAreListed
    <2> QED
      BY <1>1, <1>2, <1>3, <2>3, <2>4, <2>5 DEF DealtAreListed, StepOf
  <1> QED
    BY <1>5, <1>6, <1>7, <1>8 DEF SagaInv

\* An entry the selected rule preserves is listed and keeps its effect.
LEMMA PreserveKeeps ==
    ASSUME UniqueNumbers, SagaInv, Preserve
    PROVE  SagaInv'
PROOF
  <1> USE DEF history
  <1>1. /\ pc = "compensating" /\ AfterTurn
        /\ preserved' = Append(preserved, completed[left])
        /\ UNCHANGED <<at, completed, action, compensated, applied, undone, unrepaired,
                       standing, runs>>
    BY DEF Preserve
  <1>2. /\ completed[left] \in Numbers /\ StepOf(left) \in applied
        /\ StepOf(left) \in Indices /\ Steps[StepOf(left)].step = completed[left]
        /\ \A i \in Range(undone) : i > StepOf(left)
        /\ action \in Compensating
    BY <1>1, EntryIsFresh
  <1>3. /\ preserved \in Seq(Numbers) /\ compensated \in Seq(Numbers) /\ undone \in Seq(Indices)
        /\ Len(preserved) \in Nat /\ Len(compensated) \in Nat
        /\ IsFiniteSet(FailedNumbers) /\ Cardinality(FailedNumbers) \in Nat
        /\ \A j, k \in 1..Len(undone) : j < k => undone[j] > undone[k]
    BY <1>2, RollbackTypes
  <1>4. /\ preserved' \in Seq(Numbers) /\ Len(preserved') = Len(preserved) + 1
        /\ Range(preserved') = Range(preserved) \cup {completed[left]}
    BY <1>1, <1>2, <1>3, RangeAppend
  <1>5. FailedNumbers' = FailedNumbers
    BY <1>1 DEF FailedNumbers
  <1>6. EffectsStand'
    <2> SUFFICES ASSUME NEW i \in Indices, Steps[i].step = completed[left]
                 PROVE  i \in applied \ Range(undone)
      BY <1>1, <1>4 DEF SagaInv, EffectsStand
    <2>1. i = StepOf(left)
      BY <1>2 DEF UniqueNumbers
    <2>2. i \in Nat
      BY SagaAssumption DEF Indices
    <2> QED
      BY <1>2, <2>1, <2>2
  <1>7. /\ Range(compensated') \cup Range(preserved') \cup FailedNumbers'
             = (Range(compensated) \cup Range(preserved) \cup FailedNumbers) \cup {completed[left]}
        /\ Len(compensated') + Len(preserved') + Cardinality(FailedNumbers')
             = Len(compensated) + Len(preserved) + Cardinality(FailedNumbers) + 1
    BY <1>1, <1>3, <1>4, <1>5
  <1>8. unrepaired' \subseteq Indices /\ standing' \in [Indices -> Int]
    BY <1>1 DEF SagaInv, SagaTypeOK
  <1> QED
    BY <1>1, <1>3, <1>4, <1>5, <1>6, <1>7, <1>8, TurnKeeps

\* An entry whose compensation succeeds, or that has none, loses its effect.
LEMMA CompensateOkKeeps ==
    ASSUME UniqueNumbers, SagaInv, CompensateOk
    PROVE  SagaInv'
PROOF
  <1> DEFINE i == StepOf(left)
  <1>1. /\ pc = "compensating" /\ AfterTurn
        /\ compensated' = Append(compensated, completed[left])
        /\ undone' = IF Steps[i].compensation THEN Append(undone, i) ELSE undone
        /\ standing' = IF Steps[i].compensation THEN [standing EXCEPT ![i] = @ - 1] ELSE standing
        /\ UNCHANGED <<at, completed, action, preserved, applied, unrepaired, runs>>
    BY DEF CompensateOk, Undo, StepOf
  <1>2. /\ completed[left] \in Numbers /\ i \in applied
        /\ i \in Indices /\ Steps[i].step = completed[left]
        /\ \A k \in Range(undone) : k > i
        /\ completed[left] \notin Range(preserved) /\ action \in Compensating
    BY <1>1, EntryIsFresh
  <1>3. /\ preserved \in Seq(Numbers) /\ compensated \in Seq(Numbers) /\ undone \in Seq(Indices)
        /\ Len(preserved) \in Nat /\ Len(compensated) \in Nat
        /\ IsFiniteSet(FailedNumbers) /\ Cardinality(FailedNumbers) \in Nat
        /\ \A j, k \in 1..Len(undone) : j < k => undone[j] > undone[k]
        /\ standing \in [Indices -> Int] /\ runs \in Nat \ {0} /\ unrepaired \subseteq Indices
    BY <1>2, RollbackTypes
  <1>i. i \in Nat
    BY <1>2, SagaAssumption DEF Indices
  <1> HIDE DEF i
  <1>4. /\ compensated' \in Seq(Numbers) /\ Len(compensated') = Len(compensated) + 1
        /\ Range(compensated') = Range(compensated) \cup {completed[left]}
    BY <1>1, <1>2, <1>3, RangeAppend
  <1>5. FailedNumbers' = FailedNumbers
    BY <1>1 DEF FailedNumbers
  <1>6. /\ undone' \in Seq(Indices) /\ standing' \in [Indices -> Int]
        /\ Range(undone') = IF Steps[i].compensation THEN Range(undone) \cup {i} ELSE Range(undone)
    <2>1. CASE Steps[i].compensation
      <3>1. undone' = Append(undone, i) /\ standing' = [standing EXCEPT ![i] = @ - 1]
        BY <1>1, <2>1
      <3>2. undone' \in Seq(Indices) /\ Range(undone') = Range(undone) \cup {i}
        BY <1>2, <1>3, <3>1, RangeAppend
      <3>3. standing' \in [Indices -> Int]
        BY <1>2, <1>3, <3>1
      <3> QED
        BY <2>1, <3>2, <3>3
    <2>2. CASE ~ Steps[i].compensation
      BY <1>1, <1>3, <2>2
    <2> QED
      BY <2>1, <2>2
  <1>7. \A j, k \in 1..Len(undone') : j < k => undone'[j] > undone'[k]
    <2>1. CASE ~ Steps[i].compensation
      BY <1>1, <1>3, <2>1
    <2>2. CASE Steps[i].compensation
      <3> DEFINE m == Len(undone)
      <3>1. /\ m \in Nat /\ Len(undone') = m + 1 /\ undone'[m + 1] = i
            /\ \A j \in 1..m : undone'[j] = undone[j] /\ undone[j] \in Range(undone)
        BY <1>1, <1>2, <1>3, <2>2 DEF Range
      <3> HIDE DEF m
      <3> SUFFICES ASSUME NEW j \in 1..(m + 1), NEW k \in 1..(m + 1), j < k
                   PROVE  undone'[j] > undone'[k]
        BY <3>1
      <3>2. j \in 1..m /\ (k \in 1..m \/ k = m + 1)
        BY <3>1
      <3>3. CASE k \in 1..m
        BY <1>3, <3>1, <3>2, <3>3 DEF m
      <3>4. CASE k = m + 1
        BY <1>2, <3>1, <3>2, <3>4
      <3> QED
        BY <3>2, <3>3, <3>4
    <2> QED
      BY <2>1, <2>2
  <1>8. EffectsStand'
    <2> SUFFICES ASSUME NEW k \in Indices
                 PROVE  LET now == IF k \in applied \ Range(undone') THEN 1 ELSE 0
                        IN  /\ standing'[k] \in now..(runs - 1 + now)
                            /\ Steps[k].step \in Range(preserved) => now = 1
      BY <1>1 DEF EffectsStand
    <2>1. LET now == IF k \in applied \ Range(undone) THEN 1 ELSE 0
          IN  /\ standing[k] \in now..(runs - 1 + now)
              /\ Steps[k].step \in Range(preserved) => now = 1
      BY DEF SagaInv, EffectsStand
    <2>2. CASE ~ Steps[i].compensation \/ k # i
      <3>1. k \in Range(undone') <=> k \in Range(undone)
        BY <1>6, <2>2
      <3>2. standing'[k] = standing[k]
        BY <1>1, <1>3, <2>2
      <3> QED
        BY <2>1, <3>1, <3>2
    <2>3. CASE Steps[i].compensation /\ k = i
      <3>1. i \in Range(undone') /\ i \notin Range(undone)
        BY <1>2, <1>i, <1>6, <2>3
      <3>2. standing[i] \in 1..(runs - 1 + 1) /\ standing'[i] = standing[i] - 1
        BY <1>1, <1>2, <1>3, <2>1, <2>3, <3>1
      <3>3. standing'[i] \in 0..(runs - 1 + 0)
        BY <1>3, <3>2
      <3> QED
        BY <1>2, <2>3, <3>1, <3>3
    <2> QED
      BY <2>2, <2>3
  <1>9. /\ Range(compensated') \cup Range(preserved') \cup FailedNumbers'
             = (Range(compensated) \cup Range(preserved) \cup FailedNumbers) \cup {completed[left]}
        /\ Len(compensated') + Len(preserved') + Cardinality(FailedNumbers')
             = Len(compensated) + Len(preserved) + Cardinality(FailedNumbers) + 1
    BY <1>1, <1>3, <1>4, <1>5
  <1>10. Range(undone') \subseteq Range(undone) \cup {StepOf(left)}
    BY <1>6 DEF i
  <1> QED
    BY <1>1, <1>3, <1>4, <1>5, <1>6, <1>7, <1>8, <1>9, <1>10, TurnKeeps

\* A compensation that fails ends the run if it is mandatory, and is counted
\* apart if it is not.
LEMMA CompensateFailsKeeps ==
    ASSUME UniqueNumbers, SagaInv, CompensateFails
    PROVE  SagaInv'
PROOF
  <1>1. /\ pc = "compensating" /\ Steps[StepOf(left)].compensation
        /\ UNCHANGED <<at, completed, action, compensated, preserved, runs, standing, applied,
                       undone>>
    BY DEF CompensateFails, StepOf
  <1>2. /\ left \in 1..Len(completed) /\ completed[left] \in Numbers /\ outcome = "None"
        /\ action \in Compensating
        /\ StepOf(left) \in Indices /\ Steps[StepOf(left)].step = completed[left]
        /\ completed[left] \notin FailedNumbers
    BY <1>1, EntryIsFresh
  <1>3. /\ preserved \in Seq(Numbers) /\ compensated \in Seq(Numbers) /\ undone \in Seq(Indices)
        /\ Len(preserved) \in Nat /\ Len(compensated) \in Nat
        /\ IsFiniteSet(FailedNumbers) /\ Cardinality(FailedNumbers) \in Nat
        /\ \A j, k \in 1..Len(undone) : j < k => undone[j] > undone[k]
        /\ standing \in [Indices -> Int] /\ unrepaired \subseteq Indices
    BY <1>2, RollbackTypes
  <1>4. EffectsStand'
    BY <1>1 DEF SagaInv, EffectsStand
  <1>5. CASE Steps[StepOf(left)].compensation_type = "Mandatory"
    <2>1. /\ pc' = "ended" /\ outcome' = "Error" /\ UNCHANGED <<left, unrepaired>>
      BY <1>5 DEF CompensateFails, StepOf
    <2>2. SagaTypeOK'
      BY <1>1, <2>1 DEF SagaInv, SagaTypeOK
    <2>3. CompletedInOrder'
      BY <1>1, <2>1 DEF SagaInv, CompletedInOrder, StepOf
    <2>4. NothingYet'
      BY <1>1, <1>2 DEF NothingYet
    <2>5. DealtAreListed'
      <3>1. Dealt' = Dealt /\ FailedNumbers' = FailedNumbers /\ StepOf(left)' = StepOf(left)
        BY <1>1, <2>1 DEF Dealt, FailedNumbers, StepOf
      <3>2. left > 0
        BY <1>2 DEF SagaInv, SagaTypeOK
      <3> QED
        BY <1>1, <1>2, <1>5, <2>1, <3>1, <3>2 DEF SagaInv, DealtAreListed, StepOf
    <2> QED
      BY <1>4, <2>2, <2>3, <2>4, <2>5 DEF SagaInv
  <1>6. CASE Steps[StepOf(left)].compensation_type # "Mandatory"
    <2>1. unrepaired' = unrepaired \cup {StepOf(left)} /\ AfterTurn
      BY <1>6 DEF CompensateFails, StepOf
    <2>2. FailedNumbers' = FailedNumbers \cup {completed[left]}
      BY <1>2, <2>1 DEF FailedNumbers
    <2>3. IsFiniteSet(FailedNumbers') /\ Cardinality(FailedNumbers') = Cardinality(FailedNumbers) + 1
      BY <1>2, <1>3, <2>2, FS_AddElement
    <2>4. /\ Range(compensated') \cup Range(preserved') \cup FailedNumbers'
               = (Range(compensated) \cup Range(preserved) \cup FailedNumbers) \cup {completed[left]}
          /\ Len(compensated') + Len(preserved') + Cardinality(FailedNumbers')
               = Len(compensated) + Len(preserved) + Cardinality(FailedNumbers) + 1
      BY <1>1, <1>3, <2>2, <2>3
    <2>5. unrepaired' \subseteq Indices
      BY <1>2, <1>3, <2>1
    <2> QED
      BY <1>1, <1>3, <1>4, <2>1, <2>3, <2>4, <2>5, TurnKeeps
  <1> QED
    BY <1>5, <1>6

-----------------------------------------------------------------------------
\* Every step preserves the invariant.
LEMMA SagaInvNext == UniqueNumbers /\ SagaInv /\ [Next]_vars => SagaInv'
PROOF
  <1> SUFFICES ASSUME UniqueNumbers, SagaInv, [Next]_vars PROVE SagaInv'
    OBVIOUS
  \* A step that leaves alone all that the invariant speaks of but pc.
  <1>a. ASSUME UNCHANGED <<at, completed, action, left, compensated, preserved, outcome, runs,
                           standing, applied, undone, unrepaired>>,
               \/ pc' = pc
               \/ pc = "resolve" /\ pc' = "invoke"
        PROVE  SagaInv'
    <2>1. SagaTypeOK'
      BY <1>a DEF SagaInv, SagaTypeOK
    <2>2. CompletedInOrder'
      BY <1>a DEF SagaInv, CompletedInOrder, StepOf
    <2>3. NothingYet'
      BY <1>a DEF SagaInv, NothingYet
    <2>4. DealtAreListed'
      BY <1>a DEF SagaInv, DealtAreListed, Dealt, FailedNumbers, StepOf
    <2>5. EffectsStand'
      BY <1>a DEF SagaInv, EffectsStand
    <2> QED
      BY <2>1, <2>2, <2>3, <2>4, <2>5 DEF SagaInv
  <1>1. CASE Start
    <2>1. /\ pc = "new" /\ UNCHANGED <<at, completed, action, left, compensated, preserved, runs,
                                       standing, applied, undone, unrepaired>>
          /\ \/ Steps = <<>> /\ pc' = "ended" /\ outcome' = "Completed"
             \/ Steps # <<>> /\ pc' = "resolve" /\ outcome' = outcome
      BY <1>1 DEF Start, End, recovery, history
    <2>2. completed = <<>> /\ outcome = "None" /\ at = 1 /\ action \notin Compensating
      BY <2>1 DEF SagaInv, SagaTypeOK, CompletedInOrder, DealtAreListed
    <2>3. SagaTypeOK'
      BY <2>1, <2>2, SagaAssumption DEF SagaInv, SagaTypeOK, Indices
    <2>4. CompletedInOrder'
      BY <2>1, <2>2 DEF SagaInv, CompletedInOrder, StepOf
    <2>5. NothingYet' /\ DealtAreListed'
      BY <2>1, <2>2 DEF SagaInv, NothingYet, DealtAreListed
    <2>6. EffectsStand'
      BY <2>1 DEF SagaInv, EffectsStand
    <2> QED
      BY <2>3, <2>4, <2>5, <2>6 DEF SagaInv
  <1>2. CASE Resolve
    <2>1. CASE at \in known
      BY <1>2, <1>a, <2>1 DEF Resolve, recovery, history
    <2>2. CASE at \notin known
      BY <1>2, <2>2, StepFailedKeeps DEF Resolve
    <2> QED
      BY <2>1, <2>2
  <1>3. CASE InvokeFailed
    BY <1>3, StepFailedKeeps DEF InvokeFailed
  <1>4. CASE Deregister \/ UNCHANGED vars
    BY <1>4, <1>a DEF Deregister, vars, recovery, history
  <1> QED
    BY <1>1, <1>2, <1>3, <1>4, InvokeOkKeeps, PreserveKeeps, CompensateOkKeeps,
       CompensateFailsKeeps, RunAgainKeeps DEF Next, Advance

\* For a saga whose steps have different numbers, after every recovery each
\* completed step is rolled back, preserved or a failed best-effort compensation,
\* once, and the effects that stand are those of the steps not rolled back
\* (SagaExecutor::run), for all steps, rules and failures.
THEOREM StepsAreAccounted == Spec => []EveryStepAccounted
PROOF
  <1> DEFINE Inv == UniqueNumbers => SagaInv
  <1>1. Init => Inv
    BY SagaInvInit
  <1>2. Inv /\ [Next]_vars => Inv'
    BY SagaInvNext DEF UniqueNumbers
  <1>3. Inv => EveryStepAccounted
    <2> SUFFICES ASSUME UniqueNumbers, SagaInv PROVE EveryStepAccounted
      BY DEF EveryStepAccounted
    <2>1. ASSUME outcome = "Failed", action \in {"FullCompensation", "PartialCompensation"}
          PROVE  /\ Range(completed) = Range(compensated) \cup Range(preserved) \cup FailedNumbers
                 /\ Len(completed) = Len(compensated) + Len(preserved) + Cardinality(FailedNumbers)
      <3>1. left = 0 /\ completed \in Seq(Numbers) /\ Len(completed) \in Nat
        BY <2>1 DEF SagaInv, DealtAreListed, SagaTypeOK, Compensating
      <3>2. Dealt = 1..Len(completed) /\ Range(completed) = {completed[p] : p \in Dealt}
        BY <3>1 DEF Dealt, Range
      <3> QED
        BY <2>1, <3>1, <3>2 DEF SagaInv, DealtAreListed, Compensating
    <2> QED
      BY <2>1 DEF EveryStepAccounted, FailedNumbers, SagaInv, EffectsStand
  <1> QED
    BY <1>1, <1>2, <1>3, PTL DEF Spec

\* Compensations run latest step first, once each, only for steps that succeeded;
\* an Error comes from a mandatory compensation, before any earlier step is
\* undone; a saga that completed or waits for the user has undone nothing.
THEOREM CompensationsAreOrdered == Spec => []UndoneInReverse
PROOF
  <1> DEFINE Inv == UniqueNumbers => SagaInv
  <1>1. Init => Inv
    BY SagaInvInit
  <1>2. Inv /\ [Next]_vars => Inv'
    BY SagaInvNext DEF UniqueNumbers
  <1>3. Inv => UndoneInReverse
    <2> SUFFICES ASSUME UniqueNumbers, SagaInv
                 PROVE  /\ Range(undone) \subseteq applied
                        /\ \A j, k \in DOMAIN undone : j < k => undone[j] > undone[k]
                        /\ outcome = "Error" =>
                             /\ Steps[StepOf(left)].compensation_type = "Mandatory"
                             /\ \A i \in Range(undone) : i > StepOf(left)
                        /\ outcome \in {"PendingUser", "Completed"} => undone = <<>>
      BY DEF UndoneInReverse, StepOf
    <2>1. undone \in Seq(Indices) /\ DOMAIN undone = 1..Len(undone)
      BY DEF SagaInv, SagaTypeOK
    <2>2. CASE action \notin Compensating
      BY <2>1, <2>2, RangeEmpty DEF SagaInv, NothingYet
    <2>3. CASE action \in Compensating
      <3>1. \A p \in 1..Len(completed) : StepOf(p) \in Nat
        <4>1. \A p \in 1..Len(completed) : completed[p] \in Numbers
          BY DEF SagaInv, SagaTypeOK
        <4> QED
          BY <4>1, FindIsInverse, SagaAssumption DEF StepOf, Indices
      <3>2. Range(undone) \subseteq applied
        BY <2>3 DEF SagaInv, DealtAreListed, CompletedInOrder, Dealt
      <3>3. ASSUME outcome = "Error", NEW i \in Range(undone) PROVE i > StepOf(left)
        <4>1. PICK p \in Dealt : i = StepOf(p)
          BY <2>3 DEF SagaInv, DealtAreListed
        <4>2. left \in 1..Len(completed) /\ p \in 1..Len(completed) /\ p > left
          BY <2>3, <3>3 DEF SagaInv, DealtAreListed, SagaTypeOK, Dealt
        <4>3. StepOf(left) < StepOf(p)
          BY <4>2 DEF SagaInv, CompletedInOrder
        <4> QED
          BY <3>1, <4>1, <4>2, <4>3
      <3> QED
        BY <2>1, <2>3, <3>2, <3>3 DEF SagaInv, DealtAreListed
    <2> QED
      BY <2>2, <2>3
  <1> QED
    BY <1>1, <1>2, <1>3, PTL DEF Spec
=============================================================================
