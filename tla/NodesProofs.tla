----------------------------- MODULE NodesProofs ----------------------------
(***************************************************************************)
(* Proofs about Nodes, for any number of attempts, children, callers,      *)
(* turns and retries: when an answer of the reviewer can be lost, what the *)
(* result of a fork says of its children, and what an agent and the        *)
(* callers of a budget can use up.                                         *)
(***************************************************************************)
EXTENDS Nodes, FiniteSetTheorems, NaturalsInduction, WellFoundedInduction, SequenceTheorems, TLAPS

-----------------------------------------------------------------------------
(* Operators *)

\* A set of naturals has a least element.
LEMMA LeastOf ==
    ASSUME NEW T, T \subseteq Nat, T # {}
    PROVE  \E n \in T : \A m \in T : n <= m
<1> DEFINE less == OpToRel(<, Nat)
<1>1. IsWellFoundedOn(less, Nat)
  BY NatLessThanWellFounded
<1>2. PICK n \in T : \A m \in T : ~(<<m, n>> \in less)
  <2> HIDE DEF less
  <2> QED
    BY <1>1, WFMin
<1>3. \A m \in T : ~(m < n)
  BY <1>2 DEF OpToRel
<1> QED
  BY <1>3

LEMMA Products ==
    ASSUME NEW t \in Nat, NEW u \in Nat, NEW m \in Nat, t <= u
    PROVE  t * m \in Nat /\ (t + 1) * m = t * m + m /\ t * m <= u * m
OBVIOUS

\* f gives the partial sums of the tokens of a fork's children.
IsSum(f, children, n) ==
    f = [k \in 0..n |-> IF k = 0 THEN 0 ELSE f[k - 1] + children[k].tokens]

\* There are partial sums, for every number of children.
LEMMA SumExists ==
    ASSUME NEW children, NEW n \in Nat
    PROVE  \E f : IsSum(f, children, n)
<1> DEFINE bad == {m \in Nat : ~ \E f : IsSum(f, children, m)}
<1>1. SUFFICES ASSUME bad # {} PROVE FALSE
  OBVIOUS
<1>2. PICK m \in bad : \A k \in bad : m <= k
  BY <1>1, LeastOf
<1>3. CASE m = 0
  <2> DEFINE g == [k \in 0..0 |-> 0]
  <2>1. IsSum(g, children, 0)
    BY DEF IsSum
  <2> QED
    BY <1>2, <1>3, <2>1
<1>4. CASE m # 0
  <2>1. m - 1 \in Nat /\ m - 1 \notin bad
    BY <1>2, <1>4
  <2>2. PICK f : IsSum(f, children, m - 1)
    BY <2>1
  <2> DEFINE g == [k \in 0..m |-> IF k = m THEN f[m - 1] + children[m].tokens ELSE f[k]]
  <2>3. \A k \in 0..(m - 1) : f[k] = IF k = 0 THEN 0 ELSE f[k - 1] + children[k].tokens
    BY <2>2 DEF IsSum
  <2>4. ASSUME NEW k \in 0..m
        PROVE  g[k] = IF k = 0 THEN 0 ELSE g[k - 1] + children[k].tokens
    <3>1. CASE k = m
      BY <1>4, <2>1, <3>1
    <3>2. CASE k # m
      BY <2>1, <2>3, <3>2
    <3> QED
      BY <3>1, <3>2
  <2>5. IsSum(g, children, m)
    BY <2>4 DEF IsSum
  <2> QED
    BY <1>2, <2>5
<1> QED
  BY <1>3, <1>4

LEMMA TokensOfIsSum ==
    ASSUME NEW children, NEW n \in Nat
    PROVE  \E f : IsSum(f, children, n) /\ TokensOf(children, n) = f[n]
<1> DEFINE g == CHOOSE f : IsSum(f, children, n)
<1>1. IsSum(g, children, n)
  BY SumExists
<1>2. TokensOf(children, n) = g[n]
  BY DEF TokensOf, IsSum
<1> QED
  BY <1>1, <1>2

\* Children with the same tokens have the same partial sums.
LEMMA SumsAgree ==
    ASSUME NEW c, NEW d, NEW f, NEW g, NEW n \in Nat, NEW m \in Nat, NEW l \in Nat, l <= n, l <= m,
           IsSum(f, c, n), IsSum(g, d, m), \A k \in 1..l : c[k].tokens = d[k].tokens
    PROVE  f[l] = g[l]
<1>1. \A k \in 0..n : f[k] = IF k = 0 THEN 0 ELSE f[k - 1] + c[k].tokens
  BY DEF IsSum
<1>2. \A k \in 0..m : g[k] = IF k = 0 THEN 0 ELSE g[k - 1] + d[k].tokens
  BY DEF IsSum
<1> DEFINE bad == {k \in 0..l : f[k] # g[k]}
<1>3. SUFFICES ASSUME bad # {} PROVE FALSE
  OBVIOUS
<1>4. PICK k \in bad : \A j \in bad : k <= j
  <2>1. bad \subseteq Nat
    OBVIOUS
  <2> HIDE DEF bad
  <2> QED
    BY <1>3, <2>1, LeastOf
<1>5. k # 0
  BY <1>1, <1>2, <1>4
<1>6. k - 1 \in 0..l /\ k - 1 \notin bad
  BY <1>4, <1>5
<1>7. f[k - 1] = g[k - 1]
  BY <1>6
<1>8. f[k] = f[k - 1] + c[k].tokens /\ g[k] = g[k - 1] + d[k].tokens
  BY <1>1, <1>2, <1>5
<1>9. c[k].tokens = d[k].tokens
  BY <1>4, <1>5
<1> QED
  BY <1>4, <1>7, <1>8, <1>9

\* What the join needs of the sum: no child, one more, and the children it has left behind.
LEMMA TokensFacts ==
    ASSUME NEW children, NEW n \in Nat
    PROVE  /\ TokensOf(children, 0) = 0
           /\ TokensOf(children, n + 1) = TokensOf(children, n) + children[n + 1].tokens
           /\ \A other : (\A k \in 1..n : other[k].tokens = children[k].tokens)
                           => TokensOf(other, n) = TokensOf(children, n)
<1>1. TokensOf(children, 0) = 0
  BY TokensOfIsSum DEF IsSum
<1>2. PICK f : IsSum(f, children, n) /\ TokensOf(children, n) = f[n]
  BY TokensOfIsSum
<1>3. TokensOf(children, n + 1) = TokensOf(children, n) + children[n + 1].tokens
  <2>1. PICK g : IsSum(g, children, n + 1) /\ TokensOf(children, n + 1) = g[n + 1]
    BY TokensOfIsSum
  <2>2. f[n] = g[n]
    BY <1>2, <2>1, SumsAgree
  <2>3. g[n + 1] = g[n] + children[n + 1].tokens
    BY <2>1 DEF IsSum
  <2> QED
    BY <1>2, <2>1, <2>2, <2>3
<1>4. ASSUME NEW other, \A k \in 1..n : other[k].tokens = children[k].tokens
      PROVE  TokensOf(other, n) = TokensOf(children, n)
  <2>1. PICK g : IsSum(g, other, n) /\ TokensOf(other, n) = g[n]
    BY TokensOfIsSum
  <2>2. f[n] = g[n]
    BY <1>2, <1>4, <2>1, SumsAgree
  <2> QED
    BY <1>2, <2>1, <2>2
<1> QED
  BY <1>1, <1>3, <1>4
\* The roles of an agent's conversation, and what the API calls them.
LEMMA ConversationRoles ==
    ASSUME NEW calls, Len(calls) \in Nat
    PROVE  LET msgs == Conversation(calls)
               n == 2 * Len(calls) + 2
           IN  /\ n \in Nat /\ n >= 2 /\ n % 2 = 0
               /\ DOMAIN msgs = 1..n /\ Len(msgs) = n
               /\ msgs[1].role = "System"
               /\ \A k \in 2..n : /\ msgs[k].role # "System"
                                  /\ MapMessage(msgs[k]).role = IF k % 2 = 0 THEN "user" ELSE "assistant"
<1> DEFINE msgs == Conversation(calls)
           n == 2 * Len(calls) + 2
<1>1. n \in Nat /\ n >= 2 /\ n % 2 = 0
  OBVIOUS
<1>2. DOMAIN msgs = 1..n /\ Len(msgs) = n
  BY <1>1 DEF Conversation
<1>3. msgs[1].role = "System"
  BY <1>1 DEF Conversation, Message
<1>4. ASSUME NEW k \in 2..n
      PROVE  /\ msgs[k].role = IF k = 2 THEN "User" ELSE IF k % 2 = 1 THEN "ToolUse" ELSE "ToolResult"
             /\ k % 2 \in {0, 1}
  <2>1. k \in 1..n /\ k # 1
    BY <1>1
  <2>2. msgs[k] = IF k = 2 THEN Message("User", "none")
                  ELSE Message(IF k % 2 = 1 THEN "ToolUse" ELSE "ToolResult", calls[(k - 1) \div 2])
    BY <2>1 DEF Conversation
  <2>3. \A r, t : Message(r, t).role = r
    BY DEF Message
  <2> QED
    BY <1>1, <2>2, <2>3
<1>5. \A msg : MapMessage(msg).role = IF msg.role \in {"Assistant", "ToolUse"} THEN "assistant" ELSE "user"
  BY DEF MapMessage
<1>6. 2 % 2 = 0
  OBVIOUS
<1> HIDE DEF msgs, n
<1>7. ASSUME NEW k \in 2..n
      PROVE  /\ msgs[k].role # "System"
             /\ MapMessage(msgs[k]).role = IF k % 2 = 0 THEN "user" ELSE "assistant"
  <2>1. CASE k = 2
    BY <1>4, <1>5, <1>6, <2>1
  <2>2. CASE k # 2 /\ k % 2 = 1
    BY <1>4, <1>5, <2>2
  <2>3. CASE k # 2 /\ k % 2 = 0
    BY <1>4, <1>5, <2>3
  <2> QED
    BY <1>4, <2>1, <2>2, <2>3
<1> QED
  BY <1>1, <1>2, <1>3, <1>7 DEF msgs, n

\* f is the list of turns that build_request_body collects message by message.
IsTurns(f, messages) ==
    f = [i \in 0..Len(messages) |->
           IF i = 0 THEN <<>>
           ELSE IF messages[i].role = "System" THEN f[i - 1]
           ELSE Append(f[i - 1], MapMessage(messages[i]))]

\* Of a list with one system message, at its head, the others are kept in their order.
LEMMA TurnsOf ==
    ASSUME NEW messages, NEW n \in Nat, n >= 1, Len(messages) = n,
           messages[1].role = "System", \A k \in 2..n : messages[k].role # "System"
    PROVE  Turns(messages) = [j \in 1..(n - 1) |-> MapMessage(messages[j + 1])]
<1> DEFINE upTo(i) == [j \in 1..(i - 1) |-> MapMessage(messages[j + 1])]
           g == [i \in 0..n |-> IF i = 0 THEN <<>> ELSE upTo(i)]
<1>1. upTo(1) = <<>>
  OBVIOUS
<1>2. ASSUME NEW i \in 2..n
      PROVE  upTo(i) = Append(upTo(i - 1), MapMessage(messages[i]))
  <2> DEFINE S == {MapMessage(messages[k]) : k \in 1..n}
  <2>1. upTo(i - 1) \in Seq(S) /\ Len(upTo(i - 1)) = i - 2
    OBVIOUS
  <2>2. upTo(i) \in Seq(S) /\ Len(upTo(i)) = i - 1
    <3>1. \A j \in 1..(i - 1) : MapMessage(messages[j + 1]) \in S
      OBVIOUS
    <3> HIDE DEF S
    <3> QED
      BY <3>1
  <2> DEFINE a == Append(upTo(i - 1), MapMessage(messages[i]))
  <2>3. MapMessage(messages[i]) \in S
    OBVIOUS
  <2> HIDE DEF S
  <2>4. a \in Seq(S) /\ Len(a) = i - 1 /\ a[i - 1] = MapMessage(messages[i])
    BY <2>1, <2>3
  <2>5. \A j \in 1..(i - 2) : a[j] = upTo(i - 1)[j]
    BY <2>1, <2>3
  <2>6. \A j \in 1..(i - 1) : a[j] = upTo(i)[j]
    BY <2>4, <2>5
  <2> QED
    BY <2>2, <2>4, <2>6, SeqEqual
<1> HIDE DEF upTo
<1>3. IsTurns(g, messages)
  <2>1. ASSUME NEW i \in 0..n
        PROVE  g[i] = IF i = 0 THEN <<>>
                      ELSE IF messages[i].role = "System" THEN g[i - 1]
                      ELSE Append(g[i - 1], MapMessage(messages[i]))
    <3>1. CASE i = 0
      BY <3>1
    <3>2. CASE i = 1
      BY <1>1, <3>2
    <3>3. CASE i \in 2..n
      <4>1. g[i] = upTo(i) /\ g[i - 1] = upTo(i - 1)
        BY <3>3
      <4>2. upTo(i) = Append(upTo(i - 1), MapMessage(messages[i]))
        BY <1>2, <3>3
      <4> QED
        BY <3>3, <4>1, <4>2
    <3> QED
      BY <3>1, <3>2, <3>3
  <2> QED
    BY <2>1 DEF IsTurns
<1> DEFINE f == CHOOSE h : IsTurns(h, messages)
<1>4. IsTurns(f, messages)
  BY <1>3
<1>5. Turns(messages) = f[n]
  BY DEF Turns, IsTurns
<1> HIDE DEF f, g
<1>6. \A i \in 0..n : f[i] = IF i = 0 THEN <<>>
                             ELSE IF messages[i].role = "System" THEN f[i - 1]
                             ELSE Append(f[i - 1], MapMessage(messages[i]))
  BY <1>4 DEF IsTurns
<1>7. \A i \in 0..n : g[i] = IF i = 0 THEN <<>>
                             ELSE IF messages[i].role = "System" THEN g[i - 1]
                             ELSE Append(g[i - 1], MapMessage(messages[i]))
  BY <1>3 DEF IsTurns
<1> DEFINE bad == {i \in 0..n : f[i] # g[i]}
<1>8. bad = {}
  <2> SUFFICES ASSUME bad # {} PROVE FALSE
    OBVIOUS
  <2>1. PICK k \in bad : \A j \in bad : k <= j
    <3>1. bad \subseteq Nat
      OBVIOUS
    <3> HIDE DEF bad
    <3> QED
      BY <3>1, LeastOf
  <2>2. k # 0
    BY <1>6, <1>7, <2>1
  <2>3. k - 1 \in 0..n /\ k - 1 \notin bad
    BY <2>1, <2>2
  <2> QED
    BY <1>6, <1>7, <2>1, <2>2, <2>3
<1>9. f[n] = g[n]
  BY <1>8
<1> QED
  BY <1>5, <1>9 DEF g, upTo

LEMMA Parity ==
    ASSUME NEW i \in Nat
    PROVE  (i + 1) % 2 = 0 <=> i % 2 = 1
OBVIOUS

\* The request of an agent after any calls: the roles alternate, the user's first and last.
LEMMA RequestsAlternate ==
    ASSUME NEW calls, Len(calls) \in Nat, NEW tools
    PROVE  LET sent == RequestBody(Conversation(calls), tools).messages
           IN  /\ \A i \in DOMAIN sent : sent[i].role = IF i % 2 = 1 THEN "user" ELSE "assistant"
               /\ Len(sent) % 2 = 1
<1>1. PICK msgs : msgs = Conversation(calls)
  OBVIOUS
<1>2. PICK n \in Nat :
         /\ n = 2 * Len(calls) + 2 /\ n >= 2 /\ n % 2 = 0 /\ Len(msgs) = n
         /\ msgs[1].role = "System"
         /\ \A k \in 2..n : /\ msgs[k].role # "System"
                            /\ MapMessage(msgs[k]).role = IF k % 2 = 0 THEN "user" ELSE "assistant"
  BY <1>1, ConversationRoles
<1> PICK sent : sent = RequestBody(msgs, tools).messages
  OBVIOUS
<1>3. sent = [j \in 1..(n - 1) |-> MapMessage(msgs[j + 1])]
  <2>1. sent = Turns(msgs)
    BY DEF RequestBody
  <2>2. Turns(msgs) = [j \in 1..(n - 1) |-> MapMessage(msgs[j + 1])]
    <3>1. n >= 1 /\ Len(msgs) = n /\ msgs[1].role = "System" /\ \A k \in 2..n : msgs[k].role # "System"
      BY <1>2
    <3> QED
      BY <3>1, TurnsOf
  <2> QED
    BY <2>1, <2>2
<1>4. DOMAIN sent = 1..(n - 1) /\ Len(sent) = n - 1
  BY <1>2, <1>3
<1>5. ASSUME NEW i \in 1..(n - 1)
      PROVE  sent[i].role = IF i % 2 = 1 THEN "user" ELSE "assistant"
  <2>1. i + 1 \in 2..n
    BY <1>2
  <2>2. sent[i] = MapMessage(msgs[i + 1])
    BY <1>3
  <2>3. (i + 1) % 2 = 0 <=> i % 2 = 1
    BY Parity
  <2> QED
    BY <1>2, <2>1, <2>2, <2>3
<1>6. (n - 1) % 2 = 1
  BY <1>2
<1> QED
  BY <1>1, <1>4, <1>5, <1>6

-----------------------------------------------------------------------------
(* A child *)

Fields == {"kind", "at", "res", "tokens", "timer", "saw", "turn", "try", "sends", "calls", "invoked"}

\* What a child is and where it can be.
KidOK(c) ==
    /\ DOMAIN c = Fields
    /\ c.turn \in Nat /\ c.try \in Nat /\ c.sends \in Nat /\ c.invoked \in Nat
    /\ \E S : c.calls \in Seq(S)
    /\ c.at \in {"start", "open", "sleep", "find", "invoke", "done"}
    /\ c.at = "done" <=> c.res # "none"
    /\ c.kind = "gate" /\ c.at = "open" => c.saw = "none"

\* What an agent has used up by then: a request a try, max_retries + 1 tries a turn, a
\* tool between two turns.
WithinBounds(c) ==
    /\ c.turn <= MaxToolCalls /\ c.try <= MaxRetries /\ c.invoked <= MaxToolCalls
    /\ c.sends <= (MaxToolCalls + 1) * (MaxRetries + 1)
    /\ c.at # "done" => c.invoked = c.turn
    /\ c.at = "start" => c.sends <= c.turn * (MaxRetries + 1) + c.try
    /\ c.at = "sleep" => c.try < MaxRetries /\ c.sends <= c.turn * (MaxRetries + 1) + c.try + 1
    /\ c.at \in {"find", "invoke"} =>
         c.turn < MaxToolCalls /\ c.sends <= c.turn * (MaxRetries + 1) + c.try + 1

\* What a step of a child does to it, and to the request of its intent.
Moved(a, c, d) ==
    /\ c.at # "done" /\ d.kind = c.kind
    /\ c.kind = "wait" => d.saw = c.saw /\ (channel.value # "none" => d.res \in {"none", "ok"})
    /\ c.kind = "gate" =>
         \/ requests' = requests /\ d.at = "open"
         \/ /\ requests' = requests /\ d.saw # "none"
            /\ d.res = "ok" => requests[IntentOf[a]] = "Approved"
         \/ /\ c.at = "open" /\ d.saw = "none" /\ d.at = "done" /\ d.res = "error"
            /\ requests' = [requests EXCEPT ![IntentOf[a]] = "Pending"]
    /\ c.kind # "gate" => requests' = requests

StepOf(a, i) == \E d : /\ Become(a, i, d) /\ KidOK(d) /\ WithinBounds(d)
                       /\ Moved(a, child[a][i], d)

\* A child that ends keeps what it counted.
LEMMA DoneFacts ==
    ASSUME NEW c, DOMAIN c = Fields, NEW res, res # "none"
    PROVE  LET d == Done(c, res)
           IN  /\ DOMAIN d = Fields /\ d.at = "done" /\ d.res = res
               /\ d.kind = c.kind /\ d.saw = c.saw /\ d.tokens = c.tokens /\ d.calls = c.calls
               /\ d.turn = c.turn /\ d.try = c.try /\ d.sends = c.sends /\ d.invoked = c.invoked
BY DEF Done, Fields

\* A child that ends as it is stays within the bounds.
LEMMA DoneKeeps ==
    ASSUME NEW c, KidOK(c), WithinBounds(c), NEW res, res # "none"
    PROVE  LET d == Done(c, res)
           IN  KidOK(d) /\ WithinBounds(d) /\ d.at = "done" /\ d.res = res /\ d.kind = c.kind /\ d.saw = c.saw
<1> PICK d : d = Done(c, res)
  OBVIOUS
<1>1. /\ DOMAIN d = Fields /\ d.at = "done" /\ d.res = res
      /\ d.kind = c.kind /\ d.saw = c.saw /\ d.tokens = c.tokens /\ d.calls = c.calls
      /\ d.turn = c.turn /\ d.try = c.try /\ d.sends = c.sends /\ d.invoked = c.invoked
  BY DoneFacts DEF KidOK
<1>2. KidOK(d)
  BY <1>1 DEF KidOK
<1>3. WithinBounds(d)
  BY <1>1 DEF WithinBounds
<1> QED
  BY <1>1, <1>2, <1>3

LEMMA DeterministicMoves ==
    ASSUME NEW a, NEW i, KidOK(child[a][i]), WithinBounds(child[a][i]), Deterministic(a, i)
    PROVE  StepOf(a, i)
<1>1. PICK c : c = child[a][i]
  OBVIOUS
<1>2. PICK res \in {"ok", "error"} : Become(a, i, Done(c, res))
  BY <1>1 DEF Deterministic
<1>3. c.kind \in {"auto", "det"} /\ c.at # "done" /\ requests' = requests
  BY <1>1 DEF Deterministic, Kind
<1> PICK d : d = Done(c, res)
  OBVIOUS
<1>4. KidOK(d) /\ WithinBounds(d) /\ d.at = "done" /\ d.res = res /\ d.kind = c.kind /\ d.saw = c.saw
  BY <1>1, DoneKeeps
<1>5. Moved(a, c, d)
  BY <1>3, <1>4 DEF Moved
<1> QED
  BY <1>1, <1>2, <1>4, <1>5 DEF StepOf

LEMMA GateGetMoves ==
    ASSUME NEW a, NEW i, KidOK(child[a][i]), WithinBounds(child[a][i]), GateGet(a, i)
    PROVE  StepOf(a, i)
<1>1. PICK c : c = child[a][i]
  OBVIOUS
<1>2. PICK state : state = requests[IntentOf[a]]
  OBVIOUS
<1>3. c.kind = "gate" /\ c.at = "start" /\ requests' = requests /\ KidOK(c) /\ WithinBounds(c)
  BY <1>1 DEF GateGet, Kind
<1> PICK d : d = AfterGet(c, state)
  OBVIOUS
<1>4. Become(a, i, d)
  BY <1>1, <1>2 DEF GateGet
<1>s. PICK seen : seen = [c EXCEPT !.saw = state]
  OBVIOUS
<1>5. /\ DOMAIN seen = Fields /\ seen.saw = state /\ seen.at = c.at /\ seen.res = c.res /\ seen.kind = c.kind
      /\ seen.turn = c.turn /\ seen.try = c.try /\ seen.sends = c.sends /\ seen.invoked = c.invoked
      /\ seen.calls = c.calls
  BY <1>3, <1>s DEF KidOK, Fields
<1>6. KidOK(seen) /\ WithinBounds(seen)
  BY <1>3, <1>5 DEF KidOK, WithinBounds
<1>7. CASE state = "none"
  <2>1. d = [seen EXCEPT !.at = "open"]
    BY <1>7, <1>s DEF AfterGet
  <2>2. /\ DOMAIN d = Fields /\ d.saw = "none" /\ d.at = "open" /\ d.res = c.res /\ d.kind = c.kind
        /\ d.turn = c.turn /\ d.try = c.try /\ d.sends = c.sends /\ d.invoked = c.invoked
        /\ d.calls = c.calls
    BY <1>5, <1>7, <2>1 DEF Fields
  <2>3. KidOK(d) /\ WithinBounds(d)
    BY <1>3, <2>2 DEF KidOK, WithinBounds
  <2>4. Moved(a, c, d)
    BY <1>3, <2>2 DEF Moved
  <2> QED
    BY <1>1, <1>4, <2>3, <2>4 DEF StepOf
<1>8. CASE state # "none"
  <2>1. \E res \in {"ok", "error"} : d = Done(seen, res) /\ (res = "ok" => state = "Approved")
    BY <1>8, <1>s DEF AfterGet
  <2>2. /\ KidOK(d) /\ WithinBounds(d) /\ d.at = "done" /\ d.kind = c.kind /\ d.saw = state
        /\ d.res = "ok" => state = "Approved"
    BY <1>5, <1>6, <2>1, DoneKeeps
  <2>3. Moved(a, c, d)
    BY <1>2, <1>3, <1>8, <2>2 DEF Moved
  <2> QED
    BY <1>1, <1>4, <2>2, <2>3 DEF StepOf
<1> QED
  BY <1>7, <1>8

LEMMA GateOpenMoves ==
    ASSUME NEW a, NEW i, KidOK(child[a][i]), WithinBounds(child[a][i]), GateOpen(a, i)
    PROVE  StepOf(a, i)
<1>1. PICK c : c = child[a][i]
  OBVIOUS
<1>2. /\ c.kind = "gate" /\ c.at = "open" /\ KidOK(c) /\ WithinBounds(c)
      /\ requests' = [requests EXCEPT ![IntentOf[a]] = "Pending"]
  BY <1>1 DEF GateOpen, Kind
<1> PICK d : d = Done(c, "error")
  OBVIOUS
<1>3. Become(a, i, d)
  BY <1>1 DEF GateOpen
<1>4. KidOK(d) /\ WithinBounds(d) /\ d.at = "done" /\ d.res = "error" /\ d.kind = c.kind /\ d.saw = c.saw
  BY <1>2, DoneKeeps
<1>5. Moved(a, c, d)
  BY <1>2, <1>4 DEF Moved, KidOK
<1> QED
  BY <1>1, <1>3, <1>4, <1>5 DEF StepOf

LEMMA EventWaitMoves ==
    ASSUME NEW a, NEW i, KidOK(child[a][i]), WithinBounds(child[a][i]), EventWait(a, i)
    PROVE  StepOf(a, i)
<1>1. PICK c : c = child[a][i]
  OBVIOUS
<1>2. c.kind = "wait" /\ c.at = "start" /\ requests' = requests /\ KidOK(c) /\ WithinBounds(c)
  BY <1>1 DEF EventWait, Kind
<1>3. PICK res \in {"ok", "error", "timeout"} :
         /\ WaitPoll(c, channel) = Done(c, res)
         /\ channel.value # "none" => res = "ok"
  BY <1>1 DEF EventWait, WaitPoll
<1> PICK d : d = Done(c, res)
  OBVIOUS
<1>4. Become(a, i, d)
  BY <1>1, <1>3 DEF EventWait
<1>5. KidOK(d) /\ WithinBounds(d) /\ d.at = "done" /\ d.res = res /\ d.kind = c.kind /\ d.saw = c.saw
  BY <1>2, DoneKeeps
<1>6. Moved(a, c, d)
  BY <1>2, <1>3, <1>5 DEF Moved
<1> QED
  BY <1>1, <1>4, <1>5, <1>6 DEF StepOf

LEMMA ElapseMoves ==
    ASSUME NEW a, NEW i, KidOK(child[a][i]), WithinBounds(child[a][i]), Elapse(a, i)
    PROVE  StepOf(a, i)
<1>1. PICK c : c = child[a][i]
  OBVIOUS
<1>2. c.kind = "wait" /\ c.at = "start" /\ requests' = requests /\ KidOK(c) /\ WithinBounds(c)
  BY <1>1 DEF Elapse, Kind
<1>d. PICK d : d = [c EXCEPT !.timer = @ - 1]
  OBVIOUS
<1>3. Become(a, i, d)
  BY <1>1, <1>d DEF Elapse
<1>4. /\ DOMAIN d = Fields /\ d.saw = c.saw /\ d.at = c.at /\ d.res = c.res /\ d.kind = c.kind
      /\ d.turn = c.turn /\ d.try = c.try /\ d.sends = c.sends /\ d.invoked = c.invoked
      /\ d.calls = c.calls
  BY <1>2, <1>d DEF KidOK, Fields
<1>5. KidOK(d) /\ WithinBounds(d)
  BY <1>2, <1>4 DEF KidOK, WithinBounds
<1>6. Moved(a, c, d)
  BY <1>2, <1>4 DEF Moved, KidOK
<1> QED
  BY <1>1, <1>3, <1>5, <1>6 DEF StepOf

\* A request more than a turn's start allows is still within the bounds.
LEMMA OneMoreSend ==
    ASSUME NEW c, KidOK(c), WithinBounds(c), c.at = "start"
    PROVE  /\ c.turn * (MaxRetries + 1) \in Nat
           /\ c.sends + 1 <= c.turn * (MaxRetries + 1) + c.try + 1
           /\ c.sends + 1 <= (MaxToolCalls + 1) * (MaxRetries + 1)
<1> USE ProviderAssumption, NodesAssumption
<1> DEFINE m == MaxRetries + 1
<1>1. PICK t \in Nat : t = c.turn
  BY DEF KidOK
<1>2. t <= MaxToolCalls /\ MaxToolCalls \in Nat /\ m \in Nat
  BY <1>1 DEF WithinBounds
<1>3. t * m \in Nat /\ t * m <= MaxToolCalls * m
  BY <1>2, Products
<1>4. (MaxToolCalls + 1) * m = MaxToolCalls * m + m /\ MaxToolCalls * m \in Nat
  BY <1>2, Products
<1>5. c.sends \in Nat /\ c.try \in Nat /\ c.try <= MaxRetries /\ c.sends <= t * m + c.try
  BY <1>1 DEF KidOK, WithinBounds
<1>6. PICK x \in Nat, y \in Nat : x = t * m /\ y = MaxToolCalls * m
  BY <1>3, <1>4
<1>7. c.sends + 1 <= x + c.try + 1 /\ c.sends + 1 <= y + m
  BY <1>3, <1>5, <1>6
<1> QED
  BY <1>1, <1>3, <1>4, <1>6, <1>7

\* An agent's child with other counters and another state, within the bounds.
LEMMA AgentMoved ==
    ASSUME NEW a, NEW i, NEW d, child[a][i].kind = "agent", child[a][i].at # "done",
           Become(a, i, d), KidOK(d), WithinBounds(d), d.kind = "agent", requests' = requests
    PROVE  StepOf(a, i)
<1>1. PICK c : c = child[a][i]
  OBVIOUS
<1>2. Moved(a, c, d)
  BY <1>1 DEF Moved
<1> QED
  BY <1>1, <1>2 DEF StepOf

LEMMA AgentSendMoves ==
    ASSUME NEW a, NEW i, KidOK(child[a][i]), WithinBounds(child[a][i]), AgentSend(a, i)
    PROVE  StepOf(a, i)
<1> USE ProviderAssumption, NodesAssumption
<1>1. PICK o : o = child[a][i]
  OBVIOUS
<1>2. o.kind = "agent" /\ o.at = "start" /\ requests' = requests /\ KidOK(o) /\ WithinBounds(o)
  BY <1>1 DEF AgentSend, Kind
<1>c. PICK c : c = [o EXCEPT !.sends = @ + 1]
  OBVIOUS
<1>3. /\ DOMAIN c = Fields /\ c.saw = o.saw /\ c.at = "start" /\ c.res = o.res /\ c.kind = "agent"
      /\ c.turn = o.turn /\ c.try = o.try /\ c.sends = o.sends + 1 /\ c.invoked = o.invoked
      /\ c.calls = o.calls
  BY <1>2, <1>c DEF KidOK, Fields
<1>4. PICK x \in Nat : x = o.turn * (MaxRetries + 1)
  BY <1>2, OneMoreSend
<1>5. o.sends + 1 <= x + o.try + 1 /\ o.sends + 1 <= (MaxToolCalls + 1) * (MaxRetries + 1)
  BY <1>2, <1>4, OneMoreSend
<1>6. KidOK(c)
  BY <1>2, <1>3 DEF KidOK
<1>7. /\ c.turn <= MaxToolCalls /\ c.try <= MaxRetries /\ c.invoked <= MaxToolCalls /\ c.invoked = c.turn
      /\ c.turn * (MaxRetries + 1) = x
  BY <1>2, <1>3, <1>4 DEF WithinBounds
\* The agent ends, having counted the request
<1>8. ASSUME NEW p, DOMAIN p = Fields, \A f \in Fields \ {"tokens"} : p[f] = c[f],
             NEW res \in {"ok", "error"}, Become(a, i, Done(p, res))
      PROVE  StepOf(a, i)
  <2>d. PICK d : d = Done(p, res)
    OBVIOUS
  <2>p. /\ p.kind = "agent" /\ p.calls = c.calls /\ p.turn = c.turn /\ p.try = c.try /\ p.sends = c.sends
        /\ p.invoked = c.invoked
    BY <1>3, <1>8 DEF Fields
  <2>1. /\ DOMAIN d = Fields /\ d.at = "done" /\ d.res = res /\ d.kind = "agent" /\ d.calls = c.calls
        /\ d.turn = c.turn /\ d.try = c.try /\ d.sends = c.sends /\ d.invoked = c.invoked
    BY <1>8, <2>d, <2>p, DoneFacts
  <2>2. KidOK(d)
    BY <1>6, <2>1 DEF KidOK
  <2>3. WithinBounds(d)
    BY <1>3, <1>5, <1>7, <2>1 DEF WithinBounds
  <2> QED
    BY <1>1, <1>2, <1>8, <2>d, <2>1, <2>2, <2>3, AgentMoved
<1>9. ASSUME NEW status, AfterStatus(status, c.try) = "again", Become(a, i, [c EXCEPT !.at = "sleep"])
      PROVE  StepOf(a, i)
  <2>d. PICK d : d = [c EXCEPT !.at = "sleep"]
    OBVIOUS
  <2>1. /\ DOMAIN d = Fields /\ d.at = "sleep" /\ d.res = c.res /\ d.kind = "agent" /\ d.calls = c.calls
        /\ d.turn = c.turn /\ d.try = c.try /\ d.sends = c.sends /\ d.invoked = c.invoked
    BY <1>3, <2>d DEF Fields
  <2>2. KidOK(d)
    BY <1>3, <1>6, <2>1 DEF KidOK
  <2>3. c.try < MaxRetries
    BY <1>9 DEF AfterStatus
  <2>4. WithinBounds(d)
    BY <1>3, <1>5, <1>7, <2>1, <2>3 DEF WithinBounds
  <2> QED
    BY <1>1, <1>2, <1>9, <2>d, <2>1, <2>2, <2>4, AgentMoved
<1>10. ASSUME NEW reply, Become(a, i, AfterReply(c, reply))
       PROVE  StepOf(a, i)
  <2>p. PICK p : p = [c EXCEPT !.tokens = @ + reply.tokens]
    OBVIOUS
  <2>1. DOMAIN p = Fields /\ \A f \in Fields \ {"tokens"} : p[f] = c[f]
    BY <1>3, <2>p DEF Fields
  <2>2. CASE AfterReply(c, reply) = Done(p, "ok")
    BY <1>8, <1>10, <2>1, <2>2
  <2>3. CASE AfterReply(c, reply) = [p EXCEPT !.at = "find", !.saw = reply.tool] /\ ~(c.turn >= MaxToolCalls)
    <3>d. PICK d : d = [p EXCEPT !.at = "find", !.saw = reply.tool]
      OBVIOUS
    <3>1. /\ DOMAIN d = Fields /\ d.at = "find" /\ d.res = c.res /\ d.kind = "agent" /\ d.calls = c.calls
          /\ d.turn = c.turn /\ d.try = c.try /\ d.sends = c.sends /\ d.invoked = c.invoked
      BY <1>3, <2>1, <3>d DEF Fields
    <3>2. KidOK(d)
      BY <1>3, <1>6, <3>1 DEF KidOK
    <3>3. c.turn < MaxToolCalls
      BY <1>6, <2>3 DEF KidOK
    <3>4. WithinBounds(d)
      BY <1>3, <1>5, <1>7, <3>1, <3>3 DEF WithinBounds
    <3> QED
      BY <1>1, <1>2, <1>10, <2>3, <3>d, <3>1, <3>2, <3>4, AgentMoved
  <2> QED
    BY <2>2, <2>3, <2>p DEF AfterReply
<1>11. \/ Become(a, i, Done(c, "error"))
       \/ \E status \in Statuses : AfterStatus(status, c.try) = "again" /\ Become(a, i, [c EXCEPT !.at = "sleep"])
       \/ \E body \in Bodies : Become(a, i, AfterReply(c, ParseResponse(body, Model)))
  BY <1>1, <1>c DEF AgentSend
<1> QED
  BY <1>3, <1>8, <1>9, <1>10, <1>11

LEMMA AgentBackoffMoves ==
    ASSUME NEW a, NEW i, KidOK(child[a][i]), WithinBounds(child[a][i]), AgentBackoff(a, i)
    PROVE  StepOf(a, i)
<1> USE ProviderAssumption, NodesAssumption
<1>1. PICK c : c = child[a][i]
  OBVIOUS
<1>2. c.kind = "agent" /\ c.at = "sleep" /\ requests' = requests /\ KidOK(c) /\ WithinBounds(c)
  BY <1>1 DEF AgentBackoff, Kind
<1>d. PICK d : d = [c EXCEPT !.at = "start", !.try = @ + 1]
  OBVIOUS
<1>3. Become(a, i, d)
  BY <1>1, <1>d DEF AgentBackoff
<1>4. /\ DOMAIN d = Fields /\ d.at = "start" /\ d.res = c.res /\ d.kind = "agent" /\ d.calls = c.calls
      /\ d.turn = c.turn /\ d.try = c.try + 1 /\ d.sends = c.sends /\ d.invoked = c.invoked
  BY <1>2, <1>d DEF KidOK, Fields
<1>5. PICK x \in Nat : x = c.turn * (MaxRetries + 1)
  BY <1>2, Products DEF KidOK
<1>6. /\ c.try < MaxRetries /\ c.sends <= x + c.try + 1 /\ c.try \in Nat /\ c.sends \in Nat
      /\ c.turn <= MaxToolCalls /\ c.invoked <= MaxToolCalls /\ c.invoked = c.turn
      /\ c.sends <= (MaxToolCalls + 1) * (MaxRetries + 1)
  BY <1>2, <1>5 DEF WithinBounds, KidOK
<1>7. KidOK(d)
  BY <1>2, <1>4 DEF KidOK
<1>8. WithinBounds(d)
  BY <1>4, <1>5, <1>6 DEF WithinBounds
<1> QED
  BY <1>1, <1>2, <1>3, <1>4, <1>7, <1>8, AgentMoved

LEMMA AgentFindMoves ==
    ASSUME NEW a, NEW i, KidOK(child[a][i]), WithinBounds(child[a][i]), AgentFind(a, i)
    PROVE  StepOf(a, i)
<1>1. PICK c : c = child[a][i]
  OBVIOUS
<1>2. c.kind = "agent" /\ c.at = "find" /\ requests' = requests /\ KidOK(c) /\ WithinBounds(c)
  BY <1>1 DEF AgentFind, Kind
<1>3. CASE Become(a, i, Done(c, "error"))
  <2>1. PICK d : d = Done(c, "error")
    OBVIOUS
  <2>2. KidOK(d) /\ WithinBounds(d) /\ d.kind = c.kind
    BY <1>2, <2>1, DoneKeeps
  <2> QED
    BY <1>1, <1>2, <1>3, <2>1, <2>2, AgentMoved
<1>4. CASE Become(a, i, [c EXCEPT !.at = "invoke"])
  <2>d. PICK d : d = [c EXCEPT !.at = "invoke"]
    OBVIOUS
  <2>1. /\ DOMAIN d = Fields /\ d.at = "invoke" /\ d.res = c.res /\ d.kind = "agent" /\ d.calls = c.calls
        /\ d.turn = c.turn /\ d.try = c.try /\ d.sends = c.sends /\ d.invoked = c.invoked
    BY <1>2, <2>d DEF KidOK, Fields
  <2>2. KidOK(d)
    BY <1>2, <2>1 DEF KidOK
  <2>3. WithinBounds(d)
    BY <1>2, <2>1 DEF WithinBounds
  <2> QED
    BY <1>1, <1>2, <1>4, <2>d, <2>1, <2>2, <2>3, AgentMoved
<1> QED
  BY <1>1, <1>3, <1>4 DEF AgentFind

LEMMA AgentInvokeMoves ==
    ASSUME NEW a, NEW i, KidOK(child[a][i]), WithinBounds(child[a][i]), AgentInvoke(a, i)
    PROVE  StepOf(a, i)
<1>0. MaxRetries \in Nat /\ MaxToolCalls \in Nat
  BY ProviderAssumption, NodesAssumption
<1>1. PICK c : c = child[a][i]
  OBVIOUS
<1>2. c.kind = "agent" /\ c.at = "invoke" /\ requests' = requests /\ KidOK(c) /\ WithinBounds(c)
  BY <1>1 DEF AgentInvoke, Kind
<1>3. PICK res \in {"ok", "error", "panic"} : Become(a, i, AfterTool(c, res))
  BY <1>1 DEF AgentInvoke
<1>4. PICK x \in Nat : x = c.turn * (MaxRetries + 1) /\ (c.turn + 1) * (MaxRetries + 1) = x + MaxRetries + 1
  <2>1. PICK t \in Nat : t = c.turn
    BY <1>2 DEF KidOK
  <2>2. t * (MaxRetries + 1) \in Nat /\ (t + 1) * (MaxRetries + 1) = t * (MaxRetries + 1) + (MaxRetries + 1)
    BY <1>0, Products
  <2> QED
    BY <1>0, <2>1, <2>2
<1>5. /\ c.turn \in Nat /\ c.try \in Nat /\ c.sends \in Nat /\ c.invoked \in Nat /\ c.res = "none"
      /\ c.turn < MaxToolCalls /\ c.try <= MaxRetries /\ c.invoked = c.turn /\ c.sends <= x + c.try + 1
      /\ c.sends <= (MaxToolCalls + 1) * (MaxRetries + 1)
  BY <1>0, <1>2, <1>4 DEF KidOK, WithinBounds
<1>6. CASE res = "ok"
  <2>d. PICK d : d = AfterTool(c, res)
    OBVIOUS
  <2>1. d = [c EXCEPT !.at = "start", !.turn = @ + 1, !.try = 0, !.calls = Append(@, c.saw), !.invoked = @ + 1]
    BY <1>6, <2>d DEF AfterTool
  <2>2. /\ DOMAIN d = Fields /\ d.at = "start" /\ d.res = c.res /\ d.kind = "agent"
        /\ d.calls = Append(c.calls, c.saw)
        /\ d.turn = c.turn + 1 /\ d.try = 0 /\ d.sends = c.sends /\ d.invoked = c.invoked + 1
    BY <1>2, <2>1 DEF KidOK, Fields
  <2>3. \E S : d.calls \in Seq(S)
    <3>1. PICK S : c.calls \in Seq(S)
      BY <1>2 DEF KidOK
    <3>2. c.calls \in Seq(S \cup {c.saw})
      BY <3>1
    <3>3. Append(c.calls, c.saw) \in Seq(S \cup {c.saw})
      BY <3>2
    <3> QED
      BY <2>2, <3>3
  <2>4. KidOK(d)
    <3>1. d.turn \in Nat /\ d.try \in Nat /\ d.sends \in Nat /\ d.invoked \in Nat
      BY <1>5, <2>2
    <3> QED
      BY <1>5, <2>2, <2>3, <3>1 DEF KidOK
  <2>5. WithinBounds(d)
    <3>1. d.turn * (MaxRetries + 1) = x + MaxRetries + 1
      BY <1>4, <2>2
    <3>2. d.turn <= MaxToolCalls /\ d.try <= MaxRetries /\ d.invoked = d.turn
      BY <1>0, <1>5, <2>2
    <3>3. d.sends <= d.turn * (MaxRetries + 1) + d.try /\ d.sends <= (MaxToolCalls + 1) * (MaxRetries + 1)
      BY <1>0, <1>5, <2>2, <3>1
    <3> QED
      BY <2>2, <3>2, <3>3 DEF WithinBounds
  <2> QED
    BY <1>1, <1>2, <1>3, <2>d, <2>2, <2>4, <2>5, AgentMoved
<1>7. CASE res # "ok"
  <2>p. PICK p : p = [c EXCEPT !.invoked = @ + 1]
    OBVIOUS
  <2>1. /\ DOMAIN p = Fields /\ p.kind = "agent" /\ p.calls = c.calls /\ p.turn = c.turn /\ p.try = c.try
        /\ p.sends = c.sends /\ p.invoked = c.invoked + 1
    BY <1>2, <2>p DEF KidOK, Fields
  <2>d. PICK d : d = Done(p, res)
    OBVIOUS
  <2>2. /\ DOMAIN d = Fields /\ d.at = "done" /\ d.res = res /\ d.kind = "agent" /\ d.calls = c.calls
        /\ d.turn = c.turn /\ d.try = c.try /\ d.sends = c.sends /\ d.invoked = c.invoked + 1
    BY <2>1, <2>d, DoneFacts
  <2>3. KidOK(d)
    <3>1. d.turn \in Nat /\ d.try \in Nat /\ d.sends \in Nat /\ d.invoked \in Nat
      BY <1>5, <2>2
    <3>2. \E S : d.calls \in Seq(S)
      BY <1>2, <2>2 DEF KidOK
    <3> QED
      BY <2>2, <3>1, <3>2 DEF KidOK
  <2>4. WithinBounds(d)
    <3>1. d.turn <= MaxToolCalls /\ d.try <= MaxRetries /\ d.invoked <= MaxToolCalls
      BY <1>0, <1>5, <2>2
    <3> QED
      BY <1>5, <2>2, <3>1 DEF WithinBounds
  <2>5. Become(a, i, d)
    BY <1>3, <1>7, <2>p, <2>d DEF AfterTool
  <2> QED
    BY <1>1, <1>2, <2>2, <2>3, <2>4, <2>5, AgentMoved
<1> QED
  BY <1>6, <1>7

\* Every step of a child is one of these, and leaves the fork, the channel and the answers alone.
LEMMA KidMoves ==
    ASSUME NEW a, NEW i, KidOK(child[a][i]), WithinBounds(child[a][i]), ChildStep(a, i)
    PROVE  StepOf(a, i) /\ UNCHANGED <<work, answers, channel, registered, fork, caller, remaining, spent>>
<1>1. StepOf(a, i)
  BY DeterministicMoves, GateGetMoves, GateOpenMoves, EventWaitMoves, ElapseMoves, AgentSendMoves,
     AgentBackoffMoves, AgentFindMoves, AgentInvokeMoves DEF ChildStep
<1>2. UNCHANGED <<work, answers, channel, registered, fork, budgetVars>>
  BY DEF ChildStep, Deterministic, GateGet, GateOpen, EventWait, Elapse, AgentSend, AgentBackoff,
         AgentFind, AgentInvoke
<1> QED
  BY <1>1, <1>2 DEF budgetVars

-----------------------------------------------------------------------------
(* The invariants *)

\* Forks and children are what they were declared to be, and within their bounds.
ShapeInv ==
    /\ DOMAIN child = Attempts /\ DOMAIN fork = Attempts
    /\ DOMAIN requests = Intents /\ DOMAIN answers = Intents
    /\ DOMAIN channel = {"value", "open"}
    /\ \A a \in Attempts : \E S : child[a] \in Seq(S)
    /\ \A a \in Attempts : \A i \in DOMAIN child[a] : KidOK(child[a][i]) /\ WithinBounds(child[a][i])
    /\ \A a \in Attempts : fork[a].at = "idle" => child[a] = <<>>

\* The i-th child of a is a gate of the intent that found no request and opened one.
OpenedBy(intent, a, i) ==
    /\ a \in Attempts /\ IntentOf[a] = intent /\ i \in DOMAIN child[a]
    /\ child[a][i].kind = "gate" /\ child[a][i].at = "done" /\ child[a][i].saw = "none"

\* A request was opened by a gate, an answer was given to a request, and an answer that
\* is no longer there was covered by a second gate.
GateInv ==
    /\ \A intent \in Intents :
         /\ requests[intent] = "none" => answers[intent] = {}
         /\ requests[intent] = "Approved" => "Approved" \in answers[intent]
         /\ requests[intent] # "none" => \E a, i : OpenedBy(intent, a, i)
         /\ requests[intent] = "Pending" /\ answers[intent] # {} =>
              \E a, i, b, j : <<a, i>> # <<b, j>> /\ OpenedBy(intent, a, i) /\ OpenedBy(intent, b, j)
    /\ \A a \in Attempts : \A i \in DOMAIN child[a] :
         child[a][i].kind = "gate" /\ child[a][i].res = "ok" => "Approved" \in answers[IntentOf[a]]

\* A wait that began with its event there does not fail.
WaitInv ==
    \A a \in Attempts : \A i \in DOMAIN child[a] :
        child[a][i].kind = "wait" /\ child[a][i].saw # "none" =>
            channel.value # "none" /\ child[a][i].res \in {"none", "ok"}

\* Where a join is: behind it children that succeeded, whose tokens it has added up.
JoinOK(f, c) ==
    /\ DOMAIN f = {"at", "next", "tokens", "res"}
    /\ f.next \in Nat /\ f.next >= 1 /\ f.next <= Len(c) + 1
    /\ f.at # "done" => f.res = "none"
    /\ \A i \in 1..(f.next - 1) : c[i].res = "ok"
    /\ f.tokens = TokensOf(c, f.next - 1)
    /\ f.res = "ok" => f.next = Len(c) + 1
    /\ f.res = "error" => f.next <= Len(c) /\ c[f.next].res \notin {"none", "ok"}
ForkInv == \A a \in Attempts : JoinOK(fork[a], child[a])

NodesInv == ShapeInv /\ GateInv /\ WaitInv /\ ForkInv

\* A child that has ended stays as it is, and children are only ever added.
DoneStay ==
    \A a \in Attempts : \A i \in DOMAIN child[a] :
        /\ i \in DOMAIN child'[a]
        /\ child[a][i].at = "done" => child'[a][i] = child[a][i]

\* A step of one child leaves all of the others alone.
LEMMA BecomeFacts ==
    ASSUME DOMAIN child = Attempts, NEW a \in Attempts, \E S : child[a] \in Seq(S),
           NEW i \in DOMAIN child[a], NEW d, Become(a, i, d)
    PROVE  /\ DOMAIN child' = Attempts /\ child'[a][i] = d
           /\ DOMAIN child'[a] = DOMAIN child[a] /\ Len(child'[a]) = Len(child[a])
           /\ \E S : child'[a] \in Seq(S)
           /\ \A j \in DOMAIN child[a] : j # i => child'[a][j] = child[a][j]
           /\ \A b \in Attempts : b # a => child'[b] = child[b]
<1>1. PICK s : s = child[a]
  OBVIOUS
<1>2. PICK S : s \in Seq(S)
  BY <1>1
<1>3. PICK r : r = [s EXCEPT ![i] = d]
  OBVIOUS
<1>4. child' = [child EXCEPT ![a] = r]
  BY <1>1, <1>3 DEF Become
<1>5. s \in Seq(S \cup {d}) /\ i \in 1..Len(s)
  BY <1>1, <1>2
<1>6. r \in Seq(S \cup {d}) /\ Len(r) = Len(s) /\ DOMAIN r = DOMAIN s /\ r[i] = d
  BY <1>3, <1>5
<1>7. \A j \in DOMAIN s : j # i => r[j] = s[j]
  BY <1>3
<1>8. DOMAIN child' = Attempts /\ child'[a] = r /\ \A b \in Attempts : b # a => child'[b] = child[b]
  BY <1>4
<1> QED
  BY <1>1, <1>6, <1>7, <1>8

\* What the step of a child does to the state, in one place.
LEMMA KidStep ==
    ASSUME ShapeInv, NEW a \in Attempts, NEW i \in DOMAIN child[a], ChildStep(a, i)
    PROVE  \E d :
             /\ KidOK(d) /\ WithinBounds(d) /\ Moved(a, child[a][i], d)
             /\ DOMAIN child' = Attempts /\ child'[a][i] = d
             /\ DOMAIN child'[a] = DOMAIN child[a] /\ Len(child'[a]) = Len(child[a])
             /\ \E S : child'[a] \in Seq(S)
             /\ \A j \in DOMAIN child[a] : j # i => child'[a][j] = child[a][j]
             /\ \A b \in Attempts : b # a => child'[b] = child[b]
             /\ UNCHANGED <<work, answers, channel, registered, fork, caller, remaining, spent>>
<1>1. KidOK(child[a][i]) /\ WithinBounds(child[a][i]) /\ DOMAIN child = Attempts /\ \E S : child[a] \in Seq(S)
  BY DEF ShapeInv
<1>2. StepOf(a, i) /\ UNCHANGED <<work, answers, channel, registered, fork, caller, remaining, spent>>
  BY <1>1, KidMoves
<1>3. PICK d : Become(a, i, d) /\ KidOK(d) /\ WithinBounds(d) /\ Moved(a, child[a][i], d)
  BY <1>2 DEF StepOf
<1> QED
  BY <1>1, <1>2, <1>3, BecomeFacts

\* What the start of a fork does.
LEMMA StartStep ==
    ASSUME ShapeInv, NEW a \in Attempts, ForkStart(a)
    PROVE  /\ fork[a].at = "idle" /\ child[a] = <<>> /\ DOMAIN child' = Attempts
           /\ \E S : child'[a] \in Seq(S)
           /\ \A i \in DOMAIN child'[a] :
                /\ KidOK(child'[a][i]) /\ WithinBounds(child'[a][i]) /\ child'[a][i].res = "none"
                /\ child'[a][i].kind = "wait" => child'[a][i].saw = channel.value
           /\ \A b \in Attempts : b # a => child'[b] = child[b]
           /\ fork' = [fork EXCEPT ![a].at = "join"]
           /\ UNCHANGED <<work, requests, answers, channel, registered, caller, remaining, spent>>
<1>1. PICK n \in Nat : n = Len(Children[a])
  BY NodesAssumption
<1>2. PICK r : r = [i \in 1..n |-> Spawn(a, Children[a][i])]
  OBVIOUS
<1>3. /\ child' = [child EXCEPT ![a] = r] /\ fork[a].at = "idle"
      /\ fork' = [fork EXCEPT ![a].at = "join"]
      /\ UNCHANGED <<work, requests, answers, channel, registered, caller, remaining, spent>>
  BY <1>1, <1>2 DEF ForkStart, budgetVars
<1>4. DOMAIN child' = Attempts /\ child'[a] = r /\ child[a] = <<>> /\ \A b \in Attempts : b # a => child'[b] = child[b]
  BY <1>3 DEF ShapeInv
<1>5. \E S : r \in Seq(S)
  <2> DEFINE S == {Spawn(a, Children[a][i]) : i \in 1..n}
  <2>1. \A i \in 1..n : Spawn(a, Children[a][i]) \in S
    OBVIOUS
  <2> HIDE DEF S
  <2>2. r \in Seq(S)
    BY <1>2, <2>1
  <2> QED
    BY <2>2
<1>6. ASSUME NEW i \in DOMAIN r
      PROVE  /\ KidOK(r[i]) /\ WithinBounds(r[i]) /\ r[i].res = "none"
             /\ r[i].kind = "wait" => r[i].saw = channel.value
  <2>1. PICK k : k = Children[a][i]
    OBVIOUS
  <2>2. r[i] = Spawn(a, k)
    BY <1>2, <2>1
  <2>3. PICK d : d = Spawn(a, k)
    OBVIOUS
  <2>4. /\ DOMAIN d = Fields /\ d.kind = k /\ d.at = "start" /\ d.res = "none"
        /\ d.saw = IF k = "wait" THEN channel.value ELSE "none"
        /\ d.turn = 0 /\ d.try = 0 /\ d.sends = 0 /\ d.invoked = 0 /\ d.calls = <<>>
    BY <2>3 DEF Spawn, Fields
  <2>5. KidOK(d)
    <3>1. d.calls \in Seq({})
      BY <2>4
    <3> QED
      BY <2>4, <3>1 DEF KidOK
  <2>6. MaxRetries \in Nat /\ MaxToolCalls \in Nat
    BY ProviderAssumption, NodesAssumption
  <2>7. 0 * (MaxRetries + 1) = 0 /\ (MaxToolCalls + 1) * (MaxRetries + 1) \in Nat
    BY <2>6, Products
  <2>8. WithinBounds(d)
    BY <2>4, <2>6, <2>7 DEF WithinBounds
  <2> QED
    BY <2>2, <2>3, <2>4, <2>5, <2>8
<1> QED
  BY <1>3, <1>4, <1>5, <1>6

\* The steps that touch no child: the two of a join, and those of the world around the forks.
OtherStep ==
    \/ \E a \in Attempts : ForkJoin(a) \/ ForkReturn(a)
    \/ \E intent \in Intents, answer \in {"Approved", "Rejected"} : Resolve(intent, answer)
    \/ SendEvent \/ DropSender
    \/ \E tool \in Tools : Deregister(tool)
    \/ \E k \in Callers : CallCheck(k) \/ CallDeduct(k)
    \/ UNCHANGED vars

LEMMA StepsSplit ==
    ASSUME [Next]_vars
    PROVE  \/ \E a \in Attempts : ForkStart(a)
           \/ \E a \in Attempts : \E i \in DOMAIN child[a] : ChildStep(a, i)
           \/ OtherStep
BY DEF Next, AttemptNext, OtherStep

\* A join is not idle, before or after; so nothing but the start of a fork gives it children.
LEMMA OtherFacts ==
    ASSUME OtherStep, DOMAIN fork = Attempts, \A a \in Attempts : DOMAIN fork[a] = {"at", "next", "tokens", "res"}
    PROVE  /\ UNCHANGED <<work, child>> /\ DOMAIN fork' = Attempts
           /\ \A a \in Attempts : fork'[a].at = "idle" => fork[a].at = "idle"
<1>1. UNCHANGED <<work, child>>
  BY DEF OtherStep, ForkJoin, ForkReturn, Resolve, SendEvent, DropSender, Deregister, CallCheck, CallDeduct,
         nodeVars, vars
<1>2. CASE UNCHANGED fork
  BY <1>1, <1>2
<1>3. ASSUME NEW a \in Attempts, ForkJoin(a)
      PROVE  DOMAIN fork' = Attempts /\ \A b \in Attempts : fork'[b].at = "idle" => fork[b].at = "idle"
  <2>1. PICK f : f = AfterChild(fork[a], child[a][fork[a].next])
    OBVIOUS
  <2>2. fork' = [fork EXCEPT ![a] = f] /\ fork[a].at = "join"
    BY <1>3, <2>1 DEF ForkJoin
  <2>3. f.at # "idle"
    <3>1. PICK g : g = fork[a]
      OBVIOUS
    <3>2. DOMAIN g = {"at", "next", "tokens", "res"} /\ g.at = "join"
      BY <2>2, <3>1
    <3> QED
      BY <2>1, <3>1, <3>2 DEF AfterChild
  <2> QED
    BY <2>2, <2>3
<1>4. ASSUME NEW a \in Attempts, ForkReturn(a)
      PROVE  DOMAIN fork' = Attempts /\ \A b \in Attempts : fork'[b].at = "idle" => fork[b].at = "idle"
  <2>1. PICK g : g = fork[a]
    OBVIOUS
  <2>2. PICK f : f = [g EXCEPT !.at = "done", !.res = "ok"]
    OBVIOUS
  <2>3. fork' = [fork EXCEPT ![a] = f] /\ DOMAIN g = {"at", "next", "tokens", "res"}
    BY <1>4, <2>1, <2>2 DEF ForkReturn
  <2>4. f.at # "idle"
    BY <2>2, <2>3
  <2> QED
    BY <2>3, <2>4
<1> QED
  BY <1>1, <1>2, <1>3, <1>4
     DEF OtherStep, Resolve, SendEvent, DropSender, Deregister, CallCheck, CallDeduct, nodeVars, vars

\* The requests change in two ways only, neither of which loses one.
LEMMA RequestsShape ==
    ASSUME DOMAIN requests = Intents, NEW a, NEW c, NEW d, Moved(a, c, d)
    PROVE  DOMAIN requests' = Intents
BY DEF Moved

LEMMA ShapeNext ==
    ASSUME ShapeInv, ForkInv, [Next]_vars
    PROVE  ShapeInv' /\ DoneStay
<1>1. ASSUME NEW a \in Attempts, ForkStart(a)
      PROVE  ShapeInv' /\ DoneStay
  <2>1. /\ fork[a].at = "idle" /\ child[a] = <<>> /\ DOMAIN child' = Attempts
        /\ \E S : child'[a] \in Seq(S)
        /\ \A i \in DOMAIN child'[a] : KidOK(child'[a][i]) /\ WithinBounds(child'[a][i])
        /\ \A b \in Attempts : b # a => child'[b] = child[b]
        /\ fork' = [fork EXCEPT ![a].at = "join"]
        /\ UNCHANGED <<requests, answers, channel>>
    BY <1>1, StartStep
  <2>2. PICK kids : kids = child'
    OBVIOUS
  <2>3. DoneStay
    BY <2>1 DEF DoneStay
  <2>4. DOMAIN fork' = Attempts /\ fork'[a].at # "idle" /\ \A b \in Attempts : b # a => fork'[b] = fork[b]
    <3>1. DOMAIN fork = Attempts /\ DOMAIN fork[a] = {"at", "next", "tokens", "res"}
      BY DEF ShapeInv, ForkInv, JoinOK
    <3>2. fork' = [fork EXCEPT ![a] = [fork[a] EXCEPT !.at = "join"]]
      BY <2>1
    <3>3. [fork[a] EXCEPT !.at = "join"].at = "join"
      BY <3>1
    <3> QED
      BY <3>1, <3>2, <3>3
  <2>5. \A b \in Attempts : \E S : kids[b] \in Seq(S)
    BY <2>1, <2>2 DEF ShapeInv
  <2>6. \A b \in Attempts : \A i \in DOMAIN kids[b] : KidOK(kids[b][i]) /\ WithinBounds(kids[b][i])
    BY <2>1, <2>2 DEF ShapeInv
  <2>7. \A b \in Attempts : fork'[b].at = "idle" => kids[b] = <<>>
    BY <2>1, <2>2, <2>4 DEF ShapeInv
  <2>8. DOMAIN requests' = Intents /\ DOMAIN answers' = Intents /\ DOMAIN channel' = {"value", "open"}
    BY <2>1 DEF ShapeInv
  <2> QED
    BY <2>1, <2>2, <2>3, <2>4, <2>5, <2>6, <2>7, <2>8 DEF ShapeInv
<1>2. ASSUME NEW a \in Attempts, NEW i \in DOMAIN child[a], ChildStep(a, i)
      PROVE  ShapeInv' /\ DoneStay
  <2>1. PICK d :
           /\ KidOK(d) /\ WithinBounds(d) /\ Moved(a, child[a][i], d)
           /\ DOMAIN child' = Attempts /\ child'[a][i] = d
           /\ DOMAIN child'[a] = DOMAIN child[a] /\ Len(child'[a]) = Len(child[a])
           /\ \E S : child'[a] \in Seq(S)
           /\ \A j \in DOMAIN child[a] : j # i => child'[a][j] = child[a][j]
           /\ \A b \in Attempts : b # a => child'[b] = child[b]
           /\ UNCHANGED <<work, answers, channel, registered, fork, caller, remaining, spent>>
    BY <1>2, KidStep
  <2>2. PICK kids : kids = child'
    OBVIOUS
  <2>3. child[a][i].at # "done"
    BY <2>1 DEF Moved
  <2>4. DoneStay
    BY <2>1, <2>3 DEF DoneStay
  <2>5. \A b \in Attempts : \E S : kids[b] \in Seq(S)
    BY <2>1, <2>2 DEF ShapeInv
  <2>6. \A b \in Attempts : \A j \in DOMAIN kids[b] : KidOK(kids[b][j]) /\ WithinBounds(kids[b][j])
    BY <2>1, <2>2 DEF ShapeInv
  <2>7. \A b \in Attempts : fork'[b].at = "idle" => kids[b] = <<>>
    <3>1. fork[a].at # "idle"
      BY DEF ShapeInv
    <3> QED
      BY <2>1, <2>2, <3>1 DEF ShapeInv
  <2>8. DOMAIN requests' = Intents /\ DOMAIN answers' = Intents /\ DOMAIN channel' = {"value", "open"}
        /\ DOMAIN fork' = Attempts
    BY <2>1, RequestsShape DEF ShapeInv
  <2> QED
    BY <2>1, <2>2, <2>4, <2>5, <2>6, <2>7, <2>8 DEF ShapeInv
<1>3. CASE OtherStep
  <2>1. /\ UNCHANGED child /\ DOMAIN fork' = Attempts
        /\ \A a \in Attempts : fork'[a].at = "idle" => fork[a].at = "idle"
    BY <1>3, OtherFacts DEF ShapeInv, ForkInv, JoinOK
  <2>2. DoneStay
    BY <2>1 DEF DoneStay
  <2>3. DOMAIN requests' = Intents /\ DOMAIN answers' = Intents /\ DOMAIN channel' = {"value", "open"}
    BY <1>3 DEF ShapeInv, OtherStep, ForkJoin, ForkReturn, Resolve, SendEvent, DropSender, Deregister, CallCheck,
                CallDeduct, nodeVars, vars
  <2> QED
    BY <2>1, <2>2, <2>3 DEF ShapeInv
<1> QED
  BY <1>1, <1>2, <1>3, StepsSplit

\* What opened a request stays there.
LEMMA OpenedStays ==
    ASSUME ShapeInv, DoneStay, NEW intent, NEW a, NEW i, OpenedBy(intent, a, i)
    PROVE  OpenedBy(intent, a, i)'
<1>1. a \in Attempts /\ i \in DOMAIN child[a] /\ child[a][i].at = "done" /\ child[a][i].kind = "gate"
      /\ child[a][i].saw = "none" /\ IntentOf[a] = intent
  BY DEF OpenedBy
<1>2. i \in DOMAIN child'[a] /\ child'[a][i] = child[a][i]
  BY <1>1 DEF DoneStay
<1> QED
  BY <1>1, <1>2 DEF OpenedBy

\* GateInv holds on where the requests and answers stay and no gate ends well unasked.
LEMMA GatesCarry ==
    ASSUME ShapeInv, DoneStay, GateInv, requests' = requests, answers' = answers,
           \A a \in Attempts : \A i \in DOMAIN child'[a] :
             child'[a][i].kind = "gate" /\ child'[a][i].res = "ok" => "Approved" \in answers[IntentOf[a]]
    PROVE  GateInv'
<1>1. ASSUME NEW intent \in Intents
      PROVE  /\ requests[intent] # "none" => \E a, i : OpenedBy(intent, a, i)'
             /\ requests[intent] = "Pending" /\ answers[intent] # {} =>
                  \E a, i, b, j : <<a, i>> # <<b, j>> /\ OpenedBy(intent, a, i)' /\ OpenedBy(intent, b, j)'
  BY OpenedStays DEF GateInv
<1>2. ASSUME NEW intent \in Intents
      PROVE  /\ requests[intent] = "none" => answers[intent] = {}
             /\ requests[intent] = "Approved" => "Approved" \in answers[intent]
  BY DEF GateInv
<1> QED
  BY <1>1, <1>2 DEF GateInv

\* A gate that opens a request: if an answer was there, another gate had asked for it.
LEMMA GateOpens ==
    ASSUME ShapeInv, DoneStay, GateInv, NEW a \in Attempts, NEW i \in DOMAIN child[a],
           child[a][i].at # "done", OpenedBy(IntentOf[a], a, i)', answers' = answers,
           requests' = [requests EXCEPT ![IntentOf[a]] = "Pending"],
           \A b \in Attempts : \A j \in DOMAIN child'[b] :
             child'[b][j].kind = "gate" /\ child'[b][j].res = "ok" => "Approved" \in answers[IntentOf[b]]
    PROVE  GateInv'
<1>1. IntentOf[a] \in Intents /\ DOMAIN requests = Intents
  BY DEF Intents, ShapeInv
<1>2. ASSUME NEW intent \in Intents
      PROVE  /\ requests'[intent] = "none" => answers'[intent] = {}
             /\ requests'[intent] = "Approved" => "Approved" \in answers'[intent]
             /\ requests'[intent] # "none" => \E b, j : OpenedBy(intent, b, j)'
             /\ requests'[intent] = "Pending" /\ answers'[intent] # {} =>
                  \E b, j, c, k : <<b, j>> # <<c, k>> /\ OpenedBy(intent, b, j)' /\ OpenedBy(intent, c, k)'
  <2>1. CASE intent # IntentOf[a]
    <3>1. requests'[intent] = requests[intent]
      BY <1>1, <2>1
    <3> QED
      BY <3>1, OpenedStays DEF GateInv
  <2>2. CASE intent = IntentOf[a]
    <3>1. requests'[intent] = "Pending" /\ OpenedBy(intent, a, i)'
      BY <1>1, <2>2
    <3>2. ASSUME answers[intent] # {}
          PROVE  \E b, j, c, k : <<b, j>> # <<c, k>> /\ OpenedBy(intent, b, j)' /\ OpenedBy(intent, c, k)'
      <4>1. requests[intent] # "none"
        BY <3>2 DEF GateInv
      <4>2. PICK b, j : OpenedBy(intent, b, j)
        BY <4>1 DEF GateInv
      <4>3. <<b, j>> # <<a, i>>
        BY <4>2 DEF OpenedBy
      <4>4. OpenedBy(intent, b, j)'
        BY <4>2, OpenedStays
      <4> QED
        BY <3>1, <4>3, <4>4
    <3> QED
      BY <3>1, <3>2
  <2> QED
    BY <2>1, <2>2
<1> QED
  BY <1>2 DEF GateInv

LEMMA GateNext ==
    ASSUME NodesInv, DoneStay, [Next]_vars
    PROVE  GateInv'
<1>0. ShapeInv /\ GateInv /\ ForkInv
  BY DEF NodesInv
<1>1. ASSUME NEW a \in Attempts, ForkStart(a)
      PROVE  GateInv'
  <2>1. /\ \A i \in DOMAIN child'[a] : child'[a][i].res = "none"
        /\ \A b \in Attempts : b # a => child'[b] = child[b]
        /\ requests' = requests /\ answers' = answers
    BY <1>0, <1>1, StartStep
  <2>2. ASSUME NEW b \in Attempts, NEW i \in DOMAIN child'[b], child'[b][i].kind = "gate", child'[b][i].res = "ok"
        PROVE  "Approved" \in answers[IntentOf[b]]
    <3>1. b # a /\ child'[b] = child[b]
      BY <2>1, <2>2
    <3> QED
      BY <1>0, <2>2, <3>1 DEF GateInv
  <2> QED
    BY <1>0, <2>1, <2>2, GatesCarry
<1>2. ASSUME NEW a \in Attempts, NEW i \in DOMAIN child[a], ChildStep(a, i)
      PROVE  GateInv'
  <2>1. PICK d :
           /\ KidOK(d) /\ Moved(a, child[a][i], d) /\ child'[a][i] = d
           /\ DOMAIN child'[a] = DOMAIN child[a]
           /\ \A j \in DOMAIN child[a] : j # i => child'[a][j] = child[a][j]
           /\ \A b \in Attempts : b # a => child'[b] = child[b]
           /\ answers' = answers
    BY <1>0, <1>2, KidStep
  <2>2. IntentOf[a] \in Intents
    BY DEF Intents
  <2>3. d.kind = "gate" /\ d.res = "ok" => requests[IntentOf[a]] = "Approved"
    BY <2>1 DEF Moved, KidOK
  <2>4. d.kind = "gate" /\ d.res = "ok" => "Approved" \in answers[IntentOf[a]]
    BY <1>0, <2>2, <2>3 DEF GateInv
  <2>5. ASSUME NEW b \in Attempts, NEW j \in DOMAIN child'[b], child'[b][j].kind = "gate", child'[b][j].res = "ok"
        PROVE  "Approved" \in answers[IntentOf[b]]
    <3>1. CASE b = a /\ j = i
      BY <2>1, <2>4, <2>5, <3>1
    <3>2. CASE ~(b = a /\ j = i)
      <4>1. j \in DOMAIN child[b] /\ child'[b][j] = child[b][j]
        BY <2>1, <3>2
      <4> QED
        BY <1>0, <2>5, <4>1 DEF GateInv
    <3> QED
      BY <3>1, <3>2
  <2>6. CASE requests' = requests
    BY <1>0, <2>1, <2>5, <2>6, GatesCarry
  <2>7. CASE requests' # requests
    <3>1. /\ child[a][i].at # "done" /\ d.kind = "gate" /\ d.saw = "none" /\ d.at = "done"
          /\ requests' = [requests EXCEPT ![IntentOf[a]] = "Pending"]
      BY <2>1, <2>7 DEF Moved
    <3>2. OpenedBy(IntentOf[a], a, i)'
      BY <2>1, <3>1 DEF OpenedBy
    <3> QED
      BY <1>0, <2>1, <2>5, <3>1, <3>2, GateOpens
  <2> QED
    BY <2>6, <2>7
<1>3. ASSUME NEW intent \in Intents, NEW answer \in {"Approved", "Rejected"}, Resolve(intent, answer)
      PROVE  GateInv'
  <2>1. /\ requests[intent] # "none" /\ requests' = [requests EXCEPT ![intent] = answer]
        /\ answers' = [answers EXCEPT ![intent] = answers[intent] \cup {answer}] /\ child' = child
    BY <1>3 DEF Resolve
  <2>2. DOMAIN requests = Intents /\ DOMAIN answers = Intents
    BY <1>0 DEF ShapeInv
  <2>3. ASSUME NEW other \in Intents
        PROVE  /\ requests'[other] = "none" => answers'[other] = {}
               /\ requests'[other] = "Approved" => "Approved" \in answers'[other]
               /\ requests'[other] # "none" => \E b, j : OpenedBy(other, b, j)'
               /\ requests'[other] = "Pending" /\ answers'[other] # {} =>
                    \E b, j, c, k : <<b, j>> # <<c, k>> /\ OpenedBy(other, b, j)' /\ OpenedBy(other, c, k)'
    <3>1. CASE other # intent
      <4>1. requests'[other] = requests[other] /\ answers'[other] = answers[other]
        BY <2>1, <2>2, <3>1
      <4> QED
        BY <1>0, <4>1, OpenedStays DEF GateInv
    <3>2. CASE other = intent
      <4>1. requests'[other] = answer /\ answers'[other] = answers[other] \cup {answer}
        BY <2>1, <2>2, <3>2
      <4>2. \E b, j : OpenedBy(other, b, j)'
        BY <1>0, <2>1, <3>2, OpenedStays DEF GateInv
      <4> QED
        BY <4>1, <4>2
    <3> QED
      BY <3>1, <3>2
  <2>4. ASSUME NEW b \in Attempts, NEW j \in DOMAIN child'[b], child'[b][j].kind = "gate", child'[b][j].res = "ok"
        PROVE  "Approved" \in answers'[IntentOf[b]]
    <3>1. "Approved" \in answers[IntentOf[b]]
      BY <1>0, <2>1, <2>4 DEF GateInv
    <3>2. IntentOf[b] \in Intents
      BY DEF Intents
    <3> QED
      BY <2>1, <2>2, <3>1, <3>2
  <2> QED
    BY <2>3, <2>4 DEF GateInv
<1>4. CASE OtherStep /\ ~ \E intent \in Intents, answer \in {"Approved", "Rejected"} : Resolve(intent, answer)
  <2>1. requests' = requests /\ answers' = answers /\ child' = child
    BY <1>4 DEF OtherStep, ForkJoin, ForkReturn, SendEvent, DropSender, Deregister, CallCheck, CallDeduct,
                nodeVars, vars
  <2>2. \A b \in Attempts : \A j \in DOMAIN child'[b] :
          child'[b][j].kind = "gate" /\ child'[b][j].res = "ok" => "Approved" \in answers[IntentOf[b]]
    BY <1>0, <2>1 DEF GateInv
  <2> QED
    BY <1>0, <2>1, <2>2, GatesCarry
<1> QED
  BY <1>1, <1>2, <1>3, <1>4, StepsSplit

LEMMA WaitNext ==
    ASSUME NodesInv, [Next]_vars
    PROVE  WaitInv'
<1>0. ShapeInv /\ WaitInv
  BY DEF NodesInv
<1>1. ASSUME NEW a \in Attempts, ForkStart(a)
      PROVE  WaitInv'
  <2>1. /\ \A i \in DOMAIN child'[a] :
             child'[a][i].res = "none" /\ (child'[a][i].kind = "wait" => child'[a][i].saw = channel.value)
        /\ \A b \in Attempts : b # a => child'[b] = child[b]
        /\ channel' = channel
    BY <1>0, <1>1, StartStep
  <2>2. ASSUME NEW b \in Attempts, NEW i \in DOMAIN child'[b], child'[b][i].kind = "wait", child'[b][i].saw # "none"
        PROVE  channel.value # "none" /\ child'[b][i].res \in {"none", "ok"}
    <3>1. CASE b = a
      BY <2>1, <2>2, <3>1
    <3>2. CASE b # a
      BY <1>0, <2>1, <2>2, <3>2 DEF WaitInv
    <3> QED
      BY <3>1, <3>2
  <2> QED
    BY <2>1, <2>2 DEF WaitInv
<1>2. ASSUME NEW a \in Attempts, NEW i \in DOMAIN child[a], ChildStep(a, i)
      PROVE  WaitInv'
  <2>1. PICK d :
           /\ Moved(a, child[a][i], d) /\ child'[a][i] = d
           /\ DOMAIN child'[a] = DOMAIN child[a]
           /\ \A j \in DOMAIN child[a] : j # i => child'[a][j] = child[a][j]
           /\ \A b \in Attempts : b # a => child'[b] = child[b]
           /\ channel' = channel
    BY <1>0, <1>2, KidStep
  <2>2. ASSUME NEW b \in Attempts, NEW j \in DOMAIN child'[b], child'[b][j].kind = "wait", child'[b][j].saw # "none"
        PROVE  channel.value # "none" /\ child'[b][j].res \in {"none", "ok"}
    <3>1. CASE b = a /\ j = i
      <4>1. child[a][i].kind = "wait" /\ child[a][i].saw = d.saw /\ (channel.value # "none" => d.res \in {"none", "ok"})
        BY <2>1, <2>2, <3>1 DEF Moved
      <4>2. channel.value # "none"
        BY <1>0, <2>1, <2>2, <3>1, <4>1 DEF WaitInv
      <4> QED
        BY <2>1, <3>1, <4>1, <4>2
    <3>2. CASE ~(b = a /\ j = i)
      <4>1. j \in DOMAIN child[b] /\ child'[b][j] = child[b][j]
        BY <2>1, <3>2
      <4> QED
        BY <1>0, <2>2, <4>1 DEF WaitInv
    <3> QED
      BY <3>1, <3>2
  <2> QED
    BY <2>1, <2>2 DEF WaitInv
<1>3. CASE OtherStep
  <2>1. child' = child
    BY <1>3 DEF OtherStep, ForkJoin, ForkReturn, Resolve, SendEvent, DropSender, Deregister, CallCheck, CallDeduct,
                nodeVars, vars
  <2>2. channel.value # "none" => channel'.value # "none"
    <3>1. DOMAIN channel = {"value", "open"}
      BY <1>0 DEF ShapeInv
    <3>2. \/ channel' = channel \/ channel' = [channel EXCEPT !.value = "event"]
          \/ channel' = [channel EXCEPT !.open = FALSE]
      BY <1>3 DEF OtherStep, ForkJoin, ForkReturn, Resolve, SendEvent, DropSender, Deregister, CallCheck, CallDeduct,
                  nodeVars, vars
    <3> QED
      BY <3>1, <3>2
  <2> QED
    BY <1>0, <2>1, <2>2 DEF WaitInv
<1> QED
  BY <1>1, <1>2, <1>3, StepsSplit

\* A join is not disturbed by a step of the children it has not reached.
LEMMA JoinCarries ==
    ASSUME NEW f, NEW c, NEW d, JoinOK(f, c), Len(d) = Len(c), Len(c) \in Nat,
           \A i \in 1..Len(c) : c[i].res # "none" => d[i] = c[i]
    PROVE  JoinOK(f, d)
<1>1. /\ f.next \in Nat /\ f.next >= 1 /\ f.next <= Len(c) + 1
      /\ \A i \in 1..(f.next - 1) : c[i].res = "ok"
  BY DEF JoinOK
<1>2. \A i \in 1..(f.next - 1) : i \in 1..Len(c) /\ d[i] = c[i]
  BY <1>1
<1>3. TokensOf(d, f.next - 1) = TokensOf(c, f.next - 1)
  <2>1. PICK n \in Nat : n = f.next - 1
    BY <1>1
  <2>2. \A k \in 1..n : d[k].tokens = c[k].tokens
    BY <1>2, <2>1
  <2> QED
    BY <2>1, <2>2, TokensFacts
<1>4. f.res = "error" => f.next <= Len(c) /\ c[f.next].res \notin {"none", "ok"}
  BY DEF JoinOK
<1>5. f.res = "error" => d[f.next] = c[f.next]
  BY <1>1, <1>4
<1> QED
  BY <1>1, <1>2, <1>3, <1>4, <1>5 DEF JoinOK

LEMMA JoinAdvances ==
    ASSUME NEW f, NEW c, JoinOK(f, c), f.at = "join", f.next <= Len(c), Len(c) \in Nat, c[f.next].res # "none"
    PROVE  JoinOK(AfterChild(f, c[f.next]), c)
<1>1. /\ f.next \in Nat /\ f.next >= 1 /\ DOMAIN f = {"at", "next", "tokens", "res"} /\ f.res = "none"
      /\ \A i \in 1..(f.next - 1) : c[i].res = "ok"
      /\ f.tokens = TokensOf(c, f.next - 1)
  BY DEF JoinOK
<1>2. CASE c[f.next].res = "ok"
  <2>1. PICK g : g = [f EXCEPT !.next = @ + 1, !.tokens = @ + c[f.next].tokens]
    OBVIOUS
  <2>2. /\ g.next = f.next + 1 /\ g.tokens = f.tokens + c[f.next].tokens /\ g.at = f.at /\ g.res = f.res
        /\ DOMAIN g = {"at", "next", "tokens", "res"}
    BY <1>1, <2>1
  <2>3. TokensOf(c, f.next) = TokensOf(c, f.next - 1) + c[f.next].tokens
    <3>1. PICK n \in Nat : n = f.next - 1
      BY <1>1
    <3>2. TokensOf(c, n + 1) = TokensOf(c, n) + c[n + 1].tokens
      BY TokensFacts
    <3>3. n + 1 = f.next
      BY <1>1, <3>1
    <3> QED
      BY <3>1, <3>2, <3>3
  <2>4. g.next \in Nat /\ g.next >= 1 /\ g.next <= Len(c) + 1 /\ g.next - 1 = f.next
    BY <1>1, <2>2
  <2>5. \A i \in 1..(g.next - 1) : c[i].res = "ok"
    BY <1>1, <1>2, <2>4
  <2>6. g.tokens = TokensOf(c, g.next - 1)
    BY <1>1, <2>2, <2>3, <2>4
  <2>7. JoinOK(g, c)
    BY <1>1, <2>2, <2>4, <2>5, <2>6 DEF JoinOK
  <2>8. AfterChild(f, c[f.next]) = g
    BY <1>2, <2>1 DEF AfterChild
  <2> QED
    BY <2>7, <2>8
<1>3. CASE c[f.next].res # "ok"
  <2>1. PICK g : g = [f EXCEPT !.at = "done", !.res = "error"]
    OBVIOUS
  <2>2. /\ g.next = f.next /\ g.tokens = f.tokens /\ g.at = "done" /\ g.res = "error"
        /\ DOMAIN g = {"at", "next", "tokens", "res"}
    BY <1>1, <2>1
  <2>3. JoinOK(g, c)
    BY <1>1, <1>3, <2>2 DEF JoinOK
  <2>4. AfterChild(f, c[f.next]) = g
    BY <1>3, <2>1 DEF AfterChild
  <2> QED
    BY <2>3, <2>4
<1> QED
  BY <1>2, <1>3

LEMMA ForkNext ==
    ASSUME NodesInv, DoneStay, [Next]_vars
    PROVE  ForkInv'
<1>0. ShapeInv /\ ForkInv
  BY DEF NodesInv
<1>l. \A a \in Attempts : Len(child[a]) \in Nat /\ DOMAIN child[a] = 1..Len(child[a])
  <2> TAKE a \in Attempts
  <2>1. PICK S : child[a] \in Seq(S)
    BY <1>0 DEF ShapeInv
  <2> QED
    BY <2>1
<1>d. DOMAIN fork = Attempts
  BY <1>0 DEF ShapeInv
<1>1. ASSUME NEW a \in Attempts, ForkStart(a)
      PROVE  ForkInv'
  <2>1. /\ child[a] = <<>> /\ \E S : child'[a] \in Seq(S)
        /\ \A b \in Attempts : b # a => child'[b] = child[b]
        /\ fork' = [fork EXCEPT ![a].at = "join"]
    BY <1>0, <1>1, StartStep
  <2>2. PICK f : f = fork[a]
    OBVIOUS
  <2>3. JoinOK(f, <<>>)
    BY <1>0, <2>1, <2>2 DEF ForkInv
  <2>4. PICK g : g = [f EXCEPT !.at = "join"]
    OBVIOUS
  <2>5. fork' = [fork EXCEPT ![a] = g]
    BY <2>1, <2>2, <2>4
  <2>6. fork[a].at # "done"
    BY <1>1 DEF ForkStart
  <2>7. /\ DOMAIN g = {"at", "next", "tokens", "res"} /\ g.at = "join" /\ g.next = f.next /\ g.tokens = f.tokens
        /\ g.res = f.res
    BY <2>3, <2>4 DEF JoinOK
  <2>8. f.next = 1 /\ f.res = "none" /\ f.tokens = TokensOf(<<>>, 0)
    <3>1. f.next = 1
      BY <2>3 DEF JoinOK
    <3>2. f.next - 1 = 0
      BY <3>1
    <3> QED
      BY <2>2, <2>3, <2>6, <3>1, <3>2 DEF JoinOK
  <2>9. PICK c : c = child'[a]
    OBVIOUS
  <2>10. Len(c) \in Nat
    BY <2>1, <2>9
  <2>11. TokensOf(c, 0) = 0 /\ TokensOf(<<>>, 0) = 0
    BY TokensFacts
  <2>12. JoinOK(g, c)
    <3>1. g.next = 1 /\ g.next - 1 = 0 /\ g.tokens = TokensOf(c, g.next - 1) /\ g.res = "none"
      BY <2>7, <2>8, <2>11
    <3> QED
      BY <2>7, <2>10, <3>1 DEF JoinOK
  <2>13. \A b \in Attempts : JoinOK(fork'[b], child'[b])
    BY <1>0, <1>d, <2>1, <2>5, <2>9, <2>12 DEF ForkInv
  <2> QED
    BY <2>13 DEF ForkInv
<1>2. ASSUME NEW a \in Attempts, NEW i \in DOMAIN child[a], ChildStep(a, i)
      PROVE  ForkInv'
  <2>1. /\ Len(child'[a]) = Len(child[a])
        /\ \A b \in Attempts : b # a => child'[b] = child[b]
        /\ fork' = fork
    BY <1>0, <1>2, KidStep
  <2>2. \A j \in 1..Len(child[a]) : child[a][j].res # "none" => child'[a][j] = child[a][j]
    <3> TAKE j \in 1..Len(child[a])
    <3>1. j \in DOMAIN child[a]
      BY <1>l
    <3>2. KidOK(child[a][j])
      BY <1>0, <3>1 DEF ShapeInv
    <3> QED
      BY <3>1, <3>2 DEF KidOK, DoneStay
  <2>3. PICK c, d : c = child[a] /\ d = child'[a]
    OBVIOUS
  <2>4. JoinOK(fork[a], d)
    <3>1. JoinOK(fork[a], c) /\ Len(d) = Len(c) /\ Len(c) \in Nat
      BY <1>0, <1>l, <2>1, <2>3 DEF ForkInv
    <3>2. \A j \in 1..Len(c) : c[j].res # "none" => d[j] = c[j]
      BY <2>2, <2>3
    <3> QED
      BY <3>1, <3>2, JoinCarries
  <2>5. \A b \in Attempts : JoinOK(fork'[b], child'[b])
    BY <1>0, <2>1, <2>3, <2>4 DEF ForkInv
  <2> QED
    BY <2>5 DEF ForkInv
<1>3. ASSUME NEW a \in Attempts, ForkJoin(a)
      PROVE  ForkInv'
  <2>1. PICK f, c : f = fork[a] /\ c = child[a]
    OBVIOUS
  <2>2. /\ f.at = "join" /\ f.next <= Len(c) /\ c[f.next].at = "done" /\ child' = child
        /\ fork' = [fork EXCEPT ![a] = AfterChild(f, c[f.next])]
    BY <1>3, <2>1 DEF ForkJoin
  <2>3. JoinOK(f, c) /\ Len(c) \in Nat
    BY <1>0, <1>l, <2>1 DEF ForkInv
  <2>4. f.next \in DOMAIN c
    BY <1>l, <2>1, <2>2, <2>3 DEF JoinOK
  <2>5. c[f.next].res # "none"
    BY <1>0, <2>1, <2>2, <2>4 DEF ShapeInv, KidOK
  <2>6. JoinOK(AfterChild(f, c[f.next]), c)
    BY <2>2, <2>3, <2>5, JoinAdvances
  <2>7. \A b \in Attempts : JoinOK(fork'[b], child'[b])
    BY <1>0, <1>d, <2>1, <2>2, <2>6 DEF ForkInv
  <2> QED
    BY <2>7 DEF ForkInv
<1>4. ASSUME NEW a \in Attempts, ForkReturn(a)
      PROVE  ForkInv'
  <2>1. PICK f, c : f = fork[a] /\ c = child[a]
    OBVIOUS
  <2>2. PICK g : g = [f EXCEPT !.at = "done", !.res = "ok"]
    OBVIOUS
  <2>3. f.at = "join" /\ f.next > Len(c) /\ child' = child /\ fork' = [fork EXCEPT ![a] = g]
    BY <1>4, <2>1, <2>2 DEF ForkReturn
  <2>4. JoinOK(f, c) /\ Len(c) \in Nat
    BY <1>0, <1>l, <2>1 DEF ForkInv
  <2>5. /\ DOMAIN g = {"at", "next", "tokens", "res"} /\ g.at = "done" /\ g.next = f.next /\ g.tokens = f.tokens
        /\ g.res = "ok"
    BY <2>2, <2>4 DEF JoinOK
  <2>6. JoinOK(g, c)
    BY <2>3, <2>4, <2>5 DEF JoinOK
  <2>7. \A b \in Attempts : JoinOK(fork'[b], child'[b])
    BY <1>0, <1>d, <2>1, <2>3, <2>6 DEF ForkInv
  <2> QED
    BY <2>7 DEF ForkInv
<1>5. CASE UNCHANGED <<fork, child>>
  BY <1>0, <1>5 DEF ForkInv
<1>6. OtherStep => UNCHANGED <<fork, child>> \/ \E a \in Attempts : ForkJoin(a) \/ ForkReturn(a)
  BY DEF OtherStep, Resolve, SendEvent, DropSender, Deregister, CallCheck, CallDeduct, nodeVars, vars
<1> QED
  BY <1>1, <1>2, <1>3, <1>4, <1>5, <1>6, StepsSplit

LEMMA NodesInvInit ==
    ASSUME Init
    PROVE  NodesInv
<1>1. ShapeInv
  <2>1. DOMAIN channel = {"value", "open"}
    BY DEF Init
  <2>2. \A a \in Attempts : child[a] = <<>>
    BY DEF Init
  <2>3. DOMAIN child = Attempts /\ DOMAIN fork = Attempts /\ DOMAIN requests = Intents /\ DOMAIN answers = Intents
    BY DEF Init
  <2>4. \A a \in Attempts : child[a] \in Seq({}) /\ DOMAIN child[a] = {}
    <3>1. <<>> \in Seq({}) /\ DOMAIN <<>> = {}
      OBVIOUS
    <3> QED
      BY <2>2, <3>1
  <2> QED
    BY <2>1, <2>2, <2>3, <2>4 DEF ShapeInv
<1>2. \A a \in Attempts : child[a] = <<>> /\ DOMAIN child[a] = {} /\ Len(child[a]) = 0
  BY DEF Init
<1>3. GateInv
  BY <1>2 DEF GateInv, Init
<1>4. WaitInv
  BY <1>2 DEF WaitInv
<1>5. ForkInv
  <2> SUFFICES ASSUME NEW a \in Attempts PROVE JoinOK(fork[a], child[a])
    BY DEF ForkInv
  <2>1. PICK f : f = fork[a]
    OBVIOUS
  <2>2. f.next = 1 /\ f.tokens = 0 /\ f.at = "idle" /\ f.res = "none" /\ DOMAIN f = {"at", "next", "tokens", "res"}
    BY <2>1 DEF Init
  <2>3. f.next - 1 = 0
    BY <2>2
  <2>4. f.tokens = TokensOf(child[a], f.next - 1)
    BY <2>2, <2>3, TokensFacts
  <2> QED
    BY <1>2, <2>1, <2>2, <2>3, <2>4 DEF JoinOK
<1> QED
  BY <1>1, <1>3, <1>4, <1>5 DEF NodesInv

LEMMA NodesInvNext ==
    ASSUME NodesInv, [Next]_vars
    PROVE  NodesInv'
<1>1. ShapeInv' /\ DoneStay
  BY ShapeNext DEF NodesInv
<1>2. GateInv' /\ ForkInv'
  BY <1>1, GateNext, ForkNext
<1>3. WaitInv'
  BY WaitNext
<1> QED
  BY <1>1, <1>2, <1>3 DEF NodesInv

-----------------------------------------------------------------------------
(* The budget *)

Most == Max({u.tokens : u \in Usages})
InFlight == {k \in Callers : caller[k] = "calling"}

\* What is left is what was not spent; and once the budget is spent, what the calls in
\* flight may still add has room under the bound.
BudgetInv ==
    /\ DOMAIN caller = Callers
    /\ spent.tokens \in Nat /\ spent.cost \in Nat
    /\ remaining.tokens = Monus(CallBudget.tokens, spent.tokens)
    /\ remaining.cost = Monus(CallBudget.cost, spent.cost)
    /\ \/ spent.tokens < CallBudget.tokens
       \/ spent.tokens + Cardinality(InFlight) * Most
            <= Monus(CallBudget.tokens, 1) + Cardinality(Callers) * Most

LEMMA MostFacts ==
    Most \in Nat /\ \A u \in Usages : u.tokens <= Most
<1>1. PICK top \in Usages : \A u \in Usages : u.tokens <= top.tokens
  BY NodesAssumption
<1>2. \A u \in Usages : u.tokens \in Nat
  BY NodesAssumption
<1> DEFINE T == {u.tokens : u \in Usages}
<1>3. top.tokens \in T /\ (\A y \in T : y \in Nat) /\ \A y \in T : top.tokens >= y
  BY <1>1, <1>2
<1>4. \A u \in Usages : u.tokens \in T
  OBVIOUS
<1> HIDE DEF T
<1>5. Max(T) \in T /\ \A y \in T : Max(T) >= y
  BY <1>3 DEF Max
<1>6. Max(T) \in Nat /\ \A u \in Usages : u.tokens <= Max(T)
  BY <1>2, <1>3, <1>4, <1>5
<1> QED
  BY <1>6 DEF T, Most

\* Twice deducted is deducted at once.
LEMMA MonusTwice ==
    ASSUME NEW b \in Nat, NEW s \in Nat, NEW u \in Nat
    PROVE  Monus(Monus(b, s), u) = Monus(b, s + u)
BY DEF Monus

\* One of n calls in flight, of at most c, comes back with u.
LEMMA OneCallLess ==
    ASSUME NEW b \in Nat, NEW s \in Nat, NEW u \in Nat, NEW m \in Nat, NEW n \in Nat, NEW c \in Nat,
           u <= m, n + 1 <= c,
           s < b \/ s + (n + 1) * m <= Monus(b, 1) + c * m
    PROVE  s + u < b \/ s + u + n * m <= Monus(b, 1) + c * m
<1>1. n * m \in Nat /\ (n + 1) * m = n * m + m /\ (n + 1) * m <= c * m /\ c * m \in Nat
  <2>1. n * m \in Nat /\ (n + 1) * m = n * m + m
    BY Products
  <2>2. (n + 1) * m <= c * m
    BY Products
  <2>3. c * m \in Nat
    BY Products
  <2> QED
    BY <2>1, <2>2, <2>3
<1>2. PICK x \in Nat, y \in Nat : x = n * m /\ y = c * m
  BY <1>1
<1>3. x + m <= y /\ (s < b \/ s + x + m <= Monus(b, 1) + y)
  BY <1>1, <1>2
<1>4. s + u < b \/ s + u + x <= Monus(b, 1) + y
  BY <1>3 DEF Monus
<1> QED
  BY <1>2, <1>4

LEMMA BudgetInvInit ==
    ASSUME Init
    PROVE  BudgetInv
<1>1. CallBudget.tokens \in Nat /\ CallBudget.cost \in Nat /\ IsFiniteSet(Callers)
  BY NodesAssumption
<1>2. /\ DOMAIN caller = Callers /\ remaining = CallBudget /\ spent.tokens = 0 /\ spent.cost = 0
      /\ \A k \in Callers : caller[k] = "idle"
  BY DEF Init
<1>3. InFlight = {}
  BY <1>2 DEF InFlight
<1>4. Cardinality(InFlight) = 0
  BY <1>3, FS_EmptySet
<1>5. Cardinality(Callers) \in Nat /\ Most \in Nat
  BY <1>1, FS_CardinalityType, MostFacts
<1>6. Cardinality(Callers) * Most \in Nat /\ 0 * Most = 0
  BY <1>5, Products
<1>7. Monus(CallBudget.tokens, 1) \in Nat
  BY <1>1 DEF Monus
<1>8. spent.tokens + Cardinality(InFlight) * Most <= Monus(CallBudget.tokens, 1) + Cardinality(Callers) * Most
  BY <1>2, <1>4, <1>6, <1>7
<1>9. Monus(CallBudget.tokens, 0) = CallBudget.tokens /\ Monus(CallBudget.cost, 0) = CallBudget.cost
  BY <1>1 DEF Monus
<1> QED
  BY <1>2, <1>8, <1>9 DEF BudgetInv

LEMMA BudgetInvNext ==
    ASSUME BudgetInv, [Next]_vars
    PROVE  BudgetInv'
<1>0. CallBudget.tokens \in Nat /\ CallBudget.cost \in Nat /\ IsFiniteSet(Callers)
  BY NodesAssumption
<1>i. /\ DOMAIN caller = Callers
      /\ spent.tokens \in Nat /\ spent.cost \in Nat
      /\ remaining.tokens = Monus(CallBudget.tokens, spent.tokens)
      /\ remaining.cost = Monus(CallBudget.cost, spent.cost)
      /\ \/ spent.tokens < CallBudget.tokens
         \/ spent.tokens + Cardinality(InFlight) * Most
              <= Monus(CallBudget.tokens, 1) + Cardinality(Callers) * Most
  BY DEF BudgetInv
<1>f. /\ IsFiniteSet(InFlight) /\ Cardinality(InFlight) \in Nat /\ Cardinality(Callers) \in Nat
      /\ Cardinality(InFlight) <= Cardinality(Callers) /\ Most \in Nat
  <2>1. InFlight \in SUBSET Callers
    BY DEF InFlight
  <2>2. IsFiniteSet(InFlight) /\ Cardinality(InFlight) <= Cardinality(Callers)
    BY <1>0, <2>1, FS_Subset
  <2> QED
    BY <1>0, <2>2, FS_CardinalityType, MostFacts
<1>1. ASSUME NEW k \in Callers, CallCheck(k)
      PROVE  BudgetInv'
  <2>1. /\ caller' = [caller EXCEPT ![k] = IF Exhausted(remaining) THEN "refused" ELSE "calling"]
        /\ UNCHANGED <<remaining, spent>> /\ caller[k] = "idle"
    BY <1>1 DEF CallCheck
  <2>2. CASE spent.tokens < CallBudget.tokens
    BY <1>i, <2>1, <2>2 DEF BudgetInv
  <2>3. CASE ~(spent.tokens < CallBudget.tokens)
    <3>1. remaining.tokens = 0
      BY <1>0, <1>i, <2>3 DEF Monus
    <3>2. caller' = [caller EXCEPT ![k] = "refused"]
      BY <2>1, <3>1 DEF Exhausted
    <3>3. InFlight' = InFlight
      BY <1>i, <2>1, <3>2 DEF InFlight
    <3> QED
      BY <1>i, <2>1, <2>3, <3>2, <3>3 DEF BudgetInv
  <2> QED
    BY <2>2, <2>3
<1>2. ASSUME NEW k \in Callers, CallDeduct(k)
      PROVE  BudgetInv'
  <2>1. caller' = [caller EXCEPT ![k] = "idle"] /\ caller[k] = "calling"
    BY <1>2 DEF CallDeduct
  <2>2. InFlight' = InFlight \ {k} /\ k \in InFlight
    BY <1>i, <2>1 DEF InFlight
  <2>3. PICK n \in Nat : n = Cardinality(InFlight')
    BY <1>f, <2>2, FS_RemoveElement, FS_CardinalityType
  <2>4. Cardinality(InFlight) = n + 1
    <3>1. Cardinality(InFlight \ {k}) = Cardinality(InFlight) - 1
      BY <1>f, <2>2, FS_RemoveElement
    <3> QED
      BY <1>f, <2>2, <2>3, <3>1
  <2>5. PICK u : /\ u.tokens \in Nat /\ u.cost \in Nat /\ u.tokens <= Most
                 /\ spent'.tokens = spent.tokens + u.tokens /\ spent'.cost = spent.cost + u.cost
                 /\ remaining'.tokens = Monus(remaining.tokens, u.tokens)
                 /\ remaining'.cost = Monus(remaining.cost, u.cost)
    <3>1. CASE UNCHANGED <<remaining, spent>>
      <4>1. Monus(remaining.tokens, 0) = remaining.tokens /\ Monus(remaining.cost, 0) = remaining.cost
        BY <1>0, <1>i DEF Monus
      <4> DEFINE none == [tokens |-> 0, cost |-> 0]
      <4>2. /\ none.tokens \in Nat /\ none.cost \in Nat /\ none.tokens <= Most
            /\ spent'.tokens = spent.tokens + none.tokens /\ spent'.cost = spent.cost + none.cost
            /\ remaining'.tokens = Monus(remaining.tokens, none.tokens)
            /\ remaining'.cost = Monus(remaining.cost, none.cost)
        BY <1>i, <1>f, <3>1, <4>1
      <4> QED
        BY <4>2
    <3>2. CASE \E u \in Usages :
                 /\ remaining' = [tokens |-> Monus(remaining.tokens, u.tokens),
                                  cost |-> Monus(remaining.cost, u.cost)]
                 /\ spent' = [tokens |-> spent.tokens + u.tokens, cost |-> spent.cost + u.cost]
      BY <3>2, MostFacts, NodesAssumption
    <3> QED
      BY <1>2, <3>1, <3>2 DEF CallDeduct
  <2>6. spent'.tokens \in Nat /\ spent'.cost \in Nat
    BY <1>i, <2>5
  <2>7. /\ remaining'.tokens = Monus(CallBudget.tokens, spent'.tokens)
        /\ remaining'.cost = Monus(CallBudget.cost, spent'.cost)
    <3>1. Monus(Monus(CallBudget.tokens, spent.tokens), u.tokens) = Monus(CallBudget.tokens, spent.tokens + u.tokens)
      BY <1>0, <1>i, <2>5, MonusTwice
    <3>2. Monus(Monus(CallBudget.cost, spent.cost), u.cost) = Monus(CallBudget.cost, spent.cost + u.cost)
      BY <1>0, <1>i, <2>5, MonusTwice
    <3> QED
      BY <1>i, <2>5, <3>1, <3>2
  <2>8. \/ spent'.tokens < CallBudget.tokens
        \/ spent'.tokens + n * Most <= Monus(CallBudget.tokens, 1) + Cardinality(Callers) * Most
    <3>1. PICK b \in Nat, s \in Nat, t \in Nat, m \in Nat, c \in Nat :
             /\ b = CallBudget.tokens /\ s = spent.tokens /\ t = u.tokens /\ m = Most /\ c = Cardinality(Callers)
      BY <1>0, <1>i, <1>f, <2>5
    <3>2. t <= m /\ n + 1 <= c /\ (s < b \/ s + (n + 1) * m <= Monus(b, 1) + c * m)
      BY <1>i, <1>f, <2>4, <2>5, <3>1
    <3>3. s + t < b \/ s + t + n * m <= Monus(b, 1) + c * m
      BY <3>2, OneCallLess
    <3> QED
      BY <2>5, <3>1, <3>3
  <2>9. DOMAIN caller' = Callers
    BY <1>i, <2>1
  <2>10. Most' = Most
    BY DEF Most
  <2> QED
    BY <2>3, <2>6, <2>7, <2>8, <2>9, <2>10 DEF BudgetInv
<1>3. CASE UNCHANGED budgetVars
  BY <1>i, <1>3 DEF BudgetInv, budgetVars, InFlight
<1>4. \/ \E k \in Callers : CallCheck(k) \/ CallDeduct(k)
      \/ UNCHANGED budgetVars
  <2>1. ASSUME NEW a, NEW i, ChildStep(a, i)
        PROVE  UNCHANGED budgetVars
    BY <2>1 DEF ChildStep, Deterministic, GateGet, GateOpen, EventWait, Elapse, AgentSend, AgentBackoff,
                AgentFind, AgentInvoke
  <2>2. ASSUME NEW a, ForkStart(a)
        PROVE  UNCHANGED budgetVars
    BY <2>2 DEF ForkStart
  <2>3. CASE OtherStep
    BY <2>3 DEF OtherStep, ForkJoin, ForkReturn, Resolve, SendEvent, DropSender, Deregister, vars, budgetVars
  <2> QED
    BY <2>1, <2>2, <2>3, StepsSplit
<1> QED
  BY <1>1, <1>2, <1>3, <1>4

-----------------------------------------------------------------------------
(* The theorems *)

LEMMA GatesMeaning ==
    ASSUME NEW intent, NEW a, NEW i, OpenedBy(intent, a, i)
    PROVE  <<a, i>> \in Gates(intent) /\ Opened(<<a, i>>)
<1>1. a \in Attempts /\ <<a, i>> \in {a} \X DOMAIN child[a]
  BY DEF OpenedBy
<1>2. <<a, i>> \in UNION {{b} \X DOMAIN child[b] : b \in Attempts}
  BY <1>1
<1>3. <<a, i>>[1] = a /\ <<a, i>>[2] = i
  OBVIOUS
<1> QED
  BY <1>2, <1>3 DEF OpenedBy, Gates, Opened

(* A reviewer's answer in ApprovalWorkflow is overwritten by ApprovalNode::run only        *)
(* where two gates of the intent both found no request and both opened one.                *)
THEOREM AnswersLostInOverlap == Spec => []AnswerLostOnlyInOverlap
<1>1. Init => NodesInv
  BY NodesInvInit
<1>2. NodesInv /\ [Next]_vars => NodesInv'
  BY NodesInvNext
<1>3. NodesInv => AnswerLostOnlyInOverlap
  <2> SUFFICES ASSUME NodesInv, NEW intent \in Intents, requests[intent] = "Pending", answers[intent] # {}
               PROVE  \E opener, late \in Gates(intent) : opener # late /\ Opened(opener) /\ Opened(late)
    BY DEF AnswerLostOnlyInOverlap
  <2>1. PICK a, i, b, j : <<a, i>> # <<b, j>> /\ OpenedBy(intent, a, i) /\ OpenedBy(intent, b, j)
    BY DEF NodesInv, GateInv
  <2>2. <<a, i>> \in Gates(intent) /\ Opened(<<a, i>>) /\ <<b, j>> \in Gates(intent) /\ Opened(<<b, j>>)
    BY <2>1, GatesMeaning
  <2> QED
    BY <2>1, <2>2
<1> QED
  BY <1>1, <1>2, <1>3, PTL DEF Spec

(* ForkNode::run succeeds only where all of its children did, every gate among them        *)
(* approved, and reports their tokens; it fails at the first child that failed, which is   *)
(* never a wait whose event was there when it began.                                       *)
THEOREM ForksSpeakForChildren == Spec => []ForkSpeaksForChildren
<1>1. Init => NodesInv
  BY NodesInvInit
<1>2. NodesInv /\ [Next]_vars => NodesInv'
  BY NodesInvNext
<1>3. NodesInv => ForkSpeaksForChildren
  <2> SUFFICES ASSUME NodesInv, NEW a \in Attempts
               PROVE  /\ fork[a].res = "ok" =>
                           /\ \A c \in Kids(a) : c.res = "ok" /\ (c.kind = "gate" => "Approved" \in answers[IntentOf[a]])
                           /\ fork[a].tokens = TokensOf(child[a], Len(child[a]))
                      /\ fork[a].res = "error" =>
                           /\ child[a][fork[a].next].res \notin {"none", "ok"}
                           /\ child[a][fork[a].next].kind = "wait" => child[a][fork[a].next].saw = "none"
                           /\ \A i \in 1..(fork[a].next - 1) : child[a][i].res = "ok"
    BY DEF ForkSpeaksForChildren
  <2>1. JoinOK(fork[a], child[a]) /\ GateInv /\ WaitInv
    BY DEF NodesInv, ForkInv
  <2>2. DOMAIN child[a] = 1..Len(child[a]) /\ Len(child[a]) \in Nat
    <3>1. PICK S : child[a] \in Seq(S)
      BY DEF NodesInv, ShapeInv
    <3> QED
      BY <3>1
  <2>3. ASSUME fork[a].res = "ok"
        PROVE  /\ \A c \in Kids(a) : c.res = "ok" /\ (c.kind = "gate" => "Approved" \in answers[IntentOf[a]])
               /\ fork[a].tokens = TokensOf(child[a], Len(child[a]))
    <3>1. fork[a].next - 1 = Len(child[a])
      BY <2>1, <2>2, <2>3 DEF JoinOK
    <3>2. \A i \in DOMAIN child[a] : child[a][i].res = "ok"
      BY <2>1, <2>2, <3>1 DEF JoinOK
    <3>3. \A i \in DOMAIN child[a] : child[a][i].kind = "gate" => "Approved" \in answers[IntentOf[a]]
      BY <2>1, <3>2 DEF GateInv
    <3>4. fork[a].tokens = TokensOf(child[a], Len(child[a]))
      BY <2>1, <3>1 DEF JoinOK
    <3> QED
      BY <3>2, <3>3, <3>4 DEF Kids
  <2>4. ASSUME fork[a].res = "error"
        PROVE  /\ child[a][fork[a].next].res \notin {"none", "ok"}
               /\ child[a][fork[a].next].kind = "wait" => child[a][fork[a].next].saw = "none"
               /\ \A i \in 1..(fork[a].next - 1) : child[a][i].res = "ok"
    <3>1. /\ fork[a].next \in DOMAIN child[a] /\ child[a][fork[a].next].res \notin {"none", "ok"}
          /\ \A i \in 1..(fork[a].next - 1) : child[a][i].res = "ok"
      BY <2>1, <2>2, <2>4 DEF JoinOK
    <3> QED
      BY <2>1, <3>1 DEF WaitInv
  <2> QED
    BY <2>3, <2>4
<1> QED
  BY <1>1, <1>2, <1>3, PTL DEF Spec

(* AgentNode::run under AnthropicProvider invokes at most max_tool_calls tools, sends at   *)
(* most max_retries + 1 requests a turn, and every request alternates the roles; the       *)
(* callers of a CallBudget overspend it by at most a call each, and it loses no count.     *)
THEOREM AgentsStayBounded == Spec => []AgentsAreBounded
<1>1. Init => NodesInv /\ BudgetInv
  BY NodesInvInit, BudgetInvInit
<1>2. NodesInv /\ BudgetInv /\ [Next]_vars => (NodesInv /\ BudgetInv)'
  BY NodesInvNext, BudgetInvNext
<1>3. NodesInv /\ BudgetInv => AgentsAreBounded
  <2> SUFFICES ASSUME NodesInv, BudgetInv
               PROVE  AgentsAreBounded
    OBVIOUS
  <2>1. ASSUME NEW a \in Attempts, NEW c \in Kids(a)
        PROVE  /\ c.invoked <= MaxToolCalls
               /\ c.sends <= (MaxToolCalls + 1) * (MaxRetries + 1)
               /\ LET sent == RequestBody(Conversation(c.calls), Tools).messages
                  IN  /\ \A i \in DOMAIN sent : sent[i].role = IF i % 2 = 1 THEN "user" ELSE "assistant"
                      /\ Len(sent) % 2 = 1
    <3>1. KidOK(c) /\ WithinBounds(c)
      BY <2>1 DEF Kids, NodesInv, ShapeInv
    <3>2. PICK S : c.calls \in Seq(S)
      BY <3>1 DEF KidOK
    <3>3. PICK calls : calls = c.calls
      OBVIOUS
    <3>4. Len(calls) \in Nat
      BY <3>2, <3>3
    <3>5. LET sent == RequestBody(Conversation(calls), Tools).messages
          IN  /\ \A i \in DOMAIN sent : sent[i].role = IF i % 2 = 1 THEN "user" ELSE "assistant"
              /\ Len(sent) % 2 = 1
      BY <3>4, RequestsAlternate
    <3>6. c.invoked <= MaxToolCalls /\ c.sends <= (MaxToolCalls + 1) * (MaxRetries + 1)
      BY <3>1 DEF WithinBounds
    <3> QED
      BY <3>3, <3>5, <3>6
  <2>2. spent.tokens <= Monus(CallBudget.tokens, 1) + Cardinality(Callers) * Most
    <3>1. CallBudget.tokens \in Nat /\ IsFiniteSet(Callers) /\ Most \in Nat
      BY NodesAssumption, MostFacts
    <3>2. Cardinality(Callers) \in Nat /\ Cardinality(InFlight) \in Nat
      <4>1. InFlight \in SUBSET Callers
        BY DEF InFlight
      <4> QED
        BY <3>1, <4>1, FS_Subset, FS_CardinalityType
    <3>3. PICK x \in Nat, y \in Nat : x = Cardinality(Callers) * Most /\ y = Cardinality(InFlight) * Most
      BY <3>1, <3>2, Products
    <3>4. /\ spent.tokens \in Nat
          /\ spent.tokens < CallBudget.tokens \/ spent.tokens + y <= Monus(CallBudget.tokens, 1) + x
      BY <3>3 DEF BudgetInv
    <3>5. spent.tokens <= Monus(CallBudget.tokens, 1) + x
      BY <3>1, <3>4 DEF Monus
    <3> QED
      BY <3>3, <3>5
  <2>3. /\ remaining.tokens = Monus(CallBudget.tokens, spent.tokens)
        /\ remaining.cost = Monus(CallBudget.cost, spent.cost)
    BY DEF BudgetInv
  <2> QED
    BY <2>1, <2>2, <2>3 DEF AgentsAreBounded, Most
<1> QED
  BY <1>1, <1>2, <1>3, PTL DEF Spec
=============================================================================
