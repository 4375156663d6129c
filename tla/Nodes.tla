-------------------------------- MODULE Nodes -------------------------------
(***************************************************************************)
(* The node kinds of aaf-runtime run as the children of forks: approval    *)
(* gates over one ApprovalWorkflow, event waits over one watch channel,    *)
(* agents over AnthropicProvider and their governed tools, deterministic   *)
(* nodes; and, beside them, the callers of an aaf-llm CallBudget.          *)
(* A child is a spawned task: it outlives a fork that returned without it. *)
(* An action is the code between two awaits or locks.                      *)
(***************************************************************************)
EXTENDS LlmProvider, FiniteSets, FiniteSetsExt

CONSTANTS
    Attempts,      \* executions of a fork, of one intent or of several
    Callers,       \* tasks that share a CallBudget
    Workloads,     \* sets of attempts and callers that run together
    IntentOf,      \* the intent of an attempt
    Children,      \* the kinds of an attempt's children, in their order
    Timeout,       \* an attempt's EventWaitNode.timeout, or NoTimeout
    MaxLatency,    \* its intent's budget.max_latency_ms
    NoTimeout, DefaultTimeout,
    MaxToolCalls,  \* AgentNode.max_tool_calls
    Tools,         \* tools the registry knows at the start
    Handlers,      \* tools with a handler in the InProcessInvoker
    Bodies,        \* bodies of the API: [stop, blocks, in, out]
    Statuses,      \* statuses of the API
    Model,         \* model asked for
    CallBudget,    \* [tokens, cost] a CallBudget starts with
    Usages         \* [tokens, cost] a budgeted call may use

Intents == {IntentOf[a] : a \in Attempts}

ASSUME NodesAssumption ==
    /\ MaxToolCalls \in Nat /\ DefaultTimeout \in Nat
    /\ \A w \in Workloads : w \subseteq Attempts \cup Callers
    /\ \A a \in Attempts : Children[a] \in Seq({"auto", "det", "gate", "wait", "agent"})
    /\ IsFiniteSet(Callers) /\ Attempts \cap Callers = {}
    /\ CallBudget.tokens \in Nat /\ CallBudget.cost \in Nat
    /\ \A u \in Usages : u.tokens \in Nat /\ u.cost \in Nat
    /\ \E most \in Usages : \A u \in Usages : u.tokens <= most.tokens

VARIABLES
    work,        \* the attempts and callers of this behaviour
    requests,    \* ApprovalWorkflow.inner: the request of an intent
    answers,     \* what the reviewer ever answered, by intent
    channel,     \* the watch channel: its value, and whether it has a sender
    registered,  \* tools the registry knows
    fork,        \* each attempt: where its join is, and its result
    child,       \* each attempt: its children
    caller,      \* each caller of the budget
    remaining,   \* CallBudget.remaining
    spent        \* what the answered calls used

vars == <<work, requests, answers, channel, registered, fork, child, caller, remaining, spent>>
nodeVars == <<work, requests, answers, channel, registered, fork, child>>
budgetVars == <<caller, remaining, spent>>

Init ==
    /\ work \in Workloads
    /\ requests = [i \in Intents |-> "none"] /\ answers = [i \in Intents |-> {}]
    /\ channel = [value |-> "none", open |-> TRUE]
    /\ registered = Tools
    /\ fork = [a \in Attempts |-> [at |-> "idle", next |-> 1, tokens |-> 0, res |-> "none"]]
    /\ child = [a \in Attempts |-> <<>>]
    /\ caller = [k \in Callers |-> "idle"]
    /\ remaining = CallBudget /\ spent = [tokens |-> 0, cost |-> 0]

-----------------------------------------------------------------------------
\* EventWaitNode::effective_timeout: a latency of zero means none was given.
EffectiveTimeout(a) ==
    IF Timeout[a] # NoTimeout THEN Timeout[a]
    ELSE IF MaxLatency[a] > 0 THEN MaxLatency[a] ELSE DefaultTimeout

\* A child as it is spawned.  A wait notes what the channel held then.
Spawn(a, kind) ==
    [kind |-> kind, at |-> "start", res |-> "none", tokens |-> 0, timer |-> EffectiveTimeout(a),
     saw |-> IF kind = "wait" THEN channel.value ELSE "none",
     turn |-> 0, try |-> 0, sends |-> 0, calls |-> <<>>, invoked |-> 0]

\* ForkNode::run: every child is spawned at once ...
ForkStart(a) ==
    /\ a \in work /\ fork[a].at = "idle"
    /\ fork' = [fork EXCEPT ![a].at = "join"]
    /\ child' = [child EXCEPT ![a] = [i \in 1..Len(Children[a]) |-> Spawn(a, Children[a][i])]]
    /\ UNCHANGED <<work, requests, answers, channel, registered, budgetVars>>

AfterChild_Lenient(f, c) ==
    IF c.res # "panic" THEN [f EXCEPT !.next = @ + 1, !.tokens = @ + c.tokens]
                       ELSE [f EXCEPT !.at = "done", !.res = "error"]

\* ... and awaited in order; the first that failed ends the join, the handles
\* of the others are dropped and their tasks run on.
AfterChild(f, c) ==
    IF c.res = "ok" THEN [f EXCEPT !.next = @ + 1, !.tokens = @ + c.tokens]
                    ELSE [f EXCEPT !.at = "done", !.res = "error"]
ForkJoin(a) ==
    /\ fork[a].at = "join" /\ fork[a].next <= Len(child[a])
    /\ child[a][fork[a].next].at = "done"
    /\ fork' = [fork EXCEPT ![a] = AfterChild(@, child[a][fork[a].next])]
    /\ UNCHANGED <<work, requests, answers, channel, registered, child, budgetVars>>
ForkReturn(a) ==
    /\ fork[a].at = "join" /\ fork[a].next > Len(child[a])
    /\ fork' = [fork EXCEPT ![a].at = "done", ![a].res = "ok"]
    /\ UNCHANGED <<work, requests, answers, channel, registered, child, budgetVars>>

Kind(a, i, kind, at) == i \in DOMAIN child[a] /\ child[a][i].kind = kind /\ child[a][i].at = at
Become(a, i, c) == child' = [child EXCEPT ![a][i] = c]
Done(c, res) == [c EXCEPT !.at = "done", !.res = res]

\* DeterministicNode::run, and an ApprovalNode in AutoApprove mode.
Deterministic(a, i) ==
    /\ \/ Kind(a, i, "auto", "start") /\ Become(a, i, Done(child[a][i], "ok"))
       \/ /\ Kind(a, i, "det", "start")
          /\ \E res \in {"ok", "error"} : Become(a, i, Done(child[a][i], res))
    /\ UNCHANGED <<work, requests, answers, channel, registered, fork, budgetVars>>

-----------------------------------------------------------------------------
AfterGet_Reopens(c, state) ==
    LET seen == [c EXCEPT !.saw = state]
    IN  CASE state \in {"none", "Rejected"} -> [seen EXCEPT !.at = "open"]
          [] state = "Approved" -> Done(seen, "ok")
          [] OTHER -> Done(seen, "error")

\* ApprovalNode::run, first lock: ApprovalWorkflow::get.
AfterGet(c, state) ==
    LET seen == [c EXCEPT !.saw = state]
    IN  CASE state = "none" -> [seen EXCEPT !.at = "open"]
          [] state = "Approved" -> Done(seen, "ok")
          [] OTHER -> Done(seen, "error")
GateGet(a, i) ==
    /\ Kind(a, i, "gate", "start")
    /\ Become(a, i, AfterGet(child[a][i], requests[IntentOf[a]]))
    /\ UNCHANGED <<work, requests, answers, channel, registered, fork, budgetVars>>

\* Second lock: ApprovalWorkflow::open inserts, whatever is there by now.
GateOpen(a, i) ==
    /\ Kind(a, i, "gate", "open")
    /\ requests' = [requests EXCEPT ![IntentOf[a]] = "Pending"]
    /\ Become(a, i, Done(child[a][i], "error"))
    /\ UNCHANGED <<work, answers, channel, registered, fork, budgetVars>>

\* ApprovalWorkflow::resolve, by the reviewer: a resolved request may be
\* resolved again.
Resolve(intent, answer) ==
    /\ requests[intent] # "none"
    /\ requests' = [requests EXCEPT ![intent] = answer]
    /\ answers' = [answers EXCEPT ![intent] = @ \cup {answer}]
    /\ UNCHANGED <<work, channel, registered, fork, child, budgetVars>>

-----------------------------------------------------------------------------
WaitPoll_Forever(c, ch) ==
    IF ch.value # "none" THEN Done(c, "ok")
    ELSE IF ~ch.open THEN Done(c, "error") ELSE c

\* EventWaitNode::run under tokio's timeout, which polls the wait before it
\* looks at the timer; the wait looks at the value before at the sender.
WaitPoll(c, ch) ==
    IF ch.value # "none" THEN Done(c, "ok")
    ELSE IF ~ch.open THEN Done(c, "error")
    ELSE IF c.timer = 0 THEN Done(c, "timeout") ELSE c
EventWait(a, i) ==
    /\ Kind(a, i, "wait", "start")
    /\ WaitPoll(child[a][i], channel) # child[a][i]
    /\ Become(a, i, WaitPoll(child[a][i], channel))
    /\ UNCHANGED <<work, requests, answers, channel, registered, fork, budgetVars>>
Elapse(a, i) ==
    /\ Kind(a, i, "wait", "start") /\ child[a][i].timer > 0
    /\ Become(a, i, [child[a][i] EXCEPT !.timer = @ - 1])
    /\ UNCHANGED <<work, requests, answers, channel, registered, fork, budgetVars>>

\* The holder of the channel's sender, where a child waits on the channel.
Used(kind) == \E a \in work \cap Attempts : kind \in Range(Children[a])
SendEvent ==
    /\ Used("wait") /\ channel.open /\ channel.value = "none"
    /\ channel' = [channel EXCEPT !.value = "event"]
    /\ UNCHANGED <<work, requests, answers, registered, fork, child, budgetVars>>
DropSender ==
    /\ Used("wait") /\ channel.open /\ channel' = [channel EXCEPT !.open = FALSE]
    /\ UNCHANGED <<work, requests, answers, registered, fork, child, budgetVars>>

-----------------------------------------------------------------------------
\* AgentNode::run after a response: the last turn executes no tool.
AfterReply(c, reply) ==
    LET paid == [c EXCEPT !.tokens = @ + reply.tokens]
    IN  IF \/ reply.stop # "tool_use"
           \/ c.turn >= MaxToolCalls
           \/ reply.tool = "none"
        THEN Done(paid, "ok")
        ELSE [paid EXCEPT !.at = "find", !.saw = reply.tool]

\* One HTTP send of AnthropicProvider::chat: the sender fails, or the API
\* answers with a status and, if it is 200, a body.
AgentSend(a, i) ==
    /\ Kind(a, i, "agent", "start")
    /\ LET c == [child[a][i] EXCEPT !.sends = @ + 1] IN
         \/ Become(a, i, Done(c, "error"))
         \/ \E status \in Statuses :
              CASE AfterStatus(status, c.try) = "failed" -> Become(a, i, Done(c, "error"))
                [] AfterStatus(status, c.try) = "again" -> Become(a, i, [c EXCEPT !.at = "sleep"])
                [] OTHER -> \E body \in Bodies :
                              Become(a, i, AfterReply(c, ParseResponse(body, Model)))
    /\ UNCHANGED <<work, requests, answers, channel, registered, fork, budgetVars>>
AgentBackoff(a, i) ==
    /\ Kind(a, i, "agent", "sleep")
    /\ Become(a, i, [child[a][i] EXCEPT !.at = "start", !.try = @ + 1])
    /\ UNCHANGED <<work, requests, answers, channel, registered, fork, budgetVars>>

\* GoverningToolExecutor::execute: the registry is asked for the tool's name ...
AgentFind(a, i) ==
    /\ Kind(a, i, "agent", "find")
    /\ Become(a, i, IF child[a][i].saw \in registered
                    THEN [child[a][i] EXCEPT !.at = "invoke"] ELSE Done(child[a][i], "error"))
    /\ UNCHANGED <<work, requests, answers, channel, registered, fork, budgetVars>>

\* ... and the contract it gave is invoked: InProcessInvoker logs the call and
\* runs the handler, if there is one; a panic ends the child's task.
AfterTool(c, res) ==
    IF res = "ok" THEN [c EXCEPT !.at = "start", !.turn = @ + 1, !.try = 0,
                                 !.calls = Append(@, c.saw), !.invoked = @ + 1]
                  ELSE Done([c EXCEPT !.invoked = @ + 1], res)
AgentInvoke(a, i) ==
    /\ Kind(a, i, "agent", "invoke")
    /\ \E res \in IF child[a][i].saw \in Handlers THEN {"ok", "error", "panic"} ELSE {"error"} :
         Become(a, i, AfterTool(child[a][i], res))
    /\ UNCHANGED <<work, requests, answers, channel, registered, fork, budgetVars>>

\* Registry::deregister of a tool's capability.
Deregister(tool) ==
    /\ Used("agent") /\ tool \in registered /\ registered' = registered \ {tool}
    /\ UNCHANGED <<work, requests, answers, channel, fork, child, budgetVars>>

-----------------------------------------------------------------------------
\* CallBudget::call, first lock: what is left must not be exhausted.
Exhausted(left) == left.tokens = 0 \/ left.cost <= 0
CallCheck(k) ==
    /\ k \in work /\ caller[k] = "idle"
    /\ caller' = [caller EXCEPT ![k] = IF Exhausted(remaining) THEN "refused" ELSE "calling"]
    /\ UNCHANGED <<nodeVars, remaining, spent>>

\* The provider answered, or failed; second lock: what it used is deducted,
\* and nothing is deducted for a failure.
Monus(x, y) == IF x < y THEN 0 ELSE x - y
CallDeduct(k) ==
    /\ caller[k] = "calling" /\ caller' = [caller EXCEPT ![k] = "idle"]
    /\ \/ UNCHANGED <<remaining, spent>>
       \/ \E u \in Usages :
            /\ remaining' = [tokens |-> Monus(remaining.tokens, u.tokens),
                             cost |-> Monus(remaining.cost, u.cost)]
            /\ spent' = [tokens |-> spent.tokens + u.tokens, cost |-> spent.cost + u.cost]
    /\ UNCHANGED nodeVars

-----------------------------------------------------------------------------
ChildStep(a, i) ==
    \/ Deterministic(a, i) \/ GateGet(a, i) \/ GateOpen(a, i) \/ EventWait(a, i) \/ Elapse(a, i)
    \/ AgentSend(a, i) \/ AgentBackoff(a, i) \/ AgentFind(a, i) \/ AgentInvoke(a, i)
AttemptNext(a) ==
    \/ ForkStart(a) \/ ForkJoin(a) \/ ForkReturn(a)
    \/ \E i \in DOMAIN child[a] : ChildStep(a, i)

Next ==
    \/ \E a \in Attempts : AttemptNext(a)
    \/ \E intent \in Intents, answer \in {"Approved", "Rejected"} : Resolve(intent, answer)
    \/ SendEvent \/ DropSender
    \/ \E tool \in Tools : Deregister(tool)
    \/ \E k \in Callers : CallCheck(k) \/ CallDeduct(k)

\* tokio polls what is spawned or awaited, timers fire, sends and handlers
\* return; reviewers, senders and the registry owe nothing.
Fairness ==
    \A a \in Attempts :
        /\ WF_vars(ForkJoin(a) \/ ForkReturn(a))
        /\ \A i \in 1..Len(Children[a]) : WF_vars(ChildStep(a, i))
Spec == Init /\ [][Next]_vars /\ Fairness

-----------------------------------------------------------------------------
Kids(a) == {child[a][i] : i \in DOMAIN child[a]}

Gates(intent) ==
    {g \in UNION {{a} \X DOMAIN child[a] : a \in Attempts} :
        IntentOf[g[1]] = intent /\ child[g[1]][g[2]].kind = "gate"}
Opened(g) == child[g[1]][g[2]].at = "done" /\ child[g[1]][g[2]].saw = "none"

(* An answer of the reviewer is overwritten by a new Pending request only    *)
(* when two gates of the intent both looked before either opened: lookup and *)
(* open are two locks of ApprovalNode::run.                                  *)
AnswerLostOnlyInOverlap ==
    \A intent \in Intents :
        requests[intent] = "Pending" /\ answers[intent] # {}
          => \E opener, late \in Gates(intent) : opener # late /\ Opened(opener) /\ Opened(late)

\* The tokens of the first n children of a fork
TokensOf(children, n) ==
    LET sum[k \in 0..n] == IF k = 0 THEN 0 ELSE sum[k - 1] + children[k].tokens
    IN  sum[n]

(* A fork succeeds only if all of its children did: a gate among them was    *)
(* approved by the reviewer, and the tokens it reports are theirs.  A fork   *)
(* that failed did so at the first child that failed, which is not a wait    *)
(* whose event was there when it began, however short its timeout.           *)
ForkSpeaksForChildren ==
    \A a \in Attempts :
        /\ fork[a].res = "ok" =>
             /\ \A c \in Kids(a) : c.res = "ok" /\ (c.kind = "gate" => "Approved" \in answers[IntentOf[a]])
             /\ fork[a].tokens = TokensOf(child[a], Len(child[a]))
        /\ fork[a].res = "error" =>
             /\ child[a][fork[a].next].res \notin {"none", "ok"}
             /\ child[a][fork[a].next].kind = "wait" => child[a][fork[a].next].saw = "none"
             /\ \A i \in 1..(fork[a].next - 1) : child[a][i].res = "ok"

(* Whatever the model and the API answer, an agent invokes at most           *)
(* max_tool_calls tools and sends at most max_retries + 1 requests a turn,   *)
(* the agents of a failed fork included; every request it sends alternates   *)
(* the roles.  Calls in flight can overspend a CallBudget, each by no more   *)
(* than one call uses, and what remains is exactly what was not spent.       *)
AgentsAreBounded ==
    LET most == Max({u.tokens : u \in Usages})
    IN  /\ \A a \in Attempts : \A c \in Kids(a) :
             /\ c.invoked <= MaxToolCalls
             /\ c.sends <= (MaxToolCalls + 1) * (MaxRetries + 1)
             /\ c.kind = "agent" /\ c.at = "start" =>
                  LET sent == RequestBody(Conversation(c.calls), Tools).messages
                  IN  /\ \A i \in DOMAIN sent : sent[i].role = IF i % 2 = 1 THEN "user" ELSE "assistant"
                      /\ Len(sent) % 2 = 1
        /\ spent.tokens <= Monus(CallBudget.tokens, 1) + Cardinality(Callers) * most
        /\ remaining.tokens = Monus(CallBudget.tokens, spent.tokens)
        /\ remaining.cost = Monus(CallBudget.cost, spent.cost)

(* Every fork that starts returns, and every child it spawned ends, with or  *)
(* without the fork: neither an absent event nor a failing API holds it.     *)
EveryForkSettles ==
    \A a \in Attempts : fork[a].at = "join" ~>
        fork[a].at = "done" /\ \A c \in Kids(a) : c.at = "done"
=============================================================================
