---------------------------- MODULE LlmProvider -----------------------------
(***************************************************************************)
(* The pure part of aaf-llm: how AnthropicProvider turns a conversation    *)
(* into a request, a status into a decision and a body into a response,    *)
(* and what a response costs.  A text is left out; a tool call is its name.*)
(***************************************************************************)
EXTENDS Naturals, Sequences, SequencesExt

CONSTANTS
    MaxRetries,    \* AnthropicProvider.max_retries
    Pricing        \* the price table: [models with the prefix, input, output]

ASSUME ProviderAssumption == MaxRetries \in Nat

\* ChatMessage, with its constructors: a role and the tool it names.
Message(role, tool) == [role |-> role, tool |-> tool]

\* AgentNode's conversation after the calls `calls`: each is a ToolUse message
\* followed by its ToolResult.
Conversation(calls) ==
    [k \in 1..(2 * Len(calls) + 2) |->
        IF k = 1 THEN Message("System", "none")
        ELSE IF k = 2 THEN Message("User", "none")
        ELSE Message(IF k % 2 = 1 THEN "ToolUse" ELSE "ToolResult", calls[(k - 1) \div 2])]

\* map_message: the API knows two roles; a result travels as the user.
MapMessage(msg) ==
    [role |-> IF msg.role \in {"Assistant", "ToolUse"} THEN "assistant" ELSE "user",
     content |-> CASE msg.role = "ToolResult" -> "tool_result"
                   [] msg.role = "ToolUse" \/ (msg.role = "Assistant" /\ msg.tool # "none")
                        -> "tool_use"
                   [] OTHER -> "text",
     tool |-> msg.tool]

\* build_request_body: the system text leaves the list; tools and the choice
\* among them are sent only when there are tools.
Turns(messages) ==
    LET turns[i \in 0..Len(messages)] ==
            IF i = 0 THEN <<>>
            ELSE IF messages[i].role = "System" THEN turns[i - 1]
            ELSE Append(turns[i - 1], MapMessage(messages[i]))
    IN  turns[Len(messages)]
RequestBody(messages, tools) ==
    [messages |-> Turns(messages),
     system   |-> \E i \in DOMAIN messages : messages[i].role = "System",
     tools    |-> tools,
     choice   |-> IF tools = {} THEN "absent" ELSE "auto"]

\* send_with_retry: what a status does at the given attempt, counted from 0;
\* the kinds of failure are not told apart.
Transient == {429, 500, 502, 503, 529}
AfterStatus_OneMore(status, attempt) ==
    CASE status = 200 -> "answered"
      [] status \in Transient /\ attempt <= MaxRetries -> "again"
      [] OTHER -> "failed"

AfterStatus(status, attempt) ==
    CASE status = 200 -> "answered"
      [] status \in Transient /\ attempt < MaxRetries -> "again"
      [] OTHER -> "failed"

\* calculate_cost: the first entry whose prefix fits; an unknown model is free.
CalculateCost(model, in, out) ==
    LET fits == SelectSeq(Pricing, LAMBDA p : model \in p.models)
    IN  IF fits = <<>> THEN 0 ELSE in * fits[1].input + out * fits[1].output

\* parse_response: unknown stop reasons end the turn, and of several tool_use
\* blocks the last one is kept.
ParseResponse(body, model) ==
    LET used == SelectSeq(body.blocks, LAMBDA b : b # "text")
    IN  [stop |-> IF body.stop \in {"tool_use", "max_tokens"} THEN body.stop ELSE "end_turn",
         tool |-> IF used = <<>> THEN "none" ELSE Last(used),
         tokens |-> body.in + body.out,
         cost |-> CalculateCost(model, body.in, body.out)]
=============================================================================
