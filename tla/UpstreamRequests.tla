-------------------------- MODULE UpstreamRequests --------------------------
(***************************************************************************)
(* What each upstream is sent: Responses items become Chat messages for a  *)
(* Chat Completions upstream, and the Codex, Grok and Antigravity drivers  *)
(* rewrite the items their upstream would refuse.                          *)
(*                                                                         *)
(* Reasoning is signed by the upstream that issued it.  A driver knows a   *)
(* signature by its text alone: Fernet tokens are Codex's, plain unpadded  *)
(* base64 Grok's, a protobuf envelope Claude's or Gemini's.                *)
(***************************************************************************)
EXTENDS ClientRequests

ShapeOf(sig) ==
  CASE sig.owner = "codex" -> "fernet" [] sig.owner = "grok" -> "plain"
    [] sig.owner \in {"claude", "gemini"} -> "envelope" [] OTHER -> "none"

Rejected == [ok |-> FALSE, body |-> <<>>, table |-> Refused]

-----------------------------------------------------------------------------
(* Responses to Chat (provider-protocol/src/openai_responses): a call must *)
(* be answered, once, by an output of its kind before anything but a       *)
(* message without a type comes between.                                   *)

CallKind(type) ==
  CASE type \in Range(CallTypes) -> (CHOOSE k \in DOMAIN CallTypes : CallTypes[k] = type)
    [] OTHER -> "none"
OutputKind(type) ==
  CASE type \in Range(OutputTypes) -> (CHOOSE k \in DOMAIN OutputTypes : OutputTypes[k] = type)
    [] OTHER -> "none"

PairStep(s, item) ==
  LET call == CallKind(item.type)
      output == OutputKind(item.type)
      answers == item.call \in DOMAIN s.pending /\ s.pending[item.call] = output
  IN CASE ~s.ok \/ item.type = "" -> s
       [] call # "none" ->
            [ok |-> item.call \notin s.seen, seen |-> s.seen \union {item.call},
             pending |-> (item.call :> call) @@ s.pending]
       [] output # "none" ->
            [s EXCEPT !.ok = answers, !.pending = RestrictDomain(@, LAMBDA id : id # item.call)]
       [] OTHER -> [s EXCEPT !.ok = DOMAIN s.pending = {} \/ item.type = "additional_tools"]

ValidToolPairing(items) ==
  LET end == FoldLeft(PairStep, [ok |-> TRUE, seen |-> {}, pending |-> <<>>], items)
  IN end.ok /\ DOMAIN end.pending = {}

NoAssistant == [vs |-> <<>>, think |-> <<>>, calls |-> <<>>]
ChatMessage(role, vs, think, calls, call) ==
  [role |-> role, vs |-> vs, think |-> think, calls |-> calls, call |-> call]

FlushAssistant(s) ==
  IF s.assistant = NoAssistant THEN s
  ELSE [s EXCEPT !.messages = Append(@, ChatMessage("assistant", s.assistant.vs,
                                         s.assistant.think, s.assistant.calls, "")),
                 !.assistant = NoAssistant]
Say(s, message) ==
  LET flushed == FlushAssistant(s) IN [flushed EXCEPT !.messages = Append(@, message)]

AppendMessageItem(s, item) ==
  IF item.role = "assistant" THEN [s EXCEPT !.assistant.vs = @ \o item.vs]
  ELSE Say(s, ChatMessage(item.role, item.vs, <<>>, <<>>, ""))

AppendAgentMessage(s, item) ==
  IF item.said THEN Say(s, ChatMessage("user", item.vs, <<>>, <<>>, "")) ELSE s

AppendReasoningItem(s, item) ==
  IF item.said THEN [s EXCEPT !.assistant.think = @ \o item.vs] ELSE s

(* Between Chat and Chat nothing is translated, and nothing checked.       *)
RenderChat(m, tools) ==
  LET calls == Of(m, "call")
      named(c) == [call |-> c.call, name |-> tools[c.tool].name, vs |-> <<c.v>>]
      other(b) == IF b.k = "result" THEN ChatMessage("tool", <<b.v>>, <<>>, <<>>, b.call)
                  ELSE ChatMessage(m.role, <<b.v>>, <<>>, <<>>, "")
  IN IF m.role = "assistant"
     THEN <<ChatMessage("assistant", Numbers(Of(m, "text")), Numbers(Of(m, "think")),
                        [i \in DOMAIN calls |-> named(calls[i])], "")>>
     ELSE [i \in DOMAIN m.blocks |-> other(m.blocks[i])]
PassChatRequest(conv, tools) ==
  Accepted(FlattenSeq([i \in DOMAIN Runs(conv) |-> RenderChat(Runs(conv)[i], tools)]),
           ChatClientTable(tools))

AppendToolCall(s, item, targets) ==
  LET unnamed == CallKind(item.type) \in Unnamed
      name == IF unnamed THEN item.name ELSE ChatName(item.ns, item.name)
  IN [s EXCEPT !.ok = @ /\ (unnamed \/ name \in DOMAIN targets),
               !.assistant.calls = Append(@, [call |-> item.call, name |-> name, vs |-> item.vs])]

ToolOutputMessage(item) == ChatMessage("tool", item.vs, <<>>, <<>>, item.call)

AppendInputItem(s, item, targets) ==
  CASE item.type \in {"message", ""} -> AppendMessageItem(s, item)
    [] item.type = "agent_message" -> AppendAgentMessage(s, item)
    [] item.type = "reasoning" -> AppendReasoningItem(s, item)
    [] CallKind(item.type) # "none" -> AppendToolCall(s, item, targets)
    [] OutputKind(item.type) # "none" -> Say(s, ToolOutputMessage(item))
    [] item.type = "additional_tools" -> s
    [] OTHER -> [s EXCEPT !.ok = FALSE]

ConvertInput(items, targets) ==
  LET end == FlushAssistant(FoldLeft(LAMBDA s, item : AppendInputItem(s, item, targets),
               [ok |-> TRUE, messages |-> <<>>, assistant |-> NoAssistant], items))
  IN [end EXCEPT !.ok = @ /\ ValidToolPairing(items) /\ end.messages # <<>>]

PrepareChatRequest(items, tools) ==
  LET table == ConvertTools(tools)
      input == ConvertInput(items, table.back)
  IN IF table.ok /\ input.ok THEN Accepted(input.messages, table) ELSE Rejected

-----------------------------------------------------------------------------
(* Codex: reasoning and agent messages nobody can read are dropped.  A     *)
(* Responses Lite request has its tools in its first item, and only there. *)

IsCodexEncryptedContent(sig) == ShapeOf(sig) = "fernet"

CodexReasoning(items) ==
  SelectSeq(items, LAMBDA i : i.type # "reasoning" \/ IsCodexEncryptedContent(i.sig))

NormalizeResponsesLite(items, tools) ==
  LET prefixed == items # <<>> /\ items[1].type = "additional_tools"
  IN IF ~prefixed THEN Accepted(<<Item("additional_tools")>> \o items, NoTable)
     ELSE IF tools = <<>> THEN Accepted(items, NoTable) ELSE Rejected

ReadableAgents(items) == SelectSeq(items, LAMBDA i : i.type # "agent_message" \/ i.said)

PrepareCodexRequest(items, tools, lite) ==
  LET kept == ReadableAgents(CodexReasoning(items))
  IN IF lite THEN NormalizeResponsesLite(kept, tools) ELSE Accepted(kept, NoTable)

-----------------------------------------------------------------------------
(* The history both Grok and Antigravity rewrite (responses_history.rs):   *)
(* client tool calls become function calls, agent messages user messages.  *)

NormalizeAgentMessage(item) == MessageItem("user", item.vs)
RebuildFunctionCall(item) == CallItem("function_call", item.call, item.name, <<>>, item.vs)
RebuildFunctionOutput(item) == OutputItem("function_call_output", item.call, item.vs)
ConvertHostedToolCall(item, name) == CallItem("function_call", item.call, name, <<>>, item.vs)

NormalizeInputItem(item) ==
  CASE item.type = "agent_message" -> NormalizeAgentMessage(item)
    [] item.type = "web_search_call" -> ConvertHostedToolCall(item, <<"web_search">>)
    [] item.type # "function_call" /\ CallKind(item.type) # "none" -> RebuildFunctionCall(item)
    [] item.type # "function_call_output" /\ OutputKind(item.type) # "none" ->
         RebuildFunctionOutput(item)
    [] OTHER -> item

NormalizeInput(items) ==
  LET kept == ReadableAgents(items) IN [i \in DOMAIN kept |-> NormalizeInputItem(kept[i])]

CallIds(items) == {items[i].call : i \in {j \in DOMAIN items : items[j].type = "function_call"}}
OutputIds(items) ==
  {items[i].call : i \in {j \in DOMAIN items : items[j].type = "function_call_output"}}

-----------------------------------------------------------------------------
(* Grok (grok/request.rs): namespaces go into the names before the history *)
(* is rewritten, foreign signatures are cut off, and an output without its *)
(* call is refused.                                                        *)

IsGrokEncryptedContent(sig) == ShapeOf(sig) = "plain" /\ ~sig.padded

QualifyCall(item) ==
  IF item.type \in {"function_call", "custom_tool_call"} /\ item.ns # <<>>
  THEN [item EXCEPT !.name = GrokName(item.ns, item.name), !.ns = <<>>] ELSE item

NormalizeReasoning(item) ==
  IF item.type # "reasoning" \/ item.sig = NoSig \/ IsGrokEncryptedContent(item.sig) THEN <<item>>
  ELSE IF item.said THEN <<[item EXCEPT !.sig = NoSig]>> ELSE <<>>

GrokItemTypes == {"", "message", "function_call", "function_call_output", "reasoning"}
ToolOutputsInContext(items) == OutputIds(items) \subseteq CallIds(items)
WithoutAdditionalTools(items) == SelectSeq(items, LAMBDA i : i.type # "additional_tools")

PrepareGrokRequest(items, tools) ==
  LET table == GrokTable(tools)
      sent == WithoutAdditionalTools(items)
      plain == NormalizeInput([i \in DOMAIN sent |-> QualifyCall(sent[i])])
      body == FlattenSeq([i \in DOMAIN plain |-> NormalizeReasoning(plain[i])])
  IN IF /\ table.ok
        /\ \A i \in DOMAIN body : body[i].type \in GrokItemTypes
        /\ ToolOutputsInContext(body)
     THEN Accepted(body, table) ELSE Rejected

(* When Grok cannot decrypt, the request is prepared once more without.    *)
(* What foreign reasoning leaves is an item of its id and its summary, be  *)
(* they empty, and a Grok request keeps it.                                *)
StripEncryptedReasoning(items) ==
  [i \in DOMAIN items |-> IF items[i].type = "reasoning" THEN [items[i] EXCEPT !.sig = NoSig] ELSE items[i]]

-----------------------------------------------------------------------------
(* Antigravity (antigravity/request): items become Gemini contents.  A     *)
(* signature waits for the model's next words or call.  Gemini takes no    *)
(* call without one, so such a call and its result are told as text.       *)

Claude(target) == target = "claude"

IsForeignToGemini(sig) == ShapeOf(sig) = "fernet" \/ ~sig.padded
IsClaudeSignature(sig) == ShapeOf(sig) = "envelope"

SignatureFits(sig, target) ==
  sig # NoSig /\ (IF Claude(target) THEN IsClaudeSignature(sig) ELSE ~IsForeignToGemini(sig))

HostedHistory == {<<k>> : k \in Hosted \union Unnamed}

Content(role, k, vs, call, name, sig, from) ==
  [role |-> role, k |-> k, vs |-> vs, call |-> call, name |-> name, sig |-> sig, from |-> from]
Waiting(sig, from) == [sig |-> sig, from |-> from]
NoneWaiting == Waiting(NoSig, 0)

AppendModelMessage(s, item) ==
  [s EXCEPT !.contents = Append(@, Content("model", "text", item.vs, "", <<>>,
                                           s.pending.sig, s.pending.from)),
            !.pending = NoneWaiting]

AppendThought(s, item, target) ==
  LET fits == SignatureFits(item.sig, target)
      sig == IF fits THEN item.sig ELSE NoSig
      shown == item.said /\ (~Claude(target) \/ fits)
  IN [s EXCEPT !.contents = IF shown THEN Append(@, Content("model", "thought", item.vs, "", <<>>,
                                                      sig, item.vs[1])) ELSE @,
               !.pending = IF fits THEN Waiting(sig, item.vs[1]) ELSE @]

(* Mutant: the waiting signature is lent to a call, not taken by it.       *)
LendPending(s, left) == s.pending
LeftPending(s, left) == IF left THEN s.pending ELSE NoneWaiting

(* A signature of the call's own comes before the waiting one, which goes  *)
(* on waiting.  The calls this server answers with have none.              *)
AppendFunctionCall(s, item, target) ==
  LET name == MappedToolName(s.table.names, item.ns, item.name)
      hosted == name \in HostedHistory
      own == SignatureFits(item.sig, target)
      taken == IF hosted THEN NoneWaiting ELSE IF own THEN Waiting(item.sig, item.vs[1]) ELSE s.pending
      told == ~Claude(target) /\ taken.sig = NoSig
  IN [s EXCEPT !.names = (item.call :> name) @@ @,
               !.flattened = IF told THEN @ \union {item.call} ELSE @,
               !.pending = LeftPending(s, hosted \/ own),
               !.contents = Append(@, Content("model", IF told THEN "calltext" ELSE "call",
                                              item.vs, item.call, name, taken.sig, taken.from))]

(* Mutant: the result of a call told as text stays structured.             *)
ForgetsFlattened(s, item) ==
  [s EXCEPT !.contents = Append(@, Content("user", "result", item.vs, item.call,
                                           s.names[item.call], NoSig, 0))]
AppendFunctionOutput(s, item) ==
  LET raw == IF item.call \in DOMAIN s.names THEN s.names[item.call] ELSE <<"unknown">>
      told == item.call \in s.flattened
  IN [s EXCEPT !.contents = Append(@, Content("user", IF told THEN "resulttext" ELSE "result",
                                        item.vs, item.call,
                                        MappedToolName(s.table.names, <<>>, raw), NoSig, 0))]

AppendContent(s, item, target) ==
  CASE item.type = "additional_tools" -> s
    [] item.type \in {"message", ""} /\ item.role = "assistant" -> AppendModelMessage(s, item)
    [] item.type \in {"message", ""} /\ item.role = "user" ->
         [s EXCEPT !.contents = Append(@, Content("user", "text", item.vs, "", <<>>, NoSig, 0))]
    [] item.type \in {"message", ""} /\ item.role = "developer" ->
         [s EXCEPT !.system = @ \o item.vs]
    [] item.type = "reasoning" -> AppendThought(s, item, target)
    [] item.type = "function_call" -> AppendFunctionCall(s, item, target)
    [] item.type = "function_call_output" -> AppendFunctionOutput(s, item)
    [] OTHER -> [s EXCEPT !.ok = FALSE]

ValidContinuation(items) ==
  \/ OutputIds(items) \subseteq CallIds(items)
  \/ \E i \in DOMAIN items :
       items[i].role = "assistant" \/ items[i].type \in {"reasoning", "function_call"}

LeadWithUser(contents, target) ==
  IF Claude(target) \/ (contents # <<>> /\ contents[1].role = "user") THEN contents
  ELSE <<Content("user", "text", <<>>, "", <<>>, NoSig, 0)>> \o contents

(* A Claude model with tools is called in a mode of its own, whatever the  *)
(* client chose: the names it allows stay, being made to call is lost.     *)
FunctionCallingConfig(chosen, table, target) ==
  IF Claude(target) /\ table.tools # <<>> THEN [chosen EXCEPT !.mode = "VALIDATED"] ELSE chosen

PrepareAntigravityRequest(items, tools, target) ==
  LET table == AntigravityTable(tools)
      input == NormalizeInput(items)
      end == FoldLeft(LAMBDA s, item : AppendContent(s, item, target),
               [ok |-> TRUE, contents |-> <<>>, system |-> <<>>, names |-> <<>>,
                flattened |-> {}, pending |-> NoneWaiting, table |-> table], input)
  IN IF table.ok /\ ValidContinuation(input) /\ end.ok
     THEN [ok |-> TRUE, table |-> table,
           body |-> [contents |-> LeadWithUser(end.contents, target), system |-> end.system,
                     config |-> FunctionCallingConfig(Config("AUTO", {}), table, target)]]
     ELSE Rejected
=============================================================================
