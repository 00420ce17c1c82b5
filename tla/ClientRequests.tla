--------------------------- MODULE ClientRequests ---------------------------
(***************************************************************************)
(* A conversation as its client sends it, and the translation of the       *)
(* client's protocol into the one the upstream speaks: Claude messages and *)
(* Chat Completions into Responses items, Responses items into Chat        *)
(* messages.                                                               *)
(*                                                                         *)
(* A conversation is a sequence of parts [k, v, call, tool, sig, said]:    *)
(*   user, note, agent   what was put to the model: by the person, as a    *)
(*                       system or developer message, by another agent     *)
(*   think, text, call   the model's reasoning, words and tool calls       *)
(*   search              a call the upstream ran itself (web_search)       *)
(*   result              what a tool answered                              *)
(* v numbers the part, call is a call's id, tool its place among the       *)
(* declared tools, sig what the upstream signed its reasoning with and     *)
(* said whether the reasoning has a readable summary, or the agent message *)
(* text that is not encrypted away.                                        *)
(*                                                                         *)
(* An item is a Responses input item [type, role, vs, call, name, ns, sig, *)
(* said]: vs are the parts its content holds.  A message of the Chat       *)
(* protocol is [role, vs, think, calls, call].  A translated request is    *)
(* [ok, body, table]: accepted or not, its items or messages, its tools.   *)
(***************************************************************************)
EXTENDS ToolNames

(* The ids too long for an upstream; ShortId is what they are cut to.      *)
CONSTANT LongIds

(* A signature: the upstream that issued it and whether its base64 is      *)
(* padded (or has another mark plain base64 does not have).                *)
Sig(owner, padded) == [owner |-> owner, padded |-> padded]
NoSig == Sig("none", FALSE)

Item(type) == [type |-> type, role |-> "", vs |-> <<>>, call |-> "", name |-> <<>>,
               ns |-> <<>>, sig |-> NoSig, said |-> FALSE]
MessageItem(role, vs) == [Item("message") EXCEPT !.role = role, !.vs = vs]
CallItem(type, call, name, ns, vs) ==
  [Item(type) EXCEPT !.call = call, !.name = name, !.ns = ns, !.vs = vs]
OutputItem(type, call, vs) == [Item(type) EXCEPT !.call = call, !.vs = vs]
ReasoningItem(sig, said, vs) ==
  [Item("reasoning") EXCEPT !.sig = sig, !.said = said, !.vs = vs]

Accepted(body, table) == [ok |-> table.ok, body |-> body, table |-> table]

-----------------------------------------------------------------------------
(* How the three clients put a conversation on the wire.                   *)

PartRole(p) ==
  IF p.k \in {"think", "text", "call", "search"} THEN "assistant"
  ELSE IF p.k = "note" THEN "system" ELSE "user"

(* Runs of parts of one role: a Claude message holds one run, in blocks.   *)
Runs(conv) ==
  FoldLeft(LAMBDA ms, p :
             IF ms # <<>> /\ Last(ms).role = PartRole(p)
             THEN [ms EXCEPT ![Len(ms)].blocks = Append(@, p)]
             ELSE Append(ms, [role |-> PartRole(p), blocks |-> <<p>>]),
           <<>>, conv)

(* A Responses client sends one item a part, of the type its tool has.     *)
CallTypes == [function |-> "function_call", custom |-> "custom_tool_call",
              tool_search |-> "tool_search_call", local_shell |-> "local_shell_call",
              apply_patch |-> "apply_patch_call"]
OutputTypes == [function |-> "function_call_output", custom |-> "custom_tool_call_output",
                tool_search |-> "tool_search_output", local_shell |-> "local_shell_call_output",
                apply_patch |-> "apply_patch_call_output"]

RenderItem(p, tools) ==
  CASE p.k \in {"user", "text", "note"} ->
         MessageItem(IF p.k = "note" THEN "developer" ELSE PartRole(p), <<p.v>>)
    [] p.k = "agent" -> [Item("agent_message") EXCEPT !.vs = <<p.v>>, !.said = p.said]
    [] p.k = "think" -> ReasoningItem(p.sig, p.said, <<p.v>>)
    [] p.k = "search" -> CallItem("web_search_call", p.call, <<>>, <<>>, <<p.v>>)
    [] p.k = "call" -> LET t == tools[p.tool]
                       IN CallItem(CallTypes[t.kind], p.call, NameOf(t), t.ns, <<p.v>>)
    [] p.k = "result" -> OutputItem(OutputTypes[tools[p.tool].kind], p.call, <<p.v>>)

(* An SDK client leaves the type of a message out; a Codex client gives it *)
(* and sends its tools as the first item.                                  *)
RenderResponses(conv, tools, lite) ==
  LET item(i) == RenderItem(conv[i], tools)
      bare(i) == IF item(i).type = "message" THEN [item(i) EXCEPT !.type = ""] ELSE item(i)
  IN IF lite THEN <<Item("additional_tools")>> \o [i \in DOMAIN conv |-> item(i)]
     ELSE [i \in DOMAIN conv |-> bare(i)]

-----------------------------------------------------------------------------
(* Claude to Responses (provider-protocol/src/claude/request.rs).  Text    *)
(* blocks gather into one message; a thinking, tool_use or tool_result     *)
(* block closes it.  A thinking block without a signature, and a call the  *)
(* upstream ran itself, leave nothing.                                     *)

ShortId(id) == IF id \in LongIds THEN "~" \o id ELSE id

FlushParts(s, role) ==
  IF s.parts = <<>> THEN s
  ELSE [input |-> Append(s.input, MessageItem(role, s.parts)), parts |-> <<>>]
Put(s, item) == [s EXCEPT !.input = Append(@, item)]

AppendClaudeBlock(s, b, role, tools, table) ==
  CASE b.k \in {"user", "text"} -> [s EXCEPT !.parts = Append(@, b.v)]
    [] b.k = "think" ->
         IF b.sig = NoSig THEN FlushParts(s, role)
         ELSE Put(FlushParts(s, role), ReasoningItem(b.sig, FALSE, <<b.v>>))
    [] b.k = "call" ->
         Put(FlushParts(s, role),
             CallItem("function_call", ShortId(b.call), table.names[tools[b.tool].name], <<>>, <<b.v>>))
    [] b.k = "result" ->
         Put(FlushParts(s, role), OutputItem("function_call_output", ShortId(b.call), <<b.v>>))
    [] OTHER -> s

(* Mutant: the words at the end of a message are not flushed.              *)
LosesLastWords(input, m, tools, table) ==
  FoldLeft(LAMBDA s, b : AppendClaudeBlock(s, b, m.role, tools, table),
           [input |-> input, parts |-> <<>>], m.blocks).input

AppendClaudeMessage(input, m, tools, table) ==
  IF m.role = "system"
  THEN input \o [i \in DOMAIN m.blocks |-> MessageItem("user", <<m.blocks[i].v>>)]
  ELSE FlushParts(FoldLeft(LAMBDA s, b : AppendClaudeBlock(s, b, m.role, tools, table),
                           [input |-> input, parts |-> <<>>], m.blocks), m.role).input

(* A note before everything else is the request's system prompt.           *)
HasSystem(conv) == conv[1].k = "note"
AppendClaudeSystem(conv) ==
  IF HasSystem(conv) THEN <<MessageItem("developer", <<conv[1].v>>)>> ELSE <<>>

PrepareResponsesRequest(conv, tools) ==
  LET table == ClaudeTable(tools)
      messages == Runs(IF HasSystem(conv) THEN Tail(conv) ELSE conv)
  IN Accepted(FoldLeft(LAMBDA input, m : AppendClaudeMessage(input, m, tools, table),
                       AppendClaudeSystem(conv), messages), table)

-----------------------------------------------------------------------------
(* Chat to Responses (provider-protocol/src/openai_chat/request.rs).  An   *)
(* assistant message is split into its reasoning, its words and its calls. *)

Of(m, k) == SelectSeq(m.blocks, LAMBDA b : b.k = k)
Numbers(blocks) == [i \in DOMAIN blocks |-> blocks[i].v]

AppendReasoning(m) ==
  LET told == SelectSeq(m.blocks, LAMBDA b : b.k = "think" /\ b.said)
  IN IF told = <<>> THEN <<>> ELSE <<ReasoningItem(NoSig, TRUE, Numbers(told))>>

AppendMessage(role, words) == IF words = <<>> THEN <<>> ELSE <<MessageItem(role, words)>>

AppendToolCalls(calls, tools) ==
  [i \in DOMAIN calls |->
     CallItem("function_call", calls[i].call, tools[calls[i].tool].name, <<>>, <<calls[i].v>>)]

AppendToolOutput(b) == <<OutputItem("function_call_output", b.call, <<b.v>>)>>

AppendChatMessage(m, tools) ==
  IF m.role = "assistant"
  THEN AppendReasoning(m) \o AppendMessage("assistant", Numbers(Of(m, "text")))
         \o AppendToolCalls(Of(m, "call"), tools)
  ELSE FlattenSeq([i \in DOMAIN m.blocks |->
         IF m.blocks[i].k = "result" THEN AppendToolOutput(m.blocks[i])
         ELSE AppendMessage(IF m.role = "system" THEN "developer" ELSE "user", <<m.blocks[i].v>>)])

PrepareFromChat(conv, tools) ==
  Accepted(FlattenSeq([i \in DOMAIN Runs(conv) |-> AppendChatMessage(Runs(conv)[i], tools)]),
           ChatClientTable(tools))
=============================================================================
