----------------------------- MODULE ChatStream -----------------------------
(***************************************************************************)
(* ChatEventConverter: how a stream of Responses events becomes a stream   *)
(* of Chat Completions chunks (crates/provider-protocol/src/openai_chat/   *)
(* response.rs). Its client events are role, reasoning, content, tool (the *)
(* chunk that starts a call), args, finish, usage, done and error.         *)
(***************************************************************************)
EXTENDS ResponsesEvents

\* Tools are found by call id or by item id; a key is either.
CallKey(n) == <<"call", n>>

ChatNew(includeUsage) ==
  [role |-> FALSE, text |-> FALSE, tools |-> FALSE, usage |-> includeUsage, indexes |-> <<>>,
   named |-> {}, argued |-> {}, next |-> 0, finished |-> FALSE, out |-> <<>>]

EmitRole(c) ==
  IF c.role THEN c ELSE [Emit(c, Client("role", 0, "", <<>>, "")) EXCEPT !.role = TRUE]

\* tool_index: the index known for a key, or the next one.
ToolIndex(c, key) == IF key \in DOMAIN c.indexes THEN c.indexes[key] ELSE c.next

ToolIndexForItem(c, ev) ==
  IF CallKey(ev.n) \in DOMAIN c.indexes THEN c.indexes[CallKey(ev.n)] ELSE ToolIndex(c, ev.id)

\* Recording an index under some keys takes next_tool_index if it was new.
Indexed(c, keys, index) ==
  [c EXCEPT !.indexes = [k \in keys |-> index] @@ @,
            !.next = IF index = @ THEN @ + 1 ELSE @]

EmitToolStart(c, ev) ==
  LET i == ToolIndexForItem(c, ev)
      indexed == Indexed(EmitRole(c), {CallKey(ev.n), ev.id}, i)
  IN [Emit(indexed, Client("tool", i, "", CallId(ev.n), ev.name))
        EXCEPT !.tools = TRUE, !.named = IF ev.name = "" THEN @ ELSE @ \union {i}]

\* Arguments for a key nobody announced start a tool of their own.
EmitChatArguments(c, ev) ==
  LET i == ToolIndex(c, ev.id)
      indexed == Indexed(c, {ev.id}, i)
  IN IF ev.val = <<>> \/ (ev.t = "args.done" /\ i \in c.argued) THEN indexed
     ELSE [Emit(indexed, Client("args", i, "", ev.val, ""))
             EXCEPT !.argued = @ \union {i}, !.tools = TRUE]

ChatCallDone(c, ev) ==
  LET i == ToolIndexForItem(c, ev)
      indexed == Indexed(c, {CallKey(ev.n), ev.id}, i)
      started == IF i \in c.named THEN indexed ELSE EmitToolStart(indexed, ev)
  IN IF ev.val = <<>> \/ i \in c.argued THEN started
     ELSE [Emit(started, Client("args", i, "", ev.val, "")) EXCEPT !.argued = @ \union {i}]

ChatItemDone(c, ev) ==
  CASE ev.k = "message" /\ ~c.text /\ ev.val # <<>> ->
         [Emit(EmitRole(c), Client("content", 0, "", ev.val, "")) EXCEPT !.text = TRUE]
    [] ev.k = "function_call" -> ChatCallDone(c, ev)
    [] OTHER -> c

FinishReason(c, ev) ==
  CASE c.tools -> "tool_calls"
    [] ~c.tools /\ ev.why = "max_output_tokens" -> "length"
    [] ~c.tools /\ ev.why = "content_filter" -> "content_filter"
    [] OTHER -> "stop"

CompleteChat(c, ev) ==
  LET finished == Emit(EmitRole(c), Client("finish", 0, "", <<>>, FinishReason(c, ev)))
      counted == IF c.usage /\ ev.use # 0
                 THEN Emit(finished, Client("usage", ev.use, "", <<>>, "")) ELSE finished
  IN Emit(counted, Client("done", 0, "", <<>>, ""))

ChatDelta(c, e, val) ==
  IF val = <<>> THEN EmitRole(c) ELSE Emit(EmitRole(c), Client(e, 0, "", val, ""))

ChatError(c, ev) == Emit(c, Client("error", 0, "", <<>>, ev.t))

ChatConvert(c, ev) ==
  CASE ev.t = "created" -> EmitRole(c)
    [] ev.t \in {"rs.delta", "raw_rs.delta"} -> ChatDelta(c, "reasoning", ev.val)
    [] ev.t = "text.delta" ->
         [ChatDelta(c, "content", ev.val) EXCEPT !.text = @ \/ ev.val # <<>>]
    [] ev.t = "item.added" -> IF ev.k = "function_call" THEN EmitToolStart(c, ev) ELSE c
    [] ev.t \in {"args.delta", "args.done"} -> EmitChatArguments(c, ev)
    [] ev.t = "item.done" -> ChatItemDone(c, ev)
    [] ev.t \in {"completed", "incomplete"} -> CompleteChat(c, ev)
    [] ev.t \in {"error", "failed", "cancelled"} -> ChatError(c, ev)
    [] OTHER -> c

\* ChatStreamAdapter::next_output: what one item read from upstream does.
ChatRead(c, ev) ==
  CASE ev.t = "fault" -> [Emit(c, ClientFault) EXCEPT !.finished = TRUE]
    [] ev.t = "raw" -> Emit(c, ClientFault)
    [] ev.t = "eof" -> [c EXCEPT !.finished = TRUE]
    [] OTHER -> ChatConvert(c, ev)
==============================================================================
