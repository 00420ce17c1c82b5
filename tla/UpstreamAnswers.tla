--------------------------- MODULE UpstreamAnswers ---------------------------
(***************************************************************************)
(* External: what the four kinds of upstream send for an answer. An answer *)
(* is a sequence of parts; upstream sends each part whole, one after the   *)
(* other, and then ends the way `end' says. Part n's fragments are <<n,1>> *)
(* and <<n,2>>.                                                            *)
(***************************************************************************)
EXTENDS ResponsesEvents

Fragments(n) == <<<<n, 1>>, <<n, 2>>>>

Usage == 7

\* The item a Responses upstream sends for a part; Grok only knows functions.
UpstreamItem(provider, part, n) ==
  LET whole(k, name, sig) == Item(k, n, name, sig, Fragments(n))
  IN CASE part \in {"reasoning", "thinking"} -> whole("reasoning", "", "enc")
       [] part \in {"message", "quiet"} -> whole("message", "", "")
       [] part = "call" -> whole("function_call", "f", "")
       [] part = "nscall" -> whole("function_call", "ns_g", "")
       [] part = "longid" -> [whole("function_call", "f", "") EXCEPT !.id = <<"long", n>>]
       [] part = "custom" ->
            IF provider = "grok" THEN whole("function_call", "c", "")
            ELSE whole("custom_tool_call", "c", "")
       [] part = "search" ->
            IF provider = "grok" THEN whole("function_call", "tool_search", "")
            ELSE whole("web_search_call", "", "")

\* The deltas of an item, between its item.added and its item.done.
UpstreamDeltas(part, item) ==
  LET all == item.val
      each(t) == <<Of(t, item, <<all[1]>>), Of(t, item, <<all[2]>>)>>
  IN CASE part = "reasoning" -> <<Of("rs_part.added", item, <<>>)>> \o each("rs.delta")
                                \o <<Of("rs.done", item, all), Of("rs_part.done", item, all)>>
       [] part = "thinking" -> <<Of("part.added", item, <<>>)>> \o each("raw_rs.delta")
                               \o <<Of("raw_rs.done", item, all)>>
       [] part = "message" -> <<Of("part.added", item, <<>>)>> \o each("text.delta")
                              \o <<Of("text.done", item, all), Of("part.done", item, all)>>
       [] item.k = "function_call" -> each("args.delta") \o <<Of("args.done", item, all)>>
       [] item.k = "custom_tool_call" -> each("input.delta") \o <<Of("input.done", item, all)>>
       [] OTHER -> <<>>

ResponsesItem(provider, part, n) ==
  LET item == UpstreamItem(provider, part, n)
  IN <<Of("item.added", item, <<>>)>> \o UpstreamDeltas(part, item)
     \o <<Of("item.done", item, item.val)>>

\* A terminal event lists the items, or leaves its output empty.
ResponsesEnd(provider, parts, end) ==
  LET items == [n \in 1..Len(parts) |-> UpstreamItem(provider, parts[n], n)]
  IN CASE end = "none" -> <<>>
       [] end = "bare" -> <<Terminal("completed", <<>>, Usage, "")>>
       [] end = "limit" -> <<Terminal("incomplete", items, Usage, "max_output_tokens")>>
       [] end = "status" ->
            <<[Terminal("completed", items, Usage, "") EXCEPT !.sig = "cancelled"]>>
       [] OTHER -> <<Terminal(end, items, Usage, "")>>

Numbered(events) == [j \in 1..Len(events) |-> [events[j] EXCEPT !.seq = j - 1]]

ResponsesScript(provider, parts, end) ==
  Numbered(<<Ev("created")>>
           \o FlattenSeq([n \in 1..Len(parts) |-> ResponsesItem(provider, parts[n], n)])
           \o ResponsesEnd(provider, parts, end))

\* Gemini parts: a signature on the first, on every fragment, or inherited.
GeminiPart(part, n) ==
  LET one(k, j, sig) == [Ev("part") EXCEPT !.k = k, !.val = <<<<n, j>>>>, !.sig = sig]
      call(name, sig) == <<[Ev("part") EXCEPT !.k = "call", !.val = Fragments(n), !.name = name,
                                              !.sig = sig]>>
  IN CASE part = "reasoning" -> <<one("thought", 1, "s"), one("thought", 2, "s")>>
       [] part = "thinking" -> <<one("thought", 1, "R"), one("thought", 2, "R")>>
       [] part = "message" -> <<one("text", 1, ""), one("text", 2, "")>>
       [] part = "quiet" -> <<one("text", 1, "t"), one("text", 2, "t")>>
       [] part = "custom" -> call("c", "")
       [] part = "search" -> <<[Ev("part") EXCEPT !.k = "image", !.val = Fragments(n)]>>
       [] OTHER -> call("f", IF part = "call" THEN "" ELSE "u")

GeminiEnd(end) ==
  CASE end = "none" -> <<>>
    [] end = "failed" -> <<Ev("error")>>
    [] OTHER -> <<[Ev("part") EXCEPT !.use = Usage,
                                     !.why = IF end = "limit" THEN "MAX_TOKENS" ELSE "STOP"]>>

\* Chat chunks: a call's index counts the calls; its name may come late.
ChatPart(parts, n) ==
  LET chunk(k, val) == [Ev("chunk") EXCEPT !.k = k, !.val = val, !.sig = "r1"]
      texts == {"reasoning", "thinking", "message", "quiet"}
      index == Cardinality({m \in 1..(n - 1) : parts[m] \notin texts})
      tool(call, name, val) == [chunk("tool", val) EXCEPT !.n = index, !.id = call, !.name = name]
      id == <<"call", n>>
  IN CASE parts[n] \in {"reasoning", "thinking"} ->
            <<chunk("reasoning", <<<<n, 1>>>>), chunk("reasoning", <<<<n, 2>>>>)>>
       [] parts[n] \in {"message", "quiet"} ->
            <<chunk("content", <<<<n, 1>>>>), chunk("content", <<<<n, 2>>>>)>>
       [] parts[n] = "longid" -> <<tool(id, "", <<<<n, 1>>>>), tool(<<"", 0>>, "f", <<<<n, 2>>>>)>>
       [] OTHER -> <<tool(id, IF parts[n] = "custom" THEN "c" ELSE "f", <<<<n, 1>>>>),
                     tool(<<"", 0>>, "", <<<<n, 2>>>>)>>

ChatEnd(end) ==
  LET finish(why) == [Ev("chunk") EXCEPT !.why = why, !.sig = "r1"]
      usage == [Ev("chunk") EXCEPT !.k = "usage", !.use = Usage, !.sig = "r1"]
  IN CASE end = "none" -> <<>>
       [] end = "failed" -> <<[Ev("chunk") EXCEPT !.k = "error"]>>
       [] end = "bare" -> <<finish("stop")>>
       [] end = "status" -> <<[finish("stop") EXCEPT !.sig = "r2"]>>
       [] OTHER -> <<finish(IF end = "limit" THEN "length" ELSE "stop"), usage, Ev("[DONE]")>>

Script(provider, parts, end) ==
  CASE provider \in {"codex", "grok"} -> ResponsesScript(provider, parts, end)
    [] provider = "antigravity" ->
         FlattenSeq([n \in 1..Len(parts) |-> GeminiPart(parts[n], n)]) \o GeminiEnd(end)
    [] provider = "chat" ->
         FlattenSeq([n \in 1..Len(parts) |-> ChatPart(parts, n)]) \o ChatEnd(end)
==============================================================================
