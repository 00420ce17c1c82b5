------------------------------ MODULE GrokStream ------------------------------
(***************************************************************************)
(* The Grok driver's stream: restore_tool_stream and its                   *)
(* GrokToolStreamRestorer (crates/provider-drivers/src/grok/stream.rs,     *)
(* stream_payload.rs). Upstream only knows function calls; the restorer    *)
(* turns the calls of client tools back into custom and tool-search calls, *)
(* renumbers the events, shortens item ids, fills a terminal event that    *)
(* lists no output, and never lets a stream end without a terminal event.  *)
(* Of a terminal event, sig is the status the response claims.             *)
(***************************************************************************)
EXTENDS ResponsesEvents

SearchTool == "tool_search"

GrokNew == [calls |-> <<>>, completed |-> <<>>, seq |-> NoSeq, ids |-> <<>>, used |-> {},
            terminal |-> FALSE, eof |-> FALSE, ready |-> <<>>]

\* Ids of at most 64 characters that are still free stay; others are replaced.
ShortId(id) == id[1] # "long"

NormalizedId(d, id) ==
  LET candidates == (IF ShortId(id) THEN <<id>> ELSE <<>>)
                      \o <<<<"grok", id[2]>>, <<"grok_1", id[2]>>>>
  IN IF id \in DOMAIN d.ids THEN d.ids[id]
     ELSE candidates[SelectInSeq(candidates, LAMBDA c : c \notin d.used)]

RecordId(d, id) ==
  [d EXCEPT !.ids = (id :> NormalizedId(d, id)) @@ @, !.used = @ \union {NormalizedId(d, id)}]

\* normalize_item_ids: the event's own id, then those of the items it lists.
RecordIds(d, ev) ==
  FoldLeft(RecordId, IF ev.id[1] = "" THEN d ELSE RecordId(d, ev.id),
           [j \in 1..Len(ev.out) |-> ev.out[j].id])

WithIds(d, ev) ==
  [ev EXCEPT !.id = IF @[1] = "" THEN @ ELSE d.ids[@],
             !.out = [j \in 1..Len(@) |-> [@[j] EXCEPT !.id = d.ids[@]]]]

\* begin_sequence, resequence, generated_event: numbered from upstream's first.
BeginSequence(d, ev) == [d EXCEPT !.seq = IF @ = NoSeq THEN ev.seq ELSE @]

Resequence(d, ev) ==
  IF d.seq = NoSeq THEN [d EXCEPT !.ready = Append(@, ev)]
  ELSE [d EXCEPT !.ready = Append(@, [ev EXCEPT !.seq = d.seq]), !.seq = @ + 1]

\* Mutant of FailureFrame: a stream that ends early just ends.
FailureFrameSilent(d) == [d EXCEPT !.terminal = TRUE]

\* failure_frame carries no sequence number.
FailureFrame(d) ==
  IF d.terminal THEN d
  ELSE [d EXCEPT !.ready = Append(@, Ev("failed")), !.terminal = TRUE]

\* The status decides what response.completed really is.
EffectiveType(ev) ==
  IF ev.t # "completed" \/ ev.sig \in {"", "completed"} THEN ev.t
  ELSE IF ev.sig \in {"incomplete", "cancelled"} THEN ev.sig ELSE "failed"

Renamed(ev) ==
  IF ev.k = "function_call" /\ ev.name \in DOMAIN NamespaceTools
  THEN [ev EXCEPT !.name = NamespaceTools[@]] ELSE ev

ClientToolKind(name) ==
  CASE name \in CustomTools -> "custom_tool_call"
    [] name = SearchTool -> "tool_search_call"
    [] OTHER -> ""

IsClientTool(item) == item.k = "function_call" /\ ClientToolKind(item.name) # ""

\* restore_client_tool_item: the item the client knows, with the input given.
ClientItem(ev, name, input) ==
  [ev EXCEPT !.k = ClientToolKind(name), !.val = input,
             !.name = IF name = SearchTool THEN ""
                      ELSE IF name \in DOMAIN NamespaceTools THEN NamespaceTools[name]
                      ELSE name]

\* restore_tool_item, on the items of a terminal event.
RestoreToolItem(item) ==
  IF IsClientTool(item) THEN ClientItem(item, item.name, item.val) ELSE Renamed(item)

\* client_tool_call_for: by item id or by output index.
CallFor(d, ev) == SelectInSeq(d.calls, LAMBDA c : c.id = ev.id \/ c.n = ev.n)

\* record_client_tool_item: the call's place in client_tool_calls, created if new.
RecordCall(d, ev) ==
  LET at == CallFor(d, ev)
      call == [name |-> ev.name, n |-> ev.n, id |-> ev.id, val |-> ev.val]
  IN CASE at = 0 -> [d EXCEPT !.calls = Append(@, call)]
       [] at # 0 /\ ev.val # <<>> -> [d EXCEPT !.calls[at].val = ev.val]
       [] OTHER -> d

RestoreArguments(d, ev) ==
  LET at == CallFor(d, ev)
      held == IF ev.t = "args.delta" THEN [d EXCEPT !.calls[at].val = @ \o ev.val]
              ELSE IF ev.val # <<>> THEN [d EXCEPT !.calls[at].val = ev.val] ELSE d
      call == held.calls[at]
      item == [k |-> "custom_tool_call", n |-> call.n, id |-> call.id, sig |-> "",
               name |-> ClientItem(ev, call.name, <<>>).name]
      delta == IF call.val = <<>> THEN held
               ELSE Resequence(held, Of("input.delta", item, call.val))
  IN CASE at = 0 -> Resequence(d, Renamed(ev))
       [] at # 0 /\ (ev.t = "args.delta" \/ call.name = SearchTool) -> held
       [] OTHER -> Resequence(delta, Of("input.done", item, call.val))

RestoreItem(d, ev) ==
  LET recorded == RecordCall(d, ev)
      at == CallFor(recorded, ev)
      done == ev.t = "item.done"
      restored == IF IsClientTool(ev)
                  THEN ClientItem(ev, ev.name,
                                  IF ~done THEN <<>>
                                  ELSE IF ev.name = SearchTool THEN ev.val
                                  ELSE recorded.calls[at].val)
                  ELSE Renamed(ev)
      kept == IF ~IsClientTool(ev) THEN d
              ELSE IF done THEN [recorded EXCEPT !.calls = RemoveAt(@, at)] ELSE recorded
      listed == IF done THEN [kept EXCEPT !.completed = (ev.n :> ItemOf(restored)) @@ @]
                ELSE kept
  IN Resequence(listed, restored)

\* patch_terminal_output: an empty output is rebuilt from the completed items.
RestoreTerminal(d, ev) ==
  LET listed == IF ev.out = <<>> THEN InKeyOrder(d.completed) ELSE ev.out
      restored == [j \in 1..Len(listed) |-> RestoreToolItem(listed[j])]
  IN Resequence([d EXCEPT !.terminal = TRUE], [ev EXCEPT !.out = restored])

\* normalize_reasoning_payload: reasoning text becomes a reasoning summary.
Summarized(ev) ==
  CASE ev.t = "raw_rs.delta" -> [ev EXCEPT !.t = "rs.delta"]
    [] ev.t = "part.added" /\ ev.k = "reasoning" -> [ev EXCEPT !.t = "rs_part.added"]
    [] ev.t = "part.done" /\ ev.k = "reasoning" -> [ev EXCEPT !.t = "rs_part.done"]
    [] OTHER -> ev

RestorePayload(d, upstream) ==
  LET recorded == RecordIds(BeginSequence(d, upstream), upstream)
      ev == Summarized([WithIds(recorded, upstream) EXCEPT !.t = EffectiveType(upstream)])
  IN CASE ev.t = "raw_rs.done" ->
            Resequence(Resequence(recorded, [ev EXCEPT !.t = "rs.done"]),
                       [ev EXCEPT !.t = "rs_part.done"])
       [] ev.t \in Terminals -> RestoreTerminal(recorded, ev)
       [] ev.t \in {"item.added", "item.done"} -> RestoreItem(recorded, ev)
       [] ev.t \in {"args.delta", "args.done"} -> RestoreArguments(recorded, ev)
       [] OTHER -> Resequence(recorded, ev)

\* Err after what is ready, and nothing after that.
Aborted(d) == [d EXCEPT !.ready = Append(@, Fault), !.eof = TRUE]

\* restore_tool_stream: one read from upstream. "timeout" is five minutes of
\* silence, "oversize" a frame of more than 8 MiB, "tail" an end of stream
\* inside a frame, whose bytes are dropped.
GrokRead(d, ev) ==
  CASE ev.t \in {"eof", "tail"} -> [FailureFrame(d) EXCEPT !.eof = TRUE]
    [] ev.t = "fault" -> IF d.terminal THEN [d EXCEPT !.eof = TRUE] ELSE Aborted(FailureFrame(d))
    [] ev.t \in {"timeout", "oversize"} -> Aborted(FailureFrame(d))
    [] ev.t = "raw" -> [d EXCEPT !.ready = Append(@, Raw)]
    [] OTHER -> RestorePayload(d, ev)
==============================================================================
