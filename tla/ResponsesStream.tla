--------------------------- MODULE ResponsesStream ---------------------------
(***************************************************************************)
(* The Chat Completions upstream seen by a Responses client: the           *)
(* ChatEventConverter of crates/provider-protocol/src/openai_responses/    *)
(* response.rs and the adapter around it in response/stream.rs.            *)
(*                                                                         *)
(* A chunk is an event of type "chunk": k says what its delta carries      *)
(* (reasoning, content, tool or nothing), n is the tool's index, id its    *)
(* call id, name its name, val the text or arguments, why the              *)
(* finish_reason, use the usage and sig the response id of the envelope.   *)
(***************************************************************************)
EXTENDS ResponsesEvents

CONSTANT ToolTargets    \* declared tool name -> "function" | "custom" | "hosted"

NoPart == [is |-> FALSE, n |-> 0, val |-> <<>>]

ResponsesNew ==
  [rid |-> "", created |-> FALSE, terminal |-> FALSE, seq |-> 0, next |-> 0, text |-> NoPart,
   reasoning |-> NoPart, tools |-> <<>>, output |-> <<>>, use |-> 0, finish |-> "",
   failure |-> FALSE, finished |-> FALSE, out |-> <<>>]

\* Every event takes the next sequence number.
Push(c, ev) == [c EXCEPT !.out = Append(@, [ev EXCEPT !.seq = c.seq]), !.seq = @ + 1]

EmitCreated(c) == IF c.created THEN c ELSE Push([c EXCEPT !.created = TRUE], Ev("created"))

FailResponse(c) ==
  IF c.terminal THEN c
  ELSE [Push(c, Terminal("failed", <<>>, c.use, "")) EXCEPT !.terminal = TRUE]

\* emit_text and emit_reasoning: one item of each kind, opened by its first delta.
EmitPart(c, slot, kind, partAdded, delta, val) ==
  LET item == Item(kind, c.next, "", "", <<>>)
      opened == IF c[slot].is THEN c
                ELSE Push(Push([c EXCEPT ![slot] = [NoPart EXCEPT !.is = TRUE, !.n = c.next],
                                         !.next = @ + 1],
                               Of("item.added", item, <<>>)),
                          Of(partAdded, item, <<>>))
      grown == [opened EXCEPT ![slot].val = @ \o val]
  IN Push(grown, Of(delta, Item(kind, grown[slot].n, "", "", <<>>), val))

NoCall == <<"", 0>>

Target(name) == IF name \in DOMAIN ToolTargets THEN ToolTargets[name] ELSE "function"

ToolKind(target) ==
  CASE target = "custom" -> "custom_tool_call"
    [] target = "hosted" -> "hosted_call"
    [] OTHER -> "function_call"

ToolItem(tool, val) == Item(ToolKind(Target(tool.name)), tool.n, tool.name, "", val)

\* A tool's output index is taken when its index is first seen; the item is
\* announced once both its call id and its name are known.
StartedTool(c, i) ==
  LET tool == c.tools[i]
      added == Push([c EXCEPT !.tools[i].started = TRUE],
                    Of("item.added", ToolItem(tool, <<>>), <<>>))
  IN IF Target(tool.name) = "function" /\ tool.val # <<>>
     THEN Push(added, Of("args.delta", ToolItem(tool, <<>>), tool.val))
     ELSE added

EmitToolDelta(c, ev) ==
  LET undeclared == ev.name # "" /\ ev.name \notin DOMAIN ToolTargets
      known == ev.n \in DOMAIN c.tools
      tool == IF known THEN c.tools[ev.n]
              ELSE [n |-> c.next, call |-> NoCall, name |-> "", val |-> <<>>, started |-> FALSE]
      seen == IF known THEN c
              ELSE [c EXCEPT !.tools = (ev.n :> tool) @@ @, !.next = @ + 1]
      changed == \/ ev.id # NoCall /\ tool.call # NoCall /\ tool.call # ev.id
                 \/ ev.name # "" /\ tool.name # "" /\ tool.name # ev.name
      merged == [tool EXCEPT !.call = IF ev.id # NoCall THEN ev.id ELSE @,
                             !.name = IF ev.name # "" THEN ev.name ELSE @,
                             !.val = @ \o ev.val]
      updated == [seen EXCEPT !.tools[ev.n] = merged]
  IN CASE undeclared -> [c EXCEPT !.failure = TRUE]
       [] ~undeclared /\ changed -> [seen EXCEPT !.failure = TRUE]
       [] ~undeclared /\ ~changed /\ ~tool.started ->
            IF merged.call # NoCall /\ merged.name # "" THEN StartedTool(updated, ev.n)
            ELSE updated
       [] ~undeclared /\ ~changed /\ tool.started ->
            IF Target(merged.name) = "function" /\ ev.val # <<>>
            THEN Push(updated, Of("args.delta", ToolItem(merged, <<>>), ev.val))
            ELSE updated

FinishPart(c, slot, kind, dones) ==
  IF ~c[slot].is THEN c
  ELSE LET item == Item(kind, c[slot].n, "", "", c[slot].val)
           closing == FoldLeft(LAMBDA d, t : Push(d, Of(t, item, item.val)), c, dones)
       IN [closing EXCEPT ![slot] = NoPart, !.output = (item.n :> item) @@ @]

FinishTool(c, tool) ==
  LET item == ToolItem(tool, tool.val)
      custom == item.k = "custom_tool_call"
      dones == IF custom THEN <<"input.delta", "input.done", "item.done">>
               ELSE <<"args.done", "item.done">>
      closing == FoldLeft(LAMBDA d, t : Push(d, Of(t, item, item.val)), c, dones)
  IN [closing EXCEPT !.output = (item.n :> item) @@ @]

FinishTools(c) ==
  [FoldLeft(FinishTool, c, InKeyOrder(c.tools)) EXCEPT !.tools = <<>>]

IncompleteReason(finish) ==
  CASE finish = "length" -> "max_output_tokens"
    [] finish = "content_filter" -> "content_filter"
    [] OTHER -> ""

CompleteResponse(c) ==
  LET begun == EmitCreated(c)
      closed == FinishTools(
                  FinishPart(
                    FinishPart(begun, "reasoning", "reasoning",
                               <<"rs.done", "rs_part.done", "item.done">>),
                    "text", "message", <<"text.done", "part.done", "item.done">>))
      why == IncompleteReason(c.finish)
      status == IF why = "" THEN "completed" ELSE "incomplete"
  IN IF c.terminal THEN c
     ELSE IF \/ \E i \in DOMAIN c.tools : ~c.tools[i].started
             \/ c.finish \notin {"stop", "tool_calls", "length", "content_filter"}
     THEN FailResponse(begun)
     ELSE [Push(closed, Terminal(status, InKeyOrder(closed.output), c.use, why))
             EXCEPT !.terminal = TRUE]

\* The envelope may not change once the response was created.
EnvelopeChanged(c, ev) == c.created /\ ev.sig # "" /\ ev.sig # c.rid

ConvertChunk(c, ev) ==
  LET captured == [c EXCEPT !.rid = IF ev.sig # "" THEN ev.sig ELSE @,
                            !.use = IF ev.use # 0 THEN ev.use ELSE @]
      begun == EmitCreated(captured)
      content ==
        CASE ev.k = "reasoning" /\ ev.val # <<>> ->
               EmitPart(begun, "reasoning", "reasoning", "rs_part.added", "rs.delta", ev.val)
          [] ev.k = "content" /\ ev.val # <<>> ->
               EmitPart(begun, "text", "message", "part.added", "text.delta", ev.val)
          [] ev.k = "tool" -> EmitToolDelta(begun, ev)
          [] OTHER -> begun
      finished == [content EXCEPT !.finish = IF ev.why # "" THEN ev.why ELSE @]
  IN CASE ev.k = "error" -> [Push(EmitCreated(c), Ev("error")) EXCEPT !.terminal = TRUE]
       [] ev.k # "error" /\ EnvelopeChanged(c, ev) -> FailResponse(EmitCreated(c))
       [] ev.k = "usage" /\ ~EnvelopeChanged(c, ev) -> captured
       [] OTHER -> IF finished.failure
                   THEN FailResponse([finished EXCEPT !.failure = FALSE])
                   ELSE finished

\* ChatStreamAdapter::next_output: what one item read from upstream does.
ResponsesRead(c, ev) ==
  CASE ev.t = "fault" -> [Emit(c, Fault) EXCEPT !.finished = TRUE]
    [] ev.t = "eof" ->
         LET ended == IF c.terminal THEN c
                      ELSE IF c.finish # "" THEN CompleteResponse(c) ELSE Emit(c, Fault)
         IN [ended EXCEPT !.finished = TRUE]
    [] ev.t \notin {"fault", "eof"} /\ c.terminal -> c
    [] ev.t = "[DONE]" /\ ~c.terminal ->
         IF c.finish # "" THEN CompleteResponse(c) ELSE FailResponse(c)
    [] ev.t = "raw" /\ ~c.terminal ->
         [Emit(c, Fault) EXCEPT !.terminal = TRUE, !.finished = TRUE]
    [] ev.t = "chunk" /\ ~c.terminal -> ConvertChunk(c, ev)
==============================================================================
