---------------------------- MODULE ClaudeStream ----------------------------
(***************************************************************************)
(* ClaudeEventConverter: how a stream of Responses events becomes a stream *)
(* of Claude Messages events (crates/provider-protocol/src/claude/         *)
(* response.rs). A converter is a record; every operator takes one and     *)
(* returns the converter after the call, with what it pushed on out.       *)
(***************************************************************************)
EXTENDS ResponsesEvents

NoTool == [is |-> FALSE, n |-> 0, name |-> "", val |-> <<>>]

\* open is the kind of the open block, whose index is always block_index;
\* args says whether the open tool block already carries arguments.
ClaudeNew == [index |-> 0, open |-> "none", args |-> FALSE, sig |-> "", pending |-> NoTool,
              text |-> FALSE, tool |-> FALSE, searches |-> 0, finished |-> FALSE, out |-> <<>>]

\* Mutant of CloseBlock: the next block reuses the index of the closed one.
CloseBlockKeepsIndex(c) ==
  IF c.open = "none" THEN c
  ELSE [Emit(c, Client("block_stop", c.index, c.open, <<>>, "")) EXCEPT !.open = "none"]

\* A block that closes as thinking takes the signature seen last.
CloseBlock(c) ==
  IF c.open = "none" THEN c
  ELSE LET signs == c.open = "thinking" /\ c.sig # ""
           signed == IF signs
                     THEN [Emit(c, Client("delta", c.index, "signature", <<>>, c.sig))
                             EXCEPT !.sig = ""]
                     ELSE c
       IN [Emit(signed, Client("block_stop", c.index, c.open, <<>>, ""))
             EXCEPT !.open = "none", !.index = @ + 1]

OpenBlock(c, kind, id, name) ==
  LET closed == CloseBlock(c)
  IN [Emit(closed, Client("block_start", closed.index, kind, id, name))
        EXCEPT !.open = kind]

StartBlock(c, kind) == IF c.open = kind THEN c ELSE OpenBlock(c, kind, <<>>, "")

StartTool(c, n, name) ==
  [OpenBlock(c, "tool", CallId(n), name) EXCEPT !.args = FALSE, !.tool = TRUE]

BlockDelta(c, kind, val) == Emit(c, Client("delta", c.index, kind, val, ""))

EmitToolArguments(c, val) ==
  IF c.open # "tool" THEN c ELSE [BlockDelta(c, "tool", val) EXCEPT !.args = TRUE]

\* Mutant of FunctionArguments: the final arguments are sent after their deltas.
FunctionArgumentsTwice(c, ev) ==
  IF c.open = "tool" THEN EmitToolArguments(c, ev.val)
  ELSE IF c.pending.is THEN [c EXCEPT !.pending.val = @ \o ev.val] ELSE c

\* Arguments belong to whatever tool block is open, or to the pending tool.
FunctionArguments(c, ev) ==
  LET delta == ev.t = "args.delta"
  IN CASE c.open = "tool" ->
            IF delta \/ ~c.args THEN EmitToolArguments(c, ev.val) ELSE c
       [] c.open # "tool" /\ c.pending.is /\ (delta \/ c.pending.val = <<>>) ->
            [c EXCEPT !.pending.val = IF delta THEN @ \o ev.val ELSE ev.val]
       [] OTHER -> c

OutputItemAdded(c, ev) ==
  CASE ev.k = "reasoning" -> [c EXCEPT !.sig = ev.sig]
    [] ev.k = "function_call" /\ ev.name = "" ->
         [CloseBlock(c) EXCEPT !.pending = [is |-> TRUE, n |-> ev.n, name |-> "",
                                            val |-> <<>>]]
    [] ev.k = "function_call" /\ ev.name # "" -> StartTool(CloseBlock(c), ev.n, ev.name)
    [] OTHER -> c

ReasoningDone(c, ev) ==
  LET signed == IF ev.sig # "" THEN [c EXCEPT !.sig = ev.sig] ELSE c
      started == IF signed.sig # "" THEN StartBlock(signed, "thinking") ELSE signed
  IN IF started.open = "thinking" THEN CloseBlock(started) ELSE started

\* The text of a message that was not streamed, if no text was emitted before.
MessageDone(c, ev) ==
  IF c.text \/ ev.val = <<>> THEN c
  ELSE CloseBlock([BlockDelta(StartBlock(c, "text"), "text", ev.val) EXCEPT !.text = TRUE])

FunctionCallDone(c, ev) ==
  LET named == IF ev.name # "" THEN ev.name ELSE c.pending.name
      started == IF c.open = "tool" THEN c
                 ELSE StartTool([c EXCEPT !.pending = NoTool], ev.n, named)
      caught == IF c.open # "tool" /\ c.pending.val # <<>>
                THEN EmitToolArguments(started, c.pending.val) ELSE started
  IN CloseBlock(IF caught.args THEN caught ELSE EmitToolArguments(caught, ev.val))

SearchResult(i) == <<Client("block_start", i, "result", <<>>, ""),
                     Client("block_stop", i, "result", <<>>, "")>>

\* A search is two blocks, the call and its result.
EmitWebSearch(c, ev) ==
  LET closed == CloseBlock(c)
      i == closed.index
      asked == IF ev.val = <<>> THEN <<>> ELSE <<Client("delta", i, "search", ev.val, "")>>
  IN [closed EXCEPT !.index = @ + 2, !.searches = @ + 1,
        !.out = @ \o <<Client("block_start", i, "search", <<>>, "")>> \o asked
                  \o <<Client("block_stop", i, "search", <<>>, "")>> \o SearchResult(i + 1)]

OutputItemDone(c, ev) ==
  CASE ev.k = "reasoning" -> ReasoningDone(c, ev)
    [] ev.k = "message" -> MessageDone(c, ev)
    [] ev.k = "function_call" -> FunctionCallDone(c, ev)
    [] ev.k = "web_search_call" -> EmitWebSearch(c, ev)
    [] OTHER -> c

StopReason(c, ev) ==
  CASE c.tool -> "tool_use"
    [] ~c.tool /\ ev.why = "max_output_tokens" -> "max_tokens"
    [] ~c.tool /\ ev.why = "content_filter" -> "refusal"
    [] ~c.tool /\ ev.why \in {"stop_sequence", "pause_turn", "refusal",
                               "model_context_window_exceeded"} -> ev.why
    [] OTHER -> "end_turn"

CompleteMessage(c, ev) ==
  LET closed == CloseBlock(c)
  IN [closed EXCEPT !.out = @ \o <<Client("message_delta", ev.use, "", <<<<0, c.searches>>>>,
                                          StopReason(c, ev)),
                                   Client("message_stop", 0, "", <<>>, "")>>]

\* An error leaves the open block open.
ClaudeError(c, ev) == Emit(c, Client("error", 0, "", <<>>, ev.t))

ClaudeConvert(c, ev) ==
  CASE ev.t = "created" -> Emit(c, Client("message_start", 0, "", <<>>, ""))
    [] ev.t = "item.added" -> OutputItemAdded(c, ev)
    [] ev.t = "rs_part.added" -> StartBlock(c, "thinking")
    [] ev.t \in {"rs.delta", "raw_rs.delta"} ->
         BlockDelta(StartBlock(c, "thinking"), "thinking", ev.val)
    [] ev.t = "part.added" ->
         CASE ev.k = "message" -> StartBlock(c, "text")
           [] ev.k = "reasoning" -> StartBlock(c, "thinking")
           [] OTHER -> c
    [] ev.t = "text.delta" ->
         BlockDelta([StartBlock(c, "text") EXCEPT !.text = TRUE], "text", ev.val)
    [] ev.t = "part.done" -> IF ev.k = "message" THEN CloseBlock(c) ELSE c
    [] ev.t \in {"args.delta", "args.done"} -> FunctionArguments(c, ev)
    [] ev.t = "item.done" -> OutputItemDone(c, ev)
    [] ev.t \in {"completed", "incomplete"} -> CompleteMessage(c, ev)
    [] ev.t \in {"error", "failed", "cancelled"} -> ClaudeError(c, ev)
    [] OTHER -> c

\* ClaudeStreamAdapter::next_output: what one item read from upstream does. An
\* Err ends the stream, data that is no JSON is reported and the stream goes on.
ClaudeRead(c, ev) ==
  CASE ev.t = "fault" -> [Emit(c, ClientFault) EXCEPT !.finished = TRUE]
    [] ev.t = "raw" -> Emit(c, ClientFault)
    [] ev.t = "eof" -> [c EXCEPT !.finished = TRUE]
    [] OTHER -> ClaudeConvert(c, ev)
==============================================================================
