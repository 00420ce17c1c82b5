-------------------------- MODULE AntigravityStream --------------------------
(***************************************************************************)
(* The Antigravity driver's stream: the ResponseStream of                  *)
(* crates/provider-drivers/src/antigravity/response, which turns Gemini    *)
(* payloads into Responses events. A payload is an event of type "part"    *)
(* (k: thought, text, call, image, or none) or "error"; sig is the part's  *)
(* thoughtSignature, why the candidate's finishReason, use its usage.      *)
(***************************************************************************)
EXTENDS ResponsesEvents

NoOpen == [is |-> FALSE, n |-> 0, sig |-> "", val |-> <<>>]

AntigravityNew(targetClaude) ==
  [claude |-> targetClaude, started |-> FALSE, completed |-> FALSE, eof |-> FALSE, seq |-> 0,
   next |-> 0, message |-> NoOpen, reasoning |-> NoOpen, use |-> 0, output |-> <<>>,
   seen |-> {}, last |-> "", ready |-> <<>>]

Event(d, ev) == [d EXCEPT !.ready = Append(@, [ev EXCEPT !.seq = d.seq]), !.seq = @ + 1]

Events(d, item, types, val) == FoldLeft(LAMBDA e, t : Event(e, Of(t, item, val)), d, types)

Start(d) ==
  IF d.started THEN d
  ELSE Event(Event([d EXCEPT !.started = TRUE], Ev("created")), Ev("in_progress"))

\* A Claude model's signature that starts with R holds one that starts with E.
FormatSignature(d, sig) == IF d.claude /\ sig = "R" THEN "E" ELSE sig

Done(d, item) == [Event(d, Of("item.done", item, item.val)) EXCEPT !.output = Append(@, item)]

OpenMessage(d) ==
  IF d.message.is THEN d
  ELSE Events([d EXCEPT !.next = @ + 1,
                        !.message = [NoOpen EXCEPT !.is = TRUE, !.n = d.next]],
              Item("message", d.next, "", "", <<>>), <<"item.added", "part.added">>, <<>>)

CloseMessage(d) ==
  IF ~d.message.is THEN d
  ELSE LET item == Item("message", d.message.n, "", "", d.message.val)
       IN Done(Events([d EXCEPT !.message = NoOpen], item, <<"text.done", "part.done">>, item.val),
               item)

OpenReasoning(d, sig) ==
  IF d.reasoning.is THEN d
  ELSE LET signed == FormatSignature(d, sig)
       IN Events([d EXCEPT !.next = @ + 1,
                           !.reasoning = [NoOpen EXCEPT !.is = TRUE, !.n = d.next,
                                                        !.sig = signed]],
                 Item("reasoning", d.next, "", signed, <<>>),
                 <<"item.added", "rs_part.added">>, <<>>)

CloseReasoning(d) ==
  IF ~d.reasoning.is THEN d
  ELSE LET item == Item("reasoning", d.reasoning.n, "", d.reasoning.sig, d.reasoning.val)
       IN Done(Events([d EXCEPT !.reasoning = NoOpen, !.last = d.reasoning.sig], item,
                      <<"rs.done", "rs_part.done">>, item.val),
               item)

\* An item of its own that carries the signature of the text or call after it.
EmitReasoningCarrier(d, sig) ==
  LET signed == FormatSignature(d, sig)
      item == Item("reasoning", d.next, "",
                   IF d.claude THEN signed ELSE "carrier " \o signed, <<>>)
  IN Done(Events([d EXCEPT !.next = @ + 1], item, <<"item.added">>, <<>>), item)

ThoughtPart(d, ev) ==
  LET noted == [CloseMessage(d) EXCEPT !.seen = IF ev.sig = "" THEN @ ELSE @ \union {ev.sig}]
      fresh == IF noted.reasoning.is /\ noted.reasoning.sig # ev.sig
               THEN CloseReasoning(noted) ELSE noted
      open == OpenReasoning(fresh, ev.sig)
      grown == [open EXCEPT !.reasoning.val = @ \o ev.val]
  IN IF ev.val = <<>> THEN open
     ELSE Event(grown, Of("rs.delta", Item("reasoning", open.reasoning.n, "", "", <<>>), ev.val))

TextPart(d, ev) ==
  LET carried == IF ev.sig # "" /\ ev.sig \notin d.seen
                 THEN EmitReasoningCarrier(
                        CloseMessage([d EXCEPT !.seen = @ \union {ev.sig}]), ev.sig)
                 ELSE d
      open == OpenMessage([CloseReasoning(carried) EXCEPT !.last = ""])
      grown == [open EXCEPT !.message.val = @ \o ev.val]
  IN IF ev.val = <<>> THEN open
     ELSE Event(grown, Of("text.delta", Item("message", open.message.n, "", "", <<>>), ev.val))

CallPart(d, ev) ==
  LET closed == CloseMessage(CloseReasoning(d))
      inherits == ev.sig = "" /\ closed.last # ""
      sig == IF ev.sig # "" THEN ev.sig ELSE closed.last
      used == [closed EXCEPT !.last = IF ev.sig = "" THEN "" ELSE @,
                             !.seen = IF sig = "" \/ inherits THEN @ ELSE @ \union {sig}]
      carried == IF sig # "" /\ (inherits \/ sig \notin closed.seen) /\ ~d.claude
                 THEN EmitReasoningCarrier(used, sig) ELSE used
      custom == ev.name \in CustomTools
      item == Item(IF custom THEN "custom_tool_call" ELSE "function_call", carried.next, ev.name,
                   FormatSignature(d, sig), ev.val)
      added == Event([carried EXCEPT !.next = @ + 1],
                     Of("item.added", item, IF custom THEN ev.val ELSE <<>>))
  IN Done(Events(added, item,
                 IF custom THEN <<"input.done">> ELSE <<"args.delta", "args.done">>, ev.val),
          item)

ImagePart(d, ev) ==
  LET closed == CloseMessage(CloseReasoning(d))
      item == Item("image", closed.next, "", "", ev.val)
      added == Events([closed EXCEPT !.next = @ + 1], item, <<"item.added">>, <<>>)
  IN Done(IF ev.val = <<>> THEN added ELSE Events(added, item, <<"image.partial">>, ev.val), item)

ProcessPart(d, ev) ==
  CASE ev.k = "thought" -> ThoughtPart(d, ev)
    [] ev.k = "text" -> TextPart(d, ev)
    [] ev.k = "call" -> CallPart(d, ev)
    [] ev.k = "image" -> ImagePart(d, ev)
    [] OTHER -> d

GeminiReason(reason) ==
  CASE reason \in {"STOP", "TOOL_CALLS"} -> ""
    [] reason = "MAX_TOKENS" -> "max_output_tokens"
    [] reason = "SAFETY" -> "content_filter"
    [] OTHER -> "other"

CompleteGemini(d, reason) ==
  LET closed == CloseMessage(CloseReasoning(Start(d)))
      why == GeminiReason(reason)
      status == IF why = "" THEN "completed" ELSE "incomplete"
  IN [Event(closed, Terminal(status, closed.output, closed.use, why)) EXCEPT !.completed = TRUE]

\* A failure after the terminal event still ends the stream with an Err.
Fail(d) ==
  LET told == IF d.completed THEN d
              ELSE [Event(CloseMessage(CloseReasoning(Start(d))), Ev("failed"))
                      EXCEPT !.completed = TRUE]
  IN [told EXCEPT !.ready = Append(@, Fault), !.eof = TRUE]

ProcessPayload(d, ev) ==
  LET begun == Start([d EXCEPT !.use = IF ev.use # 0 THEN ev.use ELSE @])
      parted == ProcessPart(begun, ev)
  IN CASE d.completed -> d
       [] ~d.completed /\ ev.t = "error" -> Fail(d)
       [] OTHER -> IF ev.why = "" THEN parted ELSE CompleteGemini(parted, ev.why)

\* ResponseStream::next_output: one read from upstream. "timeout" is five
\* minutes of silence, "oversize" more than 1 MiB without a frame's end; a frame
\* cut short by the end of the stream ("tail") is no JSON.
AntigravityRead(d, ev) ==
  CASE ev.t \in {"fault", "timeout", "oversize", "raw", "tail"} -> Fail(d)
    [] ev.t = "eof" -> IF d.completed THEN [d EXCEPT !.eof = TRUE] ELSE Fail(d)
    [] OTHER -> ProcessPayload(d, ev)
==============================================================================
