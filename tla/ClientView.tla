------------------------------ MODULE ClientView ------------------------------
(***************************************************************************)
(* What a client makes of the events it receives, for the three protocols  *)
(* the proxy speaks: a view is the state of a client that reads strictly   *)
(* by the protocol, and ok turns FALSE at the first event the protocol     *)
(* does not allow there. These are requirements, not code of the proxy.    *)
(***************************************************************************)
EXTENDS ResponsesEvents

\* got is the content received, status how the answer stands; open and index are
\* the Claude block open and the next one; seq the sequence number due; added and
\* done the items announced and finished; use is the usage told.
ViewNew == [ok |-> TRUE, begun |-> FALSE, status |-> "open", got |-> <<>>, open |-> "none",
            index |-> 0, seq |-> NoSeq, added |-> {}, done |-> {}, use |-> 0]

Require(view, condition) == [view EXCEPT !.ok = @ /\ condition]

Over(view) == view.status # "open"

\* Nothing but an Err follows the end of an answer, and a failure may come any time.
Ended(view, status) == [view EXCEPT !.status = IF Over(view) THEN @ ELSE status]

ClaudeView(view, ev) ==
  LET live == view.begun /\ ~Over(view)
      inBlock == live /\ ev.i = view.index /\ view.open # "none"
  IN CASE ev.e = "message_start" ->
            [Require(view, ~view.begun /\ ~Over(view)) EXCEPT !.begun = TRUE]
       [] ev.e = "block_start" ->
            [Require(view, live /\ view.open = "none" /\ ev.i = view.index) EXCEPT !.open = ev.k]
       [] ev.e = "delta" ->
            LET kind == IF ev.k = "signature" THEN "thinking" ELSE ev.k
            IN [Require(view, inBlock /\ view.open = kind)
                  EXCEPT !.got = IF ev.k = "signature" THEN @ ELSE @ \o ev.v]
       [] ev.e = "block_stop" ->
            [Require(view, inBlock) EXCEPT !.open = "none", !.index = @ + 1]
       [] ev.e = "message_delta" ->
            [Require(view, live /\ view.open = "none") EXCEPT !.use = ev.i]
       [] ev.e = "message_stop" -> Ended(Require(view, live /\ view.open = "none"), "complete")
       [] ev.e = "error" -> Ended(Require(view, ~Over(view)), "failed")
       [] ev.e = "fault" -> Ended(view, "failed")

\* index counts the tools started; done holds "finish" once it came.
ChatView(view, ev) ==
  LET live == view.begun /\ ~Over(view) /\ view.done = {}
  IN CASE ev.e = "role" -> [Require(view, ~view.begun /\ ~Over(view)) EXCEPT !.begun = TRUE]
       [] ev.e = "tool" -> [Require(view, live /\ ev.i = view.index) EXCEPT !.index = @ + 1]
       [] ev.e \in {"reasoning", "content", "args"} ->
            [Require(view, live /\ (ev.e = "args" => ev.i < view.index))
               EXCEPT !.got = @ \o ev.v]
       [] ev.e = "finish" -> [Require(view, live) EXCEPT !.done = {0}]
       [] ev.e = "usage" -> [Require(view, ~Over(view) /\ view.done # {}) EXCEPT !.use = ev.i]
       [] ev.e = "done" -> Ended(Require(view, ~Over(view) /\ view.done # {}), "complete")
       [] ev.e = "error" -> Ended(Require(view, ~Over(view)), "failed")
       [] ev.e = "fault" -> Ended(view, "failed")

Deltas == {"rs.delta", "raw_rs.delta", "text.delta", "args.delta", "input.delta"}

\* Events are numbered without gaps; the one that reports a broken stream may
\* carry no number. An item that was not streamed is received with its item.done.
ResponsesView(view, ev) ==
  LET live == view.begun /\ ~Over(view)
      numbered == ev.seq = NoSeq \/ view.seq = NoSeq \/ ev.seq = view.seq
      counted == [Require(view, numbered \/ ev.t = "fault")
                    EXCEPT !.seq = IF ev.seq = NoSeq THEN @ ELSE ev.seq + 1]
      open == ev.n \in view.added /\ \A item \in view.done : item.n # ev.n
      gains == ev.t \in Deltas \/ (ev.t = "item.done" /\ ToSet(ev.val) \cap ToSet(view.got) = {})
      filled == [counted EXCEPT !.got = IF gains THEN @ \o ev.val ELSE @]
  IN CASE ev.t \in {"created", "in_progress"} ->
            [Require(counted, ~Over(view) /\ (ev.t = "created") = ~view.begun)
               EXCEPT !.begun = TRUE]
       [] ev.t = "item.added" ->
            [Require(counted, live /\ ev.n \notin view.added) EXCEPT !.added = @ \union {ev.n}]
       [] ev.t = "item.done" ->
            [Require(filled, live /\ open) EXCEPT !.done = @ \union {ItemOf(ev)}]
       [] ev.t \in {"completed", "incomplete"} ->
            Ended([Require(counted, /\ live
                                    /\ Cardinality(view.done) = Cardinality(view.added)
                                    /\ ev.out # <<>> => ToSet(ev.out) = view.done)
                     EXCEPT !.use = ev.use],
                  "complete")
       [] ev.t \in {"failed", "cancelled", "error"} ->
            Ended(Require(counted, ~Over(view)), "failed")
       [] ev.t = "fault" -> Ended(view, "failed")
       [] ev.t \in {"raw", "oversize"} -> view
       [] OTHER -> Require(filled, live /\ open)
==============================================================================
