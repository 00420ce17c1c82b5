---------------------------- MODULE UsageObserver ----------------------------
(***************************************************************************)
(* UsageObservingStream (crates/provider-protocol/src/usage_observer.rs):  *)
(* the tee between a driver and a translator that tells the attempt, once, *)
(* how its response ended and what it metered.                             *)
(***************************************************************************)
EXTENDS ResponsesEvents

\* attempt is TRUE until the attempt is told; terminal is successful_terminal;
\* reports is what the attempt was told, in order.
ObserverNew == [attempt |-> TRUE, terminal |-> "none", latest |-> 0, blind |-> FALSE,
                first |-> FALSE, reports |-> <<>>]

Report(o, outcome) ==
  IF ~o.attempt THEN o
  ELSE [o EXCEPT !.attempt = FALSE,
                 !.reports = Append(@, [outcome |-> outcome, success |-> o.terminal = "yes",
                                        use |-> o.latest])]

ReportFinished(o) == Report(o, "finished")

\* On drop: a terminal already seen counts as an end, anything else as a cancel.
ReportCancelled(o) == Report(o, IF o.terminal = "none" THEN "cancelled" ELSE "finished")

ResponsesTerminal(ev) ==
  CASE \/ ev.t \in {"incomplete", "failed", "cancelled"}
       \/ ev.t \in {"completed", "done"} /\ ev.sig \in {"incomplete", "failed", "cancelled"} -> "no"
    [] ev.t = "completed" /\ ev.sig \in {"", "completed"} -> "yes"
    [] OTHER -> "none"

ChatTerminal(ev) ==
  CASE ev.t = "[DONE]" -> "yes"
    [] ev.t = "chunk" /\ ev.why # "" ->
         IF ev.why \in {"stop", "tool_calls"} THEN "yes" ELSE "no"
    [] OTHER -> "none"

\* Every response.* event but the lifecycle and terminal ones starts output.
StartsOutput(ev) ==
  IF ev.t = "chunk" THEN ev.k \in {"reasoning", "content", "tool"} /\ (ev.val # <<>> \/ ev.name # "")
  ELSE ev.t \notin Terminals \union {"created", "in_progress", "error", "[DONE]"}

\* Mutant of InspectFrame: what was only incomplete counts as a success.
InspectFrameLenient(o, ev) ==
  LET verdict == IF ev.t \in {"chunk", "[DONE]"} THEN ChatTerminal(ev) ELSE ResponsesTerminal(ev)
  IN [o EXCEPT !.first = @ \/ StartsOutput(ev),
               !.latest = IF ev.use # 0 THEN ev.use ELSE @,
               !.terminal = IF verdict # "none" THEN verdict ELSE @]

InspectFrame(o, ev) ==
  LET verdict == IF ev.t \in {"chunk", "[DONE]"} THEN ChatTerminal(ev) ELSE ResponsesTerminal(ev)
  IN [o EXCEPT !.first = @ \/ StartsOutput(ev),
               !.latest = IF ev.use # 0 THEN ev.use ELSE @,
               !.terminal = CASE verdict = "no" -> "no"
                              [] verdict = "yes" /\ @ = "none" -> "yes"
                              [] OTHER -> @]

\* next_item: what passes downstream is what came, whatever is learnt from it.
Observe(o, ev) ==
  CASE ev.t = "eof" -> ReportFinished(o)
    [] ev.t = "oversize" -> [o EXCEPT !.blind = TRUE]
    [] ev.t \notin {"eof", "oversize", "fault", "raw"} /\ ~o.blind -> InspectFrame(o, ev)
    [] OTHER -> o
==============================================================================
