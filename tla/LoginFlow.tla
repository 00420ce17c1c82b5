------------------------------ MODULE LoginFlow ------------------------------
(***************************************************************************)
(* What the three OAuth drivers do between a started login and its         *)
(* credential: Codex and Grok poll a device code, Antigravity waits for a  *)
(* browser callback and then looks up the user and the project. A flow     *)
(* ends granted (the credential JSON) or refused (the error). late says    *)
(* that the deadline of the flow has passed; the answers of the identity   *)
(* provider are the arguments.                                             *)
(***************************************************************************)
EXTENDS Naturals

CONSTANTS
  OnboardAttempts  \* attempts of onboard_user

FlowKinds == {"codex", "grok", "antigravity"}
FlowEnds == {"granted", "refused"}

NewFlow(kind, stage, listens) ==
  [kind |-> kind, stage |-> stage, late |-> FALSE, queued |-> FALSE, tries |-> 0,
   listens |-> listens]

\* start of each driver. Only Antigravity has a callback handle, with a channel
\* of one (queued); listens says that it could bind its callback address.
CodexStart == NewFlow("codex", "asking", FALSE)
GrokStart == NewFlow("grok", "asking", FALSE)
AntigravityStart(listens) == NewFlow("antigravity", "callback", listens)
StartFlow(kind, listens) ==
  CASE kind = "codex" -> CodexStart
    [] kind = "grok" -> GrokStart
    [] OTHER -> AntigravityStart(listens)

GoTo(flow, stage) == [flow EXCEPT !.stage = stage]
Answered(flow, answer, next) ==
  GoTo(flow, IF answer = "done" THEN next ELSE "refused")

\* Mutant of Wake: the clock is never looked at.
WakesAnyway(flow) == GoTo(flow, "polling")

\* The top of both polling loops. The clock is looked at before the poll: Grok
\* then sleeps, so that its last poll may be made after the deadline.
Wake(flow) == GoTo(flow, IF flow.late THEN "refused" ELSE "polling")

\* CodexPendingOAuth::complete, the loop: 403 and 404 are "pending".
CodexPoll(flow, answer) ==
  IF answer = "pending" THEN GoTo(flow, IF flow.late THEN "refused" ELSE "asking")
  ELSE Answered(flow, answer, "exchange")

\* The rest of it: no exchange after the deadline.
CodexExchange(flow, answer) ==
  IF flow.late THEN GoTo(flow, "refused") ELSE Answered(flow, answer, "granted")

\* GrokPendingOAuth::complete, the loop.
GrokPoll(flow, answer) ==
  IF answer = "pending" THEN GoTo(flow, "asking") ELSE Answered(flow, answer, "granted")

\* AntigravityCallbackSubmitter::submit, by the user or by the listener's task:
\* a code for this flow's state is sent unless one is waiting.
Accepts(flow) == flow.kind = "antigravity" /\ ~flow.queued
Submitted(flow) == [flow EXCEPT !.queued = TRUE]

\* receive_callback.
ReceiveCallback(flow) ==
  {f \in {GoTo([flow EXCEPT !.queued = FALSE], "exchange"), GoTo(flow, "refused")} :
     IF f.stage = "refused" THEN flow.late ELSE flow.queued}

\* exchange_code, fetch_user_info, and loadCodeAssist in fetch_project_id: a
\* user without a project is put on the default tier, when there is one.
ExchangeCode(flow, answer) == Answered(flow, answer, "user")
FetchUserInfo(flow, answer) == Answered(flow, answer, "project")
FetchProjectId(flow, answer) ==
  IF answer = "absent" THEN GoTo(flow, "onboard") ELSE Answered(flow, answer, "granted")

\* onboard_user.
OnboardUser(flow, answer) ==
  IF answer # "pending" THEN Answered(flow, answer, "granted")
  ELSE LET tried == [flow EXCEPT !.tries = @ + 1]
       IN IF tried.tries = OnboardAttempts THEN GoTo(tried, "refused") ELSE tried

\* The steps complete can take next.
FlowSteps(flow) ==
  CASE flow.stage = "callback" -> ReceiveCallback(flow)
    [] flow.stage = "asking" -> {Wake(flow)}
    [] flow.stage = "polling" /\ flow.kind = "codex" ->
         {CodexPoll(flow, a) : a \in {"pending", "done", "error"}}
    [] flow.stage = "polling" -> {GrokPoll(flow, a) : a \in {"pending", "done", "error"}}
    [] flow.stage = "exchange" /\ flow.kind = "codex" ->
         {CodexExchange(flow, a) : a \in {"done", "error"}}
    [] flow.stage = "exchange" -> {ExchangeCode(flow, a) : a \in {"done", "error"}}
    [] flow.stage = "user" -> {FetchUserInfo(flow, a) : a \in {"done", "error"}}
    [] flow.stage = "project" -> {FetchProjectId(flow, a) : a \in {"done", "absent", "error"}}
    [] flow.stage = "onboard" -> {OnboardUser(flow, a) : a \in {"pending", "done", "error"}}
    [] OTHER -> {}
==============================================================================
