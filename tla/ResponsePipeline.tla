-------------------------- MODULE ResponsePipeline --------------------------
(***************************************************************************)
(* One streamed answer on its way from an upstream to a client: driver,    *)
(* usage observer, translator and delivery, composed the way ModelRuntime  *)
(* and the HTTP handler wrap one ProviderStream in another. Every layer is *)
(* pulled by the one after it: a layer reads only when what it has ready   *)
(* is gone.                                                                *)
(***************************************************************************)
EXTENDS ClaudeStream, ChatStream, ResponsesStream, GrokStream, AntigravityStream, UsageObserver,
        UpstreamAnswers, ClientView

CONSTANTS Routes,       \* the pairs <<provider, client>> served
          Answers,      \* the pairs <<parts, end>> an upstream may answer with
          Faults,       \* what may go wrong between upstream and driver
          LiveRoutes,   \* of Routes and Answers, those whose progress is examined
          LiveAnswers

VARIABLES route,        \* provider and client of this answer, and whether the model is a Claude
          parts,        \* what upstream answers
          end,          \* how upstream means to end
          script,       \* what upstream has still to send
          net,          \* "up", "stalled" or "faulty"
          driver,       \* the driver's stream
          observer,     \* the usage observer
          translator,   \* the response translator
          client,       \* "reading", or how the delivery ended
          view          \* what the client makes of what it received

vars == <<route, parts, end, script, net, driver, observer, translator, client, view>>

Provider == route[1]
Speaks == route[2]
IdleTimed == {"grok", "antigravity"}

DriverNew ==
  CASE Provider = "grok" -> GrokNew
    [] Provider = "antigravity" -> AntigravityNew(route[3])
    [] OTHER -> [ready |-> <<>>, eof |-> FALSE]

TranslatorNew ==
  CASE Speaks = "claude" -> ClaudeNew
    [] Speaks = "chat" -> ChatNew(TRUE)
    [] Speaks = "responses" /\ Provider = "chat" -> ResponsesNew
    [] OTHER -> [finished |-> FALSE, out |-> <<>>]

Init ==
  /\ route \in Routes
  /\ \E answer \in Answers : parts = answer[1] /\ end = answer[2]
  /\ script = Script(Provider, parts, end)
  /\ net = "up"
  /\ driver = DriverNew
  /\ observer = ObserverNew
  /\ translator = TranslatorNew
  /\ client = "reading"
  /\ view = ViewNew

\* Codex and OpenAI-compatible accounts hand on the bytes as they come; a frame
\* cut short is decoded at the end of the stream, and is no JSON.
PassThrough(d, ev) ==
  CASE ev.t = "eof" -> [d EXCEPT !.eof = TRUE]
    [] ev.t = "tail" -> [d EXCEPT !.ready = Append(@, Raw)]
    [] OTHER -> [d EXCEPT !.ready = Append(@, ev)]

DriverRead(d, ev) ==
  CASE Provider = "grok" -> GrokRead(d, ev)
    [] Provider = "antigravity" -> AntigravityRead(d, ev)
    [] OTHER -> PassThrough(d, ev)

TranslatorRead(c, ev) ==
  CASE Speaks = "claude" -> ClaudeRead(c, IF ev.t = "oversize" THEN Fault ELSE ev)
    [] Speaks = "chat" -> ChatRead(c, IF ev.t = "oversize" THEN Fault ELSE ev)
    [] Speaks = "responses" /\ Provider = "chat" ->
         ResponsesRead(c, IF ev.t = "oversize" THEN Fault ELSE ev)
    [] OTHER -> IF ev.t = "eof" THEN [c EXCEPT !.finished = TRUE] ELSE Emit(c, ev)

Pulled == client = "reading" /\ translator.out = <<>> /\ ~translator.finished

\* The driver is pulled: it reads what upstream sends, or the end.
ReadUpstream ==
  /\ Pulled /\ driver.ready = <<>> /\ ~driver.eof
  /\ net # "stalled"
  /\ driver' = DriverRead(driver, IF script = <<>> THEN Ev("eof") ELSE Head(script))
  /\ script' = IF script = <<>> THEN script ELSE Tail(script)
  /\ UNCHANGED <<route, parts, end, net, observer, translator, client, view>>

\* Once, the connection breaks, ends early (inside a frame or between two), or
\* carries a frame that is too large or no JSON. What was to follow a break is lost.
ReadFault ==
  /\ Pulled /\ driver.ready = <<>> /\ ~driver.eof
  /\ net = "up"
  /\ \E fault \in Faults :
       /\ driver' = DriverRead(driver, Ev(fault))
       /\ script' = IF fault = "raw" THEN script ELSE <<>>
  /\ net' = "faulty"
  /\ UNCHANGED <<route, parts, end, observer, translator, client, view>>

Stall ==
  /\ Pulled /\ driver.ready = <<>> /\ ~driver.eof
  /\ net = "up"
  /\ net' = "stalled"
  /\ UNCHANGED <<route, parts, end, script, driver, observer, translator, client, view>>

\* Mutant of IdleTimeout: the timer is set only once upstream has sent something.
IdleTimeoutLate ==
  /\ Pulled /\ driver.ready = <<>> /\ ~driver.eof
  /\ net = "stalled" /\ Provider \in IdleTimed /\ view # ViewNew
  /\ driver' = DriverRead(driver, Ev("timeout"))
  /\ UNCHANGED <<route, parts, end, script, net, observer, translator, client, view>>

\* Five minutes without a byte, for the drivers that keep a timer.
IdleTimeout ==
  /\ Pulled /\ driver.ready = <<>> /\ ~driver.eof
  /\ net = "stalled" /\ Provider \in IdleTimed
  /\ driver' = DriverRead(driver, Ev("timeout"))
  /\ UNCHANGED <<route, parts, end, script, net, observer, translator, client, view>>

\* The translator is pulled: the observer hands it what the driver has ready.
PassOn ==
  /\ Pulled
  /\ driver.ready # <<>> \/ driver.eof
  /\ LET ev == IF driver.ready = <<>> THEN Ev("eof") ELSE Head(driver.ready)
     IN /\ observer' = Observe(observer, ev)
        /\ translator' = TranslatorRead(translator, ev)
  /\ driver' = [driver EXCEPT !.ready = IF @ = <<>> THEN @ ELSE Tail(@)]
  /\ UNCHANGED <<route, parts, end, script, net, client, view>>

IsFault(ev) == IF Speaks = "responses" THEN ev.t = "fault" ELSE ev.e = "fault"

Viewed(v, ev) ==
  CASE Speaks = "claude" -> ClaudeView(v, ev)
    [] Speaks = "chat" -> ChatView(v, ev)
    [] Speaks = "responses" -> ResponsesView(v, ev)

\* An Err ends the body: the observer is dropped before the delivery is recorded.
DeliverEvent ==
  /\ client = "reading" /\ translator.out # <<>>
  /\ LET ev == Head(translator.out)
     IN /\ view' = Viewed(view, ev)
        /\ translator' = [translator EXCEPT !.out = Tail(@)]
        /\ IF IsFault(ev)
           THEN /\ client' = IF view = ViewNew THEN "ErrorBeforeBytes" ELSE "ErrorAfterBytes"
                /\ observer' = ReportCancelled(observer)
           ELSE UNCHANGED <<client, observer>>
  /\ UNCHANGED <<route, parts, end, script, net, driver>>

DeliverEnd ==
  /\ client = "reading" /\ translator.out = <<>> /\ translator.finished
  /\ client' = "CleanEof"
  /\ observer' = ReportCancelled(observer)
  /\ UNCHANGED <<route, parts, end, script, net, driver, translator, view>>

\* The client disconnects: dropping the body drops every layer under it.
ClientDrop ==
  /\ client = "reading"
  /\ client' = "ClientDrop"
  /\ observer' = ReportCancelled(observer)
  /\ UNCHANGED <<route, parts, end, script, net, driver, translator, view>>

Next == ReadUpstream \/ ReadFault \/ Stall \/ IdleTimeout \/ PassOn \/ DeliverEvent
        \/ DeliverEnd \/ ClientDrop

Spec == Init /\ [][Next]_vars

\* The body is polled as long as the client reads, and timers fire.
Examined == route \in LiveRoutes /\ <<parts, end>> \in LiveAnswers
Polled == Examined /\ (ReadUpstream \/ IdleTimeout \/ PassOn \/ DeliverEvent \/ DeliverEnd)
FairSpec == Spec /\ WF_vars(Polled)

-----------------------------------------------------------------------------
(***************************************************************************)
(* The answer as the client sees it, and the Relay it implements.          *)
(***************************************************************************)

\* The parts a client's protocol has a place for.
Carries(part) ==
  CASE Speaks = "claude" ->
         CASE part = "custom" -> FALSE
           [] part = "search" -> Provider = "codex"
           [] OTHER -> TRUE
    [] Speaks = "chat" -> part \notin {"custom", "search"}
    [] OTHER -> TRUE

Owed == [n \in 1..Len(parts) |-> IF Carries(parts[n]) THEN Fragments(n) ELSE <<>>]

Got == [n \in 1..Len(parts) |-> SelectSeq(view.got, LAMBDA f : f[1] = n)]

AnswerStatus ==
  IF view.status = "open" /\ client # "reading" THEN "gone" ELSE view.status

Answer == INSTANCE Relay WITH answer <- Owed, got <- Got, status <- AnswerStatus

\* Every provider and every translator relays an answer as Relay promises.
RelaysAnswer == Answer!RelaySpec

\* A client never receives an event its protocol does not allow: Claude blocks
\* open, grow and close one at a time with indices that count up, a Chat tool is
\* announced before its arguments, Responses events are numbered without gaps,
\* items are announced before they grow and are all done in a complete answer,
\* whose terminal event lists exactly them.
WellFormed == view.ok

ClientDone == client # "reading"

\* Once the client's body is over the attempt has been told, exactly once: success
\* only of an answer upstream completed and no client was cleanly told failed; of an
\* answer a client got whole the usage the client was told, and success if upstream
\* completed it. (The observer does not see what only the translator rejects: a Chat
\* upstream that changes its response id.)
VerdictAgrees ==
  /\ Len(observer.reports) = IF ClientDone \/ ~observer.attempt THEN 1 ELSE 0
  /\ ClientDone =>
       LET report == observer.reports[1]
           changedId == Provider = "chat" /\ end = "status"
       IN /\ report.success /\ ~changedId => view.status # "failed" \/ client # "CleanEof"
          /\ report.success => end \notin {"failed", "limit", "none"}
          /\ client = "CleanEof" /\ view.status = "complete" /\ ~observer.blind =>
               /\ report.outcome = "finished"
               /\ report.use = view.use
               /\ end \in {"completed", "bare"} => report.success

\* A body that ends cleanly told the client how its answer ended, if the driver
\* watches for that (Grok and Antigravity, and Chat upstreams for a Responses client).
CleanEndIsTold ==
  client = "CleanEof" /\ (Provider \in IdleTimed \/ Provider = "chat") => view.status # "open"

\* A stream of a driver with an idle timer ends, however its upstream behaves.
IdleStreamEnds == Examined /\ Provider \in IdleTimed ~> ClientDone
==============================================================================
