---------------------------- MODULE Conversation ----------------------------
(***************************************************************************)
(* A conversation that moves between upstreams.  A client of one of the    *)
(* protocols holds the whole history and sends it with every request; the  *)
(* router may send each request to another provider, so the reasoning and  *)
(* the calls of one upstream come back to another.                         *)
(***************************************************************************)
EXTENDS UpstreamRequests

CONSTANTS
  ToolLists,      \* client -> the lists of tools it may declare
  MaxParts(_),    \* bound: parts of a conversation with these tools
  MaxAsides       \* bound: of them, system and agent messages

VARIABLES
  client,         \* "claude", "chat", "responses" (an SDK) or "lite" (Codex)
  tools,          \* the tools it declares
  conv,           \* the history it holds
  phase,          \* "client" (its turn) or "answer" (the upstream's)
  request         \* the request the upstream was sent, until it answers

vars == <<client, tools, conv, phase, request>>

Targets == {"codex", "grok", "gemini", "claude", "chat"}
NoRequest == [ok |-> FALSE, target |-> "none", body |-> <<>>, up |-> NoTable, down |-> NoTable,
              stripped |-> FALSE]

(* The protocol bridge: a Chat upstream takes Chat and Responses clients.  *)
Supports(c, target) == target = "chat" => c # "claude"

-----------------------------------------------------------------------------
(* Preparing a request: the client's protocol, then the upstream's driver. *)
(* It leaves the choice of tools to the model; ToolsRoundTrip asks what    *)
(* forcing one would send.                                                 *)

DriverTools(table) ==
  [i \in DOMAIN table.tools |-> Tool(table.tools[i][1], <<>>, table.tools[i][2])]

Driven(items, listed, target) ==
  CASE target = "codex" ->
         PrepareCodexRequest(items, IF client = "lite" THEN <<>> ELSE listed, client = "lite")
    [] target = "grok" -> PrepareGrokRequest(items, listed)
    [] target \in {"gemini", "claude"} -> PrepareAntigravityRequest(items, listed, target)
    [] target = "chat" -> PrepareChatRequest(items, listed)

Bridged ==
  CASE client = "claude" -> PrepareResponsesRequest(conv, tools)
    [] client = "chat" -> PrepareFromChat(conv, tools)
    [] OTHER -> Accepted(RenderResponses(conv, tools, client = "lite"), NoTable)

Prepared(items, target, stripped) ==
  LET listed == IF client \in {"claude", "chat"} THEN DriverTools(Bridged.table) ELSE tools
      driven == IF client = "chat" /\ target = "chat" THEN PassChatRequest(conv, tools)
                ELSE Driven(items, listed, target)
  IN [ok |-> driven.ok, target |-> target, body |-> driven.body,
      up |-> Bridged.table, down |-> driven.table, stripped |-> stripped]

-----------------------------------------------------------------------------
Part(k, call, tool, sig, said) ==
  [k |-> k, v |-> Len(conv) + 1, call |-> call, tool |-> tool, sig |-> sig, said |-> said]
(* What one speaker says on end is one part.                               *)
Add(p) ==
  /\ Len(conv) < MaxParts(tools)
  /\ conv # <<>> /\ p.k \in {"user", "text", "think"} => Last(conv).k # p.k
  /\ conv' = Append(conv, p)

Answered == {conv[i].call : i \in {j \in DOMAIN conv : conv[j].k = "result"}}
Open == {i \in DOMAIN conv : conv[i].k = "call" /\ conv[i].call \notin Answered}
NextCall == "c" \o ToString(Cardinality({i \in DOMAIN conv : conv[i].k \in {"call", "search"}}) + 1)

Init ==
  /\ client \in DOMAIN ToolLists
  /\ tools \in ToolLists[client]
  /\ conv = <<>>
  /\ phase = "client"
  /\ request = NoRequest

(* The client adds what it puts to the model; it may do so while a tool is *)
(* still out.                                                              *)
Speak ==
  /\ phase = "client"
  /\ \E k \in {"user", "note", "agent"} :
       /\ k = "agent" => client = "lite"
       /\ k # "user" => Cardinality({i \in DOMAIN conv : conv[i].k \in {"note", "agent"}}) < MaxAsides
       /\ \E said \in IF k = "agent" THEN BOOLEAN ELSE {FALSE} : Add(Part(k, "", 0, NoSig, said))
  /\ UNCHANGED <<client, tools, phase, request>>

(* A tool answers; the answers of parallel calls come in any order.        *)
Return ==
  /\ phase = "client"
  /\ \E i \in Open : Add(Part("result", conv[i].call, conv[i].tool, NoSig, FALSE))
  /\ UNCHANGED <<client, tools, phase, request>>

(* The request is prepared for the account the router chose.               *)
Send ==
  /\ phase = "client"
  /\ conv # <<>> /\ Last(conv).k \in {"user", "agent", "result"}
  /\ \E target \in {t \in Targets : Supports(client, t)} :
       LET sent == Prepared(Bridged.body, target, FALSE)
       IN /\ request' = IF sent.ok THEN sent ELSE NoRequest
          /\ phase' = IF sent.ok THEN "answer" ELSE "client"
  /\ UNCHANGED <<client, tools, conv>>

(* Grok could not decrypt the reasoning: the request, as it was before the *)
(* driver prepared it, is stripped of what is encrypted and prepared once  *)
(* more.  With nothing to strip there is no retry, and no second one.      *)
Retry ==
  LET items == StripEncryptedReasoning(Bridged.body)
  IN /\ request.ok /\ request.target = "grok" /\ ~request.stripped
     /\ items # Bridged.body
     /\ request' = Prepared(items, "grok", TRUE)
     /\ UNCHANGED <<client, tools, conv, phase>>

(* The reasoning an upstream gives, as the client gets it: Codex and Grok  *)
(* may leave the summary out, Gemini's signature may look plain.           *)
Thoughts(target) ==
  IF client = "chat" \/ target = "chat" THEN {<<NoSig, TRUE>>}
  ELSE IF target = "gemini" THEN {<<Sig(target, p), TRUE>> : p \in BOOLEAN}
  ELSE IF target = "claude" THEN {<<Sig(target, TRUE), TRUE>>}
  ELSE {<<Sig(target, FALSE), said>> : said \in BOOLEAN}

(* The upstream answers: reasoning, words, calls of the declared tools,    *)
(* calls it runs itself.                                                   *)
Answer ==
  /\ phase = "answer"
  /\ \/ \E t \in Thoughts(request.target) : Add(Part("think", "", 0, t[1], t[2]))
     \/ Add(Part("text", "", 0, NoSig, FALSE))
     \/ \E i \in DOMAIN tools :
          /\ tools[i].kind \notin Hosted
          /\ Add(Part("call", NextCall, i, NoSig, FALSE))
     \/ /\ \E i \in DOMAIN tools : tools[i].kind = "web_search"
        /\ request.target # "chat"
        /\ Add(Part("search", NextCall, 0, NoSig, FALSE))
  /\ request' = [NoRequest EXCEPT !.target = request.target]
  /\ UNCHANGED <<client, tools, phase>>

(* The answer ends, or is cut off.                                         *)
Finish ==
  /\ phase = "answer"
  /\ phase' = "client"
  /\ request' = NoRequest
  /\ UNCHANGED <<client, tools, conv>>

Next == Speak \/ Return \/ Send \/ Retry \/ Answer \/ Finish
Spec == Init /\ [][Next]_vars

-----------------------------------------------------------------------------
(* What the upstream reads in a request: <<part, as what>>, in order.      *)

RoleView == [user |-> "user", assistant |-> "words", developer |-> "note",
             system |-> "note", tool |-> "result"]
Seen(vs, as) == [i \in DOMAIN vs |-> <<vs[i], as>>]

ItemView(i) ==
  CASE i.type \in {"message", ""} -> Seen(i.vs, RoleView[i.role])
    [] i.type = "agent_message" -> Seen(i.vs, "user")
    [] i.type = "web_search_call" \/ CallKind(i.type) # "none" -> Seen(i.vs, "call")
    [] OutputKind(i.type) # "none" -> Seen(i.vs, "result")
    [] OTHER -> <<>>
MessageView(m) ==
  Seen(m.vs, RoleView[m.role])
    \o FlattenSeq([i \in DOMAIN m.calls |-> Seen(m.calls[i].vs, "call")])
ContentView(c) ==
  CASE c.k = "thought" -> <<>>
    [] c.k = "text" -> Seen(c.vs, IF c.role = "model" THEN "words" ELSE "user")
    [] c.k \in {"call", "calltext"} -> Seen(c.vs, "call")
    [] OTHER -> Seen(c.vs, "result")

Gemini == request.target \in {"gemini", "claude"}
Body == IF Gemini THEN request.body.contents ELSE request.body
View ==
  FlattenSeq([i \in DOMAIN Body |->
    CASE Gemini -> ContentView(Body[i])
      [] request.target = "chat" -> MessageView(Body[i])
      [] OTHER -> ItemView(Body[i])])

(* What the client said, as that upstream can be told it.                  *)
PartView(p) ==
  CASE p.k = "user" \/ (p.k = "agent" /\ p.said) -> <<<<p.v, "user">>>>
    [] p.k = "note" -> <<<<p.v, IF client = "claude" /\ p.v > 1 THEN "user" ELSE "note">>>>
    [] p.k = "text" -> <<<<p.v, "words">>>>
    [] p.k = "result" -> <<<<p.v, "result">>>>
    [] p.k = "call" \/ (p.k = "search" /\ client # "claude") -> <<<<p.v, "call">>>>
    [] OTHER -> <<>>
PartsView(ps) == FlattenSeq([i \in DOMAIN ps |-> PartView(ps[i])])
WordsFirst(ps) ==
  PartsView(SelectSeq(ps, LAMBDA p : p.k = "text")) \o PartsView(SelectSeq(ps, LAMBDA p : p.k # "text"))
Told ==
  IF client = "chat" \/ request.target = "chat"
  THEN FlattenSeq([i \in DOMAIN Runs(conv) |-> WordsFirst(Runs(conv)[i].blocks)])
  ELSE PartsView(conv)

Sent == request.ok
NotNote(e) == e[2] # "note"

(* Nothing of a conversation is lost, repeated, reordered or put into      *)
(* another's mouth on its way to any upstream: the words, calls and        *)
(* results of an accepted request are the client's, in its order.  Chat    *)
(* messages hold their words before their calls; Gemini has its system     *)
(* messages apart.                                                         *)
TranscriptKept ==
  Sent => IF Gemini
          THEN /\ View = SelectSeq(Told, NotNote)
               /\ Seen(request.body.system, "note") = SelectSeq(Told, LAMBDA e : ~NotNote(e))
          ELSE View = Told

(* Every result an upstream is sent comes after its call, under the same   *)
(* id; for Gemini both have the same tool name, and both are structured or *)
(* both told as text.                                                      *)
IsCall(e) == IF Gemini THEN e.k \in {"call", "calltext"} ELSE CallKind(e.type) # "none"
IsResult(e) == IF Gemini THEN e.k \in {"result", "resulttext"} ELSE OutputKind(e.type) # "none"
Matches(call, result) ==
  /\ call.call = result.call
  /\ Gemini => call.name = result.name /\ (call.k = "call") = (result.k = "result")
ChatPaired ==
  \A j \in DOMAIN Body : Body[j].role = "tool" =>
    \E i \in 1..(j - 1), c \in DOMAIN conv :
      c \in DOMAIN Body[i].calls /\ Body[i].calls[c].call = Body[j].call
OutputsPaired ==
  Sent => IF request.target = "chat" THEN ChatPaired
          ELSE \A j \in DOMAIN Body : IsResult(Body[j]) =>
                 \E i \in 1..(j - 1) : IsCall(Body[i]) /\ Matches(Body[i], Body[j])

(* Signed reasoning goes only to an upstream whose reasoning looks like    *)
(* it, and an upstream gets its own back.  Gemini gets only what is        *)
(* marked, and either model of Antigravity only what a summary, words or a *)
(* call can carry.  A Chat client never saw a signature, and Grok gets     *)
(* none in the request repeated because it could not decrypt one.          *)
SignedParts ==
  IF request.target = "chat" THEN {}
  ELSE {<<IF Gemini THEN Body[i].from ELSE Body[i].vs[1], Body[i].sig>> :
          i \in {j \in DOMAIN Body : Body[j].sig # NoSig}}
OwnShape(sig) == ShapeOf(sig) = ShapeOf(Sig(request.target, FALSE))
Shown(v) ==
  \/ conv[v].said /\ client # "claude"
  \/ /\ v < Len(conv)
     /\ \/ conv[v + 1].k = "text"
        \/ conv[v + 1].k = "call" /\ tools[conv[v + 1].tool].kind \notin Unnamed
ReasoningGoesHome ==
  Sent =>
    /\ \A s \in SignedParts : conv[s[1]].sig = s[2] /\ OwnShape(s[2])
    /\ request.stripped => SignedParts = {}
    /\ \A v \in DOMAIN conv :
         /\ conv[v].k = "think" /\ conv[v].sig.owner = request.target /\ ~request.stripped
         /\ request.target = "gemini" => conv[v].sig.padded
         /\ Gemini => Shown(v)
         => <<v, conv[v].sig>> \in SignedParts

(* A signature Gemini's model is shown with words or a call was given in   *)
(* the same answer, unless that answer was cut off before it said          *)
(* anything: then the signature waits for the next one.                    *)
Silent(v) ==
  LET spoken == {w \in v + 1..Len(conv) : conv[w].k \in {"text", "call"}}
      turn == {w \in v + 1..Len(conv) : PartRole(conv[w]) = "user"}
  IN \A w \in spoken : \E u \in turn : u < w
SignatureOfItsAnswer ==
  Sent /\ Gemini =>
    \A i \in DOMAIN Body :
      Body[i].k \in {"text", "call"} /\ Body[i].sig # NoSig =>
        \/ \A w \in Body[i].from..Body[i].vs[1] : PartRole(conv[w]) = "assistant"
        \/ Silent(Body[i].from)

(* Signed reasoning comes back to the upstream that signed it, and nowhere *)
(* else, in the answer it was given in.                                    *)
ReasoningKept == ReasoningGoesHome /\ SignatureOfItsAnswer

-----------------------------------------------------------------------------
(* Tool names.  A declared tool is sent under one name; a call of that     *)
(* name comes back as a call of that tool.                                 *)

ClientName(t) ==
  IF client = "claude" THEN Tool(t.kind, <<>>, request.up.names[t.name]) ELSE t
SentName(t) ==
  LET c == ClientName(t)
  IN CASE request.target = "grok" -> GrokName(c.ns, NameOf(c))
       [] request.target = "chat" -> ChatName(c.ns, NameOf(c))
       [] Gemini -> request.down.names[QualifyToolName(c.ns, c.name)]
Restored(name) ==
  LET d == request.down.back[name]
  IN IF client = "claude" THEN request.up.back[d.name] ELSE d
Forces(t, name) ==
  LET forced == ClaudeChoice(request.up, t)
      c == IF client = "claude" THEN Tool(forced[1], <<>>, forced[2]) ELSE t
      config == FunctionCallingConfig(AntigravityChoice(request.down, c), request.down, request.target)
  IN CASE request.target = "grok" -> GrokChoice(request.down, c) = <<"function", name>>
       [] request.target = "chat" -> ChatChoice(request.down, c) = <<"function", name>>
       [] request.target = "gemini" -> config = Config("ANY", {name})
       [] request.target = "claude" -> config = Config("VALIDATED", {name})

(* Two declarations Antigravity gives one name, and a namespaced custom    *)
(* tool whose own name is another's: the calls of its history lose their   *)
(* namespace before they are named.                                        *)
Ambiguous(t) ==
  /\ Gemini
  /\ \E u \in ToSet(tools) \ {t} :
       \/ QualifyToolName(u.ns, NameOf(u)) = QualifyToolName(t.ns, NameOf(t))
       \/ t.ns # <<>> /\ t.kind = "custom" /\ t.name = u.name

(* Every declared tool of an accepted request is sent, its calls are       *)
(* turned back into calls of that tool, the history's calls have its name, *)
(* and a request that forces the choice of it names it alone, and insists  *)
(* on a call: all but Antigravity's Claude models, which are told what     *)
(* they may call (mode VALIDATED) and never that they must.                *)
ToolsRoundTrip ==
  Sent /\ request.target # "codex" =>
    \A i \in DOMAIN tools :
      LET t == tools[i] IN
      t.kind \in {"function", "custom"} /\ ~Ambiguous(t) =>
        /\ <<"function", SentName(t)>> \in ToSet(request.down.tools)
        /\ Restored(SentName(t)) = t
        /\ Forces(t, SentName(t))
        /\ request.target # "chat" =>
             \A j \in DOMAIN Body : IsCall(Body[j]) /\ conv[Body[j].vs[1]].tool = i
                                      => Body[j].name = SentName(t)
=============================================================================
