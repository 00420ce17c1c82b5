----------------------------- MODULE GrokReplay -----------------------------
(***************************************************************************)
(* Grok keeps no state between requests, so a Grok account keeps the last  *)
(* answers of its clients (grok/replay.rs) and puts them back into the     *)
(* requests that continue them: by previous_response_id, by the outputs of *)
(* the calls they made, by item references, or just by their session.      *)
(*                                                                         *)
(* A scope is [key, session].  key stands for the API key and the model,   *)
(* which are always compared together; session is <<>> or what the client  *)
(* named its session, digested with a namespace and the key                *)
(* (http/request.rs).  An item is [type, id, call, from]; from is the turn *)
(* that produced it, 0 when the client sent it.  A string input is the     *)
(* input of one user item.                                                 *)
(***************************************************************************)
EXTENDS Integers, SequencesExt

CONSTANTS
  Keys, HeaderSets,            \* API keys; the headers their requests may have
  ResponseIds, ItemId, CallIds,\* the ids Grok gives; CallIds is a sequence
  MaxItems,                    \* MAX_REPLAY_ITEMS, the byte limit included
  MaxOpen,                     \* bound: requests sent upstream at a time
  Menu                         \* instances: the keys and client protocols in use, the
                               \* bound on turns, and entries, for MAX_REPLAY_SESSIONS

VARIABLES
  entries,        \* the cache: [scope, rid, items], the oldest first
  stale,          \* how many of the oldest are past REPLAY_TTL
  turns,          \* the requests sent: [scope, state, items], open until it ends
  latest,         \* scope -> the turn whose end was recorded last, 0 for none
  menu            \* the member of Menu this behaviour runs

vars == <<entries, stale, turns, latest, menu>>

Item(type, id, call, from) == [type |-> type, id |-> id, call |-> call, from |-> from]
Of(items, type) == SelectSeq(items, LAMBDA i : i.type = type)
Calls(items) == {i.call : i \in ToSet(Of(items, "call"))}
ToolOutputCallIds(items) == {i.call : i \in ToSet(Of(items, "output"))}
Remove1(s, i) == SubSeq(s, 1, i - 1) \o SubSeq(s, i + 1, Len(s))

-----------------------------------------------------------------------------
(* The session a request belongs to: the first of its names, digested with *)
(* the key, so that no two keys share one.  Responses and Chat clients     *)
(* share a namespace; Claude Code has its own.                             *)

IsolatedCacheKey(namespace, key, seed) == IF seed = "" THEN <<>> ELSE <<namespace, key, seed>>
FirstNamed(names) ==
  LET named == SelectSeq(names, LAMBDA n : n # "") IN IF named = <<>> THEN "" ELSE Head(named)
ResponsesSeed(h) == FirstNamed(<<h.session, h.cache, h.thread, h.grok>>)
ChatSeed(h) == FirstNamed(<<h.session, h.thread, h.client>>)
ClaudeCodeSeed(h) == FirstNamed(<<h.claude, h.session>>)

ReplayScope(protocol, key, h) ==
  [key |-> key,
   session |-> CASE protocol = "responses" -> IsolatedCacheKey("rs", key, ResponsesSeed(h))
                 [] protocol = "chat" -> IsolatedCacheKey("rs", key, ChatSeed(h))
                 [] protocol = "claude" -> IsolatedCacheKey("cc", key, ClaudeCodeSeed(h))]
Scopes == {ReplayScope(p, k, h) : p \in menu.protocols, k \in menu.keys, h \in HeaderSets}

-----------------------------------------------------------------------------
(* The cache.  Entries past their time are dropped when it is read.        *)

Fresh == SubSeq(entries, stale + 1, Len(entries))
InScope(scope) == SelectSeq(Fresh, LAMBDA e : e.scope = scope)

ReplayEntryMatchesOutputs(e, outputs) == outputs \subseteq Calls(e.items)

(* entry(): <<>> or the one entry a request continues.                     *)
ByResponse(scope, prev) ==
  LET candidates == SelectSeq(Fresh, LAMBDA e : e.rid = prev /\ e.scope.key = scope.key)
      exact == SelectSeq(candidates, LAMBDA e : e.scope = scope)
  IN IF scope.session # <<>> /\ exact # <<>> THEN exact
     ELSE IF Len(candidates) = 1 THEN candidates ELSE <<>>
BySession(scope, outputs) ==
  LET candidates == SelectSeq(InScope(scope), LAMBDA e :
                      outputs = {} \/ ReplayEntryMatchesOutputs(e, outputs))
  IN IF candidates = <<>> \/ (outputs # {} /\ Len(candidates) # 1) THEN <<>>
     ELSE <<Last(candidates)>>

(* Mutant: a turn that failed last does not stand in the way.              *)
EntryBeforeFailure(scope, prev, outputs) ==
  IF prev # "" THEN ByResponse(scope, prev)
  ELSE IF scope.session = <<>> /\ outputs = {} THEN <<>>
  ELSE LET kept == SelectSeq(InScope(scope), LAMBDA e : e.items # <<>>)
       IN IF kept = <<>> \/ outputs # {} THEN BySession(scope, outputs) ELSE <<Last(kept)>>
Entry(scope, prev, outputs) ==
  LET own == InScope(scope)
  IN IF prev # "" THEN ByResponse(scope, prev)
     ELSE IF scope.session = <<>> /\ outputs = {} THEN <<>>
     ELSE IF own # <<>> /\ Last(own).items = <<>> THEN <<>>
     ELSE BySession(scope, outputs)

CachedItemsForSession(scope) ==
  LET own == InScope(scope) IN FlattenSeq([i \in DOMAIN own |-> own[i].items])

-----------------------------------------------------------------------------
(* Continuing a request.                                                   *)

(* Mutant: a call the client sent too is put in again.                     *)
InjectTwice(body, cached) ==
  LET outputs == ToolOutputCallIds(body)
  IN SelectSeq(cached, LAMBDA i : i.type = "call" => i.call \in outputs) \o body
InjectReplayItems(body, cached) ==
  LET outputs == ToolOutputCallIds(body)
      existing == Calls(body)
      hasAssistant == \E i \in ToSet(body) : i.type \in {"message", "reasoning"}
      wanted(i) == IF i.type = "call" THEN i.call \in outputs \ existing ELSE ~hasAssistant
  IN SelectSeq(cached, wanted) \o body

HasUnpairedToolOutputs(body) == ~(ToolOutputCallIds(body) \subseteq Calls(body))
RequestContainsCompleteHistory(body) ==
  \E i \in ToSet(body) : i.type \in {"reasoning", "call", "message"}
InputHasItemReference(body) == Of(body, "reference") # <<>>

(* What a reference may stand for: an item of the request, else a cached   *)
(* one; two of either make it ambiguous.                                   *)
Referents(body, cached, id) ==
  LET local == {i \in DOMAIN body : body[i].type # "reference" /\ body[i].id = id}
      known == {i \in DOMAIN cached : cached[i].id = id}
  IN IF local # {} THEN {<<i, body[i]>> : i \in local} ELSE {<<i, cached[i]>> : i \in known}

ExpandItemReferences(body, scope, prev) ==
  LET entry == Entry(scope, prev, {})
      cached == IF prev = "" THEN CachedItemsForSession(scope)
                ELSE IF entry = <<>> THEN <<>> ELSE entry[1].items
      found(i) == Referents(body, cached, body[i].id)
      isRef(i) == body[i].type = "reference"
  IN [ok |-> /\ IF prev = "" THEN scope.session # <<>> ELSE entry # <<>>
             /\ \A i \in DOMAIN body : isRef(i) => Cardinality(found(i)) = 1,
      body |-> [i \in DOMAIN body |->
                  IF isRef(i) /\ Cardinality(found(i)) = 1
                  THEN (CHOOSE f \in found(i) : TRUE)[2] ELSE body[i]]]

PrepareRequest(scope, prev, input) ==
  LET expands == InputHasItemReference(input)
      expanded == IF expands THEN ExpandItemReferences(input, scope, prev)
                  ELSE [ok |-> TRUE, body |-> input]
      entry == Entry(scope, prev, ToolOutputCallIds(expanded.body))
      body == IF expands \/ entry = <<>> THEN expanded.body
              ELSE InjectReplayItems(expanded.body, entry[1].items)
      replayed == body # expanded.body
      lost == prev # "" /\ ~replayed /\ ~RequestContainsCompleteHistory(body)
      unpaired == HasUnpairedToolOutputs(body) /\ (expands \/ replayed \/ prev = "")
  IN [ok |-> expanded.ok /\ ~lost /\ ~unpaired, body |-> body,
      replayed |-> replayed, expanded |-> expands]

-----------------------------------------------------------------------------
(* Recording an answer.  An entry is stored under its response id, in      *)
(* place of an older one; a full cache forgets its oldest.                 *)

StoreEntry(n, rid, items) ==
  LET scope == turns[n].scope
      same == {i \in DOMAIN entries : entries[i].scope = scope /\ entries[i].rid = rid}
      out == IF same # {} THEN Min(same) ELSE IF Len(entries) >= menu.entries THEN 1 ELSE 0
      kept == IF out = 0 THEN entries ELSE Remove1(entries, out)
  IN IF rid = "" THEN UNCHANGED <<entries, stale, latest>>
     ELSE /\ entries' = Append(kept, [scope |-> scope, rid |-> rid, items |-> items])
          /\ stale' = IF out \in 1..stale THEN stale - 1 ELSE stale
          /\ latest' = [latest EXCEPT ![scope] = n]

IsReplayableItem(i) == i.type # "search"
StoreCompleted(n, rid, output) ==
  LET items == SelectSeq(output, IsReplayableItem)
  IN StoreEntry(n, rid, IF Len(items) > MaxItems THEN <<>> ELSE items)

InvalidateResponseId(n, rid) == StoreEntry(n, rid, <<>>)

(* The end of turn n.                                                      *)
Close(n, state, items) ==
  /\ turns[n].state = "open"
  /\ UNCHANGED menu
  /\ turns' = [turns EXCEPT ![n].state = state, ![n].items = items]

-----------------------------------------------------------------------------
Init ==
  /\ entries = <<>> /\ stale = 0
  /\ turns = <<>>
  /\ menu \in Menu
  /\ latest = [s \in Scopes |-> 0]

(* What a client may send: a question, the outputs of calls with or        *)
(* without the calls, an earlier answer in full, references to its items.  *)
Question == Item("user", "", "", 0)
ToolOutputs(cs) == [i \in DOMAIN cs |-> Item("output", "", cs[i], 0)]
Returned == {ToolOutputs(<<CallIds[1]>>), ToolOutputs(CallIds)}
Mine(items) == [i \in DOMAIN items |-> [items[i] EXCEPT !.from = 0]]
Answers(key) == {Mine(turns[n].items) : n \in {m \in DOMAIN turns : turns[m].scope.key = key}}
References == {<<Item("reference", id, "", 0)>> : id \in {ItemId, CallIds[1]}}
Inputs(key) ==
  {<<Question>>} \union Returned
    \union {a \o next : a \in Answers(key), next \in {<<Question>>} \union Returned \union References}
    \union {r \o next : r \in References, next \in {<<Question>>} \union Returned}
Previous == ResponseIds \union {""}

(* execute_stream: the request is continued and sent, or refused.  A plain *)
(* question is never refused, the output of an unknown call always.        *)
Ask ==
  /\ Len(turns) < menu.turns
  /\ Len(SelectSeq(turns, LAMBDA t : t.state = "open")) < MaxOpen
  /\ \E scope \in Scopes :
       /\ PrepareRequest(scope, "", <<Question>>).ok
       /\ turns' = Append(turns, [scope |-> scope, state |-> "open", items |-> <<>>])
  /\ entries' = Fresh /\ stale' = 0
  /\ UNCHANGED <<latest, menu>>

Refuse ==
  /\ stale > 0
  /\ {s \in Scopes : \E o \in Returned : ~PrepareRequest(s, "", o).ok} # {}
  /\ entries' = Fresh /\ stale' = 0
  /\ UNCHANGED <<turns, latest, menu>>

(* observe_stream.  The id of an answer is the terminal event's or that of *)
(* response.created; an answer with neither, or a blank one, has none, and *)
(* nothing is recorded of it.                                              *)
Outputs(n) ==
  LET I(type, id) == Item(type, id, id, n)
  IN {<<I("search", ""), I("reasoning", ItemId), I("message", "")>>,
      <<I("reasoning", ItemId), I("call", CallIds[1])>>,
      [i \in DOMAIN CallIds |-> I("call", CallIds[i])],
      [i \in 1..(MaxItems + 1) |-> I("message", "")]}

Completed(n) ==
  \E rid \in Previous, output \in Outputs(n) :
    StoreCompleted(n, rid, output) /\ Close(n, "completed", output)

(* response.failed, incomplete or cancelled; a stream that breaks or ends  *)
(* without a terminal event.                                               *)
Failed(n) ==
  \E rid \in Previous : InvalidateResponseId(n, rid) /\ Close(n, "failed", <<>>)

(* The client hangs up: the stream is dropped and nothing is recorded.     *)
Dropped(n) ==
  /\ Close(n, "dropped", <<>>)
  /\ UNCHANGED <<entries, stale, latest>>

(* An hour passes since the oldest fresh entry was stored.                 *)
Age ==
  /\ stale < Len(entries)
  /\ stale' = stale + 1
  /\ UNCHANGED <<entries, turns, latest, menu>>

Next ==
  \/ Ask \/ Refuse \/ Age
  \/ \E n \in DOMAIN turns : Completed(n) \/ Failed(n) \/ Dropped(n)

Spec == Init /\ [][Next]_vars

-----------------------------------------------------------------------------
(* Every request a client could send now that the cache would continue.    *)
Continued(naming, P(_, _, _)) ==
  \A scope \in Scopes : \A input \in Inputs(scope.key), prev \in naming :
    LET p == PrepareRequest(scope, prev, input) IN p.ok => P(scope, prev, p)

Replayed(p) == {i \in ToSet(p.body) : i.from # 0}

(* What is put into a request was answered to the same API key, completely *)
(* and, unless the request names the answer by its id, in the same         *)
(* session: the cache is shared by all clients of an account, and neither  *)
(* a reused response id nor an unnamed session crosses keys.               *)
FromOwnScope(scope, prev, p) ==
  \A i \in Replayed(p) :
    /\ turns[i.from].state = "completed"
    /\ turns[i.from].scope.key = scope.key
    /\ prev = "" => turns[i.from].scope = scope

(* A request the cache completed, by its items or by resolving references, *)
(* and a request that leans on no response id at all, has for every tool   *)
(* output exactly one call that asked for it, and that call comes before   *)
(* it; or it was refused.  Only a request that keeps its response id and   *)
(* brings its own history is left to the upstream.                         *)
OutputsHaveOneCall(prev, p) ==
  p.replayed \/ p.expanded \/ prev = "" =>
    \A j \in DOMAIN p.body : p.body[j].type = "output" =>
      LET asking == {i \in DOMAIN p.body : p.body[i].type = "call" /\ p.body[i].call = p.body[j].call}
      IN Cardinality(asking) = 1 /\ \A i \in asking : i < j

(* What is replayed is the caller's own and makes the request complete.    *)
ReplaySound ==
  Continued(Previous, LAMBDA scope, prev, p :
    FromOwnScope(scope, prev, p) /\ OutputsHaveOneCall(prev, p))

(* A request that names neither a response nor a call continues the last   *)
(* turn of its session that ended with a response id, or nothing: when     *)
(* that turn failed, broke or was too long to keep, no older answer is     *)
(* taken for it, however entries expire or are evicted.                    *)
SessionContinuesLatestTurn ==
  Continued({""}, LAMBDA scope, prev, p :
    p.replayed /\ ToolOutputCallIds(p.body) = {} =>
      \A i \in Replayed(p) : i.from = latest[scope])
=============================================================================
