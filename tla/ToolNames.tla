------------------------------ MODULE ToolNames ------------------------------
(***************************************************************************)
(* The names a request's tools travel under.  A client declares tools with *)
(* names of its own; every translator sends the upstream other names and   *)
(* keeps a table to turn the names of the answer's calls back.             *)
(*                                                                         *)
(* A tool is [kind, ns, name]: what it is, the namespace it was declared   *)
(* in (<<>> for none) and its name.  A name is a sequence of tokens, each  *)
(* standing for a few characters: "__" is the separator the qualified      *)
(* names use, "mcp__" the prefix that is never qualified, " " a character  *)
(* an upstream refuses and "1" one it refuses at the start.  NameLimit is  *)
(* the upstreams' bound on a name (64 bytes), in tokens.                   *)
(*                                                                         *)
(* A table is [ok, names, tools, back]: whether the tools are accepted,    *)
(* the upstream name of every name the request may use, the upstream tools *)
(* as a sequence of <<type, name>>, and what an upstream name stands for.  *)
(***************************************************************************)
EXTENDS Integers, SequencesExt

CONSTANT NameLimit

ASSUME NameLimitAssumption == NameLimit \in Nat /\ NameLimit > 1

Tool(kind, ns, name) == [kind |-> kind, ns |-> ns, name |-> name]

(* Tools the upstream runs itself, and the client tools without a name.    *)
Hosted == {"web_search", "file_search", "computer", "code_interpreter", "image_generation"}
Unnamed == {"local_shell", "apply_patch", "tool_search"}

NameOf(t) == IF t.kind \in Unnamed THEN <<t.kind>> ELSE t.name

NoTable == [ok |-> TRUE, names |-> <<>>, tools |-> <<>>, back |-> <<>>]
Refused == [NoTable EXCEPT !.ok = FALSE]

Truncate(name, n) == SubSeq(name, 1, Min({n, Len(name)}))
TrimEnd(ns) ==
  SubSeq(ns, 1, Max({0} \union {i \in DOMAIN ns : ns[i] # "__"}))
StartsWith(name, prefix) == IsPrefix(prefix, name)

-----------------------------------------------------------------------------
(* A Claude client and a Responses upstream: truncated, then numbered.     *)

(* Mutant: names that meet when cut are not told apart.                    *)
ReusesNames(name, used) == Truncate(name, NameLimit)
UniqueToolName(name, used) ==
  LET candidate(i) == IF i = 0 THEN Truncate(name, NameLimit)
                      ELSE Append(Truncate(name, NameLimit - 1), "_" \o ToString(i))
      free == {i \in 0..Cardinality(used) : candidate(i) \notin used}
  IN candidate(Min(free))

(* Every tool has a name of its own, the web search too.                   *)
NameClaudeTool(m, t) ==
  LET up == UniqueToolName(t.name, DOMAIN m.back)
  IN [m EXCEPT !.names = (t.name :> up) @@ @, !.back = (up :> t) @@ @]

ClaudeTable(tools) ==
  LET named == FoldLeft(NameClaudeTool, NoTable, tools)
  IN [named EXCEPT !.tools = [i \in DOMAIN tools |->
        IF tools[i].kind = "web_search" THEN <<"web_search", <<>>>>
        ELSE <<"function", named.names[tools[i].name]>>]]

(* A Chat client: the names are the upstream's.                            *)
ChatClientTable(tools) ==
  [ok |-> TRUE,
   names |-> [n \in {t.name : t \in ToSet(tools)} |-> n],
   tools |-> [i \in DOMAIN tools |-> <<"function", tools[i].name>>],
   back |-> [n \in {t.name : t \in ToSet(tools)} |-> Tool("function", <<>>, n)]]

-----------------------------------------------------------------------------
(* A Responses client and a Chat upstream: every tool is a function, the   *)
(* namespace is part of its name, and two tools may not meet in one name.  *)

ChatName(ns, name) == IF ns = <<>> THEN name ELSE TrimEnd(ns) \o <<"__">> \o name

ConvertTool(m, t) ==
  LET name == ChatName(t.ns, NameOf(t))
      refused == t.kind \in Hosted \/ name \in DOMAIN m.back
  IN IF ~m.ok THEN m
     ELSE IF refused THEN Refused
     ELSE [m EXCEPT !.names = (name :> name) @@ @,
                    !.tools = Append(@, <<"function", name>>),
                    !.back = (name :> t) @@ @]

ConvertTools(tools) == FoldLeft(ConvertTool, NoTable, tools)

-----------------------------------------------------------------------------
(* Grok: custom tools and tool_search become functions; image_generation   *)
(* is dropped, a second tool_search too; <<type, name>> must stay unique.  *)

GrokName(ns, name) ==
  IF ns = <<>> \/ StartsWith(name, <<"mcp__">>) THEN name ELSE ChatName(ns, name)

GrokType(kind) == IF kind \in {"custom", "tool_search"} THEN "function" ELSE kind

NormalizeGrokTool(m, t) ==
  LET name == IF t.kind \in Hosted \union (Unnamed \ {"tool_search"})
              THEN <<>> ELSE GrokName(t.ns, NameOf(t))
      key == <<GrokType(t.kind), name>>
      dropped == \/ t.kind = "image_generation"
                 \/ t.kind = "tool_search" /\ \E n \in DOMAIN m.back : m.back[n].kind = "tool_search"
  IN IF dropped \/ ~m.ok THEN m
     ELSE IF key \in ToSet(m.tools) THEN Refused
     ELSE [m EXCEPT !.tools = Append(@, key),
                    !.names = (name :> name) @@ @,
                    !.back = IF name = <<>> THEN @ ELSE (name :> t) @@ @]

GrokTable(tools) == FoldLeft(NormalizeGrokTool, NoTable, tools)

-----------------------------------------------------------------------------
(* Antigravity: names are cleaned of what Gemini refuses; those that meet  *)
(* get a hash of the original name.  A local name stands for its tool      *)
(* unless something else has it.  The first declaration of a name is sent, *)
(* the last one is what the answer's calls are turned back into.  A        *)
(* namespace is searched for functions and custom tools only; outside of   *)
(* one, what is neither they nor the web search is refused.                *)

QualifyToolName(ns, name) ==
  IF \/ ns = <<>> \/ StartsWith(name, <<"mcp__">>)
     \/ name = ns \/ StartsWith(name, Append(ns, "__"))
  THEN name
  ELSE IF Last(ns) = "__" THEN ns \o name ELSE Append(ns, "__") \o name

SanitizeFunctionName(name) ==
  LET clean == [i \in DOMAIN name |-> IF name[i] = " " THEN "_" ELSE name[i]]
  IN Truncate(IF Head(clean) = "1" THEN <<"_">> \o clean ELSE clean, NameLimit)

BuildToolNameMap(originals) ==
  [n \in originals |->
     LET base == SanitizeFunctionName(n)
     IN IF \E other \in originals \ {n} : SanitizeFunctionName(other) = base
        THEN Append(Truncate(base, NameLimit - 1), "#" \o ToString(n))
        ELSE base]

ListsUnsupported(tools) ==
  \E t \in ToSet(tools) : t.ns = <<>> /\ t.kind \notin {"function", "custom", "web_search"}

AntigravityTable(tools) ==
  LET listed == SelectSeq(tools, LAMBDA t : t.kind \in {"function", "custom"})
      full(i) == QualifyToolName(listed[i].ns, listed[i].name)
      map == BuildToolNameMap({full(i) : i \in DOMAIN listed})
      aliased(n) == {i \in DOMAIN listed : listed[i].ns # <<>> /\ listed[i].name = n}
      locals == {listed[i].name : i \in {j \in DOMAIN listed : listed[j].ns # <<>>}}
                  \ DOMAIN map
      ups == {map[n] : n \in DOMAIN map}
      declared(up) == {i \in DOMAIN listed : map[full(i)] = up}
      first == {Min(declared(up)) : up \in ups}
  IN IF ListsUnsupported(tools) THEN Refused
     ELSE [ok |-> TRUE,
           names |-> map @@ [n \in locals |-> map[full(Min(aliased(n)))]],
           tools |-> [i \in 1..Cardinality(first) |->
                        <<"function", map[full(SetToSortSeq(first, <)[i])]>>],
           back |-> [up \in ups |-> listed[Max(declared(up))]]]

(* mapped_tool_name: the qualified name, the bare one, or the bare one     *)
(* cleaned when the request declares neither.                              *)
MappedToolName(names, ns, name) ==
  LET full == QualifyToolName(ns, name)
  IN IF ns # <<>> /\ full \in DOMAIN names THEN names[full]
     ELSE IF name \in DOMAIN names THEN names[name] ELSE SanitizeFunctionName(name)

-----------------------------------------------------------------------------
(* A forced tool choice.  Each is the upstream <<type, name>> the request  *)
(* insists on, or <<>> when the request is refused; for Antigravity it is  *)
(* a function calling config, the mode and the names it allows.            *)

ClaudeChoice(m, t) ==
  IF t.kind = "web_search" THEN <<"web_search", <<>>>> ELSE <<"function", m.names[t.name]>>

ChatChoice(m, t) ==
  LET name == ChatName(t.ns, NameOf(t))
      matches == /\ name \in DOMAIN m.back
                 /\ m.back[name].kind = t.kind
  IN IF matches THEN <<"function", name>> ELSE <<>>

GrokChoice(m, t) ==
  LET key == <<GrokType(t.kind), IF t.kind \in Hosted THEN <<>> ELSE GrokName(t.ns, NameOf(t))>>
  IN IF t.kind # "image_generation" /\ key \in ToSet(m.tools) THEN key ELSE <<>>

Config(mode, allowed) == [mode |-> mode, allowed |-> allowed]
AntigravityChoice(m, t) ==
  LET full == QualifyToolName(t.ns, t.name)
  IN IF t.kind \in Hosted \union Unnamed THEN Config("refused", {})
     ELSE Config("ANY", {IF full \in DOMAIN m.names THEN m.names[full]
                         ELSE SanitizeFunctionName(full)})
=============================================================================
