---------------------------- MODULE MCGrokReplay ----------------------------
(* Small instances: a named session and none, of one API key or of two,    *)
(* whose clients speak one protocol or several.                            *)
EXTENDS GrokReplay

Symmetry == Permutations(ResponseIds)

Unnamed == [session |-> "", cache |-> "", thread |-> "", grok |-> "", client |-> "", claude |-> ""]
MCHeaderSets == {Unnamed, [Unnamed EXCEPT !.session = "s"], [Unnamed EXCEPT !.cache = "s", !.claude = "s"]}
MCCallIds == <<"c1", "c2">>
Protocols == {"responses", "chat", "claude"}
MCMenu == {[keys |-> Keys, protocols |-> Protocols, turns |-> 2, entries |-> 1],
           [keys |-> Keys, protocols |-> {"chat", "claude"}, turns |-> 2, entries |-> 2],
           [keys |-> {"k1"}, protocols |-> {"responses"}, turns |-> 3, entries |-> 2]}
=============================================================================
