--------------------------- MODULE MCConversation ---------------------------
(* Small instance: names of at most three tokens; Claude tools that meet   *)
(* when cut, Chat tools that meet when cleaned, Responses tools in and out *)
(* of a namespace, custom tools, a tool search and a hosted web search.    *)
(* With one plain tool the conversation is longer: two answers that give   *)
(* words or calls, and the request after them.                             *)
EXTENDS Conversation

F(name) == Tool("function", <<>>, name)
Search == Tool("web_search", <<>>, <<>>)

MCToolLists ==
  [claude |-> {<<F(<<"a", "b", "c", "d">>), F(<<"a", "b", "c", "e">>)>>, <<F(<<"a">>), [Search EXCEPT !.name = <<"web_search">>]>>,
              <<F(<<"a">>)>>},
   chat |-> {<<F(<<"1", " ">>), F(<<"1", "_">>)>>},
   responses |-> {<<F(<<"x">>), Tool("function", <<"n">>, <<"x">>)>>,
                  <<Tool("custom", <<"n", "__">>, <<"y">>), F(<<"mcp__">>), Search>>,
                  <<F(<<"n", "__", "x">>), Tool("function", <<"n">>, <<"x">>)>>},
   lite |-> {<<Tool("custom", <<>>, <<"y">>), Tool("custom", <<"n">>, <<"y">>)>>,
             <<F(<<"x">>), Tool("tool_search", <<>>, <<>>), Tool("local_shell", <<>>, <<>>)>>}]
MCMaxParts(ts) == IF Len(ts) = 1 THEN 6 ELSE 5
=============================================================================
