------------------------- MODULE MCResponsePipeline -------------------------
(* Instances of ResponsePipeline for TLC. *)
EXTENDS ResponsePipeline

MCCustomTools == {"c"}
MCNamespaceTools == "ns_g" :> "g"
MCToolTargets == "f" :> "function" @@ "c" :> "custom"

MCRoutes ==
  {<<p, c, m>> : p \in {"codex", "grok"}, c \in {"claude", "chat", "responses"}, m \in {FALSE}}
    \union {<<"antigravity", c, m>> : c \in {"claude", "chat", "responses"}, m \in BOOLEAN}
    \union {<<"chat", "responses", FALSE>>}

MCParts == {"reasoning", "thinking", "message", "call", "custom", "search", "quiet", "longid",
            "nscall"}

\* At most one message comes unstreamed, and only where no text is streamed.
MCTexts(a) == SelectSeq(a, LAMBDA p : p \in {"quiet", "message"})
MCTwoParts == {a \in BoundedSeq(MCParts, 2) : Len(MCTexts(a)) = 2 => MCTexts(a)[1] = MCTexts(a)[2]
                                                                  /\ MCTexts(a)[1] = "message"}
MCThreeParts == {<<"reasoning", "call", "call">>, <<"thinking", "quiet", "call">>,
                 <<"message", "reasoning", "message">>, <<"reasoning", "message", "custom">>,
                 <<"reasoning", "search", "message">>}

\* Every answer completes; the shorter ones also end in every other way.
MCAnswers ==
  ((MCTwoParts \union MCThreeParts) \X {"completed"})
    \union (({a \in MCTwoParts : Len(a) < 2} \union {<<"message", "custom">>})
              \X {"bare", "limit", "failed", "status", "none"})

\* For liveness: the drivers with an idle timer, whatever the client speaks.
MCIdleRoutes == {r \in MCRoutes : r[1] \in {"grok", "antigravity"}}
MCIdleAnswers == {<<<<>>, "none">>, <<<<"reasoning">>, "completed">>, <<<<"message">>, "limit">>,
                  <<<<"call">>, "bare">>}

MCFaults == {"fault", "eof", "oversize", "raw", "tail"}
==============================================================================
