------------------------------ MODULE MCRouting ------------------------------
(***************************************************************************)
(* A small instance of Routing: account 1 is a Codex account, 2 a          *)
(* stateless one whose response ids are observed, 3 an OpenAI-compatible   *)
(* relay that does not list the model.                                     *)
(***************************************************************************)
EXTENDS Routing

MCPriority == [a \in Accounts |-> 0]
MCAllowed == [s \in Scopes |-> Accounts]
MCCooldown == [reason \in CooldownReasons |-> 1]

\* Sessions while accounts change and while time passes, and response ids likewise.
MCMenu ==
  {[changes |-> 1, touched |-> {1, 2}, time |-> 0, sessions |-> Sessions, ids |-> {}, retryAfter |-> {}],
   [changes |-> 0, touched |-> {}, time |-> 1, sessions |-> Sessions, ids |-> {}, retryAfter |-> {2}],
   [changes |-> 1, touched |-> {1}, time |-> 0, sessions |-> {}, ids |-> {"i1"}, retryAfter |-> {}],
   [changes |-> 0, touched |-> {}, time |-> 1, sessions |-> {}, ids |-> ResponseIds, retryAfter |-> {}]}
==============================================================================
