----------------------------- MODULE MCManagement -----------------------------
(***************************************************************************)
(* Management for TLC: two handlers, one model, two configurations.        *)
(***************************************************************************)
EXTENDS Management

CONSTANTS h1, h2, m1, c1, c2

MCHandlers == {h1, h2}
MCModels == {m1}
MCConfigs == {c1, c2}

Edits == {"update", "both", "replace", "enable", "disable", "refresh", "delete", "model", "sweep"}
EditMenu ==
  [operations |-> Edits, starts |-> 2, revision |-> 1, seen |-> 0, time |-> 0, restarts |-> 1]
QuotaMenu ==
  [operations |-> {"quota", "list", "replace", "disable"}, starts |-> 3, revision |-> 1,
   seen |-> 1, time |-> 1, restarts |-> 0]
LoginMenu ==
  [operations |-> {"login", "create", "delete", "replace", "disable"}, starts |-> 2,
   revision |-> 1, seen |-> 0, time |-> 0, restarts |-> 1]
MCMenus == {EditMenu, QuotaMenu, LoginMenu}
===============================================================================
