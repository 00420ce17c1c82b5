-------------------------- MODULE MCAccountCapacity --------------------------
(***************************************************************************)
(* Model values for AccountCapacity: five requests on an account with two  *)
(* running and two queued slots, so that one request is refused, two wait  *)
(* behind each other and permits are handed on.                            *)
(***************************************************************************)
EXTENDS AccountCapacity
=============================================================================
