--------------------------- MODULE ResponsesEvents ---------------------------
(***************************************************************************)
(* The vocabulary of a Responses event stream, shared by the drivers that  *)
(* produce one and the translators that consume one.                       *)
(*                                                                         *)
(* An event is a record: t its type, n the output_index of the item it is  *)
(* about, id that item's id, k the item's type, name the tool it calls,    *)
(* sig its signature or encrypted content ("" for none), val the text,     *)
(* arguments or input it carries, as a sequence of fragments, seq its      *)
(* sequence number (-1 for none), and, of a terminal event, out the items  *)
(* of the response, use its usage (0 for none) and why it is incomplete.   *)
(***************************************************************************)
EXTENDS Integers, SequencesExt

CONSTANTS CustomTools,      \* the upstream names of the client's custom tools
          NamespaceTools    \* upstream name -> the client's name, for namespaced tools

NoSeq == -1

Ev(t) == [t |-> t, n |-> 0, id |-> <<"", 0>>, k |-> "", name |-> "", sig |-> "",
          val |-> <<>>, seq |-> NoSeq, out |-> <<>>, use |-> 0, why |-> ""]

\* An item as output_item.done and the output of a terminal event carry it.
Item(k, n, name, sig, val) ==
  [k |-> k, n |-> n, id |-> <<k, n>>, name |-> name, sig |-> sig, val |-> val]

\* An event about an item: the item's fields, and what the event carries.
Of(t, item, val) ==
  [Ev(t) EXCEPT !.n = item.n, !.id = item.id, !.k = item.k, !.name = item.name,
                !.sig = item.sig, !.val = val]

ItemOf(ev) == [k |-> ev.k, n |-> ev.n, id |-> ev.id, name |-> ev.name,
               sig |-> ev.sig, val |-> ev.val]

Terminal(t, out, use, why) ==
  [Ev(t) EXCEPT !.out = out, !.use = use, !.why = why]

Terminals == {"completed", "done", "incomplete", "failed", "cancelled"}

\* What a stream yields: an event, or a marker for what is not an event.
\* "raw" is a frame whose data is no JSON; "fault" is an Err.
Fault == Ev("fault")
Raw == Ev("raw")

(***************************************************************************)
(* What a translator sends a client: e the event's name, i the index of    *)
(* its block or tool, k the kind of block or delta, v the fragments it     *)
(* carries, s a signature, tool name or stop reason. The start of a tool   *)
(* block carries the call's id, a message_delta the usage and the searches.*)
(***************************************************************************)
Client(e, i, k, v, s) == [e |-> e, i |-> i, k |-> k, v |-> v, s |-> s]

ClientFault == Client("fault", 0, "", <<>>, "")

\* Fragment j of item n is <<n, j>>; its call id counts as fragment 0.
CallId(n) == <<<<n, 0>>>>

\* The values of a map keyed by numbers, in key order.
InKeyOrder(map) ==
  LET keys == SetToSortSeq(DOMAIN map, <) IN [j \in 1..Len(keys) |-> map[keys[j]]]

Emit(c, e) == [c EXCEPT !.out = Append(@, e)]
==============================================================================
