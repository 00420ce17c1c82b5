-------------------------------- MODULE Relay --------------------------------
(***************************************************************************)
(* What the proxy promises of one streamed answer, whichever provider      *)
(* gives it and whichever protocol the client speaks: the client receives  *)
(* the fragments of every part of the answer in order, each once; it is    *)
(* told that the answer is complete only after the last of them; an answer *)
(* that ends otherwise is told failed, or the client left. A part may      *)
(* overtake another: the input of a custom tool is held back until whole.  *)
(***************************************************************************)
EXTENDS SequencesExt

VARIABLES answer,   \* part -> the fragments the client is owed
          got,      \* part -> the fragments it received
          status    \* "open", "complete", "failed" or "gone"

relay == <<answer, got, status>>

RelayInit == got = [part \in DOMAIN answer |-> <<>>] /\ status = "open"

Forward == /\ status = "open"
           /\ \A part \in DOMAIN answer : /\ IsPrefix(got[part], got'[part])
                                          /\ IsPrefix(got'[part], answer[part])
           /\ UNCHANGED <<answer, status>>

CompleteAnswer == /\ status = "open"
                  /\ got = answer
                  /\ status' = "complete"
                  /\ UNCHANGED <<answer, got>>

\* An answer may be told failed while it is open, or its client may leave.
Break == /\ status = "open"
         /\ status' \in {"failed", "gone"}
         /\ UNCHANGED <<answer, got>>

RelayNext == Forward \/ CompleteAnswer \/ Break

RelaySpec == RelayInit /\ [][RelayNext]_relay
==============================================================================
