---------------------------- MODULE MCCallService ---------------------------
(***************************************************************************)
(* Instances of CallService for TLC.                                       *)
(***************************************************************************)
EXTENDS CallService

CONSTANTS a1, a2, i1, i2, k1

Plain == [auth |-> a1, intent |-> i1, key |-> NoKey, signed |-> TRUE]
Keyed == [Plain EXCEPT !.key = k1]

(* A payment, the same authorization with another intent or without a      *)
(* valid signature, and the same key with another authorization.           *)
Retries == {Keyed, [Keyed EXCEPT !.auth = a2], [Plain EXCEPT !.intent = i2],
            [Plain EXCEPT !.signed = FALSE]}

TwoPayments == {Plain, [Plain EXCEPT !.auth = a2]}

KeysFirst == <<k1, a1, a2>>
PaymentsOnly == <<a1, a2>>
=============================================================================
