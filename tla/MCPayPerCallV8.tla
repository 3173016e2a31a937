---------------------------- MODULE MCPayPerCallV8 --------------------------
(***************************************************************************)
(* Instances of PayPerCallV8 for TLC.  Amounts are chosen so that a slash  *)
(* is large enough to carry a bounty (5%), the first one above the cap on  *)
(* bounties, and so that two slashes of half the stake leave less than the *)
(* price of a call.                                                        *)
(***************************************************************************)
EXTENDS PayPerCallV8

CONSTANTS caller1, caller2

Half    == [maxResponseTime |-> 1, slashBps |-> 5000, availabilityTargetBps |-> 0]
All     == [maxResponseTime |-> 2, slashBps |-> 10000, availabilityTargetBps |-> 0]
Nothing == [maxResponseTime |-> 1, slashBps |-> 0, availabilityTargetBps |-> 0]

HalfTerms == {Half}
FreeTerms == {All, Nothing}

NoAuthorizations == {}
Signed == {[from |-> caller1, value |-> 20, validAfter |-> 1, validBefore |-> 2, nonce |-> 1]}
=============================================================================
