--------------------------- MODULE MCPaymentFlows ---------------------------
(* Small instances of PaymentFlows: two handlers, two or three transactions *)
(* in flight, and at most two of a reload, a storage fault and its recovery.*)
EXTENDS PaymentFlows, TLC

MCHashes == 1 .. 3
(* The bound on what befalls a tab: a reload and a fault, or a fault that   *)
(* goes away again; never all three, nor one kind of fault after another.   *)
Disturbances ==
  /\ budget'.reloads + budget'.faults >= 1
  /\ health = "ok" \/ health' \in {health, "ok"}

Symmetry == Permutations(Slots)
=============================================================================
