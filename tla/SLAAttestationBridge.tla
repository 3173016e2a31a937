------------------------ MODULE SLAAttestationBridge ------------------------
(***************************************************************************)
(* contracts/SLAAttestationBridge.sol: what CallGuard attests to other     *)
(* protocols.  Anyone may have a settled call attested, once, and take a   *)
(* snapshot of a provider's record as often as the rate limit allows.  An  *)
(* attestation is never written again, although the escrow and the         *)
(* registry it was read from move on.  The score is a function of the two  *)
(* counters of a snapshot and is left out; a block is a unit of time.      *)
(***************************************************************************)
EXTENDS PayPerCall, Sequences

CONSTANTS
  Requesters,       \* accounts that ask for attestations
  RateLimits,       \* values of rateLimitBlocks
  DefaultRateLimit,
  FirstBlock,       \* block.number when the clock starts
  MaxAttestations   \* bound: attestations issued

ASSUME AttestationAssumption ==
  /\ Requesters \subseteq Accounts
  /\ RateLimits \subseteq 0..FirstBlock /\ DefaultRateLimit \in 0..FirstBlock
  /\ FirstBlock \in Nat /\ MaxAttestations \in Nat

VARIABLES
  attestations,               \* _attestations, in the order they were issued
  callAttestation,            \* per call: its place in attestations, 0 for none
  latestProviderAttestation,
  latestBatchAttestation,
  lastRequestBlock,           \* zero for an account that never asked
  rateLimitBlocks

attestationVars == <<attestations, callAttestation, latestProviderAttestation,
                     latestBatchAttestation, lastRequestBlock, rateLimitBlocks>>

AttestationInit ==
  /\ attestations = <<>>
  /\ callAttestation = [c \in CallIds |-> 0]
  /\ latestProviderAttestation = [p \in Providers |-> 0]
  /\ latestBatchAttestation = [p \in Providers |-> 0]
  /\ lastRequestBlock = [a \in Requesters |-> 0]
  /\ rateLimitBlocks = DefaultRateLimit

Block == FirstBlock + now

EnforceRateLimit(a) ==
  /\ Block >= lastRequestBlock[a] + rateLimitBlocks
  /\ lastRequestBlock' = [lastRequestBlock EXCEPT ![a] = Block]

(* An attestation is told apart by its place in the sequence; its id hashes *)
(* that place among other things.                                          *)
Issue(type, c, p, verdict) ==
  /\ Len(attestations) < MaxAttestations
  /\ attestations' = Append(attestations,
       [type |-> type, call |-> c, provider |-> p, verdict |-> verdict,
        completedCalls |-> providers[p].completedCalls,
        slashedCalls |-> providers[p].slashedCalls])

\* Mutant: a call that is still open can be attested.
Finalized_Opened(c) == calls[c].status # "None"

Finalized(c) == calls[c].status \in {"Completed", "Slashed"}

VerdictOf(c) == IF calls[c].status = "Completed" THEN "HONORED" ELSE "VIOLATED"

(* A second request returns the first attestation, and counts against the  *)
(* requester's rate all the same.                                          *)
AttestCall(a, c) ==
  /\ EnforceRateLimit(a)
  /\ IF callAttestation[c] # 0 THEN UNCHANGED <<attestations, callAttestation>>
     ELSE /\ Finalized(c)
          /\ Issue("CALL_RECEIPT", c, calls[c].provider, VerdictOf(c))
          /\ callAttestation' = [callAttestation EXCEPT ![c] = Len(attestations')]
  /\ UNCHANGED <<registryVars, callVars, latestProviderAttestation, latestBatchAttestation,
                 rateLimitBlocks>>

AttestProviderScore(a, p) ==
  /\ EnforceRateLimit(a)
  /\ Registered(p)
  /\ Issue("PROVIDER_SCORE", 0, p, "UNKNOWN")
  /\ latestProviderAttestation' =
       [latestProviderAttestation EXCEPT ![p] = Len(attestations')]
  /\ UNCHANGED <<registryVars, callVars, callAttestation, latestBatchAttestation,
                 rateLimitBlocks>>

AttestBatchSummary(a, p) ==
  /\ EnforceRateLimit(a)
  /\ Registered(p)
  /\ Issue("BATCH_SUMMARY", 0, p, "UNKNOWN")
  /\ latestBatchAttestation' = [latestBatchAttestation EXCEPT ![p] = Len(attestations')]
  /\ UNCHANGED <<registryVars, callVars, callAttestation, latestProviderAttestation,
                 rateLimitBlocks>>

SetRateLimitBlocks(blocks) ==
  /\ rateLimitBlocks' = blocks
  /\ UNCHANGED <<registryVars, callVars, attestations, callAttestation,
                 latestProviderAttestation, latestBatchAttestation, lastRequestBlock>>

AttestationStep ==
  \/ \E a \in Requesters :
       \/ \E c \in CallIds : AttestCall(a, c)
       \/ \E p \in Providers : AttestProviderScore(a, p) \/ AttestBatchSummary(a, p)
  \/ \E blocks \in RateLimits : SetRateLimitBlocks(blocks)

-----------------------------------------------------------------------------
(* Another protocol can act on an attestation long after it was issued.  A *)
(* call has one at most, and what it says is still the call's outcome; the *)
(* snapshot in it counts that call and every one attested before it, and   *)
(* later snapshots of a provider never count less than earlier ones, nor   *)
(* more than there are by now.                                             *)
AttestationsStandUp ==
  LET Receipts == {i \in DOMAIN attestations : attestations[i].type = "CALL_RECEIPT"}
      UpTo(i, verdict) == {j \in Receipts : /\ j <= i
                                            /\ attestations[j].provider = attestations[i].provider
                                            /\ attestations[j].verdict = verdict}
  IN
  /\ \A i \in Receipts :
       LET a == attestations[i] IN
       /\ callAttestation[a.call] = i
       /\ a.verdict = "HONORED" <=> calls[a.call].status = "Completed"
       /\ a.verdict = "VIOLATED" <=> calls[a.call].status = "Slashed"
       /\ a.completedCalls >= Cardinality(UpTo(i, "HONORED"))
       /\ a.slashedCalls >= Cardinality(UpTo(i, "VIOLATED"))
  /\ \A i, j \in DOMAIN attestations :
       i <= j /\ attestations[i].provider = attestations[j].provider =>
         /\ attestations[i].completedCalls <= attestations[j].completedCalls
         /\ attestations[i].slashedCalls <= attestations[j].slashedCalls
  /\ \A i \in DOMAIN attestations :
       LET p == attestations[i].provider IN
       /\ attestations[i].completedCalls <= providers[p].completedCalls
       /\ attestations[i].slashedCalls <= providers[p].slashedCalls
=============================================================================
