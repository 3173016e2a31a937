------------------------ MODULE SLAEvidenceRegistryV2 -----------------------
(***************************************************************************)
(* contracts/SLAEvidenceRegistryV2.sol: one claim anchored per call and    *)
(* kind, vouched for by an allowlisted key or accepted by a verifier       *)
(* contract, depending on how the owner has wired the kind at that moment. *)
(*                                                                         *)
(* Hashes are opaque values.  Whether a verifier contract accepts a proof  *)
(* is the environment's choice.                                            *)
(***************************************************************************)
EXTENDS Integers, FiniteSets

CONSTANTS
  ClaimCalls,      \* calls claims are about
  Kinds,           \* claim kinds
  Claims,          \* claim hashes
  Responses,       \* response hashes a claim may name
  SignatureKeys,   \* keys the owner may allow to vouch
  ProofVerifiers,  \* verifier contracts the owner may install
  EvidenceOwners,  \* addresses the owner role may be handed to
  Unset            \* the zero value of a hash, an address or an entry

ASSUME EvidenceAssumption ==
  /\ SignatureKeys \cap ProofVerifiers = {}
  /\ Unset \notin SignatureKeys \cup ProofVerifiers \cup Claims \cup Responses
  /\ EvidenceOwners # {}

VARIABLES
  evidenceOwner,      \* owner
  modeOf,
  signatureVerifier,  \* per kind, the set of allowed keys
  proofVerifier,
  bindsResponse,
  evidence            \* _evidence and _anchored: an entry, or NoEvidence

evidenceVars ==
  <<evidenceOwner, modeOf, signatureVerifier, proofVerifier, bindsResponse, evidence>>

NoEvidence == [claim |-> Unset, response |-> Unset, verifier |-> Unset]

EvidenceInit ==
  /\ evidenceOwner \in EvidenceOwners
  /\ modeOf = [k \in Kinds |-> "None"]
  /\ signatureVerifier = [k \in Kinds |-> {}]
  /\ proofVerifier = [k \in Kinds |-> Unset]
  /\ bindsResponse = [k \in Kinds |-> FALSE]
  /\ evidence = [c \in ClaimCalls |-> [k \in Kinds |-> NoEvidence]]

SetOwner(newOwner) ==
  /\ evidenceOwner' = newOwner
  /\ UNCHANGED <<modeOf, signatureVerifier, proofVerifier, bindsResponse, evidence>>

AllowSigner(k, key) ==
  /\ modeOf' = [modeOf EXCEPT ![k] = "Signature"]
  /\ signatureVerifier' = [signatureVerifier EXCEPT ![k] = @ \cup {key}]
  /\ bindsResponse' = [bindsResponse EXCEPT ![k] = TRUE]
  /\ UNCHANGED <<evidenceOwner, proofVerifier, evidence>>

\* Mutant: revoking stamps the flag, as the comment in the source warns.
RevokeSigner_StampsFlag(k, key) ==
  /\ signatureVerifier' = [signatureVerifier EXCEPT ![k] = @ \ {key}]
  /\ bindsResponse' = [bindsResponse EXCEPT ![k] = TRUE]
  /\ UNCHANGED <<evidenceOwner, modeOf, proofVerifier, evidence>>

(* Revoking leaves the mode and the flag as they are.                      *)
RevokeSigner(k, key) ==
  /\ signatureVerifier' = [signatureVerifier EXCEPT ![k] = @ \ {key}]
  /\ UNCHANGED <<evidenceOwner, modeOf, proofVerifier, bindsResponse, evidence>>

SetProofVerifier(k, verifier, binds) ==
  /\ modeOf' = [modeOf EXCEPT ![k] = "Proof"]
  /\ proofVerifier' = [proofVerifier EXCEPT ![k] = verifier]
  /\ bindsResponse' = [bindsResponse EXCEPT ![k] = binds]
  /\ UNCHANGED <<evidenceOwner, signatureVerifier, evidence>>

Anchored(c, k) == evidence[c][k] # NoEvidence

(* Anyone may anchor: who vouches depends on the mode.                     *)
Vouchers(k) ==
  IF modeOf[k] = "Signature" THEN signatureVerifier[k] ELSE {proofVerifier[k]}

\* Mutant: a later claim replaces the first one.
Anchor_Replaces(c, k, claim, response, verifier) ==
  /\ modeOf[k] # "None"
  /\ verifier \in Vouchers(k)
  /\ evidence' = [evidence EXCEPT ![c][k] =
       [claim |-> claim, response |-> response, verifier |-> verifier]]
  /\ UNCHANGED <<evidenceOwner, modeOf, signatureVerifier, proofVerifier, bindsResponse>>

Anchor(c, k, claim, response, verifier) ==
  /\ ~Anchored(c, k)
  /\ modeOf[k] # "None"
  /\ verifier \in Vouchers(k)
  /\ evidence' = [evidence EXCEPT ![c][k] =
       [claim |-> claim, response |-> response, verifier |-> verifier]]
  /\ UNCHANGED <<evidenceOwner, modeOf, signatureVerifier, proofVerifier, bindsResponse>>

WiringStep ==
  \/ \E o \in EvidenceOwners : SetOwner(o)
  \/ \E k \in Kinds :
       \/ \E key \in SignatureKeys : AllowSigner(k, key) \/ RevokeSigner(k, key)
       \/ \E v \in ProofVerifiers, binds \in BOOLEAN : SetProofVerifier(k, v, binds)

AnchorStep ==
  \E c \in ClaimCalls, k \in Kinds, claim \in Claims, response \in Responses :
    \E verifier \in Vouchers(k) : Anchor(c, k, claim, response, verifier)

EvidenceStep == WiringStep \/ AnchorStep

EvidenceSpec == EvidenceInit /\ [][EvidenceStep]_evidenceVars

-----------------------------------------------------------------------------
(* The wiring of a kind never drifts apart: a kind in signature mode binds *)
(* the response, and a kind in proof mode has a verifier contract and      *)
(* keeps the flag recorded with it until it is wired again, whatever keys  *)
(* are revoked meanwhile.                                                  *)
FlagFollowsWiring ==
  /\ [](\A k \in Kinds :
          /\ modeOf[k] = "Signature" => bindsResponse[k]
          /\ modeOf[k] = "Proof" => proofVerifier[k] # Unset
          /\ modeOf[k] = "None" => ~bindsResponse[k])
  /\ [][\A k \in Kinds : \A key \in signatureVerifier[k] \ signatureVerifier'[k] :
          bindsResponse'[k] = bindsResponse[k]]_evidenceVars
=============================================================================
