-------------------------- MODULE MCDisputeSettings ------------------------
(***************************************************************************)
(* One instance of DisputeV4 for TLC whose behaviours play in one of four  *)
(* settings; a setting bounds what takes part, and nothing else.           *)
(***************************************************************************)
EXTENDS MCDisputeV4

CONSTANT uptime

VARIABLE setting

OneCall == nonce <= 1
NoEvidenceWired == \A k \in Kinds : modeOf[k] = "None" /\ k \notin evidenceKinds
OnlyV4 == LegacyDisputes \cap authorizedSlashers = {} /\
          \A d \in LegacyDisputes, c \in CallIds : ~Disputed(d, c)

(* "money": two calls against one stake, no evidence, V4 keeps its right   *)
(* to slash.                                                               *)
(* "evidence": one call, one second, the evidence registry wired and       *)
(* rewired, disputes of V4 only, none of them appealed.                    *)
(* "slashed": one call, another contract slashing the same stake.          *)
(* "migration": one call, DisputeV3 and DisputeV4 side by side.            *)
InSetting ==
  /\ setting # "slashed" => uptime \notin authorizedSlashers
  /\ setting = "money" =>
       NoEvidenceWired /\ OnlyV4 /\ (nonce > 0 => Dispute \in authorizedSlashers)
  /\ setting = "evidence" =>
       /\ OneCall /\ OnlyV4 /\ now <= 1
       /\ nonce > 0 => Dispute \in authorizedSlashers
       /\ disputes[Dispute][0].status # "Appealed"
       /\ \A k \in Kinds : ~Anchored(1, k)
  /\ setting = "slashed" =>
       /\ OneCall /\ NoEvidenceWired /\ OnlyV4
       /\ nonce > 0 => Dispute \in authorizedSlashers
  /\ setting = "migration" => OneCall /\ NoEvidenceWired

SettingInit == DisputeSystemInit /\ setting \in {"money", "evidence", "slashed", "migration"}

SettingNext == DisputeNext /\ RunbookFollowed /\ UNCHANGED setting /\ InSetting'

SettingSpec == SettingInit /\ [][SettingNext]_<<allVars, setting>>
=============================================================================
