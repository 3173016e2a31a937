------------------------------ MODULE MCEscrowV8 ----------------------------
(***************************************************************************)
(* Instances for TLC of PayPerCallV8 with the two contracts built on it,   *)
(* SLAKeeper and SLAUptime.  A behaviour plays in one setting, which bounds *)
(* who takes part; the settings share everything else.                     *)
(*                                                                         *)
(* The stake of 80 gives a first bounty of 2 and a second one of 1, so     *)
(* bounties differ inside a batch.                                         *)
(***************************************************************************)
EXTENDS SLAKeeper, SLAUptime

CONSTANTS caller1, caller2, dispute

VARIABLE setting

Promised  == [maxResponseTime |-> 1, slashBps |-> 5000, availabilityTargetBps |-> 9950]
Abandoned == [maxResponseTime |-> 1, slashBps |-> 5000, availabilityTargetBps |-> 0]

OneTerms == {Promised}
TwoTerms == {Promised, Abandoned}
NoAuthorizations == {}
Signed == {[from |-> caller1, value |-> 20, validAfter |-> 1, validBefore |-> 2, nonce |-> 1]}

systemVars == <<keeperVars, uptimeVars, setting>>

(* "plain": callers, a keeper and a dispute contract that slashes.         *)
(* "batch": one caller, two keepers and calls opened for SLAKeeper itself. *)
(* "uptime": one caller and one keeper, SLAUptime the only slasher.        *)
InSetting ==
  /\ setting = "plain" =>
       /\ SLAUptimeAddress \notin authorizedSlashers
       /\ \A c \in CallIds : calls[c].caller # SLAKeeperAddress
       /\ \A p \in Providers : Registered(p) => providers[p].cap # 0
  /\ setting = "batch" =>
       /\ authorizedSlashers = {}
       /\ usedAuthorizations = {}
       /\ \A c \in CallIds : calls[c].caller # caller2
       /\ \A p \in Providers : providers[p].cap = 0
  /\ setting = "uptime" =>
       /\ dispute \notin authorizedSlashers
       /\ usedAuthorizations = {}
       /\ \A c \in CallIds : calls[c].caller \in {caller1, NoAddress}
       /\ \A p \in Providers : providers[p].cap = 0 /\ providers[p].stake <= MinStake

SystemInit ==
  /\ KeeperInit /\ UptimeInit
  /\ setting \in {"plain", "batch", "uptime"}
  /\ setting # "uptime" => uptimeConfig.minSamples = 1

SystemNext ==
  /\ \/ SettlementStep /\ UNCHANGED <<bountyClaimable, uptimeVars>>
     \/ setting = "batch" /\ KeeperStep /\ UNCHANGED uptimeVars
     \/ setting = "uptime" /\ UptimeStep /\ UNCHANGED bountyClaimable
  /\ UNCHANGED setting
  /\ InSetting'

SystemSpec == SystemInit /\ [][SystemNext]_systemVars
=============================================================================
