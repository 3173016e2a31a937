--------------------------- MODULE MCCallSettings ---------------------------
(***************************************************************************)
(* The paid call API as it runs, and the records it is to move to.  The    *)
(* two share no state yet, so a behaviour plays in one setting: "service"  *)
(* is CallService with the store it has, "records" is OperationRecords.    *)
(* There one record at a time is written, next to a version-1 record.      *)
(***************************************************************************)
EXTENDS MCCallService, OperationRecords

VARIABLE setting

settingsVars == <<callServiceVars, recordsVars, setting>>

Written == {id \in Ids \ LegacyOperations :
              Stored(id) \/ \E write \in writes : write.id = id}

InSetting ==
  /\ Cardinality(Written) <= 1
  /\ Written # {} => \A id \in LegacyOperations : records[id].state = "confirmed"

SettingsInit ==
  /\ CallServiceInit /\ RecordsInit
  /\ setting \in {"service", "records"}
  /\ setting = "service" => \A id \in LegacyOperations : records[id].state = "confirmed"

SettingsNext ==
  /\ \/ setting = "service" /\ CallServiceNext /\ UNCHANGED recordsVars
     \/ setting = "records" /\ RecordsNext /\ UNCHANGED callServiceVars
  /\ UNCHANGED setting
  /\ InSetting'

SettingsSpec == SettingsInit /\ [][SettingsNext]_settingsVars

Symmetry == Permutations(Requests) \cup Permutations(Workers)
=============================================================================
