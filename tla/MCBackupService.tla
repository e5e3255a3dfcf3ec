-------------------------- MODULE MCBackupService --------------------------
(* Instances of BackupService for TLC: what may go wrong in each run. *)
EXTENDS BackupService

NoHazard      == {}
CoreHazards   == {"spawn_fail", "exec_fail", "vanish", "stop"}
EveryHazard   == Hazards
OnlyReinit    == {"reinit"}
OnlyExecFail  == {"exec_fail"}
OnlyStop      == {"stop"}
=============================================================================
