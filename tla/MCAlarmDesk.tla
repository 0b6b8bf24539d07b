----------------------------- MODULE MCAlarmDesk -----------------------------
(* AlarmDesk with its small bounds given in AlarmDesk.cfg. *)
EXTENDS AlarmDesk
=============================================================================
