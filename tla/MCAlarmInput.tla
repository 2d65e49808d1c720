---------------------------- MODULE MCAlarmInput -----------------------------
(* AlarmInput with a few inputs and a short waiting time. *)
EXTENDS AlarmInput
=============================================================================
