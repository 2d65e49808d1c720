---------------------------- MODULE MCAlarmClient ----------------------------
(* AlarmClient for TLC. *)
EXTENDS AlarmClient

CONSTANTS n1, l1, e, f1, f2

\* Every name has an address of its own; the address of the empty name stands
\* for the server_ip that a configuration without a name carries.
MCAddr == [n \in {n1, l1, e} |-> CASE n = n1 -> "a1" [] n = l1 -> "a2" [] OTHER -> "a0"]

=============================================================================
