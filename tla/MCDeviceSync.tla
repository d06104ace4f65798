---------------------------- MODULE MCDeviceSync ----------------------------
(* DeviceSync for TLC: two identities, two request slots, three events.      *)
EXTENDS DeviceSync

\* The clock is set back after the first event and catches up later.
Readings == <<2, 1, 3>>
=============================================================================
