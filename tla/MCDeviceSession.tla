---------------------------- MODULE MCDeviceSession ----------------------------
(***************************************************************************)
(* Values of the constants of DeviceSession for TLC.                       *)
(***************************************************************************)
EXTENDS DeviceSession

\* Enough identities that a new transport is always at hand: four may be
\* referred to (LinkAssumption).
MCConnections == 1 .. 5
=============================================================================
