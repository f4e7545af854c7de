---------------------------- MODULE MCEgoSerial ----------------------------
(* Constants of EgoSerial for TLC. *)
EXTENDS EgoSerial

\* The requests of doStartup(): no delay follows the third and the fourth one.
MCDelayed == { 1, 2, 5, 6 }
=============================================================================
