----------------------------- MODULE MCHeatPump -----------------------------
(* Constants of HeatPump for TLC. *)
EXTENDS HeatPump

\* main() starts with "off"; the class takes every state.
MCStartStates == States
=============================================================================
