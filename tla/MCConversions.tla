--------------------------- MODULE MCConversions ---------------------------
(* Constants of Conversions for TLC. *)
EXTENDS Conversions

\* Both digits below and above 9, both signs, the bytes that wrap a sum.
MCBytes == { 0, 1, 9, 58, 127, 128, 171, 255 }
=============================================================================
