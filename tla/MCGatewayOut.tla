--------------------------- MODULE MCGatewayOut ---------------------------
(* Constants of GatewayOut for TLC. *)
EXTENDS GatewayOut

MCPayloads == << <<1, 3>>, <<1, 255>> >>
MCGarble == { 0, 58, 255 }

AllFaults == FaultKinds
BadByteOnly == { "badByte" }
=============================================================================
