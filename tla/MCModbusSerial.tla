--------------------------- MODULE MCModbusSerial ---------------------------
(* Constants of ModbusSerial for TLC. *)
EXTENDS ModbusSerial, TLC

CONSTANTS a, b, c

MCRequests == {a, b, c}

\* Every request has bytes of its own.
MCDistinct == [r \in MCRequests |-> r]

\* All read the same register, so the requests are interchangeable.
MCSame == [r \in MCRequests |-> "x"]
Symmetry == Permutations(MCRequests)

NoFaults == {}
LateOrSplit == {"slowLine", "splitFrames", "portErrors"}
Noise == {"noise", "portErrors"}
=============================================================================
