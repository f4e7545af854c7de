---------------------------- MODULE MCNibePolling ---------------------------
(* Constants of NibePolling for TLC. *)
EXTENDS NibePolling, TLC

CONSTANTS t, u, x, y, i, k

\* Two requests for LOG.SET, two registers outside.
MCIdMap == {t, u, x, y}
MCLogSet == << {t}, {u} >>
MCNonLogSet == << x, y >>

\* i reads a register that is also read by turns, k writes to it.
MCJobs == {i, k}
MCJobRegister == [j \in MCJobs |-> x]
MCWrites == {k}
MCJobValue == [j \in MCJobs |-> 1]
MCVolatile == {u}

MCInitialDevices == {[r \in Registers |-> 0]}
=============================================================================
