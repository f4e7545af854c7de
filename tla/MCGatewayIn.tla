---------------------------- MODULE MCGatewayIn ----------------------------
(* Constants of GatewayIn for TLC. *)
EXTENDS GatewayIn

\* The lines :0103FC and :AB06004F as FrameOf writes them.
ShortLine == << 58, 48, 49, 48, 51, 70, 67, 13, 10 >>
LongLine ==
  << 58, 65, 66, 48, 54, 48, 48, 52, 70, 13, 10 >>
ASSUME LinesAreFrames ==
  ShortLine = FrameOf(<<1, 3>>) /\ LongLine = FrameOf(<<171, 6, 0>>)

MCLines == << ShortLine, LongLine >>

\* A digit, the first and the last two characters of a line, another character.
MCGarble == { 48, Colon, CR, LF, 255 }

AllFaults == FaultKinds

\* A line of them cannot be cut into one with a right LRC, and both fit into the ring.
ASSUME LinesAreWhole == OneFault /\ LinesFit /\ NoShortFrame
=============================================================================
