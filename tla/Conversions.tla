---------------------------- MODULE Conversions ----------------------------
(***************************************************************************)
(* The checksums and the text of a frame, and the register values in it,   *)
(* checked over all messages of a bounded length: every behaviour composes *)
(* one message byte by byte.                                               *)
(***************************************************************************)
EXTENDS AsciiFrame, ModbusCrc, RegisterValues

CONSTANTS
  Bytes,      \* the bytes of a message
  MaxLength   \* bound: the length of a message

ASSUME MessageAssumption == Bytes \subseteq Byte /\ MaxLength \in Nat

VARIABLE message

Init == message = <<>>
Add == Len(message) < MaxLength /\ \E b \in Bytes : message' = Append(message, b)
Spec == Init /\ [][Add]_message

-----------------------------------------------------------------------------
CrcOf(bytes) == FoldLeft(app_updateModbusCrc, CrcStart, bytes)
Rtu(bytes) == bytes \o CrcBytes(CrcOf(bytes))
Changed(s, i, x) == [s EXCEPT ![i] = x]

\* The server reads from a line it wrote the bytes it wrote, and never takes a line
\* with one wrong digit for a good one (class ModbusAsciiFrame). The line of the
\* older server is the same one, or, when the LRC is 0, no frame at all.
LineIsSafe ==
  Len(message) >= 2 =>
    LET line == FrameOf(message)
    IN  /\ Legal(line) /\ BufferOf(line) = message /\ LrcOk(line)
        /\ \A i \in 2 .. Len(line) - 2, d \in Digits :
             d # line[i] => ~LrcOk(Changed(line, i, d))
        /\ (EgoFrameOf(message) = line) = Legal(EgoFrameOf(message))

\* app_handleUart1Timeout() takes a crc of 0 for a good frame: the CRC over a
\* frame with the CRC that app_handleUart0Byte() appends is 0 for every message,
\* and it is not 0 when one byte of the frame is another one.
CrcIsSafe ==
  Len(message) <= 3 =>
    LET frame == Rtu(message)
    IN  /\ CrcOf(frame) = {}
        /\ \A i \in DOMAIN frame, b \in Bytes :
             b # frame[i] => CrcOf(Changed(frame, i, b)) # {}

-----------------------------------------------------------------------------
(* Register values: two bytes of the message are the number a caller asks   *)
(* for, in tenths, or a word that is written; two or four are what the heat  *)
(* pump answers.                                                            *)

\* What the heat pump answers once raw has been written to a register.
ReadBack(reg, raw) == Answer(Kept(WriteRegisterNow(SomeId, raw, SizeOf(reg))))
Accepted(reg, raw) == WriteRegisterNow(SomeId, raw, SizeOf(reg)) # Refused

\* The range the register table names in the help or the description of a register.
\* That of dmStartHeating, -1000 .. -30, is left out: its write method allows +30.
Ranges ==
  [heatCurveS1 |-> << 0, 15 >>, heatOffsetS1 |-> << -10, 10 >>, supplyMinS1 |-> << 5, 70 >>,
   supplyMaxS1 |-> << 5, 80 >>, addHeatingMaxPower |-> << 0, 6000 >>,
   addHeatingFuse |-> << 0, 400 >>, stopTempHeating |-> << -20, 40 >>,
   stopTempAddHeating |-> << -25, 40 >>, cutOffFrequStart1 |-> << 17, 115 >>,
   cutOffFrequStart2 |-> << 17, 115 >>, cutOffFrequStop1 |-> << 22, 120 >>,
   cutOffFrequStop2 |-> << 22, 120 >>]
Documented ==
  [r \in CurvePoints \cup DOMAIN Ranges |-> IF r \in CurvePoints THEN << 5, 80 >> ELSE Ranges[r]]

\* What a caller writes to a register is what a caller reads there: a number, less
\* than one step of the register away from the one asked for and inside the range
\* the register table documents; a mode, under the name the web page shows. Only
\* -1 in a signed word is refused, because its bits are 0xffff, and a negative
\* regMaxSupplyDiff (the write and read methods of class Nibe1155).
WrittenIsRead ==
  Len(message) = 2 =>
    LET asked == TwosComplement(U16At(message, 0), 65536)
    IN  /\ \A w \in HeatWriters \cup LimitWriters :
             LET raw == RawOf(w, asked)
                 read == ReadNumber(w.reg, ReadBack(w.reg, raw))
             IN  IF ~Accepted(w.reg, raw)
                 THEN \/ SizeOf(w.reg) = "s16" /\ raw = -1
                      \/ w.reg = "regMaxSupplyDiff" /\ raw < 0
                 ELSE /\ read = raw * Step(w.reg)
                      /\ w.reg \in DOMAIN Documented =>
                           LET low == 10 * Documented[w.reg][1]
                               high == 10 * Documented[w.reg][2]
                           IN  /\ read \in low .. high
                               /\ asked \in low .. high => 
                                    asked - read \in 1 - Step(w.reg) .. Step(w.reg) - 1
                               /\ asked < low => read = low
                               /\ asked > high => read = high
        /\ \A r \in Registers :
             LET raw == U16At(message, 0)
             IN  raw < 65535 =>
                   /\ Accepted(r, raw)
                   /\ Quantity(SizeOf(r)) = 2 =>
                        ParseModbusResponse(ReadBack(r, raw), SizeOf(r)) = << 0, raw >>
        /\ LET read(reg, raw) == ParseModbusResponse(ReadBack(reg, raw), SizeOf(reg))
           IN  /\ \A m \in DOMAIN OperationMode :
                    LET x == read("operationalMode", OperationMode[m])
                    IN  ReadOperationMode(x) = m /\ OperationModeText(x) = m
               /\ \A m \in DOMAIN PumpMode, r \in { "supplyPumpMode", "brinePumpMode" } :
                    LET x == read(r, PumpMode[m])
                    IN  ReadPumpMode(x) = m /\ PumpModeText(x) = m
               /\ \A on \in BOOLEAN, r \in { "allowHeating", "allowAdditiveHeating" } :
                    ReadSwitch(r, read(r, WriteSwitch(on))) = on

\* The two ways to read a value out of an answer agree: setRawValue() with the word
\* or double word, and ModbusAsciiFrame.valueAt() with the type; except for a u32
\* from 2^31 on, which setRawValue() makes negative.
ReadingsAgree ==
  LET answer == Answer(message)
      agrees(size) == ParseModbusResponse(answer, size) = ValueAt(answer, 3, size)
  IN  /\ Len(message) = 2 => \A size \in { "u8", "s8", "u16", "s16" } : agrees(size)
      /\ Len(message) = 4 => agrees("s32") /\ (agrees("u32") <=> message[3] < 128)
=============================================================================
