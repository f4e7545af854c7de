----------------------------- MODULE AsciiFrame -----------------------------
(***************************************************************************)
(* The Modbus ASCII line between the Raspberry Pi and the gateway, as      *)
(* class ModbusAsciiFrame writes and reads it.  A character is its code,   *)
(* a line the sequence of its characters.                                  *)
(***************************************************************************)
EXTENDS Naturals, SequencesExt

Colon == 58
CR == 13
LF == 10

\* The hexadecimal digit of n, and the digits that may stand in a frame.
Digit(n) == IF n <= 9 THEN n + 48 ELSE n - 10 + 65
Digits == { Digit(n) : n \in 0 .. 15 }
DigitValue(c) == IF c <= 57 THEN c - 48 ELSE c - 65 + 10

ByteText(b) == << Digit(b \div 16), Digit(b % 16) >>

\* The byte whose digits are characters i and i + 1 of the line.
ByteAt(line, i) == 16 * DigitValue(line[i]) + DigitValue(line[i + 1])

\* The bytes and their LRC add up to 0 modulo 256.
ByteSum(s) == FoldLeft(LAMBDA sum, b : (sum + b) % 256, 0, s)
Lrc(bytes) == (256 - ByteSum(bytes)) % 256

\* new ModbusAsciiFrame(buffer).frame, for a buffer of two bytes or more.
FrameOf(buffer) ==
  LET text == [i \in 1 .. 2 * Len(buffer) |->
                 ByteText(buffer[(i + 1) \div 2])[2 - (i % 2)]]
  IN  <<Colon>> \o text \o ByteText(Lrc(buffer)) \o <<CR, LF>>

\* ... and in the server of egoHeater, where an LRC of 0 is written as 256 is.
EgoFrameOf(buffer) ==
  LET line == FrameOf(buffer)
  IN  IF Lrc(buffer) # 0 THEN line
      ELSE SubSeq(line, 1, Len(line) - 4) \o << Digit(1), Digit(0), Digit(0), CR, LF >>

\* new ModbusAsciiFrame(line) does not throw.
Legal(line) ==
  LET n == Len(line)
  IN  /\ n >= 9 /\ n % 2 = 1
      /\ line[1] = Colon /\ line[n - 1] = CR /\ line[n] = LF
      /\ \A i \in 2 .. n - 2 : line[i] \in Digits

\* With the LRC as a byte of the buffer.
BufferWithLrc(line) == [j \in 1 .. (Len(line) - 3) \div 2 |-> ByteAt(line, 2 * j)]

\* The buffer and the lrcOk of new ModbusAsciiFrame(line), for a legal line.
BufferOf(line) == [j \in 1 .. (Len(line) - 5) \div 2 |-> ByteAt(line, 2 * j)]
LrcOk(line) == ByteAt(line, Len(line) - 3) = Lrc(BufferOf(line))

\* The bytes before any byte of b, and so those after it when the LRC is among them, do
\* not add up to 0: no part of the line is a line with a right LRC.
NoPrefixSum(b) == \A k \in 1 .. Len(b) - 1 : ByteSum(SubSeq(b, 1, k)) # 0
=============================================================================
