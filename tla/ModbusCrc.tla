----------------------------- MODULE ModbusCrc -----------------------------
(***************************************************************************)
(* The CRC-16 of a Modbus RTU frame as the gateway firmware computes it.   *)
(* A uint16_t that holds a CRC is the set of the positions of its one      *)
(* bits: xor is the symmetric difference, zero the empty set.              *)
(***************************************************************************)
EXTENDS Naturals, Sequences

Byte == 0 .. 255
Word == SUBSET (0 .. 15)

Xor(v, w) == (v \ w) \cup (w \ v)

\* The bits of a byte, and the byte of the eight bits of w from bit k on.
Bits(b) == { i \in 0 .. 7 : (b \div 2^i) % 2 = 1 }
ByteOf(w, k) ==
  LET bit(i) == IF k + i \in w THEN 1 ELSE 0
  IN  bit(0) + 2 * bit(1) + 4 * bit(2) + 8 * bit(3)
        + 16 * bit(4) + 32 * bit(5) + 64 * bit(6) + 128 * bit(7)

CrcStart == 0 .. 15                      \* 0xffff
Polynomial == { 0, 13, 15 }              \* 0xa001

CrcShiftOnly(w) == { i \in 0 .. 14 : i + 1 \in w }

\* w >> 1, which a one bit shifted out turns into (w >> 1) ^ 0xa001.
CrcShift(w) ==
  LET half == { i \in 0 .. 14 : i + 1 \in w }
  IN  IF 0 \in w THEN Xor(half, Polynomial) ELSE half

app_updateModbusCrc(crc, b) ==
  LET twice == [w \in Word |-> CrcShift(CrcShift(w))]
      fourTimes == [w \in Word |-> twice[twice[w]]]
  IN  fourTimes[fourTimes[Xor(crc, Bits(b))]]

\* The two bytes that end an RTU frame, the lower one first.
CrcBytes(crc) == << ByteOf(crc, 0), ByteOf(crc, 8) >>
=============================================================================
