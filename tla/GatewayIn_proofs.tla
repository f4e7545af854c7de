-------------------------- MODULE GatewayIn_proofs --------------------------
(***************************************************************************)
(* For every size of the ring, all lines and every kind of disturbance:    *)
(* the types of GatewayIn, and that the line driver covers every byte.     *)
(* With one disturbance at most: only the frames of undamaged lines are    *)
(* sent.  The invariant of that, WantedInv, says in which of three phases   *)
(* a line is: nothing that comes makes a frame (Idle), the bytes of a line *)
(* collect in the ring (Receiving), or are on their way (Transmitting).    *)
(***************************************************************************)
EXTENDS GatewayIn, Frame_lemmas

-----------------------------------------------------------------------------
(* The ring *)

LEMMA RingFields ==
  ASSUME NEW b \in RingOf(Byte)
  PROVE  /\ b.length \in 0 .. W - 1 /\ b.wIndex \in 0 .. W - 1 /\ b.rIndex \in 0 .. W - 1
         /\ b.buffer \in [Index -> Byte]
BY DEF RingOf, Index

\* One character is written at wIndex; indices and length wrap.
LEMMA RingByte ==
  ASSUME NEW b \in RingOf(Byte), NEW x \in Byte
  PROVE  /\ app_ringBuffer_writeString(b, <<x>>) \in RingOf(Byte)
         /\ app_ringBuffer_writeString(b, <<x>>) =
              [buffer |-> [b.buffer EXCEPT ![b.wIndex] = x], length |-> Wrap(b.length + 1),
               wIndex |-> Wrap(b.wIndex + 1), rIndex |-> b.rIndex]
<1> USE SizeAssumption
<1> DEFINE place(i) == IF i >= b.wIndex THEN i - b.wIndex ELSE i + W - b.wIndex
           c == app_ringBuffer_writeString(b, <<x>>)
<1>1. /\ b.wIndex \in Index /\ b.length \in Index /\ b.rIndex \in Index
      /\ b.buffer \in [Index -> Byte]
  BY DEF RingOf
<1>2. \A i, w \in Index : (IF i >= w THEN i - w ELSE i + W - w) < 1 <=> i = w
  BY DEF Index
<1>3. c.buffer = [b.buffer EXCEPT ![b.wIndex] = x]
  <2>1. c.buffer = [i \in Index |-> IF place(i) < 1 THEN <<x>>[place(i) + 1] ELSE b.buffer[i]]
    BY DEF app_ringBuffer_writeString
  <2>2. ASSUME NEW i \in Index
        PROVE  (IF place(i) < 1 THEN <<x>>[place(i) + 1] ELSE b.buffer[i])
                 = IF i = b.wIndex THEN x ELSE b.buffer[i]
    <3>1. place(i) < 1 <=> i = b.wIndex
      BY <1>1, <1>2
    <3>2. i = b.wIndex => place(i) = 0
      BY <1>1 DEF Index
    <3>3. CASE i = b.wIndex
      <4>1. place(i) < 1 /\ place(i) + 1 = 1
        BY <3>1, <3>2, <3>3
      <4>2. QED
        BY <3>3, <4>1
    <3>4. CASE i # b.wIndex
      BY <3>1, <3>4
    <3>5. QED
      BY <3>3, <3>4
  <2> HIDE DEF place, c
  <2>3. [b.buffer EXCEPT ![b.wIndex] = x]
          = [i \in Index |-> IF i = b.wIndex THEN x ELSE b.buffer[i]]
    BY <1>1
  <2>4. QED
    BY <2>1, <2>2, <2>3
<1>4. c = [buffer |-> [b.buffer EXCEPT ![b.wIndex] = x], length |-> Wrap(b.length + 1),
           wIndex |-> Wrap(b.wIndex + 1), rIndex |-> b.rIndex]
  <2>1. c = [buffer |-> c.buffer, length |-> Wrap(b.length + Len(<<x>>)),
             wIndex |-> Wrap(b.wIndex + Len(<<x>>)), rIndex |-> b.rIndex]
    BY DEF app_ringBuffer_writeString
  <2>2. Len(<<x>>) = 1
    OBVIOUS
  <2> HIDE DEF c
  <2>3. QED
    BY <1>3, <2>1, <2>2
<1>5. Wrap(b.length + 1) \in Index /\ Wrap(b.wIndex + 1) \in Index
  BY <1>1 DEF Wrap, Index
<1>6. [b.buffer EXCEPT ![b.wIndex] = x] \in [Index -> Byte]
  BY <1>1
<1> HIDE DEF c
<1>7. c \in RingOf(Byte)
  BY <1>1, <1>4, <1>5, <1>6 DEF RingOf
<1>8. QED
  BY <1>4, <1>7 DEF c

-----------------------------------------------------------------------------
(* The invariant *)

RxType == [frameActive : BOOLEAN, frameEnd : BOOLEAN, cnt : Byte, lrc : Byte,
           lastData : 0 .. 15, lastByte : Byte, crc : Word]
Places == {"top", "complete", "clear", "release", "drive", "ready", "load",
           "store", "index", "take", "transmit"}
MainType == [at : Places, length : Index, index : Index, byte : Byte]

\* The invariant in the parts that belong to one group of variables each.
ReceivedOK ==
  /\ uart0_in \in RingOf(Byte) /\ sendRequest \in BOOLEAN /\ rx \in RxType
  /\ refusals \in Nat /\ underflow \in BOOLEAN
EnvironmentOK ==
  /\ input \in Seq(Byte) /\ lines \in 0 .. Len(Lines) /\ faults \in Nat
  /\ overlapped \in BOOLEAN /\ wanted \in Seq(Seq(Byte))
SendingOK ==
  /\ main \in MainType /\ driver \in BOOLEAN /\ txComplete \in BOOLEAN
  /\ uart1 \in Seq(Byte) /\ Len(uart1) <= 2
HistoryOK == bytesOut \in Seq(Byte) /\ framesOut \in Seq(Seq(Byte))

\* Where main() may be while bytes are in USART1, and what TXC1 says about them:
\* between the test of TXC1 and the end of Release nothing is written to UDR1.
Sends == {"ready", "load", "store", "index", "take", "transmit"}
DriverHolds ==
  /\ uart1 # <<>> => driver
  /\ main.at \in Sends => driver
  /\ main.at \in {"clear", "release"} => uart1 = <<>>
  /\ main.at \in Sends \ {"ready"} => Len(uart1) < 2
  /\ main.at = "store" => main.length > 0
  /\ txComplete => uart1 = <<>>

Inv == ReceivedOK /\ EnvironmentOK /\ SendingOK /\ HistoryOK /\ DriverHolds

LEMMA InitInv == Init => Inv
<1> SUFFICES ASSUME Init PROVE Inv
  OBVIOUS
<1> USE SizeAssumption, BytesAssumption
<1>1. uart0_in \in RingOf(Byte)
  BY DEF Init, EmptyRing, RingOf, Index, Byte
<1>2. rx \in RxType
  BY DEF Init, RxType, Byte, Word
<1>3. ReceivedOK
  BY <1>1, <1>2 DEF Init, ReceivedOK
<1>4. EnvironmentOK
  <2>1. overlapped \in BOOLEAN
    BY Zenon DEF Init
  <2>2. QED
    BY <2>1 DEF Init, EnvironmentOK
<1>5. main \in MainType /\ main.at = "top"
  BY DEF Init, MainType, Places, Index, Byte
<1>6. SendingOK
  <2>1. driver \in BOOLEAN /\ txComplete \in BOOLEAN
    BY Zenon DEF Init
  <2>2. uart1 \in Seq(Byte) /\ Len(uart1) <= 2
    BY DEF Init
  <2>3. QED
    BY <1>5, <2>1, <2>2 DEF SendingOK
<1>7. HistoryOK
  BY DEF Init, HistoryOK
<1>8. DriverHolds
  BY <1>5 DEF Init, DriverHolds, Sends
<1>9. QED
  BY <1>3, <1>4, <1>6, <1>7, <1>8 DEF Inv

-----------------------------------------------------------------------------
(* The environment *)

LEMMA RemoveType ==
  ASSUME NEW s \in Seq(Byte), NEW i \in DOMAIN s
  PROVE  RemoveAt(s, i) \in Seq(Byte)
<1>1. i \in 1 .. Len(s) /\ Len(s) \in Nat
  OBVIOUS
<1>2. SubSeq(s, 1, i - 1) \in Seq(Byte) /\ SubSeq(s, i + 1, Len(s)) \in Seq(Byte)
  BY <1>1
<1>3. QED
  BY <1>2, ConcatType DEF RemoveAt

LEMMA DamagedType ==
  ASSUME NEW line \in Seq(Byte), ArrivesDamaged(line) \/ ArrivesEmpty
  PROVE  input' \in Seq(Byte)
<1>1. CASE \E i \in DOMAIN line : input' = RemoveAt(line, i)
  BY <1>1, RemoveType
<1>2. CASE \E i \in DOMAIN line, c \in Garble : input' = [line EXCEPT ![i] = c]
  <2>1. PICK i \in DOMAIN line, c \in Garble : input' = [line EXCEPT ![i] = c]
    BY <1>2
  <2>2. c \in Byte
    BY BytesAssumption
  <2>3. QED
    BY <2>1, <2>2
<1>3. CASE input' = <<Colon, CR, LF>>
  <2>1. \A a, b, c \in Byte : << a, b, c >> \in Seq(Byte)
    OBVIOUS
  <2>2. Colon \in Byte /\ CR \in Byte /\ LF \in Byte
    BY DEF Colon, CR, LF, Byte
  <2>3. QED
    BY <1>3, <2>1, <2>2
<1>4. QED
  BY <1>1, <1>2, <1>3, Zenon DEF ArrivesDamaged, ArrivesEmpty

LEMMA RtuType ==
  ASSUME NEW bytes \in Seq(Byte)
  PROVE  Rtu(bytes) \in Seq(Byte)
BY CrcBytesType, ConcatType DEF Rtu

LEMMA PiSendsInv == Inv /\ PiSends => Inv'
<1> SUFFICES ASSUME Inv, PiSends PROVE Inv'
  OBVIOUS
<1> DEFINE line == Lines[lines + 1]
<1>1. lines + 1 \in 1 .. Len(Lines) /\ lines' = lines + 1
  BY BytesAssumption DEF PiSends, Inv, EnvironmentOK
<1>2. line \in Seq(Byte) /\ Legal(line)
  BY <1>1, BytesAssumption, LinesAssumption
<1>3. /\ \/ /\ input' = line /\ wanted' = Append(wanted, Rtu(BufferOf(line)))
            /\ faults' = faults
         \/ /\ ArrivesDamaged(line) \/ ArrivesEmpty
            /\ wanted' = wanted /\ faults' \in {faults, faults + 1}
      /\ UNCHANGED <<received, sending, busHistory>>
  BY DEF PiSends, ArrivesWhole, ArrivesDamaged, ArrivesEmpty
<1>a. overlapped' \in BOOLEAN
  BY Zenon DEF PiSends, Inv, EnvironmentOK
<1> HIDE DEF line
<1>4. Rtu(BufferOf(line)) \in Seq(Byte)
  BY <1>2, BufferType, RtuType
<1>5. input' \in Seq(Byte) /\ faults' \in Nat /\ wanted' \in Seq(Seq(Byte))
  <2>1. wanted \in Seq(Seq(Byte)) /\ faults \in Nat
    BY DEF Inv, EnvironmentOK
  <2>2. Append(wanted, Rtu(BufferOf(line))) \in Seq(Seq(Byte)) /\ faults + 1 \in Nat
    BY <1>4, <2>1
  <2>3. QED
    BY <1>2, <1>3, <2>1, <2>2, DamagedType, Zenon
<1>6. EnvironmentOK'
  <2>1. lines' \in 0 .. Len(Lines)
    BY <1>1, BytesAssumption
  <2>2. QED
    BY <1>5, <1>a, <2>1, Zenon DEF EnvironmentOK
<1>7. ReceivedOK' /\ SendingOK' /\ HistoryOK' /\ DriverHolds'
  BY <1>3, Zenon DEF Inv, received, sending, busHistory, ReceivedOK, SendingOK, HistoryOK,
     DriverHolds
<1>8. QED
  BY <1>6, <1>7 DEF Inv
-----------------------------------------------------------------------------
(* app_handleUart0Byte() *)

LEMMA CharacterInv ==
  ASSUME Inv, NEW c, Character(c), ReceivedOK'
  PROVE  Inv'
<1>1. /\ input # <<>> /\ input' = Tail(input)
      /\ UNCHANGED <<lines, faults, overlapped, wanted, sending, busHistory>>
  BY DEF Character
<1>2. input' \in Seq(Byte)
  BY <1>1 DEF Inv, EnvironmentOK
<1>3. EnvironmentOK'
  BY <1>1, <1>2, Zenon DEF Inv, EnvironmentOK
<1>4. SendingOK' /\ HistoryOK' /\ DriverHolds'
  BY <1>1, Zenon DEF Inv, sending, busHistory, SendingOK, HistoryOK, DriverHolds
<1>5. QED
  BY <1>3, <1>4 DEF Inv

LEMMA CountedType == ASSUME NEW r \in RxType PROVE Counted(r) \in RxType
<1>1. r.cnt \in Byte
  BY DEF RxType
<1>2. \A n \in Byte : (n + 1) % 256 \in Byte
  BY DEF Byte
<1>3. (r.cnt + 1) % 256 \in Byte
  BY <1>1, <1>2, Zenon
<1>4. QED
  BY <1>3 DEF Counted, RxType

LEMMA ReceiveInv == Inv /\ Receive => Inv'
<1> SUFFICES ASSUME Inv, Receive PROVE Inv'
  OBVIOUS
<1> USE SizeAssumption
<1>t. /\ uart0_in \in RingOf(Byte) /\ sendRequest \in BOOLEAN /\ rx \in RxType
      /\ refusals \in Nat /\ underflow \in BOOLEAN
  BY Zenon DEF Inv, ReceivedOK
<1>f. /\ rx.frameActive \in BOOLEAN /\ rx.frameEnd \in BOOLEAN /\ rx.cnt \in Byte
      /\ rx.lrc \in Byte /\ rx.lastData \in 0 .. 15 /\ rx.lastByte \in Byte
      /\ rx.crc \in Word
  BY <1>t DEF RxType
<1>d. \A c \in Digits : DigitValue(c) \in 0 .. 15
  BY DigitValueType
<1>1. CASE StartOfFrame
  <2>1. /\ Character(Colon) /\ UNCHANGED <<sendRequest, refusals, underflow>>
        /\ rx' = [rx EXCEPT !.frameActive = TRUE, !.frameEnd = FALSE, !.cnt = 0, !.lrc = 0,
                            !.crc = CrcStart]
        /\ uart0_in' = app_ringBuffer_clear(uart0_in)
    BY <1>1 DEF StartOfFrame
  <2>2. CrcStart \in Word /\ 0 \in Byte /\ 0 \in Index
    BY DEF CrcStart, Word, Byte, Index
  <2>3. rx' \in RxType
    BY <1>t, <2>1, <2>2 DEF RxType
  <2>4. uart0_in' \in RingOf(Byte)
    BY <1>t, <2>1, <2>2 DEF app_ringBuffer_clear, RingOf
  <2>5. ReceivedOK'
    BY <1>t, <2>1, <2>3, <2>4, Zenon DEF ReceivedOK
  <2>6. QED
    BY <2>1, <2>5, CharacterInv
<1>2. CASE Skipped
  <2>1. PICK c \in Byte : Character(c) /\ UNCHANGED received
    BY <1>2 DEF Skipped
  <2>2. ReceivedOK'
    BY <1>t, <2>1, Zenon DEF ReceivedOK, received
  <2>3. QED
    BY <2>1, <2>2, CharacterInv
<1>3. CASE EndOfFrame
  <2>1. /\ Character(LF) /\ UNCHANGED <<uart0_in, underflow>>
        /\ rx' = [rx EXCEPT !.frameActive = FALSE]
        /\ \/ refusals' = refusals + 1 /\ UNCHANGED sendRequest
           \/ sendRequest' = TRUE /\ UNCHANGED refusals
    BY <1>3 DEF EndOfFrame
  <2>2. rx' \in RxType
    BY <1>t, <2>1 DEF RxType
  <2>3. refusals' \in Nat
    BY <1>t, <2>1
  <2>4. sendRequest' \in BOOLEAN
    BY <1>t, <2>1, Zenon
  <2>5. ReceivedOK'
    BY <1>t, <2>1, <2>2, <2>3, <2>4, Zenon DEF ReceivedOK
  <2>6. QED
    BY <2>1, <2>5, CharacterInv
<1>4. CASE FirstDigit
  <2>1. PICK c \in Digits :
          /\ Character(c) /\ UNCHANGED <<uart0_in, sendRequest, refusals, underflow>>
          /\ rx' = Counted([rx EXCEPT !.lastData = DigitValue(c)])
    BY <1>4 DEF FirstDigit
  <2>2. [rx EXCEPT !.lastData = DigitValue(c)] \in RxType
    BY <1>t, <1>d DEF RxType
  <2>3. rx' \in RxType
    BY <2>1, <2>2, CountedType
  <2>4. ReceivedOK'
    BY <1>t, <2>1, <2>3, Zenon DEF ReceivedOK
  <2>5. QED
    BY <2>1, <2>4, CharacterInv
<1>5. CASE SecondDigit
  <2> DEFINE b(c) == rx.lastData * 16 + DigitValue(c)
             sum(c) == (rx.lrc + b(c)) % 256
             crc == IF rx.cnt > 1 THEN app_updateModbusCrc(rx.crc, rx.lastByte) ELSE rx.crc
  <2>1. PICK c \in Digits :
          /\ Character(c) /\ UNCHANGED <<sendRequest, refusals, underflow>>
          /\ rx' = Counted([rx EXCEPT !.lrc = sum(c), !.lastByte = b(c), !.crc = crc])
          /\ uart0_in' = app_ringBuffer_writeString(uart0_in, <<b(c)>>)
    BY <1>5, Zenon DEF SecondDigit
  <2>2. b(c) \in Byte
    <3>1. \A d, e \in 0 .. 15 : d * 16 + e \in 0 .. 255
      OBVIOUS
    <3>2. QED
      BY <1>d, <1>f, <3>1 DEF Byte
  <2>3. sum(c) \in Byte
    <3>1. \A m, n \in Byte : (m + n) % 256 \in Byte
      BY DEF Byte
    <3>2. QED
      BY <1>f, <2>2, <3>1, SMT
  <2>4. crc \in Word
    BY <1>f, CrcType, Zenon
  <2> HIDE DEF b, sum, crc
  <2>5. [rx EXCEPT !.lrc = sum(c), !.lastByte = b(c), !.crc = crc] \in RxType
    BY <1>t, <2>2, <2>3, <2>4 DEF RxType
  <2>6. rx' \in RxType
    BY <2>1, <2>5, CountedType
  <2>8. uart0_in' \in RingOf(Byte)
    BY <1>t, <2>1, <2>2, RingByte
  <2>9. ReceivedOK'
    BY <1>t, <2>1, <2>6, <2>8, Zenon DEF ReceivedOK
  <2>10. QED
    BY <2>1, <2>9, CharacterInv
<1>6. CASE CarriageReturn
  <2> DEFINE crc == CrcBytes(rx.crc)
             before == uart0_in.wIndex = 0
             replaced == IF before THEN uart0_in
                         ELSE [uart0_in EXCEPT !.buffer[uart0_in.wIndex - 1] = crc[1]]
  <2>1. /\ Character(CR) /\ UNCHANGED refusals
        /\ rx' = Counted([rx EXCEPT !.frameEnd = TRUE])
        /\ uart0_in' = app_ringBuffer_writeString(replaced, <<crc[2]>>)
        /\ sendRequest' = IF before THEN crc[1] # 0 ELSE sendRequest
        /\ underflow' = (underflow \/ before)
    BY <1>6 DEF CarriageReturn
  <2>2. crc[1] \in Byte /\ crc[2] \in Byte
    BY ByteOfType DEF CrcBytes
  <2>3. replaced \in RingOf(Byte)
    <3>1. CASE before
      BY <1>t, <3>1
    <3>2. CASE ~before
      <4>1. uart0_in.wIndex - 1 \in Index
        BY <1>t, <3>2, RingFields DEF Index
      <4>2. [uart0_in.buffer EXCEPT ![uart0_in.wIndex - 1] = crc[1]] \in [Index -> Byte]
        BY <1>t, <2>2, <4>1, RingFields
      <4>3. QED
        BY <1>t, <3>2, <4>2 DEF RingOf
    <3>3. QED
      BY <3>1, <3>2
  <2> HIDE DEF crc, replaced
  <2>5. uart0_in' \in RingOf(Byte)
    BY <2>1, <2>2, <2>3, RingByte
  <2>6. [rx EXCEPT !.frameEnd = TRUE] \in RxType
    BY <1>t DEF RxType
  <2>7. rx' \in RxType
    BY <2>1, <2>6, CountedType
  <2>8. sendRequest' \in BOOLEAN /\ underflow' \in BOOLEAN
    BY <1>t, <2>1, Zenon
  <2>9. ReceivedOK'
    BY <1>t, <2>1, <2>5, <2>7, <2>8, Zenon DEF ReceivedOK
  <2>10. QED
    BY <2>1, <2>9, CharacterInv
<1>7. CASE FrameBroken
  <2>1. PICK c \in Byte :
          /\ Character(c) /\ UNCHANGED <<uart0_in, sendRequest, refusals, underflow>>
          /\ rx' = Counted([rx EXCEPT !.frameActive = FALSE])
    BY <1>7 DEF FrameBroken
  <2>2. [rx EXCEPT !.frameActive = FALSE] \in RxType
    BY <1>t DEF RxType
  <2>3. rx' \in RxType
    BY <2>1, <2>2, CountedType
  <2>4. ReceivedOK'
    BY <1>t, <2>1, <2>3, Zenon DEF ReceivedOK
  <2>5. QED
    BY <2>1, <2>4, CharacterInv
<1>8. QED
  BY <1>1, <1>2, <1>3, <1>4, <1>5, <1>6, <1>7 DEF Receive

-----------------------------------------------------------------------------
(* app_main() and the transmitter *)

LEMMA MainFields ==
  ASSUME Inv
  PROVE  /\ main.at \in Places /\ main.length \in Index /\ main.index \in Index
         /\ main.byte \in Byte
         /\ uart0_in \in RingOf(Byte) /\ uart0_in.length \in Index
         /\ uart0_in.rIndex \in Index /\ uart0_in.buffer \in [Index -> Byte]
BY DEF Inv, SendingOK, ReceivedOK, MainType, RingOf

LEMMA GotoType ==
  ASSUME Inv, NEW from, NEW to \in Places, Goto(from, to)
  PROVE  /\ main' \in MainType /\ main'.at = to
         /\ main'.length = main.length
BY DEF Inv, SendingOK, MainType, Goto

\* A step of main() that touches only its place, the driver and the transmitter.
LEMMA MainInv ==
  ASSUME Inv, UNCHANGED environment, ReceivedOK', SendingOK', HistoryOK', DriverHolds'
  PROVE  Inv'
BY Zenon DEF Inv, environment, EnvironmentOK

LEMMA SameReceived ==
  ASSUME Inv, UNCHANGED received
  PROVE  ReceivedOK'
BY Zenon DEF Inv, received, ReceivedOK

LEMMA SameHistory ==
  ASSUME Inv, UNCHANGED busHistory
  PROVE  HistoryOK'
BY Zenon DEF Inv, busHistory, HistoryOK

LEMMA TestsInv ==
  ASSUME Inv, Poll \/ TestComplete \/ TestReady \/ Load
  PROVE  Inv'
<1> USE SizeAssumption
<1>1. UNCHANGED <<received, driver, uart1, txComplete, environment, busHistory>>
  BY Zenon DEF Poll, TestComplete, TestReady, Load
<1>2. ReceivedOK' /\ HistoryOK'
  BY <1>1, SameReceived, SameHistory
<1>s. driver \in BOOLEAN /\ txComplete \in BOOLEAN /\ uart1 \in Seq(Byte) /\ Len(uart1) <= 2
  BY Zenon DEF Inv, SendingOK
<1>d. DriverHolds
  BY DEF Inv
<1>3. CASE Poll
  <2> DEFINE to == IF uart0_in.length = 0 THEN "complete" ELSE "drive"
  <2>1. main' = [main EXCEPT !.at = to, !.length = uart0_in.length]
    BY <1>3 DEF Poll
  <2>2. main' \in MainType /\ main'.at \in {"complete", "drive"}
    BY <2>1, MainFields DEF Inv, SendingOK, MainType, Places
  <2>3. SendingOK'
    BY <1>1, <1>s, <2>2, Zenon DEF SendingOK
  <2>4. DriverHolds'
    BY <1>1, <1>d, <2>2 DEF DriverHolds, Sends
  <2>5. QED
    BY <1>1, <1>2, <2>3, <2>4, MainInv
<1>4. CASE TestComplete
  <2>1. /\ main' \in MainType
        /\ main'.at = IF txComplete THEN "clear" ELSE "top"
    BY <1>4, GotoType DEF TestComplete, Places
  <2>2. SendingOK'
    BY <1>1, <1>s, <2>1, Zenon DEF SendingOK
  <2>3. DriverHolds'
    BY <1>1, <1>d, <2>1 DEF DriverHolds, Sends
  <2>4. QED
    BY <1>1, <1>2, <2>2, <2>3, MainInv
<1>5. CASE TestReady
  <2>1. /\ main.at = "ready" /\ main' \in MainType
        /\ main'.at = IF Len(uart1) < 2 THEN "load" ELSE "top"
    BY <1>5, GotoType DEF TestReady, Places, Goto
  <2>2. SendingOK'
    BY <1>1, <1>s, <2>1, Zenon DEF SendingOK
  <2>3. DriverHolds'
    BY <1>1, <1>d, <2>1 DEF DriverHolds, Sends
  <2>4. QED
    BY <1>1, <1>2, <2>2, <2>3, MainInv
<1>6. CASE Load
  <2>1. PICK n \in {main.length, uart0_in.length} :
          main' = [main EXCEPT !.at = IF n > 0 THEN "store" ELSE "transmit",
                               !.length = n, !.byte = 0]
    BY <1>6 DEF Load
  <2>2. main.at = "load" /\ n \in Index
    BY <1>6, MainFields DEF Load
  <2>3. /\ main' \in MainType /\ main'.length = n
        /\ main'.at = IF n > 0 THEN "store" ELSE "transmit"
    <3> DEFINE to == IF n > 0 THEN "store" ELSE "transmit"
    <3>1. to \in Places /\ 0 \in Byte
      BY DEF Places, Byte
    <3>2. main' = [main EXCEPT !.at = to, !.length = n, !.byte = 0]
      BY <2>1
    <3> HIDE DEF to
    <3>3. main' \in MainType /\ main'.length = n /\ main'.at = to
      BY <2>2, <3>1, <3>2 DEF Inv, SendingOK, MainType
    <3>4. QED
      BY <3>3 DEF to
  <2>4. SendingOK'
    BY <1>1, <1>s, <2>3, Zenon DEF SendingOK
  <2>5. DriverHolds'
    BY <1>1, <1>d, <2>2, <2>3 DEF DriverHolds, Sends
  <2>6. QED
    BY <1>1, <1>2, <2>4, <2>5, MainInv
<1>7. QED
  BY <1>3, <1>4, <1>5, <1>6

LEMMA ReadInv ==
  ASSUME Inv, StoreLength \/ LoadIndex \/ TakeByte
  PROVE  Inv'
<1> USE SizeAssumption
<1>1. /\ UNCHANGED <<sendRequest, rx, refusals, underflow, driver, uart1, txComplete>>
      /\ UNCHANGED environment /\ UNCHANGED busHistory
  BY Zenon DEF StoreLength, LoadIndex, TakeByte, received
<1>2. HistoryOK'
  BY <1>1, SameHistory
<1>s. driver \in BOOLEAN /\ txComplete \in BOOLEAN /\ uart1 \in Seq(Byte) /\ Len(uart1) <= 2
  BY Zenon DEF Inv, SendingOK
<1>d. DriverHolds
  BY DEF Inv
<1>3. ASSUME uart0_in' \in RingOf(Byte), main' \in MainType,
             main.at \in Sends \ {"ready"},
             main'.at \in {"index", "take", "transmit"}
      PROVE  Inv'
  <2>1. ReceivedOK'
    BY <1>1, <1>3, Zenon DEF Inv, ReceivedOK
  <2>2. SendingOK'
    BY <1>1, <1>3, <1>s, Zenon DEF SendingOK
  <2>3. DriverHolds'
    BY <1>1, <1>d, <1>3 DEF DriverHolds, Sends
  <2>4. QED
    BY <1>1, <1>2, <2>1, <2>2, <2>3, MainInv
<1>4. CASE StoreLength
  <2>1. /\ main.at = "store" /\ main' \in MainType /\ main'.at = "index"
        /\ uart0_in' = [uart0_in EXCEPT !.length = main.length - 1]
    BY <1>4, GotoType DEF StoreLength, Places, Goto
  <2>2. main.length - 1 \in Index
    BY <1>d, <2>1, MainFields DEF DriverHolds, Index
  <2>3. uart0_in' \in RingOf(Byte)
    BY <2>1, <2>2, MainFields DEF RingOf
  <2>4. QED
    BY <1>3, <2>1, <2>3 DEF Sends
<1>5. CASE LoadIndex
  <2>1. /\ main.at = "index" /\ main' = [main EXCEPT !.at = "take", !.index = uart0_in.rIndex]
        /\ uart0_in' = uart0_in
    BY <1>5, Zenon DEF LoadIndex, received
  <2>2. main' \in MainType /\ main'.at = "take"
    BY <2>1, MainFields DEF Inv, SendingOK, MainType, Places
  <2>3. QED
    BY <1>3, <2>1, <2>2, MainFields DEF Sends
<1>6. CASE TakeByte
  <2>1. /\ main.at = "take"
        /\ main' = [main EXCEPT !.at = "transmit", !.byte = uart0_in.buffer[main.index]]
        /\ uart0_in' = [uart0_in EXCEPT !.rIndex = Wrap(main.index + 1)]
    BY <1>6 DEF TakeByte
  <2>2. main' \in MainType /\ main'.at = "transmit"
    BY <2>1, MainFields DEF Inv, SendingOK, MainType, Places
  <2>3. Wrap(main.index + 1) \in Index
    BY MainFields DEF Wrap, Index
  <2>4. uart0_in' \in RingOf(Byte)
    BY <2>1, <2>3, MainFields DEF RingOf
  <2>5. QED
    BY <1>3, <2>1, <2>2, <2>4 DEF Sends
<1>7. QED
  BY <1>4, <1>5, <1>6

LEMMA DriveInv ==
  ASSUME Inv, ClearRequest \/ Release \/ Drive \/ Transmit
  PROVE  Inv'
<1>1. UNCHANGED environment /\ UNCHANGED <<uart0_in, rx, refusals, underflow>>
  BY Zenon DEF ClearRequest, Release, Drive, Transmit, received
<1>r. /\ uart0_in \in RingOf(Byte) /\ sendRequest \in BOOLEAN /\ rx \in RxType
      /\ refusals \in Nat /\ underflow \in BOOLEAN
  BY Zenon DEF Inv, ReceivedOK
<1>s. driver \in BOOLEAN /\ txComplete \in BOOLEAN /\ uart1 \in Seq(Byte) /\ Len(uart1) <= 2
  BY Zenon DEF Inv, SendingOK
<1>d. DriverHolds
  BY DEF Inv
<1>2. CASE ClearRequest
  <2>1. /\ main.at = "clear" /\ main' \in MainType /\ main'.at = "release"
        /\ sendRequest' = FALSE
        /\ UNCHANGED <<driver, uart1, txComplete>> /\ UNCHANGED busHistory
    BY <1>2, GotoType DEF ClearRequest, Places, Goto
  <2>2. ReceivedOK'
    BY <1>1, <1>r, <2>1, Zenon DEF ReceivedOK
  <2>3. SendingOK'
    BY <1>s, <2>1, Zenon DEF SendingOK
  <2>4. DriverHolds'
    BY <1>d, <2>1 DEF DriverHolds, Sends
  <2>5. QED
    BY <1>1, <2>1, <2>2, <2>3, <2>4, MainInv, SameHistory
<1>3. CASE Release
  <2>1. /\ main.at = "release" /\ main' \in MainType /\ main'.at = "top"
        /\ driver' = FALSE /\ UNCHANGED received /\ UNCHANGED <<uart1, txComplete>>
    BY <1>3, GotoType DEF Release, Places, Goto
  <2>2. bytesOut' = <<>>
        /\ framesOut' = IF bytesOut = <<>> THEN framesOut ELSE Append(framesOut, bytesOut)
    BY <1>3 DEF Release
  <2>3. HistoryOK'
    BY <2>2 DEF Inv, HistoryOK
  <2>4. SendingOK'
    <3>1. driver' \in BOOLEAN
      BY <2>1, Zenon
    <3>2. QED
      BY <1>s, <2>1, <3>1, Zenon DEF SendingOK
  <2>5. DriverHolds'
    BY <1>d, <2>1 DEF DriverHolds, Sends
  <2>6. QED
    BY <1>1, <2>1, <2>3, <2>4, <2>5, MainInv, SameReceived
<1>4. CASE Drive
  <2>1. /\ main.at = "drive" /\ main' \in MainType /\ main'.at = "ready"
        /\ driver' = TRUE /\ UNCHANGED received /\ UNCHANGED <<uart1, txComplete>>
        /\ UNCHANGED busHistory
    BY <1>4, GotoType DEF Drive, Places, Goto
  <2>2. SendingOK'
    <3>1. driver' \in BOOLEAN
      BY <2>1, Zenon
    <3>2. QED
      BY <1>s, <2>1, <3>1, Zenon DEF SendingOK
  <2>3. DriverHolds'
    BY <1>d, <2>1 DEF DriverHolds, Sends
  <2>4. QED
    BY <1>1, <2>1, <2>2, <2>3, MainInv, SameReceived, SameHistory
<1>5. CASE Transmit
  <2>1. /\ main.at = "transmit" /\ main' \in MainType /\ main'.at = "top"
        /\ uart1' = Append(uart1, main.byte) /\ txComplete' = FALSE
        /\ driver' = driver /\ UNCHANGED received /\ UNCHANGED busHistory
    BY <1>5, GotoType DEF Transmit, Places, Goto
  <2>2. Len(uart1) < 2
    BY <1>d, <2>1 DEF DriverHolds, Sends
  <2>3. uart1' \in Seq(Byte) /\ Len(uart1') <= 2
    BY <1>s, <2>1, <2>2, MainFields
  <2>4. SendingOK'
    <3>1. txComplete' \in BOOLEAN
      BY <2>1, Zenon
    <3>2. QED
      BY <1>s, <2>1, <2>3, <3>1, Zenon DEF SendingOK
  <2>5. driver /\ main'.at = "top" /\ driver' = driver /\ ~txComplete'
    BY <1>d, <2>1 DEF DriverHolds, Sends
  <2>6. DriverHolds'
    BY <2>5 DEF DriverHolds, Sends
  <2>7. QED
    BY <1>1, <2>1, <2>4, <2>6, MainInv, SameReceived, SameHistory
<1>6. QED
  BY <1>2, <1>3, <1>4, <1>5

LEMMA ShiftedOutInv == ASSUME Inv, ShiftedOut PROVE Inv'
<1>1. /\ uart1 # <<>> /\ uart1' = Tail(uart1)
      /\ txComplete' = (txComplete \/ Len(uart1) = 1)
      /\ bytesOut' = IF driver THEN Append(bytesOut, Head(uart1)) ELSE bytesOut
      /\ framesOut' = framesOut /\ main' = main /\ driver' = driver
      /\ UNCHANGED received /\ UNCHANGED environment
  BY DEF ShiftedOut
<1>s. /\ main \in MainType /\ driver \in BOOLEAN
      /\ txComplete \in BOOLEAN /\ uart1 \in Seq(Byte) /\ Len(uart1) <= 2
  BY Zenon DEF Inv, SendingOK
<1>d. DriverHolds
  BY DEF Inv
<1>2. /\ uart1' \in Seq(Byte) /\ Len(uart1') = Len(uart1) - 1 /\ Len(uart1) >= 1
      /\ Head(uart1) \in Byte
  BY <1>1, <1>s
<1>3. txComplete' \in BOOLEAN
  BY <1>1, Zenon
<1>4. Len(uart1') <= 2
  BY <1>2, <1>s
<1>5. SendingOK'
  BY <1>1, <1>s, <1>2, <1>3, <1>4, Zenon DEF SendingOK
<1>6. HistoryOK'
  BY <1>1, <1>2 DEF Inv, HistoryOK
<1>7. DriverHolds'
  <2>1. txComplete' => uart1' = <<>>
    <3>1. ~txComplete
      BY <1>1, <1>d DEF DriverHolds
    <3>2. Len(uart1) = 1 => uart1' = <<>>
      BY <1>2
    <3>3. QED
      BY <1>1, <3>1, <3>2, Zenon
  <2>2. driver /\ main.at \notin {"clear", "release"}
    BY <1>1, <1>d DEF DriverHolds
  <2>3. Len(uart1) < 2 => Len(uart1') < 2
    BY <1>2, <1>s
  <2>4. QED
    BY <1>1, <1>d, <2>1, <2>2, <2>3, Zenon DEF DriverHolds
<1>8. QED
  BY <1>1, <1>5, <1>6, <1>7, MainInv, SameReceived

-----------------------------------------------------------------------------
LEMMA NextInv == Inv /\ [Next]_vars => Inv'
<1>1. ASSUME Inv, Next PROVE Inv'
  BY <1>1, PiSendsInv, ReceiveInv, TestsInv, ReadInv, DriveInv, ShiftedOutInv, Zenon
     DEF Next, AppMain
<1>2. ASSUME Inv, UNCHANGED vars PROVE Inv'
  <2>1. /\ UNCHANGED received /\ UNCHANGED environment /\ UNCHANGED busHistory
        /\ UNCHANGED sending
    BY <1>2, Zenon DEF vars
  <2>2. SendingOK' /\ DriverHolds'
    BY <1>2, <2>1, Zenon DEF Inv, sending, SendingOK, DriverHolds
  <2>3. QED
    BY <1>2, <2>1, <2>2, MainInv, SameReceived, SameHistory
<1>3. QED
  BY <1>1, <1>2

\* In every state of every run each variable keeps its type: indices and length
\* of uart0_in stay inside the ring although nothing refuses a write, and never
\* more than one byte waits in UDR1 behind the one that is shifted out.
THEOREM InTypeCorrect == Safety => []TypeOK
<1>1. Inv => TypeOK
  BY Zenon DEF Inv, ReceivedOK, EnvironmentOK, SendingOK, HistoryOK, RxType, MainType,
     Places, TypeOK
<1>2. QED
  BY <1>1, InitInv, NextInv, PTL DEF Safety

\* The driver is on as long as a byte is in USART1, whatever the Pi sends, when it
\* sends it, and however its characters are disturbed.
THEOREM DriverCoversBytes == Safety => []DriverCovers
<1>1. Inv => DriverCovers
  BY DEF Inv, DriverHolds, DriverCovers
<1>2. QED
  BY <1>1, InitInv, NextInv, PTL DEF Safety

-----------------------------------------------------------------------------
(* What is on the bus: the invariant *)

\* The receiver is in the frame of the bytes b, and has read c of their digits.
Collected(b, c, r, ring) ==
  /\ r.frameActive /\ ~r.frameEnd
  /\ r.cnt = c /\ ReadSoFar(b, c, r.lrc, r.lastData)
  /\ c >= 2 => /\ r.lastByte = b[c \div 2]
               /\ r.crc = CrcFold(SubSeq(b, 1, c \div 2 - 1))
  /\ c < 2 => r.crc = CrcStart
  /\ ring.rIndex = 0 /\ ring.wIndex = c \div 2 /\ ring.length = c \div 2
  /\ \A i \in 1 .. c \div 2 : ring.buffer[i - 1] = b[i]

Holds(ring, frame) == \A i \in 1 .. Len(frame) : ring.buffer[i - 1] = frame[i]

\* Of a line that arrives undamaged p characters have been received.
Good(line, p, text, r, ring) ==
  LET b == BufferWithLrc(line)
      frame == Rtu(BufferOf(line))
  IN  /\ p \in 0 .. Len(line) - 1 /\ text = SubSeq(line, p + 1, Len(line))
      /\ p \in 1 .. Len(line) - 2 => Collected(b, p - 1, r, ring)
      /\ p = Len(line) - 1 => /\ r.frameActive /\ r.frameEnd /\ r.lrc = 0
                              /\ ring.rIndex = 0 /\ ring.length = Len(frame)
                              /\ Holds(ring, frame)

\* Nothing is being sent.
Quiet == ~sendRequest /\ ~driver /\ main.at = "top" /\ bytesOut = <<>>

\* Without a disturbance there is nothing to come, or the rest of an empty frame.
Undisturbed ==
  \/ input = <<>> /\ ~rx.frameActive
  \/ input = <<Colon, CR, LF>>
  \/ /\ input = <<CR, LF>> /\ rx.frameActive /\ ~rx.frameEnd
     /\ rx.cnt = 0 /\ uart0_in.wIndex = 0

Idle ==
  /\ Quiet /\ wanted = framesOut
  /\ Harmless(input, rx, uart0_in.wIndex)
  /\ faults = 0 => Undisturbed

Receiving(line, p) ==
  /\ Quiet /\ wanted = Append(framesOut, Rtu(BufferOf(line)))
  /\ Good(line, p, input, rx, uart0_in)

\* How many bytes of the frame main() has written to UDR1, and how many are left in
\* the ring, by the place m.at of main(); out are those that went to UDR1.
Progress(frame, ring, m, out) ==
  LET next == ring.rIndex
      left == Len(frame) - next
      written == IF m.at = "transmit" THEN next - 1 ELSE next
  IN  /\ out = SubSeq(frame, 1, written)
      /\ m.at \in {"top", "drive", "ready", "load", "store"} => ring.length = left
      /\ m.at \in {"drive", "ready", "load", "store"} => m.length = left /\ left > 0
      /\ m.at \in {"index", "take"} => ring.length = left - 1 /\ left > 0
      /\ m.at = "take" => m.index = next
      /\ m.at = "transmit" => ring.length = left /\ next > 0 /\ m.byte = frame[next]
      /\ m.at \in {"complete", "clear", "release"} => ring.length = 0 /\ left = 0

Transmitting(frame) ==
  /\ wanted = Append(framesOut, frame)
  /\ input = <<>> /\ ~rx.frameActive
  /\ sendRequest <=> main.at # "release"
  /\ Len(frame) > 0 /\ Len(frame) < W
  /\ uart0_in.rIndex \in 0 .. Len(frame) /\ Holds(uart0_in, frame)
  /\ uart0_in.rIndex > 0 => driver
  /\ Progress(frame, uart0_in, main, bytesOut \o uart1)

WantedInv ==
  \/ underflow \/ overlapped
  \/ Idle
  \/ \E i \in DOMAIN Lines, p \in Nat : Receiving(Lines[i], p)
  \/ \E i \in DOMAIN Lines : Transmitting(Rtu(BufferOf(Lines[i])))

-----------------------------------------------------------------------------
(* What app_handleUart0Byte() does with the next character *)

\* The seven ways the next character may be taken.
Starts == input[1] = Colon
Skips == input[1] # Colon /\ (~rx.frameActive \/ (rx.frameEnd /\ input[1] # LF))
Ends == input[1] = LF /\ rx.frameActive /\ rx.frameEnd
ReadsFirst == InFrame /\ input[1] \in Digits /\ rx.cnt % 2 = 0
ReadsSecond == InFrame /\ input[1] \in Digits /\ rx.cnt % 2 = 1
Returns == InFrame /\ input[1] = CR /\ rx.cnt % 2 = 0
Breaks == InFrame /\ input[1] \notin Digits \cup {Colon} /\ (input[1] = CR => rx.cnt % 2 = 1)

LEMMA ReceivedCharacter ==
  ASSUME Inv, Receive
  PROVE  /\ input # <<>> /\ input' = Tail(input)
         /\ UNCHANGED <<lines, faults, overlapped, wanted, sending, busHistory>>
         /\ Starts => StartOfFrame
         /\ Skips => UNCHANGED received
         /\ Ends => EndOfFrame
         /\ ReadsFirst => FirstDigit
         /\ ReadsSecond => SecondDigit
         /\ Returns => CarriageReturn
         /\ Breaks => FrameBroken
<1>1. input \in Seq(Byte)
  BY DEF Inv, EnvironmentOK
<1>2. ASSUME NEW x, Character(x)
      PROVE  /\ input # <<>> /\ input' = Tail(input) /\ x = input[1]
             /\ UNCHANGED <<lines, faults, overlapped, wanted, sending, busHistory>>
  BY <1>1, <1>2, RestOfText DEF Character
<1>3. PICK x : Character(x)
  BY DEF Receive, StartOfFrame, Skipped, EndOfFrame, FirstDigit, SecondDigit,
         CarriageReturn, FrameBroken
<1>4. /\ input # <<>> /\ input' = Tail(input)
      /\ UNCHANGED <<lines, faults, overlapped, wanted, sending, busHistory>>
  BY <1>2, <1>3
<1>5. StartOfFrame => Starts
  BY <1>2 DEF StartOfFrame, Starts
<1>6. Skipped => Skips /\ UNCHANGED received
  BY <1>2 DEF Skipped, Skips
<1>7. EndOfFrame => Ends
  BY <1>2 DEF EndOfFrame, Ends
<1>8. FirstDigit => ReadsFirst
  BY <1>2 DEF FirstDigit, ReadsFirst
<1>9. SecondDigit => ReadsSecond
  BY <1>2 DEF SecondDigit, ReadsSecond
<1>10. CarriageReturn => Returns
  BY <1>2 DEF CarriageReturn, Returns
<1>11. FrameBroken => Breaks
  BY <1>2 DEF FrameBroken, Breaks
<1>12. /\ Starts => ~Skips /\ ~Ends /\ ~ReadsFirst /\ ~ReadsSecond /\ ~Returns /\ ~Breaks
       /\ Skips => ~Ends /\ ~ReadsFirst /\ ~ReadsSecond /\ ~Returns /\ ~Breaks
       /\ Ends => ~ReadsFirst /\ ~ReadsSecond /\ ~Returns /\ ~Breaks
       /\ ReadsFirst => ~ReadsSecond /\ ~Returns /\ ~Breaks
       /\ ReadsSecond => ~Returns /\ ~Breaks
       /\ Returns => ~Breaks
  BY Characters DEF InFrame, Starts, Skips, Ends, ReadsFirst, ReadsSecond, Returns, Breaks
<1>13. StartOfFrame \/ Skipped \/ EndOfFrame \/ FirstDigit \/ SecondDigit
         \/ CarriageReturn \/ FrameBroken
  BY DEF Receive
<1>14. QED
  BY <1>4, <1>5, <1>6, <1>7, <1>8, <1>9, <1>10, <1>11, <1>12, <1>13, Zenon

LEMMA ReceivedFields ==
  ASSUME Inv
  PROVE  /\ uart0_in \in RingOf(Byte) /\ rx \in RxType
         /\ rx.frameActive \in BOOLEAN /\ rx.frameEnd \in BOOLEAN /\ rx.cnt \in Byte
         /\ rx.lrc \in Byte /\ rx.lastData \in 0 .. 15 /\ rx.lastByte \in Byte
         /\ rx.crc \in Word
         /\ input \in Seq(Byte)
<1>1. uart0_in \in RingOf(Byte) /\ rx \in RxType /\ input \in Seq(Byte)
  BY DEF Inv, ReceivedOK, EnvironmentOK
<1>2. QED
  BY <1>1 DEF RxType

LEMMA StartEffect ==
  ASSUME Inv, StartOfFrame
  PROVE  /\ rx'.frameActive /\ ~rx'.frameEnd /\ rx'.cnt = 0 /\ rx'.lrc = 0 /\ rx'.crc = CrcStart
         /\ uart0_in'.length = 0 /\ uart0_in'.wIndex = 0 /\ uart0_in'.rIndex = 0
         /\ UNCHANGED <<sendRequest, underflow>>
<1>1. /\ rx' = [rx EXCEPT !.frameActive = TRUE, !.frameEnd = FALSE, !.cnt = 0, !.lrc = 0,
                           !.crc = CrcStart]
      /\ uart0_in' = [uart0_in EXCEPT !.length = 0, !.rIndex = 0, !.wIndex = 0]
      /\ UNCHANGED <<sendRequest, underflow>>
  BY DEF StartOfFrame, app_ringBuffer_clear
<1>2. rx'.frameActive /\ ~rx'.frameEnd
  BY <1>1, ReceivedFields DEF RxType
<1>3. rx'.cnt = 0 /\ rx'.lrc = 0 /\ rx'.crc = CrcStart
  BY <1>1, ReceivedFields DEF RxType
<1>4. uart0_in'.length = 0 /\ uart0_in'.wIndex = 0 /\ uart0_in'.rIndex = 0
  BY <1>1, ReceivedFields DEF RingOf
<1>5. QED
  BY <1>1, <1>2, <1>3, <1>4

LEMMA FirstEffect ==
  ASSUME Inv, FirstDigit
  PROVE  /\ rx'.frameActive /\ ~rx'.frameEnd /\ rx'.cnt = (rx.cnt + 1) % 256
         /\ rx'.lrc = rx.lrc /\ rx'.lastData = DigitValue(input[1])
         /\ rx'.lastByte = rx.lastByte /\ rx'.crc = rx.crc
         /\ UNCHANGED <<uart0_in, sendRequest, underflow>>
<1>1. PICK c \in Digits :
        /\ InFrame /\ Character(c)
        /\ rx' = Counted([rx EXCEPT !.lastData = DigitValue(c)])
        /\ UNCHANGED <<uart0_in, sendRequest, refusals, underflow>>
  BY DEF FirstDigit
<1>2. c = input[1]
  BY <1>1, ReceivedFields, RestOfText DEF Character
<1>3. rx' = [[rx EXCEPT !.lastData = DigitValue(c)] EXCEPT !.cnt = (rx.cnt + 1) % 256]
  BY <1>1, ReceivedFields DEF Counted, RxType
<1>4. rx'.frameActive = rx.frameActive /\ rx'.frameEnd = rx.frameEnd
  BY <1>3, ReceivedFields DEF RxType
<1>5. /\ rx'.cnt = (rx.cnt + 1) % 256 /\ rx'.lrc = rx.lrc /\ rx'.lastData = DigitValue(c)
      /\ rx'.lastByte = rx.lastByte /\ rx'.crc = rx.crc
  BY <1>3, ReceivedFields DEF RxType
<1>6. rx'.frameActive /\ ~rx'.frameEnd
  BY <1>1, <1>4, Zenon DEF InFrame
<1>7. QED
  BY <1>1, <1>2, <1>5, <1>6

LEMMA SecondEffect ==
  ASSUME Inv, SecondDigit, NEW b, b = rx.lastData * 16 + DigitValue(input[1])
  PROVE  /\ b \in Byte
         /\ rx'.frameActive /\ ~rx'.frameEnd /\ rx'.cnt = (rx.cnt + 1) % 256
         /\ rx'.lrc = (rx.lrc + b) % 256 /\ rx'.lastData = rx.lastData /\ rx'.lastByte = b
         /\ rx'.crc = IF rx.cnt > 1 THEN app_updateModbusCrc(rx.crc, rx.lastByte) ELSE rx.crc
         /\ uart0_in' = [buffer |-> [uart0_in.buffer EXCEPT ![uart0_in.wIndex] = b],
                         length |-> Wrap(uart0_in.length + 1),
                         wIndex |-> Wrap(uart0_in.wIndex + 1), rIndex |-> uart0_in.rIndex]
         /\ UNCHANGED <<sendRequest, underflow>>
<1> DEFINE byte(c) == rx.lastData * 16 + DigitValue(c)
           sum(c) == (rx.lrc + byte(c)) % 256
           crc == IF rx.cnt > 1 THEN app_updateModbusCrc(rx.crc, rx.lastByte) ELSE rx.crc
<1>1. PICK c \in Digits :
        /\ InFrame /\ Character(c)
        /\ rx' = Counted([rx EXCEPT !.lrc = sum(c), !.lastByte = byte(c), !.crc = crc])
        /\ uart0_in' = app_ringBuffer_writeString(uart0_in, <<byte(c)>>)
        /\ UNCHANGED <<sendRequest, refusals, underflow>>
  BY Zenon DEF SecondDigit
<1>2. c = input[1]
  BY <1>1, ReceivedFields, RestOfText DEF Character
<1>3. byte(c) = b /\ sum(c) = (rx.lrc + b) % 256
  BY <1>2
<1>4. b \in Byte
  <2>1. \A d, e \in 0 .. 15 : d * 16 + e \in Byte
    BY DEF Byte
  <2>2. rx.lastData \in 0 .. 15 /\ DigitValue(c) \in 0 .. 15
    BY ReceivedFields, DigitValueType, Zenon
  <2>3. byte(c) \in Byte
    BY <2>1, <2>2, Zenon
  <2>4. QED
    BY <1>3, <2>3, Zenon
<1> HIDE DEF byte, sum, crc
<1>5. rx' = [[rx EXCEPT !.lrc = sum(c), !.lastByte = b, !.crc = crc]
               EXCEPT !.cnt = (rx.cnt + 1) % 256]
  BY <1>1, <1>3, ReceivedFields DEF Counted, RxType
<1>6. rx'.frameActive = rx.frameActive /\ rx'.frameEnd = rx.frameEnd
  BY <1>5, ReceivedFields DEF RxType
<1>7. /\ rx'.cnt = (rx.cnt + 1) % 256 /\ rx'.lrc = sum(c) /\ rx'.lastData = rx.lastData
      /\ rx'.lastByte = b /\ rx'.crc = crc
  BY <1>5, ReceivedFields DEF RxType
<1>8. rx'.frameActive /\ ~rx'.frameEnd
  BY <1>1, <1>6, Zenon DEF InFrame
<1>9. uart0_in' = [buffer |-> [uart0_in.buffer EXCEPT ![uart0_in.wIndex] = b],
                   length |-> Wrap(uart0_in.length + 1),
                   wIndex |-> Wrap(uart0_in.wIndex + 1), rIndex |-> uart0_in.rIndex]
  BY <1>1, <1>3, <1>4, ReceivedFields, RingByte
<1>10. QED
  BY <1>1, <1>3, <1>4, <1>7, <1>8, <1>9 DEF crc

LEMMA ReturnEffect ==
  ASSUME Inv, CarriageReturn
  PROVE  /\ uart0_in.wIndex = 0 => underflow'
         /\ uart0_in.wIndex # 0 =>
              /\ rx'.frameActive /\ rx'.frameEnd /\ rx'.lrc = rx.lrc
              /\ uart0_in' = [buffer |-> [uart0_in.buffer EXCEPT
                                            ![uart0_in.wIndex - 1] = ByteOf(rx.crc, 0),
                                            ![uart0_in.wIndex] = ByteOf(rx.crc, 8)],
                              length |-> Wrap(uart0_in.length + 1),
                              wIndex |-> Wrap(uart0_in.wIndex + 1), rIndex |-> uart0_in.rIndex]
              /\ UNCHANGED <<sendRequest, underflow>>
<1> DEFINE crc == CrcBytes(rx.crc)
           w == uart0_in.wIndex
           replaced == [uart0_in EXCEPT !.buffer[w - 1] = crc[1]]
<1>0. crc[1] = ByteOf(rx.crc, 0) /\ crc[2] = ByteOf(rx.crc, 8)
  BY DEF CrcBytes
<1>1. w = 0 => underflow'
  BY DEF CarriageReturn
<1>2. ASSUME w # 0
      PROVE  /\ rx'.frameActive /\ rx'.frameEnd /\ rx'.lrc = rx.lrc
             /\ uart0_in' = [buffer |-> [[uart0_in.buffer EXCEPT ![w - 1] = crc[1]] EXCEPT ![w] = crc[2]],
                              length |-> Wrap(uart0_in.length + 1),
                              wIndex |-> Wrap(w + 1), rIndex |-> uart0_in.rIndex]
             /\ UNCHANGED <<sendRequest, underflow>>
  <2>1. /\ InFrame
        /\ rx' = Counted([rx EXCEPT !.frameEnd = TRUE])
        /\ uart0_in' = app_ringBuffer_writeString(replaced, <<crc[2]>>)
        /\ UNCHANGED <<sendRequest, underflow>>
    <3>1. /\ InFrame
          /\ rx' = Counted([rx EXCEPT !.frameEnd = TRUE])
          /\ uart0_in' = app_ringBuffer_writeString(IF w = 0 THEN uart0_in ELSE replaced, <<crc[2]>>)
          /\ sendRequest' = IF w = 0 THEN crc[1] # 0 ELSE sendRequest
          /\ underflow' = (underflow \/ w = 0)
      BY Zenon DEF CarriageReturn
    <3>2. underflow \in BOOLEAN
      BY Zenon DEF Inv, ReceivedOK
    <3> HIDE DEF crc, replaced, w
    <3>3. underflow' = underflow
      BY <1>2, <3>1, <3>2, Zenon
    <3>4. QED
      BY <1>2, <3>1, <3>3, Zenon
  <2>2. rx' = [[rx EXCEPT !.frameEnd = TRUE] EXCEPT !.cnt = (rx.cnt + 1) % 256]
    BY <2>1, ReceivedFields DEF Counted, RxType
  <2>3. rx'.frameActive = rx.frameActive /\ rx'.frameEnd /\ rx'.lrc = rx.lrc
    BY <2>2, ReceivedFields DEF RxType
  <2>4. crc[1] \in Byte /\ crc[2] \in Byte
    BY ByteOfType DEF CrcBytes
  <2>5. w - 1 \in Index
    BY <1>2, ReceivedFields, RingFields, SizeAssumption DEF Index
  <2>6. [uart0_in.buffer EXCEPT ![w - 1] = crc[1]] \in [Index -> Byte]
    BY <2>4, <2>5, ReceivedFields, RingFields
  <2> HIDE DEF crc
  <2>7. /\ replaced \in RingOf(Byte)
        /\ replaced.buffer = [uart0_in.buffer EXCEPT ![w - 1] = crc[1]]
        /\ replaced.length = uart0_in.length /\ replaced.wIndex = w
        /\ replaced.rIndex = uart0_in.rIndex
    BY <2>6, ReceivedFields DEF RingOf
  <2> HIDE DEF replaced
  <2>8. uart0_in' = [buffer |-> [replaced.buffer EXCEPT ![replaced.wIndex] = crc[2]],
                     length |-> Wrap(replaced.length + 1),
                     wIndex |-> Wrap(replaced.wIndex + 1), rIndex |-> replaced.rIndex]
    BY <2>1, <2>4, <2>7, RingByte
  <2>9. rx'.frameActive
    BY <2>1, <2>3, Zenon DEF InFrame
  <2>10. QED
    BY <2>1, <2>3, <2>7, <2>8, <2>9
<1> HIDE DEF crc
<1>3. QED
  BY <1>0, <1>1, <1>2

LEMMA BrokenEffect ==
  ASSUME Inv, FrameBroken
  PROVE  ~rx'.frameActive /\ UNCHANGED <<uart0_in, sendRequest, underflow>>
<1>1. /\ rx' = Counted([rx EXCEPT !.frameActive = FALSE])
      /\ UNCHANGED <<uart0_in, sendRequest, underflow>>
  BY DEF FrameBroken
<1>2. rx' = [[rx EXCEPT !.frameActive = FALSE] EXCEPT !.cnt = (rx.cnt + 1) % 256]
  BY <1>1, ReceivedFields DEF Counted, RxType
<1>3. ~rx'.frameActive
  BY <1>2, ReceivedFields DEF RxType
<1>4. QED
  BY <1>1, <1>3

LEMMA EndEffect ==
  ASSUME Inv, EndOfFrame
  PROVE  /\ ~rx'.frameActive /\ UNCHANGED <<uart0_in, underflow>>
         /\ rx.lrc # 0 => UNCHANGED sendRequest
         /\ rx.lrc = 0 => sendRequest'
<1>1. /\ rx' = [rx EXCEPT !.frameActive = FALSE] /\ UNCHANGED <<uart0_in, underflow>>
      /\ \/ rx.lrc # 0 /\ UNCHANGED sendRequest
         \/ rx.lrc = 0 /\ sendRequest' = TRUE
  BY Zenon DEF EndOfFrame
<1>2. ~rx'.frameActive
  BY <1>1, ReceivedFields DEF RxType
<1>3. QED
  BY <1>1, <1>2, Zenon

LEMMA CountFacts ==
  \A m \in Byte : m \in Nat /\ (m % 2 = 0 \/ m % 2 = 1) /\ m + 1 - 0 - 1 = m
BY DEF Byte

LEMMA OneWay ==
  ASSUME Inv
  PROVE  Starts \/ Skips \/ Ends \/ ReadsFirst \/ ReadsSecond \/ Returns \/ Breaks
<1>1. rx.cnt % 2 = 0 \/ rx.cnt % 2 = 1
  BY ReceivedFields, CountFacts
<1>2. QED
  BY <1>1 DEF InFrame, Starts, Skips, Ends, ReadsFirst, ReadsSecond, Returns, Breaks

\* Only the end of a frame with the right sum, and an underflow, touch sendRequest.
LEMMA RequestKept ==
  ASSUME Inv, Receive, ~underflow', ~(Ends /\ rx.lrc = 0)
  PROVE  UNCHANGED sendRequest
<1>1. CASE Starts
  BY <1>1, ReceivedCharacter, StartEffect
<1>2. CASE Skips
  BY <1>2, ReceivedCharacter DEF received
<1>3. CASE Ends
  BY <1>3, ReceivedCharacter, EndEffect
<1>4. CASE ReadsFirst
  BY <1>4, ReceivedCharacter, FirstEffect
<1>5. CASE ReadsSecond
  BY <1>5, ReceivedCharacter, SecondEffect
<1>6. CASE Returns
  BY <1>6, ReceivedCharacter, ReturnEffect
<1>7. CASE Breaks
  BY <1>7, ReceivedCharacter, BrokenEffect
<1>8. QED
  BY <1>1, <1>2, <1>3, <1>4, <1>5, <1>6, <1>7, OneWay

\* Before a colon that is still to come anything may happen but the end of a frame.
HarmlessAfter(text, r, wIndex) ==
  /\ LastColon(text, 0)
  /\ \/ ~r.frameActive
     \/ r.frameEnd /\ (r.lrc # 0 \/ \A i \in 1 .. Len(text) : text[i] # LF)
     \/ ~r.frameEnd /\ NoFrame(text, 0, r.cnt, r.lrc, r.lastData, wIndex)

LEMMA HarmlessParts ==
  ASSUME NEW text, NEW r, NEW wIndex
  PROVE  Harmless(text, r, wIndex) <=>
           \/ \E o \in 1 .. Len(text) : LastColon(text, o) /\ NoFrame(text, o, 0, 0, 0, 0)
           \/ HarmlessAfter(text, r, wIndex)
BY Zenon DEF Harmless, HarmlessAfter

LEMMA HarmlessReceive ==
  ASSUME Inv, Receive, Harmless(input, rx, uart0_in.wIndex), ~underflow'
  PROVE  Harmless(input', rx', uart0_in'.wIndex) /\ UNCHANGED sendRequest
<1>1. /\ input \in Seq(Byte) /\ input # <<>> /\ input' = Tail(input)
      /\ rx.cnt \in Byte
  BY ReceivedFields, ReceivedCharacter
<1>2. CASE \E o \in 1 .. Len(input) : LastColon(input, o) /\ NoFrame(input, o, 0, 0, 0, 0)
  <2>1. PICK o \in 1 .. Len(input) : LastColon(input, o) /\ NoFrame(input, o, 0, 0, 0, 0)
    BY <1>2
  <2>2. o \in Nat /\ o >= 1
    OBVIOUS
  <2>3. NoFrame(input', o - 1, 0, 0, 0, 0)
    BY <1>1, <2>1, <2>2, NoFrameInRest
  <2>4. CASE o = 1
    <3>1. LastColon(input', 0) /\ Starts
      BY <1>1, <2>1, <2>2, <2>4, ColonInRest DEF Starts
    <3>2. /\ rx'.frameActive /\ ~rx'.frameEnd /\ rx'.cnt = 0 /\ rx'.lrc = 0
          /\ uart0_in'.wIndex = 0 /\ UNCHANGED sendRequest
      BY <3>1, ReceivedCharacter, StartEffect
    <3>3. NoFrame(input', 0, 0, 0, 0, 0)
      <4>1. o - 1 = 0
        BY <2>4
      <4>2. QED
        BY <2>3, <4>1
    <3>4. NoFrame(input', 0, 0, 0, rx'.lastData, 0)
      BY <3>3, SpareData
    <3>5. HarmlessAfter(input', rx', uart0_in'.wIndex)
      BY <3>1, <3>2, <3>4 DEF HarmlessAfter
    <3>6. QED
      BY <3>2, <3>5, HarmlessParts
  <2>5. CASE o # 1
    <3>1. /\ LastColon(input', o - 1) /\ o - 1 \in 1 .. Len(input') /\ input[1] # LF
      BY <1>1, <2>1, <2>2, <2>5, ColonInRest
    <3>2. UNCHANGED sendRequest
      BY <3>1, RequestKept DEF Ends
    <3>3. QED
      BY <2>3, <3>1, <3>2, HarmlessParts
  <2>6. QED
    BY <2>4, <2>5
<1>3. CASE HarmlessAfter(input, rx, uart0_in.wIndex)
  <2>1. LastColon(input, 0)
    BY <1>3 DEF HarmlessAfter
  <2>2. LastColon(input', 0) /\ input[1] # Colon
    BY <1>1, <2>1, ColonInRest
  <2>3. CASE ~rx.frameActive
    <3>1. Skips
      BY <2>2, <2>3 DEF Skips
    <3>2. rx' = rx /\ UNCHANGED sendRequest
      BY <3>1, ReceivedCharacter, Zenon DEF received
    <3>3. HarmlessAfter(input', rx', uart0_in'.wIndex)
      BY <2>2, <2>3, <3>2, Zenon DEF HarmlessAfter
    <3>4. QED
      BY <3>2, <3>3, HarmlessParts
  <2>4. CASE rx.frameActive /\ rx.frameEnd /\ (rx.lrc # 0 \/ \A i \in 1 .. Len(input) : input[i] # LF)
    <3>1. CASE input[1] = LF
      <4>1. rx.lrc # 0 /\ Ends
        BY <1>1, <2>4, <3>1, RestOfText DEF Ends
      <4>2. ~rx'.frameActive /\ UNCHANGED sendRequest
        BY <4>1, ReceivedCharacter, EndEffect
      <4>3. HarmlessAfter(input', rx', uart0_in'.wIndex)
        BY <2>2, <4>2, Zenon DEF HarmlessAfter
      <4>4. QED
        BY <4>2, <4>3, HarmlessParts
    <3>2. CASE input[1] # LF
      <4>1. Skips
        BY <2>2, <2>4, <3>2 DEF Skips
      <4>2. rx' = rx /\ UNCHANGED sendRequest
        BY <4>1, ReceivedCharacter, Zenon DEF received
      <4>3. rx.lrc # 0 \/ \A i \in 1 .. Len(input') : input'[i] # LF
        <5>1. CASE \A i \in 1 .. Len(input) : input[i] # LF
          <6>1. \A i \in 1 .. Len(input') : i + 1 \in 1 .. Len(input) /\ i \in 1 .. Len(input) - 1
            BY <1>1, RestOfText
          <6>2. QED
            BY <1>1, <5>1, <6>1, RestOfText
        <5>2. QED
          BY <2>4, <5>1
      <4>4. HarmlessAfter(input', rx', uart0_in'.wIndex)
        BY <2>2, <2>4, <4>2, <4>3, Zenon DEF HarmlessAfter
      <4>5. QED
        BY <4>2, <4>4, HarmlessParts
    <3>3. QED
      BY <3>1, <3>2
  <2>5. CASE rx.frameActive /\ ~rx.frameEnd
             /\ NoFrame(input, 0, rx.cnt, rx.lrc, rx.lastData, uart0_in.wIndex)
    <3> DEFINE v == DigitValue(input[1])
    <3>0. InFrame
      BY <2>5 DEF InFrame
    <3>1. CASE input[1] \in Digits
      <4>1. NoFrame(input', 0, (rx.cnt + 1) % 256, LrcAfter(rx.cnt, rx.lrc, rx.lastData, v),
                    DataAfter(rx.cnt, rx.lastData, v), uart0_in'.wIndex)
        BY <1>1, <2>5, <3>1, NoFrameAfterDigit
      <4>2. /\ ~rx'.frameEnd /\ rx'.cnt = (rx.cnt + 1) % 256
            /\ rx'.lrc = LrcAfter(rx.cnt, rx.lrc, rx.lastData, v)
            /\ rx'.lastData = DataAfter(rx.cnt, rx.lastData, v)
            /\ UNCHANGED sendRequest
        <5>1. CASE rx.cnt % 2 = 0
          <6>1. ReadsFirst
            BY <3>0, <3>1, <5>1 DEF ReadsFirst
          <6>2. /\ ~rx'.frameEnd /\ rx'.cnt = (rx.cnt + 1) % 256
                /\ rx'.lrc = rx.lrc /\ rx'.lastData = v /\ UNCHANGED sendRequest
            BY <6>1, ReceivedCharacter, FirstEffect
          <6>3. QED
            BY <5>1, <6>2 DEF LrcAfter, DataAfter
        <5>2. CASE rx.cnt % 2 = 1
          <6>1. ReadsSecond
            BY <3>0, <3>1, <5>2 DEF ReadsSecond
          <6>2. /\ ~rx'.frameEnd /\ rx'.cnt = (rx.cnt + 1) % 256
                /\ rx'.lrc = (rx.lrc + (rx.lastData * 16 + v)) % 256
                /\ rx'.lastData = rx.lastData /\ UNCHANGED sendRequest
            BY <6>1, ReceivedCharacter, SecondEffect
          <6>3. ~(rx.cnt % 2 = 0)
            BY <5>2
          <6>4. QED
            BY <6>2, <6>3, Zenon DEF LrcAfter, DataAfter
        <5>3. rx.cnt % 2 = 0 \/ rx.cnt % 2 = 1
          BY <1>1, CountFacts
        <5>4. QED
          BY <5>1, <5>2, <5>3
      <4> HIDE DEF v
      <4>3. HarmlessAfter(input', rx', uart0_in'.wIndex)
        BY <2>2, <4>1, <4>2, Zenon DEF HarmlessAfter
      <4>4. QED
        BY <4>2, <4>3, HarmlessParts
    <3>2. CASE input[1] \notin Digits
      <4>1. /\ Len(input) >= 1 /\ input[1] \in Byte
        BY <1>1, RestOfText
      <4>2. EndsNone(input, 0, 1, rx.cnt, rx.lrc, rx.lastData, uart0_in.wIndex)
        <5>1. ~(\A i \in 0 + 1 .. Len(input) : input[i] \in Digits)
          BY <3>2, <4>1
        <5>2. PICK e \in 0 + 1 .. Len(input) :
                /\ \A i \in 0 + 1 .. e - 1 : input[i] \in Digits
                /\ EndsNone(input, 0, e, rx.cnt, rx.lrc, rx.lastData, uart0_in.wIndex)
          BY <2>5, <5>1 DEF NoFrame
        <5>3. e = 1
          BY <3>2, <5>2
        <5>4. QED
          BY <5>2, <5>3
      <4>3. CASE input[1] = CR /\ rx.cnt % 2 = 0
        <5>1. Returns
          BY <3>0, <4>3 DEF Returns
        <5>2. /\ uart0_in.wIndex # 0
              /\ rx'.frameActive /\ rx'.frameEnd /\ rx'.lrc = rx.lrc
              /\ UNCHANGED sendRequest
          BY <5>1, ReceivedCharacter, ReturnEffect
        <5>3. rx.lrc # 0 \/ \A i \in 1 .. Len(input') : input'[i] # LF
          <6>1. CASE \A i \in 1 + 1 .. Len(input) : input[i] # LF
            <7>1. \A i \in 1 .. Len(input') : i + 1 \in 1 + 1 .. Len(input) /\ i \in 1 .. Len(input) - 1
              BY <1>1, RestOfText
            <7>2. QED
              BY <1>1, <6>1, <7>1, RestOfText
          <6>2. CASE WrongSum(input, 0, 1, rx.cnt, rx.lrc, rx.lastData)
            <7>1. PICK b \in Seq(Byte) :
                    /\ ByteSum(b) # 0
                    /\ ReadSoFar(b, rx.cnt, rx.lrc, rx.lastData)
                    /\ 1 - 0 - 1 = 2 * Len(b) - rx.cnt
              BY <6>2 DEF WrongSum
            <7>2. PICK m \in Nat : m = Len(b)
              OBVIOUS
            <7>3. rx.cnt = 2 * m /\ rx.cnt \div 2 = m
              <8>1. rx.cnt \in Nat
                BY <1>1, CountFacts
              <8>2. rx.cnt = 2 * m
                BY <7>1, <7>2, <8>1
              <8>3. (2 * m) \div 2 = m
                OBVIOUS
              <8>4. QED
                BY <8>2, <8>3
            <7>4. rx.lrc = ByteSum(b)
              <8>1. rx.lrc = ByteSum(SubSeq(b, 1, m))
                BY <7>1, <7>3 DEF ReadSoFar
              <8>2. QED
                BY <7>2, <8>1, WholeSequence
            <7>5. QED
              BY <7>1, <7>4
          <6>3. ~((rx.cnt + 1 - 0 - 1) % 2 = 1)
            <7>1. rx.cnt + 1 - 0 - 1 = rx.cnt
              BY <1>1, CountFacts
            <7>2. QED
              BY <4>3, <7>1
          <6>4. QED
            BY <4>2, <4>3, <5>2, <6>1, <6>2, <6>3 DEF EndsNone
        <5>4. HarmlessAfter(input', rx', uart0_in'.wIndex)
          BY <2>2, <5>2, <5>3, Zenon DEF HarmlessAfter
        <5>5. QED
          BY <5>2, <5>4, HarmlessParts
      <4>4. CASE ~(input[1] = CR /\ rx.cnt % 2 = 0)
        <5>1. rx.cnt % 2 = 0 \/ rx.cnt % 2 = 1
          BY <1>1, CountFacts
        <5>2. Breaks
          BY <2>2, <3>0, <3>2, <4>4, <5>1 DEF Breaks
        <5>3. ~rx'.frameActive /\ UNCHANGED sendRequest
          BY <5>2, ReceivedCharacter, BrokenEffect
        <5>4. HarmlessAfter(input', rx', uart0_in'.wIndex)
          BY <2>2, <5>3, Zenon DEF HarmlessAfter
        <5>5. QED
          BY <5>3, <5>4, HarmlessParts
      <4>5. QED
        BY <4>3, <4>4
    <3>3. QED
      BY <3>1, <3>2
  <2>6. QED
    BY <1>3, <2>3, <2>4, <2>5, Zenon DEF HarmlessAfter
<1>4. QED
  BY <1>2, <1>3, HarmlessParts

LEMMA UndisturbedReceive ==
  ASSUME Inv, Receive, Undisturbed, ~underflow'
  PROVE  Undisturbed'
<1>1. input # <<>> /\ input' = Tail(input)
  BY ReceivedCharacter
<1>2. CASE input = <<Colon, CR, LF>>
  <2>1. input[1] = Colon /\ Tail(input) = <<CR, LF>>
    BY <1>2
  <2>2. StartOfFrame
    BY <2>1, ReceivedCharacter DEF Starts
  <2>3. rx'.frameActive /\ ~rx'.frameEnd /\ rx'.cnt = 0 /\ uart0_in'.wIndex = 0
    BY <2>2, StartEffect
  <2>4. QED
    BY <1>1, <2>1, <2>3, Zenon DEF Undisturbed
<1>3. CASE /\ input = <<CR, LF>> /\ rx.frameActive /\ ~rx.frameEnd
           /\ rx.cnt = 0 /\ uart0_in.wIndex = 0
  <2>1. input[1] = CR /\ 0 % 2 = 0
    BY <1>3
  <2>2. Returns
    BY <1>3, <2>1, Zenon DEF Returns, InFrame
  <2>3. QED
    BY <1>3, <2>2, ReceivedCharacter, ReturnEffect
<1>4. QED
  BY <1>1, <1>2, <1>3, Zenon DEF Undisturbed

LEMMA SendingKept ==
  ASSUME UNCHANGED sending, UNCHANGED busHistory, UNCHANGED sendRequest
  PROVE  Quiet' = Quiet /\ framesOut' = framesOut
BY Zenon DEF sending, busHistory, Quiet

LEMMA IdleReceive ==
  ASSUME Inv, Receive, Idle, ~underflow'
  PROVE  Idle'
<1>1. /\ Harmless(input', rx', uart0_in'.wIndex) /\ UNCHANGED sendRequest
  BY HarmlessReceive DEF Idle
<1>2. UNCHANGED <<faults, wanted>> /\ UNCHANGED sending /\ UNCHANGED busHistory
  BY ReceivedCharacter, Zenon
<1>3. Quiet' /\ wanted' = framesOut'
  BY <1>1, <1>2, SendingKept, Zenon DEF Idle
<1>4. faults' = 0 => Undisturbed'
  BY <1>2, UndisturbedReceive, Zenon DEF Idle
<1>5. QED
  BY <1>1, <1>3, <1>4, Zenon DEF Idle

-----------------------------------------------------------------------------
(* The frame of a line collects in the ring *)

LEMMA CollectedFields ==
  ASSUME NEW b \in Seq(Byte), NEW c \in Nat, c < 2 * Len(b), Len(b) <= 127,
         Inv, Collected(b, c, rx, uart0_in), Receive, input[1] \in Digits,
         DigitValue(input[1]) = Nibble(b, c + 1)
  PROVE  /\ rx.cnt = c /\ c \in Byte /\ c # 255
         /\ c % 2 = 0 => FirstDigit
         /\ c % 2 = 1 => SecondDigit
         /\ ReadSoFar(b, c + 1, LrcAfter(c, rx.lrc, rx.lastData, DigitValue(input[1])),
                      DataAfter(c, rx.lastData, DigitValue(input[1])))
<1>1. rx.cnt = c /\ InFrame /\ ReadSoFar(b, c, rx.lrc, rx.lastData)
  BY DEF Collected, InFrame
<1>2. c \in Byte /\ c # 255
  <2>1. PICK m \in Nat : m = Len(b)
    OBVIOUS
  <2>2. c < 2 * m /\ m <= 127
    BY <2>1
  <2>3. QED
    BY <2>2 DEF Byte
<1>3. /\ c % 2 = 0 => FirstDigit
      /\ c % 2 = 1 => SecondDigit
  BY <1>1, ReceivedCharacter DEF ReadsFirst, ReadsSecond
<1>4. QED
  BY <1>1, <1>2, <1>3, ReadAnother

LEMMA CollectFirst ==
  ASSUME NEW b \in Seq(Byte), NEW c \in Nat, c < 2 * Len(b), Len(b) <= 127,
         Inv, Collected(b, c, rx, uart0_in), Receive, input[1] \in Digits,
         DigitValue(input[1]) = Nibble(b, c + 1), c % 2 = 0
  PROVE  Collected(b, c + 1, rx', uart0_in') /\ UNCHANGED <<sendRequest, underflow>>
<1>1. /\ rx.cnt = c /\ (c + 1) % 256 = c + 1 /\ FirstDigit
      /\ ReadSoFar(b, c + 1, rx.lrc, DigitValue(input[1]))
  <2>1. LrcAfter(c, rx.lrc, rx.lastData, DigitValue(input[1])) = rx.lrc
    BY DEF LrcAfter
  <2>2. DataAfter(c, rx.lastData, DigitValue(input[1])) = DigitValue(input[1])
    BY DEF DataAfter
  <2>3. QED
    BY <2>1, <2>2, CollectedFields, CountStep
<1>2. /\ rx'.frameActive /\ ~rx'.frameEnd /\ rx'.cnt = c + 1
      /\ rx'.lrc = rx.lrc /\ rx'.lastData = DigitValue(input[1])
      /\ rx'.lastByte = rx.lastByte /\ rx'.crc = rx.crc
      /\ UNCHANGED <<uart0_in, sendRequest, underflow>>
  BY <1>1, FirstEffect
<1>3. (c + 1) \div 2 = c \div 2 /\ (c + 1 >= 2 => c >= 2) /\ (c + 1 < 2 => c < 2)
  OBVIOUS
<1>4. /\ c >= 2 => /\ rx.lastByte = b[c \div 2]
                   /\ rx.crc = CrcFold(SubSeq(b, 1, c \div 2 - 1))
      /\ c < 2 => rx.crc = CrcStart
      /\ uart0_in.rIndex = 0 /\ uart0_in.wIndex = c \div 2 /\ uart0_in.length = c \div 2
      /\ \A i \in 1 .. c \div 2 : uart0_in.buffer[i - 1] = b[i]
  BY DEF Collected
<1>5. /\ c + 1 >= 2 => /\ rx'.lastByte = b[(c + 1) \div 2]
                       /\ rx'.crc = CrcFold(SubSeq(b, 1, (c + 1) \div 2 - 1))
      /\ c + 1 < 2 => rx'.crc = CrcStart
      /\ uart0_in'.rIndex = 0 /\ uart0_in'.wIndex = (c + 1) \div 2
      /\ uart0_in'.length = (c + 1) \div 2
      /\ \A i \in 1 .. (c + 1) \div 2 : uart0_in'.buffer[i - 1] = b[i]
  BY <1>2, <1>3, <1>4
<1>6. Collected(b, c + 1, rx', uart0_in')
  BY <1>1, <1>2, <1>5, Zenon DEF Collected
<1>7. QED
  BY <1>2, <1>6

LEMMA CollectSecond ==
  ASSUME NEW b \in Seq(Byte), NEW c \in Nat, c < 2 * Len(b), Len(b) <= 127, Len(b) < W,
         Inv, Collected(b, c, rx, uart0_in), Receive, input[1] \in Digits,
         DigitValue(input[1]) = Nibble(b, c + 1), c % 2 = 1
  PROVE  Collected(b, c + 1, rx', uart0_in') /\ UNCHANGED <<sendRequest, underflow>>
<1> DEFINE x == rx.lastData * 16 + DigitValue(input[1])
<1>1. /\ rx.cnt = c /\ (c + 1) % 256 = c + 1 /\ SecondDigit
      /\ ReadSoFar(b, c + 1, (rx.lrc + x) % 256, rx.lastData)
  <2>1. LrcAfter(c, rx.lrc, rx.lastData, DigitValue(input[1])) = (rx.lrc + x) % 256
    BY DEF LrcAfter
  <2>2. DataAfter(c, rx.lastData, DigitValue(input[1])) = rx.lastData
    BY DEF DataAfter
  <2>3. QED
    BY <2>1, <2>2, CollectedFields, CountStep
<1>2. x = b[(c + 1) \div 2]
  <2>1. ReadSoFar(b, c, rx.lrc, rx.lastData)
    BY DEF Collected
  <2>2. QED
    BY <2>1, ReadDigit
<1>3. PICK k \in Nat : /\ c = 2 * k + 1 /\ c \div 2 = k /\ (c + 1) \div 2 = k + 1 /\ k < Len(b)
                      /\ (k + 1) - 1 = k
  <2>1. /\ c \div 2 \in Nat /\ c = 2 * (c \div 2) + 1 /\ (c + 1) \div 2 = (c \div 2) + 1
    OBVIOUS
  <2>2. PICK m \in Nat : m = Len(b)
    OBVIOUS
  <2>3. c \div 2 < m
    BY <2>1, <2>2
  <2>4. QED
    BY <2>1, <2>2, <2>3
<1> HIDE DEF x
<1>4. /\ x \in Byte /\ rx'.frameActive /\ ~rx'.frameEnd /\ rx'.cnt = c + 1
      /\ rx'.lrc = (rx.lrc + x) % 256 /\ rx'.lastData = rx.lastData /\ rx'.lastByte = x
      /\ rx'.crc = IF rx.cnt > 1 THEN app_updateModbusCrc(rx.crc, rx.lastByte) ELSE rx.crc
      /\ uart0_in' = [buffer |-> [uart0_in.buffer EXCEPT ![uart0_in.wIndex] = x],
                      length |-> Wrap(uart0_in.length + 1),
                      wIndex |-> Wrap(uart0_in.wIndex + 1), rIndex |-> uart0_in.rIndex]
      /\ UNCHANGED <<sendRequest, underflow>>
  BY <1>1, SecondEffect DEF x
<1>5. /\ c >= 2 => /\ rx.lastByte = b[k]
                   /\ rx.crc = CrcFold(SubSeq(b, 1, k - 1))
      /\ c < 2 => rx.crc = CrcStart
      /\ uart0_in.rIndex = 0 /\ uart0_in.wIndex = k /\ uart0_in.length = k
      /\ \A i \in 1 .. k : uart0_in.buffer[i - 1] = b[i]
  BY <1>3 DEF Collected
<1>6. rx'.crc = CrcFold(SubSeq(b, 1, k))
  <2>1. CASE k = 0
    <3>1. c < 2 /\ ~(rx.cnt > 1)
      BY <1>1, <1>3, <2>1
    <3>2. SubSeq(b, 1, 0) = <<>>
      OBVIOUS
    <3>3. rx'.crc = rx.crc /\ rx.crc = CrcStart
      BY <1>4, <1>5, <3>1, Zenon
    <3>4. CrcFold(SubSeq(b, 1, 0)) = CrcStart
      BY <3>2, CrcFoldEmpty, Zenon
    <3>5. QED
      BY <2>1, <3>3, <3>4, Zenon
  <2>2. CASE k # 0
    <3>1. c >= 2 /\ rx.cnt > 1
      BY <1>1, <1>3, <2>2
    <3>2. k - 1 \in 0 .. Len(b) - 1 /\ (k - 1) + 1 = k /\ k \in 1 .. Len(b)
      BY <1>3, <2>2
    <3>3. SubSeq(b, 1, (k - 1) + 1) = Append(SubSeq(b, 1, k - 1), b[(k - 1) + 1])
      BY <3>2, NextPrefix
    <3>4. SubSeq(b, 1, k - 1) \in Seq(Byte) /\ b[k] \in Byte
      BY <3>2
    <3>5. CrcFold(SubSeq(b, 1, k)) = app_updateModbusCrc(CrcFold(SubSeq(b, 1, k - 1)), b[k])
      BY <3>2, <3>3, <3>4, CrcFoldAppend
    <3>6. QED
      BY <1>4, <1>5, <3>1, <3>5
  <2>3. QED
    BY <2>1, <2>2
<1>7. /\ uart0_in'.rIndex = 0 /\ uart0_in'.wIndex = k + 1 /\ uart0_in'.length = k + 1
  <2>1. Wrap(k + 1) = k + 1
    BY <1>3, SizeAssumption DEF Wrap
  <2>2. QED
    BY <1>4, <1>5, <2>1
<1>8. \A i \in 1 .. k + 1 : uart0_in'.buffer[i - 1] = b[i]
  <2>1. uart0_in.buffer \in [Index -> Byte] /\ k \in Index
    BY <1>3, ReceivedFields, RingFields, SizeAssumption DEF Index
  <2>2. uart0_in'.buffer = [uart0_in.buffer EXCEPT ![k] = x]
    BY <1>4, <1>5
  <2>3. b[k + 1] = x
    BY <1>2, <1>3
  <2> SUFFICES ASSUME NEW i \in 1 .. k + 1 PROVE uart0_in'.buffer[i - 1] = b[i]
    OBVIOUS
  <2>4. CASE i = k + 1
    <3>1. i - 1 = k
      BY <2>4, <1>3
    <3>2. QED
      BY <2>1, <2>2, <2>3, <2>4, <3>1
  <2>5. CASE i # k + 1
    <3>1. i \in 1 .. k /\ i - 1 # k /\ i - 1 \in Index
      <4>1. i \in 1 .. k /\ i - 1 # k /\ i - 1 \in 0 .. k
        BY <2>5
      <4>2. QED
        BY <2>1, <4>1, SizeAssumption DEF Index
    <3>2. QED
      BY <1>5, <2>1, <2>2, <3>1
  <2>6. QED
    BY <2>4, <2>5
<1>9. /\ rx'.frameActive /\ ~rx'.frameEnd /\ rx'.cnt = c + 1
      /\ ReadSoFar(b, c + 1, rx'.lrc, rx'.lastData)
  BY <1>1, <1>4
<1>10. /\ rx'.lastByte = b[(c + 1) \div 2]
       /\ rx'.crc = CrcFold(SubSeq(b, 1, (c + 1) \div 2 - 1))
       /\ uart0_in'.rIndex = 0 /\ uart0_in'.wIndex = (c + 1) \div 2
       /\ uart0_in'.length = (c + 1) \div 2
       /\ \A i \in 1 .. (c + 1) \div 2 : uart0_in'.buffer[i - 1] = b[i]
  BY <1>2, <1>3, <1>4, <1>6, <1>7, <1>8
<1>11. ~(c + 1 < 2)
  BY <1>3
<1>12. Collected(b, c + 1, rx', uart0_in')
  BY <1>9, <1>10, <1>11, Zenon DEF Collected
<1>13. QED
  BY <1>4, <1>12

LEMMA FrameOfLine ==
  ASSUME NEW line, NEW n, LineOf(line, n), NEW m, m = BufferOf(line)
  PROVE  /\ Rtu(m) \in Seq(Byte) /\ Len(Rtu(m)) = n + 1
         /\ m = SubSeq(BufferWithLrc(line), 1, n - 1)
         /\ \A i \in 1 .. n - 1 : Rtu(m)[i] = BufferWithLrc(line)[i]
         /\ Rtu(m)[n] = ByteOf(CrcFold(m), 0) /\ Rtu(m)[n + 1] = ByteOf(CrcFold(m), 8)
<1> DEFINE b == BufferWithLrc(line)
           q == CrcBytes(CrcFold(m))
<1>1. n \in Nat /\ n >= 3
  BY DEF LineOf
<1>2. b \in Seq(Byte) /\ Len(b) = n /\ m = SubSeq(b, 1, n - 1)
  BY LineBytes DEF DigitsSay
<1> HIDE DEF b
<1>3. /\ n - 1 \in 0 .. Len(b) /\ (n - 1) + 1 = n /\ (n - 1) + 2 = n + 1
  BY <1>1, <1>2
<1>4. m \in Seq(Byte) /\ Len(m) = n - 1 /\ \A i \in 1 .. n - 1 : m[i] = b[i]
  <2>1. PICK k \in 0 .. Len(b) : k = n - 1
    BY <1>3
  <2>2. /\ SubSeq(b, 1, k) \in Seq(Byte) /\ Len(SubSeq(b, 1, k)) = k
        /\ \A i \in 1 .. k : SubSeq(b, 1, k)[i] = b[i]
    BY <1>2
  <2>3. QED
    BY <1>2, <2>1, <2>2
<1>5. q \in Seq(Byte) /\ Len(q) = 2
  BY CrcBytesType
<1>6. q[1] = ByteOf(CrcFold(m), 0) /\ q[2] = ByteOf(CrcFold(m), 8)
  BY DEF CrcBytes
<1>7. Rtu(m) = m \o q
  BY DEF Rtu, CrcFold
<1> HIDE DEF q
<1>8. /\ m \o q \in Seq(Byte) /\ Len(m \o q) = Len(m) + 2
      /\ \A i \in 1 .. Len(m) : (m \o q)[i] = m[i]
      /\ (m \o q)[Len(m) + 1] = q[1] /\ (m \o q)[Len(m) + 2] = q[2]
  BY <1>4, <1>5, JoinPair
<1>9. QED
  BY <1>2, <1>3, <1>4, <1>6, <1>7, <1>8 DEF b

LEMMA RestOfLine ==
  ASSUME NEW s \in Seq(Byte), NEW p \in 0 .. Len(s) - 1
  PROVE  /\ SubSeq(s, p + 1, Len(s)) # <<>> /\ SubSeq(s, p + 1, Len(s))[1] = s[p + 1]
         /\ Tail(SubSeq(s, p + 1, Len(s))) = SubSeq(s, (p + 1) + 1, Len(s))
<1>1. p + 1 \in 1 .. Len(s)
  OBVIOUS
<1>2. QED
  BY <1>1, HeadTailOfSubSeq, SMTT(60)

LEMMA GoodParts ==
  ASSUME NEW line, NEW p, NEW text, NEW r, NEW ring
  PROVE  Good(line, p, text, r, ring) <=>
           /\ p \in 0 .. Len(line) - 1 /\ text = SubSeq(line, p + 1, Len(line))
           /\ p \in 1 .. Len(line) - 2 => Collected(BufferWithLrc(line), p - 1, r, ring)
           /\ p = Len(line) - 1 => /\ r.frameActive /\ r.frameEnd /\ r.lrc = 0
                                   /\ ring.rIndex = 0
                                   /\ ring.length = Len(Rtu(BufferOf(line)))
                                   /\ Holds(ring, Rtu(BufferOf(line)))
BY Zenon DEF Good

\* CR: the CRC takes its place in the ring, and the frame is complete.
LEMMA CollectEnd ==
  ASSUME NEW line, NEW n, LineOf(line, n), n + 1 < W, ByteSum(BufferWithLrc(line)) = 0,
         Inv, Collected(BufferWithLrc(line), 2 * n, rx, uart0_in), Receive, input[1] = CR
  PROVE  /\ rx'.frameActive /\ rx'.frameEnd /\ rx'.lrc = 0
         /\ uart0_in'.rIndex = 0 /\ uart0_in'.length = Len(Rtu(BufferOf(line)))
         /\ Holds(uart0_in', Rtu(BufferOf(line)))
         /\ UNCHANGED <<sendRequest, underflow>>
<1> DEFINE b == BufferWithLrc(line)
           m == BufferOf(line)
           frame == Rtu(m)
<1>1. n \in Nat /\ n >= 3
  BY DEF LineOf
<1>2. b \in Seq(Byte) /\ Len(b) = n
  BY LineBytes DEF DigitsSay
<1>3. (2 * n) \div 2 = n /\ (2 * n) % 2 = 0 /\ 2 * n >= 2
  BY <1>1
<1>4. /\ frame \in Seq(Byte) /\ Len(frame) = n + 1 /\ m = SubSeq(b, 1, n - 1)
      /\ \A i \in 1 .. n - 1 : frame[i] = b[i]
      /\ frame[n] = ByteOf(CrcFold(m), 0) /\ frame[n + 1] = ByteOf(CrcFold(m), 8)
  BY FrameOfLine
<1>5. Collected(b, 2 * n, rx, uart0_in) /\ ByteSum(b) = 0
  OBVIOUS
<1> HIDE DEF b, m, frame
<1>6. /\ rx.frameActive /\ ~rx.frameEnd
      /\ rx.cnt = 2 * n /\ ReadSoFar(b, 2 * n, rx.lrc, rx.lastData)
      /\ rx.crc = CrcFold(SubSeq(b, 1, n - 1))
      /\ uart0_in.rIndex = 0 /\ uart0_in.wIndex = n /\ uart0_in.length = n
      /\ \A i \in 1 .. n : uart0_in.buffer[i - 1] = b[i]
  BY <1>3, <1>5 DEF Collected
<1>7. rx.lrc = 0
  <2>1. rx.lrc = ByteSum(SubSeq(b, 1, n))
    BY <1>3, <1>6 DEF ReadSoFar
  <2>2. QED
    BY <1>2, <1>5, <2>1, WholeSequence
<1>8. Returns
  BY <1>3, <1>6 DEF Returns, InFrame
<1>9. /\ rx'.frameActive /\ rx'.frameEnd /\ rx'.lrc = rx.lrc
      /\ uart0_in' = [buffer |-> [uart0_in.buffer EXCEPT
                                    ![uart0_in.wIndex - 1] = ByteOf(rx.crc, 0),
                                    ![uart0_in.wIndex] = ByteOf(rx.crc, 8)],
                      length |-> Wrap(uart0_in.length + 1),
                      wIndex |-> Wrap(uart0_in.wIndex + 1), rIndex |-> uart0_in.rIndex]
      /\ UNCHANGED <<sendRequest, underflow>>
  <2>1. uart0_in.wIndex # 0
    BY <1>1, <1>6
  <2>2. QED
    BY <1>8, <2>1, ReceivedCharacter, ReturnEffect
<1>10. uart0_in'.rIndex = 0 /\ uart0_in'.length = n + 1
  <2>1. Wrap(n + 1) = n + 1
    BY <1>1, SizeAssumption DEF Wrap
  <2>2. QED
    BY <1>6, <1>9, <2>1
<1>11. \A i \in 1 .. n + 1 : uart0_in'.buffer[i - 1] = frame[i]
  <2>1. uart0_in.buffer \in [Index -> Byte]
    BY ReceivedFields, RingFields
  <2>2. n \in Index /\ n - 1 \in Index /\ n - 1 # n
    BY <1>1, SizeAssumption DEF Index
  <2>3. uart0_in'.buffer = [uart0_in.buffer EXCEPT ![n - 1] = frame[n], ![n] = frame[n + 1]]
    BY <1>4, <1>6, <1>9
  <2> SUFFICES ASSUME NEW i \in 1 .. n + 1 PROVE uart0_in'.buffer[i - 1] = frame[i]
    OBVIOUS
  <2>4. CASE i = n + 1
    <3>1. i - 1 = n
      BY <1>1, <2>4
    <3>2. QED
      BY <2>1, <2>2, <2>3, <2>4, <3>1
  <2>5. CASE i = n
    BY <2>1, <2>2, <2>3, <2>5
  <2>6. CASE i # n + 1 /\ i # n
    <3>1. i \in 1 .. n - 1 /\ i \in 1 .. n /\ i - 1 # n /\ i - 1 # n - 1 /\ i - 1 \in 0 .. n
      BY <1>1, <2>6
    <3>2. i - 1 \in Index
      BY <2>2, <3>1, SizeAssumption DEF Index
    <3>3. uart0_in'.buffer[i - 1] = uart0_in.buffer[i - 1]
      BY <2>1, <2>3, <3>1, <3>2
    <3>4. QED
      BY <1>4, <1>6, <3>1, <3>3
  <2>7. QED
    BY <2>4, <2>5, <2>6
<1>12. Holds(uart0_in', frame)
  BY <1>4, <1>11 DEF Holds
<1>13. QED
  BY <1>4, <1>7, <1>9, <1>10, <1>12 DEF frame, m

\* What a line must be for its frame to pass through the ring.
Fits(line, n) ==
  LineOf(line, n) /\ n <= 127 /\ n + 1 < W /\ ByteSum(BufferWithLrc(line)) = 0

LEMMA ReceivingReceive ==
  ASSUME NEW line, NEW n, Fits(line, n), Inv, Receive, ~underflow', NEW p, Receiving(line, p)
  PROVE  \/ Receiving(line, p + 1)'
         \/ Transmitting(Rtu(BufferOf(line)))'
<1> DEFINE b == BufferWithLrc(line)
           frame == Rtu(BufferOf(line))
           good(x) == Good(line, x, input', rx', uart0_in')
<1>0. /\ n \in Nat /\ n >= 3 /\ line \in Seq(Byte) /\ Len(line) = 2 * n + 3
      /\ line[1] = Colon /\ line[2 * n + 2] = CR /\ line[2 * n + 3] = LF
      /\ \A i \in 1 .. 2 * n : line[i + 1] \in Digits
      /\ LineOf(line, n) /\ n <= 127 /\ n + 1 < W /\ n < W /\ ByteSum(b) = 0
  <2>1. n \in Nat /\ n + 1 < W
    BY DEF Fits, LineOf
  <2>2. n < W
    BY <2>1, SizeAssumption
  <2>3. QED
    BY <2>1, <2>2 DEF Fits, LineOf
<1>n. b \in Seq(Byte) /\ Len(b) = n /\ \A i \in 1 .. 2 * n : DigitValue(line[i + 1]) = Nibble(b, i)
  BY <1>0, LineBytes DEF DigitsSay
<1>1. /\ Quiet /\ wanted = Append(framesOut, frame)
      /\ p \in 0 .. Len(line) - 1 /\ input = SubSeq(line, p + 1, Len(line))
      /\ p \in 1 .. Len(line) - 2 => Collected(b, p - 1, rx, uart0_in)
      /\ p = Len(line) - 1 => /\ rx.frameActive /\ rx.frameEnd /\ rx.lrc = 0
                              /\ uart0_in.rIndex = 0
                              /\ uart0_in.length = Len(frame)
                              /\ Holds(uart0_in, frame)
  BY GoodParts DEF Receiving
<1>2. /\ input' = Tail(input) /\ UNCHANGED wanted /\ UNCHANGED sending /\ UNCHANGED busHistory
  BY ReceivedCharacter, Zenon
<1>3. input[1] = line[p + 1] /\ input' = SubSeq(line, (p + 1) + 1, Len(line))
  BY <1>0, <1>1, <1>2, RestOfLine
<1> HIDE DEF b, frame
<1>4. ASSUME UNCHANGED sendRequest, p + 1 \in 0 .. Len(line) - 1,
             p + 1 \in 1 .. Len(line) - 2 => Collected(b, (p + 1) - 1, rx', uart0_in'),
             p + 1 = Len(line) - 1 => /\ rx'.frameActive /\ rx'.frameEnd /\ rx'.lrc = 0
                                     /\ uart0_in'.rIndex = 0
                                     /\ uart0_in'.length = Len(frame)
                                     /\ Holds(uart0_in', frame)
      PROVE  Receiving(line, p + 1)'
  <2>1. good(p + 1)
    BY <1>3, <1>4, GoodParts DEF b, frame
  <2>2. Quiet' /\ framesOut' = framesOut
    BY <1>1, <1>2, <1>4, SendingKept
  <2> HIDE DEF good
  <2>3. wanted' = Append(framesOut', frame)
    BY <1>1, <1>2, <2>2
  <2>4. QED
    BY <2>1, <2>2, <2>3, Zenon DEF Receiving, good, frame
<1>5. CASE p = 0
  <2>1. Starts
    BY <1>0, <1>3, <1>5 DEF Starts
  <2>2. /\ rx'.frameActive /\ ~rx'.frameEnd /\ rx'.cnt = 0 /\ rx'.lrc = 0 /\ rx'.crc = CrcStart
        /\ uart0_in'.length = 0 /\ uart0_in'.wIndex = 0 /\ uart0_in'.rIndex = 0
        /\ UNCHANGED sendRequest
    BY <2>1, ReceivedCharacter, StartEffect
  <2>3. ReadSoFar(b, 0, 0, rx'.lastData)
    BY <1>n, NothingRead
  <2>4. Collected(b, 0, rx', uart0_in')
    <3>1. 0 \div 2 = 0 /\ ~(0 >= 2) /\ 0 < 2
      OBVIOUS
    <3>2. \A i \in 1 .. 0 : uart0_in'.buffer[i - 1] = b[i]
      OBVIOUS
    <3>3. QED
      BY <2>2, <2>3, <3>1, <3>2, Zenon DEF Collected
  <2>5. (p + 1) - 1 = 0 /\ p + 1 \in 0 .. Len(line) - 1 /\ p + 1 # Len(line) - 1
    BY <1>0, <1>5
  <2>6. QED
    BY <1>4, <2>2, <2>4, <2>5
<1>6. CASE p \in 1 .. 2 * n
  <2>1. PICK c \in Nat : c = p - 1
    BY <1>6
  <2>2. /\ Collected(b, c, rx, uart0_in) /\ c < 2 * n /\ c + 1 = p
        /\ (p + 1) - 1 = c + 1 /\ p + 1 \in 0 .. Len(line) - 1 /\ p + 1 # Len(line) - 1
    <3>1. p \in 1 .. Len(line) - 2 /\ c < 2 * n /\ c + 1 = p
          /\ (p + 1) - 1 = c + 1 /\ p + 1 \in 0 .. Len(line) - 1 /\ p + 1 # Len(line) - 1
      BY <1>0, <1>6, <2>1
    <3>2. QED
      BY <1>1, <2>1, <3>1
  <2>3. input[1] \in Digits /\ DigitValue(input[1]) = Nibble(b, c + 1)
    BY <1>0, <1>3, <1>6, <1>n, <2>2
  <2>4. c < 2 * Len(b) /\ Len(b) <= 127 /\ Len(b) < W
    BY <1>0, <1>n, <2>2
  <2>5. Collected(b, c + 1, rx', uart0_in') /\ UNCHANGED sendRequest
    <3>1. CASE c % 2 = 0
      BY <1>n, <2>2, <2>3, <2>4, <3>1, CollectFirst
    <3>2. CASE c % 2 = 1
      BY <1>n, <2>2, <2>3, <2>4, <3>2, CollectSecond
    <3>3. c % 2 = 0 \/ c % 2 = 1
      OBVIOUS
    <3>4. QED
      BY <3>1, <3>2, <3>3
  <2>6. QED
    BY <1>4, <2>2, <2>5
<1>7. CASE p = 2 * n + 1
  <2>1. p \in 1 .. Len(line) - 2 /\ p - 1 = 2 * n /\ p + 1 = 2 * n + 2
        /\ p + 1 \in 0 .. Len(line) - 1 /\ p + 1 \notin 1 .. Len(line) - 2
    BY <1>0, <1>7
  <2>2. Collected(b, 2 * n, rx, uart0_in) /\ input[1] = CR
    BY <1>0, <1>1, <1>3, <2>1
  <2>3. /\ rx'.frameActive /\ rx'.frameEnd /\ rx'.lrc = 0
        /\ uart0_in'.rIndex = 0 /\ uart0_in'.length = Len(frame)
        /\ Holds(uart0_in', frame)
        /\ UNCHANGED sendRequest
    BY <1>0, <2>2, CollectEnd DEF b, frame
  <2>4. QED
    BY <1>4, <2>1, <2>3
<1>8. CASE p = 2 * n + 2
  <2>1. p = Len(line) - 1 /\ p + 1 = Len(line)
    BY <1>0, <1>8
  <2>2. input[1] = LF /\ input' = <<>>
    <3>1. SubSeq(line, Len(line) + 1, Len(line)) = <<>>
      BY <1>0
    <3>2. QED
      BY <1>0, <1>3, <2>1, <3>1
  <2>3. /\ ~rx'.frameActive /\ UNCHANGED uart0_in /\ sendRequest'
        /\ uart0_in.rIndex = 0 /\ uart0_in.length = Len(frame) /\ Holds(uart0_in, frame)
    <3>1. Ends /\ rx.lrc = 0
      BY <1>1, <2>1, <2>2 DEF Ends
    <3>2. QED
      BY <1>1, <2>1, <3>1, ReceivedCharacter, EndEffect
  <2>4. /\ main' = main /\ main.at = "top" /\ uart1' = uart1 /\ bytesOut' = bytesOut
        /\ framesOut' = framesOut /\ bytesOut = <<>> /\ driver' = driver /\ uart1 = <<>>
    <3>1. /\ main' = main /\ uart1' = uart1 /\ bytesOut' = bytesOut
          /\ framesOut' = framesOut /\ driver' = driver
      BY <1>2, Zenon DEF sending, busHistory
    <3>2. main.at = "top" /\ bytesOut = <<>> /\ ~driver
      BY <1>1 DEF Quiet
    <3>3. uart1 = <<>>
      BY <3>2, Zenon DEF Inv, DriverHolds
    <3>4. QED
      BY <3>1, <3>2, <3>3
  <2>5. frame \in Seq(Byte) /\ Len(frame) = n + 1 /\ Len(frame) \in Nat
        /\ Len(frame) > 0 /\ Len(frame) < W
    <3>1. frame \in Seq(Byte) /\ Len(frame) = n + 1
      BY <1>0, FrameOfLine DEF frame
    <3>2. QED
      BY <1>0, <3>1
  <2>6. Progress(frame, uart0_in', main', bytesOut' \o uart1')
    <3>1. bytesOut' \o uart1' = SubSeq(frame, 1, 0)
      BY <2>4, <2>5
    <3>2. main'.at = "top" /\ uart0_in'.rIndex = 0 /\ uart0_in'.length = Len(frame) - 0
      BY <2>3, <2>4, <2>5
    <3>3. QED
      BY <3>1, <3>2 DEF Progress
  <2>7. Transmitting(frame)'
    <3>1. wanted' = Append(framesOut', frame) /\ input' = <<>> /\ ~rx'.frameActive
      BY <1>1, <1>2, <2>2, <2>3, <2>4
    <3>2. sendRequest' <=> main'.at # "release"
      BY <2>3, <2>4
    <3>3. uart0_in'.rIndex = 0 /\ 0 \in 0 .. Len(frame) /\ Holds(uart0_in', frame) /\ ~(0 > 0)
      BY <2>3, <2>5
    <3>4. QED
      BY <2>5, <2>6, <3>1, <3>2, <3>3, Zenon DEF Transmitting
  <2>8. QED
    BY <2>7 DEF frame
<1>9. QED
  <2>1. p = 0 \/ p \in 1 .. 2 * n \/ p = 2 * n + 1 \/ p = 2 * n + 2
    BY <1>0, <1>1
  <2>2. QED
    BY <1>5, <1>6, <1>7, <1>8, <2>1

-----------------------------------------------------------------------------
(* The frame is sent *)

LEMMA TransmittingFields ==
  ASSUME NEW frame, frame \in Seq(Byte), Transmitting(frame), Inv,
         NEW x, x = uart0_in.rIndex, NEW left, left = Len(frame) - x
  PROVE  /\ x \in Nat /\ x <= Len(frame) /\ left \in Nat /\ Len(frame) \in Nat
         /\ Len(frame) < W /\ Len(frame) > 0
         /\ left > 0 => x \in Index /\ uart0_in.buffer[x] = frame[x + 1] /\ Wrap(x + 1) = x + 1
         /\ uart0_in.buffer \in [Index -> Byte]
         /\ main \in MainType /\ uart0_in \in RingOf(Byte)
         /\ uart1 \in Seq(Byte) /\ bytesOut \in Seq(Byte)
<1>1. /\ x \in 0 .. Len(frame) /\ Len(frame) > 0 /\ Len(frame) < W /\ Holds(uart0_in, frame)
  BY DEF Transmitting
<1>2. PICK k \in Nat : k = Len(frame)
  OBVIOUS
<1>3. x \in Nat /\ x <= k /\ left \in Nat
  BY <1>1, <1>2
<1>4. ASSUME left > 0
      PROVE  x \in Index /\ uart0_in.buffer[x] = frame[x + 1] /\ Wrap(x + 1) = x + 1
  <2>1. x + 1 \in 1 .. k /\ (x + 1) - 1 = x
    BY <1>2, <1>3, <1>4
  <2>2. uart0_in.buffer[(x + 1) - 1] = frame[x + 1]
    BY <1>1, <1>2, <2>1 DEF Holds
  <2>3. x \in Index /\ Wrap(x + 1) = x + 1
    BY <1>1, <1>2, <1>3, <2>1, SizeAssumption DEF Index, Wrap
  <2>4. QED
    BY <2>1, <2>2, <2>3
<1>5. /\ uart0_in.buffer \in [Index -> Byte]
      /\ main \in MainType /\ uart0_in \in RingOf(Byte)
      /\ uart1 \in Seq(Byte) /\ bytesOut \in Seq(Byte)
  BY RingFields DEF Inv, ReceivedOK, SendingOK, HistoryOK
<1>6. QED
  BY <1>1, <1>2, <1>3, <1>4, <1>5

\* Another byte has been sent, or none.
LEMMA StillTransmitting ==
  ASSUME NEW frame, Transmitting(frame), UNCHANGED <<wanted, input, rx, framesOut>>,
         sendRequest' <=> main'.at # "release",
         uart0_in'.buffer = uart0_in.buffer, uart0_in'.rIndex \in 0 .. Len(frame),
         uart0_in'.rIndex > 0 => driver',
         Progress(frame, uart0_in', main', bytesOut' \o uart1')
  PROVE  Transmitting(frame)'
<1>1. Holds(uart0_in', frame)
  BY DEF Transmitting, Holds
<1>2. /\ wanted' = Append(framesOut', frame) /\ input' = <<>> /\ ~rx'.frameActive
      /\ Len(frame) > 0 /\ Len(frame) < W
  BY DEF Transmitting
<1>3. QED
  BY <1>1, <1>2, Zenon DEF Transmitting

LEMMA TransmittingTests ==
  ASSUME NEW frame, frame \in Seq(Byte), Transmitting(frame), Inv,
         Poll \/ TestComplete \/ TestReady \/ Load
  PROVE  Transmitting(frame)'
<1> DEFINE x == uart0_in.rIndex
           left == Len(frame) - x
           out == bytesOut \o uart1
<1>1. /\ UNCHANGED <<received, driver, uart1, txComplete, environment, busHistory>>
  BY Zenon DEF Poll, TestComplete, TestReady, Load
<1>2. /\ UNCHANGED <<wanted, input, rx, framesOut>> /\ UNCHANGED <<uart0_in, sendRequest, driver>>
      /\ bytesOut' \o uart1' = out
  BY <1>1, Zenon DEF received, environment, busHistory
<1>3. /\ x \in 0 .. Len(frame) /\ (x > 0 => driver)
      /\ sendRequest <=> main.at # "release"
  BY DEF Transmitting
<1>t. left \in Nat /\ main \in MainType
  BY TransmittingFields
<1>p. Progress(frame, uart0_in, main, out)
  BY DEF Transmitting
<1>4. ASSUME main'.at # "release", main.at # "release", Progress(frame, uart0_in, main', out)
      PROVE  Transmitting(frame)'
  BY <1>2, <1>3, <1>4, StillTransmitting
<1>5. CASE Poll
  <2>1. /\ main.at = "top"
        /\ main' = [main EXCEPT !.at = IF uart0_in.length = 0 THEN "complete" ELSE "drive",
                                !.length = uart0_in.length]
    BY <1>5 DEF Poll
  <2>2. uart0_in.length = left /\ out = SubSeq(frame, 1, x)
    BY <1>p, <2>1 DEF Progress
  <2>3. /\ main'.at = (IF left = 0 THEN "complete" ELSE "drive") /\ main'.length = left
    BY <1>t, <2>1, <2>2 DEF MainType
  <2> HIDE DEF left, out, x
  <2>4. main'.at # "release" /\ main.at # "release"
    BY <2>1, <2>3
  <2>5. Progress(frame, uart0_in, main', out)
    <3>1. CASE left = 0
      BY <2>2, <2>3, <3>1 DEF Progress, left, x
    <3>2. CASE left # 0
      <4>1. left > 0
        BY <1>t, <3>2
      <4>2. QED
        BY <2>2, <2>3, <4>1 DEF Progress, left, x
    <3>3. QED
      BY <3>1, <3>2
  <2>6. QED
    BY <1>4, <2>4, <2>5
<1>6. CASE TestComplete
  <2>1. main.at = "complete" /\ main' = [main EXCEPT !.at = IF txComplete THEN "clear" ELSE "top"]
    BY <1>6 DEF TestComplete, Goto
  <2>2. uart0_in.length = 0 /\ left = 0 /\ out = SubSeq(frame, 1, x)
    BY <1>p, <2>1 DEF Progress
  <2>3. main'.at \in {"clear", "top"}
    BY <1>t, <2>1 DEF MainType
  <2>4. main'.at # "release" /\ main.at # "release"
    BY <2>1, <2>3
  <2>5. Progress(frame, uart0_in, main', out)
    BY <2>2, <2>3 DEF Progress
  <2>6. QED
    BY <1>4, <2>4, <2>5
<1>7. CASE TestReady
  <2>1. main.at = "ready" /\ main' = [main EXCEPT !.at = IF Len(uart1) < 2 THEN "load" ELSE "top"]
    BY <1>7 DEF TestReady, Goto
  <2>2. uart0_in.length = left /\ main.length = left /\ left > 0 /\ out = SubSeq(frame, 1, x)
    BY <1>p, <2>1 DEF Progress
  <2>3. main'.at \in {"load", "top"} /\ main'.length = main.length
    BY <1>t, <2>1 DEF MainType
  <2>4. main'.at # "release" /\ main.at # "release"
    BY <2>1, <2>3
  <2>5. Progress(frame, uart0_in, main', out)
    BY <2>2, <2>3 DEF Progress
  <2>6. QED
    BY <1>4, <2>4, <2>5
<1>8. CASE Load
  <2>1. PICK n \in {main.length, uart0_in.length} :
          main' = [main EXCEPT !.at = IF n > 0 THEN "store" ELSE "transmit",
                               !.length = n, !.byte = 0]
    BY <1>8 DEF Load
  <2>2. main.at = "load"
    BY <1>8 DEF Load
  <2>3. uart0_in.length = left /\ main.length = left /\ left > 0 /\ out = SubSeq(frame, 1, x)
    BY <1>p, <2>2 DEF Progress
  <2>4. main'.at = "store" /\ main'.length = left
    BY <1>t, <2>1, <2>3 DEF MainType
  <2>5. main'.at # "release" /\ main.at # "release"
    BY <2>2, <2>4
  <2>6. Progress(frame, uart0_in, main', out)
    BY <2>3, <2>4 DEF Progress
  <2>7. QED
    BY <1>4, <2>5, <2>6
<1>9. QED
  BY <1>5, <1>6, <1>7, <1>8

LEMMA TransmittingReads ==
  ASSUME NEW frame, frame \in Seq(Byte), Transmitting(frame), Inv,
         StoreLength \/ LoadIndex \/ TakeByte
  PROVE  Transmitting(frame)'
<1> DEFINE x == uart0_in.rIndex
           left == Len(frame) - x
           out == bytesOut \o uart1
<1>1. /\ UNCHANGED <<sendRequest, rx, driver, uart1, environment, busHistory>>
  BY Zenon DEF StoreLength, LoadIndex, TakeByte, received
<1>2. /\ UNCHANGED <<wanted, input, rx, framesOut>> /\ UNCHANGED <<sendRequest, driver>>
      /\ bytesOut' \o uart1' = out
  BY <1>1, Zenon DEF environment, busHistory
<1>3. /\ x \in 0 .. Len(frame) /\ (x > 0 => driver)
      /\ sendRequest <=> main.at # "release"
  BY DEF Transmitting
<1>t. /\ x \in Nat /\ left \in Nat /\ main \in MainType /\ uart0_in \in RingOf(Byte)
      /\ uart0_in.buffer \in [Index -> Byte] /\ Len(frame) \in Nat
      /\ left > 0 => x \in Index /\ uart0_in.buffer[x] = frame[x + 1] /\ Wrap(x + 1) = x + 1
  BY TransmittingFields
<1>p. Progress(frame, uart0_in, main, out)
  BY DEF Transmitting
<1>4. ASSUME main'.at # "release", main.at # "release", Progress(frame, uart0_in', main', out),
             uart0_in'.buffer = uart0_in.buffer, uart0_in'.rIndex \in 0 .. Len(frame),
             uart0_in'.rIndex > 0 => driver
      PROVE  Transmitting(frame)'
  BY <1>2, <1>3, <1>4, StillTransmitting
<1>5. CASE StoreLength
  <2>1. /\ main.at = "store" /\ main' = [main EXCEPT !.at = "index"]
        /\ uart0_in' = [uart0_in EXCEPT !.length = main.length - 1]
    BY <1>5 DEF StoreLength, Goto
  <2>2. main.length = left /\ left > 0 /\ out = SubSeq(frame, 1, x)
    BY <1>p, <2>1 DEF Progress
  <2>3. main'.at = "index"
    BY <1>t, <2>1 DEF MainType
  <2>4. uart0_in'.length = left - 1 /\ uart0_in'.rIndex = x /\ uart0_in'.buffer = uart0_in.buffer
    BY <1>t, <2>1, <2>2 DEF RingOf
  <2>5. Progress(frame, uart0_in', main', out)
    BY <2>2, <2>3, <2>4 DEF Progress
  <2>6. QED
    BY <1>3, <1>4, <2>1, <2>3, <2>4, <2>5
<1>6. CASE LoadIndex
  <2>1. /\ main.at = "index" /\ main' = [main EXCEPT !.at = "take", !.index = x]
        /\ uart0_in' = uart0_in
    BY <1>6, Zenon DEF LoadIndex, received
  <2>2. uart0_in.length = left - 1 /\ left > 0 /\ out = SubSeq(frame, 1, x)
    BY <1>p, <2>1 DEF Progress
  <2>3. main'.at = "take" /\ main'.index = x
    BY <1>t, <2>1 DEF MainType
  <2>5. Progress(frame, uart0_in', main', out)
    BY <2>1, <2>2, <2>3 DEF Progress
  <2>6. QED
    BY <1>3, <1>4, <2>1, <2>3, <2>5
<1>7. CASE TakeByte
  <2>1. /\ main.at = "take"
        /\ main' = [main EXCEPT !.at = "transmit", !.byte = uart0_in.buffer[main.index]]
        /\ uart0_in' = [uart0_in EXCEPT !.rIndex = Wrap(main.index + 1)]
    BY <1>7 DEF TakeByte
  <2>2. uart0_in.length = left - 1 /\ left > 0 /\ main.index = x /\ out = SubSeq(frame, 1, x)
    BY <1>p, <2>1 DEF Progress
  <2>3. main'.at = "transmit" /\ main'.byte = frame[x + 1]
    BY <1>t, <2>1, <2>2 DEF MainType
  <2>4. /\ uart0_in'.length = left - 1 /\ uart0_in'.rIndex = x + 1
        /\ uart0_in'.buffer = uart0_in.buffer
    BY <1>t, <2>1, <2>2 DEF RingOf
  <2>5. driver
    BY <2>1 DEF Inv, DriverHolds, Sends
  <2>6. x + 1 \in 0 .. Len(frame) /\ x + 1 > 0 /\ (x + 1) - 1 = x /\ Len(frame) - (x + 1) = left - 1
    BY <1>t, <2>2
  <2>7. Progress(frame, uart0_in', main', out)
    <3> HIDE DEF x, left, out
    <3>1. out = SubSeq(frame, 1, (x + 1) - 1)
      BY <2>2, <2>6
    <3>2. QED
      BY <2>3, <2>4, <2>6, <3>1 DEF Progress
  <2>8. QED
    BY <1>4, <2>1, <2>3, <2>4, <2>5, <2>6, <2>7
<1>8. QED
  BY <1>5, <1>6, <1>7

LEMMA TransmittingDrives ==
  ASSUME NEW frame, frame \in Seq(Byte), Transmitting(frame), Inv,
         ClearRequest \/ Drive \/ Transmit
  PROVE  Transmitting(frame)'
<1> DEFINE x == uart0_in.rIndex
           left == Len(frame) - x
           out == bytesOut \o uart1
<1>1. /\ UNCHANGED <<uart0_in, rx, environment, busHistory>>
  BY Zenon DEF ClearRequest, Drive, Transmit, received
<1>2. /\ UNCHANGED <<wanted, input, rx, framesOut>> /\ UNCHANGED <<uart0_in, bytesOut>>
  BY <1>1, Zenon DEF environment, busHistory
<1>3. /\ x \in 0 .. Len(frame) /\ (x > 0 => driver)
      /\ sendRequest <=> main.at # "release"
  BY DEF Transmitting
<1>t. /\ x \in Nat /\ left \in Nat /\ main \in MainType /\ Len(frame) \in Nat /\ x <= Len(frame)
      /\ uart1 \in Seq(Byte) /\ bytesOut \in Seq(Byte)
  BY TransmittingFields
<1>p. Progress(frame, uart0_in, main, out)
  BY DEF Transmitting
<1>4. ASSUME sendRequest' <=> main'.at # "release", x > 0 => driver',
             Progress(frame, uart0_in, main', bytesOut' \o uart1')
      PROVE  Transmitting(frame)'
  BY <1>2, <1>3, <1>4, StillTransmitting
<1>5. CASE ClearRequest
  <2>1. /\ main.at = "clear" /\ main' = [main EXCEPT !.at = "release"] /\ ~sendRequest'
        /\ driver' = driver /\ bytesOut' \o uart1' = out
    BY <1>2, <1>5 DEF ClearRequest, Goto
  <2>2. uart0_in.length = 0 /\ left = 0 /\ out = SubSeq(frame, 1, x)
    BY <1>p, <2>1 DEF Progress
  <2>3. main'.at = "release"
    BY <1>t, <2>1 DEF MainType
  <2>4. Progress(frame, uart0_in, main', out)
    BY <2>2, <2>3 DEF Progress
  <2>5. QED
    BY <1>3, <1>4, <2>1, <2>3, <2>4
<1>6. CASE Drive
  <2>1. /\ main.at = "drive" /\ main' = [main EXCEPT !.at = "ready"] /\ driver'
        /\ sendRequest' = sendRequest /\ bytesOut' \o uart1' = out
    BY <1>2, <1>6 DEF Drive, Goto, received
  <2>2. /\ uart0_in.length = left /\ main.length = left /\ left > 0 /\ out = SubSeq(frame, 1, x)
    BY <1>p, <2>1 DEF Progress
  <2>3. main'.at = "ready" /\ main'.length = main.length
    BY <1>t, <2>1 DEF MainType
  <2>4. Progress(frame, uart0_in, main', out)
    BY <2>2, <2>3 DEF Progress
  <2>5. QED
    BY <1>3, <1>4, <2>1, <2>3, <2>4
<1>7. CASE Transmit
  <2>1. /\ main.at = "transmit" /\ main' = [main EXCEPT !.at = "top"]
        /\ uart1' = Append(uart1, main.byte)
        /\ driver' = driver /\ sendRequest' = sendRequest /\ bytesOut' = bytesOut
    BY <1>2, <1>7 DEF Transmit, Goto, received
  <2>2. /\ uart0_in.length = left /\ x > 0 /\ main.byte = frame[x]
        /\ out = SubSeq(frame, 1, x - 1)
    BY <1>p, <2>1 DEF Progress
  <2>3. main'.at = "top"
    BY <1>t, <2>1 DEF MainType
  <2>4. bytesOut \o Append(uart1, main.byte) = Append(out, main.byte)
    BY <1>t, SMTT(60)
  <2>5. bytesOut' \o uart1' = SubSeq(frame, 1, x)
    <3>1. x - 1 \in 0 .. Len(frame) - 1 /\ (x - 1) + 1 = x
      <4>1. PICK n \in Nat : n = Len(frame)
        OBVIOUS
      <4>2. x \in 0 .. n /\ x > 0
        BY <1>3, <2>2, <4>1, Zenon
      <4> HIDE DEF x
      <4>3. x - 1 \in 0 .. n - 1 /\ (x - 1) + 1 = x
        BY <4>2
      <4>4. QED
        BY <4>1, <4>3, Zenon
    <3> HIDE DEF x, out
    <3>2. SubSeq(frame, 1, (x - 1) + 1) = Append(SubSeq(frame, 1, x - 1), frame[(x - 1) + 1])
      BY <3>1, NextPrefix
    <3>3. QED
      BY <2>1, <2>2, <2>4, <3>1, <3>2
  <2>6. Progress(frame, uart0_in, main', bytesOut' \o uart1')
    BY <2>2, <2>3, <2>5 DEF Progress
  <2>7. QED
    BY <1>3, <1>4, <2>1, <2>3, <2>6
<1>8. QED
  BY <1>5, <1>6, <1>7

LEMMA TransmittingShifts ==
  ASSUME NEW frame, frame \in Seq(Byte), Transmitting(frame), Inv, ShiftedOut
  PROVE  Transmitting(frame)'
<1>1. /\ uart1 # <<>> /\ uart1' = Tail(uart1)
      /\ bytesOut' = IF driver THEN Append(bytesOut, Head(uart1)) ELSE bytesOut
      /\ framesOut' = framesOut /\ main' = main /\ driver' = driver
      /\ UNCHANGED received /\ UNCHANGED environment
  BY DEF ShiftedOut
<1>2. uart1 \in Seq(Byte) /\ bytesOut \in Seq(Byte)
  BY TransmittingFields
<1>3. driver
  BY <1>1 DEF Inv, DriverHolds
<1>4. bytesOut' \o uart1' = bytesOut \o uart1
  <2>1. bytesOut' = Append(bytesOut, Head(uart1))
    BY <1>1, <1>3
  <2>2. Append(bytesOut, Head(uart1)) \o Tail(uart1) = bytesOut \o uart1
    BY <1>1, <1>2
  <2>3. QED
    BY <1>1, <2>1, <2>2
<1>5. /\ UNCHANGED <<wanted, input, rx, framesOut>> /\ UNCHANGED <<uart0_in, sendRequest>>
  BY <1>1, Zenon DEF received, environment
<1>6. /\ uart0_in.rIndex \in 0 .. Len(frame) /\ (sendRequest <=> main.at # "release")
      /\ Progress(frame, uart0_in, main, bytesOut \o uart1)
  BY DEF Transmitting
<1>7. QED
  BY <1>1, <1>3, <1>4, <1>5, <1>6, StillTransmitting

LEMMA NothingToCome == ~rx.frameActive /\ input = <<>> => Harmless(input, rx, uart0_in.wIndex)
<1>1. LastColon(<<>>, 0)
  <2>1. Len(<<>>) = 0 /\ 0 \in 0 .. 0 /\ ~(0 > 0) /\ \A i \in 0 + 1 .. 0 : <<>>[i] # Colon
    OBVIOUS
  <2>2. QED
    BY <2>1 DEF LastColon
<1>2. QED
  BY <1>1, Zenon DEF Harmless

\* The driver is switched off after the last byte of the frame.
LEMMA TransmittingEnds ==
  ASSUME NEW frame, frame \in Seq(Byte), Transmitting(frame), Inv, Release
  PROVE  Idle'
<1>1. /\ main.at = "release" /\ main' = [main EXCEPT !.at = "top"] /\ driver' = FALSE
      /\ bytesOut' = <<>>
      /\ framesOut' = IF bytesOut = <<>> THEN framesOut ELSE Append(framesOut, bytesOut)
      /\ UNCHANGED received /\ UNCHANGED environment
  BY DEF Release, Goto
<1>2. /\ wanted = Append(framesOut, frame) /\ input = <<>> /\ ~rx.frameActive
      /\ sendRequest <=> main.at # "release"
      /\ Progress(frame, uart0_in, main, bytesOut \o uart1)
      /\ Len(frame) > 0
  BY DEF Transmitting
<1>3. uart1 = <<>>
  BY <1>1 DEF Inv, DriverHolds
<1>4. bytesOut = frame
  <2>1. PICK x : x = uart0_in.rIndex
    OBVIOUS
  <2>2. x \in Nat /\ Len(frame) \in Nat /\ bytesOut \in Seq(Byte)
    BY <2>1, TransmittingFields
  <2>3. Len(frame) - x = 0 /\ bytesOut \o uart1 = SubSeq(frame, 1, x)
    BY <1>1, <1>2, <2>1 DEF Progress
  <2>4. x = Len(frame)
    BY <2>2, <2>3
  <2>5. bytesOut \o <<>> = bytesOut
    BY <2>2
  <2>6. QED
    BY <1>3, <2>3, <2>4, <2>5, WholeSequence
<1>5. framesOut' = wanted
  <2>1. frame # <<>>
    BY <1>2
  <2>2. QED
    BY <1>1, <1>2, <1>4, <2>1
<1>6. main'.at = "top"
  BY <1>1 DEF Inv, SendingOK, MainType
<1>7. /\ UNCHANGED <<wanted, input, rx, uart0_in, sendRequest, faults>>
  BY <1>1, Zenon DEF received, environment
<1>8. Quiet'
  BY <1>1, <1>2, <1>6, <1>7, Zenon DEF Quiet
<1>9. Harmless(input', rx', uart0_in'.wIndex)
  BY <1>2, <1>7, NothingToCome
<1>10. Undisturbed'
  BY <1>2, <1>7, Zenon DEF Undisturbed
<1>11. wanted' = framesOut'
  BY <1>5, <1>7
<1>12. QED
  BY <1>8, <1>9, <1>10, <1>11, Zenon DEF Idle

-----------------------------------------------------------------------------
(* The next line begins, and the invariant as a whole *)

LEMMA FitsLines ==
  ASSUME LinesFit, NEW i \in DOMAIN Lines
  PROVE  \E n \in Nat : Fits(Lines[i], n)
<1>1. Lines[i] \in Seq(Byte) /\ Legal(Lines[i]) /\ LrcOk(Lines[i])
  BY BytesAssumption, LinesAssumption
<1>2. PICK n \in Nat : LineOf(Lines[i], n)
  BY <1>1, LegalLine
<1>3. Len(Lines[i]) = 2 * n + 3 /\ W \in Nat
  BY <1>2, SizeAssumption DEF LineOf
<1>4. n <= 127 /\ n + 1 < W
  <2>1. 2 * n + 3 <= 257 /\ (2 * n + 3 - 1) \div 2 < W
    BY <1>3 DEF LinesFit
  <2>2. (2 * n + 3 - 1) \div 2 = n + 1
    OBVIOUS
  <2>3. QED
    BY <2>1, <2>2
<1>5. ByteSum(BufferWithLrc(Lines[i])) = 0
  BY <1>1, <1>2, SumOfLine
<1>6. QED
  BY <1>2, <1>4, <1>5 DEF Fits

LEMMA InitIdle == Init => Idle
<1> SUFFICES ASSUME Init PROVE Idle
  OBVIOUS
<1>1. /\ input = <<>> /\ ~rx.frameActive /\ wanted = framesOut
      /\ ~sendRequest /\ ~driver /\ main.at = "top" /\ bytesOut = <<>>
  BY DEF Init
<1>2. Harmless(input, rx, uart0_in.wIndex)
  BY <1>1, NothingToCome
<1>3. Quiet /\ Undisturbed
  BY <1>1, Zenon DEF Quiet, Undisturbed
<1>4. QED
  BY <1>1, <1>2, <1>3, Zenon DEF Idle

\* A text of which no receiver makes a frame is harmless when none is being received.
LEMMA HarmlessText ==
  ASSUME NEW text, MakesNoFrame(text), NEW r, NEW wIndex, ~r.frameActive
  PROVE  Harmless(text, r, wIndex)
BY Zenon DEF MakesNoFrame, Harmless

\* ... and a text that begins with a colon always is.
LEMMA HarmlessFromColon ==
  ASSUME NEW text, MakesNoFrame(text), text[1] = Colon, 1 \in 1 .. Len(text),
         NEW r, NEW wIndex
  PROVE  Harmless(text, r, wIndex)
<1>1. ~LastColon(text, 0)
  <2>1. 1 \in 0 + 1 .. Len(text)
    OBVIOUS
  <2>2. QED
    BY <2>1, Zenon DEF LastColon
<1>2. QED
  BY <1>1, Zenon DEF MakesNoFrame, Harmless

LEMMA DamagedMakesNoFrame ==
  ASSUME OneFault, LinesFit, NoShortFrame, NEW i \in DOMAIN Lines, ArrivesDamaged(Lines[i])
  PROVE  MakesNoFrame(input')
<1> DEFINE line == Lines[i]
<1>1. PICK n \in Nat : Fits(line, n)
  BY FitsLines
<1>2. LineOf(line, n) /\ n <= 127 /\ ByteSum(BufferWithLrc(line)) = 0 /\ line \in Seq(Byte)
  BY <1>1 DEF Fits, LineOf
<1>3. DOMAIN line = 1 .. Len(line)
  BY <1>2
<1>4. CASE \E j \in DOMAIN line : input' = RemoveAt(line, j)
  BY <1>2, <1>3, <1>4, LostCharacter
<1>5. CASE \E j \in DOMAIN line, c \in Garble : c # line[j] /\ input' = [line EXCEPT ![j] = c]
  <2>1. PICK j \in DOMAIN line, c \in Garble : c # line[j] /\ input' = [line EXCEPT ![j] = c]
    BY <1>5
  <2>2. c \in Byte /\ j \in 1 .. Len(line)
    BY <1>3, BytesAssumption
  <2>3. c \in {Colon, CR} => NoPrefixSum(BufferWithLrc(line))
    BY DEF NoShortFrame
  <2> HIDE DEF line
  <2>4. QED
    BY <1>2, <2>1, <2>2, <2>3, GarbledCharacter
<1>6. QED
  BY <1>4, <1>5, Zenon DEF ArrivesDamaged

LEMMA IdleSends ==
  ASSUME OneFault, LinesFit, NoShortFrame, Inv, Idle, PiSends
  PROVE  Idle' \/ \E i \in DOMAIN Lines : Receiving(Lines[i], 0)'
<1>1. /\ lines + 1 \in DOMAIN Lines
      /\ UNCHANGED <<received, sending, busHistory>>
      /\ ArrivesWhole(Lines[lines + 1]) \/ ArrivesDamaged(Lines[lines + 1]) \/ ArrivesEmpty
      /\ input = <<>>
  BY BytesAssumption DEF PiSends, Inv, EnvironmentOK
<1>2. PICK i \in DOMAIN Lines :
        ArrivesWhole(Lines[i]) \/ ArrivesDamaged(Lines[i]) \/ ArrivesEmpty
  BY <1>1
<1>3. /\ UNCHANGED <<rx, uart0_in, sendRequest, framesOut>> /\ UNCHANGED sending
      /\ UNCHANGED busHistory
  BY <1>1, Zenon DEF received, busHistory
<1>4. Quiet' /\ wanted = framesOut'
  BY <1>3, SendingKept, Zenon DEF Idle
<1>5. CASE ArrivesWhole(Lines[i])
  <2>1. input' = Lines[i] /\ wanted' = Append(framesOut', Rtu(BufferOf(Lines[i])))
    BY <1>4, <1>5 DEF ArrivesWhole
  <2>2. Lines[i] \in Seq(Byte) /\ Len(Lines[i]) > 1
    <3>1. Lines[i] \in Seq(Byte) /\ Len(Lines[i]) >= 9
      BY BytesAssumption, LinesAssumption DEF Legal
    <3>2. Len(Lines[i]) \in Nat
      BY <3>1
    <3>3. QED
      BY <3>1, <3>2
  <2>3. Good(Lines[i], 0, input', rx', uart0_in')
    <3>1. PICK s \in Seq(Byte) : s = Lines[i]
      BY <2>2
    <3>2. 0 \in 0 .. Len(s) - 1 /\ 0 \notin 1 .. Len(s) - 2 /\ 0 # Len(s) - 1
      <4>1. \A k \in Nat : k > 1 => 0 \in 0 .. k - 1 /\ 0 \notin 1 .. k - 2 /\ 0 # k - 1
        OBVIOUS
      <4>2. Len(s) \in Nat /\ Len(s) > 1
        BY <2>2, <3>1
      <4>3. QED
        BY <4>1, <4>2
    <3>3. SubSeq(s, 0 + 1, Len(s)) = s
      <4>1. 0 + 1 = 1
        OBVIOUS
      <4>2. QED
        BY <4>1, WholeSequence
    <3>4. QED
      BY <2>1, <3>1, <3>2, <3>3, Zenon DEF Good
  <2>4. QED
    BY <1>4, <2>1, <2>3, Zenon DEF Receiving
<1>6. CASE ArrivesDamaged(Lines[i])
  <2>1. faults < MaxFaults /\ faults' = faults + 1 /\ wanted' = wanted
    BY <1>6 DEF ArrivesDamaged
  <2>2. faults = 0 /\ faults' # 0
    BY <2>1 DEF OneFault, Inv, EnvironmentOK
  <2>3. ~rx.frameActive
    <3>1. input # <<Colon, CR, LF>> /\ input # <<CR, LF>>
      BY <1>1
    <3>2. QED
      BY <2>2, <3>1, Zenon DEF Idle, Undisturbed
  <2>4. Harmless(input', rx', uart0_in'.wIndex)
    BY <1>3, <1>6, <2>3, HarmlessText, DamagedMakesNoFrame
  <2>5. QED
    BY <1>4, <2>1, <2>2, <2>4, Zenon DEF Idle
<1>7. CASE ArrivesEmpty
  <2>1. input' = <<Colon, CR, LF>> /\ faults' = faults /\ wanted' = wanted
    BY <1>7 DEF ArrivesEmpty
  <2>2. 1 \in 1 .. Len(input') /\ input'[1] = Colon
    BY <2>1
  <2>3. Harmless(input', rx', uart0_in'.wIndex)
    BY <2>1, <2>2, EmptyLine, HarmlessFromColon
  <2>4. Undisturbed'
    BY <2>1, Zenon DEF Undisturbed
  <2>5. QED
    BY <1>4, <2>1, <2>3, <2>4, Zenon DEF Idle
<1>8. QED
  BY <1>2, <1>5, <1>6, <1>7

\* While a frame is sent the gateway is not silent: to begin a line is to overlap.
LEMMA TransmittingSends ==
  ASSUME NEW frame, frame \in Seq(Byte), Transmitting(frame), Inv, PiSends
  PROVE  overlapped'
<1>1. CASE main.at # "release"
  BY <1>1, Zenon DEF Transmitting, PiSends, Silent
<1>2. CASE main.at = "release"
  <2>1. PICK x : x = uart0_in.rIndex
    OBVIOUS
  <2>2. x \in Nat /\ Len(frame) \in Nat /\ Len(frame) > 0
    BY <2>1, TransmittingFields
  <2>3. Len(frame) - x = 0 /\ (x > 0 => driver)
    BY <1>2, <2>1 DEF Transmitting, Progress
  <2>4. driver
    BY <2>2, <2>3
  <2>5. QED
    BY <2>4, Zenon DEF PiSends, Silent
<1>3. QED
  BY <1>1, <1>2

\* When nothing is sent, main() does nothing and nothing is shifted out.
LEMMA QuietRests ==
  ASSUME Inv, Quiet
  PROVE  ~AppMain /\ ~ShiftedOut
<1>1. ~AppMain
  <2>1. main.at = "top" /\ ~sendRequest
    BY DEF Quiet
  <2>2. ~Poll
    BY <2>1, Zenon DEF Poll
  <2>3. /\ ~TestComplete /\ ~ClearRequest /\ ~Release /\ ~Drive /\ ~TestReady /\ ~Load
        /\ ~StoreLength /\ ~LoadIndex /\ ~TakeByte /\ ~Transmit
    BY <2>1 DEF TestComplete, ClearRequest, Release, Drive, TestReady, Load, StoreLength,
       LoadIndex, TakeByte, Transmit, Goto
  <2>4. QED
    BY <2>2, <2>3, Zenon DEF AppMain
<1>2. ~ShiftedOut
  BY Zenon DEF ShiftedOut, Inv, DriverHolds, Quiet
<1>3. QED
  BY <1>1, <1>2

\* What has gone wrong with the Pi's line stays recorded.
LEMMA Recorded == [Next]_vars /\ (underflow \/ overlapped) => (underflow \/ overlapped)'
<1>1. ASSUME NEW c, Character(c) PROVE UNCHANGED <<overlapped>>
  BY <1>1, Zenon DEF Character
<1>2. CASE PiSends
  BY <1>2, Zenon DEF PiSends, received
<1>3. CASE StartOfFrame
  BY <1>1, <1>3, Zenon DEF StartOfFrame
<1>4. CASE Skipped
  <2>1. PICK c : Character(c) /\ UNCHANGED received
    BY <1>4 DEF Skipped
  <2>2. QED
    BY <1>1, <2>1, Zenon DEF received
<1>5. CASE EndOfFrame
  BY <1>1, <1>5, Zenon DEF EndOfFrame
<1>6. CASE FirstDigit
  <2>1. PICK c : Character(c) /\ UNCHANGED underflow
    BY <1>6 DEF FirstDigit
  <2>2. QED
    BY <1>1, <2>1, Zenon
<1>7. CASE SecondDigit
  <2>1. PICK c : Character(c) /\ UNCHANGED underflow
    BY <1>7 DEF SecondDigit
  <2>2. QED
    BY <1>1, <2>1, Zenon
<1>8. CASE CarriageReturn
  BY <1>1, <1>8, Zenon DEF CarriageReturn
<1>9. CASE FrameBroken
  <2>1. PICK c : Character(c) /\ UNCHANGED underflow
    BY <1>9 DEF FrameBroken
  <2>2. QED
    BY <1>1, <2>1, Zenon
<1>10. CASE AppMain
  <2>1. CASE Poll \/ TestComplete \/ Release \/ Drive \/ TestReady
    <3>1. UNCHANGED received /\ UNCHANGED environment
      BY <2>1, Zenon DEF Poll, TestComplete, Release, Drive, TestReady
    <3>2. QED
      BY <3>1, Zenon DEF received, environment
  <2>2. CASE Load \/ LoadIndex \/ Transmit
    <3>1. UNCHANGED received /\ UNCHANGED environment
      BY <2>2, Zenon DEF Load, LoadIndex, Transmit
    <3>2. QED
      BY <3>1, Zenon DEF received, environment
  <2>3. CASE ClearRequest \/ StoreLength \/ TakeByte
    <3>1. UNCHANGED underflow /\ UNCHANGED environment
      BY <2>3, Zenon DEF ClearRequest, StoreLength, TakeByte
    <3>2. QED
      BY <3>1, Zenon DEF environment
  <2>4. QED
    BY <1>10, <2>1, <2>2, <2>3, Zenon DEF AppMain
<1>11. CASE ShiftedOut
  BY <1>11, Zenon DEF ShiftedOut, received, environment
<1>12. CASE UNCHANGED vars
  BY <1>12, Zenon DEF vars, received, environment
<1>13. QED
  BY <1>2, <1>3, <1>4, <1>5, <1>6, <1>7, <1>8, <1>9, <1>10, <1>11, <1>12, Zenon
     DEF Next, Receive

LEMMA LineFrame ==
  ASSUME NEW i \in DOMAIN Lines
  PROVE  Rtu(BufferOf(Lines[i])) \in Seq(Byte)
<1>1. Lines[i] \in Seq(Byte) /\ Legal(Lines[i])
  BY BytesAssumption, LinesAssumption
<1>2. QED
  BY <1>1, BufferType, RtuType

LEMMA IdleNext ==
  ASSUME OneFault, LinesFit, NoShortFrame, Inv, Idle, Next
  PROVE  WantedInv'
<1>1. CASE PiSends
  <2>1. 0 \in Nat
    OBVIOUS
  <2>2. QED
    BY <1>1, <2>1, IdleSends, Zenon DEF WantedInv
<1>2. CASE Receive
  BY <1>2, IdleReceive, Zenon DEF WantedInv
<1>3. ~AppMain /\ ~ShiftedOut
  BY QuietRests DEF Idle
<1>4. QED
  BY <1>1, <1>2, <1>3, Zenon DEF Next

LEMMA ReceivingNext ==
  ASSUME LinesFit, Inv, NEW i \in DOMAIN Lines, NEW p \in Nat, Receiving(Lines[i], p), Next
  PROVE  WantedInv'
<1>1. PICK n \in Nat : Fits(Lines[i], n)
  BY FitsLines
<1>2. ~PiSends
  <2>1. PICK s \in Seq(Byte) : s = Lines[i]
    BY BytesAssumption
  <2>2. p \in 0 .. Len(s) - 1 /\ input = SubSeq(s, p + 1, Len(s))
    BY <2>1 DEF Receiving, Good
  <2>3. input # <<>>
    BY <2>1, <2>2, RestOfLine
  <2>4. QED
    BY <2>3 DEF PiSends
<1>3. CASE Receive
  <2>1. p + 1 \in Nat
    OBVIOUS
  <2>2. CASE underflow'
    BY <2>2, Zenon DEF WantedInv
  <2>3. CASE ~underflow'
    <3>1. \/ Receiving(Lines[i], p + 1)'
          \/ Transmitting(Rtu(BufferOf(Lines[i])))'
      BY <1>1, <1>3, <2>3, ReceivingReceive
    <3>2. QED
      BY <2>1, <3>1, Zenon DEF WantedInv
  <2>4. QED
    BY <2>2, <2>3
<1>4. ~AppMain /\ ~ShiftedOut
  BY QuietRests DEF Receiving
<1>5. QED
  BY <1>2, <1>3, <1>4, Zenon DEF Next

LEMMA TransmittingNext ==
  ASSUME Inv, NEW i \in DOMAIN Lines, Transmitting(Rtu(BufferOf(Lines[i]))), Next
  PROVE  WantedInv'
<1> DEFINE frame == Rtu(BufferOf(Lines[i]))
<1>1. frame \in Seq(Byte) /\ Transmitting(frame)
  BY LineFrame
<1>2. ASSUME Transmitting(frame)' PROVE WantedInv'
  BY <1>2, Zenon DEF WantedInv
<1> HIDE DEF frame
<1>3. CASE PiSends
  BY <1>1, <1>3, TransmittingSends, Zenon DEF WantedInv
<1>4. ~Receive
  <2>1. input = <<>>
    BY <1>1 DEF Transmitting
  <2>2. QED
    BY <2>1, ReceivedCharacter
<1>5. CASE Poll \/ TestComplete \/ TestReady \/ Load
  BY <1>1, <1>2, <1>5, TransmittingTests
<1>6. CASE StoreLength \/ LoadIndex \/ TakeByte
  BY <1>1, <1>2, <1>6, TransmittingReads
<1>7. CASE ClearRequest \/ Drive \/ Transmit
  BY <1>1, <1>2, <1>7, TransmittingDrives
<1>8. CASE Release
  BY <1>1, <1>8, TransmittingEnds, Zenon DEF WantedInv
<1>9. CASE ShiftedOut
  BY <1>1, <1>2, <1>9, TransmittingShifts
<1>10. QED
  BY <1>3, <1>4, <1>5, <1>6, <1>7, <1>8, <1>9, Zenon DEF Next, AppMain

LEMMA WantedStutter ==
  ASSUME WantedInv, UNCHANGED vars
  PROVE  WantedInv'
<1>1. /\ UNCHANGED <<uart0_in, sendRequest, rx, underflow>> /\ UNCHANGED <<main, driver, uart1>>
      /\ UNCHANGED <<input, faults, overlapped, wanted>> /\ UNCHANGED <<bytesOut, framesOut>>
  BY Zenon DEF vars, received, sending, environment, busHistory
<1>2. CASE underflow \/ overlapped
  BY <1>1, <1>2, Zenon DEF WantedInv
<1>3. CASE Idle
  <2>1. Idle'
    BY <1>1, <1>3 DEF Idle, Quiet, Undisturbed
  <2>2. QED
    BY <2>1, Zenon DEF WantedInv
<1>4. ASSUME NEW i \in DOMAIN Lines, NEW p \in Nat, Receiving(Lines[i], p)
      PROVE  WantedInv'
  <2>1. Receiving(Lines[i], p)'
    BY <1>1, <1>4 DEF Receiving, Quiet
  <2>2. QED
    BY <2>1, Zenon DEF WantedInv
<1>5. ASSUME NEW i \in DOMAIN Lines, Transmitting(Rtu(BufferOf(Lines[i])))
      PROVE  WantedInv'
  <2>1. Transmitting(Rtu(BufferOf(Lines[i])))'
    BY <1>1, <1>5 DEF Transmitting
  <2>2. QED
    BY <2>1, Zenon DEF WantedInv
<1>6. QED
  BY <1>2, <1>3, <1>4, <1>5, Zenon DEF WantedInv

LEMMA WantedNext ==
  ASSUME OneFault, LinesFit, NoShortFrame
  PROVE  Inv /\ WantedInv /\ [Next]_vars => WantedInv'
<1> SUFFICES ASSUME Inv, WantedInv, [Next]_vars PROVE WantedInv'
  OBVIOUS
<1>1. CASE UNCHANGED vars
  BY <1>1, WantedStutter
<1>2. CASE Next
  <2>1. CASE underflow \/ overlapped
    BY <2>1, Recorded, Zenon DEF WantedInv
  <2>2. QED
    BY <1>2, <2>1, IdleNext, ReceivingNext, TransmittingNext, Zenon DEF WantedInv
<1>3. QED
  BY <1>1, <1>2

LEMMA FirstPart ==
  ASSUME NEW s \in Seq(Byte), NEW t \in Seq(Byte), NEW frame \in Seq(Byte),
         NEW k \in 0 .. Len(frame), s \o t = SubSeq(frame, 1, k)
  PROVE  IsPrefix(s, frame)
<1>1. Len(s) + Len(t) = k
  <2>1. Len(s \o t) = Len(s) + Len(t) /\ Len(SubSeq(frame, 1, k)) = k
    OBVIOUS
  <2>2. QED
    BY <2>1
<1>2. Len(s) <= k /\ k <= Len(frame) /\ Len(s) \in Nat
  BY <1>1
<1>3. \A i \in 1 .. Len(s) : s[i] = frame[i]
  <2>1. \A i \in 1 .. Len(s) : (s \o t)[i] = s[i]
    OBVIOUS
  <2>2. \A i \in 1 .. k : SubSeq(frame, 1, k)[i] = frame[i]
    OBVIOUS
  <2>3. QED
    BY <1>2, <2>1, <2>2
<1>4. SubSeq(s, 1, Len(s)) = SubSeq(frame, 1, Len(s))
  <2>1. SubSeq(s, 1, Len(s)) = s
    BY WholeSequence
  <2>2. /\ SubSeq(frame, 1, Len(s)) \in Seq(Byte)
        /\ Len(SubSeq(frame, 1, Len(s))) = Len(s)
        /\ \A i \in 1 .. Len(s) : SubSeq(frame, 1, Len(s))[i] = frame[i]
    BY <1>2
  <2>3. QED
    BY <1>3, <2>1, <2>2
<1>5. QED
  BY <1>2, <1>4 DEF IsPrefix

LEMMA WantedSent == Inv /\ WantedInv => OnlyWanted
<1> SUFFICES ASSUME Inv, WantedInv, ~underflow, ~overlapped
             PROVE  /\ IsPrefix(framesOut, wanted)
                    /\ bytesOut # <<>> => /\ Len(framesOut) < Len(wanted)
                                          /\ IsPrefix(bytesOut, wanted[Len(framesOut) + 1])
  BY Zenon DEF OnlyWanted
<1>1. framesOut \in Seq(Seq(Byte)) /\ bytesOut \in Seq(Byte) /\ uart1 \in Seq(Byte)
  BY DEF Inv, HistoryOK, SendingOK
<1>2. ASSUME NEW frame \in Seq(Byte), wanted = Append(framesOut, frame)
      PROVE  /\ IsPrefix(framesOut, wanted) /\ Len(framesOut) < Len(wanted)
             /\ wanted[Len(framesOut) + 1] = frame
  <2>1. PICK s \in Seq(Seq(Byte)) : s = framesOut
    BY <1>1
  <2>2. /\ Len(s) < Len(Append(s, frame)) /\ Append(s, frame)[Len(s) + 1] = frame
        /\ SubSeq(s, 1, Len(s)) = SubSeq(Append(s, frame), 1, Len(s))
    OBVIOUS
  <2>3. Len(s) <= Len(Append(s, frame))
    OBVIOUS
  <2>4. QED
    BY <1>2, <2>1, <2>2, <2>3 DEF IsPrefix
<1>3. CASE Idle
  <2>1. wanted = framesOut /\ bytesOut = <<>>
    BY <1>3, Zenon DEF Idle, Quiet
  <2>2. Len(framesOut) <= Len(framesOut)
    BY <1>1
  <2>3. QED
    BY <2>1, <2>2 DEF IsPrefix
<1>4. ASSUME NEW i \in DOMAIN Lines, NEW p \in Nat, Receiving(Lines[i], p)
      PROVE  IsPrefix(framesOut, wanted) /\ bytesOut = <<>>
  BY <1>2, <1>4, LineFrame, Zenon DEF Receiving, Quiet
<1>5. ASSUME NEW i \in DOMAIN Lines, Transmitting(Rtu(BufferOf(Lines[i])))
      PROVE  /\ IsPrefix(framesOut, wanted) /\ Len(framesOut) < Len(wanted)
             /\ IsPrefix(bytesOut, wanted[Len(framesOut) + 1])
  <2>1. PICK frame \in Seq(Byte) : frame = Rtu(BufferOf(Lines[i]))
    BY LineFrame
  <2>2. wanted = Append(framesOut, frame)
    BY <1>5, <2>1 DEF Transmitting
  <2>3. PICK k \in 0 .. Len(frame) : bytesOut \o uart1 = SubSeq(frame, 1, k)
    <3>1. PICK x : x = uart0_in.rIndex
      OBVIOUS
    <3>2. /\ x \in Nat /\ x <= Len(frame) /\ Len(frame) \in Nat
      BY <1>5, <2>1, <3>1, TransmittingFields
    <3>3. /\ bytesOut \o uart1 = SubSeq(frame, 1, IF main.at = "transmit" THEN x - 1 ELSE x)
          /\ main.at = "transmit" => x > 0
      BY <1>5, <2>1, <3>1 DEF Transmitting, Progress
    <3>4. x \in 0 .. Len(frame) /\ (x > 0 => x - 1 \in 0 .. Len(frame))
      BY <3>2
    <3>5. QED
      BY <3>3, <3>4
  <2>4. IsPrefix(bytesOut, frame)
    BY <1>1, <2>3, FirstPart
  <2>5. QED
    BY <1>2, <2>1, <2>2, <2>4
<1>6. QED
  BY <1>2, <1>3, <1>4, <1>5, Zenon DEF WantedInv

\* For one disturbed character at most, lines that fit into the ring, and characters that
\* do not turn into a delimiter of a shorter frame: whatever is lost, garbled or left out
\* between the Pi and the gateway, and however app_main() and the handler interleave, the
\* bus carries the frames of the undamaged lines, byte by byte, in their order, and
\* nothing else - but after an underflow or when the Pi did not wait.
THEOREM OnlyWantedSent ==
  ASSUME OneFault, LinesFit, NoShortFrame
  PROVE  Safety => []OnlyWanted
<1>1. Init => Inv /\ WantedInv
  BY InitInv, InitIdle DEF WantedInv
<1>2. (Inv /\ WantedInv) /\ [Next]_vars => (Inv /\ WantedInv)'
  BY NextInv, WantedNext, Zenon
<1>3. QED
  BY <1>1, <1>2, WantedSent, PTL DEF Safety
=============================================================================
