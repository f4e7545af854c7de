------------------------- MODULE GatewayOut_proofs -------------------------
(***************************************************************************)
(* For every size of the ring, all frames on the bus and every kind and    *)
(* number of disturbances: the types of GatewayOut, what the length of its *)
(* ring counts, and that the Pi accepts only what was not disturbed.       *)
(*                                                                         *)
(* The last follows what the Pi will have accepted once it has read what   *)
(* is in the ring.  A handler adds to that text and app_main() takes from  *)
(* it, and only the end of a frame can add to what will be accepted.       *)
(***************************************************************************)
EXTENDS GatewayOut, Frame_lemmas

-----------------------------------------------------------------------------
(* The ring *)

LEMMA RingFields ==
  ASSUME NEW b \in RingOf(Byte)
  PROVE  /\ b.length \in 0 .. W - 1 /\ b.wIndex \in 0 .. W - 1 /\ b.rIndex \in 0 .. W - 1
         /\ b.buffer \in [Index -> Byte]
BY DEF RingOf, Index

\* Indices and length wrap: whatever is written, the ring stays a ring.
LEMMA RingWriteType ==
  ASSUME NEW b \in RingOf(Byte), NEW s \in Seq(Byte), Len(s) < W
  PROVE  app_ringBuffer_writeString(b, s) \in RingOf(Byte)
<1> USE SizeAssumption
<1> DEFINE c == app_ringBuffer_writeString(b, s)
           place(i) == IF i >= b.wIndex THEN i - b.wIndex ELSE i + W - b.wIndex
<1>1. Len(s) \in Nat
  OBVIOUS
<1>2. c.buffer \in [Index -> Byte]
  <2>1. ASSUME NEW i \in Index
        PROVE  (IF place(i) < Len(s) THEN s[place(i) + 1] ELSE b.buffer[i]) \in Byte
    <3>1. place(i) \in Nat
      <4>1. \A w \in 0 .. W - 1, j \in 0 .. W - 1 :
               (IF j >= w THEN j - w ELSE j + W - w) \in Nat
        OBVIOUS
      <4>2. QED
        BY <4>1, RingFields DEF Index
    <3>2. CASE place(i) < Len(s)
      <4>1. place(i) + 1 \in 1 .. Len(s)
        BY <3>1, <3>2, <1>1
      <4>2. QED
        BY <4>1, <3>2
    <3>3. CASE ~(place(i) < Len(s))
      BY <3>3, RingFields
    <3>4. QED
      BY <3>2, <3>3
  <2>2. QED
    BY <2>1 DEF app_ringBuffer_writeString
<1>3. /\ c.length = Wrap(b.length + Len(s)) /\ c.wIndex = Wrap(b.wIndex + Len(s))
      /\ c.rIndex = b.rIndex
  BY DEF app_ringBuffer_writeString
<1>4. c.length \in Index /\ c.wIndex \in Index /\ c.rIndex \in Index
  <2>1. \A m \in 0 .. W - 1, n \in Nat : n < W => Wrap(m + n) \in 0 .. W - 1
    BY DEF Wrap
  <2>2. QED
    BY <1>1, <1>3, <2>1, RingFields DEF Index
<1>5. QED
  BY <1>2, <1>4 DEF RingOf, app_ringBuffer_writeString

\* With room for it, a string adds its length to what is unread.
LEMMA RingWrite ==
  ASSUME NEW b \in RingOf(Byte), NEW s \in Seq(Byte),
         b.length <= Unread(b), Unread(b) + Len(s) < W
  PROVE  LET c == app_ringBuffer_writeString(b, s)
         IN  /\ c \in RingOf(Byte)
             /\ c.length = b.length + Len(s)
             /\ Unread(c) = Unread(b) + Len(s)
<1> USE SizeAssumption
<1> DEFINE c == app_ringBuffer_writeString(b, s)
           between(w, r) == IF w >= r THEN w - r ELSE w + W - r
<1>1. Len(s) \in Nat
  OBVIOUS
<1>2. /\ c.length = Wrap(b.length + Len(s)) /\ c.wIndex = Wrap(b.wIndex + Len(s))
      /\ c.rIndex = b.rIndex
  BY DEF app_ringBuffer_writeString
<1>3. Unread(b) = between(b.wIndex, b.rIndex) /\ Unread(c) = between(c.wIndex, c.rIndex)
  BY Zenon DEF Unread
<1>4. \A w, r \in 0 .. W - 1 : between(w, r) \in Nat
  OBVIOUS
<1>5. \A w, r \in 0 .. W - 1, n \in Nat : between(w, r) + n < W =>
          between(Wrap(w + n), r) = between(w, r) + n
  BY DEF Wrap
<1> HIDE DEF c, between
<1>6. Unread(c) = Unread(b) + Len(s)
  BY <1>1, <1>2, <1>3, <1>5, RingFields
<1>7. c.length = b.length + Len(s) /\ Len(s) < W
  <2>1. Unread(b) \in Nat
    BY <1>3, <1>4, RingFields
  <2>2. b.length + Len(s) < W /\ b.length + Len(s) \in Nat /\ Len(s) < W
    BY <1>1, <2>1, RingFields
  <2>3. QED
    BY <1>2, <2>2 DEF Wrap
<1>8. c \in RingOf(Byte)
  BY <1>7, RingWriteType DEF c
<1>9. QED
  BY <1>6, <1>7, <1>8 DEF c

LEMMA RingRead ==
  ASSUME NEW b \in RingOf(Byte), NEW loaded \in Index,
         0 < loaded, loaded <= b.length, b.length <= Unread(b)
  PROVE  LET c == ReadStore(b, loaded)
         IN  /\ c \in RingOf(Byte)
             /\ c.length = loaded - 1
             /\ Unread(c) = Unread(b) - 1
<1> USE SizeAssumption
<1> DEFINE c == ReadStore(b, loaded)
<1>1. /\ b.length \in 0 .. W - 1 /\ b.wIndex \in 0 .. W - 1 /\ b.rIndex \in 0 .. W - 1
      /\ loaded \in 0 .. W - 1
  BY DEF RingOf, Index
<1>2. /\ c.length = loaded - 1 /\ c.wIndex = b.wIndex /\ c.rIndex = Wrap(b.rIndex + 1)
      /\ c.buffer = b.buffer
  BY DEF ReadStore, RingOf
<1>3. c.rIndex \in Index /\ c.length \in Index
  BY <1>1, <1>2 DEF Wrap, Index
<1>4. Unread(c) = Unread(b) - 1
  BY <1>1, <1>2 DEF Wrap, Unread
<1>5. c \in RingOf(Byte)
  BY <1>3 DEF ReadStore, RingOf, Index, Wrap
<1>6. QED
  BY <1>2, <1>4, <1>5

-----------------------------------------------------------------------------
(* What the handlers write *)

GatewayType == [lastModbusByte : Byte \X Byte, modbusByteCnt : Byte, lrc : Byte, crc : Word]

LEMMA BeforeSeiType ==
  ASSUME gateway \in GatewayType, NEW newFrame \in BOOLEAN
  PROVE  /\ BeforeSei(newFrame) \in GatewayType
         /\ ByteLine(newFrame) \in Seq(Byte)
         /\ Len(ByteLine(newFrame)) <= 3
<1>1. CrcStart \in Word
  BY DEF CrcStart, Word
<1>2. Started(gateway, newFrame) \in GatewayType
  <2>1. CASE newFrame
    <3>1. 0 \in Byte
      BY DEF Byte
    <3>2. QED
      BY <1>1, <2>1, <3>1 DEF Started, GatewayType
  <2>2. CASE ~newFrame
    BY <2>2 DEF Started
  <2>3. QED
    BY <2>1, <2>2
<1>3. ASSUME NEW g \in GatewayType
      PROVE  Counted(g) \in GatewayType
  BY DEF Counted, GatewayType, Byte
<1>4. ASSUME NEW g \in GatewayType
      PROVE  Summed(g) \in GatewayType
  <2>1. g.lrc \in Byte /\ g.lastModbusByte[2] \in Byte
    BY DEF GatewayType
  <2>2. (g.lrc + g.lastModbusByte[2]) % 256 \in Byte
    <3>1. \A m, n \in Byte : (m + n) % 256 \in Byte
      BY DEF Byte
    <3>2. QED
      BY <2>1, <3>1, Zenon
  <2>3. QED
    BY <2>2 DEF Summed, GatewayType
<1>5. BeforeSei(newFrame) \in GatewayType
  BY <1>2, <1>3, <1>4 DEF BeforeSei
<1>6. ByteText(gateway.lastModbusByte[2]) \in Seq(Byte)
      /\ Len(ByteText(gateway.lastModbusByte[2])) = 2
  BY TextType DEF GatewayType
<1> DEFINE head == IF newFrame THEN <<Colon>> ELSE <<>>
           body == IF Forwards(BeforeSei(newFrame))
                   THEN ByteText(gateway.lastModbusByte[2]) ELSE <<>>
<1>7. head \in Seq(Byte) /\ Len(head) <= 1 /\ Len(head) \in Nat
  BY CharType, EmptyType
<1>8. body \in Seq(Byte) /\ Len(body) <= 2 /\ Len(body) \in Nat
  <2>1. \A n \in {0, 2} : n <= 2 /\ n \in Nat
    OBVIOUS
  <2>2. body \in Seq(Byte) /\ Len(body) \in {0, 2}
    BY <1>6, EmptyType, Zenon
  <2> HIDE DEF body
  <2>3. QED
    BY <2>1, <2>2
<1>9. ByteLine(newFrame) = head \o body
  BY DEF ByteLine
<1> HIDE DEF head, body
<1>10. QED
  BY <1>5, <1>7, <1>8, <1>9, ConcatType

LEMMA ShiftedType ==
  ASSUME NEW g \in GatewayType, NEW data \in Byte
  PROVE  Shifted(g, data) \in GatewayType
<1>1. app_updateModbusCrc(g.crc, data) \in Word
  BY CrcType DEF GatewayType
<1>2. << data, g.lastModbusByte[1] >> \in Byte \X Byte
  BY DEF GatewayType
<1>3. QED
  BY <1>1, <1>2 DEF Shifted, GatewayType

LEMMA EndLineType ==
  ASSUME NEW g \in GatewayType
  PROVE  EndLine(g) \in Seq(Byte) /\ Len(EndLine(g)) <= 4
<1>1. g.lrc \in Byte
  BY DEF GatewayType
<1>2. EndLrc(g) \in Byte
  BY <1>1 DEF EndLrc, Byte
<1>3. ByteText(EndLrc(g)) \in Seq(Byte) /\ Len(ByteText(EndLrc(g))) = 2
  BY <1>2, TextType
<1> DEFINE sum == IF g.modbusByteCnt > 0 THEN ByteText(EndLrc(g)) ELSE <<>>
<1>4. sum \in Seq(Byte) /\ Len(sum) <= 2 /\ Len(sum) \in Nat
  <2>1. \A n \in {0, 2} : n <= 2 /\ n \in Nat
    OBVIOUS
  <2>2. sum \in Seq(Byte) /\ Len(sum) \in {0, 2}
    BY <1>3, EmptyType, Zenon
  <2> HIDE DEF sum
  <2>3. QED
    BY <2>1, <2>2
<1>5. EndLine(g) = sum \o <<CR, LF>>
  BY DEF EndLine
<1> HIDE DEF sum
<1>6. QED
  BY <1>4, <1>5, ConcatType, CharType

LEMMA RefusalType == RefusalLine \in Seq(Byte)
<1>1. /\ ByteText(0) \in Seq(Byte) /\ ByteText(128) \in Seq(Byte)
      /\ ByteText(1) \in Seq(Byte) /\ ByteText(126) \in Seq(Byte)
  BY TextType DEF Byte
<1>2. QED
  BY <1>1, CharType, ConcatType DEF RefusalLine
-----------------------------------------------------------------------------
(* What the bus sends and what the Pi reads *)

BusType == [payload : Seq(Byte), left : Seq(Byte), heard : BOOLEAN, whole : BOOLEAN]

LEMMA SendingType ==
  ASSUME TypeOK, NEW b \in Sending
  PROVE  /\ b \in BusType
         /\ b.left # <<>>
         /\ bus.left = <<>> => frames + 1 \in 0 .. Len(Payloads)
<1>1. CASE bus.left # <<>>
  BY <1>1 DEF Sending, TypeOK, BusType
<1>2. CASE bus.left = <<>>
  <2> DEFINE p == Payloads[frames + 1]
  <2>1. /\ frames # Len(Payloads)
        /\ b = [payload |-> p, left |-> RtuFrame(p), heard |-> ~timer1, whole |-> ~timer1]
    BY <1>2 DEF Sending
  <2>2. frames + 1 \in 1 .. Len(Payloads)
    BY <2>1, BytesAssumption DEF TypeOK
  <2>3. p \in Seq(Byte)
    BY <2>2, BytesAssumption
  <2> DEFINE crc == FoldLeft(app_updateModbusCrc, CrcStart, p)
  <2>4. CrcBytes(crc) \in Seq(Byte) /\ Len(CrcBytes(crc)) = 2
    BY CrcBytesType
  <2>5. RtuFrame(p) = p \o CrcBytes(crc)
    BY DEF RtuFrame
  <2> HIDE DEF crc, p
  <2>6. RtuFrame(p) \in Seq(Byte) /\ Len(RtuFrame(p)) = Len(p) + 2
    BY <2>3, <2>4, <2>5, ConcatType
  <2>7. RtuFrame(p) # <<>>
    BY <2>3, <2>6, EmptyType
  <2>8. QED
    BY <2>1, <2>2, <2>3, <2>6, <2>7 DEF BusType, TypeOK
<1>3. QED
  BY <1>1, <1>2

LEMMA TookType ==
  ASSUME TypeOK, NEW b \in Sending, NEW well \in BOOLEAN, Took(b, well)
  PROVE  bus' \in BusType /\ frames' \in 0 .. Len(Payloads)
<1>1. b \in BusType /\ b.left # <<>> /\ (bus.left = <<>> => frames + 1 \in 0 .. Len(Payloads))
  BY SendingType
<1>2. b.left \in Seq(Byte) /\ b.heard \in BOOLEAN /\ b.whole \in BOOLEAN
  BY <1>1 DEF BusType
<1>3. Tail(b.left) \in Seq(Byte)
  BY <1>1, <1>2
<1>4. (b.heard /\ well) \in BOOLEAN /\ (b.whole /\ well) \in BOOLEAN
  OBVIOUS
<1>5. bus' = [b EXCEPT !.left = Tail(b.left), !.heard = b.heard /\ well,
                        !.whole = b.whole /\ well]
  BY DEF Took
<1>6. bus' \in BusType
  BY <1>1, <1>3, <1>4, <1>5 DEF BusType
<1>7. QED
  BY <1>1, <1>6 DEF Took, TypeOK

-----------------------------------------------------------------------------
(* The inductive invariant *)

\* Between its load and its store main() holds a length that was right when it
\* was loaded, and handlers have only added to the ring since.
LoadedHolds == main.at # "test" => 0 < main.loaded /\ main.loaded <= uart0_out.length

Inv == TypeOK /\ LengthCounts /\ LoadedHolds

LEMMA InitInv == Init => Inv
<1> SUFFICES ASSUME Init PROVE Inv
  OBVIOUS
<1> USE SizeAssumption, BytesAssumption
<1>1. uart0_out \in RingOf(Byte) /\ uart0_out.length = 0 /\ Unread(uart0_out) = 0
  BY DEF Init, EmptyRing, RingOf, Index, Byte, Unread
<1>2. gateway \in GatewayType
  BY DEF Init, GatewayType, Byte, Word
<1>3. bus \in BusType
  BY EmptyType DEF Init, BusType
<1>4. main \in [at : {"test", "read", "store"}, loaded : Index] /\ main.at = "test"
  BY DEF Init, Index
<1>5. TypeOK
  <2>1. line \in Seq(Byte) /\ accepted \in Seq(Seq(Byte)) /\ sound \in Seq(Seq(Byte))
    BY DEF Init
  <2>2. frames \in 0 .. Len(Payloads) /\ faults \in Nat
    BY DEF Init
  <2>3. timer1 \in BOOLEAN /\ raced \in BOOLEAN
    BY Zenon DEF Init
  <2>4. QED
    BY <1>1, <1>2, <1>3, <1>4, <2>1, <2>2, <2>3, Zenon DEF TypeOK, GatewayType, BusType
<1>6. LengthCounts /\ LoadedHolds
  BY <1>1, <1>4 DEF LengthCounts, LoadedHolds
<1>7. QED
  BY <1>5, <1>6 DEF Inv

\* A handler that writes s leaves the ring as the invariant wants it.
LEMMA HandlerWrites ==
  ASSUME Inv, NEW s \in Seq(Byte), NEW n \in Nat, Len(s) <= n, Room(n),
         uart0_out' = app_ringBuffer_writeString(uart0_out, s),
         UNCHANGED <<main, raced>>
  PROVE  uart0_out' \in RingOf(Byte) /\ LengthCounts' /\ LoadedHolds'
<1>1. uart0_out \in RingOf(Byte) /\ uart0_out.length <= Unread(uart0_out)
  BY DEF Inv, TypeOK, LengthCounts
<1>2. Unread(uart0_out) \in Nat /\ uart0_out.length \in Nat
  BY <1>1, SizeAssumption DEF Unread, RingOf, Index
<1>3. Unread(uart0_out) + Len(s) < W
  BY <1>2, SizeAssumption DEF Room
<1>4. /\ uart0_out' \in RingOf(Byte)
      /\ uart0_out'.length = uart0_out.length + Len(s)
      /\ Unread(uart0_out)' = Unread(uart0_out) + Len(s)
  BY <1>1, <1>3, RingWrite, SMTT(60)
<1>5. LengthCounts'
  <2>1. Len(s) \in Nat
    OBVIOUS
  <2>2. LengthCounts
    BY DEF Inv
  <2>3. QED
    BY <1>2, <1>4, <2>1, <2>2 DEF LengthCounts
<1>6. LoadedHolds'
  BY <1>2, <1>4 DEF LoadedHolds, Inv, TypeOK, Index
<1>7. QED
  BY <1>4, <1>5, <1>6

LEMMA ByteReceivedInv ==
  ASSUME Inv, NEW data \in Byte, ByteReceived(data)
  PROVE  /\ uart0_out' \in RingOf(Byte) /\ gateway' \in GatewayType /\ timer1' \in BOOLEAN
         /\ LengthCounts' /\ LoadedHolds'
<1>1. gateway \in GatewayType /\ (~timer1) \in BOOLEAN
  BY Zenon DEF Inv, TypeOK, GatewayType
<1>2. /\ BeforeSei(~timer1) \in GatewayType
      /\ ByteLine(~timer1) \in Seq(Byte)
      /\ Len(ByteLine(~timer1)) <= 3
  BY <1>1, BeforeSeiType
<1>3. Room(3) /\ uart0_out' = app_ringBuffer_writeString(uart0_out, ByteLine(~timer1))
      /\ gateway' = Shifted(BeforeSei(~timer1), data) /\ timer1' = TRUE
      /\ UNCHANGED <<main, raced>>
  BY DEF ByteReceived
<1>4. gateway' \in GatewayType
  BY <1>2, <1>3, ShiftedType
<1>5. 3 \in Nat
  OBVIOUS
<1>6. QED
  BY <1>2, <1>3, <1>4, <1>5, HandlerWrites

LEMMA TimedOutInv ==
  ASSUME Inv, TimedOut
  PROVE  uart0_out' \in RingOf(Byte) /\ LengthCounts' /\ LoadedHolds'
<1>1. gateway \in GatewayType
  BY DEF Inv, TypeOK, GatewayType
<1>2. EndLine(gateway) \in Seq(Byte) /\ Len(EndLine(gateway)) <= 4
  BY <1>1, EndLineType
<1>3. Room(4) /\ uart0_out' = app_ringBuffer_writeString(uart0_out, EndLine(gateway))
      /\ UNCHANGED <<main, raced>>
  BY DEF TimedOut
<1>4. 4 \in Nat
  OBVIOUS
<1>5. QED
  BY <1>2, <1>3, <1>4, HandlerWrites
-----------------------------------------------------------------------------
(* Every step preserves the invariant *)

\* The types a step may disturb, once the others are known to hold.
LEMMA BusStepInv ==
  ASSUME Inv,
         uart0_out' \in RingOf(Byte), gateway' \in GatewayType, timer1' \in BOOLEAN,
         LengthCounts', LoadedHolds',
         bus' \in BusType, frames' \in 0 .. Len(Payloads), faults' \in Nat,
         sound' \in Seq(Seq(Byte)),
         UNCHANGED <<main, line, accepted, raced>>
  PROVE  Inv'
BY Zenon DEF Inv, TypeOK, GatewayType, BusType

LEMMA DisturbType ==
  ASSUME Inv, NEW f, Disturb(f)
  PROVE  faults' \in Nat
BY DEF Disturb, Inv, TypeOK

LEMMA ReceiveInv ==
  ASSUME Inv, NEW b \in Sending, NEW data \in Byte, NEW well \in BOOLEAN,
         ByteReceived(data), Took(b, well), faults' \in Nat
  PROVE  Inv'
<1>1. bus' \in BusType /\ frames' \in 0 .. Len(Payloads)
  BY TookType, Zenon DEF Inv
<1>2. UNCHANGED <<main, line, accepted, sound, raced>>
  BY DEF ByteReceived
<1>3. sound' \in Seq(Seq(Byte))
  BY <1>2 DEF Inv, TypeOK
<1>4. QED
  BY <1>1, <1>2, <1>3, ByteReceivedInv, BusStepInv

LEMMA ErrorReceivedInv ==
  ASSUME Inv, ErrorReceived
  PROVE  /\ uart0_out' \in RingOf(Byte) /\ gateway' \in GatewayType /\ timer1' \in BOOLEAN
         /\ LengthCounts' /\ LoadedHolds' /\ sound' \in Seq(Seq(Byte))
         /\ UNCHANGED <<main, line, accepted, raced>>
<1>1. UNCHANGED <<uart0_out, gateway, main, line, accepted, sound, raced>> /\ timer1' = TRUE
  BY DEF ErrorReceived
<1>2. Unread(uart0_out)' = Unread(uart0_out)
  BY <1>1 DEF Unread
<1>3. QED
  BY <1>1, <1>2, Zenon DEF Inv, TypeOK, GatewayType, LengthCounts, LoadedHolds

LEMMA NextInv == Inv /\ [Next]_vars => Inv'
<1> SUFFICES ASSUME Inv, [Next]_vars PROVE Inv'
  OBVIOUS
<1> USE BytesAssumption
<1>t. /\ TypeOK /\ gateway \in GatewayType /\ bus \in BusType
      /\ faults \in Nat /\ sound \in Seq(Seq(Byte)) /\ timer1 \in BOOLEAN
      /\ frames \in 0 .. Len(Payloads)
  BY Zenon DEF Inv, TypeOK, GatewayType, BusType
<1>1. CASE BusByte
  <2>1. PICK b \in Sending : ByteReceived(Head(b.left)) /\ Took(b, TRUE) /\ UNCHANGED faults
    BY <1>1 DEF BusByte
  <2>2. Head(b.left) \in Byte
    BY <1>t, SendingType DEF BusType
  <2>3. QED
    BY <1>t, <2>1, <2>2, ReceiveInv
<1>2. CASE GarbledByte
  <2>1. PICK b \in Sending, data \in Garble :
          Disturb("garbled") /\ ByteReceived(data) /\ Took(b, FALSE)
    BY <1>2 DEF GarbledByte
  <2>2. data \in Byte /\ faults' \in Nat
    BY <2>1, DisturbType
  <2>3. QED
    BY <2>1, <2>2, ReceiveInv
<1>3. CASE BadByte
  <2>1. PICK b \in Sending : Disturb("badByte") /\ ErrorReceived /\ Took(b, FALSE)
    BY <1>3 DEF BadByte
  <2>2. bus' \in BusType /\ frames' \in 0 .. Len(Payloads)
    BY <1>t, <2>1, TookType
  <2>3. QED
    BY <2>1, <2>2, DisturbType, ErrorReceivedInv, BusStepInv
<1>4. CASE NoiseByte
  <2>1. PICK data \in Garble : Disturb("noise") /\ ByteReceived(data) /\ UNCHANGED <<bus, frames>>
    BY <1>4 DEF NoiseByte
  <2>2. UNCHANGED <<main, line, accepted, sound, raced>>
    BY <2>1 DEF ByteReceived
  <2>3. QED
    BY <1>t, <2>1, <2>2, DisturbType, ByteReceivedInv, BusStepInv
<1>5. CASE LateByte
  <2> DEFINE s == ByteLine(TRUE) \o EndLine(BeforeSei(TRUE))
  <2>1. PICK b \in Sending :
          /\ Disturb("late") /\ Room(7)
          /\ uart0_out' = app_ringBuffer_writeString(uart0_out, s)
          /\ gateway' = Shifted(BeforeSei(TRUE), Head(b.left))
          /\ timer1' = FALSE
          /\ Took(b, FALSE)
          /\ UNCHANGED <<main, line, accepted, sound, raced>>
    BY <1>5 DEF LateByte
  <2>2. /\ BeforeSei(TRUE) \in GatewayType
        /\ ByteLine(TRUE) \in Seq(Byte) /\ Len(ByteLine(TRUE)) <= 3
    BY <1>t, BeforeSeiType
  <2>3. EndLine(BeforeSei(TRUE)) \in Seq(Byte) /\ Len(EndLine(BeforeSei(TRUE))) <= 4
    BY <2>2, EndLineType
  <2>4. s \in Seq(Byte) /\ Len(s) <= 7
    <3> DEFINE a == ByteLine(TRUE)
               e == EndLine(BeforeSei(TRUE))
    <3> HIDE DEF a, e
    <3>1. a \in Seq(Byte) /\ Len(a) <= 3 /\ e \in Seq(Byte) /\ Len(e) <= 4
      BY <2>2, <2>3 DEF a, e
    <3>2. a \o e \in Seq(Byte) /\ Len(a \o e) <= 7
      BY <3>1, ConcatType
    <3>3. QED
      BY <3>2 DEF a, e
  <2> HIDE DEF s
  <2>5. Head(b.left) \in Byte /\ 7 \in Nat
    BY <1>t, SendingType DEF BusType
  <2>6. gateway' \in GatewayType
    BY <2>1, <2>2, <2>5, ShiftedType
  <2>7. uart0_out' \in RingOf(Byte) /\ LengthCounts' /\ LoadedHolds'
    BY <2>1, <2>4, <2>5, HandlerWrites
  <2>8. bus' \in BusType /\ frames' \in 0 .. Len(Payloads)
    BY <1>t, <2>1, TookType
  <2>9. QED
    BY <1>t, <2>1, <2>6, <2>7, <2>8, DisturbType, BusStepInv
<1>6. CASE FrameEnds
  <2>1. /\ TimedOut /\ UNCHANGED faults
        /\ sound' = IF bus.whole THEN Append(sound, bus.payload) ELSE sound
        /\ bus' = [bus EXCEPT !.heard = FALSE, !.whole = FALSE]
    BY <1>6 DEF FrameEnds
  <2>2. UNCHANGED <<gateway, main, frames, line, accepted, raced>> /\ timer1' = FALSE
    BY <2>1 DEF TimedOut
  <2>3. bus' \in BusType /\ bus.payload \in Seq(Byte)
    BY <1>t, <2>1 DEF BusType
  <2>4. Append(sound, bus.payload) \in Seq(Seq(Byte))
    BY <1>t, <2>3
  <2>5. sound' \in Seq(Seq(Byte))
    BY <1>t, <2>1, <2>4, Zenon
  <2>6. QED
    BY <1>t, <2>1, <2>2, <2>3, <2>5, TimedOutInv, BusStepInv
<1>7. CASE FramePauses
  <2>1. /\ TimedOut /\ Disturb("gap") /\ UNCHANGED sound
        /\ bus' = [bus EXCEPT !.heard = FALSE, !.whole = FALSE]
    BY <1>7 DEF FramePauses
  <2>2. UNCHANGED <<gateway, main, frames, line, accepted, raced>> /\ timer1' = FALSE
    BY <2>1 DEF TimedOut
  <2>3. bus' \in BusType
    BY <1>t, <2>1 DEF BusType
  <2>4. QED
    BY <1>t, <2>1, <2>2, <2>3, DisturbType, TimedOutInv, BusStepInv
<1>8. CASE Refuse
  <2>1. /\ Disturb("refusal") /\ Room(Len(RefusalLine))
        /\ uart0_out' = app_ringBuffer_writeString(uart0_out, RefusalLine)
        /\ bus' = [bus EXCEPT !.whole = FALSE]
        /\ UNCHANGED <<gateway, timer1, main, frames, line, accepted, sound, raced>>
    BY <1>8 DEF Refuse
  <2>2. RefusalLine \in Seq(Byte) /\ Len(RefusalLine) \in Nat
        /\ Len(RefusalLine) <= Len(RefusalLine)
    BY RefusalType
  <2>3. uart0_out' \in RingOf(Byte) /\ LengthCounts' /\ LoadedHolds'
    BY <2>1, <2>2, HandlerWrites
  <2>4. bus' \in BusType
    BY <1>t, <2>1 DEF BusType
  <2>5. QED
    BY <1>t, <2>1, <2>3, <2>4, DisturbType, BusStepInv
<1>9. CASE Test
  <2>1. /\ uart0_out.length > 0
        /\ main' = [at |-> "read", loaded |-> uart0_out.length]
        /\ UNCHANGED <<uart0_out, gateway, timer1, bus, frames, faults, line, accepted,
                       sound, raced>>
    BY <1>9 DEF Test
  <2>2. uart0_out.length \in Index /\ uart0_out.length \in Nat
    BY <1>t, SizeAssumption DEF TypeOK, RingOf, Index
  <2>3. main' \in [at : {"test", "read", "store"}, loaded : Index]
    BY <2>1, <2>2
  <2>4. TypeOK'
    BY <1>t, <2>1, <2>3, Zenon DEF TypeOK
  <2>5. LengthCounts'
    BY <2>1 DEF LengthCounts, Inv, Unread
  <2>6. LoadedHolds'
    BY <2>1, <2>2 DEF LoadedHolds
  <2>7. QED
    BY <2>4, <2>5, <2>6 DEF Inv
<1>10. CASE Load
  <2>1. PICK n \in {main.loaded, uart0_out.length} : main' = [at |-> "store", loaded |-> n]
    BY <1>10 DEF Load
  <2>2. /\ main.at = "read"
        /\ UNCHANGED <<uart0_out, gateway, timer1, bus, frames, faults, line, accepted,
                       sound, raced>>
    BY <1>10 DEF Load
  <2>3. main.loaded \in Index /\ uart0_out.length \in Index
    BY <1>t DEF TypeOK, RingOf
  <2>4. 0 < main.loaded /\ main.loaded <= uart0_out.length
    BY <2>2 DEF Inv, LoadedHolds
  <2>5. n \in Index /\ 0 < n /\ n <= uart0_out.length
    BY <2>3, <2>4, SizeAssumption DEF Index
  <2>6. main' \in [at : {"test", "read", "store"}, loaded : Index]
    BY <2>1, <2>5
  <2>7. TypeOK'
    BY <1>t, <2>2, <2>6, Zenon DEF TypeOK
  <2>8. LengthCounts'
    BY <2>2 DEF LengthCounts, Inv, Unread
  <2>9. LoadedHolds'
    BY <2>1, <2>2, <2>5 DEF LoadedHolds
  <2>10. QED
    BY <2>7, <2>8, <2>9 DEF Inv
<1>11. CASE Store
  <2> DEFINE c == NextChar(uart0_out)
             text == IF c = Colon THEN <<c>> ELSE Append(line, c)
  <2>1. /\ main.at = "store"
        /\ main' = [at |-> "test", loaded |-> 0]
        /\ uart0_out' = ReadStore(uart0_out, main.loaded)
        /\ raced' = (raced \/ main.loaded # uart0_out.length)
        /\ UNCHANGED <<gateway, timer1, bus, frames, faults, sound>>
    BY <1>11 DEF Store
  <2>2. /\ uart0_out \in RingOf(Byte) /\ main.loaded \in Index
        /\ 0 < main.loaded /\ main.loaded <= uart0_out.length
        /\ uart0_out.length <= Unread(uart0_out)
    BY <1>t, <2>1 DEF TypeOK, Inv, LoadedHolds, LengthCounts
  <2>3. /\ uart0_out' \in RingOf(Byte)
        /\ uart0_out'.length = main.loaded - 1
        /\ Unread(uart0_out)' = Unread(uart0_out) - 1
    BY <2>1, <2>2, RingRead
  <2>4. c \in Byte
    BY <2>2 DEF NextChar, RingOf
  <2>5. line \in Seq(Byte) /\ accepted \in Seq(Seq(Byte))
    BY <1>t DEF TypeOK
  <2>6. text \in Seq(Byte)
    BY <2>4, <2>5
  <2>7. line' \in Seq(Byte) /\ accepted' \in Seq(Seq(Byte))
    <3>1. PiReads(c)
      BY <1>11 DEF Store
    <3>2. CASE c = LF
      <4>1. line' = <<>>
            /\ accepted' = IF Legal(text) /\ LrcOk(text)
                           THEN Append(accepted, BufferOf(text)) ELSE accepted
        BY <3>1, <3>2 DEF PiReads
      <4>2. Legal(text) => BufferOf(text) \in Seq(Byte)
        BY <2>6, BufferType
      <4> HIDE DEF text
      <4>3. Legal(text) => Append(accepted, BufferOf(text)) \in Seq(Seq(Byte))
        BY <2>5, <4>2
      <4>4. accepted' \in Seq(Seq(Byte))
        BY <2>5, <4>1, <4>3, Zenon
      <4>5. QED
        BY <4>1, <4>4, EmptyType, Zenon
    <3>3. CASE c # LF
      <4>1. line' = text /\ accepted' = accepted
        BY <3>1, <3>3 DEF PiReads
      <4> HIDE DEF text
      <4>2. QED
        BY <4>1, <2>5, <2>6
    <3>4. QED
      BY <3>2, <3>3
  <2>8. main' \in [at : {"test", "read", "store"}, loaded : Index] /\ main'.at = "test"
    BY <2>1, SizeAssumption DEF Index
  <2>9. raced' \in BOOLEAN
    BY <1>t, <2>1 DEF TypeOK
  <2>10. TypeOK'
    BY <1>t, <2>1, <2>3, <2>7, <2>8, <2>9, Zenon DEF TypeOK
  <2>11. LengthCounts'
    <3>1. Unread(uart0_out) \in Nat /\ uart0_out.length \in Nat /\ main.loaded \in Nat
      BY <2>2, SizeAssumption DEF Unread, RingOf, Index
    <3>2. ~raced' => main.loaded = Unread(uart0_out)
      BY <2>1 DEF Inv, LengthCounts
    <3>3. uart0_out'.length <= Unread(uart0_out)'
      BY <2>2, <2>3, <3>1
    <3>4. ~raced' => uart0_out'.length = Unread(uart0_out)'
      BY <2>3, <3>2
    <3>5. QED
      BY <3>3, <3>4 DEF LengthCounts
  <2>12. LoadedHolds'
    BY <2>8 DEF LoadedHolds
  <2>13. QED
    BY <2>10, <2>11, <2>12 DEF Inv
<1>12. CASE UNCHANGED vars
  BY <1>12 DEF vars, firmware, Inv, TypeOK, LengthCounts, LoadedHolds, Unread
<1>13. QED
  BY <1>1, <1>2, <1>3, <1>4, <1>5, <1>6, <1>7, <1>8, <1>9, <1>10, <1>11, <1>12, Zenon DEF Next

-----------------------------------------------------------------------------
(* How the Pi reads what is in the ring *)

\* The line so far and the frames accepted.
Reader == Seq(Byte) \X Seq(Seq(Byte))

Taken(frames_, text) ==
  IF Legal(text) /\ LrcOk(text) THEN Append(frames_, BufferOf(text)) ELSE frames_

\* PiReads(c), as a step from one pair to the next.
AfterChar(p, c) ==
  LET text == IF c = Colon THEN <<c>> ELSE Append(p[1], c)
  IN  IF c = LF THEN << <<>>, Taken(p[2], text) >> ELSE << text, p[2] >>

LEMMA TakenType ==
  ASSUME NEW a \in Seq(Seq(Byte)), NEW text \in Seq(Byte)
  PROVE  Taken(a, text) \in Seq(Seq(Byte))
<1>1. CASE Legal(text)
  <2>1. BufferOf(text) \in Seq(Byte)
    BY <1>1, BufferType
  <2>2. Append(a, BufferOf(text)) \in Seq(Seq(Byte))
    BY <2>1
  <2>3. QED
    BY <2>2, Zenon DEF Taken
<1>2. CASE ~Legal(text)
  BY <1>2 DEF Taken
<1>3. QED
  BY <1>1, <1>2

LEMMA AfterCharType ==
  ASSUME NEW p \in Reader, NEW c \in Byte
  PROVE  AfterChar(p, c) \in Reader
<1> DEFINE text == IF c = Colon THEN <<c>> ELSE Append(p[1], c)
<1>1. p[1] \in Seq(Byte) /\ p[2] \in Seq(Seq(Byte))
  BY DEF Reader
<1>2. text \in Seq(Byte)
  BY <1>1
<1>3. AfterChar(p, c) = IF c = LF THEN << <<>>, Taken(p[2], text) >> ELSE << text, p[2] >>
  BY DEF AfterChar
<1> HIDE DEF text
<1>4. Taken(p[2], text) \in Seq(Seq(Byte)) /\ <<>> \in Seq(Byte)
  BY <1>1, <1>2, TakenType
<1>5. << <<>>, Taken(p[2], text) >> \in Reader /\ << text, p[2] >> \in Reader
  BY <1>1, <1>2, <1>4 DEF Reader
<1>6. QED
  BY <1>3, <1>5

LEMMA PiReadsIs ==
  ASSUME NEW c, PiReads(c)
  PROVE  << line', accepted' >> = AfterChar(<< line, accepted >>, c)
<1> DEFINE text == IF c = Colon THEN <<c>> ELSE Append(line, c)
           p == << line, accepted >>
<1>1. CASE c = LF
  <2>1. line' = <<>> /\ accepted' = Taken(accepted, text)
    BY <1>1 DEF PiReads, Taken
  <2>2. AfterChar(p, c) = << <<>>, Taken(accepted, text) >>
    BY <1>1 DEF AfterChar
  <2>3. QED
    BY <2>1, <2>2
<1>2. CASE c # LF
  <2>1. line' = text /\ accepted' = accepted
    BY <1>2 DEF PiReads
  <2>2. AfterChar(p, c) = << text, accepted >>
    BY <1>2 DEF AfterChar
  <2>3. QED
    BY <2>1, <2>2
<1>3. QED
  BY <1>1, <1>2

\* The characters of s lead from p to r.
ReadingOf(t, p, s, r) ==
  /\ t \in [0 .. Len(s) -> Reader]
  /\ t[0] = p /\ t[Len(s)] = r
  /\ \A i \in 1 .. Len(s) : t[i] = AfterChar(t[i - 1], s[i])

Reads(p, s, r) == \E t : ReadingOf(t, p, s, r)

LEMMA ReadsNone == ASSUME NEW p \in Reader PROVE Reads(p, <<>>, p)
<1> DEFINE t == [i \in 0 .. 0 |-> p]
<1>1. Len(<<>>) = 0 /\ t[0] = p /\ t \in [0 .. 0 -> Reader] /\ 1 .. 0 = {}
  OBVIOUS
<1> HIDE DEF t
<1>2. ReadingOf(t, p, <<>>, p)
  BY <1>1 DEF ReadingOf
<1>3. QED
  BY <1>2 DEF Reads

LEMMA ReadsType ==
  ASSUME NEW p, NEW s \in Seq(Byte), NEW r, Reads(p, s, r)
  PROVE  p \in Reader /\ r \in Reader
<1>1. PICK t : ReadingOf(t, p, s, r)
  BY DEF Reads
<1>2. Len(s) \in Nat
  OBVIOUS
<1>3. 0 \in 0 .. Len(s) /\ Len(s) \in 0 .. Len(s)
  BY <1>2
<1>4. QED
  BY <1>1, <1>3 DEF ReadingOf

LEMMA ReadsMore ==
  ASSUME NEW p, NEW s \in Seq(Byte), NEW r, Reads(p, s, r), NEW c \in Byte
  PROVE  Reads(p, Append(s, c), AfterChar(r, c))
<1> DEFINE u == Append(s, c)
<1>1. PICK t : ReadingOf(t, p, s, r)
  BY DEF Reads
<1>2. PICK n \in Nat : n = Len(s)
  OBVIOUS
<1>3. /\ t \in [0 .. n -> Reader] /\ t[0] = p /\ t[n] = r
      /\ \A i \in 1 .. n : t[i] = AfterChar(t[i - 1], s[i])
  BY <1>1, <1>2 DEF ReadingOf
<1>4. Len(u) = n + 1 /\ u[n + 1] = c /\ \A i \in 1 .. n : u[i] = s[i]
  BY <1>2
<1>5. AfterChar(r, c) \in Reader
  <2>1. r \in Reader
    BY ReadsType
  <2>2. QED
    BY <2>1, AfterCharType
<1> DEFINE v == [i \in 0 .. n + 1 |-> IF i = n + 1 THEN AfterChar(r, c) ELSE t[i]]
<1>6. /\ v \in [0 .. n + 1 -> Reader] /\ v[n + 1] = AfterChar(r, c)
      /\ \A i \in 0 .. n : v[i] = t[i]
  BY <1>3, <1>5
<1> HIDE DEF u, v
<1>7. v[0] = p
  BY <1>3, <1>6
<1>8. ASSUME NEW i \in 1 .. n + 1 PROVE v[i] = AfterChar(v[i - 1], u[i])
  <2>1. CASE i = n + 1
    <3>1. v[i - 1] = r
      BY <1>3, <1>6, <2>1
    <3>2. QED
      BY <1>4, <1>6, <2>1, <3>1
  <2>2. CASE i # n + 1
    <3>1. i \in 1 .. n /\ i - 1 \in 0 .. n /\ i \in 0 .. n
      BY <2>2
    <3>2. QED
      BY <1>3, <1>4, <1>6, <3>1
  <2>3. QED
    BY <2>1, <2>2
<1>9. ReadingOf(v, p, u, AfterChar(r, c))
  BY <1>4, <1>6, <1>7, <1>8 DEF ReadingOf
<1>10. QED
  BY <1>9 DEF Reads, u

LEMMA ReadsAll ==
  ASSUME NEW p, NEW s \in Seq(Byte), NEW r, Reads(p, s, r), NEW q,
         NEW u \in Seq(Byte), Reads(r, u, q)
  PROVE  Reads(p, s \o u, q)
<1> DEFINE Sound(w) == \A x : Reads(r, w, x) => Reads(p, s \o w, x)
           P == { w \in Seq(Byte) : Sound(w) }
<1>1. <<>> \in P
  <2>1. s \o <<>> = s /\ <<>> \in Seq(Byte) /\ Len(<<>>) = 0
    OBVIOUS
  <2>2. ASSUME NEW x, Reads(r, <<>>, x) PROVE x = r
    <3>1. PICK t : ReadingOf(t, r, <<>>, x)
      BY <2>2 DEF Reads
    <3>2. QED
      BY <2>1, <3>1 DEF ReadingOf
  <2>3. Sound(<<>>)
    BY <2>1, <2>2
  <2> HIDE DEF Sound
  <2>4. QED
    BY <2>1, <2>3
<1>2. ASSUME NEW w \in P, NEW c \in Byte PROVE Append(w, c) \in P
  <2>1. /\ w \in Seq(Byte) /\ Append(w, c) \in Seq(Byte) /\ s \o w \in Seq(Byte)
        /\ s \o Append(w, c) = Append(s \o w, c)
    OBVIOUS
  <2>2. ASSUME NEW x, Reads(r, Append(w, c), x) PROVE Reads(p, s \o Append(w, c), x)
    <3>1. PICK y : Reads(r, w, y) /\ x = AfterChar(y, c)
      <4>1. PICK t : ReadingOf(t, r, Append(w, c), x)
        BY <2>2 DEF Reads
      <4>2. PICK n \in Nat : n = Len(w)
        OBVIOUS
      <4> DEFINE u2 == Append(w, c)
      <4>3. Len(u2) = n + 1 /\ u2[n + 1] = c /\ \A i \in 1 .. n : u2[i] = w[i]
        BY <2>1, <4>2
      <4> HIDE DEF u2
      <4>4. /\ t \in [0 .. n + 1 -> Reader] /\ t[0] = r /\ t[n + 1] = x
            /\ \A i \in 1 .. n + 1 : t[i] = AfterChar(t[i - 1], u2[i])
        BY <4>1, <4>3 DEF ReadingOf, u2
      <4> DEFINE v == [i \in 0 .. n |-> t[i]]
      <4>5. v \in [0 .. n -> Reader] /\ \A i \in 0 .. n : v[i] = t[i]
        BY <4>4
      <4> HIDE DEF v
      <4>6. ASSUME NEW i \in 1 .. n PROVE v[i] = AfterChar(v[i - 1], w[i])
        <5>1. i \in 1 .. n + 1 /\ i \in 0 .. n /\ i - 1 \in 0 .. n
          OBVIOUS
        <5>2. QED
          BY <4>3, <4>4, <4>5, <5>1
      <4>7. ReadingOf(v, r, w, t[n])
        BY <4>2, <4>4, <4>5, <4>6 DEF ReadingOf
      <4>8. x = AfterChar(t[n], c)
        <5>1. n + 1 \in 1 .. n + 1 /\ (n + 1) - 1 = n
          OBVIOUS
        <5>2. QED
          BY <4>3, <4>4, <5>1
      <4>9. QED
        BY <4>7, <4>8 DEF Reads
    <3>2. Reads(p, s \o w, y)
      BY <3>1
    <3>3. Reads(p, Append(s \o w, c), AfterChar(y, c))
      BY <2>1, <3>2, ReadsMore
    <3>4. QED
      BY <2>1, <3>1, <3>3
  <2>3. QED
    BY <2>1, <2>2
<1>3. P \subseteq Seq(Byte)
  OBVIOUS
<1> HIDE DEF P
<1>4. P = Seq(Byte)
  BY <1>1, <1>2, <1>3, Sequences
<1>5. QED
  BY <1>4 DEF P

LEMMA ReadsRest ==
  ASSUME NEW p, NEW s \in Seq(Byte), NEW r, Reads(p, s, r), s # <<>>
  PROVE  Reads(AfterChar(p, Head(s)), Tail(s), r)
<1> DEFINE u == Tail(s)
<1>1. PICK t : ReadingOf(t, p, s, r)
  BY DEF Reads
<1>2. PICK n \in Nat : n + 1 = Len(s)
  <2>1. Len(s) \in Nat /\ Len(s) # 0
    OBVIOUS
  <2>2. Len(s) - 1 \in Nat /\ (Len(s) - 1) + 1 = Len(s)
    BY <2>1
  <2>3. QED
    BY <2>2
<1>3. /\ t \in [0 .. n + 1 -> Reader] /\ t[0] = p /\ t[n + 1] = r
      /\ \A i \in 1 .. n + 1 : t[i] = AfterChar(t[i - 1], s[i])
  BY <1>1, <1>2 DEF ReadingOf
<1>4. Len(u) = n /\ Head(s) = s[1] /\ \A i \in 1 .. n : u[i] = s[i + 1]
  BY <1>2
<1> DEFINE v == [i \in 0 .. n |-> t[i + 1]]
<1>5. v \in [0 .. n -> Reader] /\ \A i \in 0 .. n : v[i] = t[i + 1]
  <2>1. \A i \in 0 .. n : i + 1 \in 0 .. n + 1
    OBVIOUS
  <2>2. QED
    BY <1>3, <2>1
<1> HIDE DEF u, v
<1>6. v[0] = AfterChar(p, Head(s))
  <2>1. 1 \in 1 .. n + 1 /\ 0 \in 0 .. n /\ 0 + 1 = 1 /\ 1 - 1 = 0
    OBVIOUS
  <2>2. QED
    BY <1>3, <1>4, <1>5, <2>1
<1>7. ASSUME NEW i \in 1 .. n PROVE v[i] = AfterChar(v[i - 1], u[i])
  <2>1. i \in 0 .. n /\ i - 1 \in 0 .. n /\ i + 1 \in 1 .. n + 1 /\ (i + 1) - 1 = (i - 1) + 1
    OBVIOUS
  <2>2. v[i] = t[i + 1] /\ v[i - 1] = t[(i - 1) + 1]
    BY <1>5, <2>1, Zenon
  <2>3. t[i + 1] = AfterChar(t[(i + 1) - 1], s[i + 1])
    BY <1>3, <2>1, Zenon
  <2>4. u[i] = s[i + 1]
    BY <1>4, Zenon
  <2>5. QED
    BY <2>1, <2>2, <2>3, <2>4, Zenon
<1>8. v[n] = r
  <2>1. n \in 0 .. n
    OBVIOUS
  <2>2. QED
    BY <1>3, <1>5, <2>1
<1>9. ReadingOf(v, AfterChar(p, Head(s)), u, r)
  BY <1>4, <1>5, <1>6, <1>7, <1>8 DEF ReadingOf
<1>10. QED
  BY <1>9 DEF Reads, u

\* What has been accepted stays accepted.
Continues(b, a) == DOMAIN a \subseteq DOMAIN b /\ \A i \in DOMAIN a : b[i] = a[i]

LEMMA CharContinues ==
  ASSUME NEW p \in Reader, NEW c
  PROVE  Continues(AfterChar(p, c)[2], p[2])
<1>1. p[2] \in Seq(Seq(Byte))
  BY DEF Reader
<1>2. ASSUME NEW x PROVE Continues(Append(p[2], x), p[2])
  BY <1>1 DEF Continues
<1>3. Continues(p[2], p[2])
  BY DEF Continues
<1>4. \A text : Taken(p[2], text) = p[2] \/ \E x : Taken(p[2], text) = Append(p[2], x)
  BY Zenon DEF Taken
<1>5. AfterChar(p, c)[2] = p[2] \/ \E x : AfterChar(p, c)[2] = Append(p[2], x)
  <2>1. CASE c = LF
    <3>1. PICK text : AfterChar(p, c) = << <<>>, Taken(p[2], text) >>
      BY <2>1 DEF AfterChar
    <3>2. QED
      BY <1>4, <3>1
  <2>2. CASE c # LF
    <3>1. PICK text : AfterChar(p, c) = << text, p[2] >>
      BY <2>2 DEF AfterChar
    <3>2. QED
      BY <3>1
  <2>3. QED
    BY <2>1, <2>2
<1>6. QED
  BY <1>2, <1>3, <1>5

LEMMA ReadsContinues ==
  ASSUME NEW p, NEW s \in Seq(Byte), NEW r, Reads(p, s, r)
  PROVE  Continues(r[2], p[2])
<1>1. PICK t : ReadingOf(t, p, s, r)
  BY DEF Reads
<1>2. PICK n \in Nat : n = Len(s)
  OBVIOUS
<1>3. /\ t \in [0 .. n -> Reader] /\ t[0] = p /\ t[n] = r
      /\ \A i \in 1 .. n : t[i] = AfterChar(t[i - 1], s[i])
  BY <1>1, <1>2 DEF ReadingOf
<1> DEFINE S == { i \in Nat : i <= n => Continues(t[i][2], p[2]) }
<1>4. 0 \in S
  BY <1>3 DEF Continues
<1>5. ASSUME NEW i \in S PROVE i + 1 \in S
  <2> SUFFICES ASSUME i + 1 <= n PROVE Continues(t[i + 1][2], p[2])
    OBVIOUS
  <2>1. i \in Nat /\ i <= n /\ i \in 0 .. n /\ i + 1 \in 1 .. n /\ (i + 1) - 1 = i
    OBVIOUS
  <2>2. t[i + 1] = AfterChar(t[i], s[i + 1]) /\ t[i] \in Reader
    BY <1>3, <2>1
  <2>3. Continues(t[i][2], p[2])
    BY <2>1
  <2>4. Continues(t[i + 1][2], t[i][2])
    BY <2>2, CharContinues
  <2> HIDE DEF S
  <2>5. QED
    BY <2>3, <2>4 DEF Continues
<1>6. S \subseteq Nat
  OBVIOUS
<1> HIDE DEF S
<1>7. n \in S
  BY <1>4, <1>5, <1>6, Natural
<1>8. QED
  BY <1>3, <1>7 DEF S

-----------------------------------------------------------------------------
(* The text in the ring *)

TextOf(b) == [i \in 1 .. Unread(b) |-> b.buffer[Wrap(b.rIndex + i - 1)]]

LEMMA RingText ==
  ASSUME NEW b \in RingOf(Byte)
  PROVE  /\ Unread(b) \in 0 .. W - 1
         /\ TextOf(b) \in Seq(Byte) /\ Len(TextOf(b)) = Unread(b)
         /\ \A i \in 1 .. Unread(b) :
              /\ Wrap(b.rIndex + i - 1) \in Index
              /\ TextOf(b)[i] = b.buffer[Wrap(b.rIndex + i - 1)]
<1>1. /\ b.wIndex \in 0 .. W - 1 /\ b.rIndex \in 0 .. W - 1 /\ b.buffer \in [Index -> Byte]
  BY RingFields
<1>2. PICK n \in 0 .. W - 1 : n = Unread(b)
  BY <1>1, SizeAssumption DEF Unread
<1>3. \A r \in 0 .. W - 1, i \in 1 .. n : Wrap(r + i - 1) \in 0 .. W - 1
  BY SizeAssumption DEF Wrap
<1>4. \A i \in 1 .. n : Wrap(b.rIndex + i - 1) \in Index
  BY <1>1, <1>3 DEF Index
<1>5. TextOf(b) = [i \in 1 .. n |-> b.buffer[Wrap(b.rIndex + i - 1)]]
  BY <1>2 DEF TextOf
<1>6. TextOf(b) \in [1 .. n -> Byte]
  BY <1>1, <1>4, <1>5
<1>7. n \in Nat
  BY SizeAssumption
<1>8. TextOf(b) \in Seq(Byte) /\ Len(TextOf(b)) = n
  BY <1>6, <1>7
<1>9. QED
  BY <1>2, <1>4, <1>5, <1>8

\* A handler adds its string to the text ...
LEMMA TextWritten ==
  ASSUME NEW b \in RingOf(Byte), NEW s \in Seq(Byte),
         b.length <= Unread(b), Unread(b) + Len(s) < W
  PROVE  TextOf(app_ringBuffer_writeString(b, s)) = TextOf(b) \o s
<1> DEFINE c == app_ringBuffer_writeString(b, s)
           place(i) == IF i >= b.wIndex THEN i - b.wIndex ELSE i + W - b.wIndex
<1>1. c \in RingOf(Byte) /\ Unread(c) = Unread(b) + Len(s)
  BY RingWrite
<1>2. /\ c.rIndex = b.rIndex
      /\ \A i \in Index : c.buffer[i] = IF place(i) < Len(s) THEN s[place(i) + 1]
                                                           ELSE b.buffer[i]
  BY DEF app_ringBuffer_writeString
<1>3. PICK n \in Nat : n = Unread(b)
  BY RingText, SizeAssumption
<1>4. PICK m \in Nat : m = Len(s)
  OBVIOUS
<1>5. /\ b.wIndex \in 0 .. W - 1 /\ b.rIndex \in 0 .. W - 1
  BY RingFields
<1>6. n + m < W /\ Unread(c) = n + m
  BY <1>1, <1>3, <1>4
<1>7. b.wIndex = Wrap(b.rIndex + n)
  <2>1. \A w, r \in 0 .. W - 1 : w = Wrap(r + (IF w >= r THEN w - r ELSE w + W - r))
    BY SizeAssumption DEF Wrap
  <2>2. QED
    BY <1>3, <1>5, <2>1 DEF Unread
<1>8. ASSUME NEW i \in 1 .. n + m
      PROVE  place(Wrap(b.rIndex + i - 1)) = IF i <= n THEN W - n + i - 1 ELSE i - n - 1
  <2> DEFINE from(w, j) == IF j >= w THEN j - w ELSE j + W - w
  <2>1. ASSUME NEW r \in 0 .. W - 1
        PROVE  from(Wrap(r + n), Wrap(r + i - 1)) = IF i <= n THEN W - n + i - 1 ELSE i - n - 1
    BY <1>6, SizeAssumption DEF Wrap
  <2>2. QED
    BY <1>5, <1>7, <2>1
<1>9. /\ TextOf(b) \in Seq(Byte) /\ Len(TextOf(b)) = n
      /\ \A i \in 1 .. n : TextOf(b)[i] = b.buffer[Wrap(b.rIndex + i - 1)]
  BY <1>3, RingText
<1>10. /\ TextOf(c) \in Seq(Byte) /\ Len(TextOf(c)) = n + m
       /\ \A i \in 1 .. n + m : /\ Wrap(b.rIndex + i - 1) \in Index
                                /\ TextOf(c)[i] = c.buffer[Wrap(b.rIndex + i - 1)]
  BY <1>1, <1>2, <1>6, RingText
<1> HIDE DEF c, place
<1>11. /\ TextOf(b) \o s \in Seq(Byte) /\ Len(TextOf(b) \o s) = n + m
       /\ \A i \in 1 .. n + m : (TextOf(b) \o s)[i] =
            IF i <= n THEN TextOf(b)[i] ELSE s[i - n]
  BY <1>4, <1>9, ConcatProperties
<1>12. ASSUME NEW i \in 1 .. n + m PROVE TextOf(c)[i] = (TextOf(b) \o s)[i]
  <2> DEFINE j == Wrap(b.rIndex + i - 1)
  <2>1. /\ TextOf(c)[i] = IF place(j) < m THEN s[place(j) + 1] ELSE b.buffer[j]
    BY <1>2, <1>4, <1>10
  <2>2. CASE i <= n
    <3>1. place(j) = W - n + i - 1
      BY <1>8, <2>2
    <3>2. ~(place(j) < m)
      BY <1>6, <3>1, SizeAssumption
    <3>3. i \in 1 .. n
      BY <2>2
    <3> HIDE DEF j
    <3>4. TextOf(c)[i] = b.buffer[j]
      BY <2>1, <3>2
    <3>5. QED
      BY <1>9, <1>11, <2>2, <3>3, <3>4 DEF j
  <2>3. CASE ~(i <= n)
    <3>1. place(j) = i - n - 1
      BY <1>8, <2>3
    <3>2. place(j) < m /\ place(j) + 1 = i - n
      BY <2>3, <3>1
    <3> HIDE DEF j
    <3>3. TextOf(c)[i] = s[i - n]
      BY <2>1, <3>2
    <3>4. QED
      BY <1>11, <2>3, <3>3
  <2>4. QED
    BY <2>2, <2>3
<1>13. TextOf(c) = TextOf(b) \o s
  BY <1>10, <1>11, <1>12, SeqEqual
<1>14. QED
  BY <1>13 DEF c

\* ... and app_main() takes its first character.
LEMMA TextRead ==
  ASSUME NEW b \in RingOf(Byte), NEW loaded \in Index,
         0 < loaded, loaded <= b.length, b.length <= Unread(b)
  PROVE  /\ TextOf(b) # <<>> /\ NextChar(b) = Head(TextOf(b))
         /\ TextOf(ReadStore(b, loaded)) = Tail(TextOf(b))
<1> DEFINE c == ReadStore(b, loaded)
           t == TextOf(b)
<1>1. c \in RingOf(Byte) /\ Unread(c) = Unread(b) - 1
  BY RingRead
<1>2. b.rIndex \in 0 .. W - 1 /\ b.length \in 0 .. W - 1 /\ loaded \in 0 .. W - 1
  BY RingFields DEF Index
<1>3. c.rIndex = Wrap(b.rIndex + 1) /\ c.buffer = b.buffer
  BY DEF ReadStore, RingOf
<1>4. PICK n \in Nat : Unread(b) = n + 1
  <2>1. Unread(b) \in 0 .. W - 1
    BY RingText
  <2>2. Unread(b) - 1 \in Nat /\ Unread(b) = (Unread(b) - 1) + 1
    BY <1>2, <2>1, SizeAssumption
  <2>3. QED
    BY <2>2
<1>5. /\ t \in Seq(Byte) /\ Len(t) = n + 1 /\ n + 1 < W
      /\ \A i \in 1 .. n + 1 : t[i] = b.buffer[Wrap(b.rIndex + i - 1)]
  BY <1>4, RingText, SizeAssumption
<1>6. /\ TextOf(c) \in Seq(Byte) /\ Len(TextOf(c)) = n
      /\ \A i \in 1 .. n : TextOf(c)[i] = b.buffer[Wrap(c.rIndex + i - 1)]
  <2>1. Unread(c) = n
    BY <1>1, <1>4
  <2>2. QED
    BY <1>1, <1>3, <2>1, RingText
<1> HIDE DEF c, t
<1>7. t # <<>> /\ Head(t) = t[1] /\ Tail(t) \in Seq(Byte) /\ Len(Tail(t)) = n
      /\ \A i \in 1 .. n : Tail(t)[i] = t[i + 1]
  BY <1>5
<1>8. NextChar(b) = t[1]
  <2>1. Wrap(b.rIndex + 1 - 1) = b.rIndex /\ 1 \in 1 .. n + 1
    BY <1>2, SizeAssumption DEF Wrap
  <2>2. QED
    BY <1>5, <2>1 DEF NextChar
<1>9. ASSUME NEW i \in 1 .. n PROVE TextOf(c)[i] = Tail(t)[i]
  <2>0. n + 1 < W
    BY <1>5
  <2>1. \A r \in 0 .. W - 1 : Wrap(Wrap(r + 1) + i - 1) = Wrap(r + (i + 1) - 1)
    BY <2>0, SizeAssumption DEF Wrap
  <2>2. Wrap(c.rIndex + i - 1) = Wrap(b.rIndex + (i + 1) - 1)
    BY <1>2, <1>3, <2>1
  <2>3. i + 1 \in 1 .. n + 1
    OBVIOUS
  <2>4. QED
    BY <1>5, <1>6, <1>7, <2>2, <2>3
<1>10. TextOf(c) = Tail(t)
  BY <1>6, <1>7, <1>9, SeqEqual
<1>11. QED
  BY <1>7, <1>8, <1>10 DEF c, t

-----------------------------------------------------------------------------
(* Frames accepted and frames not disturbed *)

\* The frames of a are among those of s, in their order.
Embeds(a, s) ==
  \E place \in [DOMAIN a -> DOMAIN s] :
    /\ \A i, j \in DOMAIN a : i < j => place[i] < place[j]
    /\ \A i \in DOMAIN a : a[i] = s[place[i]]

LEMMA EmbedsEmpty == Embeds(<<>>, <<>>)
<1>1. DOMAIN <<>> = {}
  OBVIOUS
<1>2. [i \in {} |-> 0] \in [{} -> {}]
  OBVIOUS
<1>3. QED
  BY <1>1, <1>2 DEF Embeds

LEMMA EmbedsMore ==
  ASSUME NEW a \in Seq(Seq(Byte)), NEW s \in Seq(Seq(Byte)), Embeds(a, s), NEW x \in Seq(Byte)
  PROVE  Embeds(a, Append(s, x))
<1>1. PICK place \in [DOMAIN a -> DOMAIN s] :
        /\ \A i, j \in DOMAIN a : i < j => place[i] < place[j]
        /\ \A i \in DOMAIN a : a[i] = s[place[i]]
  BY DEF Embeds
<1>2. DOMAIN s \subseteq DOMAIN Append(s, x) /\ \A i \in DOMAIN s : Append(s, x)[i] = s[i]
  OBVIOUS
<1>3. place \in [DOMAIN a -> DOMAIN Append(s, x)]
  BY <1>2
<1>4. \A i \in DOMAIN a : a[i] = Append(s, x)[place[i]]
  BY <1>1, <1>2, Zenon
<1>5. QED
  BY <1>1, <1>3, <1>4, Zenon DEF Embeds

LEMMA EmbedsBoth ==
  ASSUME NEW a \in Seq(Seq(Byte)), NEW s \in Seq(Seq(Byte)), Embeds(a, s), NEW x \in Seq(Byte)
  PROVE  Embeds(Append(a, x), Append(s, x))
<1> DEFINE b == Append(a, x)
           u == Append(s, x)
<1>1. PICK place \in [DOMAIN a -> DOMAIN s] :
        /\ \A i, j \in DOMAIN a : i < j => place[i] < place[j]
        /\ \A i \in DOMAIN a : a[i] = s[place[i]]
  BY DEF Embeds
<1>2. PICK m \in Nat : m = Len(a) /\ DOMAIN a = 1 .. m /\ DOMAIN b = 1 .. m + 1
  OBVIOUS
<1>3. PICK n \in Nat : n = Len(s) /\ DOMAIN s = 1 .. n /\ DOMAIN u = 1 .. n + 1
  OBVIOUS
<1>4. b[m + 1] = x /\ \A i \in 1 .. m : b[i] = a[i]
  BY <1>2
<1>5. u[n + 1] = x /\ \A i \in 1 .. n : u[i] = s[i]
  BY <1>3
<1> HIDE DEF b, u
<1> DEFINE next == [i \in 1 .. m + 1 |-> IF i = m + 1 THEN n + 1 ELSE place[i]]
<1>6. \A i \in 1 .. m : place[i] \in 1 .. n
  BY <1>1, <1>2, <1>3
<1>7. /\ next \in [1 .. m + 1 -> 1 .. n + 1] /\ next[m + 1] = n + 1
      /\ \A i \in 1 .. m : next[i] = place[i]
  <2>1. \A i \in 1 .. m + 1 : i # m + 1 => i \in 1 .. m
    OBVIOUS
  <2>2. QED
    BY <1>6, <2>1
<1> HIDE DEF next
<1>8. ASSUME NEW i \in 1 .. m + 1 PROVE b[i] = u[next[i]]
  <2>1. CASE i = m + 1
    BY <1>4, <1>5, <1>7, <2>1
  <2>2. CASE i # m + 1
    <3>1. i \in 1 .. m
      BY <2>2
    <3>2. next[i] = place[i] /\ place[i] \in 1 .. n
      BY <1>6, <1>7, <3>1, Zenon
    <3>3. b[i] = a[i] /\ a[i] = s[place[i]]
      BY <1>1, <1>2, <1>4, <3>1, Zenon
    <3>4. u[place[i]] = s[place[i]]
      BY <1>5, <3>2, Zenon
    <3>5. QED
      BY <3>2, <3>3, <3>4, Zenon
  <2>3. QED
    BY <2>1, <2>2
<1>9. ASSUME NEW i \in 1 .. m + 1, NEW j \in 1 .. m + 1, i < j PROVE next[i] < next[j]
  <2>1. i \in 1 .. m
    BY <1>9
  <2>2. CASE j = m + 1
    <3>1. next[j] = n + 1
      BY <1>7, <2>2, Zenon
    <3>2. next[i] = place[i] /\ place[i] \in 1 .. n
      BY <1>6, <1>7, <2>1, Zenon
    <3>3. \A k \in 1 .. n : k < n + 1
      OBVIOUS
    <3>4. QED
      BY <3>1, <3>2, <3>3, Zenon
  <2>3. CASE j # m + 1
    <3>1. j \in 1 .. m
      BY <2>3
    <3>2. QED
      BY <1>1, <1>2, <1>7, <1>9, <2>1, <3>1
  <2>4. QED
    BY <2>2, <2>3
<1>10. Embeds(b, u)
  BY <1>2, <1>3, <1>7, <1>8, <1>9 DEF Embeds
<1>11. QED
  BY <1>10 DEF b, u

LEMMA EmbedsEarlier ==
  ASSUME NEW a \in Seq(Seq(Byte)), NEW b \in Seq(Seq(Byte)), NEW s \in Seq(Seq(Byte)),
         Embeds(b, s), Continues(b, a)
  PROVE  Embeds(a, s)
<1>1. PICK place \in [DOMAIN b -> DOMAIN s] :
        /\ \A i, j \in DOMAIN b : i < j => place[i] < place[j]
        /\ \A i \in DOMAIN b : b[i] = s[place[i]]
  BY DEF Embeds
<1> DEFINE first == [i \in DOMAIN a |-> place[i]]
<1>2. DOMAIN a \subseteq DOMAIN b /\ \A i \in DOMAIN a : b[i] = a[i]
  BY DEF Continues
<1>3. first \in [DOMAIN a -> DOMAIN s] /\ \A i \in DOMAIN a : first[i] = place[i]
  BY <1>2
<1> HIDE DEF first
<1>4. \A i, j \in DOMAIN a : i < j => first[i] < first[j]
  BY <1>1, <1>2, <1>3, Zenon
<1>5. \A i \in DOMAIN a : a[i] = s[first[i]]
  BY <1>1, <1>2, <1>3, Zenon
<1>6. QED
  BY <1>3, <1>4, <1>5, Zenon DEF Embeds

-----------------------------------------------------------------------------
(* A line as the gateway writes it *)

LEMMA CharEffect ==
  ASSUME NEW l \in Seq(Byte), NEW a \in Seq(Seq(Byte)), NEW c \in Byte,
         c # Colon, c # LF
  PROVE  AfterChar(<< l, a >>, c) = << Append(l, c), a >>
BY DEF AfterChar

LEMMA TwoElements ==
  ASSUME NEW c \in Byte, NEW d \in Byte
  PROVE  Append(Append(<<>>, c), d) = << c, d >>
<1>1. <<>> \in Seq(Byte) /\ << c, d >> \in Seq(Byte)
  OBVIOUS
<1>2. <<>> \o << c, d >> = << c, d >>
  BY <1>1, ConcatEmptySeq, Zenon
<1>3. QED
  BY <1>1, <1>2, AppendTwice, Zenon

LEMMA ReadsTwo ==
  ASSUME NEW p \in Reader, NEW c \in Byte, NEW d \in Byte
  PROVE  Reads(p, << c, d >>, AfterChar(AfterChar(p, c), d))
<1>1. <<>> \in Seq(Byte) /\ Append(<<>>, c) \in Seq(Byte)
  OBVIOUS
<1>2. Reads(p, <<>>, p)
  BY ReadsNone
<1>3. Reads(p, Append(<<>>, c), AfterChar(p, c))
  BY <1>1, <1>2, ReadsMore
<1>4. Reads(p, Append(Append(<<>>, c), d), AfterChar(AfterChar(p, c), d))
  BY <1>1, <1>3, ReadsMore
<1>5. Append(Append(<<>>, c), d) = << c, d >>
  BY TwoElements
<1>6. QED
  BY <1>4, <1>5, Zenon

LEMMA ReadsDigits ==
  ASSUME NEW l \in Seq(Byte), NEW a \in Seq(Seq(Byte)), NEW x \in Byte
  PROVE  Reads(<< l, a >>, ByteText(x), << l \o ByteText(x), a >>)
<1> DEFINE c == Digit(x \div 16)
           d == Digit(x % 16)
<1>1. c \in Digits /\ d \in Digits
  BY DigitsOfByte
<1>2. c \in Byte /\ d \in Byte
  <2>1. x \div 16 \in 0 .. 15 /\ x % 16 \in 0 .. 15
    BY DEF Byte
  <2>2. QED
    BY <2>1, DigitType
<1>3. c # Colon /\ c # LF /\ d # Colon /\ d # LF
  BY <1>1, Characters
<1>4. ByteText(x) = << c, d >>
  BY DEF ByteText
<1> HIDE DEF c, d
<1>5. << l, a >> \in Reader
  BY DEF Reader
<1>6. Append(l, c) \in Seq(Byte)
  BY <1>2
<1>7. AfterChar(<< l, a >>, c) = << Append(l, c), a >>
  BY <1>2, <1>3, CharEffect
<1>8. AfterChar(<< Append(l, c), a >>, d) = << Append(Append(l, c), d), a >>
  BY <1>2, <1>3, <1>6, CharEffect
<1>9. Append(Append(l, c), d) = l \o << c, d >>
  BY <1>2, AppendTwice, Zenon
<1>10. Reads(<< l, a >>, << c, d >>, AfterChar(AfterChar(<< l, a >>, c), d))
  BY <1>2, <1>5, ReadsTwo
<1>11. QED
  BY <1>4, <1>7, <1>8, <1>9, <1>10, Zenon

LEMMA ReadsColon ==
  ASSUME NEW p \in Reader
  PROVE  Reads(p, <<Colon>>, << <<Colon>>, p[2] >>)
<1>1. Reads(p, Append(<<>>, Colon), AfterChar(p, Colon))
  BY EmptyType, Characters, ReadsNone, ReadsMore
<1>2. Append(<<>>, Colon) = <<Colon>> /\ AfterChar(p, Colon) = << <<Colon>>, p[2] >>
  BY Characters DEF AfterChar
<1>3. QED
  BY <1>1, <1>2

LEMMA ReadsEnd ==
  ASSUME NEW l \in Seq(Byte), NEW a \in Seq(Seq(Byte))
  PROVE  Reads(<< l, a >>, <<CR, LF>>, << <<>>, Taken(a, l \o <<CR, LF>>) >>)
<1>1. CR \in Byte /\ LF \in Byte /\ CR # Colon /\ CR # LF /\ LF # Colon
  BY Characters
<1>2. << l, a >> \in Reader
  BY DEF Reader
<1>3. Append(l, CR) \in Seq(Byte)
  BY <1>1
<1>4. AfterChar(<< l, a >>, CR) = << Append(l, CR), a >>
  BY <1>1, CharEffect
<1>5. Reads(<< l, a >>, <<CR, LF>>, AfterChar(AfterChar(<< l, a >>, CR), LF))
  BY <1>1, <1>2, ReadsTwo
<1>6. AfterChar(<< Append(l, CR), a >>, LF) = << <<>>, Taken(a, Append(Append(l, CR), LF)) >>
  BY <1>1 DEF AfterChar
<1>7. Append(Append(l, CR), LF) = l \o <<CR, LF>>
  BY <1>1, AppendTwice, Zenon
<1>8. QED
  BY <1>4, <1>5, <1>6, <1>7, Zenon

\* Of a line with the bytes m and the LRC x nothing is accepted but m, and only if x is
\* the LRC of m.
LEMMA TakenLine ==
  ASSUME NEW m \in Seq(Byte), NEW x \in Byte, NEW a
  PROVE  \/ Taken(a, LineText(m, x)) = a
         \/ Len(m) >= 2 /\ x = Lrc(m) /\ Taken(a, LineText(m, x)) = Append(a, m)
<1> DEFINE text == LineText(m, x)
<1>1. LineHas(text, m, x)
  BY LineTextHas
<1> HIDE DEF text
<1>2. ByteAt(text, 2 * Len(m) + 2) = x /\ BufferOf(text) = m
  BY <1>1, LineHasRead
<1>3. CASE Legal(text) /\ LrcOk(text)
  <2>1. Len(text) = 2 * Len(m) + 5 /\ Len(m) \in Nat
    BY <1>1 DEF LineHas
  <2>2. Len(m) >= 2
    BY <1>3, <2>1 DEF Legal
  <2>3. Len(text) - 3 = 2 * Len(m) + 2
    BY <2>1
  <2>4. x = Lrc(m)
    BY <1>2, <1>3, <2>3 DEF LrcOk
  <2>5. Taken(a, text) = Append(a, m)
    BY <1>2, <1>3, Zenon DEF Taken
  <2>6. QED
    BY <2>2, <2>4, <2>5 DEF text
<1>4. CASE ~(Legal(text) /\ LrcOk(text))
  BY <1>4, Zenon DEF Taken, text
<1>5. QED
  BY <1>3, <1>4

\* A line that does not begin with a colon.
Stray(l) == l = <<>> \/ l[1] # Colon

LEMMA StrayMore ==
  ASSUME NEW l \in Seq(Byte), Stray(l), NEW s \in Seq(Byte), s # <<>>, s[1] # Colon
  PROVE  /\ l \o s \in Seq(Byte) /\ l \o s # <<>> /\ (l \o s)[1] # Colon
         /\ Stray(l \o s)
<1>1. Len(l) \in Nat /\ Len(s) \in Nat /\ Len(s) >= 1
  OBVIOUS
<1>2. /\ l \o s \in Seq(Byte) /\ Len(l \o s) = Len(l) + Len(s)
      /\ \A i \in 1 .. Len(l) + Len(s) : (l \o s)[i] = IF i <= Len(l) THEN l[i] ELSE s[i - Len(l)]
  BY ConcatProperties
<1>3. 1 \in 1 .. Len(l) + Len(s)
  BY <1>1
<1>4. (l \o s)[1] # Colon
  <2>1. CASE l = <<>>
    <3>1. Len(l) = 0
      BY <2>1
    <3>2. (l \o s)[1] = s[1 - 0]
      BY <1>2, <1>3, <3>1
    <3>3. QED
      BY <3>2
  <2>2. CASE l # <<>>
    <3>1. 1 <= Len(l) /\ l[1] # Colon
      BY <2>2 DEF Stray
    <3>2. QED
      BY <1>2, <1>3, <3>1
  <2>3. QED
    BY <2>1, <2>2
<1>5. l \o s # <<>>
  BY <1>1, <1>2
<1>6. QED
  BY <1>2, <1>4, <1>5 DEF Stray

LEMMA TakenStray ==
  ASSUME NEW l \in Seq(Byte), Stray(l), NEW a
  PROVE  Taken(a, l \o <<CR, LF>>) = a
<1>1. <<CR, LF>> \in Seq(Byte) /\ <<CR, LF>> # <<>> /\ <<CR, LF>>[1] # Colon
  BY Characters
<1>2. (l \o <<CR, LF>>)[1] # Colon
  BY <1>1, StrayMore
<1>3. QED
  BY <1>2, Zenon DEF Taken, Legal

LEMMA DigitsNoColon == \A x \in Byte : ByteText(x) # <<>> /\ ByteText(x)[1] # Colon
<1> SUFFICES ASSUME NEW x \in Byte PROVE ByteText(x) # <<>> /\ ByteText(x)[1] # Colon
  OBVIOUS
<1>1. Digit(x \div 16) # Colon
  BY DigitsOfByte, Characters
<1>2. QED
  BY <1>1 DEF ByteText

-----------------------------------------------------------------------------
(* What the gateway has heard *)

\* The bytes of h that have been forwarded, all but two.
Forwarded(h) == SubSeq(h, 1, Len(h) - 2)

\* What g holds after the bytes of h since the last start of a frame.
HeardBy(g, h) ==
  /\ h \in Seq(Byte) /\ Len(h) >= 1
  /\ g.crc = CrcFold(h)
  /\ g.modbusByteCnt = IF Len(h) < 255 THEN Len(h) ELSE 255
  /\ g.lastModbusByte[1] = h[Len(h)]
  /\ Len(h) >= 2 => g.lastModbusByte[2] = h[Len(h) - 1]
  /\ g.lrc = ByteSum(Forwarded(h))

\* The line it has written for them.
LineSoFar(h) == <<Colon>> \o Spelled(Forwarded(h))

\* What is written when a byte comes after those of h.
NextText(h) == IF Len(h) >= 2 THEN ByteText(h[Len(h) - 1]) ELSE <<>>

LEMMA ForwardedFirst == \A d \in Byte : Forwarded(<<d>>) = <<>>
<1>1. \A d \in Byte : Len(<<d>>) = 1 /\ SubSeq(<<d>>, 1, 1 - 2) = <<>>
  OBVIOUS
<1>2. QED
  BY <1>1 DEF Forwarded

LEMMA ForwardedNext ==
  ASSUME NEW h \in Seq(Byte), Len(h) >= 1, NEW d \in Byte
  PROVE  /\ Forwarded(h) \in Seq(Byte)
         /\ Len(h) >= 2 => /\ Len(Forwarded(h)) = Len(h) - 2
                           /\ Forwarded(Append(h, d)) = Append(Forwarded(h), h[Len(h) - 1])
         /\ Len(h) < 2 => Forwarded(h) = <<>> /\ Forwarded(Append(h, d)) = <<>>
<1> DEFINE u == Append(h, d)
<1>1. PICK n \in Nat : n = Len(h)
  OBVIOUS
<1>2. u \in Seq(Byte) /\ Len(u) = n + 1 /\ \A i \in 1 .. n : u[i] = h[i]
  BY <1>1
<1> HIDE DEF u
<1>3. CASE n >= 2
  <2>1. n - 2 \in 0 .. n /\ n - 1 \in 0 .. n + 1 /\ n - 2 \in 0 .. n - 1 /\ (n - 2) + 1 = n - 1
    BY <1>3
  <2>2. /\ SubSeq(h, 1, n - 2) \in Seq(Byte) /\ Len(SubSeq(h, 1, n - 2)) = n - 2
    BY <1>1, <2>1, CutSequence
  <2>3. SubSeq(h, 1, n - 1) = Append(SubSeq(h, 1, n - 2), h[n - 1])
    <3>1. SubSeq(h, 1, (n - 2) + 1) = Append(SubSeq(h, 1, n - 2), h[(n - 2) + 1])
      BY <1>1, <2>1, NextPrefix
    <3>2. QED
      BY <2>1, <3>1
  <2>4. SubSeq(u, 1, n - 1) = SubSeq(h, 1, n - 1)
    <3>1. n - 1 \in 0 .. n /\ n - 1 \in 0 .. n + 1
      BY <1>3
    <3>2. /\ SubSeq(u, 1, n - 1) \in Seq(Byte) /\ Len(SubSeq(u, 1, n - 1)) = n - 1
          /\ \A i \in 1 .. n - 1 : SubSeq(u, 1, n - 1)[i] = u[i]
      BY <1>2, <3>1, CutSequence
    <3>3. /\ SubSeq(h, 1, n - 1) \in Seq(Byte) /\ Len(SubSeq(h, 1, n - 1)) = n - 1
          /\ \A i \in 1 .. n - 1 : SubSeq(h, 1, n - 1)[i] = h[i]
      BY <1>1, <3>1, CutSequence
    <3>4. \A i \in 1 .. n - 1 : i \in 1 .. n
      OBVIOUS
    <3>5. \A i \in 1 .. n - 1 : SubSeq(u, 1, n - 1)[i] = SubSeq(h, 1, n - 1)[i]
      BY <1>2, <3>2, <3>3, <3>4
    <3>6. QED
      BY <3>2, <3>3, <3>5, SeqEqual
  <2>5. (n + 1) - 2 = n - 1
    OBVIOUS
  <2>6. Forwarded(h) = SubSeq(h, 1, n - 2) /\ Forwarded(u) = SubSeq(u, 1, n - 1)
    BY <1>1, <1>2, <2>5 DEF Forwarded
  <2>7. QED
    BY <1>1, <1>3, <2>2, <2>3, <2>4, <2>6 DEF u
<1>4. CASE n < 2
  <2>1. n = 1
    BY <1>1, <1>4
  <2>2. SubSeq(h, 1, 1 - 2) = <<>> /\ SubSeq(u, 1, 2 - 2) = <<>>
    BY <1>1, <1>2, <2>1
  <2>3. QED
    BY <1>1, <1>2, <2>1, <2>2, EmptyType DEF Forwarded, u
<1>5. QED
  BY <1>3, <1>4

\* The texts of the gateway, and one put behind another: with both defined
\* names hidden, the order of joining is a matter of equations only.
Texts == Seq(Byte)
Cat(p, q) == p \o q

LEMMA CatFacts ==
  /\ \A p, q \in Texts : Cat(p, q) \in Texts
  /\ \A p, q, r \in Texts : Cat(p, Cat(q, r)) = Cat(Cat(p, q), r)
<1>1. \A p, q \in Texts : Cat(p, q) \in Texts
  BY SMTT(60) DEF Texts, Cat
<1>2. ASSUME NEW p \in Texts, NEW q \in Texts, NEW r \in Texts
      PROVE  Cat(p, Cat(q, r)) = Cat(Cat(p, q), r)
  <2>1. (p \o q) \o r = p \o (q \o r)
    BY ConcatAssociative, SMTT(60) DEF Texts
  <2>2. QED
    BY <2>1, Zenon DEF Cat
<1>3. QED
  BY <1>1, <1>2, Zenon

LEMMA ThreeParts == \A p, q, r \in Seq(Byte) : p \o (q \o r) = (p \o q) \o r
BY CatFacts, Zenon DEF Texts, Cat

LEMMA FourParts ==
  \A p, q, r, s \in Texts : Cat(p, Cat(Cat(q, r), s)) = Cat(Cat(Cat(p, q), r), s)
BY CatFacts, SMT

LEMMA LineGrows ==
  ASSUME NEW h \in Seq(Byte), Len(h) >= 1, NEW d \in Byte
  PROVE  /\ LineSoFar(<<d>>) = <<Colon>>
         /\ LineSoFar(h) \in Seq(Byte)
         /\ LineSoFar(Append(h, d)) = LineSoFar(h) \o NextText(h)
<1> DEFINE u == Append(h, d)
           f == Forwarded(h)
           colon == <<Colon>>
<1>1. colon \in Seq(Byte)
  BY CharType
<1>2. f \in Seq(Byte) /\ Spelled(f) \in Seq(Byte)
  BY ForwardedNext, SpelledType
<1>3. Len(h) \in Nat
  OBVIOUS
<1> HIDE DEF u, f, colon
<1>4. LineSoFar(<<d>>) = colon
  <2>1. LineSoFar(<<d>>) = colon \o <<>>
    BY ForwardedFirst, SpelledNone DEF LineSoFar, colon
  <2>2. QED
    BY <1>1, <2>1, ConcatEmptySeq, Zenon
<1>5. LineSoFar(h) = colon \o Spelled(f) /\ LineSoFar(h) \in Seq(Byte)
  BY <1>1, <1>2, ConcatType DEF LineSoFar, f, colon
<1>6. CASE Len(h) >= 2
  <2> DEFINE b == h[Len(h) - 1]
  <2>1. b \in Byte
    BY <1>3, <1>6
  <2>2. Forwarded(u) = Append(f, b) /\ NextText(h) = ByteText(b)
    BY <1>6, ForwardedNext DEF f, u, NextText
  <2> HIDE DEF b
  <2>3. Spelled(Forwarded(u)) = Spelled(f) \o ByteText(b) /\ ByteText(b) \in Seq(Byte)
    BY <1>2, <2>1, <2>2, SpelledMore, TextType
  <2> DEFINE p == Spelled(f)
             q == ByteText(b)
  <2> HIDE DEF p, q
  <2>t. p \in Seq(Byte) /\ q \in Seq(Byte)
    BY <1>2, <2>3 DEF p, q
  <2>4. colon \o (p \o q) = (colon \o p) \o q
    BY <1>1, <2>t, ThreeParts, Zenon
  <2>5. QED
    BY <1>4, <1>5, <2>2, <2>3, <2>4 DEF LineSoFar, colon, u, p, q
<1>7. CASE Len(h) < 2
  <2>1. Forwarded(u) = f /\ NextText(h) = <<>>
    BY <1>3, <1>7, ForwardedNext DEF f, u, NextText
  <2>2. LineSoFar(u) = LineSoFar(h)
    BY <2>1 DEF LineSoFar, f
  <2>3. QED
    BY <1>4, <1>5, <2>1, <2>2 DEF colon, u
<1>8. QED
  BY <1>3, <1>6, <1>7

\* The first byte of a frame, whatever was heard before.
LEMMA HeardFirst ==
  ASSUME gateway \in GatewayType, NEW d \in Byte
  PROVE  /\ HeardBy(Shifted(BeforeSei(TRUE), d), <<d>>)
         /\ ByteLine(TRUE) = <<Colon>>
         /\ BeforeSei(TRUE).modbusByteCnt = 1
<1> DEFINE g == BeforeSei(TRUE)
           e == Shifted(g, d)
<1>1. Started(gateway, TRUE) = [gateway EXCEPT !.lrc = 0, !.crc = CrcStart, !.modbusByteCnt = 0]
  BY DEF Started
<1> DEFINE s == Started(gateway, TRUE)
           c == Counted(s)
<1>2. s.lrc = 0 /\ s.crc = CrcStart /\ s.modbusByteCnt = 0
      /\ DOMAIN s = {"lastModbusByte", "modbusByteCnt", "lrc", "crc"}
  BY <1>1 DEF GatewayType
<1> HIDE DEF s
<1>3. c.lrc = 0 /\ c.crc = CrcStart /\ c.modbusByteCnt = 1
  <2>1. (IF s.modbusByteCnt < 255 THEN s.modbusByteCnt + 1 ELSE s.modbusByteCnt) = 1
    BY <1>2
  <2>2. c = [s EXCEPT !.modbusByteCnt = 1]
    BY <2>1 DEF Counted
  <2>3. QED
    BY <1>2, <2>2
<1> HIDE DEF c
<1>4. ~Forwards(c) /\ g = c
  <2>1. ~(1 > 2)
    OBVIOUS
  <2>2. ~Forwards(c)
    BY <1>3, <2>1, Zenon DEF Forwards
  <2>3. QED
    BY <2>2, Zenon DEF BeforeSei, Summed, c, s
<1>5. g.lrc = 0 /\ g.crc = CrcStart /\ g.modbusByteCnt = 1 /\ ~Forwards(g)
  BY <1>3, <1>4, Zenon
<1>6. ByteLine(TRUE) = <<Colon>>
  <2>1. ByteLine(TRUE) = <<Colon>> \o <<>>
    BY <1>5 DEF ByteLine
  <2>2. QED
    BY <2>1, CharType, ConcatEmptySeq, Zenon
<1>7. g \in GatewayType
  BY BeforeSeiType
<1> HIDE DEF g
<1>8. /\ e.lastModbusByte[1] = d /\ e.crc = app_updateModbusCrc(CrcStart, d)
      /\ e.modbusByteCnt = 1 /\ e.lrc = 0
  BY <1>5, <1>7 DEF Shifted, GatewayType
<1> HIDE DEF e
<1>9. CrcFold(<<d>>) = app_updateModbusCrc(CrcStart, d)
  <2>1. CrcFold(Append(<<>>, d)) = app_updateModbusCrc(CrcFold(<<>>), d)
    BY EmptyType, CrcFoldAppend
  <2>2. QED
    BY <2>1, CrcFoldEmpty
<1>10. <<d>> \in Seq(Byte) /\ Len(<<d>>) = 1 /\ <<d>>[1] = d
  OBVIOUS
<1>11. ByteSum(Forwarded(<<d>>)) = 0
  BY ForwardedFirst, ByteSumEmpty
<1> DEFINE h == <<d>>
<1> HIDE DEF h
<1>12. HeardBy(e, h)
  <2>1. h \in Seq(Byte) /\ Len(h) = 1 /\ h[1] = d
    BY <1>10 DEF h
  <2>2. e.crc = CrcFold(h) /\ e.lrc = ByteSum(Forwarded(h))
    BY <1>8, <1>9, <1>11 DEF h
  <2>3. QED
    BY <1>8, <2>1, <2>2 DEF HeardBy
<1>13. QED
  BY <1>5, <1>6, <1>12 DEF g, e, h

\* Another byte of it.
LEMMA HeardNext ==
  ASSUME gateway \in GatewayType, NEW h, HeardBy(gateway, h), NEW d \in Byte
  PROVE  /\ HeardBy(Shifted(BeforeSei(FALSE), d), Append(h, d))
         /\ ByteLine(FALSE) = NextText(h)
<1> DEFINE g == BeforeSei(FALSE)
           e == Shifted(g, d)
           c == Counted(gateway)
           u == Append(h, d)
<1>1. PICK n \in Nat : n = Len(h) /\ n >= 1
  BY DEF HeardBy
<1>2. /\ h \in Seq(Byte) /\ gateway.crc = CrcFold(h)
      /\ gateway.modbusByteCnt = IF n < 255 THEN n ELSE 255
      /\ gateway.lastModbusByte[1] = h[n]
      /\ n >= 2 => gateway.lastModbusByte[2] = h[n - 1]
      /\ gateway.lrc = ByteSum(Forwarded(h))
  BY <1>1 DEF HeardBy
<1>3. c = [gateway EXCEPT !.modbusByteCnt = IF n + 1 < 255 THEN n + 1 ELSE 255]
  <2>1. (IF gateway.modbusByteCnt < 255 THEN gateway.modbusByteCnt + 1 ELSE gateway.modbusByteCnt)
          = (IF n + 1 < 255 THEN n + 1 ELSE 255)
    BY <1>1, <1>2
  <2>2. QED
    BY <2>1 DEF Counted, GatewayType
<1>4. /\ c.modbusByteCnt = IF n + 1 < 255 THEN n + 1 ELSE 255
      /\ c.lastModbusByte = gateway.lastModbusByte /\ c.crc = gateway.crc
      /\ c.lrc = gateway.lrc /\ c \in GatewayType
  <2>1. (IF n + 1 < 255 THEN n + 1 ELSE 255) \in Byte
    BY DEF Byte
  <2>2. QED
    BY <1>3, <2>1 DEF GatewayType
<1> HIDE DEF c
<1>5. g = IF n >= 2 THEN [c EXCEPT !.lrc = Plus(gateway.lrc, h[n - 1])] ELSE c
  <2>1. Started(gateway, FALSE) = gateway
    BY DEF Started
  <2>2. Forwards(c) <=> n >= 2
    BY <1>1, <1>4 DEF Forwards
  <2>3. g = Summed(c)
    BY <2>1 DEF BeforeSei, c
  <2>4. QED
    BY <1>2, <1>4, <2>2, <2>3 DEF Summed, Plus, GatewayType
<1>6. /\ g.modbusByteCnt = c.modbusByteCnt /\ g.lastModbusByte = c.lastModbusByte
      /\ g.crc = c.crc
      /\ g.lrc = IF n >= 2 THEN Plus(gateway.lrc, h[n - 1]) ELSE gateway.lrc
  <2>1. c \in GatewayType /\ c.lrc = gateway.lrc
    BY <1>4, Zenon
  <2>2. /\ g.modbusByteCnt = c.modbusByteCnt /\ g.lastModbusByte = c.lastModbusByte
        /\ g.crc = c.crc
        /\ g.lrc = IF n >= 2 THEN Plus(gateway.lrc, h[n - 1]) ELSE c.lrc
    <3> DEFINE v == Plus(gateway.lrc, h[n - 1])
    <3>1. g = IF n >= 2 THEN [c EXCEPT !.lrc = v] ELSE c
      BY <1>5, Zenon
    <3> HIDE DEF v, g
    <3>2. QED
      BY <2>1, <3>1 DEF v, GatewayType
  <2>3. QED
    BY <2>1, <2>2, Zenon
<1>7. ByteLine(FALSE) = NextText(h)
  <2>1. Forwards(g) <=> n >= 2
    <3>1. g.modbusByteCnt = IF n + 1 < 255 THEN n + 1 ELSE 255
      BY <1>4, <1>6, Zenon
    <3>2. ((IF n + 1 < 255 THEN n + 1 ELSE 255) > 2) <=> n >= 2
      BY <1>1
    <3>3. QED
      BY <3>1, <3>2, Zenon DEF Forwards
  <2> DEFINE text == IF Forwards(g) THEN ByteText(gateway.lastModbusByte[2]) ELSE <<>>
  <2>2. ByteLine(FALSE) = <<>> \o text
    BY DEF ByteLine
  <2>3. text = NextText(h)
    BY <1>1, <1>2, <2>1 DEF NextText
  <2>4. text \in Seq(Byte)
    BY TextType, EmptyType DEF GatewayType
  <2> HIDE DEF text
  <2>5. QED
    BY <2>2, <2>3, <2>4, ConcatEmptySeq, Zenon
<1>8. g \in GatewayType
  BY BeforeSeiType
<1> HIDE DEF g
<1>9. /\ e.lastModbusByte = << d, g.lastModbusByte[1] >>
      /\ e.crc = app_updateModbusCrc(g.crc, d)
      /\ e.modbusByteCnt = g.modbusByteCnt /\ e.lrc = g.lrc
  BY <1>8 DEF Shifted, GatewayType
<1>10. e.lastModbusByte[1] = d /\ e.lastModbusByte[2] = h[n]
  BY <1>2, <1>4, <1>6, <1>9
<1>11. /\ u \in Seq(Byte) /\ Len(u) = n + 1 /\ u[n + 1] = d /\ u[n] = h[n]
  BY <1>1, <1>2
<1>12. CrcFold(u) = app_updateModbusCrc(CrcFold(h), d)
  BY <1>2, CrcFoldAppend
<1>13. e.lrc = ByteSum(Forwarded(u))
  <2>1. CASE n >= 2
    <3>1. Forwarded(u) = Append(Forwarded(h), h[n - 1]) /\ Forwarded(h) \in Seq(Byte)
          /\ h[n - 1] \in Byte
      BY <1>1, <1>2, <2>1, ForwardedNext
    <3>2. ByteSum(Forwarded(u)) = Plus(ByteSum(Forwarded(h)), h[n - 1])
      BY <3>1, ByteSumAppend
    <3>3. QED
      BY <1>2, <1>6, <1>9, <2>1, <3>2
  <2>2. CASE ~(n >= 2)
    <3>1. Len(h) < 2
      BY <1>1, <2>2
    <3>2. Forwarded(u) = Forwarded(h)
      BY <1>1, <1>2, <3>1, ForwardedNext
    <3>3. QED
      BY <1>2, <1>6, <1>9, <2>2, <3>2
  <2>3. QED
    BY <2>1, <2>2
<1> HIDE DEF e, u
<1>14. HeardBy(e, u)
  <2>1. (n + 1) - 1 = n /\ n + 1 >= 1
    BY <1>1
  <2>2. e.crc = CrcFold(u)
    BY <1>2, <1>4, <1>6, <1>9, <1>12
  <2>3. e.modbusByteCnt = IF n + 1 < 255 THEN n + 1 ELSE 255
    BY <1>4, <1>6, <1>9
  <2>4. QED
    BY <1>10, <1>11, <1>13, <2>1, <2>2, <2>3 DEF HeardBy
<1>15. QED
  BY <1>7, <1>14 DEF e, u, g

LEMMA EndLrcType == ASSUME NEW g \in GatewayType PROVE EndLrc(g) \in Byte
<1>1. g.lrc \in 0 .. 255
  BY DEF GatewayType, Byte
<1>2. \A n \in 0 .. 255 : (256 - n) % 256 \in 0 .. 255 /\ 255 - n \in 0 .. 255
  OBVIOUS
<1>3. EndLrc(g) = (256 - g.lrc) % 256 \/ EndLrc(g) = 255 - g.lrc
  BY Zenon DEF EndLrc
<1>4. EndLrc(g) \in 0 .. 255
  BY <1>1, <1>2, <1>3, SMT
<1>5. QED
  BY <1>4, Zenon DEF Byte

\* A frame the gateway ends is accepted only if its CRC was right and it has two bytes
\* or more, and then as it was heard.
LEMMA EndTaken ==
  ASSUME NEW g \in GatewayType, NEW h, HeardBy(g, h), NEW a \in Seq(Seq(Byte))
  PROVE  LET text == LineSoFar(h) \o EndLine(g)
         IN  /\ Reads(<< LineSoFar(h), a >>, EndLine(g), << <<>>, Taken(a, text) >>)
             /\ \/ Taken(a, text) = a
                \/ /\ g.crc = {} /\ g.modbusByteCnt >= 4
                   /\ Forwarded(h) \in Seq(Byte)
                   /\ Taken(a, text) = Append(a, Forwarded(h))
<1> DEFINE f == Forwarded(h)
           x == EndLrc(g)
           end == <<CR, LF>>
           sum == ByteText(x)
           l == LineSoFar(h)
           text == l \o EndLine(g)
<1>1. PICK n \in Nat : n = Len(h) /\ n >= 1 /\ h \in Seq(Byte)
  BY DEF HeardBy
<1>2. g.modbusByteCnt > 0 /\ (n >= 4 => g.modbusByteCnt >= 4)
  BY <1>1 DEF HeardBy
<1>3. g.lrc = ByteSum(f) /\ g.lrc \in Byte
  BY DEF HeardBy, GatewayType
<1>4. x \in Byte
  BY EndLrcType
<1>5. EndLine(g) = sum \o end
  BY <1>2 DEF EndLine
<1>6. f \in Seq(Byte) /\ (n >= 2 => Len(f) = n - 2) /\ (n < 2 => Len(f) = 0)
  <2>1. 0 \in Byte
    BY DEF Byte
  <2>2. n < 2 => f = <<>>
    BY <1>1, <2>1, ForwardedNext
  <2>3. QED
    BY <1>1, <2>1, <2>2, ForwardedNext
<1>7. l \in Seq(Byte) /\ sum \in Seq(Byte) /\ end \in Seq(Byte)
  <2>1. l \in Seq(Byte)
    <3>1. 0 \in Byte
      BY DEF Byte
    <3>2. QED
      BY <1>1, <3>1, LineGrows, Zenon
  <2>2. QED
    BY <1>4, <2>1, TextType, CharType
<1>8. text = LineText(f, x) /\ text = (l \o sum) \o end
  <2>1. LineText(f, x) = ((<<Colon>> \o Spelled(f)) \o sum) \o end
    BY DEF LineText
  <2>2. l = <<Colon>> \o Spelled(f)
    BY DEF LineSoFar
  <2> HIDE DEF l, sum, end, f, x
  <2>3. text = (l \o sum) \o end
    <3>1. l \in Texts /\ sum \in Texts /\ end \in Texts
      BY <1>7, Zenon DEF Texts
    <3>2. Cat(l, Cat(sum, end)) = Cat(Cat(l, sum), end)
      BY <3>1, CatFacts, SMT
    <3>3. l \o (sum \o end) = (l \o sum) \o end
      BY <3>2, Zenon DEF Cat
    <3>4. QED
      BY <1>5, <3>3, Zenon
  <2>4. QED
    BY <2>1, <2>2, <2>3 DEF l, sum, end, f, x
<1>9. Reads(<< l, a >>, sum \o end, << <<>>, Taken(a, (l \o sum) \o end) >>)
  <2>1. Reads(<< l, a >>, sum, << l \o sum, a >>)
    BY <1>4, <1>7, ReadsDigits
  <2>2. l \o sum \in Seq(Byte)
    BY <1>7, ConcatType
  <2>3. Reads(<< l \o sum, a >>, end, << <<>>, Taken(a, (l \o sum) \o end) >>)
    BY <2>2, ReadsEnd
  <2> HIDE DEF l, sum, end
  <2>4. QED
    BY <1>7, <2>1, <2>3, ReadsAll
<1>10. \/ Taken(a, text) = a
       \/ Len(f) >= 2 /\ x = Lrc(f) /\ Taken(a, text) = Append(a, f)
  BY <1>4, <1>6, <1>8, TakenLine
<1>11. ASSUME Len(f) >= 2, x = Lrc(f) PROVE g.crc = {} /\ g.modbusByteCnt >= 4
  <2>1. Lrc(f) = (256 - g.lrc) % 256
    BY <1>3 DEF Lrc
  <2>2. \A k \in 0 .. 255 : 255 - k # (256 - k) % 256
    <3>1. \A k \in 0 .. 255 : (256 - k) % 256 = IF k = 0 THEN 0 ELSE 256 - k
      OBVIOUS
    <3>2. \A k \in 0 .. 255 : 255 - k # (IF k = 0 THEN 0 ELSE 256 - k)
      OBVIOUS
    <3>3. QED
      BY <3>1, <3>2
  <2>3. g.crc = {}
    <3>1. g.lrc \in 0 .. 255
      BY <1>3 DEF Byte
    <3>2. 255 - g.lrc # (256 - g.lrc) % 256
      <4>1. PICK k \in 0 .. 255 : k = g.lrc
        BY <3>1, Zenon
      <4>2. 255 - k # (256 - k) % 256
        BY <2>2, Zenon
      <4>3. QED
        BY <4>1, <4>2, Zenon
    <3>3. x = (256 - g.lrc) % 256
      BY <1>11, <2>1, Zenon
    <3>4. g.crc # {} => x = 255 - g.lrc
      BY Zenon DEF EndLrc
    <3>5. QED
      BY <3>2, <3>3, <3>4, Zenon
  <2>4. n >= 4
    BY <1>6, <1>11
  <2>5. QED
    BY <1>2, <2>3, <2>4
<1>12. QED
  <2> HIDE DEF f, x, sum, end
  <2>1. Reads(<< l, a >>, EndLine(g), << <<>>, Taken(a, text) >>)
    BY <1>5, <1>8, <1>9
  <2> HIDE DEF l, text
  <2>2. QED
    BY <1>6, <1>10, <1>11, <2>1 DEF l, text, f

\* A line that does not begin with a colon is never accepted.
LEMMA EndStray ==
  ASSUME NEW g \in GatewayType, NEW l \in Seq(Byte), Stray(l), NEW a \in Seq(Seq(Byte))
  PROVE  Reads(<< l, a >>, EndLine(g), << <<>>, a >>)
<1> DEFINE end == <<CR, LF>>
           sum == ByteText(EndLrc(g))
<1>2. EndLrc(g) \in Byte
  BY EndLrcType
<1>3. CASE g.modbusByteCnt > 0
  <2>1. EndLine(g) = sum \o end
    BY <1>3 DEF EndLine
  <2>2. Reads(<< l, a >>, sum, << l \o sum, a >>)
    BY <1>2, ReadsDigits
  <2>3. sum \in Seq(Byte) /\ sum # <<>> /\ sum[1] # Colon
    BY <1>2, TextType, DigitsNoColon
  <2> HIDE DEF sum
  <2>4. l \o sum \in Seq(Byte) /\ Stray(l \o sum)
    BY <2>3, StrayMore
  <2>5. Reads(<< l \o sum, a >>, end, << <<>>, a >>)
    BY <2>4, ReadsEnd, TakenStray
  <2>6. end \in Seq(Byte)
    BY CharType
  <2> HIDE DEF end
  <2>7. QED
    BY <2>1, <2>2, <2>3, <2>5, <2>6, ReadsAll
<1>4. CASE ~(g.modbusByteCnt > 0)
  <2>1. end \in Seq(Byte) /\ EndLine(g) = <<>> \o end
    BY <1>4, CharType DEF EndLine
  <2>2. <<>> \o end = end
    BY <2>1
  <2>3. Reads(<< l, a >>, end, << <<>>, a >>)
    BY ReadsEnd, TakenStray
  <2>4. QED
    BY <2>1, <2>2, <2>3
<1>5. QED
  BY <1>3, <1>4

-----------------------------------------------------------------------------
(* What the Pi will have accepted *)

\* The line l is the one of the bytes g has heard, and as long as those are the frame
\* on the bus and nothing else, they and the bytes still to come are all of it.
IsBeingWritten(l, g, b) ==
  \E h : /\ HeardBy(g, h) /\ l = LineSoFar(h)
         /\ b.heard => b.whole /\ h \o b.left = RtuFrame(b.payload)

\* Where the Pi is when it has read what is in the ring: what it has accepted then was
\* not disturbed, and the line it has begun either will never be accepted or is the one
\* the gateway is writing.
WillRead(r) ==
  /\ Reads(<< line, accepted >>, TextOf(uart0_out), r)
  /\ Embeds(r[2], sound)
  /\ Stray(r[1]) \/ IsBeingWritten(r[1], gateway, bus)

AccInv == (~timer1 => ~bus.heard) /\ \E r : WillRead(r)

\* What CrcDetects says of a step.
Detected ==
  TimedOut /\ ~(bus.heard /\ bus.left = <<>>) /\ gateway.modbusByteCnt >= 4
    => gateway.crc # {}

LEMMA TextHere ==
  ASSUME Inv
  PROVE  /\ << line, accepted >> \in Reader
         /\ TextOf(uart0_out) \in Seq(Byte)
         /\ sound \in Seq(Seq(Byte)) /\ gateway \in GatewayType /\ bus \in BusType
<1>1. TextOf(uart0_out) \in Seq(Byte)
  BY RingText DEF Inv, TypeOK
<1>2. line \in Seq(Byte) /\ accepted \in Seq(Seq(Byte))
  BY DEF Inv, TypeOK
<1>3. << line, accepted >> \in Reader
  BY <1>2 DEF Reader
<1>4. sound \in Seq(Seq(Byte)) /\ gateway \in GatewayType /\ bus \in BusType
  BY DEF Inv, TypeOK, GatewayType, BusType
<1>5. QED
  BY <1>1, <1>3, <1>4

LEMMA WillReadType ==
  ASSUME Inv, NEW r, WillRead(r)
  PROVE  r \in Reader /\ r = << r[1], r[2] >> /\ r[1] \in Seq(Byte) /\ r[2] \in Seq(Seq(Byte))
<1>1. r \in Reader
  BY TextHere, ReadsType DEF WillRead
<1>2. QED
  BY <1>1 DEF Reader

LEMMA AccInvInit == Init => AccInv
<1> SUFFICES ASSUME Init PROVE AccInv
  OBVIOUS
<1>1. ~bus.heard
  BY DEF Init
<1>2. Unread(uart0_out) = 0
  BY SizeAssumption DEF Init, EmptyRing, Unread
<1>3. TextOf(uart0_out) = <<>>
  <2>1. Inv
    BY InitInv
  <2>2. uart0_out \in RingOf(Byte)
    BY <2>1 DEF Inv, TypeOK
  <2>3. TextOf(uart0_out) \in Seq(Byte) /\ Len(TextOf(uart0_out)) = 0
    BY <1>2, <2>2, RingText
  <2>4. QED
    BY <2>3
<1> DEFINE r == << <<>>, <<>> >>
<1>4. << line, accepted >> = r /\ sound = <<>>
  BY DEF Init
<1>5. r \in Reader /\ r[1] = <<>> /\ r[2] = <<>>
  <2>1. <<>> \in Seq(Byte) /\ <<>> \in Seq(Seq(Byte))
    OBVIOUS
  <2>2. QED
    BY <2>1, Zenon DEF Reader
<1> HIDE DEF r
<1>6. Reads(r, <<>>, r)
  BY <1>5, ReadsNone
<1>7. Stray(r[1])
  BY <1>5 DEF Stray
<1>8. Embeds(r[2], sound)
  BY <1>4, <1>5, EmbedsEmpty
<1>9. WillRead(r)
  BY <1>3, <1>4, <1>6, <1>7, <1>8, Zenon DEF WillRead
<1>10. QED
  BY <1>1, <1>9 DEF AccInv

\* A handler writes s, and after it the Pi will be at q.
LEMMA WritesMore ==
  ASSUME Inv, NEW r, WillRead(r), NEW s \in Seq(Byte), NEW n \in Nat, Len(s) <= n, Room(n),
         uart0_out' = app_ringBuffer_writeString(uart0_out, s),
         UNCHANGED << line, accepted >>,
         NEW q, Reads(r, s, q), Embeds(q[2], sound'),
         Stray(q[1]) \/ IsBeingWritten(q[1], gateway', bus')
  PROVE  WillRead(q)'
<1>1. uart0_out \in RingOf(Byte) /\ uart0_out.length <= Unread(uart0_out)
  BY DEF Inv, TypeOK, LengthCounts
<1>2. Unread(uart0_out) + Len(s) < W
  <2>1. Unread(uart0_out) \in Nat
    BY <1>1, RingText, SizeAssumption
  <2>2. QED
    BY <2>1, SizeAssumption DEF Room
<1>3. TextOf(uart0_out)' = TextOf(uart0_out) \o s
  <2>1. TextOf(app_ringBuffer_writeString(uart0_out, s)) = TextOf(uart0_out) \o s
    BY <1>1, <1>2, TextWritten
  <2>2. TextOf(uart0_out)' = TextOf(uart0_out')
    BY DEF TextOf, Unread
  <2>3. QED
    BY <2>1, <2>2
<1>4. Reads(<< line, accepted >>, TextOf(uart0_out) \o s, q)
  <2>1. Reads(<< line, accepted >>, TextOf(uart0_out), r)
    BY DEF WillRead
  <2>2. QED
    BY <2>1, TextHere, ReadsAll
<1>5. << line, accepted >>' = << line, accepted >>
  OBVIOUS
<1>6. Reads(<< line, accepted >>', TextOf(uart0_out)', q)
  BY <1>3, <1>4, <1>5
<1>7. QED
  BY <1>6 DEF WillRead

\* The digits of a byte after those of h, and the bytes still to come.
LEMMA BeingWrittenNext ==
  ASSUME NEW h \in Seq(Byte), NEW d \in Byte, NEW t \in Seq(Byte)
  PROVE  h \o (<<d>> \o t) = Append(h, d) \o t
<1>1. <<d>> \in Seq(Byte) /\ Append(h, d) = h \o <<d>>
  OBVIOUS
<1> DEFINE u == <<d>>
<1> HIDE DEF u
<1>2. u \in Seq(Byte) /\ Append(h, d) = h \o u
  BY <1>1 DEF u
<1>3. h \o (u \o t) = (h \o u) \o t
  BY <1>2, ConcatAssociative
<1>4. QED
  BY <1>2, <1>3 DEF u

LEMMA HeadFirst ==
  ASSUME NEW s \in Seq(Byte), s # <<>>
  PROVE  /\ Head(s) \in Byte /\ Tail(s) \in Seq(Byte)
         /\ <<Head(s)>> \o Tail(s) = s
OBVIOUS

\* What the text of a received byte makes of the line.
LEMMA ByteRead ==
  ASSUME Inv, NEW data \in Byte, ByteReceived(data), NEW r, WillRead(r)
  PROVE  \E l \in Seq(Byte) :
           /\ Reads(r, ByteLine(~timer1), << l, r[2] >>)
           /\ \/ Stray(l)
              \/ ~timer1 /\ HeardBy(gateway', <<data>>) /\ l = LineSoFar(<<data>>)
              \/ \E h : /\ timer1 /\ HeardBy(gateway, h)
                        /\ bus.heard => bus.whole /\ h \o bus.left = RtuFrame(bus.payload)
                        /\ HeardBy(gateway', Append(h, data)) /\ l = LineSoFar(Append(h, data))
<1>1. /\ r \in Reader /\ r = << r[1], r[2] >> /\ r[1] \in Seq(Byte) /\ r[2] \in Seq(Seq(Byte))
      /\ gateway \in GatewayType
  BY WillReadType, TextHere
<1>2. gateway' = Shifted(BeforeSei(~timer1), data)
  BY DEF ByteReceived
<1>3. timer1 \in BOOLEAN
  BY DEF Inv, TypeOK
<1>4. CASE ~timer1
  <2>1. HeardBy(gateway', <<data>>) /\ ByteLine(~timer1) = <<Colon>>
    <3>1. (~timer1) = TRUE
      BY <1>4
    <3>2. HeardBy(Shifted(BeforeSei(TRUE), data), <<data>>) /\ ByteLine(TRUE) = <<Colon>>
      BY <1>1, HeardFirst
    <3>3. QED
      BY <1>2, <3>1, <3>2
  <2>2. Reads(r, <<Colon>>, << <<Colon>>, r[2] >>)
    BY <1>1, ReadsColon
  <2>3. LineSoFar(<<data>>) = <<Colon>> /\ <<Colon>> \in Seq(Byte)
    <3>1. <<data>> \in Seq(Byte) /\ Len(<<data>>) >= 1
      OBVIOUS
    <3>2. QED
      BY <3>1, LineGrows, CharType, Zenon
  <2>4. QED
    BY <1>4, <2>1, <2>2, <2>3, Zenon
<1>5. CASE timer1
  <2>1. (~timer1) = FALSE
    BY <1>5
  <2>2. gateway' = Shifted(BeforeSei(FALSE), data)
    BY <1>2, <2>1
  <2>3. CASE Stray(r[1])
    <3>1. ByteLine(FALSE) = <<>> \/ \E b \in Byte : ByteLine(FALSE) = ByteText(b)
      <4> DEFINE text == ByteText(gateway.lastModbusByte[2])
      <4>1. gateway.lastModbusByte[2] \in Byte
        BY <1>1 DEF GatewayType
      <4>2. text \in Seq(Byte) /\ <<>> \in Seq(Byte)
        BY <4>1, TextType, EmptyType
      <4>3. ByteLine(FALSE) = <<>> \o <<>> \/ ByteLine(FALSE) = <<>> \o text
        BY Zenon DEF ByteLine
      <4>4. <<>> \o <<>> = <<>> /\ <<>> \o text = text
        BY <4>2, ConcatEmptySeq, Zenon
      <4>5. QED
        BY <4>1, <4>3, <4>4, Zenon
    <3>2. CASE ByteLine(FALSE) = <<>>
      <4>1. Reads(r, <<>>, r)
        BY <1>1, ReadsNone
      <4>2. QED
        BY <1>1, <2>1, <2>3, <3>2, <4>1, Zenon
    <3>3. ASSUME NEW b \in Byte, ByteLine(FALSE) = ByteText(b)
          PROVE  \E l \in Seq(Byte) : Reads(r, ByteLine(FALSE), << l, r[2] >>) /\ Stray(l)
      <4> DEFINE l == r[1] \o ByteText(b)
      <4>1. Reads(<< r[1], r[2] >>, ByteText(b), << l, r[2] >>)
        BY <1>1, ReadsDigits
      <4>2. ByteText(b) \in Seq(Byte) /\ ByteText(b) # <<>> /\ ByteText(b)[1] # Colon
        BY TextType, DigitsNoColon
      <4>3. l \in Seq(Byte) /\ Stray(l)
        BY <1>1, <2>3, <4>2, StrayMore
      <4>4. QED
        BY <1>1, <3>3, <4>1, <4>3, Zenon
    <3>4. QED
      BY <2>1, <3>1, <3>2, <3>3, Zenon
  <2>4. CASE IsBeingWritten(r[1], gateway, bus)
    <3>1. PICK h : /\ HeardBy(gateway, h) /\ r[1] = LineSoFar(h)
                   /\ bus.heard => bus.whole /\ h \o bus.left = RtuFrame(bus.payload)
      BY <2>4, Zenon DEF IsBeingWritten
    <3> DEFINE l == LineSoFar(Append(h, data))
    <3>2. h \in Seq(Byte) /\ Len(h) >= 1
      BY <3>1 DEF HeardBy
    <3>3. HeardBy(gateway', Append(h, data)) /\ ByteLine(FALSE) = NextText(h)
      BY <1>1, <2>2, <3>1, HeardNext
    <3>4. l = r[1] \o NextText(h)
      BY <3>1, <3>2, LineGrows
    <3>5. l \in Seq(Byte) /\ Reads(<< r[1], r[2] >>, NextText(h), << l, r[2] >>)
      <4>1. CASE Len(h) >= 2
        <5>1. h[Len(h) - 1] \in Byte
          <6>1. Len(h) \in Nat
            BY <3>2
          <6>2. QED
            BY <3>2, <4>1, <6>1
        <5>2. NextText(h) = ByteText(h[Len(h) - 1])
          BY <4>1 DEF NextText
        <5>3. NextText(h) \in Seq(Byte)
          BY <5>1, <5>2, TextType
        <5>4. l \in Seq(Byte)
          BY <1>1, <3>4, <5>3, ConcatType
        <5>5. Reads(<< r[1], r[2] >>, NextText(h), << r[1] \o NextText(h), r[2] >>)
          BY <1>1, <5>1, <5>2, ReadsDigits
        <5>6. QED
          BY <3>4, <5>4, <5>5, Zenon
      <4>2. CASE ~(Len(h) >= 2)
        <5>1. NextText(h) = <<>>
          BY <4>2 DEF NextText
        <5>2. l = r[1]
          BY <1>1, <3>4, <5>1, ConcatEmptySeq, Zenon
        <5>3. Reads(r, <<>>, r)
          BY <1>1, ReadsNone
        <5>4. QED
          BY <1>1, <5>1, <5>2, <5>3, Zenon
      <4>3. QED
        BY <4>1, <4>2
    <3> HIDE DEF l
    <3>6. QED
      BY <1>1, <1>5, <2>1, <3>1, <3>3, <3>5, Zenon DEF l
  <2>5. QED
    BY <2>3, <2>4, Zenon DEF WillRead
<1>6. QED
  BY <1>3, <1>4, <1>5

\* A received byte keeps the promise, if what the bus holds after it is true.
LEMMA ByteAcc ==
  ASSUME Inv, AccInv, NEW data \in Byte, ByteReceived(data), NEW t, bus'.left = t,
         t \in Seq(Byte),
         bus'.heard => IF timer1
                       THEN /\ bus.heard /\ bus'.whole = bus.whole
                            /\ bus'.payload = bus.payload /\ bus.left = <<data>> \o t
                       ELSE bus'.whole /\ RtuFrame(bus'.payload) = <<data>> \o t
  PROVE  AccInv'
<1>1. PICK r : WillRead(r)
  BY DEF AccInv
<1>2. /\ uart0_out' = app_ringBuffer_writeString(uart0_out, ByteLine(~timer1)) /\ Room(3)
      /\ UNCHANGED << line, accepted >> /\ sound' = sound /\ timer1' = TRUE
  BY DEF ByteReceived
<1>3. ByteLine(~timer1) \in Seq(Byte) /\ Len(ByteLine(~timer1)) <= 3 /\ 3 \in Nat
  <2>1. (~timer1) \in BOOLEAN
    BY Zenon DEF Inv, TypeOK
  <2>2. QED
    BY <2>1, TextHere, BeforeSeiType
<1>4. PICK l \in Seq(Byte) :
        /\ Reads(r, ByteLine(~timer1), << l, r[2] >>)
        /\ \/ Stray(l)
           \/ ~timer1 /\ HeardBy(gateway', <<data>>) /\ l = LineSoFar(<<data>>)
           \/ \E h : /\ timer1 /\ HeardBy(gateway, h)
                     /\ bus.heard => bus.whole /\ h \o bus.left = RtuFrame(bus.payload)
                     /\ HeardBy(gateway', Append(h, data)) /\ l = LineSoFar(Append(h, data))
  BY <1>1, ByteRead
<1> DEFINE q == << l, r[2] >>
<1>5. q[1] = l /\ q[2] = r[2]
  OBVIOUS
<1> HIDE DEF q
<1>6. Stray(l) \/ IsBeingWritten(l, gateway', bus')
  <2>1. ASSUME ~timer1, HeardBy(gateway', <<data>>), l = LineSoFar(<<data>>)
        PROVE  IsBeingWritten(l, gateway', bus')
    <3>1. bus'.heard => bus'.whole /\ <<data>> \o bus'.left = RtuFrame(bus'.payload)
      BY <2>1, Zenon
    <3>2. QED
      BY <2>1, <3>1, Zenon DEF IsBeingWritten
  <2>2. ASSUME NEW h, timer1, HeardBy(gateway, h),
               bus.heard => bus.whole /\ h \o bus.left = RtuFrame(bus.payload),
               HeardBy(gateway', Append(h, data)), l = LineSoFar(Append(h, data))
        PROVE  IsBeingWritten(l, gateway', bus')
    <3>1. h \in Seq(Byte)
      BY <2>2, Zenon DEF HeardBy
    <3>2. h \o (<<data>> \o t) = Append(h, data) \o t
      BY <3>1, BeingWrittenNext
    <3>3. bus'.heard => bus'.whole /\ Append(h, data) \o bus'.left = RtuFrame(bus'.payload)
      <4>1. SUFFICES ASSUME bus'.heard
                     PROVE  bus'.whole /\ Append(h, data) \o t = RtuFrame(bus'.payload)
        BY Zenon
      <4>2. /\ bus.heard /\ bus'.whole = bus.whole /\ bus'.payload = bus.payload
            /\ bus.left = <<data>> \o t
        BY <2>2, <4>1, Zenon
      <4>3. bus.whole /\ h \o bus.left = RtuFrame(bus.payload)
        BY <2>2, <4>2, Zenon
      <4>4. QED
        BY <3>2, <4>2, <4>3
    <3>4. QED
      BY <2>2, <3>3, Zenon DEF IsBeingWritten
  <2>3. QED
    BY <1>4, <2>1, <2>2, Zenon
<1>7. Embeds(q[2], sound')
  BY <1>1, <1>2, <1>5 DEF WillRead
<1>8. WillRead(q)'
  <2>1. Reads(r, ByteLine(~timer1), q)
    BY <1>4, Zenon DEF q
  <2>2. Stray(q[1]) \/ IsBeingWritten(q[1], gateway', bus')
    BY <1>5, <1>6, Zenon
  <2>3. QED
    BY <1>1, <1>2, <1>3, <1>7, <2>1, <2>2, WritesMore
<1>9. (\E x : WillRead(x))'
  BY <1>8, Zenon
<1>10. QED
  BY <1>2, <1>9, Zenon DEF AccInv

\* A line on its own, of which the Pi accepts nothing.
LEMMA ReadsSpelled ==
  ASSUME NEW l \in Seq(Byte), NEW a \in Seq(Seq(Byte)), NEW m \in Seq(Byte)
  PROVE  Reads(<< l, a >>, Spelled(m), << l \o Spelled(m), a >>)
<1> DEFINE P == { s \in Seq(Byte) : Reads(<< l, a >>, Spelled(s), << l \o Spelled(s), a >>) }
<1>1. <<>> \in P
  <2>1. Spelled(<<>>) = <<>> /\ <<>> \in Seq(Byte)
    BY SpelledNone, EmptyType
  <2>2. l \o <<>> = l
    BY ConcatEmptySeq, Zenon
  <2>3. << l, a >> \in Reader
    BY Zenon DEF Reader
  <2>4. Reads(<< l, a >>, <<>>, << l, a >>)
    BY <2>3, ReadsNone
  <2>5. QED
    BY <2>1, <2>2, <2>4, Zenon
<1>2. ASSUME NEW s \in P, NEW b \in Byte PROVE Append(s, b) \in P
  <2> DEFINE u == Spelled(s)
             v == ByteText(b)
  <2>1. s \in Seq(Byte) /\ Append(s, b) \in Seq(Byte) /\ Reads(<< l, a >>, u, << l \o u, a >>)
    OBVIOUS
  <2>2. u \in Seq(Byte) /\ v \in Seq(Byte) /\ Spelled(Append(s, b)) = u \o v
    BY <2>1, SpelledType, SpelledMore, TextType
  <2>3. l \o u \in Seq(Byte)
    BY <2>2, ConcatType
  <2>4. Reads(<< l \o u, a >>, v, << (l \o u) \o v, a >>)
    BY <2>3, ReadsDigits
  <2> HIDE DEF u, v
  <2>5. Reads(<< l, a >>, u \o v, << (l \o u) \o v, a >>)
    BY <2>1, <2>2, <2>4, ReadsAll
  <2>6. (l \o u) \o v = l \o (u \o v)
    BY <2>2, ThreeParts, Zenon
  <2>7. QED
    BY <2>1, <2>2, <2>5, <2>6, Zenon
<1>3. P \subseteq Seq(Byte)
  OBVIOUS
<1> HIDE DEF P
<1>4. P = Seq(Byte)
  BY <1>1, <1>2, <1>3, Sequences
<1>5. QED
  BY <1>4 DEF P

LEMMA LineRefused ==
  ASSUME NEW p \in Reader, NEW m \in Seq(Byte), NEW x \in Byte, Len(m) < 2 \/ x # Lrc(m)
  PROVE  /\ LineText(m, x) \in Seq(Byte)
         /\ Reads(p, LineText(m, x), << <<>>, p[2] >>)
<1> DEFINE a == p[2]
           colon == <<Colon>>
           body == Spelled(m)
           sum == ByteText(x)
           end == <<CR, LF>>
<1>1. /\ a \in Seq(Seq(Byte)) /\ colon \in Seq(Byte) /\ body \in Seq(Byte)
      /\ sum \in Seq(Byte) /\ end \in Seq(Byte)
  <2>1. a \in Seq(Seq(Byte))
    BY DEF Reader
  <2>2. QED
    BY <2>1, CharType, SpelledType, TextType, Zenon
<1>2. Reads(p, colon, << colon, a >>)
  BY ReadsColon
<1>3. Reads(<< colon, a >>, body, << colon \o body, a >>)
  BY <1>1, ReadsSpelled
<1>4. colon \o body \in Seq(Byte)
  BY <1>1, ConcatType
<1>5. Reads(<< colon \o body, a >>, sum, << (colon \o body) \o sum, a >>)
  BY <1>1, <1>4, ReadsDigits
<1>6. (colon \o body) \o sum \in Seq(Byte)
  BY <1>1, <1>4, ConcatType
<1>7. LineText(m, x) = ((colon \o body) \o sum) \o end
  BY DEF LineText
<1>8. Taken(a, LineText(m, x)) = a
  <2>1. \/ Taken(a, LineText(m, x)) = a
        \/ Len(m) >= 2 /\ x = Lrc(m) /\ Taken(a, LineText(m, x)) = Append(a, m)
    BY TakenLine
  <2>2. Len(m) \in Nat
    OBVIOUS
  <2>3. Len(m) < 2 => ~(Len(m) >= 2)
    BY <2>2
  <2>4. QED
    BY <2>1, <2>3, Zenon
<1>9. Reads(<< (colon \o body) \o sum, a >>, end, << <<>>, a >>)
  <2>1. Reads(<< (colon \o body) \o sum, a >>, end,
              << <<>>, Taken(a, ((colon \o body) \o sum) \o end) >>)
    BY <1>1, <1>6, ReadsEnd
  <2>2. QED
    BY <1>7, <1>8, <2>1, Zenon
<1>10. LineText(m, x) \in Seq(Byte)
  BY <1>1, <1>6, <1>7, ConcatType
<1> HIDE DEF a, colon, body, sum, end
<1>11. Reads(p, colon \o body, << colon \o body, a >>)
  BY <1>1, <1>2, <1>3, ReadsAll
<1>12. Reads(p, (colon \o body) \o sum, << (colon \o body) \o sum, a >>)
  BY <1>1, <1>4, <1>5, <1>11, ReadsAll
<1>13. Reads(p, ((colon \o body) \o sum) \o end, << <<>>, a >>)
  BY <1>1, <1>6, <1>9, <1>12, ReadsAll
<1>14. QED
  BY <1>7, <1>10, <1>13 DEF a

LEMMA LateLine ==
  ASSUME gateway \in GatewayType
  PROVE  \E x \in Byte : ByteLine(TRUE) \o EndLine(BeforeSei(TRUE)) = LineText(<<>>, x)
<1> DEFINE g == BeforeSei(TRUE)
           x == EndLrc(g)
           colon == <<Colon>>
           sum == ByteText(x)
           end == <<CR, LF>>
<1>1. g \in GatewayType
  BY BeforeSeiType
<1>2. x \in Byte
  BY <1>1, EndLrcType
<1>3. ByteLine(TRUE) = colon /\ g.modbusByteCnt = 1
  <2>1. 0 \in Byte
    BY DEF Byte
  <2>2. QED
    BY <2>1, HeardFirst, Zenon
<1>4. EndLine(g) = sum \o end
  <2>1. 1 > 0
    OBVIOUS
  <2>2. QED
    BY <1>3, <2>1, Zenon DEF EndLine
<1>5. colon \in Seq(Byte) /\ sum \in Seq(Byte) /\ end \in Seq(Byte)
  BY <1>2, CharType, TextType, Zenon
<1>6. LineText(<<>>, x) = ((colon \o <<>>) \o sum) \o end
  BY SpelledNone DEF LineText
<1>7. colon \o <<>> = colon
  BY <1>5, ConcatEmptySeq, Zenon
<1>8. colon \o (sum \o end) = (colon \o sum) \o end
  BY <1>5, ThreeParts, Zenon
<1> HIDE DEF g, x, colon, sum, end
<1>9. ByteLine(TRUE) \o EndLine(g) = LineText(<<>>, x)
  BY <1>3, <1>4, <1>6, <1>7, <1>8, Zenon
<1>10. QED
  BY <1>2, <1>9, Zenon DEF g

LEMMA RefusalIs ==
  \E m \in Seq(Byte), x \in Byte : RefusalLine = LineText(m, x) /\ x # Lrc(m)
<1> DEFINE m0 == <<>>
           m1 == Append(m0, 0)
           m2 == Append(m1, 128)
           m3 == Append(m2, 1)
<1>1. 0 \in Byte /\ 128 \in Byte /\ 1 \in Byte /\ 126 \in Byte
  BY DEF Byte
<1>2. m0 \in Seq(Byte) /\ m1 \in Seq(Byte) /\ m2 \in Seq(Byte) /\ m3 \in Seq(Byte)
  BY <1>1
<1>3. Spelled(m0) = <<>> /\ ByteSum(m0) = 0
  BY SpelledNone, ByteSumEmpty
<1> HIDE DEF m0
<1>4. Spelled(m1) = Spelled(m0) \o ByteText(0) /\ ByteSum(m1) = Plus(ByteSum(m0), 0)
  BY <1>1, <1>2, SpelledMore, ByteSumAppend
<1> HIDE DEF m1
<1>5. Spelled(m2) = Spelled(m1) \o ByteText(128) /\ ByteSum(m2) = Plus(ByteSum(m1), 128)
  BY <1>1, <1>2, SpelledMore, ByteSumAppend
<1> HIDE DEF m2
<1>6. Spelled(m3) = Spelled(m2) \o ByteText(1) /\ ByteSum(m3) = Plus(ByteSum(m2), 1)
  BY <1>1, <1>2, SpelledMore, ByteSumAppend
<1> HIDE DEF m3
<1>7. Lrc(m3) = 127
  <2>1. Plus(0, 0) = 0 /\ Plus(0, 128) = 128 /\ Plus(128, 1) = 129
    BY DEF Plus
  <2>2. ByteSum(m3) = 129
    <3>1. ByteSum(m1) = 0
      BY <1>3, <1>4, <2>1, Zenon
    <3>2. ByteSum(m2) = 128
      BY <1>5, <2>1, <3>1, SMT
    <3>3. QED
      BY <1>6, <2>1, <3>2, SMT
  <2>3. (256 - 129) % 256 = 127
    OBVIOUS
  <2>4. QED
    BY <2>2, <2>3, Zenon DEF Lrc
<1> DEFINE c == <<Colon>>
           t0 == ByteText(0)
           t1 == ByteText(128)
           t2 == ByteText(1)
           t3 == ByteText(126)
           end == <<CR, LF>>
<1>8. /\ c \in Seq(Byte) /\ t0 \in Seq(Byte) /\ t1 \in Seq(Byte) /\ t2 \in Seq(Byte)
      /\ t3 \in Seq(Byte) /\ end \in Seq(Byte)
  BY <1>1, CharType, TextType, Zenon
<1>9. RefusalLine = ((((c \o t0) \o t1) \o t2) \o t3) \o end
  BY DEF RefusalLine
<1>10. LineText(m3, 126) = ((c \o Spelled(m3)) \o t3) \o end
  BY DEF LineText
<1> HIDE DEF c, t0, t1, t2, t3, end
<1>11. Spelled(m1) = t0
  <2>1. <<>> \o t0 = t0
    BY <1>8, ConcatEmptySeq, Zenon
  <2>2. QED
    BY <1>3, <1>4, <2>1, Zenon DEF t0
<1>12. Spelled(m3) = (t0 \o t1) \o t2
  BY <1>5, <1>6, <1>11, Zenon DEF t1, t2
<1>13. c \o ((t0 \o t1) \o t2) = ((c \o t0) \o t1) \o t2
  <2>1. c \in Texts /\ t0 \in Texts /\ t1 \in Texts /\ t2 \in Texts
    BY <1>8, Zenon DEF Texts
  <2>2. Cat(c, Cat(Cat(t0, t1), t2)) = Cat(Cat(Cat(c, t0), t1), t2)
    BY <2>1, FourParts, SMT
  <2>3. QED
    BY <2>2, Zenon DEF Cat
<1>14. RefusalLine = LineText(m3, 126)
  BY <1>9, <1>10, <1>12, <1>13, Zenon
<1>15. 126 # 127
  OBVIOUS
<1>16. m3 \in Seq(Byte) /\ 126 # Lrc(m3)
  BY <1>2, <1>7, <1>15
<1>17. QED
  BY <1>1, <1>14, <1>16

\* Bytes and lines the Pi will not accept: the line it is in is none of the gateway's.
LEMMA LateByteAcc ==
  ASSUME Inv, AccInv, LateByte
  PROVE  AccInv'
<1>1. PICK b \in Sending :
        /\ Room(7)
        /\ uart0_out' = app_ringBuffer_writeString(uart0_out,
                          ByteLine(TRUE) \o EndLine(BeforeSei(TRUE)))
        /\ Took(b, FALSE)
        /\ UNCHANGED <<main, line, accepted, sound, raced>>
  BY DEF LateByte
<1>2. ~bus'.heard
  <2>1. b \in BusType
    BY SendingType DEF Inv
  <2>2. QED
    BY <1>1, <2>1 DEF Took, BusType
<1>3. PICK r : WillRead(r)
  BY DEF AccInv
<1>4. /\ r \in Reader /\ r[2] \in Seq(Seq(Byte)) /\ gateway \in GatewayType
  BY <1>3, WillReadType, TextHere
<1>5. PICK x \in Byte : ByteLine(TRUE) \o EndLine(BeforeSei(TRUE)) = LineText(<<>>, x)
  BY <1>4, LateLine
<1> DEFINE s == ByteLine(TRUE) \o EndLine(BeforeSei(TRUE))
           q == << <<>>, r[2] >>
<1>6. s \in Seq(Byte) /\ Reads(r, s, q)
  <2>1. <<>> \in Seq(Byte) /\ Len(<<>>) < 2
    OBVIOUS
  <2>2. QED
    BY <1>4, <1>5, <2>1, LineRefused
<1>7. Len(s) <= 7 /\ 7 \in Nat
  <2> DEFINE t == ByteLine(TRUE)
             e == EndLine(BeforeSei(TRUE))
  <2>1. /\ BeforeSei(TRUE) \in GatewayType /\ t \in Seq(Byte) /\ Len(t) <= 3
    BY <1>4, BeforeSeiType
  <2>2. e \in Seq(Byte) /\ Len(e) <= 4
    BY <2>1, EndLineType
  <2> HIDE DEF t, e
  <2>3. Len(t \o e) <= 7
    BY <2>1, <2>2, ConcatType
  <2>4. QED
    BY <2>3 DEF t, e
<1>8. q[1] = <<>> /\ q[2] = r[2]
  OBVIOUS
<1> HIDE DEF s, q
<1>9. Stray(q[1]) /\ Embeds(q[2], sound')
  BY <1>1, <1>3, <1>8 DEF Stray, WillRead
<1>10. uart0_out' = app_ringBuffer_writeString(uart0_out, s)
  BY <1>1 DEF s
<1>11. WillRead(q)'
  BY <1>1, <1>3, <1>6, <1>7, <1>9, <1>10, WritesMore
<1>12. QED
  BY <1>2, <1>11, Zenon DEF AccInv

LEMMA RefuseAcc ==
  ASSUME Inv, AccInv, Refuse
  PROVE  AccInv'
<1>1. /\ Room(Len(RefusalLine))
      /\ uart0_out' = app_ringBuffer_writeString(uart0_out, RefusalLine)
      /\ bus' = [bus EXCEPT !.whole = FALSE]
      /\ UNCHANGED <<gateway, timer1, main, frames, line, accepted, sound, raced>>
  BY DEF Refuse
<1>2. PICK r : WillRead(r)
  BY DEF AccInv
<1>3. r \in Reader /\ bus \in BusType
  BY <1>2, WillReadType, TextHere
<1>4. PICK m \in Seq(Byte), x \in Byte : RefusalLine = LineText(m, x) /\ x # Lrc(m)
  BY RefusalIs
<1> DEFINE q == << <<>>, r[2] >>
<1>5. RefusalLine \in Seq(Byte) /\ Reads(r, RefusalLine, q)
  BY <1>3, <1>4, LineRefused
<1>6. q[1] = <<>> /\ q[2] = r[2]
  OBVIOUS
<1> HIDE DEF q
<1>7. Stray(q[1]) /\ Embeds(q[2], sound')
  BY <1>1, <1>2, <1>6 DEF Stray, WillRead
<1>8. Len(RefusalLine) \in Nat /\ Len(RefusalLine) <= Len(RefusalLine)
  BY <1>5
<1>9. WillRead(q)'
  BY <1>1, <1>2, <1>5, <1>7, <1>8, WritesMore
<1>10. ~timer1' => ~bus'.heard
  <2>1. bus'.heard = bus.heard /\ timer1' = timer1
    BY <1>1, <1>3 DEF BusType
  <2>2. QED
    BY <2>1, Zenon DEF AccInv
<1>11. QED
  BY <1>9, <1>10, Zenon DEF AccInv

\* The end of a frame: what is accepted is what the bus carried.
LEMMA WholeFrame ==
  ASSUME NEW p \in Seq(Byte), NEW h \in Seq(Byte), h = RtuFrame(p)
  PROVE  Forwarded(h) = p
<1> DEFINE crc == CrcBytes(FoldLeft(app_updateModbusCrc, CrcStart, p))
<1>1. crc \in Seq(Byte) /\ Len(crc) = 2
  BY CrcBytesType
<1>2. h = p \o crc
  BY DEF RtuFrame
<1> HIDE DEF crc
<1>3. Len(p) \in Nat /\ Len(h) = Len(p) + 2
  <2>1. Len(p) \in Nat
    OBVIOUS
  <2>2. Len(p \o crc) = Len(p) + 2
    BY <1>1, JoinPair
  <2>3. QED
    BY <1>2, <2>1, <2>2, Zenon
<1>4. \A i \in 1 .. Len(p) : h[i] = p[i]
  BY <1>1, <1>2, JoinPair
<1>5. Forwarded(h) = SubSeq(h, 1, Len(p))
  <2>1. Len(h) - 2 = Len(p)
    BY <1>3
  <2>2. QED
    BY <2>1, Zenon DEF Forwarded
<1>6. /\ SubSeq(h, 1, Len(p)) \in Seq(Byte) /\ Len(SubSeq(h, 1, Len(p))) = Len(p)
      /\ \A i \in 1 .. Len(p) : SubSeq(h, 1, Len(p))[i] = h[i]
  <2>1. Len(p) \in 0 .. Len(h)
    BY <1>3
  <2>2. QED
    BY <2>1, CutSequence
<1> DEFINE u == SubSeq(h, 1, Len(p))
<1> HIDE DEF u
<1>7. u \in Seq(Byte) /\ Len(u) = Len(p) /\ \A i \in 1 .. Len(p) : u[i] = p[i]
  BY <1>4, <1>6, Zenon DEF u
<1>8. u = p
  BY <1>7, SeqEqual
<1>9. QED
  BY <1>5, <1>8 DEF u

LEMMA TimedOutAcc ==
  ASSUME Inv, AccInv, TimedOut, Detected, ~bus'.heard,
         sound' = (IF bus.left = <<>> /\ bus.whole THEN Append(sound, bus.payload) ELSE sound)
  PROVE  AccInv'
<1>1. /\ Room(4) /\ UNCHANGED << line, accepted >>
      /\ uart0_out' = app_ringBuffer_writeString(uart0_out, EndLine(gateway))
  BY DEF TimedOut
<1>2. PICK r : WillRead(r)
  BY DEF AccInv
<1>3. /\ r \in Reader /\ r = << r[1], r[2] >> /\ r[1] \in Seq(Byte) /\ r[2] \in Seq(Seq(Byte))
      /\ gateway \in GatewayType /\ bus \in BusType /\ sound \in Seq(Seq(Byte))
  BY <1>2, WillReadType, TextHere
<1>4. EndLine(gateway) \in Seq(Byte) /\ Len(EndLine(gateway)) <= 4 /\ 4 \in Nat
  BY <1>3, EndLineType
<1>5. bus.payload \in Seq(Byte) /\ bus.left \in Seq(Byte)
  BY <1>3 DEF BusType
<1>6. Embeds(r[2], sound)
  BY <1>2 DEF WillRead
<1>7. Embeds(r[2], sound')
  <2>1. Embeds(r[2], Append(sound, bus.payload))
    BY <1>3, <1>5, <1>6, EmbedsMore
  <2>2. QED
    BY <1>6, <2>1, Zenon
<1>8. ASSUME NEW a, Reads(r, EndLine(gateway), << <<>>, a >>), Embeds(a, sound')
      PROVE  AccInv'
  <2> DEFINE q == << <<>>, a >>
  <2>1. q[1] = <<>> /\ q[2] = a
    OBVIOUS
  <2>2. Reads(r, EndLine(gateway), q)
    BY <1>8
  <2> HIDE DEF q
  <2>3. Stray(q[1]) /\ Embeds(q[2], sound')
    BY <1>8, <2>1 DEF Stray
  <2>4. WillRead(q)'
    BY <1>1, <1>2, <1>4, <2>2, <2>3, WritesMore
  <2>5. QED
    BY <2>4, Zenon DEF AccInv
<1>9. CASE Stray(r[1])
  <2>1. Reads(<< r[1], r[2] >>, EndLine(gateway), << <<>>, r[2] >>)
    BY <1>3, <1>9, EndStray
  <2>2. QED
    BY <1>3, <1>7, <1>8, <2>1, Zenon
<1>10. CASE IsBeingWritten(r[1], gateway, bus)
  <2>1. PICK h : /\ HeardBy(gateway, h) /\ r[1] = LineSoFar(h)
                 /\ bus.heard => bus.whole /\ h \o bus.left = RtuFrame(bus.payload)
    BY <1>10, Zenon DEF IsBeingWritten
  <2>2. h \in Seq(Byte)
    BY <2>1 DEF HeardBy
  <2> DEFINE a == Taken(r[2], LineSoFar(h) \o EndLine(gateway))
  <2>3. /\ Reads(<< r[1], r[2] >>, EndLine(gateway), << <<>>, a >>)
        /\ \/ a = r[2]
           \/ /\ gateway.crc = {} /\ gateway.modbusByteCnt >= 4
              /\ a = Append(r[2], Forwarded(h))
    BY <1>3, <2>1, EndTaken
  <2> HIDE DEF a
  <2>4. CASE a = r[2]
    BY <1>3, <1>7, <1>8, <2>3, <2>4, Zenon
  <2>5. CASE gateway.crc = {} /\ gateway.modbusByteCnt >= 4 /\ a = Append(r[2], Forwarded(h))
    <3>1. bus.heard /\ bus.left = <<>>
      BY <2>5, Zenon DEF Detected
    <3>2. bus.whole /\ h \o <<>> = RtuFrame(bus.payload)
      BY <2>1, <3>1, Zenon
    <3>3. h = RtuFrame(bus.payload)
      BY <2>2, <3>2, ConcatEmptySeq, Zenon
    <3>4. Forwarded(h) = bus.payload
      BY <1>5, <2>2, <3>3, WholeFrame
    <3>5. Embeds(Append(r[2], bus.payload), Append(sound, bus.payload))
      BY <1>3, <1>5, <1>6, EmbedsBoth
    <3>6. Embeds(a, sound')
      BY <2>5, <3>1, <3>2, <3>4, <3>5, Zenon
    <3>7. QED
      BY <1>3, <1>8, <2>3, <3>6, Zenon
  <2>6. QED
    BY <2>3, <2>4, <2>5, Zenon
<1>11. QED
  BY <1>2, <1>9, <1>10, Zenon DEF WillRead

\* The bytes of the bus.
LEMMA BusByteAcc ==
  ASSUME Inv, AccInv, BusByte
  PROVE  AccInv'
<1>1. PICK b \in Sending : ByteReceived(Head(b.left)) /\ Took(b, TRUE)
  BY DEF BusByte
<1>2. b \in BusType /\ b.left # <<>>
  BY SendingType DEF Inv
<1> DEFINE data == Head(b.left)
           t == Tail(b.left)
<1>3. data \in Byte /\ t \in Seq(Byte) /\ <<data>> \o t = b.left
  BY <1>2, HeadFirst DEF BusType
<1>4. /\ bus'.left = t /\ bus'.payload = b.payload
      /\ bus'.heard <=> b.heard
      /\ bus'.whole <=> b.whole
  BY <1>1, <1>2 DEF Took, BusType
<1>5. bus'.whole = b.whole
  <2>1. bus' \in BusType
    BY <1>1, TookType DEF Inv
  <2>2. QED
    BY <1>2, <1>4, <2>1 DEF BusType
<1>6. ByteReceived(data)
  BY <1>1
<1> HIDE DEF data, t
<1>7. \/ b = bus /\ bus.left # <<>>
      \/ /\ bus.left = <<>> /\ b.left = RtuFrame(b.payload)
         /\ b.heard = (~timer1) /\ b.whole = (~timer1)
  <2>1. CASE bus.left # <<>>
    BY <2>1 DEF Sending
  <2>2. CASE bus.left = <<>>
    <3> DEFINE p == Payloads[frames + 1]
    <3>1. b = [payload |-> p, left |-> RtuFrame(p), heard |-> ~timer1, whole |-> ~timer1]
      BY <2>2 DEF Sending
    <3>2. b.payload = p /\ b.left = RtuFrame(p) /\ b.heard = (~timer1) /\ b.whole = (~timer1)
      BY <3>1
    <3>3. QED
      BY <2>2, <3>2, Zenon
  <2>3. QED
    BY <2>1, <2>2
<1>8. ASSUME bus'.heard
      PROVE  IF timer1
             THEN /\ bus.heard /\ bus'.whole = bus.whole
                  /\ bus'.payload = bus.payload /\ bus.left = <<data>> \o t
             ELSE bus'.whole /\ RtuFrame(bus'.payload) = <<data>> \o t
  <2>1. b.heard
    BY <1>4, <1>8, Zenon
  <2>2. CASE timer1
    <3>1. b = bus
      BY <1>7, <2>1, <2>2, Zenon
    <3>2. QED
      BY <1>3, <1>4, <1>5, <2>1, <2>2, <3>1, Zenon
  <2>3. CASE ~timer1
    <3>1. ~bus.heard
      BY <2>3, Zenon DEF AccInv
    <3>2. b.left = RtuFrame(b.payload) /\ b.whole
      BY <1>7, <2>1, <2>3, <3>1, Zenon
    <3>3. QED
      BY <1>3, <1>4, <2>3, <3>2, Zenon
  <2>4. QED
    BY <2>2, <2>3
<1>9. QED
  BY <1>3, <1>4, <1>6, <1>8, ByteAcc

\* Bytes that are not as they were sent.
LEMMA WrongByteAcc ==
  ASSUME Inv, AccInv, NEW data \in Byte, ByteReceived(data), bus' \in BusType, ~bus'.heard
  PROVE  AccInv'
<1> DEFINE t == bus'.left
<1>1. t \in Seq(Byte)
  BY DEF BusType
<1> HIDE DEF t
<1>2. bus'.left = t
  BY DEF t
<1>3. QED
  BY <1>1, <1>2, ByteAcc

LEMMA TookWrong ==
  ASSUME Inv, NEW b \in Sending, Took(b, FALSE)
  PROVE  bus' \in BusType /\ ~bus'.heard
<1>1. b \in BusType
  BY SendingType DEF Inv
<1>2. FALSE \in BOOLEAN
  OBVIOUS
<1>3. QED
  BY <1>1, <1>2, TookType DEF Took, Inv, BusType

\* The frame on the bus is heard of as before, or not any more.
LEMMA SameText ==
  ASSUME AccInv, UNCHANGED << uart0_out, gateway, line, accepted, sound >>,
         (bus' = bus /\ timer1' = timer1) \/ ~bus'.heard
  PROVE  AccInv'
<1>1. PICK r : WillRead(r)
  BY DEF AccInv
<1>2. IsBeingWritten(r[1], gateway, bus) => IsBeingWritten(r[1], gateway, bus')
  BY Zenon DEF IsBeingWritten
<1>3. TextOf(uart0_out)' = TextOf(uart0_out)
  BY DEF TextOf, Unread
<1>4. << line, accepted >>' = << line, accepted >> /\ sound' = sound /\ gateway' = gateway
  OBVIOUS
<1>5. Reads(<< line, accepted >>', TextOf(uart0_out)', r)
  BY <1>1, <1>3, <1>4 DEF WillRead
<1>6. Embeds(r[2], sound')
  BY <1>1, <1>4 DEF WillRead
<1>7. Stray(r[1]) \/ IsBeingWritten(r[1], gateway', bus')
  BY <1>1, <1>2, <1>4, Zenon DEF WillRead
<1>8. WillRead(r)'
  BY <1>5, <1>6, <1>7, Zenon DEF WillRead
<1>9. ~timer1' => ~bus'.heard
  BY Zenon DEF AccInv
<1>10. QED
  BY <1>8, <1>9, Zenon DEF AccInv

\* The Pi takes a character: what it will have accepted stays the same.
LEMMA StoreAcc ==
  ASSUME Inv, AccInv, Store
  PROVE  AccInv'
<1>1. /\ main.at = "store" /\ uart0_out' = ReadStore(uart0_out, main.loaded)
      /\ PiReads(NextChar(uart0_out))
      /\ UNCHANGED <<gateway, timer1, bus, frames, faults, sound>>
  BY DEF Store
<1>2. /\ uart0_out \in RingOf(Byte) /\ main.loaded \in Index
      /\ 0 < main.loaded /\ main.loaded <= uart0_out.length
      /\ uart0_out.length <= Unread(uart0_out)
  BY <1>1 DEF TypeOK, Inv, LoadedHolds, LengthCounts
<1> DEFINE s == TextOf(uart0_out)
           p == << line, accepted >>
           c == NextChar(uart0_out)
<1>3. s # <<>> /\ c = Head(s) /\ TextOf(ReadStore(uart0_out, main.loaded)) = Tail(s)
  BY <1>2, TextRead
<1>4. s \in Seq(Byte)
  BY TextHere
<1>5. p' = AfterChar(p, c)
  <2>1. << line', accepted' >> = AfterChar(<< line, accepted >>, c)
    BY <1>1, PiReadsIs
  <2>2. QED
    BY <2>1
<1>6. s' = Tail(s)
  <2>1. TextOf(uart0_out)' = TextOf(uart0_out')
    BY DEF TextOf, Unread
  <2>2. QED
    BY <1>1, <1>3, <2>1
<1>7. PICK r : WillRead(r)
  BY DEF AccInv
<1>8. Reads(p, s, r)
  BY <1>7 DEF WillRead
<1>9. Reads(AfterChar(p, Head(s)), Tail(s), r)
  BY <1>3, <1>4, <1>8, ReadsRest
<1>10. Reads(p', s', r)
  BY <1>3, <1>5, <1>6, <1>9
<1> HIDE DEF s, p, c
<1>11. Embeds(r[2], sound)'
  BY <1>1, <1>7 DEF WillRead
<1>12. Stray(r[1]) \/ IsBeingWritten(r[1], gateway', bus')
  BY <1>1, <1>7, Zenon DEF WillRead
<1>13. WillRead(r)'
  BY <1>10, <1>11, <1>12 DEF WillRead, p, s
<1>14. ~timer1' => ~bus'.heard
  BY <1>1, Zenon DEF AccInv
<1>15. QED
  BY <1>13, <1>14, Zenon DEF AccInv

LEMMA AccInvNext == Inv /\ AccInv /\ [Next]_vars /\ [Detected]_vars => AccInv'
<1> SUFFICES ASSUME Inv, AccInv, [Next]_vars, [Detected]_vars PROVE AccInv'
  OBVIOUS
<1> USE BytesAssumption
<1>1. CASE BusByte
  BY <1>1, BusByteAcc
<1>2. CASE GarbledByte
  <2>1. PICK b \in Sending, data \in Garble : ByteReceived(data) /\ Took(b, FALSE)
    BY <1>2 DEF GarbledByte
  <2>2. data \in Byte
    BY <2>1
  <2>3. QED
    BY <2>1, <2>2, TookWrong, WrongByteAcc
<1>3. CASE BadByte
  <2>1. PICK b \in Sending : ErrorReceived /\ Took(b, FALSE)
    BY <1>3 DEF BadByte
  <2>2. UNCHANGED << uart0_out, gateway, line, accepted, sound >>
    BY <2>1 DEF ErrorReceived
  <2>3. ~bus'.heard
    BY <2>1, TookWrong
  <2>4. QED
    BY <2>2, <2>3, SameText
<1>4. CASE NoiseByte
  <2>1. PICK data \in Garble : ~timer1 /\ ByteReceived(data) /\ bus' = bus
    BY <1>4 DEF NoiseByte
  <2>2. data \in Byte
    BY <2>1
  <2>3. bus' \in BusType /\ ~bus'.heard
    BY <2>1, TextHere DEF AccInv
  <2>4. QED
    BY <2>1, <2>2, <2>3, WrongByteAcc
<1>5. CASE LateByte
  BY <1>5, LateByteAcc
<1>6. CASE FrameEnds
  <2>1. /\ bus.left = <<>> /\ TimedOut
        /\ sound' = IF bus.whole THEN Append(sound, bus.payload) ELSE sound
        /\ bus' = [bus EXCEPT !.heard = FALSE, !.whole = FALSE]
    BY <1>6 DEF FrameEnds
  <2>2. ~bus'.heard
    BY <2>1, TextHere DEF BusType
  <2>3. sound' = IF bus.left = <<>> /\ bus.whole THEN Append(sound, bus.payload) ELSE sound
    BY <2>1, Zenon
  <2>4. Detected
    <3>1. timer1 /\ timer1' = FALSE
      BY <2>1 DEF TimedOut
    <3>2. ~UNCHANGED vars
      BY <3>1 DEF vars, firmware
    <3>3. QED
      BY <3>2
  <2>5. QED
    BY <2>1, <2>2, <2>3, <2>4, TimedOutAcc
<1>7. CASE FramePauses
  <2>1. /\ bus.left # <<>> /\ TimedOut /\ sound' = sound
        /\ bus' = [bus EXCEPT !.heard = FALSE, !.whole = FALSE]
    BY <1>7 DEF FramePauses
  <2>2. ~bus'.heard
    BY <2>1, TextHere DEF BusType
  <2>3. sound' = IF bus.left = <<>> /\ bus.whole THEN Append(sound, bus.payload) ELSE sound
    BY <2>1, Zenon
  <2>4. Detected
    <3>1. timer1 /\ timer1' = FALSE
      BY <2>1 DEF TimedOut
    <3>2. ~UNCHANGED vars
      BY <3>1 DEF vars, firmware
    <3>3. QED
      BY <3>2
  <2>5. QED
    BY <2>1, <2>2, <2>3, <2>4, TimedOutAcc
<1>8. CASE Refuse
  BY <1>8, RefuseAcc
<1>9. CASE Test
  <2>1. /\ UNCHANGED << uart0_out, gateway, line, accepted, sound >>
        /\ bus' = bus /\ timer1' = timer1
    BY <1>9 DEF Test
  <2>2. QED
    BY <2>1, SameText
<1>10. CASE Load
  <2>1. /\ UNCHANGED << uart0_out, gateway, line, accepted, sound >>
        /\ bus' = bus /\ timer1' = timer1
    BY <1>10 DEF Load
  <2>2. QED
    BY <2>1, SameText
<1>11. CASE Store
  BY <1>11, StoreAcc
<1>12. CASE UNCHANGED vars
  <2>1. /\ UNCHANGED << uart0_out, gateway, line, accepted, sound >>
        /\ bus' = bus /\ timer1' = timer1
    BY <1>12 DEF vars, firmware
  <2>2. QED
    BY <2>1, SameText
<1>13. QED
  BY <1>1, <1>2, <1>3, <1>4, <1>5, <1>6, <1>7, <1>8, <1>9, <1>10, <1>11, <1>12, Zenon DEF Next

LEMMA AccIsSound == Inv /\ AccInv => AcceptedIsSound
<1> SUFFICES ASSUME Inv, AccInv PROVE AcceptedIsSound
  OBVIOUS
<1>1. PICK r : WillRead(r)
  BY DEF AccInv
<1>2. r[2] \in Seq(Seq(Byte)) /\ accepted \in Seq(Seq(Byte)) /\ sound \in Seq(Seq(Byte))
  BY <1>1, WillReadType DEF Inv, TypeOK
<1>3. Continues(r[2], accepted)
  <2>1. Reads(<< line, accepted >>, TextOf(uart0_out), r)
    BY <1>1 DEF WillRead
  <2>2. Continues(r[2], << line, accepted >>[2])
    BY <2>1, TextHere, ReadsContinues
  <2>3. QED
    BY <2>2
<1>4. Embeds(accepted, sound)
  BY <1>1, <1>2, <1>3, EmbedsEarlier DEF WillRead
<1>5. QED
  BY <1>4, Zenon DEF Embeds, AcceptedIsSound

-----------------------------------------------------------------------------
(* The results *)

\* The variables of the firmware and of the Pi keep their types.
THEOREM OutTypeCorrect == Safety => []TypeOK
<1>1. Safety => []Inv
  BY InitInv, NextInv, PTL DEF Safety
<1>2. Inv => TypeOK
  BY DEF Inv
<1>3. QED
  BY <1>1, <1>2, PTL

\* However handlers and app_main() interleave, uart0_out is never read beyond
\* what was written, and only a race for its length loses count.
THEOREM LengthIsCounted == Safety => []LengthCounts
<1>1. Safety => []Inv
  BY InitInv, NextInv, PTL DEF Safety
<1>2. Inv => LengthCounts
  BY DEF Inv
<1>3. QED
  BY <1>1, <1>2, PTL

\* However many bytes are lost, garbled, late or come from nowhere, and wherever lines of
\* the Pi are refused: if the CRC of what is not a frame is never 0 (CrcDetects), the Pi
\* accepts only what crossed the bus undisturbed, in its order and not twice.
THEOREM AcceptedAreSound == Safety /\ CrcDetects => []AcceptedIsSound
<1>1. Inv /\ AccInv /\ [Next]_vars /\ [Detected]_vars => (Inv /\ AccInv)'
  BY NextInv, AccInvNext
<1>2. Init => Inv /\ AccInv
  BY InitInv, AccInvInit
<1>3. CrcDetects => [][Detected]_vars
  BY PTL DEF CrcDetects, Detected
<1>4. Safety /\ CrcDetects => [](Inv /\ AccInv)
  BY <1>1, <1>2, <1>3, PTL DEF Safety
<1>5. QED
  BY <1>4, AccIsSound, PTL
=============================================================================
