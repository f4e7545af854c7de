----------------------------- MODULE GatewayOut -----------------------------
(***************************************************************************)
(* The direction bus -> Raspberry Pi of the gateway firmware: bytes of RTU *)
(* frames come in through USART1, leave as Modbus ASCII lines through the  *)
(* ring buffer uart0_out, and the Pi reads the lines.                      *)
(*                                                                         *)
(* An interrupt handler is one action: main() does not run before it       *)
(* returns, and handlers that interrupt app_handleUart1Byte() after its    *)
(* sei() do not touch what the rest of it touches, except TIMER1, which    *)
(* LateByte models.  main() runs in steps, and handlers between them.      *)
(***************************************************************************)
EXTENDS RingBuffer, ModbusCrc, AsciiFrame

CONSTANTS
  Payloads,    \* the frames on the bus, one after the other, without their CRC
  Garble,      \* what a disturbed byte may become
  MaxFaults,   \* bound: disturbances
  Faults       \* the disturbances that may happen

FaultKinds ==
  { "badByte",   \* the UART reports a frame error or an overrun
    "garbled",   \* a byte is received as another one
    "noise",     \* a byte is received while nobody sends
    "gap",       \* the sender pauses for 3.5 characters within a frame
    "early",     \* a frame starts before 3.5 characters of silence
    "late",      \* a byte ends in the moment timer 1 runs out
    "refusal"    \* a line of the Pi with a wrong LRC is answered meanwhile
  }

ASSUME FaultsAssumption == Faults \subseteq FaultKinds
ASSUME BytesAssumption == Payloads \in Seq(Seq(Byte)) /\ Garble \subseteq Byte

VARIABLES
  uart0_out,  \* app.uart0_out
  gateway,    \* app.gateway
  timer1,     \* timer 1 is running (TCCR1B # 0)
  main,       \* where main() is in app_main(), and the length it has loaded
  bus,        \* the frame on the bus: what it is, its bytes still to come, whether those
              \* before were received as they were sent, and their line not torn either
  frames,     \* how many frames have been begun
  faults,     \* counts disturbances
  line,       \* _frame of the Pi: the characters of the line so far
  accepted,   \* history: buffers of the frames the Pi has accepted
  sound,      \* history: payloads of the frames that were not disturbed
  raced       \* history: main() has stored a length that was out of date

firmware == <<uart0_out, gateway, timer1, main>>
vars == <<firmware, bus, frames, faults, line, accepted, sound, raced>>

-----------------------------------------------------------------------------
(* The frame on the bus *)

RtuFrame(payload) ==
  payload \o CrcBytes(FoldLeft(app_updateModbusCrc, CrcStart, payload))

Received(b) == Len(RtuFrame(b.payload)) - Len(b.left)

\* The frame whose next byte may come now, as bus would hold it, if any.
Sending ==
  IF bus.left # <<>> THEN {bus}
  ELSE IF frames = Len(Payloads) \/ (timer1 /\ "early" \notin Faults) THEN {}
  ELSE LET p == Payloads[frames + 1]
       IN  { [payload |-> p, left |-> RtuFrame(p), heard |-> ~timer1, whole |-> ~timer1] }

\* b after its next byte, which was received as it was sent or was not.
Took(b, well) ==
  /\ bus' = [b EXCEPT !.left = Tail(@), !.heard = @ /\ well, !.whole = @ /\ well]
  /\ frames' = IF bus.left = <<>> THEN frames + 1 ELSE frames

Disturb(fault) ==
  /\ fault \in Faults
  /\ faults < MaxFaults
  /\ faults' = faults + 1

\* main() takes a character from the ring every 87 us and a byte takes 1 ms,
\* so the ring has room for what the handlers write.
Room(n) == Unread(uart0_out) + n < W

-----------------------------------------------------------------------------
(* Interrupt handlers *)

Init ==
  /\ uart0_out = EmptyRing
  /\ gateway = [lastModbusByte |-> <<0, 0>>, modbusByteCnt |-> 0, lrc |-> 0, crc |-> {}]
  /\ timer1 = TRUE
  /\ main = [at |-> "test", loaded |-> 0]
  /\ bus = [payload |-> <<>>, left |-> <<>>, heard |-> FALSE, whole |-> FALSE]
  /\ frames = 0 /\ faults = 0
  /\ line = <<>>
  /\ accepted = <<>> /\ sound = <<>>
  /\ raced = FALSE

\* app_handleUart1Byte() of a byte without error, up to its sei() ...
StartedWithLrc(g, newFrame) ==
  IF newFrame THEN [g EXCEPT !.crc = CrcStart, !.modbusByteCnt = 0] ELSE g
Started(g, newFrame) ==
  IF newFrame THEN [g EXCEPT !.lrc = 0, !.crc = CrcStart, !.modbusByteCnt = 0] ELSE g
Counted(g) == [g EXCEPT !.modbusByteCnt = IF @ < 255 THEN @ + 1 ELSE @]
Forwards(g) == g.modbusByteCnt > 2
SummedWide(g) ==
  IF Forwards(g) THEN [g EXCEPT !.lrc = @ + g.lastModbusByte[2]] ELSE g
Summed(g) ==
  IF Forwards(g) THEN [g EXCEPT !.lrc = (@ + g.lastModbusByte[2]) % 256] ELSE g
BeforeSei(newFrame) == Summed(Counted(Started(gateway, newFrame)))
ByteLine(newFrame) ==
  (IF newFrame THEN <<Colon>> ELSE <<>>)
    \o (IF Forwards(BeforeSei(newFrame)) THEN ByteText(gateway.lastModbusByte[2]) ELSE <<>>)

\* ... and the rest of it.
Shifted(g, data) ==
  [g EXCEPT !.lastModbusByte = <<data, g.lastModbusByte[1]>>,
            !.crc = app_updateModbusCrc(@, data)]

\* app_handleUart1Timeout()
EndLrcGood(g) == (256 - g.lrc) % 256
EndLrc(g) == IF g.crc = {} THEN (256 - g.lrc) % 256 ELSE 255 - g.lrc
EndLine(g) == (IF g.modbusByteCnt > 0 THEN ByteText(EndLrc(g)) ELSE <<>>) \o <<CR, LF>>

\* ISR (USART1_RX_vect) without and with a UART error.
ByteReceived(data) ==
  LET newFrame == ~timer1
  IN  /\ Room(3)
      /\ uart0_out' = app_ringBuffer_writeString(uart0_out, ByteLine(newFrame))
      /\ gateway' = Shifted(BeforeSei(newFrame), data)
      /\ timer1' = TRUE
      /\ UNCHANGED <<main, line, accepted, sound, raced>>

ErrorReceived ==
  /\ timer1' = TRUE
  /\ UNCHANGED <<uart0_out, gateway, main, line, accepted, sound, raced>>

BusByte ==
  \E b \in Sending : ByteReceived(Head(b.left)) /\ Took(b, TRUE) /\ UNCHANGED faults

GarbledByte ==
  \E b \in Sending, data \in Garble :
    /\ Disturb("garbled")
    /\ data # Head(b.left)
    /\ ByteReceived(data)
    /\ Took(b, FALSE)

BadByte ==
  \E b \in Sending : Disturb("badByte") /\ ErrorReceived /\ Took(b, FALSE)

NoiseByte ==
  /\ Disturb("noise")
  /\ bus.left = <<>> /\ ~timer1
  /\ \E data \in Garble : ByteReceived(data)
  /\ UNCHANGED <<bus, frames>>

\* The byte ends after timer 1 has run out and before its handler runs: TCNT1
\* makes it a new frame, and the handler runs at the sei() in between.
LateByte ==
  \E b \in Sending :
    /\ Disturb("late")
    /\ timer1 /\ Room(7)
    /\ uart0_out' = app_ringBuffer_writeString(uart0_out,
                      ByteLine(TRUE) \o EndLine(BeforeSei(TRUE)))
    /\ gateway' = Shifted(BeforeSei(TRUE), Head(b.left))
    /\ timer1' = FALSE
    /\ Took(b, FALSE)
    /\ UNCHANGED <<main, line, accepted, sound, raced>>

\* ISR (TIMER1_COMPA_vect)
TimedOut ==
  /\ timer1 /\ Room(4)
  /\ timer1' = FALSE
  /\ uart0_out' = app_ringBuffer_writeString(uart0_out, EndLine(gateway))
  /\ UNCHANGED <<gateway, main, frames, line, accepted, raced>>

FrameEnds ==
  /\ bus.left = <<>>
  /\ TimedOut
  /\ sound' = IF bus.whole THEN Append(sound, bus.payload) ELSE sound
  /\ bus' = [bus EXCEPT !.heard = FALSE, !.whole = FALSE]
  /\ UNCHANGED faults

FramePauses ==
  /\ bus.left # <<>>
  /\ Disturb("gap")
  /\ TimedOut
  /\ bus' = [bus EXCEPT !.heard = FALSE, !.whole = FALSE]
  /\ UNCHANGED sound

\* app_handleUart0Byte() at the end of a line with a wrong LRC
RefusalLine == <<Colon>> \o ByteText(0) \o ByteText(128) \o ByteText(1) \o ByteText(126)
                 \o <<CR, LF>>
Refuse ==
  /\ Disturb("refusal")
  /\ Room(Len(RefusalLine))
  /\ uart0_out' = app_ringBuffer_writeString(uart0_out, RefusalLine)
  /\ bus' = [bus EXCEPT !.whole = FALSE]
  /\ UNCHANGED <<gateway, timer1, main, frames, line, accepted, sound, raced>>

-----------------------------------------------------------------------------
(* app_main() *)

Test ==
  /\ main.at = "test" /\ uart0_out.length > 0
  /\ main' = [at |-> "read", loaded |-> uart0_out.length]
  /\ UNCHANGED <<uart0_out, gateway, timer1, bus, frames, faults, line, accepted,
                 sound, raced>>

\* UDR0 is empty.  app is not volatile: the compiler may keep the length of
\* the test or load it again.
Load ==
  /\ main.at = "read"
  /\ \E n \in {main.loaded, uart0_out.length} : main' = [at |-> "store", loaded |-> n]
  /\ UNCHANGED <<uart0_out, gateway, timer1, bus, frames, faults, line, accepted,
                 sound, raced>>

\* The character reaches handleOnSerialData() of the Pi.
PiReads(c) ==
  LET text == IF c = Colon THEN <<c>> ELSE Append(line, c)
  IN  IF c = LF
      THEN /\ line' = <<>>
           /\ accepted' = IF Legal(text) /\ LrcOk(text)
                          THEN Append(accepted, BufferOf(text)) ELSE accepted
      ELSE line' = text /\ UNCHANGED accepted

Store ==
  /\ main.at = "store"
  /\ main' = [at |-> "test", loaded |-> 0]
  /\ uart0_out' = ReadStore(uart0_out, main.loaded)
  /\ PiReads(NextChar(uart0_out))
  /\ raced' = (raced \/ main.loaded # uart0_out.length)
  /\ UNCHANGED <<gateway, timer1, bus, frames, faults, sound>>

-----------------------------------------------------------------------------
Next ==
  \/ BusByte \/ GarbledByte \/ BadByte \/ NoiseByte \/ LateByte
  \/ FrameEnds \/ FramePauses \/ Refuse
  \/ Test \/ Load \/ Store

\* main() never stops, a sender finishes its frame, and timer 1 runs out.
Fairness ==
  /\ WF_vars(Test) /\ WF_vars(Load) /\ WF_vars(Store)
  /\ WF_vars(bus.left # <<>> /\ BusByte)
  /\ WF_vars(FrameEnds)

Safety == Init /\ [][Next]_vars
Spec == Safety /\ Fairness
-----------------------------------------------------------------------------
(* Properties *)

\* Every variable keeps its type.
TypeOK ==
  /\ uart0_out \in RingOf(Byte)
  /\ gateway \in [lastModbusByte : Byte \X Byte, modbusByteCnt : Byte, lrc : Byte,
                  crc : Word]
  /\ timer1 \in BOOLEAN
  /\ main \in [at : {"test", "read", "store"}, loaded : Index]
  /\ bus \in [payload : Seq(Byte), left : Seq(Byte), heard : BOOLEAN, whole : BOOLEAN]
  /\ frames \in 0 .. Len(Payloads) /\ faults \in Nat
  /\ line \in Seq(Byte)
  /\ accepted \in Seq(Seq(Byte)) /\ sound \in Seq(Seq(Byte))
  /\ raced \in BOOLEAN

\* app_ringBuffer_read() never takes a character that has not been written,
\* whatever the race for length did to it; and as long as no handler ran
\* between its load and its store, length counts what is unread.
LengthCounts ==
  /\ uart0_out.length <= Unread(uart0_out)
  /\ ~raced => uart0_out.length = Unread(uart0_out)

\* The Pi accepts only frames that crossed the bus undisturbed, in their order
\* and not twice: the firmware answers a CRC error with a wrong LRC, and no cut,
\* merged or interleaved line has a right one.
AcceptedIsSound ==
  \E place \in [DOMAIN accepted -> DOMAIN sound] :
    /\ \A i, j \in DOMAIN accepted : i < j => place[i] < place[j]
    /\ \A i \in DOMAIN accepted : accepted[i] = sound[place[i]]

\* Unless the length of the ring was corrupted, the Pi ends up with every frame
\* that was not disturbed, whatever happened to the frames around it.
Delivered == <>[](raced \/ accepted = sound)

\* "shift bytes by 2, because CRC (2 bytes) must be replayce by LRC on end"
\* (app.c:281): what is forwarded while a frame is received was received in
\* that frame, at least two bytes before.
HoldsBackTwo ==
  [][ gateway'.lastModbusByte # gateway.lastModbusByte /\ Forwards(gateway')
        => Received(bus') > 2 ]_vars

\* Where the silence after a frame ends what was received, and that is not the frame
\* on the bus and nothing else, its CRC is not 0: app_handleUart1Timeout() has no other
\* way to tell.
CrcDetects ==
  [][ TimedOut /\ ~(bus.heard /\ bus.left = <<>>) /\ gateway.modbusByteCnt >= 4
        => gateway.crc # {} ]_vars
=============================================================================
