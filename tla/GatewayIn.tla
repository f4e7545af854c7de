----------------------------- MODULE GatewayIn -----------------------------
(***************************************************************************)
(* The direction Raspberry Pi -> bus of the gateway firmware: characters   *)
(* of Modbus ASCII lines come in through USART0, the bytes of the frame    *)
(* collect in the ring buffer uart0_in with the CRC in place of the LRC,   *)
(* and app_main() sends them through USART1 with the line driver (DE) on.  *)
(*                                                                         *)
(* The interrupt handler is one action, app_main() runs in steps.          *)
(***************************************************************************)
EXTENDS RingBuffer, ModbusCrc, AsciiFrame

CONSTANTS
  Lines,      \* the lines the Pi sends, one after the other
  Garble,     \* what a disturbed character may become
  MaxFaults,  \* bound: disturbances
  Faults      \* the disturbances that may happen

FaultKinds ==
  { "lost",     \* a character is lost between the Pi and the gateway
    "garbled",  \* a character is received as another one
    "empty",    \* only the first and the last two characters arrive
    "overlap"   \* the Pi sends while the gateway is still sending
  }

ASSUME FaultsAssumption == Faults \subseteq FaultKinds
ASSUME BytesAssumption == Lines \in Seq(Seq(Byte)) /\ Garble \subseteq Byte
ASSUME LinesAssumption == \A i \in DOMAIN Lines : Legal(Lines[i]) /\ LrcOk(Lines[i])

VARIABLES
  uart0_in,     \* app.uart0_in
  sendRequest,  \* app.sendRequest # 0
  rx,           \* the static variables of app_handleUart0Byte()
  underflow,    \* history: the byte before the buffer of uart0_in was written
  refusals,     \* how often ":0080017E" was written to uart0_out
  main,         \* where main() is in app_main(), and what it has loaded
  driver,       \* DE1: the gateway drives the bus
  uart1,        \* bytes in the transmitter: being shifted out, waiting in UDR1
  txComplete,   \* TXC1
  input,        \* characters of the current line still to come
  lines,        \* how many lines have been begun
  faults,       \* counts disturbances
  overlapped,   \* history: the Pi began a line while the gateway was sending
  wanted,       \* history: RTU frames of the lines that arrived as they were sent
  bytesOut,     \* history: bytes shifted out since the driver was switched on
  framesOut     \* history: what was shifted out each time the driver was on

received == <<uart0_in, sendRequest, rx, refusals, underflow>>
sending == <<main, driver, uart1, txComplete>>
environment == <<input, lines, faults, overlapped, wanted>>
busHistory == <<bytesOut, framesOut>>
vars == <<received, sending, environment, busHistory>>

Init ==
  /\ uart0_in = EmptyRing
  /\ sendRequest = FALSE
  /\ rx = [frameActive |-> FALSE, frameEnd |-> FALSE, cnt |-> 0, lrc |-> 0,
           lastData |-> 0, lastByte |-> 0, crc |-> {}]
  /\ refusals = 0 /\ underflow = FALSE
  /\ main = [at |-> "top", length |-> 0, index |-> 0, byte |-> 0]
  /\ driver = FALSE
  /\ uart1 = <<>> /\ txComplete = FALSE
  /\ input = <<>> /\ lines = 0 /\ faults = 0 /\ overlapped = FALSE
  /\ wanted = <<>> /\ bytesOut = <<>> /\ framesOut = <<>>

-----------------------------------------------------------------------------
(* The Pi sends lines *)

Rtu(bytes) == bytes \o CrcBytes(FoldLeft(app_updateModbusCrc, CrcStart, bytes))

\* The Pi waits for the answer, or longer than the gateway takes to send, before
\* it writes the next line; after a restart it writes at any moment.  A bound:
\* lines overlap or arrive damaged, not both in one behaviour.
Silent == ~sendRequest /\ ~driver

ArrivesWhole(line) ==
  /\ input' = line
  /\ wanted' = Append(wanted, Rtu(BufferOf(line)))
  /\ UNCHANGED faults

ArrivesDamaged(line) ==
  /\ Silent /\ ~overlapped
  /\ faults < MaxFaults
  /\ faults' = faults + 1
  /\ \/ /\ "lost" \in Faults
        /\ \E i \in DOMAIN line : input' = RemoveAt(line, i)
     \/ /\ "garbled" \in Faults
        /\ \E i \in DOMAIN line, c \in Garble :
             c # line[i] /\ input' = [line EXCEPT ![i] = c]
  /\ UNCHANGED wanted

ArrivesEmpty ==
  /\ "empty" \in Faults
  /\ input' = <<Colon, CR, LF>>
  /\ UNCHANGED <<faults, wanted>>

PiSends ==
  /\ input = <<>> /\ lines < Len(Lines)
  /\ Silent \/ ("overlap" \in Faults /\ faults = 0)
  /\ lines' = lines + 1
  /\ overlapped' = (overlapped \/ ~Silent)
  /\ LET line == Lines[lines + 1]
     IN  ArrivesWhole(line) \/ ArrivesDamaged(line) \/ ArrivesEmpty
  /\ UNCHANGED <<received, sending, busHistory>>

-----------------------------------------------------------------------------
(* ISR (USART0_RX_vect) and app_handleUart0Byte() *)

Character(c) ==
  /\ input # <<>> /\ c = Head(input)
  /\ input' = Tail(input)
  /\ UNCHANGED <<lines, faults, overlapped, wanted, sending, busHistory>>

StartKeepsEnd ==
  /\ Character(Colon)
  /\ rx' = [rx EXCEPT !.frameActive = TRUE, !.cnt = 0, !.lrc = 0, !.crc = CrcStart]
  /\ uart0_in' = app_ringBuffer_clear(uart0_in)
  /\ UNCHANGED <<sendRequest, refusals, underflow>>
StartOfFrame ==
  /\ Character(Colon)
  /\ rx' = [rx EXCEPT !.frameActive = TRUE, !.frameEnd = FALSE, !.cnt = 0, !.lrc = 0,
                      !.crc = CrcStart]
  /\ uart0_in' = app_ringBuffer_clear(uart0_in)
  /\ UNCHANGED <<sendRequest, refusals, underflow>>

\* Missing start of frame, or something else than LF after CR.
Skipped ==
  \E c \in Byte \ {Colon} :
    /\ Character(c)
    /\ ~rx.frameActive \/ (rx.frameEnd /\ c # LF)
    /\ UNCHANGED received

EndWithoutLrc ==
  /\ Character(LF)
  /\ rx.frameActive /\ rx.frameEnd
  /\ rx' = [rx EXCEPT !.frameActive = FALSE]
  /\ sendRequest' = TRUE
  /\ UNCHANGED <<uart0_in, refusals, underflow>>
EndOfFrame ==
  /\ Character(LF)
  /\ rx.frameActive /\ rx.frameEnd
  /\ rx' = [rx EXCEPT !.frameActive = FALSE]
  /\ \/ rx.lrc # 0 /\ refusals' = refusals + 1 /\ UNCHANGED sendRequest
     \/ rx.lrc = 0 /\ sendRequest' = TRUE /\ UNCHANGED refusals
  /\ UNCHANGED <<uart0_in, underflow>>

InFrame == rx.frameActive /\ ~rx.frameEnd
Counted(r) == [r EXCEPT !.cnt = (@ + 1) % 256]

FirstDigit ==
  \E c \in Digits :
    /\ InFrame /\ rx.cnt % 2 = 0
    /\ Character(c)
    /\ rx' = Counted([rx EXCEPT !.lastData = DigitValue(c)])
    /\ UNCHANGED <<uart0_in, sendRequest, refusals, underflow>>

\* The CRC lags one byte behind: it leaves out the last byte, the LRC.
SecondDigit ==
  \E c \in Digits :
    LET b == rx.lastData * 16 + DigitValue(c)
    IN  /\ InFrame /\ rx.cnt % 2 = 1
        /\ Character(c)
        /\ rx' = Counted([rx EXCEPT
                   !.lrc = (@ + b) % 256,
                   !.lastByte = b,
                   !.crc = IF rx.cnt > 1 THEN app_updateModbusCrc(@, rx.lastByte) ELSE @])
        /\ uart0_in' = app_ringBuffer_writeString(uart0_in, <<b>>)
        /\ UNCHANGED <<sendRequest, refusals, underflow>>

\* The CRC takes the place of the LRC.  In an empty frame of a cleared ring the
\* byte before the buffer is replaced: that is sendRequest (struct App).
CarriageReturn ==
  LET crc == CrcBytes(rx.crc)
      before == uart0_in.wIndex = 0
      replaced == IF before THEN uart0_in
                  ELSE [uart0_in EXCEPT !.buffer[uart0_in.wIndex - 1] = crc[1]]
  IN  /\ InFrame /\ rx.cnt % 2 = 0
      /\ Character(CR)
      /\ rx' = Counted([rx EXCEPT !.frameEnd = TRUE])
      /\ uart0_in' = app_ringBuffer_writeString(replaced, <<crc[2]>>)
      /\ sendRequest' = IF before THEN crc[1] # 0 ELSE sendRequest
      /\ underflow' = (underflow \/ before)
      /\ UNCHANGED refusals

\* CR between two digits, or a character that does not belong in a frame.
FrameBroken ==
  \E c \in Byte \ (Digits \cup {Colon}) :
    /\ InFrame /\ (c = CR => rx.cnt % 2 = 1)
    /\ Character(c)
    /\ rx' = Counted([rx EXCEPT !.frameActive = FALSE])
    /\ UNCHANGED <<uart0_in, sendRequest, refusals, underflow>>

-----------------------------------------------------------------------------
(* app_main(), the part that sends *)

Goto(from, to) == main.at = from /\ main' = [main EXCEPT !.at = to]

\* sendRequest is tested, then the length.
Poll ==
  /\ sendRequest
  /\ main.at = "top"
  /\ main' = [main EXCEPT !.at = IF uart0_in.length = 0 THEN "complete" ELSE "drive",
                          !.length = uart0_in.length]
  /\ UNCHANGED <<received, driver, uart1, txComplete, environment, busHistory>>

\* Nothing left: TXC1 is tested, sendRequest cleared, the driver switched off.
TestComplete ==
  /\ Goto("complete", IF txComplete THEN "clear" ELSE "top")
  /\ UNCHANGED <<received, driver, uart1, txComplete, environment, busHistory>>

ClearRequest ==
  /\ Goto("clear", "release")
  /\ sendRequest' = FALSE
  /\ UNCHANGED <<uart0_in, rx, refusals, underflow, driver, uart1, txComplete,
                 environment, busHistory>>

ReleaseKeeps ==
  /\ Goto("release", "top")
  /\ bytesOut' = <<>>
  /\ framesOut' = IF bytesOut = <<>> THEN framesOut ELSE Append(framesOut, bytesOut)
  /\ UNCHANGED <<received, driver, uart1, txComplete, environment>>
Release ==
  /\ Goto("release", "top")
  /\ driver' = FALSE
  /\ bytesOut' = <<>>
  /\ framesOut' = IF bytesOut = <<>> THEN framesOut ELSE Append(framesOut, bytesOut)
  /\ UNCHANGED <<received, uart1, txComplete, environment>>

\* A byte is left: the driver is switched on, and UDR1 must be empty.
Drive ==
  /\ Goto("drive", "ready")
  /\ driver' = TRUE
  /\ UNCHANGED <<received, uart1, txComplete, environment, busHistory>>

TestReadyNot ==
  /\ Goto("ready", "load")
  /\ UNCHANGED <<received, driver, uart1, txComplete, environment, busHistory>>
TestReady ==
  /\ Goto("ready", IF Len(uart1) < 2 THEN "load" ELSE "top")
  /\ UNCHANGED <<received, driver, uart1, txComplete, environment, busHistory>>

\* app_ringBuffer_read() takes the length of Poll or loads it again (app is not
\* volatile), stores it less one, and takes the byte at rIndex++; a length of 0
\* makes it return 0.
Load ==
  /\ main.at = "load"
  /\ \E n \in {main.length, uart0_in.length} :
       main' = [main EXCEPT !.at = IF n > 0 THEN "store" ELSE "transmit",
                            !.length = n, !.byte = 0]
  /\ UNCHANGED <<received, driver, uart1, txComplete, environment, busHistory>>

StoreLength ==
  /\ Goto("store", "index")
  /\ uart0_in' = [uart0_in EXCEPT !.length = main.length - 1]
  /\ UNCHANGED <<sendRequest, rx, refusals, underflow, driver, uart1, txComplete,
                 environment, busHistory>>

LoadIndex ==
  /\ main.at = "index"
  /\ main' = [main EXCEPT !.at = "take", !.index = uart0_in.rIndex]
  /\ UNCHANGED <<received, driver, uart1, txComplete, environment, busHistory>>

TakeByte ==
  /\ main.at = "take"
  /\ main' = [main EXCEPT !.at = "transmit", !.byte = uart0_in.buffer[main.index]]
  /\ uart0_in' = [uart0_in EXCEPT !.rIndex = Wrap(main.index + 1)]
  /\ UNCHANGED <<sendRequest, rx, refusals, underflow, driver, uart1, txComplete,
                 environment, busHistory>>

TransmitKeepsTxc ==
  /\ Goto("transmit", "top")
  /\ uart1' = Append(uart1, main.byte)
  /\ UNCHANGED <<received, driver, txComplete, environment, busHistory>>

\* UDR1 = x, and a one written to TXC1 clears it.
Transmit ==
  /\ Goto("transmit", "top")
  /\ uart1' = Append(uart1, main.byte)
  /\ txComplete' = FALSE
  /\ UNCHANGED <<received, driver, environment, busHistory>>

\* USART1 has shifted out a byte and takes the next one from UDR1, if any.  The
\* byte is lost when the driver is off.
ShiftedOut ==
  /\ uart1 # <<>>
  /\ uart1' = Tail(uart1)
  /\ txComplete' = (txComplete \/ Len(uart1) = 1)
  /\ bytesOut' = IF driver THEN Append(bytesOut, Head(uart1)) ELSE bytesOut
  /\ UNCHANGED <<received, main, driver, environment, framesOut>>

-----------------------------------------------------------------------------
Receive ==
  \/ StartOfFrame \/ Skipped \/ EndOfFrame \/ FirstDigit \/ SecondDigit
  \/ CarriageReturn \/ FrameBroken

AppMain ==
  \/ Poll \/ TestComplete \/ ClearRequest \/ Release
  \/ Drive \/ TestReady \/ Load \/ StoreLength \/ LoadIndex \/ TakeByte \/ Transmit

Next == PiSends \/ Receive \/ AppMain \/ ShiftedOut

\* main() never stops, the transmitter shifts, and a line that has begun ends.
Fairness == WF_vars(AppMain) /\ WF_vars(ShiftedOut) /\ WF_vars(Receive)

Safety == Init /\ [][Next]_vars
Spec == Safety /\ Fairness /\ WF_vars(PiSends)

-----------------------------------------------------------------------------
(* Properties *)

\* Every variable keeps its type.
TypeOK ==
  /\ uart0_in \in RingOf(Byte)
  /\ sendRequest \in BOOLEAN
  /\ rx \in [frameActive : BOOLEAN, frameEnd : BOOLEAN, cnt : Byte, lrc : Byte,
             lastData : 0 .. 15, lastByte : Byte, crc : Word]
  /\ refusals \in Nat /\ underflow \in BOOLEAN
  /\ main \in [at : {"top", "complete", "clear", "release", "drive", "ready", "load",
                     "store", "index", "take", "transmit"},
               length : Index, index : Index, byte : Byte]
  /\ driver \in BOOLEAN /\ txComplete \in BOOLEAN
  /\ uart1 \in Seq(Byte) /\ Len(uart1) <= 2
  /\ input \in Seq(Byte)
  /\ lines \in 0 .. Len(Lines) /\ faults \in Nat /\ overlapped \in BOOLEAN
  /\ wanted \in Seq(Seq(Byte))
  /\ bytesOut \in Seq(Byte) /\ framesOut \in Seq(Seq(Byte))

\* As long as a byte is on its way through USART1 the line driver is on: the
\* order of the tests, of TXC1 and of DE in app_main() never cuts a frame short,
\* whatever the Pi sends meanwhile.
DriverCovers == uart1 # <<>> => driver

\* The bus carries nothing but the frames of the lines that arrived undamaged,
\* complete, in their order, each with its CRC - unless CR came right after the
\* colon, which starts a transmission without a frame, or the Pi did not wait.
OnlyWanted ==
  \/ underflow \/ overlapped
  \/ /\ IsPrefix(framesOut, wanted)
     /\ bytesOut # <<>> => /\ Len(framesOut) < Len(wanted)
                           /\ IsPrefix(bytesOut, wanted[Len(framesOut) + 1])

\* What OnlyWanted rests on.  One character is disturbed: a line whose LF is lost and a next one whose colon is
\* lost put together a frame, which is sent late.
OneFault == MaxFaults \in 0 .. 1

\* The frame fits into the ring, and its digits can be counted in a byte: app_ringBuffer
\* does not refuse what does not fit.
LinesFit == \A i \in DOMAIN Lines : Len(Lines[i]) <= 257 /\ (Len(Lines[i]) - 1) \div 2 < W

\* A character that turns into a colon or a CR leaves a shorter frame, whose sum is right
\* when the bytes before it, and so those after it, add up to 0.
NoShortFrame ==
  Garble \cap {Colon, CR} # {} =>
    \A i \in DOMAIN Lines : NoPrefixSum(BufferWithLrc(Lines[i]))

\* Every line that arrives undamaged is sent, and then the gateway listens again.
AllSent == <>[](overlapped \/ ((underflow \/ framesOut = wanted) /\ Silent))

\* However the Pi's lines overlap with sending, the driver does not stay on.
Released == []<>~driver
=============================================================================
