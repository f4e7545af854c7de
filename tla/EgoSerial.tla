----------------------------- MODULE EgoSerial -----------------------------
(***************************************************************************)
(* The server of egoHeater: doStartup() writes one request after the other *)
(* and waits for each answer; its ModbusSerial has no queue and no timer,  *)
(* and takes the second frame that follows a request for the answer.       *)
(*                                                                         *)
(* The gateway sends two lines for a request, the echo from the bus and    *)
(* the answer of the heater. A line is a sequence of pieces; the line may  *)
(* be lost, or one piece of it may be lost or become another one.          *)
(***************************************************************************)
EXTENDS Naturals, SequencesExt

CONSTANTS
  Once,      \* the number of requests doStartup() writes once
  Delayed    \* those of them, and of the one it repeats, that a delay follows

ASSUME RequestsAssumption == Once \in Nat /\ Delayed \subseteq 1 .. (Once + 1)

Repeated == Once + 1     \* the request that is repeated for half an hour

VARIABLES
  request,    \* the request doStartup() is waiting for, or has waited for
  pc,         \* "write", "delay" or "done"
  pending,    \* there is a _writePromise
  frame,      \* _frame; no piece stands for null
  received,   \* _receivedFrames
  line,       \* the pieces on their way to the server
  answer,     \* what the last write() resolved with
  damaged     \* a line has been lost or damaged

egoVars == << request, pc, pending, frame, received, line, answer, damaged >>

-----------------------------------------------------------------------------
Kinds == { "colon", "text", "lf", "end" }     \* "end" is CR and LF

\* A piece is ok unless it leaves characters in the line that no frame has, or an odd
\* number of digits.
Piece(kind, ok, of) == [kind |-> kind, ok |-> ok, of |-> of]
SoundLine(of) ==
  << Piece("colon", TRUE, of), Piece("text", TRUE, of), Piece("text", TRUE, of),
     Piece("end", TRUE, of) >>

Arrives(of) ==
  LET sent == SoundLine(of)
  IN  { sent, <<>> }
        \cup { RemoveAt(sent, i) : i \in DOMAIN sent }
        \cup { ReplaceAt(sent, i, Piece(kind, ok, of)) :
                 i \in DOMAIN sent, kind \in Kinds \ { "end" }, ok \in BOOLEAN }

\* new ModbusAsciiFrame(text) does not throw. The LRC is looked at and not obeyed.
IsFrame(text) ==
  /\ Len(text) >= 3 /\ text[1].kind = "colon" /\ text[Len(text)].kind = "end"
  /\ \A i \in DOMAIN text : text[i].ok

-----------------------------------------------------------------------------
EgoInit ==
  /\ request = 0 /\ pc = "delay" /\ pending = FALSE
  /\ frame = <<>> /\ received = <<>> /\ line = <<>> /\ answer = <<>>
  /\ damaged = FALSE

\* write(): the request reaches the gateway, and what comes of it comes in order,
\* after the rest of what is on its way.
Write(r, rest) ==
  /\ request' = r /\ pc' = "write" /\ pending' = TRUE
  /\ \E echo \in Arrives(<< r, "echo" >>), response \in Arrives(<< r, "response" >>) :
       /\ line' = rest \o echo \o response
       /\ damaged' = (damaged \/ << echo, response >> #
                        << SoundLine(<< r, "echo" >>), SoundLine(<< r, "response" >>) >>)

Following == IF request = Repeated THEN Repeated ELSE request + 1

\* A delay ends, or the loop after half an hour.
DelayEnds ==
  /\ pc = "delay"
  /\ \/ Write(Following, line) /\ UNCHANGED << frame, received, answer >>
     \/ /\ request = Repeated /\ pc' = "done"
        /\ UNCHANGED << request, pending, frame, received, line, answer, damaged >>

\* Mutant: the first frame is the answer.
PushedFirst(s, f) ==
  [s EXCEPT !.answer = f, !.pending = FALSE, !.received = <<>>]

\* Mutant: the frames of a request are kept.
PushedKeeps(s, f) ==
  IF Len(s.received) = 1 /\ s.pending
  THEN [s EXCEPT !.answer = f, !.pending = FALSE, !.received = Append(@, f)]
  ELSE [s EXCEPT !.received = Append(@, f)]

\* A frame is kept; the second one resolves the promise.
Pushed(s, f) ==
  IF Len(s.received) = 1 /\ s.pending
  THEN [s EXCEPT !.answer = f, !.pending = FALSE, !.received = <<>>]
  ELSE [s EXCEPT !.received = Append(@, f)]

\* One round of the loop in handleOnSerialData().
Taken(s, piece) ==
  LET text == Append(s.frame, piece)
  IN  CASE piece.kind = "colon" -> [s EXCEPT !.frame = << piece >>]
        [] piece.kind = "text"  -> [s EXCEPT !.frame = text]
        [] OTHER -> [(IF IsFrame(text) THEN Pushed(s, text) ELSE s) EXCEPT !.frame = <<>>]

\* A data event of any length. A promise that is resolved lets doStartup() go on when
\* the handler has returned; bytes that come without one are dropped.
DataEvent ==
  \E n \in 1 .. Len(line) :
    LET old == [frame |-> frame, received |-> received, pending |-> pending, answer |-> answer]
        new == IF pending THEN FoldLeft(Taken, old, SubSeq(line, 1, n)) ELSE old
    IN  /\ frame' = new.frame /\ received' = new.received /\ answer' = new.answer
        /\ IF pending /\ ~new.pending /\ request \notin Delayed
           THEN Write(Following, SubSeq(line, n + 1, Len(line)))
           ELSE /\ line' = SubSeq(line, n + 1, Len(line)) /\ pending' = new.pending
                /\ pc' = IF pending /\ ~new.pending THEN "delay" ELSE pc
                /\ UNCHANGED << request, damaged >>

EgoNext == DelayEnds \/ DataEvent

EgoSpec == EgoInit /\ [][EgoNext]_egoVars /\ WF_egoVars(DelayEnds) /\ WF_egoVars(DataEvent)

-----------------------------------------------------------------------------
\* A write never resolves with another frame than the one that ends the answer to its
\* request, although frames are only counted: damage never makes two frames of a line,
\* and what a request leaves behind does not count for the next one.
AnswerBelongs ==
  [][answer' # answer => answer'[Len(answer')].of = << request, "response" >>
                          /\ answer'[1].of = << request, "response" >>]_egoVars

\* As long as the line is sound, every write resolves, and the requests go on until the
\* loop has ended. After any damage write() may wait for ever: there is no timer.
KeepsAsking == <>damaged \/ [](pending => <>(~pending))
=============================================================================
