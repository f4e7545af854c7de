---------------------------- MODULE ModbusSerial ----------------------------
(***************************************************************************)
(* The request queue of the Raspberry Pi server (class ModbusSerial) with  *)
(* the state of the request objects it works on (class ModbusRequest), and *)
(* the gateway, the slave and the serial line as its environment.          *)
(*                                                                         *)
(* Node runs one callback at a time.  A callback is one action, except for *)
(* handleOnSerialData: it runs once per frame of the data event, and until *)
(* chunk is empty again nothing else runs.  write() asks the port in       *)
(* process.nextTick, that is at the end of the running callback: nobody    *)
(* can see the difference, so the request is issued in the same action.    *)
(***************************************************************************)
EXTENDS Naturals, Sequences, FiniteSets

CONSTANTS
  Requests,   \* the request objects handed to send(), each one once
  Content,    \* Content[r]: the bytes of r's frame; two requests may be equal
  MaxOpen,    \* how many unsettled requests the callers may have at a time
  MaxChunk,   \* bound: complete frames in one data event
  NoFrame,    \* no response yet
  Faults      \* what the environment does beyond losing requests and answers

FaultKinds ==
  { "lateCallback",  \* data and timers overtake the callback of a write
    "slowLine",      \* frames are delivered after the timer of their request
    "slowSlave",     \* the slave answers after the timer of the request
    "splitFrames",   \* a data event ends in the middle of a frame
    "portErrors",    \* the port does not open, or a write fails
    "noise",         \* frames arrive damaged, or the gateway refuses a request
    "mixedTimeouts"  \* callers choose different values of timeoutMillis
  }

ASSUME FaultsAssumption == Faults \subseteq FaultKinds
ASSUME BoundsAssumption == MaxOpen \in Nat /\ MaxChunk \in Nat

VARIABLES
  port,         \* _serialPort, _openPromise: "none", "opening", "open", "failed"
  pending,      \* _pending
  tickets,      \* history: number of accepted calls of send()
  ticket,       \* history: place of a request in the order of these calls
  queued,       \* history: requests that were not first in _pending when sent
  promise,      \* the promise that send(r) returned
  timer,        \* requests whose IPendingRequest.timer is armed
  timerModbus,  \* requests whose IPendingRequest.timerModbus is armed
  write,        \* serialPort.write(r): "none", "issued", "done" (callback ran)
  echo,         \* requests whose requestReceived is set
  response,     \* response of the request, NoFrame if none
  error,        \* requests whose error is set
  line,         \* requests written and not yet taken by the gateway
  slave,        \* requests the slave may still answer
  wire,         \* frames sent by the gateway and not yet delivered
  begun,        \* the first part of Head(wire) has been delivered already
  frame,        \* _frame: "null", "start" of Head(wire), "stale" start of another
  chunk,        \* frames of the running data event not yet handled
  crashed       \* "no", or the exception that nobody catches

requestVars == <<promise, timer, timerModbus, echo, response, error>>
envVars == <<slave, wire, begun, frame>>
historyVars == <<tickets, ticket, queued>>
vars == <<port, pending, historyVars, requestVars, write, line, envVars, chunk,
          crashed>>

FrameKinds == {"echo", "answer", "refusal", "damaged", "garbled"}
Frame == [kind : FrameKinds, of : Requests, lrcOk : BOOLEAN]

\* Every byte of a frame the gateway sends is right, unless there is noise.
Sound(k, r) == [kind |-> k, of |-> r, lrcOk |-> TRUE]
DamagedSwapped(k, r) == [kind |-> r, of |-> k, lrcOk |-> FALSE]  \* mutant
Damaged(k, r) == [kind |-> k, of |-> r, lrcOk |-> FALSE]

\* The setter of requestReceived compares the bytes of the two frames.
SameKind(f, r) == f.kind = "echo"  \* mutant: only the form is compared
SameBytes(f, r) == f.kind = "echo" /\ Content[f.of] = Content[r]

Open == {r \in Requests : promise[r] = "open"}

-----------------------------------------------------------------------------

Init ==
  /\ port = "none"
  /\ pending = <<>>
  /\ tickets = 0
  /\ ticket = [r \in Requests |-> 0]
  /\ queued = {}
  /\ promise = [r \in Requests |-> "unsent"]
  /\ timer = {}
  /\ timerModbus = {}
  /\ write = [r \in Requests |-> "none"]
  /\ echo = {}
  /\ response = [r \in Requests |-> NoFrame]
  /\ error = {}
  /\ line = <<>>
  /\ slave = {}
  /\ wire = <<>>
  /\ begun = FALSE
  /\ frame = "null"
  /\ chunk = <<>>
  /\ crashed = "no"

\* A callback can start: the process lives and no data event is running.
Idle == crashed = "no" /\ chunk = <<>>

\* Nobody catches an exception of a timer or data callback: the process ends.
Crash(why) ==
  /\ crashed' = why
  /\ UNCHANGED <<port, pending, historyVars, requestVars, write, line, envVars,
                 chunk>>

\* write(): hand the first request of the queue q to the serial port; w and l
\* are write and line as the callback has left them.
WriteHead(q, w, l) ==
  IF q = <<>>
  THEN write' = w /\ line' = l
  ELSE /\ write' = [w EXCEPT ![Head(q)] = "issued"]
       /\ line' = IF port = "open" THEN Append(l, Head(q)) ELSE l

-----------------------------------------------------------------------------
(* Calls *)

OpenCall ==
  /\ Idle
  /\ port = "none"
  /\ port' = "opening"
  /\ UNCHANGED <<pending, historyVars, requestVars, write, line, envVars, chunk,
                 crashed>>

OpenDone ==
  /\ Idle
  /\ port = "opening"
  /\ port' \in IF "portErrors" \in Faults THEN {"open", "failed"} ELSE {"open"}
  /\ UNCHANGED <<pending, historyVars, requestVars, write, line, envVars, chunk,
                 crashed>>

\* send() checks only that open() is not running: a failed open() passes.
SendRefused(r) ==
  /\ Idle
  /\ promise[r] = "unsent"
  /\ port \in {"none", "opening"}
  /\ promise' = [promise EXCEPT ![r] = "refused"]
  /\ UNCHANGED <<port, pending, historyVars, timer, timerModbus, write, echo,
                 response, error, line, envVars, chunk, crashed>>

\* Mutant: the request is written even if another one is waiting for its answer.
SendWrites(r) ==
  /\ Idle
  /\ promise[r] = "unsent"
  /\ port \in {"open", "failed"}
  /\ Cardinality(Open) < MaxOpen
  /\ promise' = [promise EXCEPT ![r] = "open"]
  /\ timer' = timer \cup {r}
  /\ pending' = Append(pending, r)
  /\ WriteHead(<<r>>, write, line)
  /\ tickets' = tickets + 1
  /\ ticket' = [ticket EXCEPT ![r] = tickets + 1]
  /\ queued' = IF pending = <<>> THEN queued ELSE queued \cup {r}
  /\ UNCHANGED <<port, timerModbus, echo, response, error, envVars, chunk,
                 crashed>>

Send(r) ==
  /\ Idle
  /\ promise[r] = "unsent"
  /\ port \in {"open", "failed"}
  /\ Cardinality(Open) < MaxOpen
  /\ promise' = [promise EXCEPT ![r] = "open"]
  /\ timer' = timer \cup {r}
  /\ pending' = Append(pending, r)
  /\ IF pending = <<>> THEN WriteHead(<<r>>, write, line) ELSE UNCHANGED <<write, line>>
  /\ tickets' = tickets + 1
  /\ ticket' = [ticket EXCEPT ![r] = tickets + 1]
  /\ queued' = IF pending = <<>> THEN queued ELSE queued \cup {r}
  /\ UNCHANGED <<port, timerModbus, echo, response, error, envVars, chunk,
                 crashed>>

-----------------------------------------------------------------------------
(* Timers and the callback of a write *)

Rest == IF pending = <<>> THEN <<>> ELSE Tail(pending)

\* Mutants of handleError(): it forgets the timers, the promise or the queue.
HandleErrorBut(r, w, l, forgets) ==
  IF r \in error
  THEN Crash("errorSet")
  ELSE LET rest == IF forgets = "queue" THEN pending ELSE Rest IN
       /\ pending' = rest
       /\ error' = error \cup {r}
       /\ timer' = IF forgets = "timers" THEN timer ELSE timer \ {r}
       /\ timerModbus' = timerModbus \ {r}
       /\ promise' = IF forgets = "promise" THEN promise
                     ELSE [promise EXCEPT ![r] = IF @ = "open" THEN "rejected" ELSE @]
       /\ WriteHead(Rest, w, l)
       /\ UNCHANGED <<port, historyVars, echo, response, envVars, chunk, crashed>>

HandleErrorTimersOn(r, w, l) == HandleErrorBut(r, w, l, "timers")
HandleErrorSilent(r, w, l) == HandleErrorBut(r, w, l, "promise")
HandleErrorKeeps(r, w, l) == HandleErrorBut(r, w, l, "queue")

\* handleError(r) drops the first request of the queue, whichever r is, and
\* stores the error in r: the setter of error throws if r has one already.
\* After that r's timers are off, its promise is rejected unless it is settled,
\* and the next request is written.  handleTimeout() clears the same timers.
HandleError(r, w, l) ==
  IF r \in error
  THEN Crash("errorSet")
  ELSE /\ pending' = Rest
       /\ error' = error \cup {r}
       /\ timer' = timer \ {r}
       /\ timerModbus' = timerModbus \ {r}
       /\ promise' = [promise EXCEPT ![r] = IF @ = "open" THEN "rejected" ELSE @]
       /\ WriteHead(Rest, w, l)
       /\ UNCHANGED <<port, historyVars, echo, response, envVars, chunk, crashed>>

\* Nothing that belongs to r is still on its way.
Quiet(r) ==
  /\ "lateCallback" \in Faults \/ write[r] # "issued"
  /\ "slowSlave" \in Faults \/ r \notin slave
  /\ "slowLine" \in Faults \/ \A i \in DOMAIN wire : wire[i].of # r
  /\ \A i \in DOMAIN line : line[i] # r
  /\ begun => wire[1].of # r

\* The timer of send(), 1000 ms longer than timeoutModbus.  Timers of equal
\* length fire in the order they were armed.  A request that had to wait in the
\* queue may time out whatever happens on the line.
TotalTimeout(r) ==
  /\ Idle
  /\ r \in timer
  /\ "mixedTimeouts" \in Faults \/ \A s \in timer : ticket[r] <= ticket[s]
  /\ r \in queued \/ Quiet(r)
  /\ HandleError(r, write, line)

ModbusTimeout(r) ==
  /\ Idle
  /\ r \in timerModbus
  /\ Quiet(r)
  /\ HandleError(r, write, line)

\* The callback arms timerModbus, whatever has become of r in the meantime.
WriteDone(r) ==
  /\ Idle
  /\ port = "open"
  /\ write[r] = "issued"
  /\ write' = [write EXCEPT ![r] = "done"]
  /\ timerModbus' = timerModbus \cup {r}
  /\ UNCHANGED <<port, pending, historyVars, promise, timer, echo, response,
                 error, line, envVars, chunk, crashed>>

\* The port reports an error: it was never opened, or the bytes did not go out.
WriteFailed(r) ==
  /\ Idle
  /\ write[r] = "issued"
  /\ "portErrors" \in Faults
  /\ LET w == [write EXCEPT ![r] = "done"] IN
     \/ port = "failed" /\ HandleError(r, w, line)
     \/ \E k \in DOMAIN line :
          /\ line[k] = r
          /\ HandleError(r, w, SubSeq(line, 1, k - 1) \o SubSeq(line, k + 1, Len(line)))

-----------------------------------------------------------------------------
(* The environment: gateway, slave and the bytes on their way back *)

\* What a frame may turn into: damaged bytes still parse (the LRC tells) or not.
Arrivals(f) ==
  {f} \cup IF "noise" \in Faults
           THEN {Damaged("damaged", f.of), Damaged("garbled", f.of)} ELSE {}

\* The gateway puts the request on the bus and hears it there itself: the echo.
GatewayForwards ==
  /\ Idle
  /\ line # <<>>
  /\ \E f \in Arrivals(Sound("echo", Head(line))) : wire' = Append(wire, f)
  /\ slave' = slave \cup {Head(line)}
  /\ line' = Tail(line)
  /\ UNCHANGED <<port, pending, historyVars, requestVars, write, begun,
                 frame, chunk,
                 crashed>>

\* Lost without a trace, or refused with a frame whose LRC is wrong on purpose.
GatewayDrops ==
  /\ Idle
  /\ line # <<>>
  /\ \/ wire' = wire
     \/ "noise" \in Faults
        /\ wire' = Append(wire, Damaged("refusal", Head(line)))
  /\ line' = Tail(line)
  /\ UNCHANGED <<port, pending, historyVars, requestVars, write, slave, begun,
                 frame, chunk, crashed>>

SlaveAnswers(r) ==
  /\ Idle
  /\ r \in slave
  /\ slave' = slave \ {r}
  /\ \E f \in Arrivals(Sound("answer", r)) : wire' = Append(wire, f)
  /\ UNCHANGED <<port, pending, historyVars, requestVars, write, line, begun,
                 frame, chunk, crashed>>

SlaveSilent(r) ==
  /\ Idle
  /\ r \in slave
  /\ slave' = slave \ {r}
  /\ UNCHANGED <<port, pending, historyVars, requestVars, write, line, wire,
                 begun, frame, chunk, crashed>>

-----------------------------------------------------------------------------
(* handleOnSerialData *)

\* The first n frames of the wire as the parser sees them.  When the start of
\* the first one was dropped, the rest goes to what _frame holds: null, which
\* gives no frame at all, or an old start, which may give one with a wrong LRC.
Completed(n) ==
  IF n > 0 /\ begun /\ frame # "start"
  THEN {<<Damaged(k, wire[1].of)>> \o SubSeq(wire, 2, n) :
           k \in {"garbled"} \cup IF frame = "stale" THEN {"damaged"} ELSE {}}
  ELSE {SubSeq(wire, 1, n)}

\* Frames that are late arrive in one piece, or the process ends (FrameThrows).
OnTime(f) == "slowLine" \notin Faults \/ (pending # <<>> /\ f.of = Head(pending))

\* One data event: the end of n frames and, if p, the start of one more.  With
\* nothing pending all of its bytes are dropped, and _frame stays as it is.
DataEvent(n, p) ==
  /\ Idle
  /\ "lateCallback" \in Faults \/ \A r \in Requests : write[r] # "issued"
  /\ IF p THEN "splitFrames" \in Faults /\ n < Len(wire) /\ OnTime(wire[n + 1])
          ELSE 0 < n /\ n <= Len(wire)
  /\ n = 0 => ~begun
  /\ wire' = SubSeq(wire, n + 1, Len(wire))
  /\ begun' = p
  /\ IF pending = <<>>
     THEN chunk' = <<>> /\ frame' = IF frame = "start" THEN "stale" ELSE frame
     ELSE chunk' \in Completed(n) /\ frame' = IF p THEN "start" ELSE "null"
  /\ UNCHANGED <<port, pending, historyVars, requestVars, write, line, slave,
                 crashed>>

\* The frame being handled and the request it is handled for.
Frame1 == Head(chunk)
First == Head(pending)

Parsed ==
  /\ crashed = "no"
  /\ chunk # <<>> /\ pending # <<>>
  /\ Frame1.kind # "garbled"

\* `err = err` in the catch: f stays undefined and f.lrcOk throws.  With the
\* queue emptied by an earlier frame of the event, r is undefined.
FrameThrows ==
  /\ crashed = "no"
  /\ chunk # <<>>
  /\ Frame1.kind = "garbled" \/ pending = <<>>
  /\ Crash("typeError")

\* The setter of requestReceived throws, the frame is logged and forgotten.
FrameIgnored ==
  /\ Parsed
  /\ First \notin echo /\ Frame1.lrcOk /\ ~SameBytes(Frame1, First)
  /\ chunk' = Tail(chunk)
  /\ UNCHANGED <<port, pending, historyVars, requestVars, write, line, envVars,
                 crashed>>

FrameIsEcho ==
  /\ Parsed
  /\ First \notin echo /\ Frame1.lrcOk /\ SameBytes(Frame1, First)
  /\ echo' = echo \cup {First}
  /\ chunk' = Tail(chunk)
  /\ UNCHANGED <<port, pending, historyVars, promise, timer, timerModbus, response,
                 error, write, line, envVars, crashed>>

\* Mutant: the promise of the request sent last is settled.
FinishLast(outcome) ==
  /\ pending' = Tail(pending)
  /\ timer' = timer \ {First}
  /\ timerModbus' = timerModbus \ {First}
  /\ promise' = [promise EXCEPT ![pending[Len(pending)]] =
                   IF @ = "open" THEN outcome ELSE @]
  /\ WriteHead(Tail(pending), write, line)
  /\ chunk' = Tail(chunk)
  /\ UNCHANGED <<port, historyVars, echo, envVars, crashed>>

\* Mutant: the next request waits until send() is called again.
FinishOnly(outcome) ==
  /\ pending' = Tail(pending)
  /\ timer' = timer \ {First}
  /\ timerModbus' = timerModbus \ {First}
  /\ promise' = [promise EXCEPT ![First] = IF @ = "open" THEN outcome ELSE @]
  /\ chunk' = Tail(chunk)
  /\ UNCHANGED <<port, historyVars, echo, envVars, crashed, write, line>>

\* Remove the first request, stop its timers, settle it, write the next one.
Finish(outcome) ==
  /\ pending' = Tail(pending)
  /\ timer' = timer \ {First}
  /\ timerModbus' = timerModbus \ {First}
  /\ promise' = [promise EXCEPT ![First] = IF @ = "open" THEN outcome ELSE @]
  /\ WriteHead(Tail(pending), write, line)
  /\ chunk' = Tail(chunk)
  /\ UNCHANGED <<port, historyVars, echo, envVars, crashed>>

\* Any frame after the echo is taken as the response.
FrameIsResponse ==
  /\ Parsed
  /\ First \in echo /\ Frame1.lrcOk
  /\ IF First \in error
     THEN Crash("errorSet")
     ELSE /\ response' = [response EXCEPT ![First] = Frame1]
          /\ Finish("resolved")
          /\ UNCHANGED error

\* A frame with a wrong LRC rejects the first request at once, before or after
\* its echo; after the echo it is stored as the response all the same.
FrameRejected ==
  /\ Parsed
  /\ ~Frame1.lrcOk
  /\ IF First \in error
     THEN Crash("errorSet")
     ELSE /\ response' = IF First \in echo
                         THEN [response EXCEPT ![First] = Frame1] ELSE response
          /\ error' = error \cup {First}
          /\ Finish("rejected")

-----------------------------------------------------------------------------

Port == OpenCall \/ OpenDone

Call(r) == Send(r) \/ SendRefused(r)

Timers(r) == TotalTimeout(r) \/ ModbusTimeout(r)

Written(r) == WriteDone(r) \/ WriteFailed(r)

Environment ==
  \/ GatewayForwards
  \/ GatewayDrops
  \/ \E r \in Requests : SlaveAnswers(r) \/ SlaveSilent(r)

Data == \E n \in 0 .. MaxChunk, p \in BOOLEAN : DataEvent(n, p)

HandleFrame ==
  FrameThrows \/ FrameIgnored \/ FrameIsEcho \/ FrameIsResponse \/ FrameRejected

Next ==
  \/ Port
  \/ \E r \in Requests : Call(r) \/ Timers(r) \/ Written(r)
  \/ Environment
  \/ Data
  \/ HandleFrame

Safety == Init /\ [][Next]_vars

\* Node runs every timer that is due and finishes every callback it has begun,
\* and the operating system reports the end of every write and delivers every
\* byte it has.  The gateway and the slave may stay silent for ever, but they
\* do not leave it open for ever whether they will: that is what makes a line
\* punctual (Quiet) before a timer fires.
Fairness ==
  /\ WF_vars(HandleFrame) /\ WF_vars(Data) /\ WF_vars(Environment)
  /\ \A r \in Requests : WF_vars(Timers(r)) /\ WF_vars(Written(r))

Spec == Safety /\ Fairness

-----------------------------------------------------------------------------

\* Every variable keeps its type.
TypeOK ==
  /\ port \in {"none", "opening", "open", "failed"}
  /\ pending \in Seq(Requests)
  /\ tickets \in Nat
  /\ ticket \in [Requests -> Nat]
  /\ queued \subseteq Requests
  /\ promise \in [Requests -> {"unsent", "refused", "open", "resolved", "rejected"}]
  /\ timer \subseteq Requests
  /\ timerModbus \subseteq Requests
  /\ write \in [Requests -> {"none", "issued", "done"}]
  /\ echo \subseteq Requests
  /\ response \in [Requests -> Frame \cup {NoFrame}]
  /\ error \subseteq Requests
  /\ line \in Seq(Requests)
  /\ slave \subseteq Requests
  /\ wire \in Seq(Frame)
  /\ begun \in BOOLEAN
  /\ frame \in {"null", "start", "stale"}
  /\ chunk \in Seq(Frame)
  /\ crashed \in {"no", "errorSet", "typeError"}

\* Every open request has its timer armed (modbus-serial.ts:75).
TimerArmed == crashed = "no" => Open \subseteq timer

\* The first request of _pending has been handed to the port, so every path that
\* removes a request has written the next one.
HeadWritten == pending # <<>> => write[Head(pending)] # "none"

\* The queue never stalls and no caller is forgotten: whatever the line, the slave
\* and the other requests do, there is something on its way that will settle the
\* first request, and a timer that will settle any of them.
NeverStalls == TimerArmed /\ HeadWritten

\* A request goes out at most once, and only when it has become the first one:
\* while r is on the bus no second request is sent after it, and sentAt is not
\* set twice (modbus-request.ts:60).
WrittenOnce ==
  [][\A r \in Requests : write[r] # "none" => write'[r] \in {write[r], "done"}]_vars

\* _pending holds exactly the requests whose promise is open, in the order they
\* were sent: handleError(r), which drops the first request, has dropped r.
PendingIsOpen ==
  crashed = "no" =>
    /\ {pending[i] : i \in DOMAIN pending} = Open
    /\ \A i, j \in DOMAIN pending :
         i < j => ticket[pending[i]] < ticket[pending[j]]

\* A resolved request carries the answer to its own bytes, not the answer to
\* another request that was late (modbus-serial.ts:183-196).
AnswerMatches ==
  \A r \in Requests : promise[r] = "resolved" =>
    /\ response[r].kind = "answer"
    /\ Content[response[r].of] = Content[r]

\* With one request at a time and a punctual line no callback throws.
NoCrash == crashed = "no"

\* The setter of error refuses a second error (modbus-request.ts:77): no
\* request fails twice.
ErrorSetAtMostOnce == crashed # "errorSet"

\* Every request that send() has accepted is settled in the end.
OpenSettles == \A r \in Requests : promise[r] = "open" ~> promise[r] # "open"

\* The queue implements RequestQueue.
Queue == INSTANCE RequestQueue WITH outcome <- promise
QueueSafety == Queue!Safety
QueueSpec == Queue!Spec
=============================================================================
