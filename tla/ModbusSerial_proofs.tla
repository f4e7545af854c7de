------------------------ MODULE ModbusSerial_proofs ------------------------
(***************************************************************************)
(* For any set of requests: the types of ModbusSerial, what holds of it    *)
(* whatever the line does, and, in the second half of the module, the      *)
(* order of the queue.  The queue keeps the order of the calls, and        *)
(* implements RequestQueue, when nothing overtakes the callback of a       *)
(* write, every caller uses the same timeout, and a data event ends at     *)
(* most one frame or the callers have one request open at a time.  Then,   *)
(* with only a slow line, frames that are cut and a port that fails, no    *)
(* callback throws and each request gets its own answer.                   *)
(***************************************************************************)
EXTENDS ModbusSerial, FiniteSetTheorems, TLAPS

-----------------------------------------------------------------------------
(* Facts about sequences *)

LEMMA TailFacts ==
  ASSUME NEW S, NEW q \in Seq(S), q # <<>>
  PROVE  /\ Head(q) \in S /\ Tail(q) \in Seq(S)
         /\ Head(q) = q[1] /\ 1 \in DOMAIN q
         /\ Len(q) \in Nat /\ Len(q) > 0
         /\ Len(Tail(q)) = Len(q) - 1
         /\ \A i \in 1 .. Len(Tail(q)) : Tail(q)[i] = q[i + 1] /\ i + 1 \in DOMAIN q
  OBVIOUS

LEMMA SubSeqType ==
  ASSUME NEW S, NEW q \in Seq(S), NEW m \in Nat, NEW n \in Nat,
         1 <= m, n <= Len(q)
  PROVE  SubSeq(q, m, n) \in Seq(S)
  OBVIOUS

LEMMA ConcatType ==
  ASSUME NEW S, NEW q \in Seq(S), NEW x \in S
  PROVE  <<x>> \o q \in Seq(S) /\ Append(q, x) \in Seq(S)
  OBVIOUS

\* A sequence without its k-th element is a sequence over the same set.
LEMMA WithoutType ==
  ASSUME NEW S, NEW q \in Seq(S), NEW k \in DOMAIN q
  PROVE  SubSeq(q, 1, k - 1) \o SubSeq(q, k + 1, Len(q)) \in Seq(S)
<1>1. k \in 1 .. Len(q) /\ Len(q) \in Nat
  OBVIOUS
<1>2. SubSeq(q, 1, k - 1) \in Seq(S)
  BY <1>1
<1>3. SubSeq(q, k + 1, Len(q)) \in Seq(S)
  BY <1>1
<1> QED
  BY <1>2, <1>3

-----------------------------------------------------------------------------
(* Type correctness *)

LEMMA FrameFields ==
  ASSUME NEW f \in Frame
  PROVE  f.kind \in FrameKinds /\ f.of \in Requests /\ f.lrcOk \in BOOLEAN
  BY DEF Frame

LEMMA NewFrames ==
  ASSUME NEW r \in Requests, NEW k \in FrameKinds
  PROVE  Sound(k, r) \in Frame /\ Damaged(k, r) \in Frame
  BY DEF Sound, Damaged, Frame

LEMMA ArrivalsType ==
  ASSUME NEW f \in Frame
  PROVE  Arrivals(f) \subseteq Frame
  BY FrameFields, NewFrames DEF Arrivals, FrameKinds

LEMMA WriteHeadType ==
  ASSUME NEW q \in Seq(Requests), NEW l \in Seq(Requests),
         NEW w \in [Requests -> {"none", "issued", "done"}],
         WriteHead(q, w, l)
  PROVE  /\ write' \in [Requests -> {"none", "issued", "done"}]
         /\ line' \in Seq(Requests)
<1>1. CASE q = <<>>
  BY <1>1 DEF WriteHead
<1>2. CASE q # <<>>
  <2>1. Head(q) \in Requests
    BY <1>2, TailFacts
  <2>2. Append(l, Head(q)) \in Seq(Requests)
    BY <2>1
  <2> QED
    BY <1>2, <2>1, <2>2 DEF WriteHead
<1> QED
  BY <1>1, <1>2

LEMMA RestType ==
  ASSUME pending \in Seq(Requests)
  PROVE  Rest \in Seq(Requests)
  BY TailFacts DEF Rest

LEMMA CrashType ==
  ASSUME TypeOK, NEW why \in {"errorSet", "typeError"}, Crash(why)
  PROVE  TypeOK'
  BY DEF TypeOK, Crash, historyVars, requestVars, envVars

LEMMA HandleErrorType ==
  ASSUME TypeOK, NEW r \in Requests, NEW l \in Seq(Requests),
         NEW w \in [Requests -> {"none", "issued", "done"}],
         HandleError(r, w, l)
  PROVE  TypeOK'
<1>1. CASE r \in error
  BY <1>1, CrashType DEF HandleError
<1>2. CASE r \notin error
  <2>1. Rest \in Seq(Requests)
    BY RestType DEF TypeOK
  <2>2. WriteHead(Rest, w, l)
    BY <1>2 DEF HandleError
  <2>3. /\ write' \in [Requests -> {"none", "issued", "done"}]
        /\ line' \in Seq(Requests)
    BY <2>1, <2>2, WriteHeadType
  <2>4. promise' \in [Requests -> {"unsent", "refused", "open", "resolved", "rejected"}]
    BY <1>2 DEF TypeOK, HandleError
  <2> QED
    BY <1>2, <2>1, <2>3, <2>4 DEF TypeOK, HandleError, historyVars, envVars
<1> QED
  BY <1>1, <1>2

\* What the first frame of the event and the first request are made of.
LEMMA ParsedType ==
  ASSUME TypeOK, Parsed
  PROVE  /\ Frame1 \in Frame /\ First \in Requests
         /\ Tail(chunk) \in Seq(Frame) /\ Tail(pending) \in Seq(Requests)
  BY TailFacts DEF TypeOK, Parsed, Frame1, First

LEMMA FinishType ==
  ASSUME TypeOK, Parsed, NEW outcome \in {"resolved", "rejected"}, Finish(outcome),
         response' \in [Requests -> Frame \cup {NoFrame}],
         error' \subseteq Requests
  PROVE  TypeOK'
<1>1. /\ First \in Requests /\ Tail(chunk) \in Seq(Frame)
      /\ Tail(pending) \in Seq(Requests)
  BY ParsedType
<1>2. /\ write' \in [Requests -> {"none", "issued", "done"}]
      /\ line' \in Seq(Requests)
  BY <1>1, WriteHeadType DEF Finish, TypeOK
<1>3. promise' \in [Requests -> {"unsent", "refused", "open", "resolved", "rejected"}]
  BY <1>1 DEF Finish, TypeOK
<1> QED
  BY <1>1, <1>2, <1>3 DEF Finish, TypeOK, historyVars, envVars

LEMMA CompletedType ==
  ASSUME TypeOK, NEW n \in Nat, n <= Len(wire)
  PROVE  Completed(n) \subseteq Seq(Frame)
<1>1. wire \in Seq(Frame) /\ Len(wire) \in Nat
  BY DEF TypeOK
<1>2. SubSeq(wire, 1, n) \in Seq(Frame) /\ SubSeq(wire, 2, n) \in Seq(Frame)
  BY <1>1
<1>3. ASSUME n > 0, NEW k \in {"garbled", "damaged"}
      PROVE  <<Damaged(k, wire[1].of)>> \o SubSeq(wire, 2, n) \in Seq(Frame)
  <2>1. wire[1] \in Frame
    BY <1>1, <1>3
  <2>2. Damaged(k, wire[1].of) \in Frame
    BY <2>1, FrameFields, NewFrames DEF FrameKinds
  <2> QED
    BY <1>2, <2>2
<1> QED
  BY <1>2, <1>3 DEF Completed

LEMMA DataEventType ==
  ASSUME TypeOK, NEW n \in Nat, NEW p \in BOOLEAN, DataEvent(n, p)
  PROVE  TypeOK'
<1>1. n <= Len(wire) /\ Len(wire) \in Nat /\ wire \in Seq(Frame)
  BY DEF DataEvent, TypeOK
<1>2. wire' \in Seq(Frame)
  BY <1>1 DEF DataEvent
<1>3. chunk' \in Seq(Frame)
  <2>1. Completed(n) \subseteq Seq(Frame)
    BY <1>1, CompletedType
  <2>2. CASE pending = <<>>
    <3>1. chunk' = <<>>
      BY <2>2 DEF DataEvent
    <3> QED
      BY <3>1
  <2>3. CASE pending # <<>>
    <3>1. chunk' \in Completed(n)
      BY <2>3, Zenon DEF DataEvent
    <3> QED
      BY <2>1, <3>1
  <2> QED
    BY <2>2, <2>3
<1>4. begun' \in BOOLEAN /\ frame' \in {"null", "start", "stale"}
  BY DEF DataEvent, TypeOK
<1> QED
  BY <1>2, <1>3, <1>4 DEF DataEvent, TypeOK, historyVars, requestVars

LEMMA CallType ==
  ASSUME TypeOK, NEW r \in Requests, Call(r)
  PROVE  TypeOK'
<1>1. CASE Send(r)
  <2>1. pending' \in Seq(Requests) /\ timer' \subseteq Requests
        /\ queued' \subseteq Requests
    BY <1>1, ConcatType DEF Send, TypeOK
  <2>2. promise' \in [Requests -> {"unsent", "refused", "open", "resolved", "rejected"}]
    BY <1>1 DEF Send, TypeOK
  <2>3. tickets' \in Nat /\ ticket' \in [Requests -> Nat]
    BY <1>1 DEF Send, TypeOK
  <2>4. /\ write' \in [Requests -> {"none", "issued", "done"}]
        /\ line' \in Seq(Requests)
    <3>1. CASE pending = <<>>
      <4>1. <<r>> \in Seq(Requests)
        OBVIOUS
      <4> QED
        BY <1>1, <3>1, <4>1, WriteHeadType DEF Send, TypeOK
    <3>2. CASE pending # <<>>
      BY <1>1, <3>2 DEF Send, TypeOK
    <3> QED
      BY <3>1, <3>2
  <2> QED
    BY <1>1, <2>1, <2>2, <2>3, <2>4 DEF Send, TypeOK, envVars
<1>2. CASE SendRefused(r)
  BY <1>2 DEF SendRefused, TypeOK, historyVars, envVars
<1> QED
  BY <1>1, <1>2 DEF Call

LEMMA TimersType ==
  ASSUME TypeOK, NEW r \in Requests, Timers(r)
  PROVE  TypeOK'
  BY HandleErrorType DEF Timers, TotalTimeout, ModbusTimeout, TypeOK

LEMMA WrittenType ==
  ASSUME TypeOK, NEW r \in Requests, Written(r)
  PROVE  TypeOK'
<1>1. CASE WriteDone(r)
  BY <1>1 DEF WriteDone, TypeOK, historyVars, envVars
<1>2. CASE WriteFailed(r)
  <2> DEFINE w == [write EXCEPT ![r] = "done"]
  <2>1. w \in [Requests -> {"none", "issued", "done"}] /\ line \in Seq(Requests)
    BY DEF TypeOK
  <2>2. CASE HandleError(r, w, line)
    BY <2>1, <2>2, HandleErrorType
  <2>3. ASSUME NEW k \in DOMAIN line,
               HandleError(r, w, SubSeq(line, 1, k - 1) \o SubSeq(line, k + 1, Len(line)))
        PROVE  TypeOK'
    BY <2>1, <2>3, WithoutType, HandleErrorType
  <2> QED
    BY <1>2, <2>2, <2>3 DEF WriteFailed
<1> QED
  BY <1>1, <1>2 DEF Written

LEMMA EnvironmentType ==
  ASSUME TypeOK, Environment
  PROVE  TypeOK'
<1>1. CASE GatewayForwards
  <2>1. Head(line) \in Requests /\ Tail(line) \in Seq(Requests)
    BY <1>1, TailFacts DEF GatewayForwards, TypeOK
  <2>2. wire' \in Seq(Frame)
    BY <1>1, <2>1, NewFrames, ArrivalsType, ConcatType
       DEF GatewayForwards, TypeOK, FrameKinds
  <2> QED
    BY <1>1, <2>1, <2>2 DEF GatewayForwards, TypeOK, historyVars, requestVars
<1>2. CASE GatewayDrops
  <2>1. Head(line) \in Requests /\ Tail(line) \in Seq(Requests)
    BY <1>2, TailFacts DEF GatewayDrops, TypeOK
  <2>2. wire' \in Seq(Frame)
    <3>1. Damaged("refusal", Head(line)) \in Frame
      BY <2>1, NewFrames DEF FrameKinds
    <3>2. wire' = wire \/ wire' = Append(wire, Damaged("refusal", Head(line)))
      BY <1>2 DEF GatewayDrops
    <3>3. wire \in Seq(Frame)
      BY DEF TypeOK
    <3>4. Append(wire, Damaged("refusal", Head(line))) \in Seq(Frame)
      BY <3>1, <3>3, ConcatType
    <3> QED
      BY <3>2, <3>3, <3>4
  <2> QED
    BY <1>2, <2>1, <2>2 DEF GatewayDrops, TypeOK, historyVars, requestVars
<1>3. ASSUME NEW r \in Requests, SlaveAnswers(r)
      PROVE  TypeOK'
  <2>1. wire' \in Seq(Frame)
    BY <1>3, NewFrames, ArrivalsType, ConcatType DEF SlaveAnswers, TypeOK, FrameKinds
  <2> QED
    BY <1>3, <2>1 DEF SlaveAnswers, TypeOK, historyVars, requestVars
<1>4. ASSUME NEW r \in Requests, SlaveSilent(r)
      PROVE  TypeOK'
  BY <1>4 DEF SlaveSilent, TypeOK, historyVars, requestVars
<1> QED
  BY <1>1, <1>2, <1>3, <1>4 DEF Environment

LEMMA HandleFrameType ==
  ASSUME TypeOK, HandleFrame
  PROVE  TypeOK'
<1>1. CASE FrameThrows
  BY <1>1, CrashType DEF FrameThrows
<1>2. CASE FrameIgnored
  BY <1>2, ParsedType DEF FrameIgnored, TypeOK, historyVars, requestVars, envVars
<1>3. CASE FrameIsEcho
  BY <1>3, ParsedType DEF FrameIsEcho, TypeOK, historyVars, envVars
<1>4. CASE FrameIsResponse
  <2>1. CASE First \in error
    BY <1>4, <2>1, CrashType DEF FrameIsResponse
  <2>2. CASE First \notin error
    <3>1. response' \in [Requests -> Frame \cup {NoFrame}] /\ error' \subseteq Requests
      BY <1>4, <2>2, ParsedType DEF FrameIsResponse, TypeOK
    <3> QED
      BY <1>4, <2>2, <3>1, FinishType DEF FrameIsResponse
  <2> QED
    BY <2>1, <2>2
<1>5. CASE FrameRejected
  <2>1. CASE First \in error
    BY <1>5, <2>1, CrashType DEF FrameRejected
  <2>2. CASE First \notin error
    <3>1. response' \in [Requests -> Frame \cup {NoFrame}] /\ error' \subseteq Requests
      BY <1>5, <2>2, ParsedType DEF FrameRejected, TypeOK
    <3> QED
      BY <1>5, <2>2, <3>1, FinishType DEF FrameRejected
  <2> QED
    BY <2>1, <2>2
<1> QED
  BY <1>1, <1>2, <1>3, <1>4, <1>5 DEF HandleFrame

LEMMA TypeInit == Init => TypeOK
<1> SUFFICES ASSUME Init PROVE TypeOK
  OBVIOUS
<1>1. pending \in Seq(Requests) /\ line \in Seq(Requests)
      /\ wire \in Seq(Frame) /\ chunk \in Seq(Frame)
  BY DEF Init
<1>2. response \in [Requests -> Frame \cup {NoFrame}]
  BY DEF Init
<1> QED
  BY <1>1, <1>2 DEF Init, TypeOK

LEMMA TypeStep == TypeOK /\ [Next]_vars => TypeOK'
<1> SUFFICES ASSUME TypeOK, [Next]_vars PROVE TypeOK'
  OBVIOUS
<1>1. CASE Port
  BY <1>1 DEF Port, OpenCall, OpenDone, TypeOK, historyVars, requestVars, envVars
<1>2. ASSUME NEW r \in Requests, Call(r) \/ Timers(r) \/ Written(r)
      PROVE  TypeOK'
  BY <1>2, CallType, TimersType, WrittenType
<1>3. CASE Environment
  BY <1>3, EnvironmentType
<1>4. CASE Data
  BY <1>4, DataEventType, BoundsAssumption DEF Data
<1>5. CASE HandleFrame
  BY <1>5, HandleFrameType
<1>6. CASE UNCHANGED vars
  BY <1>6 DEF vars, TypeOK, historyVars, requestVars, envVars
<1> QED
  BY <1>1, <1>2, <1>3, <1>4, <1>5, <1>6 DEF Next

\* Every variable keeps its type: no callback corrupts the queue's bookkeeping.
THEOREM TypeCorrect == Safety => []TypeOK
  BY TypeInit, TypeStep, PTL DEF Safety

-----------------------------------------------------------------------------
(* The queue in every environment.  The first request of _pending has been   *)
(* written and no other one has, no request is in it twice, and a request    *)
(* enters it only through send(): that is why a request is written once.     *)

NotSent == {"unsent", "refused"}

Distinct ==
  \A i, j \in 1 .. Len(pending) : i # j => pending[i] # pending[j]

Accepted == \A i \in 1 .. Len(pending) : promise[pending[i]] \notin NotSent

TailUnwritten ==
  \A i \in 1 .. Len(pending) : i > 1 => write[pending[i]] = "none"

NotSentUnwritten ==
  \A r \in Requests : promise[r] \in NotSent => write[r] = "none"

QueueShape ==
  Distinct /\ Accepted /\ TailUnwritten /\ NotSentUnwritten /\ HeadWritten

QueueInv == TypeOK /\ QueueShape /\ Open \subseteq timer

Once == \A r \in Requests : write[r] # "none" => write'[r] \in {write[r], "done"}

\* Steps that leave the queue and the writes alone.
LEMMA ShapeUnchanged ==
  ASSUME QueueShape, pending' = pending, write' = write, promise' = promise
  PROVE  QueueShape' /\ Once
  BY DEF QueueShape, Distinct, Accepted, TailUnwritten, NotSentUnwritten,
         HeadWritten, Once

\* Taking the first request out and writing the next one.  w differs from write
\* at most where the callback of a write has just run.
LEMMA Removal ==
  ASSUME TypeOK, QueueShape,
         NEW l, NEW w \in [Requests -> {"none", "issued", "done"}],
         \A s \in Requests : w[s] = write[s] \/ (write[s] = "issued" /\ w[s] = "done"),
         pending' = Rest, WriteHead(Rest, w, l),
         \A s \in Requests : promise'[s] \in NotSent <=> promise[s] \in NotSent
  PROVE  QueueShape' /\ Once
<1>1. pending \in Seq(Requests) /\ write \in [Requests -> {"none", "issued", "done"}]
  BY DEF TypeOK
<1>2. CASE pending = <<>> \/ Tail(pending) = <<>>
  <2>1. Rest = <<>> /\ pending' = <<>> /\ Len(pending') = 0
    BY <1>2 DEF Rest
  <2>2. write' = w
    BY <2>1 DEF WriteHead
  <2> QED
    BY <2>1, <2>2 DEF QueueShape, Distinct, Accepted, TailUnwritten,
                      NotSentUnwritten, HeadWritten, Once
<1>3. CASE pending # <<>> /\ Tail(pending) # <<>>
  <2> DEFINE q == Tail(pending)
  <2>1. /\ pending' = q /\ Rest = q /\ q \in Seq(Requests)
        /\ Len(q) = Len(pending) - 1 /\ Len(q) \in Nat /\ Len(q) > 0
        /\ Head(q) = q[1] /\ Head(q) \in Requests
        /\ \A i \in 1 .. Len(q) : q[i] = pending[i + 1] /\ i + 1 \in 1 .. Len(pending)
    BY <1>1, <1>3, TailFacts DEF Rest
  <2>2. write' = [w EXCEPT ![q[1]] = "issued"]
    BY <1>3, <2>1 DEF WriteHead
  <2> HIDE DEF q
  <2>3. write[q[1]] = "none" /\ w[q[1]] = "none"
    <3>1. q[1] = pending[2] /\ 2 \in 1 .. Len(pending)
      BY <2>1
    <3> QED
      BY <2>1, <3>1 DEF QueueShape, TailUnwritten
  <2>4. Distinct'
    BY <2>1 DEF QueueShape, Distinct
  <2>5. Accepted'
    <3> SUFFICES ASSUME NEW i \in 1 .. Len(q) PROVE promise'[q[i]] \notin NotSent
      BY <2>1 DEF Accepted
    <3>1. q[i] \in Requests
      BY <2>1
    <3> QED
      BY <2>1, <3>1 DEF QueueShape, Accepted
  <2>6. TailUnwritten'
    <3> SUFFICES ASSUME NEW i \in 1 .. Len(q), i > 1
                 PROVE  write'[q[i]] = "none"
      BY <2>1 DEF TailUnwritten
    <3>1. q[i] \in Requests /\ q[i] # q[1]
      BY <2>1 DEF QueueShape, Distinct
    <3>2. write[q[i]] = "none"
      BY <2>1 DEF QueueShape, TailUnwritten
    <3> QED
      BY <2>2, <3>1, <3>2
  <2>7. NotSentUnwritten'
    <3>1. promise[q[1]] \notin NotSent
      BY <2>1 DEF QueueShape, Accepted
    <3> QED
      BY <2>2, <3>1 DEF QueueShape, NotSentUnwritten
  <2>8. HeadWritten'
    BY <2>1, <2>2 DEF HeadWritten
  <2>9. Once
    BY <2>2, <2>3 DEF Once
  <2> QED
    BY <2>4, <2>5, <2>6, <2>7, <2>8, <2>9 DEF QueueShape
<1> QED
  BY <1>2, <1>3

\* A rejected or resolved promise is not one of a request never sent.
LEMMA SettledIsSent ==
  ASSUME TypeOK, NEW r \in Requests, NEW o \in {"resolved", "rejected"},
         promise' = [promise EXCEPT ![r] = IF @ = "open" THEN o ELSE @]
  PROVE  /\ \A s \in Requests : promise'[s] \in NotSent <=> promise[s] \in NotSent
         /\ Open' = Open \ {r}
  BY DEF TypeOK, NotSent, Open

LEMMA SendShape ==
  ASSUME QueueInv, NEW r \in Requests, Send(r)
  PROVE  QueueShape' /\ Open' \subseteq timer' /\ Once
<1>1. /\ pending \in Seq(Requests) /\ write \in [Requests -> {"none", "issued", "done"}]
      /\ promise \in [Requests -> {"unsent", "refused", "open", "resolved", "rejected"}]
      /\ Len(pending) \in Nat
  BY DEF QueueInv, TypeOK
<1>2. promise[r] = "unsent" /\ promise' = [promise EXCEPT ![r] = "open"]
  BY DEF Send
<1>3. pending' = Append(pending, r) /\ Len(pending') = Len(pending) + 1
      /\ pending'[Len(pending) + 1] = r
      /\ \A i \in 1 .. Len(pending) : pending'[i] = pending[i] /\ pending[i] \in Requests
  BY <1>1 DEF Send
<1>4. \A i \in 1 .. Len(pending) : pending[i] # r
  BY <1>2 DEF QueueInv, QueueShape, Accepted, NotSent
<1>5. write[r] = "none"
  BY <1>2 DEF QueueInv, QueueShape, NotSentUnwritten, NotSent
<1>6. write' = IF pending = <<>> THEN [write EXCEPT ![r] = "issued"] ELSE write
  <2>1. CASE pending = <<>>
    <3>1. <<r>> # <<>> /\ Head(<<r>>) = r
      OBVIOUS
    <3> QED
      BY <2>1, <3>1 DEF Send, WriteHead
  <2>2. CASE pending # <<>>
    BY <2>2 DEF Send
  <2> QED
    BY <2>1, <2>2
<1>7. Distinct'
  <2> SUFFICES ASSUME NEW i \in 1 .. (Len(pending) + 1),
                      NEW j \in 1 .. (Len(pending) + 1), i # j
               PROVE  pending'[i] # pending'[j]
    BY <1>3 DEF Distinct
  <2>1. CASE i = Len(pending) + 1
    <3>1. j \in 1 .. Len(pending)
      BY <1>1, <2>1
    <3> QED
      BY <1>3, <1>4, <2>1, <3>1
  <2>2. CASE j = Len(pending) + 1
    <3>1. i \in 1 .. Len(pending)
      BY <1>1, <2>2
    <3> QED
      BY <1>3, <1>4, <2>2, <3>1
  <2>3. CASE i # Len(pending) + 1 /\ j # Len(pending) + 1
    <3>1. i \in 1 .. Len(pending) /\ j \in 1 .. Len(pending)
      BY <1>1, <2>3
    <3> QED
      BY <1>3, <3>1 DEF QueueInv, QueueShape, Distinct
  <2> QED
    BY <2>1, <2>2, <2>3
<1>8. Accepted'
  <2> SUFFICES ASSUME NEW i \in 1 .. (Len(pending) + 1)
               PROVE  promise'[pending'[i]] \notin NotSent
    BY <1>3 DEF Accepted
  <2>1. CASE i = Len(pending) + 1
    BY <1>1, <1>2, <1>3, <2>1 DEF NotSent
  <2>2. CASE i \in 1 .. Len(pending)
    BY <1>1, <1>2, <1>3, <1>4, <2>2 DEF QueueInv, QueueShape, Accepted
  <2> QED
    BY <1>1, <2>1, <2>2
<1>9. TailUnwritten'
  <2> SUFFICES ASSUME NEW i \in 1 .. (Len(pending) + 1), i > 1
               PROVE  write'[pending'[i]] = "none"
    BY <1>3 DEF TailUnwritten
  <2>1. pending # <<>> /\ write' = write
    BY <1>1, <1>6
  <2>2. CASE i = Len(pending) + 1
    BY <1>3, <1>5, <2>1, <2>2
  <2>3. CASE i \in 1 .. Len(pending)
    BY <1>3, <2>1, <2>3 DEF QueueInv, QueueShape, TailUnwritten
  <2> QED
    BY <1>1, <2>2, <2>3
<1>10. NotSentUnwritten'
  BY <1>1, <1>2, <1>6 DEF QueueInv, QueueShape, NotSentUnwritten, NotSent
<1>11. HeadWritten'
  <2>1. CASE pending = <<>>
    <3>1. Head(pending') = r
      BY <1>3, <2>1
    <3> QED
      BY <1>1, <1>6, <2>1, <3>1 DEF HeadWritten
  <2>2. CASE pending # <<>>
    <3>1. Head(pending') = Head(pending)
      BY <1>1, <1>3, <2>2
    <3> QED
      BY <1>6, <2>2, <3>1 DEF QueueInv, QueueShape, HeadWritten
  <2> QED
    BY <2>1, <2>2
<1>12. Open' \subseteq timer'
  BY <1>1, <1>2 DEF QueueInv, Open, Send
<1>13. Once
  BY <1>1, <1>5, <1>6 DEF Once
<1> QED
  BY <1>7, <1>8, <1>9, <1>10, <1>11, <1>12, <1>13 DEF QueueShape

LEMMA CrashShape ==
  ASSUME QueueInv, NEW why, Crash(why)
  PROVE  QueueShape' /\ Open' \subseteq timer' /\ Once
  BY ShapeUnchanged DEF QueueInv, Crash, requestVars, Open

\* Every way handleError() is called: w differs from write only for the request
\* whose callback has just run.
LEMMA HandleErrorShape ==
  ASSUME QueueInv, NEW r \in Requests, NEW l,
         NEW w \in [Requests -> {"none", "issued", "done"}],
         \A s \in Requests : w[s] = write[s] \/ (write[s] = "issued" /\ w[s] = "done"),
         HandleError(r, w, l)
  PROVE  QueueShape' /\ Open' \subseteq timer' /\ Once
<1>1. CASE r \in error
  BY <1>1, CrashShape DEF HandleError
<1>2. CASE r \notin error
  <2>1. /\ \A s \in Requests : promise'[s] \in NotSent <=> promise[s] \in NotSent
        /\ Open' = Open \ {r}
    <3>1. promise' = [promise EXCEPT ![r] = IF @ = "open" THEN "rejected" ELSE @]
      BY <1>2 DEF HandleError
    <3> QED
      BY <3>1, SettledIsSent DEF QueueInv
  <2>2. QueueShape' /\ Once
    <3>1. pending' = Rest /\ WriteHead(Rest, w, l)
      BY <1>2 DEF HandleError
    <3> QED
      BY <2>1, <3>1, Removal DEF QueueInv
  <2>3. Open' \subseteq timer'
    BY <1>2, <2>1 DEF HandleError, QueueInv
  <2> QED
    BY <2>2, <2>3
<1> QED
  BY <1>1, <1>2

LEMMA FinishShape ==
  ASSUME QueueInv, Parsed, NEW outcome \in {"resolved", "rejected"}, Finish(outcome)
  PROVE  QueueShape' /\ Open' \subseteq timer' /\ Once
<1>1. First \in Requests /\ pending # <<>>
  BY ParsedType DEF QueueInv, Parsed
<1>2. /\ \A s \in Requests : promise'[s] \in NotSent <=> promise[s] \in NotSent
      /\ Open' = Open \ {First}
  BY <1>1, SettledIsSent DEF Finish, QueueInv
<1>3. QueueShape' /\ Once
  <2>1. pending' = Rest /\ WriteHead(Rest, write, line)
    BY <1>1 DEF Finish, Rest
  <2> QED
    BY <1>2, <2>1, Removal DEF QueueInv, TypeOK
<1>4. Open' \subseteq timer'
  BY <1>2 DEF Finish, QueueInv
<1> QED
  BY <1>3, <1>4

LEMMA QueueInit == Init => QueueInv
<1> SUFFICES ASSUME Init PROVE QueueInv
  OBVIOUS
<1>1. TypeOK
  BY TypeInit
<1>2. Len(pending) = 0 /\ pending = <<>>
  BY DEF Init
<1> QED
  BY <1>1, <1>2 DEF Init, QueueInv, QueueShape, Distinct, Accepted, TailUnwritten,
                    NotSentUnwritten, HeadWritten, Open

LEMMA QueueStep == QueueInv /\ [Next]_vars => QueueInv' /\ Once
<1> SUFFICES ASSUME QueueInv, [Next]_vars
             PROVE  QueueShape' /\ Open' \subseteq timer' /\ Once
  BY TypeStep DEF QueueInv
<1>1. ASSUME NEW r \in Requests, Send(r)
      PROVE  QueueShape' /\ Open' \subseteq timer' /\ Once
  BY <1>1, SendShape
<1>2. ASSUME NEW r \in Requests, SendRefused(r)
      PROVE  QueueShape' /\ Open' \subseteq timer' /\ Once
  <2>1. pending' = pending /\ write' = write /\ timer' = timer
        /\ promise[r] = "unsent" /\ promise' = [promise EXCEPT ![r] = "refused"]
    BY <1>2 DEF SendRefused
  <2>2. /\ \A s \in Requests : promise'[s] \in NotSent <=> promise[s] \in NotSent
        /\ Open' = Open
    BY <2>1 DEF QueueInv, TypeOK, NotSent, Open
  <2>3. \A i \in 1 .. Len(pending) : pending[i] \in Requests
    BY DEF QueueInv, TypeOK
  <2> QED
    BY <2>1, <2>2, <2>3 DEF QueueInv, QueueShape, Distinct, Accepted, TailUnwritten,
                            NotSentUnwritten, HeadWritten, Once
<1>3. ASSUME NEW r \in Requests, Timers(r)
      PROVE  QueueShape' /\ Open' \subseteq timer' /\ Once
  <2>1. write \in [Requests -> {"none", "issued", "done"}] /\ HandleError(r, write, line)
    BY <1>3 DEF QueueInv, TypeOK, Timers, TotalTimeout, ModbusTimeout
  <2> QED
    BY <2>1, HandleErrorShape
<1>4. ASSUME NEW r \in Requests, WriteDone(r)
      PROVE  QueueShape' /\ Open' \subseteq timer' /\ Once
  <2>1. /\ pending' = pending /\ timer' = timer /\ promise' = promise
        /\ write[r] = "issued" /\ write' = [write EXCEPT ![r] = "done"]
    BY <1>4 DEF WriteDone
  <2>2. /\ write \in [Requests -> {"none", "issued", "done"}]
        /\ \A i \in 1 .. Len(pending) : pending[i] \in Requests
        /\ pending # <<>> => Head(pending) \in Requests
    BY TailFacts DEF QueueInv, TypeOK
  <2>3. \A s \in Requests : write'[s] = "none" <=> write[s] = "none"
    BY <2>1, <2>2
  <2>4. Once
    BY <2>1, <2>2 DEF Once
  <2>5. QueueShape'
    BY <2>1, <2>2, <2>3 DEF QueueInv, QueueShape, Distinct, Accepted, TailUnwritten,
                            NotSentUnwritten, HeadWritten
  <2> QED
    BY <2>1, <2>4, <2>5 DEF QueueInv, Open
<1>5. ASSUME NEW r \in Requests, WriteFailed(r)
      PROVE  QueueShape' /\ Open' \subseteq timer' /\ Once
  <2> DEFINE w == [write EXCEPT ![r] = "done"]
  <2>1. /\ w \in [Requests -> {"none", "issued", "done"}]
        /\ \A s \in Requests : w[s] = write[s] \/ (write[s] = "issued" /\ w[s] = "done")
    BY <1>5 DEF WriteFailed, QueueInv, TypeOK
  <2>2. \E l : HandleError(r, w, l)
    BY <1>5, Zenon DEF WriteFailed
  <2> HIDE DEF w
  <2> QED
    BY <2>1, <2>2, HandleErrorShape
<1>6. CASE FrameIsResponse \/ FrameRejected
  <2>1. CASE First \in error
    BY <1>6, <2>1, CrashShape DEF FrameIsResponse, FrameRejected
  <2>2. CASE First \notin error
    BY <1>6, <2>2, FinishShape DEF FrameIsResponse, FrameRejected
  <2> QED
    BY <2>1, <2>2
<1>7. CASE FrameThrows
  BY <1>7, CrashShape DEF FrameThrows
<1>8. CASE Port \/ Environment \/ Data \/ FrameIgnored \/ FrameIsEcho \/ UNCHANGED vars
  <2>1. pending' = pending /\ write' = write /\ promise' = promise /\ timer' = timer
    BY <1>8 DEF Port, OpenCall, OpenDone, Environment, GatewayForwards, GatewayDrops,
                SlaveAnswers, SlaveSilent, Data, DataEvent, FrameIgnored, FrameIsEcho,
                vars, requestVars
  <2> QED
    BY <2>1, ShapeUnchanged DEF QueueInv, Open
<1> QED
  BY <1>1, <1>2, <1>3, <1>4, <1>5, <1>6, <1>7, <1>8
     DEF Next, Call, Written, HandleFrame

\* Whatever the line, the slave and the operating system do, an open request has
\* its timer armed, so the promise of send() cannot be forgotten, and a non-empty
\* queue has had its first request written.
THEOREM QueueMoves == Safety => []NeverStalls
<1>1. QueueInv => NeverStalls
  BY DEF QueueInv, QueueShape, TimerArmed, NeverStalls
<1> QED
  BY <1>1, QueueInit, QueueStep, PTL DEF Safety

\* Whatever happens, no request is given to the port a second time.
THEOREM IsWrittenOnce == Safety => WrittenOnce
<1>1. QueueInv /\ [Next]_vars =>
        [\A r \in Requests : write[r] # "none" => write'[r] \in {write[r], "done"}]_vars
  BY QueueStep DEF Once
<1> QED
  BY <1>1, QueueInit, QueueStep, PTL DEF Safety, WrittenOnce

-----------------------------------------------------------------------------
(* The order of the queue *)

Orderly ==
  /\ MaxChunk = 1 \/ MaxOpen = 1
  /\ "lateCallback" \notin Faults /\ "mixedTimeouts" \notin Faults

InOrder ==
  \A i, j \in 1 .. Len(pending) : i < j => ticket[pending[i]] < ticket[pending[j]]

OnlyOpen ==
  \A r \in Requests : r \in Open <=> \E i \in 1 .. Len(pending) : pending[i] = r

OpenTimers ==
  timer = Open /\ \A r \in error : promise[r] \in {"resolved", "rejected"}

\* A request settled before its callback is one that timed out: its late
\* timerModbus finds the error set, so it cannot remove another request.
StrayFailed ==
  \A r \in Requests :
    r \notin Open /\ (r \in timerModbus \/ write[r] = "issued") => r \in error

ModbusWritten == \A r \in timerModbus : write[r] = "done"

TicketsGiven == \A r \in Requests : ticket[r] <= tickets

\* While a frame is handled, the callback of every write has run.
ChunkQuiet ==
  chunk # <<>> => /\ Len(chunk) = 1 \/ MaxOpen = 1
                  /\ \A r \in Requests : write[r] # "issued"

OneOpen == MaxOpen = 1 => Len(pending) <= 1

Order == InOrder /\ OnlyOpen

FifoInv ==
  /\ QueueInv /\ Order /\ OpenTimers /\ StrayFailed /\ ModbusWritten
  /\ TicketsGiven /\ ChunkQuiet /\ OneOpen

\* What a step does to the abstract queue.
Abstract == [Queue!Next]_(Queue!vars)

-----------------------------------------------------------------------------

LEMMA EmptySeq ==
  ASSUME NEW S, NEW q \in Seq(S), Len(q) = 0
  PROVE  q = <<>>
  OBVIOUS

LEMMA Types ==
  ASSUME QueueInv
  PROVE  /\ pending \in Seq(Requests) /\ Len(pending) \in Nat
         /\ \A i \in 1 .. Len(pending) : pending[i] \in Requests
         /\ write \in [Requests -> {"none", "issued", "done"}]
         /\ promise \in [Requests -> {"unsent", "refused", "open", "resolved", "rejected"}]
         /\ tickets \in Nat /\ ticket \in [Requests -> Nat]
         /\ timer \subseteq Requests /\ timerModbus \subseteq Requests
         /\ error \subseteq Requests /\ Open \subseteq Requests
         /\ chunk \in Seq(Frame) /\ Len(chunk) \in Nat
  BY DEF QueueInv, TypeOK, Open

\* An open request that has been written is the first one of the queue.
LEMMA WrittenIsHead ==
  ASSUME FifoInv, NEW r \in Open, write[r] # "none"
  PROVE  pending # <<>> /\ r = Head(pending)
<1>1. PICK i \in 1 .. Len(pending) : pending[i] = r
  BY Types DEF FifoInv, Order, OnlyOpen
<1>2. i = 1
  BY <1>1, Types DEF FifoInv, QueueInv, QueueShape, TailUnwritten
<1> QED
  BY <1>1, <1>2, Types DEF FifoInv

\* So is the open request whose timer was armed first.
LEMMA EarliestIsHead ==
  ASSUME FifoInv, NEW r \in Open, \A s \in Open : ticket[r] <= ticket[s]
  PROVE  pending # <<>> /\ r = Head(pending)
<1>1. PICK i \in 1 .. Len(pending) : pending[i] = r
  BY Types DEF FifoInv, Order, OnlyOpen
<1>2. 1 \in 1 .. Len(pending) /\ pending # <<>> /\ Head(pending) = pending[1]
  BY <1>1, Types DEF FifoInv
<1>3. pending[1] \in Open
  BY <1>2, Types DEF FifoInv, Order, OnlyOpen
<1>4. i = 1
  <2> SUFFICES ASSUME i # 1 PROVE FALSE
    OBVIOUS
  <2>1. ticket[pending[1]] < ticket[r]
    BY <1>1, <1>2, Types DEF FifoInv, Order, InOrder
  <2>2. ticket[pending[1]] \in Nat /\ ticket[r] \in Nat
    BY <1>2, Types DEF FifoInv
  <2> QED
    BY <1>3, <2>1, <2>2
<1> QED
  BY <1>1, <1>2, <1>4

\* The first one of the queue is open, has no error and is the oldest.
LEMMA HeadFacts ==
  ASSUME FifoInv, pending # <<>>
  PROVE  /\ Head(pending) \in Open /\ Head(pending) \notin error
         /\ \A s \in Open : ticket[Head(pending)] <= ticket[s]
<1>1. 1 \in 1 .. Len(pending) /\ Head(pending) = pending[1]
  BY Types DEF FifoInv
<1>2. Head(pending) \in Open
  BY <1>1, Types DEF FifoInv, Order, OnlyOpen
<1>3. ASSUME NEW s \in Open PROVE ticket[pending[1]] <= ticket[s]
  <2>1. PICK i \in 1 .. Len(pending) : pending[i] = s
    BY Types DEF FifoInv, Order, OnlyOpen
  <2>2. ticket[pending[1]] \in Nat /\ ticket[s] \in Nat
    BY <1>1, Types DEF FifoInv
  <2>3. CASE i = 1
    BY <2>1, <2>2, <2>3
  <2>4. CASE i # 1
    <3>1. 1 < i
      BY <2>4
    <3>2. ticket[pending[1]] < ticket[pending[i]]
      BY <1>1, <3>1 DEF FifoInv, Order, InOrder
    <3> QED
      BY <2>1, <2>2, <3>2
  <2> QED
    BY <2>3, <2>4
<1> QED
  BY <1>1, <1>2, <1>3 DEF FifoInv, OpenTimers, Open

\* The only one there is, if callers wait for the answer.
LEMMA AloneFacts ==
  ASSUME FifoInv, MaxOpen = 1, pending # <<>>
  PROVE  Tail(pending) = <<>> /\ Open = {Head(pending)}
<1>1. /\ pending \in Seq(Requests) /\ Len(pending) <= 1
  BY Types DEF FifoInv, OneOpen
<1>2. /\ Head(pending) = pending[1] /\ Tail(pending) \in Seq(Requests)
      /\ Len(pending) \in Nat /\ Len(pending) > 0 /\ Len(Tail(pending)) = Len(pending) - 1
  BY <1>1, TailFacts
<1>3. Len(pending) = 1 /\ Tail(pending) = <<>>
  <2>1. Len(pending) = 1 /\ Len(Tail(pending)) = 0
    BY <1>1, <1>2
  <2> QED
    BY <1>2, <2>1, EmptySeq
<1>4. \A r \in Open : r = Head(pending)
  BY <1>2, <1>3, Types DEF FifoInv, Order, OnlyOpen
<1> QED
  BY <1>3, <1>4, HeadFacts

\* Settling the first request keeps the order and is a step of RequestQueue.
LEMMA SettleHead ==
  ASSUME FifoInv, pending # <<>>, NEW o \in {"resolved", "rejected"},
         pending' = Tail(pending), ticket' = ticket, tickets' = tickets,
         promise' = [promise EXCEPT ![Head(pending)] = IF @ = "open" THEN o ELSE @]
  PROVE  Order' /\ Open' = Open \ {Head(pending)} /\ Abstract
<1> DEFINE h == Head(pending)
<1>1. /\ h \in Open /\ h \in Requests /\ promise[h] = "open" /\ h = pending[1]
      /\ \A s \in Open : ticket[h] <= ticket[s]
  BY HeadFacts, Types DEF FifoInv, Open
<1>2. promise' = [promise EXCEPT ![h] = o]
  BY <1>1, Types DEF FifoInv
<1>3. Open' = Open \ {h}
  BY <1>1, <1>2, Types DEF FifoInv, Open
<1>4. /\ Len(pending') = Len(pending) - 1 /\ Len(pending) \in Nat
      /\ \A i \in 1 .. Len(pending') :
           pending'[i] = pending[i + 1] /\ i + 1 \in 1 .. Len(pending)
  BY TailFacts, Types DEF FifoInv
<1> HIDE DEF h
<1>5. InOrder'
  <2> SUFFICES ASSUME NEW i \in 1 .. Len(pending'), NEW j \in 1 .. Len(pending'), i < j
               PROVE  ticket[pending'[i]] < ticket[pending'[j]]
    BY DEF InOrder
  <2>1. i + 1 < j + 1
    OBVIOUS
  <2> QED
    BY <1>4, <2>1 DEF FifoInv, Order, InOrder
<1>6. OnlyOpen'
  <2>1. ASSUME NEW r \in Requests, r \in Open'
        PROVE  \E i \in 1 .. Len(pending') : pending'[i] = r
    <3>1. PICK k \in 1 .. Len(pending) : pending[k] = r
      BY <1>3, <2>1 DEF FifoInv, Order, OnlyOpen
    <3>2. k # 1
      BY <1>1, <1>3, <2>1, <3>1
    <3>3. k - 1 \in 1 .. Len(pending') /\ pending'[k - 1] = pending[k]
      BY <1>4, <3>2
    <3> QED
      BY <3>1, <3>3
  <2>2. ASSUME NEW r \in Requests, NEW i \in 1 .. Len(pending'), pending'[i] = r
        PROVE  r \in Open'
    <3>1. pending[i + 1] = r /\ i + 1 \in 1 .. Len(pending) /\ i + 1 # 1
          /\ 1 \in 1 .. Len(pending)
      BY <1>4, <2>2
    <3>2. r \in Open
      BY <3>1 DEF FifoInv, Order, OnlyOpen
    <3>3. r # h
      BY <1>1, <3>1 DEF FifoInv, QueueInv, QueueShape, Distinct
    <3> QED
      BY <1>3, <3>2, <3>3
  <2> QED
    BY <2>1, <2>2 DEF OnlyOpen
<1>7. Abstract
  <2>1. Queue!Settle(h)
    BY <1>1, <1>2 DEF Queue!Settle, Queue!Open, Queue!Oldest, Open
  <2> QED
    BY <1>1, <2>1 DEF Abstract, Queue!Next
<1> QED
  BY <1>3, <1>5, <1>6, <1>7 DEF Order, h

\* A step that only touches what FifoInv does not mention.
LEMMA OrderUnchanged ==
  ASSUME FifoInv, pending' = pending, ticket' = ticket, tickets' = tickets,
         promise' = promise
  PROVE  Order' /\ Open' = Open /\ Abstract
  BY DEF FifoInv, Order, InOrder, OnlyOpen, Open, Abstract, Queue!vars

FifoRest ==
  OpenTimers /\ StrayFailed /\ ModbusWritten /\ TicketsGiven /\ ChunkQuiet /\ OneOpen

LEMMA CrashFifo ==
  ASSUME FifoInv, NEW why, Crash(why)
  PROVE  Order' /\ FifoRest' /\ Abstract
<1>1. /\ pending' = pending /\ ticket' = ticket /\ tickets' = tickets
      /\ promise' = promise /\ timer' = timer /\ timerModbus' = timerModbus
      /\ write' = write /\ error' = error /\ chunk' = chunk
  BY DEF Crash, historyVars, requestVars
<1>2. Order' /\ Open' = Open /\ Abstract
  BY <1>1, OrderUnchanged
<1> QED
  BY <1>1, <1>2 DEF FifoInv, FifoRest, OpenTimers, StrayFailed, ModbusWritten,
                    TicketsGiven, ChunkQuiet, OneOpen

\* handleError(r) drops the first request; r is the first request, or it has
\* failed before and the exception ends the process.
LEMMA HandleErrorFifo ==
  ASSUME FifoInv, NEW r \in Requests, r \notin error => r \in Open, chunk = <<>>,
         r \in Open => pending # <<>> /\ r = Head(pending),
         NEW l, NEW w \in [Requests -> {"none", "issued", "done"}],
         \A s \in Requests : w[s] = write[s] \/ (write[s] = "issued" /\ w[s] = "done"),
         HandleError(r, w, l)
  PROVE  Order' /\ FifoRest' /\ Abstract
<1>1. CASE r \in error
  BY <1>1, CrashFifo DEF HandleError
<1>2. CASE r \notin error
  <2>1. /\ r \in Open /\ pending # <<>> /\ r = Head(pending)
        /\ pending' = Tail(pending) /\ Rest = Tail(pending)
        /\ ticket' = ticket /\ tickets' = tickets /\ chunk' = <<>>
        /\ promise' = [promise EXCEPT ![r] = IF @ = "open" THEN "rejected" ELSE @]
        /\ error' = error \cup {r} /\ timer' = timer \ {r}
        /\ timerModbus' = timerModbus \ {r}
        /\ WriteHead(Tail(pending), w, l)
    BY <1>2 DEF HandleError, Rest, historyVars
  <2>2. Order' /\ Open' = Open \ {r} /\ Abstract
    BY <2>1, SettleHead
  <2>3. OpenTimers'
    <3>1. promise' = [promise EXCEPT ![r] = "rejected"]
      BY <2>1, Types DEF FifoInv, Open
    <3>2. \A s \in error' : promise'[s] \in {"resolved", "rejected"}
      BY <2>1, <3>1, Types DEF FifoInv, OpenTimers
    <3>3. timer' = Open'
      BY <2>1, <2>2 DEF FifoInv, OpenTimers
    <3> QED
      BY <3>2, <3>3 DEF OpenTimers
  <2>4. \A s \in Requests :
          \/ write'[s] = w[s]
          \/ /\ s \in Open' /\ write[s] = "none" /\ Tail(pending) # <<>>
             /\ s = Head(Tail(pending)) /\ write'[s] = "issued"
    <3>1. CASE Tail(pending) = <<>>
      BY <2>1, <3>1 DEF WriteHead
    <3>2. CASE Tail(pending) # <<>>
      <4> DEFINE n == Head(Tail(pending))
      <4>1. /\ n \in Requests /\ n = pending[2] /\ 2 \in 1 .. Len(pending)
            /\ 1 \in 1 .. Len(pending) /\ r = pending[1]
        BY <2>1, <3>2, TailFacts, Types DEF FifoInv
      <4>2. n # r /\ write[n] = "none" /\ n \in Open
        BY <4>1 DEF FifoInv, Order, OnlyOpen, QueueInv, QueueShape, Distinct,
                    TailUnwritten
      <4>3. write' = [w EXCEPT ![n] = "issued"]
        BY <2>1, <3>2 DEF WriteHead
      <4> QED
        BY <2>2, <3>2, <4>1, <4>2, <4>3
    <3> QED
      BY <3>1, <3>2
  <2>5. StrayFailed'
    <3> SUFFICES ASSUME NEW s \in Requests, s \notin Open',
                        s \in timerModbus' \/ write'[s] = "issued"
                 PROVE  s \in error'
      BY DEF StrayFailed
    <3>1. CASE s = r
      BY <2>1, <3>1
    <3>2. CASE s # r
      <4>1. s \notin Open
        BY <2>2, <3>2
      <4>2. s \in timerModbus \/ write[s] = "issued"
        BY <2>1, <2>4
      <4> QED
        BY <2>1, <4>1, <4>2 DEF FifoInv, StrayFailed
    <3> QED
      BY <3>1, <3>2
  <2>6. ModbusWritten'
    BY <2>1, <2>4, Types DEF FifoInv, ModbusWritten
  <2>7. TicketsGiven' /\ ChunkQuiet' /\ OneOpen'
    BY <2>1, TailFacts, Types DEF FifoInv, TicketsGiven, ChunkQuiet, OneOpen
  <2> QED
    BY <2>2, <2>3, <2>5, <2>6, <2>7 DEF FifoRest
<1> QED
  BY <1>1, <1>2

\* A frame settles the first request, whose write has been called back.
LEMMA FinishFifo ==
  ASSUME FifoInv, Parsed, NEW o \in {"resolved", "rejected"}, Finish(o),
         error' \in {error, error \cup {First}}
  PROVE  Order' /\ FifoRest' /\ Abstract
<1>1. /\ pending # <<>> /\ First = Head(pending) /\ chunk # <<>> /\ First \in Requests
      /\ pending' = Tail(pending) /\ ticket' = ticket /\ tickets' = tickets
      /\ promise' = [promise EXCEPT ![First] = IF @ = "open" THEN o ELSE @]
      /\ timer' = timer \ {First} /\ timerModbus' = timerModbus \ {First}
      /\ WriteHead(Tail(pending), write, line) /\ chunk' = Tail(chunk)
  BY HeadFacts, Types DEF FifoInv, Parsed, First, Finish, historyVars
<1>2. Order' /\ Open' = Open \ {First} /\ Abstract
  BY <1>1, SettleHead
<1>3. \A r \in Requests : write[r] # "issued"
  BY <1>1 DEF FifoInv, ChunkQuiet
<1>4. chunk' = <<>> \/ (MaxOpen = 1 /\ Tail(pending) = <<>>)
  <2>1. CASE Len(chunk) = 1
    <3>1. Tail(chunk) \in Seq(Frame) /\ Len(Tail(chunk)) = 0
      BY <1>1, <2>1, TailFacts, Types DEF FifoInv
    <3> QED
      BY <1>1, <3>1
  <2>2. CASE MaxOpen = 1
    BY <1>1, <2>2, AloneFacts
  <2> QED
    BY <1>1, <2>1, <2>2 DEF FifoInv, ChunkQuiet
<1>5. OpenTimers'
  <2>1. promise' = [promise EXCEPT ![First] = o]
    BY <1>1, HeadFacts, Types DEF FifoInv, Open
  <2>2. \A s \in error' : promise'[s] \in {"resolved", "rejected"}
    BY <1>1, <2>1, Types DEF FifoInv, OpenTimers
  <2>3. timer' = Open'
    BY <1>1, <1>2 DEF FifoInv, OpenTimers
  <2> QED
    BY <2>2, <2>3 DEF OpenTimers
<1>6. \A s \in Requests :
        \/ write'[s] = write[s]
        \/ s \in Open' /\ write[s] = "none" /\ write'[s] = "issued"
  <2>1. CASE Tail(pending) = <<>>
    BY <1>1, <2>1 DEF WriteHead
  <2>2. CASE Tail(pending) # <<>>
    <3> DEFINE n == Head(Tail(pending))
    <3>1. /\ n \in Requests /\ n = pending[2] /\ 2 \in 1 .. Len(pending)
          /\ 1 \in 1 .. Len(pending) /\ First = pending[1]
      BY <1>1, <2>2, TailFacts, Types DEF FifoInv
    <3>2. n # First /\ write[n] = "none" /\ n \in Open
      BY <3>1 DEF FifoInv, Order, OnlyOpen, QueueInv, QueueShape, Distinct,
                  TailUnwritten
    <3>3. write' = [write EXCEPT ![n] = "issued"]
      BY <1>1, <2>2 DEF WriteHead
    <3> QED
      BY <1>2, <3>1, <3>2, <3>3, Types DEF FifoInv
  <2> QED
    BY <2>1, <2>2
<1>7. StrayFailed'
  <2> SUFFICES ASSUME NEW s \in Requests, s \notin Open',
                      s \in timerModbus' \/ write'[s] = "issued"
               PROVE  s \in error'
    BY DEF StrayFailed
  <2>1. s \in timerModbus /\ s # First
    BY <1>1, <1>3, <1>6
  <2>2. s \in error
    BY <1>2, <2>1 DEF FifoInv, StrayFailed
  <2> QED
    BY <2>2
<1>8. ModbusWritten'
  BY <1>1, <1>6, Types DEF FifoInv, ModbusWritten
<1>9. ChunkQuiet'
  <2>1. CASE chunk' = <<>>
    BY <2>1 DEF ChunkQuiet
  <2>2. CASE MaxOpen = 1 /\ Tail(pending) = <<>>
    BY <1>1, <1>3, <2>2 DEF ChunkQuiet, WriteHead
  <2> QED
    BY <1>4, <2>1, <2>2
<1>10. TicketsGiven' /\ OneOpen'
  BY <1>1, TailFacts, Types DEF FifoInv, TicketsGiven, OneOpen
<1> QED
  BY <1>2, <1>5, <1>7, <1>8, <1>9, <1>10 DEF FifoRest

\* A caller that may have one request open has none when it sends one.
LEMMA NoneOpen ==
  ASSUME FifoInv, MaxOpen = 1, Cardinality(Open) < MaxOpen
  PROVE  pending = <<>>
<1> SUFFICES ASSUME pending # <<>> PROVE FALSE
  OBVIOUS
<1>1. Open = {Head(pending)}
  BY AloneFacts
<1>2. Cardinality(Open) = 1
  BY <1>1, FS_Singleton
<1> QED
  BY <1>2

LEMMA SendFifo ==
  ASSUME FifoInv, NEW r \in Requests, Send(r)
  PROVE  Order' /\ FifoRest' /\ Abstract
<1>1. /\ pending \in Seq(Requests) /\ Len(pending) \in Nat
      /\ \A i \in 1 .. Len(pending) : pending[i] \in Requests
      /\ tickets \in Nat /\ ticket \in [Requests -> Nat]
      /\ promise \in [Requests -> {"unsent", "refused", "open", "resolved", "rejected"}]
  BY Types DEF FifoInv
<1>2. /\ promise[r] = "unsent" /\ promise' = [promise EXCEPT ![r] = "open"]
      /\ pending' = Append(pending, r) /\ timer' = timer \cup {r}
      /\ tickets' = tickets + 1 /\ ticket' = [ticket EXCEPT ![r] = tickets + 1]
      /\ error' = error /\ timerModbus' = timerModbus /\ chunk' = chunk /\ chunk = <<>>
  BY DEF Send, Idle
<1>3. r \notin Open /\ Open' = Open \cup {r}
  BY <1>1, <1>2 DEF Open
<1>4. /\ Len(pending') = Len(pending) + 1 /\ pending'[Len(pending) + 1] = r
      /\ \A i \in 1 .. Len(pending) : pending'[i] = pending[i] /\ pending[i] # r
  <2>1. \A i \in 1 .. Len(pending) : pending[i] # r
    BY <1>1, <1>3 DEF FifoInv, Order, OnlyOpen
  <2> QED
    BY <1>1, <1>2, <2>1
<1>5. InOrder'
  <2> SUFFICES ASSUME NEW i \in 1 .. (Len(pending) + 1),
                      NEW j \in 1 .. (Len(pending) + 1), i < j
               PROVE  ticket'[pending'[i]] < ticket'[pending'[j]]
    BY <1>4 DEF InOrder
  <2>1. i \in 1 .. Len(pending) /\ pending'[i] = pending[i] /\ pending[i] # r
        /\ pending[i] \in Requests
    <3>1. i \in 1 .. Len(pending)
      BY <1>1
    <3> QED
      BY <1>1, <1>4, <3>1
  <2>2. ticket'[pending'[i]] = ticket[pending[i]] /\ ticket[pending[i]] <= tickets
    BY <1>1, <1>2, <2>1 DEF FifoInv, TicketsGiven
  <2>3. CASE j = Len(pending) + 1
    <3>1. ticket'[pending'[j]] = tickets + 1
      BY <1>1, <1>2, <1>4, <2>3
    <3> QED
      BY <1>1, <2>1, <2>2, <3>1
  <2>4. CASE j \in 1 .. Len(pending)
    <3>1. ticket'[pending'[j]] = ticket[pending[j]]
      BY <1>1, <1>2, <1>4, <2>4
    <3>2. ticket[pending[i]] < ticket[pending[j]]
      BY <2>1, <2>4 DEF FifoInv, Order, InOrder
    <3> QED
      BY <2>2, <3>1, <3>2
  <2>5. j = Len(pending) + 1 \/ j \in 1 .. Len(pending)
    <3>1. Len(pending) \in Nat
      BY <1>1
    <3> QED
      BY <3>1
  <2> QED
    BY <2>3, <2>4, <2>5
<1>6. OnlyOpen'
  <2>1. ASSUME NEW s \in Requests, s \in Open'
        PROVE  \E i \in 1 .. Len(pending') : pending'[i] = s
    <3>1. CASE s = r
      <4>1. Len(pending) + 1 \in 1 .. Len(pending')
        BY <1>1, <1>4
      <4> QED
        BY <1>4, <3>1, <4>1
    <3>2. CASE s # r
      <4>1. PICK i \in 1 .. Len(pending) : pending[i] = s
        BY <1>3, <2>1, <3>2 DEF FifoInv, Order, OnlyOpen
      <4>2. i \in 1 .. Len(pending') /\ pending'[i] = s
        BY <1>1, <1>4, <4>1
      <4> QED
        BY <4>2
    <3> QED
      BY <3>1, <3>2
  <2>2. ASSUME NEW s \in Requests, NEW i \in 1 .. Len(pending'), pending'[i] = s
        PROVE  s \in Open'
    <3>1. CASE i = Len(pending) + 1
      BY <1>3, <1>4, <2>2, <3>1
    <3>2. CASE i \in 1 .. Len(pending)
      BY <1>3, <1>4, <2>2, <3>2 DEF FifoInv, Order, OnlyOpen
    <3> QED
      BY <1>1, <1>4, <3>1, <3>2
  <2> QED
    BY <2>1, <2>2 DEF OnlyOpen
<1>7. \A s \in Requests : s = r \/ write'[s] = write[s]
  <2>1. CASE pending = <<>>
    <3>1. <<r>> # <<>> /\ Head(<<r>>) = r
      OBVIOUS
    <3> QED
      BY <2>1, <3>1, Types DEF Send, WriteHead, FifoInv
  <2>2. CASE pending # <<>>
    BY <2>2 DEF Send
  <2> QED
    BY <2>1, <2>2
<1>8. write[r] = "none"
  BY <1>2 DEF FifoInv, QueueInv, QueueShape, NotSentUnwritten, NotSent
<1>9. OpenTimers'
  <2>1. r \notin error
    BY <1>2 DEF FifoInv, OpenTimers
  <2> QED
    BY <1>1, <1>2, <1>3, <2>1, Types DEF FifoInv, OpenTimers
<1>10. StrayFailed' /\ ModbusWritten'
  BY <1>2, <1>3, <1>7, <1>8, Types DEF FifoInv, StrayFailed, ModbusWritten
<1>11. TicketsGiven' /\ ChunkQuiet' /\ OneOpen'
  <2>1. TicketsGiven' /\ ChunkQuiet'
    BY <1>1, <1>2 DEF FifoInv, TicketsGiven, ChunkQuiet
  <2>2. MaxOpen = 1 => Len(pending') <= 1
    <3>1. MaxOpen = 1 => pending = <<>>
      BY NoneOpen DEF Send
    <3> QED
      BY <1>4, <3>1
  <2> QED
    BY <2>1, <2>2 DEF OneOpen
<1>12. Abstract
  <2>1. Queue!Submit(r)
    BY <1>2 DEF Queue!Submit
  <2> QED
    BY <2>1 DEF Abstract, Queue!Next
<1> QED
  BY <1>5, <1>6, <1>9, <1>10, <1>11, <1>12 DEF Order, FifoRest

LEMMA TimersFifo ==
  ASSUME Orderly, FifoInv, NEW r \in Requests, Timers(r)
  PROVE  Order' /\ FifoRest' /\ Abstract
<1>1. /\ write \in [Requests -> {"none", "issued", "done"}]
      /\ HandleError(r, write, line) /\ chunk = <<>>
  BY Types DEF FifoInv, Timers, TotalTimeout, ModbusTimeout, Idle
<1>2. (r \notin error => r \in Open) /\ (r \in Open => pending # <<>> /\ r = Head(pending))
  <2>1. CASE TotalTimeout(r)
    <3>1. r \in Open /\ \A s \in Open : ticket[r] <= ticket[s]
      BY <2>1 DEF TotalTimeout, Orderly, FifoInv, OpenTimers
    <3> QED
      BY <3>1, EarliestIsHead
  <2>2. CASE ModbusTimeout(r)
    <3>1. r \in timerModbus /\ write[r] = "done"
      BY <2>2 DEF ModbusTimeout, FifoInv, ModbusWritten
    <3> QED
      BY <3>1, WrittenIsHead DEF FifoInv, StrayFailed
  <2> QED
    BY <2>1, <2>2 DEF Timers
<1> QED
  BY <1>1, <1>2, HandleErrorFifo

LEMMA WriteDoneFifo ==
  ASSUME FifoInv, NEW r \in Requests, WriteDone(r)
  PROVE  Order' /\ FifoRest' /\ Abstract
<1>1. /\ pending' = pending /\ ticket' = ticket /\ tickets' = tickets
      /\ promise' = promise /\ timer' = timer /\ error' = error /\ chunk' = <<>>
      /\ timerModbus' = timerModbus \cup {r}
      /\ write[r] = "issued" /\ write' = [write EXCEPT ![r] = "done"]
  BY DEF WriteDone, Idle, historyVars
<1>2. Order' /\ Open' = Open /\ Abstract
  BY <1>1, OrderUnchanged
<1>3. OpenTimers' /\ TicketsGiven' /\ ChunkQuiet' /\ OneOpen'
  BY <1>1, <1>2 DEF FifoInv, OpenTimers, TicketsGiven, ChunkQuiet, OneOpen
<1>4. ModbusWritten'
  BY <1>1, Types DEF FifoInv, ModbusWritten
<1>5. StrayFailed'
  BY <1>1, <1>2, Types DEF FifoInv, StrayFailed
<1> QED
  BY <1>2, <1>3, <1>4, <1>5 DEF FifoRest

LEMMA WriteFailedFifo ==
  ASSUME FifoInv, NEW r \in Requests, WriteFailed(r)
  PROVE  Order' /\ FifoRest' /\ Abstract
<1> DEFINE w == [write EXCEPT ![r] = "done"]
<1>1. /\ w \in [Requests -> {"none", "issued", "done"}] /\ write[r] = "issued"
      /\ \A s \in Requests : w[s] = write[s] \/ (write[s] = "issued" /\ w[s] = "done")
      /\ chunk = <<>>
  BY Types DEF WriteFailed, FifoInv, Idle
<1>2. PICK l : HandleError(r, w, l)
  BY Zenon DEF WriteFailed
<1>3. (r \notin error => r \in Open) /\ (r \in Open => pending # <<>> /\ r = Head(pending))
  BY <1>1, WrittenIsHead DEF FifoInv, StrayFailed
<1> HIDE DEF w
<1> QED
  BY <1>1, <1>2, <1>3, HandleErrorFifo

LEMMA DataEventFifo ==
  ASSUME Orderly, FifoInv, NEW n \in 0 .. MaxChunk, NEW p \in BOOLEAN, DataEvent(n, p)
  PROVE  ChunkQuiet'
<1>1. \A r \in Requests : write'[r] # "issued"
  BY DEF Orderly, DataEvent
<1>2. CASE MaxOpen = 1
  BY <1>1, <1>2 DEF ChunkQuiet
<1>3. CASE MaxChunk = 1
  <2>1. n \in {0, 1} /\ n <= Len(wire) /\ wire \in Seq(Frame) /\ Len(wire) \in Nat
    BY <1>3 DEF DataEvent, FifoInv, QueueInv, TypeOK
  <2>2. \A c \in Completed(n) : c = <<>> \/ Len(c) = 1
    <3>1. SubSeq(wire, 1, n) = <<>> \/ Len(SubSeq(wire, 1, n)) = 1
      BY <2>1
    <3>2. ASSUME n = 1, NEW x PROVE Len(<<x>> \o SubSeq(wire, 2, n)) = 1
      <4>1. SubSeq(wire, 2, 1) = <<>>
        BY <2>1, <3>2
      <4> QED
        BY <3>2, <4>1
    <3>3. CASE n > 0 /\ begun /\ frame # "start"
      <4>1. n = 1
        BY <2>1, <3>3
      <4> QED
        BY <3>2, <3>3, <4>1 DEF Completed
    <3>4. CASE ~(n > 0 /\ begun /\ frame # "start")
      BY <3>1, <3>4 DEF Completed
    <3> QED
      BY <3>3, <3>4
  <2>3. chunk' = <<>> \/ chunk' \in Completed(n)
    <3>1. CASE pending = <<>>
      BY <3>1 DEF DataEvent
    <3>2. CASE pending # <<>>
      BY <3>2, Zenon DEF DataEvent
    <3> QED
      BY <3>1, <3>2
  <2> QED
    BY <1>1, <2>2, <2>3 DEF ChunkQuiet
<1> QED
  BY <1>2, <1>3 DEF Orderly

LEMMA FifoInit == Init => FifoInv /\ Queue!Init
<1> SUFFICES ASSUME Init PROVE FifoInv /\ Queue!Init
  OBVIOUS
<1>1. QueueInv
  BY QueueInit
<1>2. Len(pending) = 0 /\ Open = {}
  BY DEF Init, Open
<1>3. Order
  BY <1>2 DEF Order, InOrder, OnlyOpen
<1>4. OpenTimers /\ StrayFailed /\ ModbusWritten /\ TicketsGiven /\ ChunkQuiet /\ OneOpen
  BY <1>2 DEF Init, OpenTimers, StrayFailed, ModbusWritten, TicketsGiven, ChunkQuiet, OneOpen
<1>5. Queue!Init
  BY DEF Init, Queue!Init
<1> QED
  BY <1>1, <1>3, <1>4, <1>5 DEF FifoInv

LEMMA FifoStep ==
  Orderly => (FifoInv /\ [Next]_vars => FifoInv' /\ Abstract)
<1> SUFFICES ASSUME Orderly, FifoInv, [Next]_vars
             PROVE  Order' /\ FifoRest' /\ Abstract
  BY QueueStep DEF FifoInv, FifoRest
<1>1. ASSUME NEW r \in Requests, Send(r)
      PROVE  Order' /\ FifoRest' /\ Abstract
  BY <1>1, SendFifo
<1>2. ASSUME NEW r \in Requests, SendRefused(r)
      PROVE  Order' /\ FifoRest' /\ Abstract
  <2>1. /\ pending' = pending /\ ticket' = ticket /\ tickets' = tickets
        /\ write' = write /\ timer' = timer /\ timerModbus' = timerModbus
        /\ error' = error /\ chunk' = chunk
        /\ promise[r] = "unsent" /\ promise' = [promise EXCEPT ![r] = "refused"]
    BY <1>2 DEF SendRefused, historyVars
  <2>2. Open' = Open /\ r \notin error
    BY <2>1, Types DEF FifoInv, Open, OpenTimers
  <2>3. Order'
    BY <2>1, <2>2 DEF FifoInv, Order, InOrder, OnlyOpen
  <2>4. OpenTimers'
    BY <2>1, <2>2, Types DEF FifoInv, OpenTimers
  <2>5. StrayFailed' /\ ModbusWritten' /\ TicketsGiven' /\ ChunkQuiet' /\ OneOpen'
    BY <2>1, <2>2 DEF FifoInv, StrayFailed, ModbusWritten, TicketsGiven, ChunkQuiet, OneOpen
  <2>6. Abstract
    <3>1. Queue!Refuse(r)
      BY <2>1 DEF Queue!Refuse
    <3> QED
      BY <3>1 DEF Abstract, Queue!Next
  <2> QED
    BY <2>3, <2>4, <2>5, <2>6 DEF FifoRest
<1>3. ASSUME NEW r \in Requests, Timers(r)
      PROVE  Order' /\ FifoRest' /\ Abstract
  BY <1>3, TimersFifo
<1>4. ASSUME NEW r \in Requests, Written(r)
      PROVE  Order' /\ FifoRest' /\ Abstract
  BY <1>4, WriteDoneFifo, WriteFailedFifo DEF Written
<1>5. CASE FrameIsResponse \/ FrameRejected
  <2>1. CASE First \in error
    BY <1>5, <2>1, CrashFifo DEF FrameIsResponse, FrameRejected
  <2>2. CASE First \notin error
    BY <1>5, <2>2, FinishFifo DEF FrameIsResponse, FrameRejected
  <2> QED
    BY <2>1, <2>2
<1>6. CASE FrameThrows
  BY <1>6, CrashFifo DEF FrameThrows
<1>7. CASE Port \/ Environment \/ Data \/ FrameIgnored \/ FrameIsEcho \/ UNCHANGED vars
  <2>1. /\ pending' = pending /\ write' = write /\ promise' = promise /\ timer' = timer
        /\ ticket' = ticket /\ tickets' = tickets /\ timerModbus' = timerModbus
        /\ error' = error
    BY <1>7 DEF Port, OpenCall, OpenDone, Environment, GatewayForwards, GatewayDrops,
                SlaveAnswers, SlaveSilent, Data, DataEvent, FrameIgnored, FrameIsEcho,
                vars, requestVars, historyVars
  <2>2. Order' /\ Open' = Open /\ Abstract
    BY <2>1, OrderUnchanged
  <2>3. ChunkQuiet'
    <3>1. CASE Data
      BY <3>1, DataEventFifo DEF Data
    <3>2. CASE FrameIgnored \/ FrameIsEcho
      <4>1. chunk # <<>> /\ chunk' = Tail(chunk)
        BY <3>2 DEF FrameIgnored, FrameIsEcho, Parsed
      <4>2. Tail(chunk) = <<>> \/ MaxOpen = 1
        <5>1. CASE Len(chunk) = 1
          <6>1. Len(Tail(chunk)) = 0 /\ Tail(chunk) \in Seq(Frame)
            BY <4>1, <5>1, TailFacts, Types DEF FifoInv
          <6> QED
            BY <6>1, EmptySeq
        <5> QED
          BY <4>1, <5>1 DEF FifoInv, ChunkQuiet
      <4> QED
        BY <2>1, <4>1, <4>2 DEF FifoInv, ChunkQuiet
    <3>3. CASE Port \/ Environment \/ UNCHANGED vars
      <4>1. chunk' = chunk
        BY <3>3 DEF Port, OpenCall, OpenDone, Environment, GatewayForwards,
                    GatewayDrops, SlaveAnswers, SlaveSilent, vars
      <4> QED
        BY <2>1, <4>1 DEF FifoInv, ChunkQuiet
    <3> QED
      BY <1>7, <3>1, <3>2, <3>3
  <2>4. OpenTimers' /\ StrayFailed' /\ ModbusWritten' /\ TicketsGiven' /\ OneOpen'
    BY <2>1, <2>2 DEF FifoInv, OpenTimers, StrayFailed, ModbusWritten, TicketsGiven, OneOpen
  <2> QED
    BY <2>2, <2>3, <2>4 DEF FifoRest
<1> QED
  BY <1>1, <1>2, <1>3, <1>4, <1>5, <1>6, <1>7 DEF Next, Call, HandleFrame

\* In an orderly environment, with noise and with a slow line and slave, _pending
\* holds exactly the open requests in the order of the calls: handleError(r),
\* which drops whatever is first, drops r.
THEOREM PendingStaysOpen ==
  ASSUME Orderly
  PROVE  Safety => []PendingIsOpen
<1>1. FifoInv => PendingIsOpen
  <2> SUFFICES ASSUME FifoInv PROVE PendingIsOpen
    OBVIOUS
  <2>1. DOMAIN pending = 1 .. Len(pending)
    BY Types DEF FifoInv
  <2>2. {pending[i] : i \in DOMAIN pending} = Open
    BY <2>1, Types DEF FifoInv, Order, OnlyOpen
  <2> QED
    BY <2>1, <2>2 DEF PendingIsOpen, FifoInv, Order, InOrder
<1>2. FifoInv /\ [Next]_vars => FifoInv'
  BY FifoStep
<1>3. Init => FifoInv
  BY FifoInit
<1> QED
  BY <1>1, <1>2, <1>3, PTL DEF Safety

\* In an orderly environment the queue implements RequestQueue: requests are
\* settled once, for good, and in the order of the calls.
THEOREM ImplementsQueue ==
  ASSUME Orderly
  PROVE  Safety => QueueSafety
<1>1. FifoInv /\ [Next]_vars => FifoInv'
  BY FifoStep
<1>2. FifoInv /\ [Next]_vars => [Queue!Next]_(Queue!vars)
  BY FifoStep DEF Abstract
<1>3. Init => FifoInv /\ Queue!Init
  BY FifoInit
<1> QED
  BY <1>1, <1>2, <1>3, PTL DEF Safety, QueueSafety, Queue!Safety

-----------------------------------------------------------------------------
(* One caller at a time *)

\* The environment of SerialSingle: frames are late or cut, and the port fails.
OneCaller ==
  /\ MaxOpen = 1
  /\ Faults \subseteq {"slowLine", "splitFrames", "portErrors"}
  /\ \A r, s \in Requests : Content[r] = Content[s] => r = s

\* What is still to be handled.
Coming == chunk \o wire

NoneOf(q, r) == \A i \in 1 .. Len(q) : q[i].of # r

\* The echo of r, or its echo and its answer, come last.
EchoLast(q, r) ==
  /\ Len(q) > 0 /\ q[Len(q)] = Sound("echo", r)
  /\ \A i \in 1 .. (Len(q) - 1) : q[i].of # r

BothLast(q, r) ==
  /\ Len(q) > 1 /\ q[Len(q) - 1] = Sound("echo", r) /\ q[Len(q)] = Sound("answer", r)
  /\ \A i \in 1 .. (Len(q) - 2) : q[i].of # r

OnLine(r) == \E i \in 1 .. Len(line) : line[i] = r

\* What can be under way for the open request r.
Progress(q, r) ==
  \/ r \notin echo /\ r \notin slave /\ NoneOf(q, r)
  \/ r \notin echo /\ ~OnLine(r) /\ EchoLast(q, r)
  \/ r \notin echo /\ ~OnLine(r) /\ r \notin slave /\ BothLast(q, r)
  \/ r \in echo /\ ~OnLine(r) /\ q = <<>>
  \/ r \in echo /\ ~OnLine(r) /\ r \notin slave /\ q = <<Sound("answer", r)>>

\* Frames are sound and belong to requests that have been sent.
FramesSound(q) ==
  \A i \in 1 .. Len(q) :
    /\ q[i].kind \in {"echo", "answer"} /\ q[i].lrcOk
    /\ promise[q[i].of] \notin NotSent
    /\ "slowLine" \notin Faults => q[i].of \in Open

\* Nothing happens for a request that is settled.
Calm ==
  /\ \A r \in Requests : r \in timerModbus \/ write[r] = "issued" => r \in Open
  /\ slave \subseteq Open /\ queued = {}
  /\ Len(line) <= 1 /\ \A i \in 1 .. Len(line) : line[i] \in Open
  /\ port # "open" => line = <<>> /\ slave = {} /\ wire = <<>>

\* The start of a frame that has been delivered has not been dropped.
Whole ==
  begun => /\ frame = "start" /\ wire # <<>>
           /\ pending # <<>> /\ wire[1].of = Head(pending)

OwnAnswer ==
  \A r \in Requests :
    promise[r] = "resolved" => response[r].kind = "answer" /\ response[r].of = r

LineInv ==
  /\ crashed = "no"
  /\ FramesSound(Coming)
  /\ \A r \in Open : Progress(Coming, r)
  /\ \A r \in echo : promise[r] \notin NotSent
  /\ chunk # <<>> => pending # <<>>
  /\ Calm /\ Whole /\ OwnAnswer

-----------------------------------------------------------------------------
(* Sequences of frames *)

LEMMA SameFrames ==
  ASSUME NEW p \in Seq(Frame), NEW q \in Seq(Frame), Len(p) = Len(q),
         \A i \in 1 .. Len(p) : p[i] = q[i]
  PROVE  p = q
  OBVIOUS

LEMMA OneFrame ==
  ASSUME NEW q \in Seq(Frame), Len(q) = 1
  PROVE  q = <<q[1]>>
<1>1. q[1] \in Frame
  OBVIOUS
<1>2. <<q[1]>> \in Seq(Frame) /\ Len(<<q[1]>>) = 1 /\ <<q[1]>>[1] = q[1]
  BY <1>1
<1>3. \A i \in 1 .. Len(q) : q[i] = <<q[1]>>[i]
  BY <1>2
<1> QED
  BY <1>2, <1>3, SameFrames

LEMMA SoundFields ==
  ASSUME NEW k, NEW r
  PROVE  Sound(k, r).kind = k /\ Sound(k, r).of = r /\ Sound(k, r).lrcOk
  BY DEF Sound

LEMMA AppendFrame ==
  ASSUME NEW q \in Seq(Frame), NEW f \in Frame
  PROVE  /\ Append(q, f) \in Seq(Frame) /\ Len(q) \in Nat
         /\ Len(Append(q, f)) = Len(q) + 1 /\ Append(q, f)[Len(q) + 1] = f
         /\ \A i \in 1 .. Len(q) : Append(q, f)[i] = q[i]
  OBVIOUS

LEMMA EchoComes ==
  ASSUME NEW q \in Seq(Frame), NEW r \in Requests, NoneOf(q, r)
  PROVE  EchoLast(Append(q, Sound("echo", r)), r)
<1>1. Sound("echo", r) \in Frame
  BY DEF Sound, Frame, FrameKinds
<1> QED
  BY <1>1, AppendFrame DEF NoneOf, EchoLast

LEMMA AnswerComes ==
  ASSUME NEW q \in Seq(Frame), NEW r \in Requests, EchoLast(q, r)
  PROVE  BothLast(Append(q, Sound("answer", r)), r)
<1>1. Sound("answer", r) \in Frame
  BY DEF Sound, Frame, FrameKinds
<1> QED
  BY <1>1, AppendFrame DEF BothLast, EchoLast

\* The first frame is handled: it is of an older request, or the echo of r.
LEMMA OldFrameGoes ==
  ASSUME NEW q \in Seq(Frame), q # <<>>, NEW r
  PROVE  /\ NoneOf(q, r) => NoneOf(Tail(q), r)
         /\ EchoLast(q, r) /\ q[1] # Sound("echo", r) => EchoLast(Tail(q), r)
         /\ BothLast(q, r) /\ q[1] # Sound("echo", r) => BothLast(Tail(q), r)
<1>1. /\ Len(q) \in Nat /\ Len(q) > 0 /\ Len(Tail(q)) = Len(q) - 1
      /\ \A i \in 1 .. Len(Tail(q)) : Tail(q)[i] = q[i + 1] /\ i + 1 \in 1 .. Len(q)
  BY TailFacts
<1>2. NoneOf(q, r) => NoneOf(Tail(q), r)
  BY <1>1 DEF NoneOf
<1>3. ASSUME EchoLast(q, r), q[1] # Sound("echo", r) PROVE EchoLast(Tail(q), r)
  <2>1. Len(q) > 1
    BY <1>1, <1>3 DEF EchoLast
  <2>2. Tail(q)[Len(q) - 1] = Sound("echo", r)
    <3>1. Len(q) - 1 \in 1 .. Len(Tail(q)) /\ (Len(q) - 1) + 1 = Len(q)
      BY <1>1, <2>1
    <3>2. Tail(q)[Len(q) - 1] = q[Len(q)]
      BY <1>1, <3>1
    <3> QED
      BY <1>3, <3>2 DEF EchoLast
  <2>3. \A i \in 1 .. (Len(q) - 2) : i + 1 \in 1 .. (Len(q) - 1) /\ Tail(q)[i] = q[i + 1]
    BY <1>1, <2>1
  <2> QED
    BY <1>1, <1>3, <2>1, <2>2, <2>3 DEF EchoLast
<1>4. ASSUME BothLast(q, r), q[1] # Sound("echo", r) PROVE BothLast(Tail(q), r)
  <2>1. Len(q) > 2
    BY <1>1, <1>4 DEF BothLast
  <2>2. Tail(q)[Len(q) - 1] = Sound("answer", r) /\ Tail(q)[Len(q) - 2] = Sound("echo", r)
    <3>1. /\ Len(q) - 1 \in 1 .. Len(Tail(q)) /\ (Len(q) - 1) + 1 = Len(q)
          /\ Len(q) - 2 \in 1 .. Len(Tail(q)) /\ (Len(q) - 2) + 1 = Len(q) - 1
      BY <1>1, <2>1
    <3>2. Tail(q)[Len(q) - 1] = q[Len(q)] /\ Tail(q)[Len(q) - 2] = q[Len(q) - 1]
      BY <1>1, <3>1
    <3> QED
      BY <1>4, <3>2 DEF BothLast
  <2>3. \A i \in 1 .. (Len(q) - 3) : i + 1 \in 1 .. (Len(q) - 2) /\ Tail(q)[i] = q[i + 1]
    BY <1>1, <2>1
  <2> QED
    BY <1>1, <1>4, <2>1, <2>2, <2>3 DEF BothLast
<1> QED
  BY <1>2, <1>3, <1>4

LEMMA EchoGoes ==
  ASSUME NEW q \in Seq(Frame), q # <<>>, NEW r \in Requests, q[1].of = r
  PROVE  /\ ~NoneOf(q, r)
         /\ EchoLast(q, r) => Tail(q) = <<>>
         /\ BothLast(q, r) => Tail(q) = <<Sound("answer", r)>>
<1>1. /\ Len(q) \in Nat /\ Len(q) > 0 /\ Len(Tail(q)) = Len(q) - 1
      /\ Tail(q) \in Seq(Frame)
      /\ \A i \in 1 .. Len(Tail(q)) : Tail(q)[i] = q[i + 1] /\ i + 1 \in 1 .. Len(q)
  BY TailFacts
<1>2. ~NoneOf(q, r)
  BY <1>1 DEF NoneOf
<1>3. ASSUME EchoLast(q, r) PROVE Tail(q) = <<>>
  <2>1. Len(Tail(q)) = 0
    BY <1>1, <1>3 DEF EchoLast
  <2> QED
    BY <1>1, <2>1, EmptySeq
<1>4. ASSUME BothLast(q, r) PROVE Tail(q) = <<Sound("answer", r)>>
  <2>1. Len(q) = 2
    BY <1>1, <1>4 DEF BothLast
  <2>2. Len(Tail(q)) = 1 /\ Tail(q)[1] = q[1 + 1]
    <3> DEFINE t == Tail(q)
    <3>1. /\ Len(t) = Len(q) - 1 /\ t \in Seq(Frame)
          /\ \A i \in 1 .. Len(t) : t[i] = q[i + 1]
      BY <1>1
    <3> HIDE DEF t
    <3>2. Len(t) = 1
      BY <2>1, <3>1
    <3>3. t[1] = q[1 + 1]
      BY <3>1, <3>2
    <3> QED
      BY <3>2, <3>3 DEF t
  <2>3. Tail(q)[1] = Sound("answer", r)
    BY <1>4, <2>1, <2>2 DEF BothLast
  <2> QED
    BY <1>1, <2>2, <2>3, OneFrame
<1> QED
  BY <1>2, <1>3, <1>4

\* handleOnSerialData takes the frames one by one.
LEMMA ComingTail ==
  ASSUME NEW c \in Seq(Frame), NEW w \in Seq(Frame), c # <<>>
  PROVE  /\ c \o w \in Seq(Frame) /\ c \o w # <<>> /\ (c \o w)[1] = Head(c)
         /\ Tail(c) \o w = Tail(c \o w)
<1>1. /\ Len(c) \in Nat /\ Len(c) > 0 /\ Len(w) \in Nat /\ Head(c) = c[1]
      /\ Tail(c) \in Seq(Frame) /\ Len(Tail(c)) = Len(c) - 1
      /\ \A i \in 1 .. Len(Tail(c)) : Tail(c)[i] = c[i + 1]
  BY TailFacts
<1>2. /\ c \o w \in Seq(Frame) /\ Len(c \o w) = Len(c) + Len(w)
      /\ \A i \in 1 .. (Len(c) + Len(w)) :
           (c \o w)[i] = IF i <= Len(c) THEN c[i] ELSE w[i - Len(c)]
  BY <1>1
<1>3. c \o w # <<>> /\ (c \o w)[1] = Head(c)
  BY <1>1, <1>2
<1>4. /\ Tail(c \o w) \in Seq(Frame) /\ Len(Tail(c \o w)) = Len(c) + Len(w) - 1
      /\ \A i \in 1 .. (Len(c) + Len(w) - 1) : Tail(c \o w)[i] = (c \o w)[i + 1]
  BY <1>2, <1>3, TailFacts
<1>5. /\ Tail(c) \o w \in Seq(Frame) /\ Len(Tail(c) \o w) = Len(c) - 1 + Len(w)
      /\ \A i \in 1 .. (Len(c) - 1 + Len(w)) :
           (Tail(c) \o w)[i] = IF i <= Len(c) - 1 THEN Tail(c)[i] ELSE w[i - (Len(c) - 1)]
  BY <1>1
<1>6. ASSUME NEW i \in 1 .. (Len(c) + Len(w) - 1)
      PROVE  (Tail(c) \o w)[i] = Tail(c \o w)[i]
  <2>1. i + 1 \in 1 .. (Len(c) + Len(w)) /\ i \in 1 .. (Len(c) - 1 + Len(w))
        /\ (i <= Len(c) - 1 <=> i + 1 <= Len(c)) /\ (i + 1) - Len(c) = i - (Len(c) - 1)
    BY <1>1
  <2>2. i <= Len(c) - 1 => Tail(c)[i] = c[i + 1]
    BY <1>1
  <2> QED
    BY <1>2, <1>4, <1>5, <2>1, <2>2
<1> QED
  BY <1>2, <1>3, <1>4, <1>5, <1>6

\* A data event takes them from the wire.
LEMMA WireSplit ==
  ASSUME NEW w \in Seq(Frame), NEW n \in Nat, n <= Len(w)
  PROVE  /\ SubSeq(w, 1, n) \o SubSeq(w, n + 1, Len(w)) = w
         /\ SubSeq(w, n + 1, Len(w)) \in Seq(Frame)
         /\ Len(SubSeq(w, n + 1, Len(w))) = Len(w) - n
         /\ \A i \in 1 .. (Len(w) - n) : SubSeq(w, n + 1, Len(w))[i] = w[n + i]
<1> DEFINE a == SubSeq(w, 1, n)
           b == SubSeq(w, n + 1, Len(w))
<1>1. /\ a \in Seq(Frame) /\ Len(a) = n /\ Len(w) \in Nat
      /\ \A i \in 1 .. n : a[i] = w[i]
  OBVIOUS
<1>2. /\ b \in Seq(Frame) /\ Len(b) = Len(w) - n
      /\ \A i \in 1 .. (Len(w) - n) : b[i] = w[n + i]
  <2>1. \A i \in 1 .. (Len(w) - n) : b[i] = w[(n + 1) + i - 1]
    BY <1>1
  <2>2. \A i \in 1 .. (Len(w) - n) : (n + 1) + i - 1 = n + i
    BY <1>1
  <2> QED
    BY <1>1, <2>1, <2>2
<1> HIDE DEF a, b
<1>3. /\ a \o b \in Seq(Frame) /\ Len(a \o b) = Len(w)
      /\ \A i \in 1 .. Len(w) : (a \o b)[i] = IF i <= n THEN a[i] ELSE b[i - n]
  BY <1>1, <1>2
<1>4. ASSUME NEW i \in 1 .. Len(w) PROVE (a \o b)[i] = w[i]
  <2>1. CASE i <= n
    BY <1>1, <1>3, <2>1
  <2>2. CASE ~(i <= n)
    <3>1. i - n \in 1 .. (Len(w) - n) /\ n + (i - n) = i
      BY <1>1, <2>2
    <3> QED
      BY <1>2, <1>3, <2>2, <3>1
  <2> QED
    BY <2>1, <2>2
<1>5. a \o b = w
  BY <1>3, <1>4, SameFrames
<1> QED
  BY <1>2, <1>5 DEF a, b

-----------------------------------------------------------------------------
(* Steps *)

LEMMA LineTypes ==
  ASSUME FifoInv
  PROVE  /\ wire \in Seq(Frame) /\ chunk \in Seq(Frame) /\ Coming \in Seq(Frame)
         /\ \A i \in 1 .. Len(Coming) : Coming[i] \in Frame /\ Coming[i].of \in Requests
         /\ line \in Seq(Requests) /\ slave \subseteq Requests /\ echo \subseteq Requests
         /\ response \in [Requests -> Frame \cup {NoFrame}]
         /\ chunk = <<>> => Coming = wire
<1>1. wire \in Seq(Frame) /\ chunk \in Seq(Frame)
  BY DEF FifoInv, QueueInv, TypeOK
<1>2. Coming \in Seq(Frame)
  BY <1>1 DEF Coming
<1>3. \A i \in 1 .. Len(Coming) : Coming[i] \in Frame /\ Coming[i].of \in Requests
  <2>1. \A f \in Frame : f.of \in Requests
    BY DEF Frame
  <2> QED
    BY <1>2, <2>1
<1>4. chunk = <<>> => Coming = wire
  BY <1>1 DEF Coming
<1> QED
  BY <1>1, <1>2, <1>3, <1>4 DEF FifoInv, QueueInv, TypeOK

LEMMA CallerIsOrderly == OneCaller => Orderly
  BY DEF OneCaller, Orderly

\* The port opens, a write is called back, or nothing happens.
LEMMA PortLine ==
  ASSUME FifoInv, LineInv, Port \/ (\E r \in Requests : WriteDone(r)) \/ UNCHANGED vars
  PROVE  LineInv'
<1>1. UNCHANGED << pending, queued, promise, echo, response, line, slave, wire, begun, frame,
                   chunk, crashed >>
  BY DEF Port, OpenCall, OpenDone, WriteDone, vars, historyVars, requestVars, envVars
<1>2. Open' = Open /\ Coming' = Coming
  BY <1>1 DEF Open, Coming
<1>3. port' # "open" => port # "open"
  BY DEF Port, OpenCall, OpenDone, WriteDone, vars
<1>4. \A r \in Requests : r \in timerModbus' \/ write'[r] = "issued" => r \in Open
  <2>1. CASE Port \/ UNCHANGED vars
    BY <2>1 DEF Port, OpenCall, OpenDone, vars, requestVars, LineInv, Calm
  <2>2. ASSUME NEW s \in Requests, WriteDone(s)
        PROVE  \A r \in Requests : r \in timerModbus' \/ write'[r] = "issued" => r \in Open
    BY <2>2, Types DEF WriteDone, LineInv, Calm, FifoInv
  <2> QED
    BY <2>1, <2>2
<1>5. Calm'
  BY <1>1, <1>2, <1>3, <1>4 DEF LineInv, Calm
<1>6. FramesSound(Coming)' /\ (\A r \in Open : Progress(Coming, r))'
  BY <1>1, <1>2 DEF LineInv, FramesSound, Progress, NoneOf, EchoLast, BothLast, OnLine
<1> QED
  BY <1>1, <1>5, <1>6 DEF LineInv, Whole, OwnAnswer

LEMMA RefusedLine ==
  ASSUME FifoInv, LineInv, NEW s \in Requests, SendRefused(s)
  PROVE  LineInv'
<1>1. /\ UNCHANGED << port, pending, queued, timerModbus, write, echo, response, line, slave,
                      wire, begun, frame, chunk, crashed >>
      /\ promise[s] = "unsent" /\ promise' = [promise EXCEPT ![s] = "refused"]
  BY DEF SendRefused, historyVars, envVars
<1>2. /\ Open' = Open /\ Coming' = Coming
      /\ \A r \in Requests : promise[r] \notin NotSent => promise'[r] = promise[r]
      /\ \A r \in Requests : promise'[r] = "resolved" => promise[r] = "resolved"
  BY <1>1, Types DEF Open, Coming, FifoInv, NotSent
<1>3. Calm'
  BY <1>1, <1>2 DEF LineInv, Calm
<1>4. FramesSound(Coming)'
  BY <1>1, <1>2, LineTypes DEF LineInv, FramesSound
<1>5. (\A r \in Open : Progress(Coming, r))'
  BY <1>1, <1>2 DEF LineInv, Progress, NoneOf, EchoLast, BothLast, OnLine
<1>6. \A r \in echo' : promise'[r] \notin NotSent
  BY <1>1, <1>2, LineTypes DEF LineInv
<1> QED
  BY <1>1, <1>2, <1>3, <1>4, <1>5, <1>6 DEF LineInv, Whole, OwnAnswer

\* Nothing is under way for the new request, and nothing else is open.
LEMMA SendLine ==
  ASSUME OneCaller, FifoInv, LineInv, NEW s \in Requests, Send(s)
  PROVE  LineInv'
<1>1. /\ UNCHANGED << port, timerModbus, echo, response, slave, wire, begun, frame, chunk,
                      crashed >>
      /\ promise[s] = "unsent" /\ promise' = [promise EXCEPT ![s] = "open"]
      /\ pending' = Append(pending, s) /\ chunk = <<>>
  BY DEF Send, envVars, Idle
<1>2. pending = <<>> /\ Open = {}
  <2>1. pending = <<>>
    BY NoneOpen DEF OneCaller, Send
  <2> QED
    BY <2>1, Types DEF FifoInv, Order, OnlyOpen
<1>3. /\ Open' = {s} /\ Coming' = Coming /\ queued' = queued
      /\ \A r \in Requests : promise[r] \notin NotSent => promise'[r] = promise[r]
      /\ \A r \in Requests : promise'[r] = "resolved" => promise[r] = "resolved"
  BY <1>1, <1>2, Types DEF Open, Coming, FifoInv, NotSent, Send
<1>4. line = <<>> /\ slave = {} /\ ~begun
  <2>1. Len(line) = 0 /\ slave = {} /\ ~begun
    BY <1>2, LineTypes DEF LineInv, Calm, Whole
  <2> QED
    BY <2>1, LineTypes, EmptySeq
<1>5. /\ write' = [write EXCEPT ![s] = "issued"]
      /\ line' = IF port = "open" THEN <<s>> ELSE <<>>
  <2>1. WriteHead(<<s>>, write, line) /\ <<s>> # <<>> /\ Head(<<s>>) = s
    BY <1>2 DEF Send
  <2> QED
    BY <1>4, <2>1 DEF WriteHead
<1>6. Len(line') <= 1 /\ \A i \in 1 .. Len(line') : line'[i] = s
  BY <1>5
<1>7. Calm'
  <2>1. \A r \in Requests : r \in timerModbus' \/ write'[r] = "issued" => r \in Open'
    BY <1>1, <1>2, <1>3, <1>5, Types DEF LineInv, Calm, FifoInv
  <2> QED
    BY <1>1, <1>3, <1>4, <1>5, <1>6, <2>1 DEF LineInv, Calm
<1>8. FramesSound(Coming)'
  BY <1>1, <1>2, <1>3, LineTypes DEF LineInv, FramesSound
<1>9. Progress(Coming, s)'
  <2>1. s \notin echo /\ s \notin slave
    BY <1>1, <1>4 DEF LineInv, NotSent
  <2>2. NoneOf(Coming, s)
    BY <1>1 DEF LineInv, FramesSound, NotSent, NoneOf
  <2> QED
    BY <1>1, <1>3, <2>1, <2>2 DEF Progress, NoneOf
<1>10. \A r \in echo' : promise'[r] \notin NotSent
  BY <1>1, <1>3, LineTypes DEF LineInv
<1>11. chunk' = <<>> /\ Whole' /\ OwnAnswer' /\ crashed' = "no"
  BY <1>1, <1>3, <1>4 DEF LineInv, Whole, OwnAnswer
<1> QED
  BY <1>3, <1>7, <1>8, <1>9, <1>10, <1>11 DEF LineInv

LEMMA OpenIsAlone ==
  ASSUME OneCaller, FifoInv, NEW r \in Open
  PROVE  pending # <<>> /\ Head(pending) = r /\ Open = {r} /\ r \in Requests
<1>1. pending # <<>> /\ r \in Requests
  BY Types DEF FifoInv, Order, OnlyOpen
<1> QED
  BY <1>1, AloneFacts DEF OneCaller

\* The gateway puts the request on the bus, and its echo comes last.
LEMMA ForwardLine ==
  ASSUME OneCaller, FifoInv, LineInv, GatewayForwards
  PROVE  LineInv'
<1>1. /\ line # <<>> /\ line \in Seq(Requests) /\ Len(line) <= 1 /\ wire \in Seq(Frame)
      /\ slave \subseteq Requests
      /\ \A i \in 1 .. Len(line) : line[i] \in Open
  BY LineTypes DEF GatewayForwards, LineInv, Calm
<1>2. /\ Head(line) = line[1] /\ 1 \in 1 .. Len(line) /\ Tail(line) \in Seq(Requests)
      /\ Len(Tail(line)) = Len(line) - 1 /\ Len(line) \in Nat /\ Head(line) \in Requests
  BY <1>1, TailFacts
<1>3. PICK r \in Requests : r = Head(line)
  BY <1>2
<1> DEFINE f == Sound("echo", r)
<1>4. r \in Open /\ Open = {r} /\ r \in Requests /\ OnLine(r)
  BY <1>1, <1>2, <1>3, OpenIsAlone DEF OnLine
<1>5. Len(Tail(line)) = 0 /\ Tail(line) = <<>>
  <2>1. Len(Tail(line)) = 0
    BY <1>1, <1>2
  <2> QED
    BY <1>2, <2>1, EmptySeq
<1>6. /\ wire' = Append(wire, f) /\ slave' = slave \cup {r} /\ line' = <<>>
      /\ UNCHANGED << port, pending, queued, promise, timerModbus, echo, response, write,
                      begun, frame, chunk, crashed >>
      /\ chunk = <<>>
  <2>1. Arrivals(f) = {f}
    BY DEF OneCaller, Arrivals
  <2> QED
    BY <1>5, <1>3, <2>1 DEF GatewayForwards, Idle, historyVars, requestVars
<1>7. Coming = wire /\ Coming' = Append(wire, f) /\ f \in Frame
  <2>1. f \in Frame
    BY <1>4 DEF Sound, Frame, FrameKinds
  <2>2. Append(wire, f) \in Seq(Frame)
    BY <1>1, <2>1
  <2> QED
    BY <1>1, <1>6, <2>1, <2>2 DEF Coming
<1>8. r \notin echo /\ NoneOf(wire, r)
  BY <1>4, <1>7 DEF LineInv, Progress
<1>9. Open' = {r} /\ Len(line') = 0
  BY <1>4, <1>6 DEF Open
<1>10. Progress(Coming, r)'
  <2>1. EchoLast(Coming', r)
    BY <1>1, <1>4, <1>7, <1>8, EchoComes
  <2>2. ~OnLine(r)'
    BY <1>9 DEF OnLine
  <2> QED
    BY <1>6, <1>8, <2>1, <2>2 DEF Progress, EchoLast
<1>11. FramesSound(Coming)'
  <2>1. /\ Len(Coming') = Len(wire) + 1 /\ Coming'[Len(wire) + 1] = f /\ Len(wire) \in Nat
        /\ \A i \in 1 .. Len(wire) : Coming'[i] = wire[i]
    BY <1>1, <1>7, AppendFrame
  <2>2. f.kind = "echo" /\ f.lrcOk /\ f.of = r /\ promise'[r] \notin NotSent
    BY <1>4, <1>6 DEF Sound, Open, NotSent
  <2>3. \A i \in 1 .. Len(Coming') : i \in 1 .. Len(wire) \/ i = Len(wire) + 1
    BY <2>1
  <2>4. FramesSound(wire)
    BY <1>7 DEF LineInv
  <2> HIDE DEF f
  <2> QED
    BY <1>4, <1>6, <1>9, <2>1, <2>2, <2>3, <2>4 DEF FramesSound
<1>12. Calm'
  <2>1. port = "open"
    BY <1>1 DEF LineInv, Calm
  <2> QED
    BY <1>1, <1>4, <1>6, <1>9, <2>1 DEF LineInv, Calm
<1>13. Whole'
  <2>1. begun => wire # <<>>
    BY DEF LineInv, Whole
  <2>2. wire # <<>> => Len(wire) > 0 /\ Append(wire, f)[1] = wire[1] /\ Append(wire, f) # <<>>
    BY <1>1, <1>7, AppendFrame
  <2> HIDE DEF f
  <2> QED
    BY <1>6, <2>1, <2>2 DEF LineInv, Whole
<1> QED
  BY <1>6, <1>9, <1>10, <1>11, <1>12, <1>13 DEF LineInv, OwnAnswer

\* The answer comes behind the echo.
LEMMA AnswerLine ==
  ASSUME OneCaller, FifoInv, LineInv, NEW r \in Requests, SlaveAnswers(r)
  PROVE  LineInv'
<1> DEFINE f == Sound("answer", r)
<1>1. /\ wire' = Append(wire, f) /\ slave' = slave \ {r} /\ r \in slave
      /\ UNCHANGED << port, pending, queued, promise, timerModbus, echo, response, write, line,
                      begun, frame, chunk, crashed >>
      /\ chunk = <<>>
  <2>1. Arrivals(f) = {f}
    BY DEF OneCaller, Arrivals
  <2> QED
    BY <2>1 DEF SlaveAnswers, Idle, historyVars, requestVars
<1>2. r \in Open /\ Open = {r} /\ Open' = Open /\ port = "open"
  <2>1. r \in Open
    BY <1>1 DEF LineInv, Calm
  <2> QED
    BY <1>1, <2>1, OpenIsAlone DEF Open, LineInv, Calm
<1>3. wire \in Seq(Frame) /\ Coming = wire /\ Coming' = Append(wire, f) /\ f \in Frame
  <2>1. f \in Frame
    BY DEF Sound, Frame, FrameKinds
  <2>2. wire \in Seq(Frame) /\ Append(wire, f) \in Seq(Frame)
    BY <2>1, LineTypes
  <2> QED
    BY <1>1, <2>1, <2>2 DEF Coming
<1>4. Progress(Coming, r)'
  <2>1. \/ r \notin echo /\ ~OnLine(r) /\ EchoLast(wire, r)
        \/ r \in echo /\ ~OnLine(r) /\ wire = <<>>
    BY <1>1, <1>2, <1>3 DEF LineInv, Progress
  <2>2. (~OnLine(r))' <=> ~OnLine(r)
    BY <1>1 DEF OnLine
  <2>3. EchoLast(wire, r) => BothLast(Append(wire, f), r)
    BY <1>3, AnswerComes
  <2>4. wire = <<>> => Append(wire, f) = <<f>>
    OBVIOUS
  <2> HIDE DEF f
  <2>5. \/ r \notin echo /\ BothLast(Append(wire, f), r)
        \/ r \in echo /\ Append(wire, f) = <<f>>
    BY <2>1, <2>3, <2>4
  <2> QED
    BY <1>1, <1>3, <2>1, <2>2, <2>5 DEF Progress, BothLast, f
<1>5. FramesSound(Coming)'
  <2>1. /\ Len(Coming') = Len(wire) + 1 /\ Coming'[Len(wire) + 1] = f /\ Len(wire) \in Nat
        /\ \A i \in 1 .. Len(wire) : Coming'[i] = wire[i]
    BY <1>3, AppendFrame
  <2>2. f.kind = "answer" /\ f.lrcOk /\ f.of = r /\ promise'[r] \notin NotSent
    BY <1>1, <1>2 DEF Sound, Open, NotSent
  <2>3. \A i \in 1 .. Len(Coming') : i \in 1 .. Len(wire) \/ i = Len(wire) + 1
    BY <2>1
  <2>4. FramesSound(wire)
    BY <1>3 DEF LineInv
  <2> HIDE DEF f
  <2> QED
    BY <1>1, <1>2, <2>1, <2>2, <2>3, <2>4 DEF FramesSound
<1>6. Calm'
  BY <1>1, <1>2 DEF LineInv, Calm
<1>7. Whole'
  <2>1. begun => wire # <<>>
    BY DEF LineInv, Whole
  <2>2. wire # <<>> => Len(wire) > 0 /\ Append(wire, f)[1] = wire[1] /\ Append(wire, f) # <<>>
    BY <1>3, AppendFrame
  <2> HIDE DEF f
  <2> QED
    BY <1>1, <2>1, <2>2 DEF LineInv, Whole
<1> QED
  BY <1>1, <1>2, <1>4, <1>5, <1>6, <1>7 DEF LineInv, OwnAnswer

\* A request or its answer is lost.
LEMMA LostLine ==
  ASSUME OneCaller, FifoInv, LineInv, GatewayDrops \/ \E r \in Requests : SlaveSilent(r)
  PROVE  LineInv'
<1>1. /\ UNCHANGED << port, pending, queued, promise, timerModbus, echo, response, write,
                      wire, begun, frame, chunk, crashed >>
      /\ slave' \subseteq slave
  BY DEF OneCaller, GatewayDrops, SlaveSilent, historyVars, requestVars
<1>2. Open' = Open /\ Coming' = Coming
  BY <1>1 DEF Open, Coming
<1>3. line' = line \/ line' = <<>>
  <2>1. CASE \E r \in Requests : SlaveSilent(r)
    BY <2>1 DEF SlaveSilent
  <2>2. CASE GatewayDrops
    <3>1. line # <<>> /\ line \in Seq(Requests) /\ Len(line) <= 1 /\ line' = Tail(line)
      BY <2>2, LineTypes DEF GatewayDrops, LineInv, Calm
    <3>2. /\ Tail(line) \in Seq(Requests) /\ Len(Tail(line)) = Len(line) - 1
          /\ Len(line) \in Nat /\ Len(line) > 0
      BY <3>1, TailFacts
    <3>3. Len(Tail(line)) = 0
      BY <3>1, <3>2
    <3> QED
      BY <3>1, <3>2, <3>3, EmptySeq
  <2> QED
    BY <2>1, <2>2
<1>4. \A r : OnLine(r)' => OnLine(r)
  BY <1>3 DEF OnLine
<1>5. (\A r \in Open : Progress(Coming, r))'
  BY <1>1, <1>2, <1>4 DEF LineInv, Progress, NoneOf, EchoLast, BothLast
<1>6. Calm'
  BY <1>1, <1>2, <1>3 DEF LineInv, Calm
<1> QED
  BY <1>1, <1>2, <1>5, <1>6 DEF LineInv, FramesSound, Whole, OwnAnswer

\* The open request fails, and nothing of it is under way but late frames.
LEMMA HandleErrorLine ==
  ASSUME OneCaller, FifoInv, LineInv, NEW r \in Open, r \notin slave, ~begun, chunk = <<>>,
         "slowLine" \notin Faults => NoneOf(wire, r),
         NEW w, w[r] # "issued", \A s \in Requests : s # r => w[s] = write[s],
         HandleError(r, w, <<>>)
  PROVE  LineInv'
<1>1. /\ pending # <<>> /\ Head(pending) = r /\ Open = {r} /\ r \in Requests
      /\ r \notin error /\ Rest = <<>>
  BY OpenIsAlone, HeadFacts, AloneFacts DEF OneCaller, Rest
<1>2. /\ pending' = <<>> /\ write' = w /\ line' = <<>>
      /\ timerModbus' = timerModbus \ {r}
      /\ promise' = [promise EXCEPT ![r] = IF @ = "open" THEN "rejected" ELSE @]
      /\ UNCHANGED << port, queued, echo, response, slave, wire, begun, frame, chunk, crashed >>
  BY <1>1 DEF HandleError, WriteHead, historyVars, envVars
<1>3. /\ promise' = [promise EXCEPT ![r] = "rejected"]
      /\ \A s \in Requests : promise[s] \notin NotSent => promise'[s] \notin NotSent
      /\ \A s \in Requests : promise'[s] = "resolved" => promise[s] = "resolved"
  BY <1>1, <1>2, Types DEF Open, FifoInv, NotSent
<1>4. Open' = {} /\ Coming' = Coming /\ Coming = wire
  <2>1. Open' = {}
    BY <1>1, <1>3, Types DEF Open, FifoInv
  <2> QED
    BY <1>2, <2>1, LineTypes DEF Coming
<1>5. Calm'
  <2>1. \A s \in Requests : ~(s \in timerModbus' \/ write'[s] = "issued")
    BY <1>1, <1>2 DEF LineInv, Calm
  <2>2. slave = {} /\ Len(line') = 0
    BY <1>1, <1>2 DEF LineInv, Calm
  <2> QED
    BY <1>2, <1>4, <2>1, <2>2 DEF LineInv, Calm
<1>6. FramesSound(Coming)'
  <2>1. "slowLine" \notin Faults => \A i \in 1 .. Len(Coming) : FALSE
    BY <1>1, <1>4 DEF LineInv, FramesSound, NoneOf
  <2> QED
    BY <1>3, <1>4, <2>1, LineTypes DEF LineInv, FramesSound
<1>7. \A s \in echo' : promise'[s] \notin NotSent
  BY <1>2, <1>3, LineTypes DEF LineInv
<1>8. OwnAnswer'
  BY <1>2, <1>3 DEF LineInv, OwnAnswer
<1>9. Whole' /\ chunk' = <<>> /\ crashed' = "no"
  BY <1>2 DEF LineInv, Whole
<1> QED
  BY <1>4, <1>5, <1>6, <1>7, <1>8, <1>9 DEF LineInv

LEMMA TimersLine ==
  ASSUME OneCaller, FifoInv, LineInv, NEW r \in Requests, Timers(r)
  PROVE  LineInv'
<1>1. r \in Open /\ Quiet(r) /\ chunk = <<>> /\ HandleError(r, write, line)
  BY DEF Timers, TotalTimeout, ModbusTimeout, FifoInv, OpenTimers, LineInv, Calm, Idle
<1>2. /\ write[r] # "issued" /\ r \notin slave /\ \A i \in DOMAIN line : line[i] # r
      /\ begun => wire[1].of # r
      /\ "slowLine" \notin Faults => \A i \in DOMAIN wire : wire[i].of # r
  BY <1>1 DEF Quiet, OneCaller
<1>3. Open = {r} /\ Head(pending) = r
  BY <1>1, OpenIsAlone
<1>4. line = <<>>
  <2>1. line \in Seq(Requests) /\ DOMAIN line = 1 .. Len(line) /\ Len(line) \in Nat
    BY LineTypes
  <2>2. \A i \in 1 .. Len(line) : FALSE
    BY <1>2, <1>3, <2>1 DEF LineInv, Calm
  <2>3. Len(line) = 0
    BY <2>1, <2>2
  <2> QED
    BY <2>1, <2>3, EmptySeq
<1>5. ~begun
  BY <1>2, <1>3 DEF LineInv, Whole
<1>6. "slowLine" \notin Faults => NoneOf(wire, r)
  <2>1. DOMAIN wire = 1 .. Len(wire)
    BY LineTypes
  <2> QED
    BY <1>2, <2>1 DEF NoneOf
<1> QED
  BY <1>1, <1>2, <1>4, <1>5, <1>6, HandleErrorLine

LEMMA WriteFailedLine ==
  ASSUME OneCaller, FifoInv, LineInv, NEW r \in Requests, WriteFailed(r)
  PROVE  LineInv'
<1> DEFINE w == [write EXCEPT ![r] = "done"]
<1>1. /\ write[r] = "issued" /\ r \in Open /\ chunk = <<>> /\ Open = {r} /\ Head(pending) = r
      /\ w[r] # "issued" /\ \A s \in Requests : s # r => w[s] = write[s]
  <2>1. write[r] = "issued" /\ chunk = <<>>
    BY DEF WriteFailed, Idle
  <2>2. r \in Open
    BY <2>1 DEF LineInv, Calm
  <2> QED
    BY <2>1, <2>2, OpenIsAlone, Types DEF FifoInv
<1>2. wire \in Seq(Frame) /\ Len(wire) \in Nat /\ Coming = wire
      /\ line \in Seq(Requests) /\ Len(line) \in Nat
  BY <1>1, LineTypes
<1>3. CASE port = "failed" /\ HandleError(r, w, line)
  <2>1. line = <<>> /\ slave = {} /\ wire = <<>>
    BY <1>3 DEF LineInv, Calm
  <2>2. ~begun /\ NoneOf(wire, r)
    BY <2>1 DEF LineInv, Whole, NoneOf
  <2> HIDE DEF w
  <2> QED
    BY <1>1, <1>3, <2>1, <2>2, HandleErrorLine
<1>4. ASSUME NEW k \in DOMAIN line, line[k] = r,
             HandleError(r, w, SubSeq(line, 1, k - 1) \o SubSeq(line, k + 1, Len(line)))
      PROVE  LineInv'
  <2>1. k = 1 /\ Len(line) = 1
    <3>1. DOMAIN line = 1 .. Len(line) /\ Len(line) <= 1
      BY <1>2 DEF LineInv, Calm
    <3>2. k \in 1 .. Len(line)
      BY <1>4, <3>1
    <3> QED
      BY <1>2, <3>1, <3>2
  <2>2. SubSeq(line, 1, k - 1) \o SubSeq(line, k + 1, Len(line)) = <<>>
    <3>1. SubSeq(line, 1, 0) = <<>> /\ SubSeq(line, 2, 1) = <<>>
      BY <1>2
    <3>2. <<>> \o <<>> = <<>>
      OBVIOUS
    <3> QED
      BY <2>1, <3>1, <3>2
  <2>3. OnLine(r)
    BY <1>2, <1>4, <2>1 DEF OnLine
  <2>4. r \notin slave /\ NoneOf(wire, r)
    BY <1>1, <1>2, <2>3 DEF LineInv, Progress
  <2>5. ~begun
    <3>1. wire # <<>> => 1 \in 1 .. Len(wire)
      BY <1>2, TailFacts
    <3> QED
      BY <1>1, <2>4, <3>1 DEF LineInv, Whole, NoneOf
  <2> HIDE DEF w
  <2> QED
    BY <1>1, <1>4, <2>2, <2>4, <2>5, HandleErrorLine
<1> QED
  BY <1>3, <1>4, Zenon DEF WriteFailed

\* A data event hands over what comes next, or drops it when nobody waits.
LEMMA DataLine ==
  ASSUME OneCaller, FifoInv, LineInv, NEW n \in 0 .. MaxChunk, NEW p \in BOOLEAN,
         DataEvent(n, p)
  PROVE  LineInv'
<1>1. /\ UNCHANGED << port, pending, queued, promise, timerModbus, echo, response, write, line,
                      slave, crashed >>
      /\ chunk = <<>> /\ begun' = p /\ wire' = SubSeq(wire, n + 1, Len(wire))
      /\ p => n < Len(wire) /\ OnTime(wire[n + 1])
      /\ ~p => n <= Len(wire)
  BY DEF DataEvent, Idle, historyVars, requestVars
<1>2. wire \in Seq(Frame) /\ Coming = wire /\ Open' = Open /\ n \in Nat /\ Len(wire) \in Nat
      /\ n <= Len(wire)
  BY <1>1, LineTypes DEF Open
<1>3. /\ SubSeq(wire, 1, n) \o wire' = wire /\ wire' \in Seq(Frame)
      /\ Len(wire') = Len(wire) - n
      /\ \A i \in 1 .. (Len(wire) - n) : wire'[i] = wire[n + i]
  BY <1>1, <1>2, WireSplit
<1>4. FramesSound(wire)
  BY <1>2 DEF LineInv
<1>5. Calm'
  <2>1. wire = <<>> => wire' = <<>>
    <3>1. wire = <<>> => Len(wire') = 0
      BY <1>2, <1>3
    <3> QED
      BY <1>3, <3>1, EmptySeq
  <2> QED
    BY <1>1, <1>2, <2>1 DEF LineInv, Calm
<1>6. ASSUME p PROVE pending # <<>> /\ wire[n + 1].of = Head(pending)
  <2>1. n + 1 \in 1 .. Len(wire)
    BY <1>1, <1>2, <1>6
  <2>2. CASE "slowLine" \in Faults
    BY <1>1, <1>6, <2>2 DEF OnTime
  <2>3. CASE "slowLine" \notin Faults
    <3>1. wire[n + 1].of \in Open
      BY <1>4, <2>1, <2>3 DEF FramesSound
    <3> QED
      BY <3>1, OpenIsAlone
  <2> QED
    BY <2>2, <2>3
<1>7. CASE pending = <<>>
  <2>1. chunk' = <<>> /\ ~p /\ Open = {}
    <3>1. Open = {}
      BY <1>7, OpenIsAlone
    <3> QED
      BY <1>6, <1>7, <3>1 DEF DataEvent
  <2>2. Coming' = wire'
    BY <1>3, <2>1 DEF Coming
  <2>3. \A i \in 1 .. Len(wire') : n + i \in 1 .. Len(wire) /\ wire'[i] = wire[n + i]
    BY <1>2, <1>3
  <2>4. FramesSound(Coming)'
    BY <1>1, <1>2, <1>4, <2>2, <2>3 DEF FramesSound
  <2> QED
    BY <1>1, <1>2, <1>5, <2>1, <2>4 DEF LineInv, Whole, OwnAnswer
<1>8. CASE pending # <<>>
  <2>1. chunk' = SubSeq(wire, 1, n) /\ frame' = IF p THEN "start" ELSE "null"
    <3>1. ~(n > 0 /\ begun /\ frame # "start")
      BY DEF LineInv, Whole
    <3>2. Completed(n) = {SubSeq(wire, 1, n)}
      BY <3>1 DEF Completed
    <3>3. chunk' \in Completed(n) /\ frame' = IF p THEN "start" ELSE "null"
      BY <1>8, Zenon DEF DataEvent
    <3> QED
      BY <3>2, <3>3
  <2>2. Coming' = wire
    BY <1>3, <2>1 DEF Coming
  <2>3. Whole'
    <3>1. ASSUME p PROVE wire' # <<>> /\ wire'[1] = wire[n + 1]
      <4>1. Len(wire') > 0 /\ 1 \in 1 .. (Len(wire) - n)
        BY <1>1, <1>2, <1>3, <3>1
      <4> QED
        BY <1>3, <4>1
    <3> QED
      BY <1>1, <1>6, <2>1, <3>1 DEF Whole
  <2>4. FramesSound(Coming)' /\ (\A r \in Open : Progress(Coming, r))'
    <3>1. FramesSound(Coming)
      BY DEF LineInv
    <3>2. FramesSound(Coming)'
      BY <1>1, <1>2, <2>2, <3>1 DEF FramesSound
    <3>3. \A r \in Open : Progress(Coming, r)
      BY DEF LineInv
    <3>4. Coming' = Coming /\ echo' = echo /\ slave' = slave /\ line' = line
      BY <1>1, <1>2, <2>2
    <3>5. ASSUME NEW r \in Open PROVE Progress(Coming, r)'
      <4>1. Progress(Coming, r)' <=> Progress(Coming, r)
        BY <3>4, Zenon DEF Progress, NoneOf, EchoLast, BothLast, OnLine
      <4> QED
        BY <3>3, <4>1, Zenon
    <3> QED
      BY <1>2, <3>2, <3>5
  <2> QED
    BY <1>1, <1>2, <1>5, <1>8, <2>3, <2>4 DEF LineInv, OwnAnswer
<1> QED
  BY <1>7, <1>8

LEMMA FrameFacts ==
  ASSUME OneCaller, FifoInv, LineInv, chunk # <<>>
  PROVE  /\ pending # <<>> /\ First \in Open /\ Open = {First} /\ First \in Requests
         /\ First \notin error
         /\ Coming \in Seq(Frame) /\ Coming # <<>> /\ Coming[1] = Frame1
         /\ Tail(chunk) \o wire = Tail(Coming)
         /\ Frame1.kind \in {"echo", "answer"} /\ Frame1.lrcOk /\ Frame1.of \in Requests
<1>1. pending # <<>>
  BY DEF LineInv
<1>2. First \in Open /\ First \notin error
  BY <1>1, HeadFacts DEF First
<1>3. Open = {First} /\ First \in Requests
  BY <1>2, OpenIsAlone DEF First
<1>4. /\ Coming \in Seq(Frame) /\ Coming # <<>> /\ Coming[1] = Frame1
      /\ Tail(chunk) \o wire = Tail(Coming)
  BY ComingTail, LineTypes DEF Coming, Frame1
<1>5. 1 \in 1 .. Len(Coming)
  BY <1>4, TailFacts
<1>6. Frame1.kind \in {"echo", "answer"} /\ Frame1.lrcOk /\ Frame1.of \in Requests
  BY <1>4, <1>5, LineTypes DEF LineInv, FramesSound
<1> QED
  BY <1>1, <1>2, <1>3, <1>4, <1>6

\* A frame has been handled, and its request is still the one that waits.
LEMMA HandledLine ==
  ASSUME OneCaller, FifoInv, LineInv, chunk # <<>>, chunk' = Tail(chunk),
         UNCHANGED << port, pending, queued, promise, timerModbus, response, write, line, slave,
                      wire, begun, frame, crashed >>,
         NEW r \in Requests, r = First, echo' \subseteq echo \cup {r},
         Progress(Coming, r)'
  PROVE  LineInv'
<1>1. Coming' = Tail(Coming) /\ Open' = Open /\ Open = {r} /\ pending # <<>>
  BY FrameFacts DEF Coming, Open
<1>2. Coming \in Seq(Frame) /\ Coming # <<>>
  BY FrameFacts
<1>3. /\ Len(Tail(Coming)) = Len(Coming) - 1 /\ Len(Coming) \in Nat
      /\ \A i \in 1 .. Len(Tail(Coming)) :
           Tail(Coming)[i] = Coming[i + 1] /\ i + 1 \in 1 .. Len(Coming)
  BY <1>2, TailFacts
<1>4. FramesSound(Coming)'
  BY <1>1, <1>3 DEF LineInv, FramesSound
<1>5. Calm' /\ Whole' /\ OwnAnswer'
  BY <1>1 DEF LineInv, Calm, Whole, OwnAnswer
<1>6. \A s \in echo' : promise'[s] \notin NotSent
  BY <1>1 DEF LineInv, Open, NotSent
<1> QED
  BY <1>1, <1>4, <1>5, <1>6 DEF LineInv

\* Frames before the echo of the request that waits are logged and forgotten.
LEMMA IgnoredLine ==
  ASSUME OneCaller, FifoInv, LineInv, FrameIgnored
  PROVE  LineInv'
<1>1. /\ chunk # <<>> /\ chunk' = Tail(chunk) /\ ~SameBytes(Frame1, First) /\ First \notin echo
      /\ UNCHANGED << port, pending, queued, promise, timerModbus, response, write, line, slave,
                      wire, begun, frame, crashed, echo >>
  BY FrameFacts DEF FrameIgnored, Parsed, historyVars, requestVars, envVars
<1>2. PICK r \in Requests : r = First
  BY <1>1, FrameFacts
<1>3. /\ Coming \in Seq(Frame) /\ Coming # <<>> /\ Coming[1] = Frame1 /\ r \in Open
      /\ Coming' = Tail(Coming)
  BY <1>1, <1>2, FrameFacts DEF Coming
<1>4. Coming[1] # Sound("echo", r)
  BY <1>1, <1>2, <1>3, SoundFields DEF SameBytes
<1>5. \/ r \notin slave /\ NoneOf(Coming, r)
      \/ ~OnLine(r) /\ EchoLast(Coming, r)
      \/ ~OnLine(r) /\ r \notin slave /\ BothLast(Coming, r)
  BY <1>1, <1>2, <1>3 DEF LineInv, Progress
<1>6. \/ r \notin slave /\ NoneOf(Tail(Coming), r)
      \/ ~OnLine(r) /\ EchoLast(Tail(Coming), r)
      \/ ~OnLine(r) /\ r \notin slave /\ BothLast(Tail(Coming), r)
  BY <1>3, <1>4, <1>5, OldFrameGoes
<1>7. Progress(Coming, r)'
  BY <1>1, <1>2, <1>3, <1>6 DEF Progress, NoneOf, EchoLast, BothLast, OnLine
<1> QED
  BY <1>1, <1>2, <1>7, HandledLine

\* Its echo: after it there is at most its answer.
LEMMA EchoLine ==
  ASSUME OneCaller, FifoInv, LineInv, FrameIsEcho
  PROVE  LineInv'
<1>1. /\ chunk # <<>> /\ chunk' = Tail(chunk) /\ SameBytes(Frame1, First) /\ First \notin echo
      /\ echo' = echo \cup {First}
      /\ UNCHANGED << port, pending, queued, promise, timerModbus, response, write, line, slave,
                      wire, begun, frame, crashed >>
  BY DEF FrameIsEcho, Parsed, historyVars, envVars
<1>2. PICK r \in Requests : r = First
  BY <1>1, FrameFacts
<1>3. /\ Coming \in Seq(Frame) /\ Coming # <<>> /\ Coming[1] = Frame1 /\ r \in Open
      /\ Coming' = Tail(Coming) /\ Frame1.of \in Requests
  BY <1>1, <1>2, FrameFacts DEF Coming
<1>4. Coming[1].of = r
  BY <1>1, <1>2, <1>3 DEF SameBytes, OneCaller
<1>5. \/ ~OnLine(r) /\ Tail(Coming) = <<>>
      \/ ~OnLine(r) /\ r \notin slave /\ Tail(Coming) = <<Sound("answer", r)>>
  BY <1>1, <1>2, <1>3, <1>4, EchoGoes DEF LineInv, Progress
<1>6. Progress(Coming, r)'
  BY <1>1, <1>2, <1>3, <1>5 DEF Progress, OnLine
<1> QED
  BY <1>1, <1>2, <1>6, HandledLine

\* Two sequences that join to nothing are empty.
LEMMA NothingJoined ==
  ASSUME NEW s \in Seq(Frame), NEW t \in Seq(Frame), s \o t = << >>
  PROVE  s = << >> /\ t = << >>
<1>1. Len(s \o t) = Len(s) + Len(t) /\ Len(s) \in Nat /\ Len(t) \in Nat
  OBVIOUS
<1>2. Len(s \o t) = 0
  OBVIOUS
<1>3. Len(s) = 0 /\ Len(t) = 0
  BY <1>1, <1>2
<1> QED
  BY <1>3, EmptySeq

\* What is left after the echo is the answer, and nothing comes behind it.
LEMMA ResponseLine ==
  ASSUME OneCaller, FifoInv, LineInv, FrameIsResponse
  PROVE  LineInv'
<1>1. chunk # <<>> /\ First \in echo /\ First \notin error
  BY FrameFacts DEF FrameIsResponse, Parsed
<1>2. PICK r \in Requests : r = First
  BY <1>1, FrameFacts
<1>3. /\ Coming \in Seq(Frame) /\ Coming # <<>> /\ Coming[1] = Frame1 /\ r \in Open
      /\ Open = {r} /\ Tail(chunk) \o wire = Tail(Coming) /\ pending # <<>>
  BY <1>1, <1>2, FrameFacts
<1>4. Coming = <<Sound("answer", r)>> /\ ~OnLine(r) /\ r \notin slave
  BY <1>1, <1>2, <1>3 DEF LineInv, Progress
<1>5. Frame1 = Sound("answer", r) /\ Tail(Coming) = <<>>
  BY <1>3, <1>4
<1>6. Tail(chunk) = <<>> /\ wire = <<>>
  <2>1. Tail(chunk) \in Seq(Frame) /\ wire \in Seq(Frame)
    BY <1>1, TailFacts, LineTypes
  <2>2. Tail(chunk) \o wire = <<>>
    BY <1>3, <1>5
  <2> QED
    BY <2>1, <2>2, NothingJoined
<1>7. Tail(pending) = <<>>
  BY <1>3, AloneFacts DEF OneCaller
<1>8. /\ chunk' = <<>> /\ pending' = <<>> /\ write' = write /\ line' = line
      /\ timerModbus' = timerModbus \ {r}
      /\ promise' = [promise EXCEPT ![r] = IF @ = "open" THEN "resolved" ELSE @]
      /\ response' = [response EXCEPT ![r] = Sound("answer", r)]
      /\ UNCHANGED << port, queued, echo, slave, wire, begun, frame, crashed >>
  BY <1>1, <1>2, <1>5, <1>6, <1>7
  DEF FrameIsResponse, Finish, WriteHead, historyVars, envVars
<1>9. /\ promise' = [promise EXCEPT ![r] = "resolved"] /\ Open' = {}
      /\ \A s \in Requests : promise[s] \notin NotSent => promise'[s] \notin NotSent
  BY <1>3, <1>8, Types DEF Open, FifoInv, NotSent
<1>10. ~begun /\ Coming' = <<>>
  BY <1>6, <1>8 DEF LineInv, Whole, Coming
<1>11. Calm'
  <2>1. slave = {} /\ Len(line) = 0
    <3>1. \A i \in 1 .. Len(line) : FALSE
      BY <1>3, <1>4 DEF LineInv, Calm, OnLine
    <3>2. Len(line) \in Nat
      BY LineTypes
    <3> QED
      BY <1>3, <1>4, <3>1, <3>2 DEF LineInv, Calm
  <2>2. \A s \in Requests : ~(s \in timerModbus' \/ write'[s] = "issued")
    <3>1. \A s \in Requests : write[s] # "issued"
      BY <1>1 DEF FifoInv, ChunkQuiet
    <3> QED
      BY <1>3, <1>8, <3>1 DEF LineInv, Calm
  <2> QED
    BY <1>8, <1>9, <2>1, <2>2 DEF LineInv, Calm
<1>12. OwnAnswer'
  <2>1. ASSUME NEW s \in Requests, promise'[s] = "resolved"
        PROVE  response'[s].kind = "answer" /\ response'[s].of = s
    <3>1. CASE s = r
      <4>1. response'[r] = Sound("answer", r)
        BY <1>8, LineTypes
      <4> QED
        BY <3>1, <4>1, SoundFields
    <3>2. CASE s # r
      <4>1. promise[s] = "resolved" /\ response'[s] = response[s]
        BY <1>8, <1>9, <2>1, <3>2, LineTypes, Types DEF FifoInv
      <4> QED
        BY <4>1 DEF LineInv, OwnAnswer
    <3> QED
      BY <3>1, <3>2
  <2> QED
    BY <2>1 DEF OwnAnswer
<1>13. FramesSound(Coming)'
  <2>1. Len(Coming') = 0
    BY <1>10
  <2> QED
    BY <2>1 DEF FramesSound
<1>14. \A s \in echo' : promise'[s] \notin NotSent
  BY <1>8, <1>9, LineTypes DEF LineInv
<1> QED
  BY <1>8, <1>9, <1>10, <1>11, <1>12, <1>13, <1>14 DEF LineInv, Whole

LEMMA LineInit == Init => LineInv
<1> SUFFICES ASSUME Init PROVE LineInv
  OBVIOUS
<1>1. Len(Coming) = 0 /\ Open = {} /\ Len(line) = 0
  <2>1. <<>> \o <<>> = <<>>
    OBVIOUS
  <2> QED
    BY <2>1 DEF Init, Coming, Open
<1>2. FramesSound(Coming) /\ Calm /\ Whole /\ OwnAnswer
  BY <1>1 DEF Init, FramesSound, Calm, Whole, OwnAnswer
<1> QED
  BY <1>1, <1>2 DEF Init, LineInv

LEMMA LineStep ==
  OneCaller => (FifoInv /\ LineInv /\ [Next]_vars => LineInv')
<1> SUFFICES ASSUME OneCaller, FifoInv, LineInv, [Next]_vars PROVE LineInv'
  OBVIOUS
<1>1. CASE Port \/ UNCHANGED vars
  BY <1>1, PortLine
<1>2. ASSUME NEW r \in Requests, Call(r) \/ Timers(r) \/ Written(r) PROVE LineInv'
  BY <1>2, SendLine, RefusedLine, TimersLine, PortLine, WriteFailedLine DEF Call, Written
<1>3. CASE Environment
  BY <1>3, ForwardLine, AnswerLine, LostLine DEF Environment
<1>4. CASE Data
  BY <1>4, DataLine DEF Data
<1>5. CASE HandleFrame
  <2>1. ~FrameThrows
    BY FrameFacts DEF FrameThrows
  <2>2. ~FrameRejected
    BY FrameFacts DEF FrameRejected, Parsed
  <2> QED
    BY <1>5, <2>1, <2>2, IgnoredLine, EchoLine, ResponseLine DEF HandleFrame
<1> QED
  BY <1>1, <1>2, <1>3, <1>4, <1>5 DEF Next

LEMMA LineInvariance ==
  ASSUME OneCaller
  PROVE  Safety => []LineInv
<1>1. FifoInv /\ [Next]_vars => FifoInv'
  BY FifoStep, CallerIsOrderly
<1>2. FifoInv /\ LineInv /\ [Next]_vars => LineInv'
  BY LineStep
<1>3. Init => FifoInv /\ LineInv
  BY FifoInit, LineInit
<1> QED
  BY <1>1, <1>2, <1>3, PTL DEF Safety

\* With one request at a time and a line that may be late, cut frames and lose
\* them, a request that is resolved carries the answer to its own bytes.
THEOREM AnswersMatch ==
  ASSUME OneCaller
  PROVE  Safety => []AnswerMatches
<1>1. LineInv => AnswerMatches
  BY DEF LineInv, OwnAnswer, AnswerMatches
<1> QED
  BY <1>1, LineInvariance, PTL

\* Nor does any callback throw: the process goes on.
THEOREM NothingThrows ==
  ASSUME OneCaller
  PROVE  Safety => []NoCrash
<1>1. LineInv => NoCrash
  BY DEF LineInv, NoCrash
<1> QED
  BY <1>1, LineInvariance, PTL
=============================================================================
