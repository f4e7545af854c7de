---------------------------- MODULE NibePolling -----------------------------
(***************************************************************************)
(* Nibe1155.handlePolling(): once a second it reads the registers of       *)
(* LOG.SET, announces what has changed, and then does one thing more: it   *)
(* writes the set point, serves the oldest access a caller waits for, or   *)
(* reads the next of the other registers.  Every access is a               *)
(* ModbusSerial.send() that is awaited; what runs up to the next await is  *)
(* one action.  send() is abstract here: it resolves with what the heat    *)
(* pump answered or rejects, maybe after the heat pump has obeyed.         *)
(***************************************************************************)
EXTENDS Integers, Sequences

CONSTANTS
  MaxPolls,        \* runs of handlePolling() the model lets overlap, if they do
  IdMap,           \* _idMap: the registers that have a Nibe1155Value
  LogSet,          \* _logSetIds: per request the registers it reads at once
  NonLogSet,       \* _nonLogSetRegs
  DegreeMinutes,   \* the register the set point is written to
  Volatile,        \* registers the heat pump changes by itself
  Jobs,            \* calls of readRegister() and writeRegister()
  JobRegister,     \* the register of a job; it need not be in _idMap
  Writes,          \* the jobs that write
  JobValue,        \* what they write
  Values,          \* what a register may hold
  SetPoints,       \* what users of Nibe1155 set setPointDegreeMinutes to
  InitialDevices,  \* what the heat pump may hold when the server starts
  None             \* null and undefined

Polls == 1..MaxPolls

LogSetRegisters == UNION {LogSet[i] : i \in 1..Len(LogSet)}
Registers == IdMap \cup {JobRegister[j] : j \in Jobs}

ASSUME RegistersAssumption ==
  /\ MaxPolls \in Nat \ {0}
  /\ LogSet \in Seq(SUBSET IdMap) /\ LogSet # <<>>
  /\ NonLogSet \in Seq(IdMap \ LogSetRegisters) /\ NonLogSet # <<>>
  /\ DegreeMinutes \in IdMap
  /\ JobValue \in [Jobs -> Values]
  /\ SetPoints \subseteq Values
  /\ InitialDevices \subseteq [Registers -> Values]
  /\ None \notin Values

VARIABLES
  pollingInProgress,   \* _pollingInProgress
  poll,                \* where each run of handlePolling() waits
  rwNonLogRegs,        \* _rwNonLogRegs: the jobs that wait
  nonLogRegsIndex,     \* _readNonLogRegsIndex
  odd,                 \* _readNonLogRegCnt % 2 = 1
  setPoint,            \* _setPointDegreeMinutes
  store,               \* the Nibe1155Value of each register of _idMap
  heard,               \* the value of the last change event of a register
  device,              \* the registers in the heat pump
  promise,             \* what has become of the promise of a job
  ticket,              \* place of a job in the order of the calls, 0 before
  tickets,             \* how many calls there have been
  result,              \* what a job that reads has been given
  seen                 \* what the register of an open job has held since the call

callers == <<promise, ticket, tickets, result>>
vars == <<pollingInProgress, poll, rwNonLogRegs, nonLogRegsIndex, odd, setPoint,
          store, heard, device, callers, seen>>

control == <<pollingInProgress, poll, rwNonLogRegs, nonLogRegsIndex, odd>>

-----------------------------------------------------------------------------
(* Nibe1155Value. `since` says what _oldValueAt is: null, the date of the   *)
(* present value, or the date of an earlier one.                            *)

Fresh == [value |-> None, old |-> None, since |-> "null"]

\* Mutant: the old value is taken after the new one has been set.
SetRawValueLate(s, v) ==
  [value |-> v, old |-> v, since |-> IF s.value = None THEN "null" ELSE "earlier"]

SetRawValue(s, v) ==
  [value |-> v, old |-> s.value, since |-> IF s.value = None THEN "null" ELSE "earlier"]

ClearValueChanged(s) == [s EXCEPT !.old = s.value, !.since = "same"]

IsValueChanged(s) ==
  IF s.since = "null" THEN s.value # None ELSE s.since = "earlier" /\ s.old # s.value

\* parseModbusResponse(): the registers outside _idMap are skipped.
ParseModbusResponse(reply) ==
  [r \in IdMap |-> IF r \in DOMAIN reply THEN SetRawValue(store[r], reply[r]) ELSE store[r]]

-----------------------------------------------------------------------------
(* Requests on their way. A request reads `regs`, or writes `data` to them; *)
(* the heat pump's answer is a function on them.                            *)

NoAnswer == [r \in {} |-> None]

Ask(pc, chunk, job, regs, data) ==
  [pc |-> pc, chunk |-> chunk, job |-> job, regs |-> regs, data |-> data,
   reply |-> NoAnswer, done |-> FALSE]

Idle == Ask("idle", 0, None, {}, None)

AskLogSet(i) == Ask("log", i, None, LogSet[i], None)

Waiting(p, pc) == poll[p].pc = pc
Answered(p) == poll[p].done

\* The heat pump executes the request.
Serve(p) ==
  /\ ~Waiting(p, "idle") /\ ~Answered(p)
  /\ device' = [r \in Registers |->
                  IF r \in poll[p].regs /\ poll[p].data # None THEN poll[p].data ELSE device[r]]
  /\ poll' = [poll EXCEPT ![p].done = TRUE,
                          ![p].reply = IF poll[p].data = None
                                       THEN [r \in poll[p].regs |-> device[r]] ELSE NoAnswer]
  /\ seen' = [j \in Jobs |-> IF promise[j] = "open" THEN seen[j] \cup {device'[JobRegister[j]]}
                             ELSE seen[j]]
  /\ UNCHANGED <<pollingInProgress, rwNonLogRegs, nonLogRegsIndex, odd, setPoint, store,
                 heard, callers>>

\* A register of the heat pump changes by itself.
DeviceChanges(r, v) ==
  /\ r \in Volatile
  /\ device[r] # v
  /\ device' = [device EXCEPT ![r] = v]
  /\ seen' = [j \in Jobs |-> IF promise[j] = "open" /\ JobRegister[j] = r
                             THEN seen[j] \cup {v} ELSE seen[j]]
  /\ UNCHANGED <<control, setPoint, store, heard, callers>>

-----------------------------------------------------------------------------
(* Callers *)

Init ==
  /\ pollingInProgress = FALSE
  /\ poll = [p \in Polls |-> Idle]
  /\ rwNonLogRegs = << >>
  /\ nonLogRegsIndex = 0
  /\ odd = FALSE
  /\ setPoint = None
  /\ store = [r \in IdMap |-> Fresh]
  /\ heard = [r \in IdMap |-> None]
  /\ device \in InitialDevices
  /\ promise = [j \in Jobs |-> "unsent"]
  /\ ticket = [j \in Jobs |-> 0]
  /\ tickets = 0
  /\ result = [j \in Jobs |-> None]
  /\ seen = [j \in Jobs |-> {}]

\* readRegister() and writeRegister(), and getRegisterValue() when the value
\* it has is too old for its caller.
Call(j) ==
  /\ promise[j] = "unsent"
  /\ promise' = [promise EXCEPT ![j] = "open"]
  /\ tickets' = tickets + 1
  /\ ticket' = [ticket EXCEPT ![j] = tickets + 1]
  /\ rwNonLogRegs' = Append(rwNonLogRegs, j)
  /\ seen' = [seen EXCEPT ![j] = {device[JobRegister[j]]}]
  /\ UNCHANGED <<pollingInProgress, poll, nonLogRegsIndex, odd, setPoint, store, heard,
                 device, result>>

SetSetPoint(v) ==
  /\ setPoint' = v
  /\ UNCHANGED <<control, store, heard, device, callers, seen>>

-----------------------------------------------------------------------------
(* handlePolling() *)

\* Mutant: the timer starts a poll although one is under way.
TickUnguarded(p) ==
  /\ \A q \in 1..p : Waiting(q, "idle") <=> q = p
  /\ pollingInProgress' = TRUE
  /\ poll' = [poll EXCEPT ![p] = AskLogSet(1)]
  /\ UNCHANGED <<rwNonLogRegs, nonLogRegsIndex, odd, setPoint, store, heard, device, callers,
                 seen>>

\* The 1 s timer, and the call in start().
Tick(p) ==
  /\ \A q \in 1..p : Waiting(q, "idle") <=> q = p
  /\ ~pollingInProgress
  /\ pollingInProgress' = TRUE
  /\ poll' = [poll EXCEPT ![p] = AskLogSet(1)]
  /\ UNCHANGED <<rwNonLogRegs, nonLogRegsIndex, odd, setPoint, store, heard, device, callers,
                 seen>>

\* handleEventEmitter() on the stored values s.
Announce(s) ==
  /\ heard' = [r \in IdMap |-> IF IsValueChanged(s[r]) THEN s[r].value ELSE heard[r]]
  /\ store' = [r \in IdMap |-> IF IsValueChanged(s[r]) THEN ClearValueChanged(s[r]) ELSE s[r]]

SetPointTurnTruthy == ~odd /\ setPoint \notin {None, 0}   \* mutant: if (this._setPoint...)
SetPointTurn == ~odd /\ setPoint # None

WriteSetPoint(p) ==
  /\ SetPointTurn
  /\ poll' = [poll EXCEPT ![p] = Ask("setpoint", 0, None, {DegreeMinutes}, setPoint)]
  /\ UNCHANGED <<rwNonLogRegs, nonLogRegsIndex>>

StartJob(p) ==
  LET j == Head(rwNonLogRegs)
  IN /\ ~SetPointTurn
     /\ rwNonLogRegs # << >>
     /\ rwNonLogRegs' = Tail(rwNonLogRegs)
     /\ poll' = [poll EXCEPT ![p] =
                   Ask("job", 0, j, {JobRegister[j]}, IF j \in Writes THEN JobValue[j] ELSE None)]
     /\ UNCHANGED nonLogRegsIndex

AskPeriodic(p) ==
  /\ ~SetPointTurn
  /\ rwNonLogRegs = << >>
  /\ poll' = [poll EXCEPT ![p] = Ask("periodic", 0, None, {NonLogSet[nonLogRegsIndex + 1]}, None)]
  /\ UNCHANGED rwNonLogRegs

\* Mutants: the index does not wrap around, or too early.
PeriodicReadOver(p) == AskPeriodic(p) /\ nonLogRegsIndex' = nonLogRegsIndex + 1
PeriodicReadShort(p) ==
  AskPeriodic(p) /\ nonLogRegsIndex' = (nonLogRegsIndex + 1) % (Len(NonLogSet) - 1)

PeriodicRead(p) ==
  AskPeriodic(p) /\ nonLogRegsIndex' = (nonLogRegsIndex + 1) % Len(NonLogSet)

\* What follows the last request for LOG.SET, up to the next await.
SecondPart(p) ==
  /\ odd' = ~odd
  /\ WriteSetPoint(p) \/ StartJob(p) \/ PeriodicRead(p)

\* pollLogSetValues() goes on with the next request, answered or not.
NextOfLogSet(p, s) ==
  IF poll[p].chunk < Len(LogSet)
  THEN /\ poll' = [poll EXCEPT ![p] = AskLogSet(poll[p].chunk + 1)]
       /\ store' = s
       /\ UNCHANGED <<rwNonLogRegs, nonLogRegsIndex, odd, heard>>
  ELSE Announce(s) /\ SecondPart(p)

LogSetRead(p) ==
  /\ Waiting(p, "log")
  /\ \/ Answered(p) /\ NextOfLogSet(p, ParseModbusResponse(poll[p].reply))
     \/ NextOfLogSet(p, store)      \* send() rejects
  /\ UNCHANGED <<pollingInProgress, setPoint, device, callers, seen>>

\* The `finally` of handlePolling().
Finally(p) ==
  /\ poll' = [poll EXCEPT ![p] = Idle]
  /\ pollingInProgress' = FALSE
  /\ UNCHANGED <<rwNonLogRegs, nonLogRegsIndex, odd, setPoint, heard, device>>

\* The set point has been written, or not.
SetPointWritten(p) ==
  /\ Waiting(p, "setpoint")
  /\ Finally(p)
  /\ UNCHANGED <<store, callers, seen>>

PeriodicReadDone(p) ==
  /\ Waiting(p, "periodic")
  /\ \/ Answered(p) /\ store' = ParseModbusResponse(poll[p].reply)
     \/ UNCHANGED store             \* send() rejects
  /\ Finally(p)
  /\ UNCHANGED <<callers, seen>>

Settle(p, outcome) ==
  LET j == poll[p].job
  IN /\ promise' = [promise EXCEPT ![j] = outcome]
     /\ seen' = [seen EXCEPT ![j] = {}]
     /\ Finally(p)
     /\ UNCHANGED <<ticket, tickets>>

\* Mutant: the caller is given what was stored before the answer came.
JobResolvesStale(p) ==
  LET j == poll[p].job
  IN /\ Waiting(p, "job") /\ Answered(p)
     /\ store' = ParseModbusResponse(poll[p].reply)
     /\ result' = IF j \in Writes THEN result
                  ELSE [result EXCEPT ![j] = store[JobRegister[j]].value]
     /\ Settle(p, "resolved")

\* The caller of a read takes the value from the Nibe1155Value, or, for a
\* register that has none, from the frame.
JobResolves(p) ==
  LET j == poll[p].job
      r == JobRegister[j]
  IN /\ Waiting(p, "job") /\ Answered(p)
     /\ store' = ParseModbusResponse(poll[p].reply)
     /\ result' = IF j \in Writes THEN result
                  ELSE [result EXCEPT ![j] = IF r \in IdMap THEN store'[r].value
                                             ELSE poll[p].reply[r]]
     /\ Settle(p, "resolved")

\* Mutant: the error is swallowed.
JobRejectsSilent(p) ==
  /\ Waiting(p, "job")
  /\ Finally(p)
  /\ UNCHANGED <<store, callers, seen>>

JobRejects(p) ==
  /\ Waiting(p, "job")
  /\ UNCHANGED <<store, result>>
  /\ Settle(p, "rejected")

-----------------------------------------------------------------------------

Resume(p) ==
  LogSetRead(p) \/ SetPointWritten(p) \/ PeriodicReadDone(p) \/ JobResolves(p) \/ JobRejects(p)

Next ==
  \/ \E j \in Jobs : Call(j)
  \/ \E v \in SetPoints \cup {None} : SetSetPoint(v)
  \/ \E r \in Volatile, v \in Values : DeviceChanges(r, v)
  \/ \E p \in Polls : Tick(p) \/ Serve(p) \/ Resume(p)

Safety == Init /\ [][Next]_vars

\* The timer goes on ticking, and every send() is settled (ModbusSerial:
\* OpenSettles). Nothing is assumed about answers.
Spec ==
  /\ Safety
  /\ WF_vars(\E p \in Polls : Tick(p))
  /\ \A p \in Polls : WF_vars(Resume(p))

-----------------------------------------------------------------------------
(* Properties *)

Answers == UNION {[S -> Values] : S \in SUBSET Registers}

Requests ==
  [pc : {"idle", "log", "setpoint", "job", "periodic"}, chunk : 0..Len(LogSet),
   job : Jobs \cup {None}, regs : SUBSET Registers, data : Values \cup {None},
   reply : Answers, done : BOOLEAN]

\* Every variable keeps its type.
TypeOK ==
  /\ pollingInProgress \in BOOLEAN
  /\ poll \in [Polls -> Requests]
  /\ rwNonLogRegs \in Seq(Jobs)
  /\ nonLogRegsIndex \in 0..(Len(NonLogSet) - 1)
  /\ odd \in BOOLEAN
  /\ setPoint \in Values \cup {None}
  /\ store \in [IdMap -> [value : Values \cup {None}, old : Values \cup {None},
                          since : {"null", "same", "earlier"}]]
  /\ heard \in [IdMap -> Values \cup {None}]
  /\ device \in [Registers -> Values]
  /\ promise \in [Jobs -> {"unsent", "open", "resolved", "rejected"}]
  /\ ticket \in [Jobs -> Nat] /\ tickets \in Nat
  /\ result \in [Jobs -> Values \cup {None}]
  /\ seen \in [Jobs -> SUBSET Values]

\* The timer does not wait for a poll to end, but two polls never overlap, so
\* Nibe1155 has at most one request under way at ModbusSerial: whatever way a
\* poll ends, by answers or errors, the flag is given back, and not before.
OneRequestAtATime ==
  \A p, q \in Polls :
    ~Waiting(p, "idle") => /\ pollingInProgress
                           /\ p # q => Waiting(q, "idle")

\* No change gets lost: the last change event of a register told its value, or
\* the next handleEventEmitter() finds it changed. Asked of registers whose
\* stored value is set at most once between two announcements.
NoChangeLost ==
  \A r \in IdMap : heard[r] # store[r].value => IsValueChanged(store[r])

\* A caller that reads is given a value the register has held since the call,
\* and not one that an earlier poll stored.
NotOlderThanTheCall ==
  [][\A j \in Jobs : result'[j] # result[j] => result'[j] \in seen[j]]_vars

\* The accesses of callers are served one by one in the order of the calls,
\* each settled exactly once, and while one is open, one gets settled: neither
\* the set point nor requests that fail can keep them waiting for ever.
Queue == INSTANCE RequestQueue WITH
  Requests <- Jobs, outcome <- promise
QueueSpec == Queue!Spec
QueueSafety == Queue!Safety

\* Every register outside LOG.SET is asked for again and again, although the
\* requests of others fail, jobs come in between and the set point is written.
Refreshed ==
  \A i \in 1..Len(NonLogSet) :
    []<>(\E p \in Polls : Waiting(p, "periodic") /\ poll[p].regs = {NonLogSet[i]})

\* A set point that stays is written again and again, whatever its value is.
SetPointKept ==
  \A v \in SetPoints :
    <>[](setPoint = v) => []<>(\E p \in Polls : Waiting(p, "setpoint") /\ poll[p].data = v)
=============================================================================
