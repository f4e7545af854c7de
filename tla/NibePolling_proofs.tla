------------------------- MODULE NibePolling_proofs -------------------------
(* What TLAPS proves about NibePolling, for all registers and any jobs. *)
EXTENDS NibePolling, TLAPS

Stored ==
  [value : Values \cup {None}, old : Values \cup {None}, since : {"null", "same", "earlier"}]

\* A run of handlePolling() that reads LOG.SET has a request to be at.
InLogSet == \A p \in Polls : Waiting(p, "log") => poll[p].chunk \in 1..Len(LogSet)

-----------------------------------------------------------------------------
(* Types *)

LEMMA SequenceFacts ==
  /\ Len(LogSet) \in Nat /\ Len(LogSet) > 0
  /\ \A i \in 1..Len(LogSet) : LogSet[i] \subseteq Registers
  /\ Len(NonLogSet) \in Nat /\ Len(NonLogSet) > 0
  /\ \A i \in 1..Len(NonLogSet) : NonLogSet[i] \in Registers
<1>1. LogSet \in Seq(SUBSET IdMap) /\ LogSet # << >>
  BY RegistersAssumption
<1>2. NonLogSet \in Seq(IdMap \ LogSetRegisters) /\ NonLogSet # << >>
  BY RegistersAssumption
<1>3. IdMap \subseteq Registers
  BY DEF Registers
<1> QED
  BY <1>1, <1>2, <1>3

LEMMA RegisterFacts ==
  /\ \A j \in Jobs : JobRegister[j] \in Registers
  /\ DegreeMinutes \in Registers /\ IdMap \subseteq Registers
  /\ None \notin Values /\ SetPoints \subseteq Values
  /\ \A j \in Jobs : JobValue[j] \in Values
  /\ NoAnswer \in Answers
<1>1. NoAnswer \in [{} -> Values]
  BY DEF NoAnswer
<1> QED
  BY <1>1, RegistersAssumption DEF Registers, Answers

LEMMA AskType ==
  ASSUME NEW l \in {"idle", "log", "setpoint", "job", "periodic"}, NEW i \in 0..Len(LogSet),
         NEW j \in Jobs \cup {None}, NEW s \in SUBSET Registers, NEW v \in Values \cup {None}
  PROVE  /\ Ask(l, i, j, s, v) \in Requests
         /\ Ask(l, i, j, s, v).pc = l /\ Ask(l, i, j, s, v).chunk = i
         /\ Ask(l, i, j, s, v).job = j /\ Ask(l, i, j, s, v).regs = s
         /\ Ask(l, i, j, s, v).data = v /\ ~Ask(l, i, j, s, v).done
  BY RegisterFacts DEF Ask, Requests

LEMMA IdleType == Idle \in Requests /\ Idle.pc = "idle"
<1>1. /\ 0 \in 0..Len(LogSet) /\ {} \in SUBSET Registers
      /\ None \in Jobs \cup {None} /\ None \in Values \cup {None}
      /\ "idle" \in {"idle", "log", "setpoint", "job", "periodic"}
  BY SequenceFacts
<1> QED
  BY <1>1, AskType DEF Idle

LEMMA AskLogSetType ==
  ASSUME NEW i \in 1..Len(LogSet)
  PROVE  AskLogSet(i) \in Requests /\ AskLogSet(i).pc = "log" /\ AskLogSet(i).chunk = i
<1>1. i \in 0..Len(LogSet) /\ LogSet[i] \in SUBSET Registers
  BY SequenceFacts
<1> QED
  BY <1>1, AskType DEF AskLogSet

LEMMA StoredFacts ==
  ASSUME NEW s \in Stored, NEW v \in Values
  PROVE  SetRawValue(s, v) \in Stored /\ ClearValueChanged(s) \in Stored
  BY DEF Stored, SetRawValue, ClearValueChanged

LEMMA ParseType ==
  ASSUME store \in [IdMap -> Stored], NEW a \in Answers
  PROVE  ParseModbusResponse(a) \in [IdMap -> Stored]
<1>1. \A r \in DOMAIN a : a[r] \in Values
  BY DEF Answers
<1> QED
  BY <1>1, StoredFacts DEF ParseModbusResponse

LEMMA AnnounceType ==
  ASSUME NEW s \in [IdMap -> Stored], heard \in [IdMap -> Values \cup {None}], Announce(s)
  PROVE  heard' \in [IdMap -> Values \cup {None}] /\ store' \in [IdMap -> Stored]
<1>1. \A r \in IdMap : s[r] \in Stored /\ ClearValueChanged(s[r]) \in Stored
  BY DEF Stored, ClearValueChanged
<1>2. \A r \in IdMap : s[r].value \in Values \cup {None}
  BY DEF Stored
<1> QED
  BY <1>1, <1>2 DEF Announce

\* What a run of handlePolling() does after LOG.SET keeps the types.
LEMMA SecondPartType ==
  ASSUME TypeOK, NEW p \in Polls, SecondPart(p)
  PROVE  /\ poll' \in [Polls -> Requests] /\ odd' \in BOOLEAN
         /\ rwNonLogRegs' \in Seq(Jobs) /\ nonLogRegsIndex' \in 0..(Len(NonLogSet) - 1)
         /\ \E l \in {"setpoint", "job", "periodic"} :
              poll'[p].pc = l /\ poll' = [poll EXCEPT ![p] = poll'[p]]
<1>1. /\ poll \in [Polls -> Requests] /\ rwNonLogRegs \in Seq(Jobs)
      /\ nonLogRegsIndex \in 0..(Len(NonLogSet) - 1)
      /\ setPoint \in Values \cup {None}
  BY DEF TypeOK
<1>2. odd' \in BOOLEAN
  BY DEF SecondPart, TypeOK
<1>3. CASE WriteSetPoint(p)
  <2>0. /\ 0 \in 0..Len(LogSet) /\ {DegreeMinutes} \in SUBSET Registers
        /\ None \in Jobs \cup {None} /\ setPoint \in Values \cup {None}
        /\ "setpoint" \in {"idle", "log", "setpoint", "job", "periodic"}
    BY <1>1, SequenceFacts, RegisterFacts
  <2>1. Ask("setpoint", 0, None, {DegreeMinutes}, setPoint) \in Requests
        /\ Ask("setpoint", 0, None, {DegreeMinutes}, setPoint).pc = "setpoint"
    BY <2>0, AskType
  <2> QED
    BY <1>1, <1>2, <1>3, <2>1 DEF WriteSetPoint
<1>4. CASE StartJob(p)
  <2> DEFINE j == Head(rwNonLogRegs)
             v == IF j \in Writes THEN JobValue[j] ELSE None
  <2>1. j \in Jobs /\ Tail(rwNonLogRegs) \in Seq(Jobs)
    BY <1>1, <1>4 DEF StartJob
  <2>2. v \in Values \cup {None} /\ {JobRegister[j]} \in SUBSET Registers
    BY <2>1, RegisterFacts
  <2>3. Ask("job", 0, j, {JobRegister[j]}, v) \in Requests
        /\ Ask("job", 0, j, {JobRegister[j]}, v).pc = "job"
    BY <2>1, <2>2, AskType, SequenceFacts
  <2> QED
    BY <1>1, <1>2, <1>4, <2>1, <2>3 DEF StartJob
<1>5. CASE PeriodicRead(p)
  <2>1. NonLogSet[nonLogRegsIndex + 1] \in Registers
    BY <1>1, SequenceFacts
  <2>2. (nonLogRegsIndex + 1) % Len(NonLogSet) \in 0..(Len(NonLogSet) - 1)
    BY <1>1, SequenceFacts
  <2>3. Ask("periodic", 0, None, {NonLogSet[nonLogRegsIndex + 1]}, None) \in Requests
        /\ Ask("periodic", 0, None, {NonLogSet[nonLogRegsIndex + 1]}, None).pc = "periodic"
    BY <2>1, AskType, SequenceFacts
  <2> QED
    BY <1>1, <1>2, <1>5, <2>2, <2>3 DEF PeriodicRead, AskPeriodic
<1> QED
  BY <1>3, <1>4, <1>5 DEF SecondPart

-----------------------------------------------------------------------------
(* One run at a time *)

TypeInv == TypeOK /\ InLogSet /\ OneRequestAtATime

\* A run of handlePolling() goes on to its next request.
LEMMA StaysBusy ==
  ASSUME TypeInv, NEW p \in Polls, ~Waiting(p, "idle"), NEW x \in Requests, x.pc # "idle",
         x.pc = "log" => x.chunk \in 1..Len(LogSet),
         poll' = [poll EXCEPT ![p] = x], UNCHANGED pollingInProgress
  PROVE  poll' \in [Polls -> Requests] /\ InLogSet' /\ OneRequestAtATime'
<1>1. /\ poll \in [Polls -> Requests] /\ poll' \in [Polls -> Requests]
      /\ poll'[p] = x /\ \A q \in Polls : q # p => poll'[q] = poll[q]
  BY DEF TypeInv, TypeOK
<1>2. InLogSet'
  BY <1>1 DEF TypeInv, InLogSet, Waiting
<1>3. OneRequestAtATime'
  BY <1>1 DEF TypeInv, OneRequestAtATime, Waiting
<1> QED
  BY <1>1, <1>2, <1>3

\* It ends.
LEMMA BecomesIdle ==
  ASSUME TypeInv, NEW p \in Polls, ~Waiting(p, "idle"), Finally(p)
  PROVE  poll' \in [Polls -> Requests] /\ InLogSet' /\ OneRequestAtATime'
<1>1. /\ poll \in [Polls -> Requests] /\ poll' \in [Polls -> Requests]
      /\ poll'[p].pc = "idle" /\ \A q \in Polls : q # p => poll'[q] = poll[q]
  BY IdleType DEF TypeInv, TypeOK, Finally
<1>2. \A q \in Polls : poll'[q].pc = "idle"
  BY <1>1 DEF TypeInv, OneRequestAtATime, Waiting
<1> QED
  BY <1>1, <1>2 DEF InLogSet, OneRequestAtATime, Waiting

LEMMA ServeKeepsType ==
  ASSUME TypeInv, NEW p \in Polls, Serve(p)
  PROVE  TypeInv'
<1> DEFINE a == IF poll[p].data = None THEN [r \in poll[p].regs |-> device[r]] ELSE NoAnswer
           x == [poll[p] EXCEPT !.done = TRUE, !.reply = a]
<1>1. /\ poll \in [Polls -> Requests] /\ poll[p] \in Requests
      /\ poll[p].regs \in SUBSET Registers /\ poll[p].data \in Values \cup {None}
      /\ device \in [Registers -> Values] /\ seen \in [Jobs -> SUBSET Values]
  BY DEF TypeInv, TypeOK, Requests
<1>2. a \in Answers
  <2>1. [r \in poll[p].regs |-> device[r]] \in [poll[p].regs -> Values]
    BY <1>1
  <2> QED
    BY <1>1, <2>1, RegisterFacts DEF Answers
<1>3. /\ x \in Requests /\ x.pc = poll[p].pc /\ x.chunk = poll[p].chunk
  BY <1>1, <1>2 DEF Requests
<1>4. poll' = [poll EXCEPT ![p] = x]
  BY <1>1 DEF Serve, Requests
<1>5. ~Waiting(p, "idle") /\ UNCHANGED pollingInProgress
      /\ x.pc # "idle" /\ (x.pc = "log" => x.chunk \in 1..Len(LogSet))
  BY <1>3 DEF Serve, TypeInv, InLogSet, Waiting
<1>6. poll' \in [Polls -> Requests] /\ InLogSet' /\ OneRequestAtATime'
  BY <1>3, <1>4, <1>5, StaysBusy
<1>7. device' \in [Registers -> Values]
  BY <1>1 DEF Serve
<1>8. seen' \in [Jobs -> SUBSET Values]
  <2>1. \A j \in Jobs : device'[JobRegister[j]] \in Values
    BY <1>7, RegisterFacts
  <2> QED
    BY <1>1, <2>1 DEF Serve
<1> QED
  BY <1>6, <1>7, <1>8 DEF TypeInv, TypeOK, Serve, callers

LEMMA TickKeepsType ==
  ASSUME TypeInv, NEW p \in Polls, Tick(p)
  PROVE  TypeInv'
<1>1. /\ poll \in [Polls -> Requests] /\ 1 \in 1..Len(LogSet)
      /\ poll' = [poll EXCEPT ![p] = AskLogSet(1)]
  BY SequenceFacts DEF TypeInv, TypeOK, Tick
<1>2. /\ poll' \in [Polls -> Requests]
      /\ poll'[p].pc = "log" /\ poll'[p].chunk \in 1..Len(LogSet)
      /\ \A q \in Polls : q # p => poll'[q] = poll[q]
  BY <1>1, AskLogSetType
<1>3. \A q \in Polls : poll[q].pc = "idle"
  BY DEF TypeInv, OneRequestAtATime, Waiting, Tick
<1>4. InLogSet' /\ OneRequestAtATime'
  BY <1>2, <1>3 DEF InLogSet, OneRequestAtATime, Waiting, Tick
<1> QED
  BY <1>2, <1>4 DEF TypeInv, TypeOK, Tick, callers

LEMMA LogSetReadKeepsType ==
  ASSUME TypeInv, NEW p \in Polls, LogSetRead(p)
  PROVE  TypeInv'
<1>1. /\ poll \in [Polls -> Requests] /\ store \in [IdMap -> Stored]
      /\ poll[p].reply \in Answers /\ poll[p].pc = "log"
      /\ poll[p].chunk \in 1..Len(LogSet) /\ ~Waiting(p, "idle")
      /\ UNCHANGED <<pollingInProgress, setPoint, device, callers, seen>>
  BY DEF TypeInv, TypeOK, Requests, LogSetRead, Waiting, InLogSet, Stored
<1>2. PICK s \in [IdMap -> Stored] : NextOfLogSet(p, s)
  BY <1>1, ParseType DEF LogSetRead
<1>3. CASE poll[p].chunk < Len(LogSet)
  <2> DEFINE x == AskLogSet(poll[p].chunk + 1)
  <2>1. poll[p].chunk + 1 \in 1..Len(LogSet)
    BY <1>1, <1>3, SequenceFacts
  <2>2. x \in Requests /\ x.pc = "log" /\ x.chunk \in 1..Len(LogSet)
    BY <2>1, AskLogSetType
  <2>3. /\ poll' = [poll EXCEPT ![p] = x] /\ store' = s
        /\ UNCHANGED <<rwNonLogRegs, nonLogRegsIndex, odd, heard>>
    BY <1>2, <1>3 DEF NextOfLogSet
  <2>4. poll' \in [Polls -> Requests] /\ InLogSet' /\ OneRequestAtATime'
    BY <1>1, <2>2, <2>3, StaysBusy
  <2> QED
    BY <1>1, <2>3, <2>4 DEF TypeInv, TypeOK, Stored, callers
<1>4. CASE ~(poll[p].chunk < Len(LogSet))
  <2>1. Announce(s) /\ SecondPart(p)
    BY <1>2, <1>4 DEF NextOfLogSet
  <2>2. heard' \in [IdMap -> Values \cup {None}] /\ store' \in [IdMap -> Stored]
    BY <2>1, AnnounceType DEF TypeInv, TypeOK
  <2>3. /\ poll' \in [Polls -> Requests] /\ odd' \in BOOLEAN
        /\ rwNonLogRegs' \in Seq(Jobs) /\ nonLogRegsIndex' \in 0..(Len(NonLogSet) - 1)
        /\ poll'[p].pc \in {"setpoint", "job", "periodic"}
        /\ poll' = [poll EXCEPT ![p] = poll'[p]]
    BY <2>1, SecondPartType DEF TypeInv
  <2>4. InLogSet' /\ OneRequestAtATime'
    <3>1. poll'[p] \in Requests /\ poll'[p].pc # "idle" /\ poll'[p].pc # "log"
      BY <2>3
    <3> QED
      BY <1>1, <2>3, <3>1, StaysBusy
  <2> QED
    BY <1>1, <2>2, <2>3, <2>4 DEF TypeInv, TypeOK, Stored, callers
<1> QED
  BY <1>3, <1>4

-----------------------------------------------------------------------------
(* The request of a job *)

\* x is the request of a job, with its answer if it has one.
ServesJob(x) ==
  /\ x.job \in Jobs
  /\ x.regs = {JobRegister[x.job]}
  /\ x.data = IF x.job \in Writes THEN JobValue[x.job] ELSE None
  /\ x.done /\ x.job \notin Writes => x.reply \in [x.regs -> Values]

InService == \A p \in Polls : Waiting(p, "job") => ServesJob(poll[p])

LEMMA StillInService ==
  ASSUME TypeInv, InService, NEW p \in Polls, NEW x,
         poll' = [poll EXCEPT ![p] = x], x.pc = "job" => ServesJob(x)
  PROVE  InService'
<1>1. poll'[p] = x /\ \A q \in Polls : q # p => poll'[q] = poll[q]
  BY DEF TypeInv, TypeOK
<1> QED
  BY <1>1 DEF InService, Waiting, ServesJob

LEMMA ServeKeepsService ==
  ASSUME TypeInv, InService, NEW p \in Polls, Serve(p)
  PROVE  InService'
<1> DEFINE a == IF poll[p].data = None THEN [r \in poll[p].regs |-> device[r]] ELSE NoAnswer
           x == [poll[p] EXCEPT !.done = TRUE, !.reply = a]
<1>1. /\ poll[p] \in Requests /\ device \in [Registers -> Values]
      /\ poll[p].regs \in SUBSET Registers
  BY DEF TypeInv, TypeOK, Requests
<1>2. /\ x.pc = poll[p].pc /\ x.job = poll[p].job /\ x.regs = poll[p].regs
      /\ x.data = poll[p].data /\ x.reply = a
  BY <1>1 DEF Requests
<1>3. poll' = [poll EXCEPT ![p] = x]
  BY <1>1 DEF Serve, Requests, TypeInv, TypeOK
<1>4. ASSUME x.pc = "job" PROVE ServesJob(x)
  <2>1. ServesJob(poll[p])
    BY <1>2, <1>4 DEF InService, Waiting
  <2>2. x.job \notin Writes => a \in [x.regs -> Values]
    BY <1>1, <1>2, <2>1 DEF ServesJob
  <2> QED
    BY <1>2, <2>1, <2>2 DEF ServesJob
<1>5. \E z : poll' = [poll EXCEPT ![p] = z] /\ (z.pc = "job" => ServesJob(z))
  BY <1>3, <1>4
<1> QED
  BY <1>5, StillInService

LEMMA StartJobServes ==
  ASSUME TypeInv, InService, NEW p \in Polls, SecondPart(p)
  PROVE  InService'
<1>1. /\ poll \in [Polls -> Requests] /\ rwNonLogRegs \in Seq(Jobs)
  BY DEF TypeInv, TypeOK
<1>2. CASE WriteSetPoint(p)
  <2>1. Ask("setpoint", 0, None, {DegreeMinutes}, setPoint).pc # "job"
    BY DEF Ask
  <2> QED
    BY <1>2, <2>1, StillInService DEF WriteSetPoint
<1>3. CASE StartJob(p)
  <2> DEFINE j == Head(rwNonLogRegs)
             v == IF j \in Writes THEN JobValue[j] ELSE None
             x == Ask("job", 0, j, {JobRegister[j]}, v)
  <2>1. j \in Jobs
    BY <1>1, <1>3 DEF StartJob
  <2>2. ServesJob(x)
    BY <2>1 DEF ServesJob, Ask
  <2> QED
    BY <1>3, <2>2, StillInService DEF StartJob
<1>4. CASE PeriodicRead(p)
  <2>1. Ask("periodic", 0, None, {NonLogSet[nonLogRegsIndex + 1]}, None).pc # "job"
    BY DEF Ask
  <2> QED
    BY <1>4, <2>1, StillInService DEF PeriodicRead, AskPeriodic
<1> QED
  BY <1>2, <1>3, <1>4 DEF SecondPart

LEMMA PollingKeepsService ==
  ASSUME TypeInv, InService, NEW p \in Polls, Tick(p) \/ LogSetRead(p) \/ Finally(p)
  PROVE  InService'
<1>1. \A i : AskLogSet(i).pc # "job"
  BY DEF AskLogSet, Ask
<1>2. Idle.pc # "job"
  BY DEF Idle, Ask
<1>3. CASE Tick(p)
  BY <1>1, <1>3, StillInService DEF Tick
<1>4. CASE Finally(p)
  BY <1>2, <1>4, StillInService DEF Finally
<1>5. CASE LogSetRead(p)
  <2>1. SecondPart(p) \/ poll' = [poll EXCEPT ![p] = AskLogSet(poll[p].chunk + 1)]
    BY <1>5 DEF LogSetRead, NextOfLogSet
  <2> QED
    BY <1>1, <2>1, StillInService, StartJobServes
<1> QED
  BY <1>3, <1>4, <1>5

-----------------------------------------------------------------------------
(* The end of a poll *)

LEMMA SetPointWrittenKeepsType ==
  ASSUME TypeInv, NEW p \in Polls, SetPointWritten(p)
  PROVE  TypeInv'
<1>1. ~Waiting(p, "idle") /\ Finally(p)
  BY DEF SetPointWritten, Waiting
<1>2. poll' \in [Polls -> Requests] /\ InLogSet' /\ OneRequestAtATime'
  BY <1>1, BecomesIdle
<1> QED
  BY <1>1, <1>2 DEF TypeInv, TypeOK, SetPointWritten, Finally, callers

LEMMA PeriodicReadDoneKeepsType ==
  ASSUME TypeInv, NEW p \in Polls, PeriodicReadDone(p)
  PROVE  TypeInv'
<1>1. ~Waiting(p, "idle") /\ Finally(p)
  BY DEF PeriodicReadDone, Waiting
<1>2. poll' \in [Polls -> Requests] /\ InLogSet' /\ OneRequestAtATime'
  BY <1>1, BecomesIdle
<1>3. poll[p].reply \in Answers /\ store \in [IdMap -> Stored]
  BY DEF TypeInv, TypeOK, Requests, Stored
<1>4. store' \in [IdMap -> Stored]
  BY <1>3, ParseType DEF PeriodicReadDone
<1> QED
  BY <1>1, <1>2, <1>4 DEF TypeInv, TypeOK, PeriodicReadDone, Finally, callers, Stored

\* The value a job that reads is given is the one in the answer.
LEMMA GivenIsAnswered ==
  ASSUME TypeInv, InService, NEW p \in Polls, JobResolves(p), poll[p].job \notin Writes
  PROVE  LET j == poll[p].job
         IN /\ poll[p].reply[JobRegister[j]] \in Values
            /\ result' = [result EXCEPT ![j] = poll[p].reply[JobRegister[j]]]
<1> DEFINE j == poll[p].job
           r == JobRegister[j]
<1>1. ServesJob(poll[p]) /\ poll[p].done /\ j \in Jobs
  BY DEF JobResolves, InService, Waiting, Answered, ServesJob
<1>2. poll[p].reply \in [{r} -> Values]
  BY <1>1 DEF ServesJob
<1>3. r \in DOMAIN poll[p].reply /\ poll[p].reply[r] \in Values
  BY <1>2
<1>4. r \in IdMap => store'[r].value = poll[p].reply[r]
  <2>1. store' = ParseModbusResponse(poll[p].reply)
    BY DEF JobResolves
  <2>2. r \in IdMap => store'[r] = SetRawValue(store[r], poll[p].reply[r])
    BY <1>3, <2>1 DEF ParseModbusResponse
  <2> QED
    BY <2>2 DEF SetRawValue
<1>5. result' = [result EXCEPT ![j] = IF r \in IdMap THEN store'[r].value ELSE poll[p].reply[r]]
  BY DEF JobResolves
<1> QED
  BY <1>3, <1>4, <1>5

LEMMA JobDoneKeepsType ==
  ASSUME TypeInv, InService, NEW p \in Polls, JobResolves(p) \/ JobRejects(p)
  PROVE  TypeInv'
<1>1. /\ ~Waiting(p, "idle") /\ Finally(p)
      /\ Settle(p, "resolved") \/ Settle(p, "rejected")
  BY DEF JobResolves, JobRejects, Settle, Waiting
<1>2. poll' \in [Polls -> Requests] /\ InLogSet' /\ OneRequestAtATime'
  BY <1>1, BecomesIdle
<1>3. poll[p].reply \in Answers /\ store \in [IdMap -> Stored]
  BY DEF TypeInv, TypeOK, Requests, Stored
<1>4. store' \in [IdMap -> Stored]
  BY <1>3, ParseType DEF JobResolves, JobRejects
<1>5. result' \in [Jobs -> Values \cup {None}]
  <2>1. CASE JobResolves(p) /\ poll[p].job \notin Writes
    BY <2>1, GivenIsAnswered DEF TypeInv, TypeOK
  <2> QED
    BY <2>1 DEF JobResolves, JobRejects, TypeInv, TypeOK
<1>6. /\ promise' \in [Jobs -> {"unsent", "open", "resolved", "rejected"}]
      /\ seen' \in [Jobs -> SUBSET Values] /\ UNCHANGED <<ticket, tickets>>
  BY <1>1 DEF Settle, TypeInv, TypeOK
<1> QED
  BY <1>1, <1>2, <1>4, <1>5, <1>6 DEF TypeInv, TypeOK, Finally, Stored

LEMMA OutsideKeepsType ==
  ASSUME TypeInv, InService,
         \/ \E j \in Jobs : Call(j)
         \/ \E v \in SetPoints \cup {None} : SetSetPoint(v)
         \/ \E r \in Volatile, v \in Values : DeviceChanges(r, v)
         \/ UNCHANGED vars
  PROVE  TypeInv' /\ InService'
<1>1. UNCHANGED <<pollingInProgress, poll>>
  BY DEF Call, SetSetPoint, DeviceChanges, vars, control
<1>2. InLogSet' /\ OneRequestAtATime' /\ InService'
  BY <1>1 DEF TypeInv, InLogSet, OneRequestAtATime, InService, Waiting
<1>3. ASSUME NEW j \in Jobs, Call(j) PROVE TypeOK'
  <2>1. Append(rwNonLogRegs, j) \in Seq(Jobs)
    BY DEF TypeInv, TypeOK
  <2>2. device[JobRegister[j]] \in Values
    BY RegisterFacts DEF TypeInv, TypeOK
  <2> QED
    BY <1>3, <2>1, <2>2 DEF TypeInv, TypeOK, Call
<1>4. ASSUME NEW v \in SetPoints \cup {None}, SetSetPoint(v) PROVE TypeOK'
  BY <1>4, RegisterFacts DEF TypeInv, TypeOK, SetSetPoint, control, callers
<1>5. ASSUME NEW r \in Volatile, NEW v \in Values, DeviceChanges(r, v) PROVE TypeOK'
  BY <1>5 DEF TypeInv, TypeOK, DeviceChanges, control, callers
<1>6. UNCHANGED vars => TypeOK'
  BY DEF TypeInv, TypeOK, vars, control, callers
<1> QED
  BY <1>2, <1>3, <1>4, <1>5, <1>6 DEF TypeInv

-----------------------------------------------------------------------------

LEMMA InitType == Init => TypeInv /\ InService
<1> SUFFICES ASSUME Init PROVE TypeInv /\ InService
  OBVIOUS
<1>1. poll \in [Polls -> Requests] /\ \A p \in Polls : poll[p].pc = "idle"
  BY IdleType DEF Init
<1>2. InLogSet /\ OneRequestAtATime /\ InService
  BY <1>1 DEF InLogSet, OneRequestAtATime, InService, Waiting
<1>3. device \in [Registers -> Values]
  BY RegistersAssumption DEF Init
<1>4. 0 \in 0..(Len(NonLogSet) - 1)
  BY SequenceFacts
<1>5. store \in [IdMap -> Stored] /\ heard \in [IdMap -> Values \cup {None}]
  BY DEF Init, Fresh, Stored
<1>6. rwNonLogRegs \in Seq(Jobs)
  <2>1. rwNonLogRegs = << >>
    BY DEF Init
  <2> QED
    BY <2>1
<1>7. /\ promise \in [Jobs -> {"unsent", "open", "resolved", "rejected"}]
      /\ ticket \in [Jobs -> Nat] /\ tickets \in Nat
      /\ result \in [Jobs -> Values \cup {None}] /\ seen \in [Jobs -> SUBSET Values]
  BY DEF Init
<1>8. /\ pollingInProgress \in BOOLEAN /\ odd \in BOOLEAN
      /\ nonLogRegsIndex = 0 /\ setPoint \in Values \cup {None}
  BY DEF Init
<1>9. TypeOK
  BY <1>1, <1>3, <1>4, <1>5, <1>6, <1>7, <1>8 DEF TypeOK, Stored
<1> QED
  BY <1>2, <1>9 DEF TypeInv

LEMMA NextKeepsType == TypeInv /\ InService /\ [Next]_vars => TypeInv' /\ InService'
<1> SUFFICES ASSUME TypeInv, InService, [Next]_vars PROVE TypeInv' /\ InService'
  OBVIOUS
<1>1. ASSUME NEW p \in Polls, Tick(p) PROVE TypeInv' /\ InService'
  BY <1>1, TickKeepsType, PollingKeepsService
<1>2. ASSUME NEW p \in Polls, Serve(p) PROVE TypeInv' /\ InService'
  BY <1>2, ServeKeepsType, ServeKeepsService
<1>3. ASSUME NEW p \in Polls, LogSetRead(p) PROVE TypeInv' /\ InService'
  BY <1>3, LogSetReadKeepsType, PollingKeepsService
<1>4. ASSUME NEW p \in Polls, SetPointWritten(p) PROVE TypeInv' /\ InService'
  <2>1. Finally(p)
    BY <1>4 DEF SetPointWritten
  <2> QED
    BY <1>4, <2>1, SetPointWrittenKeepsType, PollingKeepsService
<1>5. ASSUME NEW p \in Polls, PeriodicReadDone(p) PROVE TypeInv' /\ InService'
  <2>1. Finally(p)
    BY <1>5 DEF PeriodicReadDone
  <2> QED
    BY <1>5, <2>1, PeriodicReadDoneKeepsType, PollingKeepsService
<1>6. ASSUME NEW p \in Polls, JobResolves(p) \/ JobRejects(p) PROVE TypeInv' /\ InService'
  <2>1. Finally(p)
    BY <1>6 DEF JobResolves, JobRejects, Settle
  <2> QED
    BY <1>6, <2>1, JobDoneKeepsType, PollingKeepsService
<1> QED
  BY <1>1, <1>2, <1>3, <1>4, <1>5, <1>6, OutsideKeepsType DEF Next, Resume

LEMMA TypeInvariance == Spec => [](TypeInv /\ InService)
  BY InitType, NextKeepsType, PTL DEF Spec, Safety

\* Every variable of NibePolling keeps its type, for all registers and jobs.
THEOREM PollingTypeCorrect == Spec => []TypeOK
<1>1. TypeInv => TypeOK
  BY DEF TypeInv
<1> QED
  BY <1>1, TypeInvariance, PTL

\* The timer may tick as it likes: Nibe1155 has one request under way at most.
THEOREM OneRequest == Spec => []OneRequestAtATime
<1>1. TypeInv => OneRequestAtATime
  BY DEF TypeInv
<1> QED
  BY <1>1, TypeInvariance, PTL

-----------------------------------------------------------------------------
(* What a caller is given *)

\* Each open job waits in one place only.
OpenOnce ==
  /\ \A i, k \in 1..Len(rwNonLogRegs) : rwNonLogRegs[i] = rwNonLogRegs[k] => i = k
  /\ \A i \in 1..Len(rwNonLogRegs) : promise[rwNonLogRegs[i]] = "open"
  /\ \A p \in Polls : Waiting(p, "job") =>
       /\ promise[poll[p].job] = "open"
       /\ \A i \in 1..Len(rwNonLogRegs) : rwNonLogRegs[i] # poll[p].job

\* The answer to a job is among the values its register has held since the call.
AnswerSeen ==
  \A p \in Polls :
    Waiting(p, "job") /\ Answered(p) /\ poll[p].job \notin Writes =>
      poll[p].reply[JobRegister[poll[p].job]] \in seen[poll[p].job]

Inv == TypeInv /\ InService /\ OpenOnce /\ AnswerSeen

LEMMA CallKeepsOpen ==
  ASSUME Inv, NEW j \in Jobs, Call(j)
  PROVE  OpenOnce' /\ AnswerSeen'
<1>1. /\ rwNonLogRegs \in Seq(Jobs) /\ promise \in [Jobs -> {"unsent", "open", "resolved", "rejected"}]
      /\ seen \in [Jobs -> SUBSET Values]
  BY DEF Inv, TypeInv, TypeOK
<1>2. \A i \in 1..Len(rwNonLogRegs) : rwNonLogRegs[i] # j
  BY DEF Inv, OpenOnce, Call
<1>3. \A p \in Polls : Waiting(p, "job") => poll[p].job # j /\ poll[p].job \in Jobs
  BY DEF Inv, OpenOnce, Call, InService, ServesJob
<1>4. /\ Len(rwNonLogRegs') = Len(rwNonLogRegs) + 1 /\ Len(rwNonLogRegs) \in Nat
      /\ \A i \in 1..Len(rwNonLogRegs) : rwNonLogRegs'[i] = rwNonLogRegs[i]
      /\ rwNonLogRegs'[Len(rwNonLogRegs) + 1] = j
  BY <1>1 DEF Call
<1>5. \A i \in 1..Len(rwNonLogRegs') : i \in 1..Len(rwNonLogRegs) \/ i = Len(rwNonLogRegs) + 1
  BY <1>4
<1>6. \A i \in 1..Len(rwNonLogRegs) : rwNonLogRegs[i] \in Jobs
  BY <1>1
<1>7. promise'[j] = "open" /\ \A k \in Jobs \ {j} : promise'[k] = promise[k] /\ seen'[k] = seen[k]
  BY <1>1 DEF Call
<1>8. UNCHANGED poll
  BY DEF Call
<1>9. \A i, k \in 1..Len(rwNonLogRegs') : rwNonLogRegs'[i] = rwNonLogRegs'[k] => i = k
  BY <1>2, <1>4, <1>5 DEF Inv, OpenOnce
<1>10. \A i \in 1..Len(rwNonLogRegs') : promise'[rwNonLogRegs'[i]] = "open"
  BY <1>2, <1>4, <1>5, <1>6, <1>7 DEF Inv, OpenOnce
<1>11. \A p \in Polls : Waiting(p, "job")' =>
         /\ promise'[poll'[p].job] = "open"
         /\ \A i \in 1..Len(rwNonLogRegs') : rwNonLogRegs'[i] # poll'[p].job
  BY <1>3, <1>4, <1>5, <1>7, <1>8 DEF Inv, OpenOnce, Waiting
<1>12. AnswerSeen'
  BY <1>3, <1>7, <1>8 DEF Inv, AnswerSeen, Waiting, Answered
<1> QED
  BY <1>9, <1>10, <1>11, <1>12 DEF OpenOnce

LEMMA ServeKeepsOpen ==
  ASSUME Inv, NEW p \in Polls, Serve(p)
  PROVE  OpenOnce' /\ AnswerSeen'
<1> DEFINE a == IF poll[p].data = None THEN [r \in poll[p].regs |-> device[r]] ELSE NoAnswer
<1>1. /\ poll \in [Polls -> Requests] /\ poll[p] \in Requests
      /\ device \in [Registers -> Values] /\ seen \in [Jobs -> SUBSET Values]
  BY DEF Inv, TypeInv, TypeOK
<1>2. /\ poll'[p].pc = poll[p].pc /\ poll'[p].job = poll[p].job /\ poll'[p].reply = a
      /\ \A q \in Polls : q # p => poll'[q] = poll[q]
  BY <1>1 DEF Serve, Requests
<1>3. UNCHANGED << rwNonLogRegs, promise >>
  BY DEF Serve, callers
<1>4. OpenOnce'
  <2>1. \A q \in Polls : poll'[q].pc = poll[q].pc /\ poll'[q].job = poll[q].job
    BY <1>2
  <2> QED
    BY <1>3, <2>1 DEF Inv, OpenOnce, Waiting
<1>5. \A k \in Jobs : promise[k] = "open" =>
        seen'[k] = seen[k] \cup {device'[JobRegister[k]]}
  BY DEF Serve
<1>6. ASSUME NEW q \in Polls, Waiting(q, "job")', Answered(q)', poll'[q].job \notin Writes
      PROVE  poll'[q].reply[JobRegister[poll'[q].job]] \in seen'[poll'[q].job]
  <2> DEFINE j == poll[q].job
             r == JobRegister[j]
  <2>1. Waiting(q, "job") /\ poll'[q].job = j /\ ServesJob(poll[q]) /\ j \in Jobs
    BY <1>2, <1>6 DEF Inv, InService, Waiting, ServesJob
  <2>2. seen'[j] = seen[j] \cup {device'[r]}
    BY <1>5, <2>1 DEF Inv, OpenOnce
  <2>3. CASE q = p
    <3>1. poll[p].data = None /\ poll[p].regs = {r}
      BY <1>6, <2>1, <2>3 DEF ServesJob
    <3>2. poll'[q].reply[r] = device[r]
      BY <1>2, <2>3, <3>1
    <3>3. device'[r] = device[r]
      BY <2>1, <3>1, RegisterFacts DEF Serve
    <3> QED
      BY <2>1, <2>2, <3>2, <3>3
  <2>4. CASE q # p
    BY <1>2, <1>6, <2>1, <2>2, <2>4 DEF Inv, AnswerSeen, Answered
  <2> QED
    BY <2>3, <2>4
<1> QED
  BY <1>4, <1>6 DEF AnswerSeen

\* A register that changes by itself, or a new set point.
LEMMA OutsideKeepsOpen ==
  ASSUME Inv, UNCHANGED << poll, rwNonLogRegs, promise >>,
         \A j \in Jobs : seen[j] \subseteq seen'[j]
  PROVE  OpenOnce' /\ AnswerSeen'
<1>1. OpenOnce'
  BY DEF Inv, OpenOnce, Waiting
<1>2. \A p \in Polls : Waiting(p, "job") => poll[p].job \in Jobs
  BY DEF Inv, InService, ServesJob
<1>3. AnswerSeen'
  BY <1>2 DEF Inv, AnswerSeen, Waiting, Answered
<1> QED
  BY <1>1, <1>3

\* A poll goes on, or ends, and its next request is not that of a job.
LEMMA PollKeepsOpen ==
  ASSUME Inv, NEW p \in Polls, NEW x, x.pc # "job", poll' = [poll EXCEPT ![p] = x],
         UNCHANGED << rwNonLogRegs, promise, seen >>
  PROVE  OpenOnce' /\ AnswerSeen'
<1>1. poll'[p] = x /\ \A q \in Polls : q # p => poll'[q] = poll[q]
  BY DEF Inv, TypeInv, TypeOK
<1>2. \A q \in Polls : Waiting(q, "job")' => Waiting(q, "job") /\ poll'[q] = poll[q]
  BY <1>1 DEF Waiting
<1> QED
  BY <1>2 DEF Inv, OpenOnce, AnswerSeen, Answered

LEMMA StartJobKeepsOpen ==
  ASSUME Inv, NEW p \in Polls, ~Waiting(p, "idle"), StartJob(p), UNCHANGED << promise, seen >>
  PROVE  OpenOnce' /\ AnswerSeen'
<1> DEFINE j == Head(rwNonLogRegs)
           v == IF j \in Writes THEN JobValue[j] ELSE None
           x == Ask("job", 0, j, {JobRegister[j]}, v)
<1>1. rwNonLogRegs \in Seq(Jobs) /\ rwNonLogRegs # << >> /\ rwNonLogRegs' = Tail(rwNonLogRegs)
  BY DEF Inv, TypeInv, TypeOK, StartJob
<1>2. /\ Len(rwNonLogRegs) \in Nat \ {0} /\ j = rwNonLogRegs[1]
      /\ Len(rwNonLogRegs') = Len(rwNonLogRegs) - 1
      /\ \A i \in 1..Len(rwNonLogRegs') : rwNonLogRegs'[i] = rwNonLogRegs[i + 1]
  BY <1>1
<1>3. \A i \in 1..Len(rwNonLogRegs') : i + 1 \in 1..Len(rwNonLogRegs) /\ i + 1 # 1
  BY <1>2
<1>4. x.pc = "job" /\ x.job = j /\ ~x.done
  BY DEF Ask
<1>5. poll'[p] = x
  <2>1. poll' = [poll EXCEPT ![p] = x]
    BY DEF StartJob
  <2> QED
    BY <2>1 DEF Inv, TypeInv, TypeOK
<1>6. \A q \in Polls : q # p => ~Waiting(q, "job")'
  <2>1. \A q \in Polls : q # p => poll'[q] = poll[q] /\ poll[q].pc = "idle"
    BY DEF Inv, TypeInv, TypeOK, OneRequestAtATime, Waiting, StartJob
  <2> QED
    BY <2>1 DEF Waiting
<1>7. \A i, k \in 1..Len(rwNonLogRegs') : rwNonLogRegs'[i] = rwNonLogRegs'[k] => i = k
  <2> SUFFICES ASSUME NEW i \in 1..Len(rwNonLogRegs'), NEW k \in 1..Len(rwNonLogRegs'),
                      rwNonLogRegs'[i] = rwNonLogRegs'[k]
               PROVE  i = k
    OBVIOUS
  <2>1. i + 1 = k + 1
    BY <1>2, <1>3 DEF Inv, OpenOnce
  <2> QED
    BY <2>1
<1>8. \A i \in 1..Len(rwNonLogRegs') :
        promise'[rwNonLogRegs'[i]] = "open" /\ rwNonLogRegs'[i] # j
  BY <1>2, <1>3 DEF Inv, OpenOnce
<1>9. promise'[j] = "open"
  BY <1>2 DEF Inv, OpenOnce
<1>10. OpenOnce'
  BY <1>4, <1>5, <1>6, <1>7, <1>8, <1>9 DEF OpenOnce
<1>11. AnswerSeen'
  BY <1>4, <1>5, <1>6 DEF AnswerSeen, Answered
<1> QED
  BY <1>10, <1>11

LEMMA LogSetReadKeepsOpen ==
  ASSUME Inv, NEW p \in Polls, LogSetRead(p)
  PROVE  OpenOnce' /\ AnswerSeen'
<1>1. ~Waiting(p, "idle") /\ UNCHANGED << promise, seen >>
  BY DEF LogSetRead, Waiting, callers
<1>2. CASE poll' = [poll EXCEPT ![p] = AskLogSet(poll[p].chunk + 1)] /\ UNCHANGED rwNonLogRegs
  <2>1. AskLogSet(poll[p].chunk + 1).pc # "job"
    BY DEF AskLogSet, Ask
  <2> QED
    BY <1>1, <1>2, <2>1, PollKeepsOpen
<1>3. CASE WriteSetPoint(p)
  <2>1. Ask("setpoint", 0, None, {DegreeMinutes}, setPoint).pc # "job"
    BY DEF Ask
  <2> QED
    BY <1>1, <1>3, <2>1, PollKeepsOpen DEF WriteSetPoint
<1>4. CASE StartJob(p)
  BY <1>1, <1>4, StartJobKeepsOpen
<1>5. CASE PeriodicRead(p)
  <2>1. Ask("periodic", 0, None, {NonLogSet[nonLogRegsIndex + 1]}, None).pc # "job"
    BY DEF Ask
  <2> QED
    BY <1>1, <1>5, <2>1, PollKeepsOpen DEF PeriodicRead, AskPeriodic
<1> QED
  BY <1>2, <1>3, <1>4, <1>5 DEF LogSetRead, NextOfLogSet, SecondPart

\* The job that is settled waits nowhere else.
LEMMA SettleKeepsOpen ==
  ASSUME Inv, NEW p \in Polls, Waiting(p, "job"), NEW outcome, Settle(p, outcome)
  PROVE  OpenOnce' /\ AnswerSeen'
<1> DEFINE j == poll[p].job
<1>1. /\ rwNonLogRegs \in Seq(Jobs) /\ promise \in [Jobs -> {"unsent", "open", "resolved", "rejected"}]
      /\ UNCHANGED rwNonLogRegs
  BY DEF Inv, TypeInv, TypeOK, Settle, Finally
<1>2. \A q \in Polls : ~Waiting(q, "job")'
  <2>1. Finally(p) /\ ~Waiting(p, "idle")
    BY DEF Settle, Waiting
  <2>2. poll'[p].pc = "idle" /\ \A q \in Polls : q # p => poll'[q] = poll[q] /\ poll[q].pc = "idle"
    BY <2>1, IdleType DEF Inv, TypeInv, TypeOK, OneRequestAtATime, Waiting, Finally
  <2> QED
    BY <2>2 DEF Waiting
<1>3. \A i \in 1..Len(rwNonLogRegs) :
        rwNonLogRegs[i] \in Jobs /\ rwNonLogRegs[i] # j /\ promise[rwNonLogRegs[i]] = "open"
  BY <1>1 DEF Inv, OpenOnce
<1>4. \A k \in Jobs : k # j => promise'[k] = promise[k]
  BY <1>1 DEF Settle
<1>5. OpenOnce'
  BY <1>1, <1>2, <1>3, <1>4 DEF Inv, OpenOnce
<1> QED
  BY <1>2, <1>5 DEF AnswerSeen

LEMMA InitOpen == Init => OpenOnce /\ AnswerSeen
<1>1. Init => rwNonLogRegs = << >> /\ \A p \in Polls : ~Waiting(p, "job")
  BY DEF Init, Idle, Ask, Waiting
<1> QED
  BY <1>1 DEF OpenOnce, AnswerSeen

LEMMA NextKeepsOpen == Inv /\ [Next]_vars => Inv'
<1> SUFFICES ASSUME Inv, [Next]_vars PROVE OpenOnce' /\ AnswerSeen'
  BY NextKeepsType DEF Inv
<1>1. ASSUME NEW p \in Polls, Tick(p) PROVE OpenOnce' /\ AnswerSeen'
  <2>1. AskLogSet(1).pc # "job"
    BY DEF AskLogSet, Ask
  <2> QED
    BY <1>1, <2>1, PollKeepsOpen DEF Tick, callers
<1>2. ASSUME NEW p \in Polls, SetPointWritten(p) \/ PeriodicReadDone(p) PROVE OpenOnce' /\ AnswerSeen'
  <2>1. Idle.pc # "job"
    BY DEF Idle, Ask
  <2> QED
    BY <1>2, <2>1, PollKeepsOpen DEF SetPointWritten, PeriodicReadDone, Finally, callers
<1>3. ASSUME NEW p \in Polls, JobResolves(p) \/ JobRejects(p) PROVE OpenOnce' /\ AnswerSeen'
  BY <1>3, SettleKeepsOpen DEF JobResolves, JobRejects
<1>4. ASSUME NEW r \in Volatile, NEW v \in Values, DeviceChanges(r, v) PROVE OpenOnce' /\ AnswerSeen'
  <2>1. \A j \in Jobs : seen[j] \subseteq seen'[j]
    BY <1>4 DEF DeviceChanges
  <2> QED
    BY <1>4, <2>1, OutsideKeepsOpen DEF DeviceChanges, control, callers
<1>5. ASSUME NEW v \in SetPoints \cup {None}, SetSetPoint(v) PROVE OpenOnce' /\ AnswerSeen'
  BY <1>5, OutsideKeepsOpen DEF SetSetPoint, control, callers
<1>6. UNCHANGED vars => OpenOnce' /\ AnswerSeen'
  BY OutsideKeepsOpen DEF vars, callers
<1> QED
  BY <1>1, <1>2, <1>3, <1>4, <1>5, <1>6, CallKeepsOpen, ServeKeepsOpen, LogSetReadKeepsOpen
  DEF Next, Resume

\* In every step but one the results stay; the one gives an answer of the open job.
LEMMA ResultIsSeen ==
  Inv /\ [Next]_vars => [\A j \in Jobs : result'[j] # result[j] => result'[j] \in seen[j]]_vars
<1> SUFFICES ASSUME Inv, [Next]_vars, NEW j \in Jobs, result'[j] # result[j]
             PROVE  result'[j] \in seen[j]
  OBVIOUS
<1>1. PICK p \in Polls : JobResolves(p)
  <2>1. \A p \in Polls : Tick(p) \/ Serve(p) => UNCHANGED result
    BY DEF Tick, Serve, callers
  <2>2. \A p \in Polls : LogSetRead(p) \/ SetPointWritten(p) \/ PeriodicReadDone(p) => UNCHANGED result
    BY DEF LogSetRead, SetPointWritten, PeriodicReadDone, callers
  <2>3. \A p \in Polls : JobRejects(p) => UNCHANGED result
    BY DEF JobRejects
  <2>4. \A k \in Jobs : Call(k) => UNCHANGED result
    BY DEF Call
  <2>5. \A v : SetSetPoint(v) => UNCHANGED result
    BY DEF SetSetPoint, callers
  <2>6. \A r, v : DeviceChanges(r, v) => UNCHANGED result
    BY DEF DeviceChanges, callers
  <2>7. UNCHANGED vars => UNCHANGED result
    BY DEF vars, callers
  <2> QED
    BY <2>1, <2>2, <2>3, <2>4, <2>5, <2>6, <2>7 DEF Next, Resume
<1>2. poll[p].job \notin Writes
  BY <1>1 DEF JobResolves
<1>3. /\ poll[p].reply[JobRegister[poll[p].job]] \in Values
      /\ result' = [result EXCEPT ![poll[p].job] = poll[p].reply[JobRegister[poll[p].job]]]
  BY <1>1, <1>2, GivenIsAnswered DEF Inv
<1>4. result \in [Jobs -> Values \cup {None}]
  BY DEF Inv, TypeInv, TypeOK
<1>5. j = poll[p].job /\ result'[j] = poll[p].reply[JobRegister[j]]
  BY <1>3, <1>4
<1>6. Waiting(p, "job") /\ Answered(p)
  BY <1>1 DEF JobResolves
<1> QED
  BY <1>2, <1>5, <1>6 DEF Inv, AnswerSeen

\* However polls, answers and errors interleave, a caller that reads is given a value
\* its register has held since the call (readRegister(), handlePolling()).
THEOREM ResultIsFresh == Spec => NotOlderThanTheCall
<1>1. Init => Inv
  BY InitType, InitOpen DEF Inv
<1> QED
  BY <1>1, NextKeepsOpen, ResultIsSeen, PTL DEF Spec, Safety, NotOlderThanTheCall

-----------------------------------------------------------------------------
(* What listeners are told *)

\* A caller does not read a register of LOG.SET, and no register is there twice:
\* else its stored value could be set twice before handleEventEmitter() runs.
Apart ==
  /\ \A j \in Jobs : JobRegister[j] \notin LogSetRegisters
  /\ \A i, k \in 1..Len(LogSet) : i # k => LogSet[i] \cap LogSet[k] = {}

Told(r) == heard[r] = store[r].value

\* An answer is about the registers asked for, and only a request for LOG.SET
\* asks for the registers in it.
WellAsked(x) ==
  /\ DOMAIN x.reply \subseteq x.regs
  /\ x.pc = "log" => x.regs = LogSet[x.chunk]
  /\ x.pc \in {"job", "periodic"} => x.regs \cap LogSetRegisters = {}

\* The registers of LOG.SET are told until they are read, and all are told when
\* the second part of handlePolling() starts its request.
TellInv ==
  /\ \A p \in Polls : WellAsked(poll[p])
  /\ NoChangeLost
  /\ \A i \in 1..Len(LogSet) :
       (\A p \in Polls : Waiting(p, "log") => poll[p].chunk <= i) =>
         \A r \in LogSet[i] : Told(r)
  /\ (\E p \in Polls : poll[p].pc \in {"setpoint", "job", "periodic"}) =>
       \A r \in IdMap : Told(r)

LEMMA LogSetFacts ==
  /\ \A i \in 1..Len(LogSet) : LogSet[i] \subseteq IdMap /\ LogSet[i] \subseteq LogSetRegisters
  /\ \A i \in 1..Len(NonLogSet) : NonLogSet[i] \notin LogSetRegisters
<1>1. LogSet \in Seq(SUBSET IdMap) /\ NonLogSet \in Seq(IdMap \ LogSetRegisters)
  BY RegistersAssumption
<1> QED
  BY <1>1 DEF LogSetRegisters

\* A value that is set once differs from the one told, or is seen to have changed.
LEMMA SetOnceIsSeen ==
  ASSUME NEW s \in Stored, NEW v \in Values, s.value # v
  PROVE  IsValueChanged(SetRawValue(s, v))
  BY RegisterFacts DEF Stored, SetRawValue, IsValueChanged

LEMMA ParseTells ==
  ASSUME TypeInv, NEW a \in Answers, NoChangeLost,
         \A r \in IdMap \cap DOMAIN a : Told(r)
  PROVE  LET s == ParseModbusResponse(a)
         IN /\ \A r \in IdMap : heard[r] # s[r].value => IsValueChanged(s[r])
            /\ \A r \in IdMap \ DOMAIN a : s[r] = store[r]
<1> DEFINE s == ParseModbusResponse(a)
<1>1. \A r \in IdMap \ DOMAIN a : s[r] = store[r]
  BY DEF ParseModbusResponse
<1>2. ASSUME NEW r \in IdMap, r \in DOMAIN a, heard[r] # s[r].value
      PROVE  IsValueChanged(s[r])
  <2>1. s[r] = SetRawValue(store[r], a[r])
    BY <1>2 DEF ParseModbusResponse
  <2>2. a[r] \in Values /\ store[r] \in Stored
    BY <1>2 DEF Answers, TypeInv, TypeOK, Stored
  <2>3. store[r].value # a[r]
    BY <1>2, <2>1 DEF Told, SetRawValue
  <2> QED
    BY <2>1, <2>2, <2>3, SetOnceIsSeen
<1> QED
  BY <1>1, <1>2 DEF NoChangeLost

LEMMA AnnounceTells ==
  ASSUME NEW s \in [IdMap -> Stored], Announce(s),
         \A r \in IdMap : heard[r] # s[r].value => IsValueChanged(s[r])
  PROVE  \A r \in IdMap : Told(r)'
<1> SUFFICES ASSUME NEW r \in IdMap PROVE Told(r)'
  OBVIOUS
<1>1. heard'[r] = IF IsValueChanged(s[r]) THEN s[r].value ELSE heard[r]
  BY DEF Announce
<1>2. store'[r] = IF IsValueChanged(s[r]) THEN ClearValueChanged(s[r]) ELSE s[r]
  BY DEF Announce
<1>3. s[r] \in Stored
  OBVIOUS
<1>4. ClearValueChanged(s[r]).value = s[r].value
  BY <1>3 DEF ClearValueChanged, Stored
<1> QED
  BY <1>1, <1>2, <1>4 DEF Told

LEMMA NextIsWellAsked ==
  ASSUME TypeInv, \A q \in Polls : WellAsked(poll[q]), NEW p \in Polls, NEW x, WellAsked(x),
         poll' = [poll EXCEPT ![p] = x]
  PROVE  \A q \in Polls : WellAsked(poll[q])'
<1>1. poll'[p] = x /\ \A q \in Polls : q # p => poll'[q] = poll[q]
  BY DEF TypeInv, TypeOK
<1> QED
  BY <1>1 DEF WellAsked

LEMMA AskIsWellAsked ==
  ASSUME NEW l, NEW i, NEW j, NEW s, NEW v,
         l = "log" => s = LogSet[i],
         l \in {"job", "periodic"} => s \cap LogSetRegisters = {}
  PROVE  WellAsked(Ask(l, i, j, s, v))
  BY DEF WellAsked, Ask, NoAnswer

LEMMA IdleIsWellAsked == WellAsked(Idle) /\ \A i : WellAsked(AskLogSet(i))
  BY AskIsWellAsked DEF Idle, AskLogSet

\* The request that follows LOG.SET.
LEMMA SecondPartIsWellAsked ==
  ASSUME Apart, TypeInv, NEW p \in Polls, SecondPart(p)
  PROVE  \E x : WellAsked(x) /\ x.pc \in {"setpoint", "job", "periodic"}
                /\ poll' = [poll EXCEPT ![p] = x]
<1>1. CASE WriteSetPoint(p)
  <2> DEFINE x == Ask("setpoint", 0, None, {DegreeMinutes}, setPoint)
  <2>1. WellAsked(x)
    BY AskIsWellAsked
  <2>2. x.pc = "setpoint"
    BY DEF Ask
  <2> QED
    BY <1>1, <2>1, <2>2 DEF WriteSetPoint
<1>2. CASE StartJob(p)
  <2> DEFINE j == Head(rwNonLogRegs)
             v == IF j \in Writes THEN JobValue[j] ELSE None
             x == Ask("job", 0, j, {JobRegister[j]}, v)
  <2>1. j \in Jobs
    BY <1>2 DEF StartJob, TypeInv, TypeOK
  <2>2. {JobRegister[j]} \cap LogSetRegisters = {}
    BY <2>1 DEF Apart
  <2>3. WellAsked(x)
    BY <2>2, AskIsWellAsked
  <2>4. x.pc = "job"
    BY DEF Ask
  <2> QED
    BY <1>2, <2>3, <2>4 DEF StartJob
<1>3. CASE PeriodicRead(p)
  <2> DEFINE x == Ask("periodic", 0, None, {NonLogSet[nonLogRegsIndex + 1]}, None)
  <2>1. nonLogRegsIndex + 1 \in 1..Len(NonLogSet)
    BY SequenceFacts DEF TypeInv, TypeOK
  <2>2. {NonLogSet[nonLogRegsIndex + 1]} \cap LogSetRegisters = {}
    BY <2>1, LogSetFacts
  <2>3. WellAsked(x)
    BY <2>2, AskIsWellAsked
  <2>4. x.pc = "periodic"
    BY DEF Ask
  <2> QED
    BY <1>3, <2>3, <2>4 DEF PeriodicRead, AskPeriodic
<1> QED
  BY <1>1, <1>2, <1>3 DEF SecondPart

LEMMA ServeTells ==
  ASSUME TypeInv, TellInv, NEW p \in Polls, Serve(p)
  PROVE  TellInv'
<1> DEFINE a == IF poll[p].data = None THEN [r \in poll[p].regs |-> device[r]] ELSE NoAnswer
           x == [poll[p] EXCEPT !.done = TRUE, !.reply = a]
<1>1. poll[p] \in Requests /\ UNCHANGED <<store, heard>>
  BY DEF TypeInv, TypeOK, Serve
<1>2. /\ x.pc = poll[p].pc /\ x.chunk = poll[p].chunk /\ x.regs = poll[p].regs
      /\ x.reply = a
  BY <1>1 DEF Requests
<1>3. poll' = [poll EXCEPT ![p] = x]
  BY <1>1 DEF Serve, Requests, TypeInv, TypeOK
<1>4. DOMAIN a \subseteq poll[p].regs
  BY DEF NoAnswer
<1>5. WellAsked(x)
  BY <1>2, <1>4 DEF TellInv, WellAsked
<1>6. \A q \in Polls : WellAsked(poll[q])'
  BY <1>3, <1>5, NextIsWellAsked DEF TellInv
<1>7. \A q \in Polls : poll'[q].pc = poll[q].pc /\ poll'[q].chunk = poll[q].chunk
  BY <1>2, <1>3 DEF TypeInv, TypeOK
<1> QED
  BY <1>1, <1>6, <1>7 DEF TellInv, NoChangeLost, Told, Waiting

LEMMA TickTells ==
  ASSUME TypeInv, TellInv, NEW p \in Polls, Tick(p)
  PROVE  TellInv'
<1>1. poll' = [poll EXCEPT ![p] = AskLogSet(1)] /\ UNCHANGED <<store, heard>>
  BY DEF Tick
<1>2. \A q \in Polls : WellAsked(poll[q])'
  BY <1>1, NextIsWellAsked, IdleIsWellAsked DEF TellInv
<1>3. \A q \in Polls : poll[q].pc = "idle"
  BY DEF TypeInv, OneRequestAtATime, Waiting, Tick
<1>4. \A i \in 1..Len(LogSet) : \A r \in LogSet[i] : Told(r)
  BY <1>3 DEF TellInv, Waiting
<1>5. \A q \in Polls : poll'[q].pc \in {"idle", "log"}
  <2>1. AskLogSet(1).pc = "log"
    BY DEF AskLogSet, Ask
  <2> QED
    BY <1>1, <1>3, <2>1 DEF TypeInv, TypeOK
<1> QED
  BY <1>1, <1>2, <1>4, <1>5 DEF TellInv, NoChangeLost, Told, Waiting

LEMMA LogSetReadTells ==
  ASSUME Apart, TypeInv, TellInv, NEW p \in Polls, LogSetRead(p)
  PROVE  TellInv'
<1> DEFINE c == poll[p].chunk
<1>1. /\ poll \in [Polls -> Requests] /\ store \in [IdMap -> Stored]
      /\ poll[p].reply \in Answers /\ poll[p].pc = "log" /\ c \in 1..Len(LogSet)
      /\ ~Waiting(p, "idle")
  BY DEF TypeInv, TypeOK, Requests, LogSetRead, Waiting, InLogSet, Stored
<1>2. \A q \in Polls : q # p => poll[q].pc = "idle"
  BY <1>1 DEF TypeInv, OneRequestAtATime, Waiting
<1>3. \A i \in 1..Len(LogSet) : c <= i => \A r \in LogSet[i] : Told(r)
  BY <1>1, <1>2 DEF TellInv, Waiting
<1>4. DOMAIN poll[p].reply \subseteq LogSet[c]
  BY <1>1 DEF TellInv, WellAsked
<1>5. PICK s \in [IdMap -> Stored] :
        /\ NextOfLogSet(p, s)
        /\ \A r \in IdMap : heard[r] # s[r].value => IsValueChanged(s[r])
        /\ \A r \in IdMap \ LogSet[c] : s[r] = store[r]
  <2>1. CASE NextOfLogSet(p, store)
    BY <1>1, <2>1 DEF TellInv, NoChangeLost
  <2>2. CASE NextOfLogSet(p, ParseModbusResponse(poll[p].reply))
    <3>1. \A r \in IdMap \cap DOMAIN poll[p].reply : Told(r)
      BY <1>1, <1>3, <1>4
    <3>2. ParseModbusResponse(poll[p].reply) \in [IdMap -> Stored]
      BY <1>1, ParseType
    <3> QED
      BY <1>1, <1>4, <2>2, <3>1, <3>2, ParseTells DEF TellInv
  <2> QED
    BY <2>1, <2>2 DEF LogSetRead
<1>6. CASE c < Len(LogSet)
  <2>1. /\ poll' = [poll EXCEPT ![p] = AskLogSet(c + 1)]
        /\ store' = s /\ UNCHANGED heard
    BY <1>5, <1>6 DEF NextOfLogSet
  <2>2. \A q \in Polls : WellAsked(poll[q])'
    BY <2>1, NextIsWellAsked, IdleIsWellAsked DEF TellInv
  <2>3. NoChangeLost'
    BY <1>5, <2>1 DEF NoChangeLost, IsValueChanged
  <2>4. /\ poll'[p].pc = "log" /\ poll'[p].chunk = c + 1
        /\ \A q \in Polls : q # p => poll'[q].pc = "idle"
    BY <1>1, <1>2, <2>1 DEF AskLogSet, Ask
  <2>5. ASSUME NEW i \in 1..Len(LogSet), c + 1 <= i, NEW r \in LogSet[i]
        PROVE  Told(r)'
    <3>1. c <= i /\ c # i
      BY <1>1, <2>5, SequenceFacts
    <3>2. r \in IdMap \ LogSet[c]
      BY <1>1, <3>1, LogSetFacts DEF Apart
    <3> QED
      BY <1>3, <1>5, <2>1, <3>1, <3>2 DEF Told
  <2> QED
    BY <2>2, <2>3, <2>4, <2>5 DEF TellInv, Waiting
<1>7. CASE ~(c < Len(LogSet))
  <2>1. Announce(s) /\ SecondPart(p)
    BY <1>5, <1>7 DEF NextOfLogSet
  <2>2. \A r \in IdMap : Told(r)'
    BY <1>5, <2>1, AnnounceTells
  <2>3. \A q \in Polls : WellAsked(poll[q])'
    BY <2>1, SecondPartIsWellAsked, NextIsWellAsked DEF TellInv
  <2>4. NoChangeLost'
    BY <2>2 DEF NoChangeLost, Told
  <2>5. \A i \in 1..Len(LogSet) : \A r \in LogSet[i] : Told(r)'
    BY <2>2, LogSetFacts
  <2> QED
    BY <2>2, <2>3, <2>4, <2>5 DEF TellInv
<1> QED
  BY <1>6, <1>7

\* The end of a poll: what its last request has stored is not of LOG.SET.
LEMMA EndTells ==
  ASSUME TypeInv, TellInv, NEW p \in Polls, Finally(p),
         poll[p].pc \in {"setpoint", "job", "periodic"},
         \/ UNCHANGED store
         \/ /\ poll[p].pc \in {"job", "periodic"}
            /\ store' = ParseModbusResponse(poll[p].reply)
  PROVE  TellInv'
<1>1. poll' = [poll EXCEPT ![p] = Idle] /\ UNCHANGED heard /\ poll[p].reply \in Answers
  BY DEF Finally, TypeInv, TypeOK, Requests
<1>2. \A r \in IdMap : Told(r)
  BY DEF TellInv
<1>3. \A q \in Polls : WellAsked(poll[q])'
  BY <1>1, NextIsWellAsked, IdleIsWellAsked DEF TellInv
<1>4. /\ \A r \in IdMap : heard[r] # store'[r].value => IsValueChanged(store'[r])
      /\ \A r \in IdMap \cap LogSetRegisters : store'[r] = store[r]
  <2>1. CASE UNCHANGED store
    BY <2>1 DEF TellInv, NoChangeLost
  <2>2. CASE /\ poll[p].pc \in {"job", "periodic"}
             /\ store' = ParseModbusResponse(poll[p].reply)
    <3>1. DOMAIN poll[p].reply \cap LogSetRegisters = {}
      BY <2>2 DEF TellInv, WellAsked
    <3> QED
      BY <1>1, <1>2, <2>2, <3>1, ParseTells DEF TellInv
  <2> QED
    BY <2>1, <2>2
<1>5. NoChangeLost'
  BY <1>1, <1>4 DEF NoChangeLost, IsValueChanged
<1>6. \A i \in 1..Len(LogSet) : \A r \in LogSet[i] : Told(r)'
  BY <1>1, <1>2, <1>4, LogSetFacts DEF Told
<1>7. \A q \in Polls : poll'[q].pc = "idle"
  <2>1. ~Waiting(p, "idle")
    BY DEF Waiting
  <2>2. \A q \in Polls : q # p => poll[q].pc = "idle"
    BY <2>1 DEF TypeInv, OneRequestAtATime, Waiting
  <2> QED
    BY <1>1, <2>2, IdleType DEF TypeInv, TypeOK
<1> QED
  BY <1>3, <1>5, <1>6, <1>7 DEF TellInv

LEMMA InitTells == Init => TellInv
<1> SUFFICES ASSUME Init PROVE TellInv
  OBVIOUS
<1>1. \A r \in IdMap : Told(r) /\ heard[r] = store[r].value
  BY DEF Init, Fresh, Told
<1>2. \A p \in Polls : poll[p] = Idle
  BY DEF Init
<1> QED
  BY <1>1, <1>2, IdleType, IdleIsWellAsked, LogSetFacts DEF TellInv, NoChangeLost

LEMMA NextTells ==
  ASSUME Apart
  PROVE  TypeInv /\ TellInv /\ [Next]_vars => TellInv'
<1> SUFFICES ASSUME TypeInv, TellInv, [Next]_vars PROVE TellInv'
  OBVIOUS
<1>1. UNCHANGED <<poll, store, heard>> => TellInv'
  BY DEF TellInv, WellAsked, NoChangeLost, Told, Waiting
<1>2. \A j \in Jobs : Call(j) => TellInv'
  BY <1>1 DEF Call
<1>3. \A v : SetSetPoint(v) => TellInv'
  BY <1>1 DEF SetSetPoint, control
<1>4. \A r, v : DeviceChanges(r, v) => TellInv'
  BY <1>1 DEF DeviceChanges, control
<1>5. UNCHANGED vars => TellInv'
  BY <1>1 DEF vars
<1>6. \A p \in Polls : SetPointWritten(p) => TellInv'
  BY EndTells DEF SetPointWritten, Waiting
<1>7. \A p \in Polls : PeriodicReadDone(p) => TellInv'
  BY EndTells DEF PeriodicReadDone, Waiting
<1>8. \A p \in Polls : JobResolves(p) \/ JobRejects(p) => TellInv'
  BY EndTells DEF JobResolves, JobRejects, Settle, Waiting
<1> QED
  BY <1>2, <1>3, <1>4, <1>5, <1>6, <1>7, <1>8, ServeTells, TickTells, LogSetReadTells
  DEF Next, Resume

\* No change of a register gets lost: it has been told, or the next
\* handleEventEmitter() finds it, if no register is set twice between two of them.
THEOREM ChangesAreTold ==
  ASSUME Apart
  PROVE  Spec => []NoChangeLost
<1>1. TypeInv /\ TellInv /\ [Next]_vars => TellInv'
  BY NextTells
<1>2. TellInv => NoChangeLost
  BY DEF TellInv
<1> QED
  BY <1>1, <1>2, InitTells, TypeInvariance, PTL DEF Spec, Safety

-----------------------------------------------------------------------------
(* The order of the callers *)

InJob(p, j) == Waiting(p, "job") /\ poll[p].job = j

\* Who is open waits in _rwNonLogRegs, in the order of the calls, or is being
\* served, before all of those.
OrderInv ==
  /\ \A j \in Jobs : ticket[j] <= tickets
  /\ \A i, k \in 1..Len(rwNonLogRegs) :
       i < k => ticket[rwNonLogRegs[i]] < ticket[rwNonLogRegs[k]]
  /\ \A p \in Polls : Waiting(p, "job") =>
       \A i \in 1..Len(rwNonLogRegs) : ticket[poll[p].job] < ticket[rwNonLogRegs[i]]
  /\ \A j \in Jobs : promise[j] = "open" =>
       \/ \E i \in 1..Len(rwNonLogRegs) : rwNonLogRegs[i] = j
       \/ \E p \in Polls : InJob(p, j)

\* What a step of NibePolling is for RequestQueue.
Mapped == [Queue!Next]_(Queue!vars)

LEMMA CallKeepsOrder ==
  ASSUME Inv, OrderInv, NEW j \in Jobs, Call(j)
  PROVE  OrderInv' /\ Mapped
<1> DEFINE n == Len(rwNonLogRegs)
<1>1. /\ rwNonLogRegs \in Seq(Jobs) /\ ticket \in [Jobs -> Nat] /\ tickets \in Nat
      /\ promise \in [Jobs -> {"unsent", "open", "resolved", "rejected"}]
  BY DEF Inv, TypeInv, TypeOK
<1>2. /\ n \in Nat /\ Len(rwNonLogRegs') = n + 1 /\ rwNonLogRegs'[n + 1] = j
      /\ \A i \in 1..n : rwNonLogRegs'[i] = rwNonLogRegs[i] /\ rwNonLogRegs[i] \in Jobs
  BY <1>1 DEF Call
<1>3. /\ \A i \in 1..n : rwNonLogRegs[i] # j
      /\ \A p \in Polls : Waiting(p, "job") => poll[p].job # j /\ poll[p].job \in Jobs
  BY DEF Inv, OpenOnce, Call, InService, ServesJob
<1>4. /\ UNCHANGED poll /\ tickets' = tickets + 1 /\ ticket'[j] = tickets + 1
      /\ \A k \in Jobs \ {j} : ticket'[k] = ticket[k] /\ promise'[k] = promise[k]
  BY <1>1 DEF Call
<1>5. \A i \in 1..(n + 1) : i \in 1..n \/ i = n + 1
  BY <1>2
<1>6. \A k \in Jobs : ticket'[k] <= tickets'
  BY <1>1, <1>4 DEF OrderInv
<1>7. \A i, k \in 1..Len(rwNonLogRegs') :
        i < k => ticket'[rwNonLogRegs'[i]] < ticket'[rwNonLogRegs'[k]]
  <2> SUFFICES ASSUME NEW i \in 1..(n + 1), NEW k \in 1..(n + 1), i < k
               PROVE  ticket'[rwNonLogRegs'[i]] < ticket'[rwNonLogRegs'[k]]
    BY <1>2
  <2>1. i \in 1..n
    BY <1>2
  <2>2. ticket'[rwNonLogRegs'[i]] = ticket[rwNonLogRegs[i]]
        /\ ticket[rwNonLogRegs[i]] <= tickets /\ ticket[rwNonLogRegs[i]] \in Nat
    BY <1>1, <1>2, <1>3, <1>4, <2>1 DEF OrderInv
  <2>3. CASE k = n + 1
    BY <1>1, <1>2, <1>4, <2>2, <2>3
  <2>4. CASE k \in 1..n
    BY <1>2, <1>3, <1>4, <2>1, <2>2, <2>4 DEF OrderInv
  <2> QED
    BY <1>5, <2>3, <2>4
<1>8. ASSUME NEW p \in Polls, Waiting(p, "job")', NEW i \in 1..Len(rwNonLogRegs')
      PROVE  ticket'[poll'[p].job] < ticket'[rwNonLogRegs'[i]]
  <2>1. Waiting(p, "job") /\ poll'[p].job = poll[p].job
    BY <1>4, <1>8 DEF Waiting
  <2>2. ticket'[poll'[p].job] = ticket[poll[p].job] /\ ticket[poll[p].job] <= tickets
        /\ ticket[poll[p].job] \in Nat
    BY <1>1, <1>3, <1>4, <2>1 DEF OrderInv
  <2>3. CASE i = n + 1
    BY <1>1, <1>2, <1>4, <2>2, <2>3
  <2>4. CASE i \in 1..n
    BY <1>2, <1>3, <1>4, <2>1, <2>2, <2>4 DEF OrderInv
  <2> QED
    BY <1>2, <1>5, <2>3, <2>4
<1>9. ASSUME NEW k \in Jobs, promise'[k] = "open"
      PROVE  \/ \E i \in 1..Len(rwNonLogRegs') : rwNonLogRegs'[i] = k
             \/ \E p \in Polls : InJob(p, k)'
  <2>1. CASE k = j
    BY <1>2, <2>1
  <2>2. CASE k # j
    <3>1. n + 1 \in 1..(n + 1) /\ \A i \in 1..n : i \in 1..(n + 1)
      BY <1>2
    <3> QED
      BY <1>2, <1>4, <1>9, <2>2, <3>1 DEF OrderInv, InJob, Waiting
  <2> QED
    BY <2>1, <2>2
<1>10. Queue!Submit(j)
  BY DEF Call, Queue!Submit
<1> QED
  BY <1>6, <1>7, <1>8, <1>9, <1>10 DEF OrderInv, Mapped, Queue!Next

\* A poll goes on, or ends, without the request of a job.
LEMMA PollKeepsOrder ==
  ASSUME Inv, OrderInv, NEW p \in Polls, ~Waiting(p, "job"), NEW x, x.pc # "job",
         poll' = [poll EXCEPT ![p] = x], UNCHANGED << rwNonLogRegs, promise, ticket, tickets >>
  PROVE  OrderInv' /\ Mapped
<1>1. poll'[p] = x /\ \A q \in Polls : q # p => poll'[q] = poll[q]
  BY DEF Inv, TypeInv, TypeOK
<1>2. \A q \in Polls : Waiting(q, "job")' <=> Waiting(q, "job")
  BY <1>1 DEF Waiting
<1>3. \A q \in Polls : Waiting(q, "job") => poll'[q] = poll[q]
  BY <1>1
<1> QED
  BY <1>2, <1>3 DEF OrderInv, InJob, Mapped, Queue!vars

LEMMA ServeKeepsOrder ==
  ASSUME Inv, OrderInv,
         \/ \E p \in Polls : Serve(p)
         \/ UNCHANGED poll /\ UNCHANGED << rwNonLogRegs, callers >>
  PROVE  OrderInv' /\ Mapped
<1>1. UNCHANGED << rwNonLogRegs, promise, ticket, tickets >>
  BY DEF Serve, callers
<1>2. \A q \in Polls : poll'[q].pc = poll[q].pc /\ poll'[q].job = poll[q].job
  <2>1. ASSUME NEW p \in Polls, Serve(p), NEW q \in Polls
        PROVE  poll'[q].pc = poll[q].pc /\ poll'[q].job = poll[q].job
    <3>1. poll \in [Polls -> Requests] /\ poll[q] \in Requests
      BY DEF Inv, TypeInv, TypeOK
    <3> QED
      BY <2>1, <3>1 DEF Serve, Requests
  <2> QED
    BY <2>1
<1> QED
  BY <1>1, <1>2 DEF OrderInv, InJob, Waiting, Mapped, Queue!vars

LEMMA StartJobKeepsOrder ==
  ASSUME Inv, OrderInv, NEW p \in Polls, Waiting(p, "log"), StartJob(p),
         UNCHANGED << promise, ticket, tickets >>
  PROVE  OrderInv' /\ Mapped
<1> DEFINE n == Len(rwNonLogRegs)
           j == Head(rwNonLogRegs)
<1>1. rwNonLogRegs \in Seq(Jobs) /\ rwNonLogRegs # << >> /\ rwNonLogRegs' = Tail(rwNonLogRegs)
  BY DEF Inv, TypeInv, TypeOK, StartJob
<1>2. /\ n \in Nat \ {0} /\ j = rwNonLogRegs[1] /\ Len(rwNonLogRegs') = n - 1
      /\ \A i \in 1..(n - 1) : rwNonLogRegs'[i] = rwNonLogRegs[i + 1]
  BY <1>1
<1>3. \A i \in 1..(n - 1) : i + 1 \in 1..n /\ 1 < i + 1
  BY <1>2
<1>4. poll'[p].pc = "job" /\ poll'[p].job = j
  BY DEF Inv, TypeInv, TypeOK, StartJob, Ask
<1>5. \A q \in Polls : q # p => poll'[q] = poll[q] /\ poll[q].pc = "idle"
  BY DEF Inv, TypeInv, TypeOK, OneRequestAtATime, Waiting, StartJob
<1>6. \A i, k \in 1..(n - 1) :
        i < k => ticket[rwNonLogRegs'[i]] < ticket[rwNonLogRegs'[k]]
  <2> SUFFICES ASSUME NEW i \in 1..(n - 1), NEW k \in 1..(n - 1), i < k
               PROVE  ticket[rwNonLogRegs'[i]] < ticket[rwNonLogRegs'[k]]
    OBVIOUS
  <2>1. i + 1 \in 1..n /\ k + 1 \in 1..n /\ i + 1 < k + 1
    BY <1>2
  <2> QED
    BY <1>2, <2>1 DEF OrderInv
<1>7. \A i \in 1..(n - 1) : ticket[j] < ticket[rwNonLogRegs'[i]]
  BY <1>2, <1>3 DEF OrderInv
<1>8. ASSUME NEW k \in Jobs, promise[k] = "open"
      PROVE  k = j \/ \E i \in 1..(n - 1) : rwNonLogRegs'[i] = k
  <2>1. PICK i \in 1..n : rwNonLogRegs[i] = k
    BY <1>5, <1>8 DEF OrderInv, InJob, Waiting
  <2>2. i = 1 \/ (i - 1 \in 1..(n - 1) /\ rwNonLogRegs'[i - 1] = k)
    BY <1>2, <2>1
  <2> QED
    BY <1>2, <2>1, <2>2
<1>9. \A q \in Polls : Waiting(q, "job")' => q = p
  BY <1>5 DEF Waiting
<1>10. \A k \in Jobs : ticket[k] <= tickets
  BY DEF OrderInv
<1>11. OrderInv'
  BY <1>2, <1>4, <1>6, <1>7, <1>8, <1>9, <1>10 DEF OrderInv, InJob, Waiting
<1> QED
  BY <1>11 DEF Mapped, Queue!vars

LEMMA LogSetReadKeepsOrder ==
  ASSUME Inv, OrderInv, NEW p \in Polls, LogSetRead(p)
  PROVE  OrderInv' /\ Mapped
<1>1. Waiting(p, "log") /\ ~Waiting(p, "job") /\ UNCHANGED << promise, ticket, tickets >>
  BY DEF LogSetRead, Waiting, callers
<1>2. CASE poll' = [poll EXCEPT ![p] = AskLogSet(poll[p].chunk + 1)] /\ UNCHANGED rwNonLogRegs
  <2>1. AskLogSet(poll[p].chunk + 1).pc # "job"
    BY DEF AskLogSet, Ask
  <2> QED
    BY <1>1, <1>2, <2>1, PollKeepsOrder
<1>3. CASE WriteSetPoint(p)
  <2>1. Ask("setpoint", 0, None, {DegreeMinutes}, setPoint).pc # "job"
    BY DEF Ask
  <2> QED
    BY <1>1, <1>3, <2>1, PollKeepsOrder DEF WriteSetPoint
<1>4. CASE StartJob(p)
  BY <1>1, <1>4, StartJobKeepsOrder
<1>5. CASE PeriodicRead(p)
  <2>1. Ask("periodic", 0, None, {NonLogSet[nonLogRegsIndex + 1]}, None).pc # "job"
    BY DEF Ask
  <2> QED
    BY <1>1, <1>5, <2>1, PollKeepsOrder DEF PeriodicRead, AskPeriodic
<1> QED
  BY <1>2, <1>3, <1>4, <1>5 DEF LogSetRead, NextOfLogSet, SecondPart

\* The job that is settled is the oldest.
LEMMA SettleKeepsOrder ==
  ASSUME Inv, OrderInv, NEW p \in Polls, Waiting(p, "job"),
         NEW outcome \in {"resolved", "rejected"}, Settle(p, outcome)
  PROVE  OrderInv' /\ Mapped
<1> DEFINE j == poll[p].job
<1>1. /\ promise \in [Jobs -> {"unsent", "open", "resolved", "rejected"}]
      /\ ticket \in [Jobs -> Nat] /\ j \in Jobs /\ promise[j] = "open"
      /\ UNCHANGED << rwNonLogRegs, ticket, tickets >>
  BY DEF Inv, TypeInv, TypeOK, OpenOnce, InService, ServesJob, Settle, Finally
<1>2. \A q \in Polls : q # p => poll[q].pc = "idle"
  BY DEF Inv, TypeInv, OneRequestAtATime, Waiting
<1>3. \A q \in Polls : ~Waiting(q, "job")'
  BY <1>2, IdleType DEF Inv, TypeInv, TypeOK, Waiting, Settle, Finally
<1>4. \A k \in Jobs : promise[k] = "open" =>
        k = j \/ \E i \in 1..Len(rwNonLogRegs) : rwNonLogRegs[i] = k
  BY <1>2 DEF OrderInv, InJob, Waiting
<1>5. promise' = [promise EXCEPT ![j] = outcome]
  BY DEF Settle
<1>6. OrderInv'
  BY <1>1, <1>3, <1>4, <1>5 DEF OrderInv
<1>7. \A k \in Jobs : promise[k] = "open" => ticket[j] <= ticket[k]
  BY <1>1, <1>4 DEF OrderInv
<1>8. Queue!Settle(j)
  BY <1>1, <1>5, <1>7 DEF Queue!Settle, Queue!Open, Queue!Oldest
<1> QED
  BY <1>1, <1>6, <1>8 DEF Mapped, Queue!Next

LEMMA NextKeepsOrder == Inv /\ OrderInv /\ [Next]_vars => OrderInv' /\ Mapped
<1> SUFFICES ASSUME Inv, OrderInv, [Next]_vars PROVE OrderInv' /\ Mapped
  OBVIOUS
<1>1. ASSUME NEW p \in Polls, Tick(p) PROVE OrderInv' /\ Mapped
  <2>1. AskLogSet(1).pc # "job"
    BY DEF AskLogSet, Ask
  <2>2. ~Waiting(p, "job")
    BY <1>1 DEF Tick, Inv, TypeInv, OneRequestAtATime, Waiting
  <2> QED
    BY <1>1, <2>1, <2>2, PollKeepsOrder DEF Tick, callers
<1>2. ASSUME NEW p \in Polls, SetPointWritten(p) \/ PeriodicReadDone(p)
      PROVE  OrderInv' /\ Mapped
  <2>1. Idle.pc # "job" /\ ~Waiting(p, "job")
    BY <1>2 DEF Idle, Ask, SetPointWritten, PeriodicReadDone, Waiting
  <2> QED
    BY <1>2, <2>1, PollKeepsOrder DEF SetPointWritten, PeriodicReadDone, Finally, callers
<1>3. ASSUME NEW p \in Polls, JobResolves(p) \/ JobRejects(p) PROVE OrderInv' /\ Mapped
  BY <1>3, SettleKeepsOrder DEF JobResolves, JobRejects
<1>4. \A r, v : DeviceChanges(r, v) => OrderInv' /\ Mapped
  BY ServeKeepsOrder DEF DeviceChanges, control
<1>5. \A v : SetSetPoint(v) => OrderInv' /\ Mapped
  BY ServeKeepsOrder DEF SetSetPoint, control
<1>6. UNCHANGED vars => OrderInv' /\ Mapped
  BY ServeKeepsOrder DEF vars
<1> QED
  BY <1>1, <1>2, <1>3, <1>4, <1>5, <1>6, CallKeepsOrder, ServeKeepsOrder, LogSetReadKeepsOrder
  DEF Next, Resume

LEMMA InitOrder == Init => OrderInv /\ Queue!Init
<1>1. Init => rwNonLogRegs = << >> /\ \A p \in Polls : ~Waiting(p, "job")
  BY DEF Init, Idle, Ask, Waiting
<1>2. Init => OrderInv
  BY <1>1 DEF OrderInv, Init
<1> QED
  BY <1>2 DEF Init, Queue!Init

\* The accesses of callers are settled once, one by one, in the order of the
\* calls (_rwNonLogRegs, the shift() and the catch of handlePolling()).
THEOREM CallersInOrder == Spec => QueueSafety
<1>1. Init => Inv
  BY InitType, InitOpen DEF Inv
<1>2. Inv /\ OrderInv /\ [Next]_vars => OrderInv' /\ [Queue!Next]_(Queue!vars)
  BY NextKeepsOrder DEF Mapped
<1> QED
  BY <1>1, <1>2, InitOrder, NextKeepsOpen, PTL
  DEF Spec, Safety, QueueSafety, Queue!Safety
=============================================================================
