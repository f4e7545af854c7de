------------------------------ MODULE Actions ------------------------------
(***************************************************************************)
(* The actions of devices/actions: each one writes a value, reads it back  *)
(* and compares, up to three times, and either finishes or throws.  An     *)
(* access of an action waits in the queue of Nibe1155 for a poll.          *)
(***************************************************************************)
EXTENDS RegisterValues

VARIABLES
  plan,    \* the actions of a behaviour, and the values each one sets
  phase,   \* what an action waits for, or how it has ended
  point,   \* the value it is setting
  cnt,     \* the tries it has made to set that value
  queue,   \* _rwNonLogRegs, the accesses of the actions
  held,    \* what the registers of the heat pump hold
  lost     \* the accesses of an action the line has lost, up to three

actions == << plan, phase, point, cnt, queue, held, lost >>

MaxTries == 3

-----------------------------------------------------------------------------
(* What the classes of actions set: registers, the number written to each,  *)
(* and the value that is expected to be read.                                *)

WriterOf(reg) == CHOOSE w \in HeatWriters : w.reg = reg
SetNumber(reg, x) == [reg |-> reg, raw |-> RawOf(WriterOf(reg), x), asked |-> x]
SetMode(reg, mode) == << [reg |-> reg, raw |-> PumpMode[mode], asked |-> mode] >>

SetCurve(curve) == << SetNumber("heatCurveS1", curve) >>

CurvePoint == << "ownHeatCurveP1", "ownHeatCurveP2", "ownHeatCurveP3", "ownHeatCurveP4",
                 "ownHeatCurveP5", "ownHeatCurveP6", "ownHeatCurveP7" >>

\* For one temperature or up to seven of them; the last one stands for those missing.
\* The constructor refuses one outside 5 .. 80 degrees.
Temperatures(temps) == [i \in 1 .. 7 |-> temps[IF i <= Len(temps) THEN i ELSE Len(temps)]]
SetCurve0Temp(temps) ==
  [i \in 1 .. 7 |-> SetNumber(CurvePoint[i], Temperatures(temps)[i])]
Curve0TempAllowed(temps) == Len(temps) \in 1 .. 7 /\ \A i \in DOMAIN temps : temps[i] \in 50 .. 800

SwitchHeatPumpOn == SetMode("supplyPumpMode", "continous")
SwitchHeatPumpOff == SetMode("supplyPumpMode", "economy")
SwitchBrinePumpOn == SetMode("brinePumpMode", "continous")
SwitchBrinePumpOff == SetMode("brinePumpMode", "auto")

\* What the method that reads register reg returns when the register holds bytes.
AsRead(reg, bytes) ==
  IF reg \in { "supplyPumpMode", "brinePumpMode" }
  THEN ReadPumpMode(ParseModbusResponse(Answer(bytes), SizeOf(reg)))
  ELSE ReadNumber(reg, Answer(bytes))

-----------------------------------------------------------------------------
RegistersOf(a) == { plan[a][i].reg : i \in DOMAIN plan[a] }

\* For any plan.
ActionsInit ==
  /\ phase = [a \in DOMAIN plan |-> "new"]
  /\ point = [a \in DOMAIN plan |-> 1]
  /\ cnt = [a \in DOMAIN plan |-> 0]
  /\ queue = <<>>
  /\ held = [r \in UNION { RegistersOf(a) : a \in DOMAIN plan } |-> BytesOf(0)]
  /\ lost = [a \in DOMAIN plan |-> 0]

\* execute() up to its first await.
Execute(a) ==
  /\ phase[a] = "new"
  /\ phase' = [phase EXCEPT ![a] = "write"]
  /\ queue' = Append(queue, a)
  /\ UNCHANGED << plan, point, cnt, held, lost >>

\* The value has been set: the next one is, or the action has finished.
Continue(a) ==
  IF point[a] = Len(plan[a])
  THEN /\ phase' = [phase EXCEPT ![a] = "finished"] /\ queue' = Tail(queue)
       /\ UNCHANGED << point, cnt >>
  ELSE /\ phase' = [phase EXCEPT ![a] = "write"] /\ queue' = Append(Tail(queue), a)
       /\ point' = [point EXCEPT ![a] = @ + 1] /\ cnt' = [cnt EXCEPT ![a] = 0]

\* Mutant: an error of the first try is not counted.
RetryForgets(a) ==
  /\ cnt' = [cnt EXCEPT ![a] = IF phase[a] = "write" THEN 1 ELSE @ + 1]
  /\ UNCHANGED point
  /\ IF cnt[a] + 1 < MaxTries
     THEN phase' = [phase EXCEPT ![a] = "write"] /\ queue' = Append(Tail(queue), a)
     ELSE phase' = [phase EXCEPT ![a] = "failed"] /\ queue' = Tail(queue)

\* An error in a try: the value is written again, or the action throws.
Retry(a) ==
  /\ cnt' = [cnt EXCEPT ![a] = @ + 1]
  /\ UNCHANGED point
  /\ IF cnt[a] + 1 < MaxTries
     THEN phase' = [phase EXCEPT ![a] = "write"] /\ queue' = Append(Tail(queue), a)
     ELSE phase' = [phase EXCEPT ![a] = "failed"] /\ queue' = Tail(queue)

\* The heat pump obeys a write or not, and its answer arrives or not.
WriteNow(a, obeyed, answered) ==
  LET p == plan[a][point[a]]
      request == WriteRegisterNow(SomeId, p.raw, SizeOf(p.reg))
  IN  /\ answered => obeyed
      /\ held' = IF obeyed THEN [held EXCEPT ![p.reg] = Kept(request)] ELSE held
      /\ IF answered
         THEN /\ phase' = [phase EXCEPT ![a] = "read"] /\ queue' = Append(Tail(queue), a)
              /\ UNCHANGED << point, cnt >>
         ELSE Retry(a)

\* Mutant: the value read is not compared.
ReadNowBlind(a, answered) ==
  /\ UNCHANGED held
  /\ IF answered THEN Continue(a) ELSE Retry(a)

\* ... and a read that is answered is good when it shows the value asked for.
ReadNow(a, answered) ==
  LET p == plan[a][point[a]]
  IN  /\ UNCHANGED held
      /\ IF answered /\ AsRead(p.reg, held[p.reg]) = p.asked THEN Continue(a) ELSE Retry(a)

\* A poll serves the first access. Without Statistics.Instance a caller that reads
\* is rejected although its request was answered.
Serve(obeyed, answered, recorded) ==
  LET a == Head(queue)
  IN  /\ \/ phase[a] = "write" /\ WriteNow(a, obeyed, answered)
         \/ phase[a] = "read" /\ ~obeyed /\ ReadNow(a, answered /\ recorded)
      /\ lost' = [lost EXCEPT ![a] = IF answered \/ @ = MaxTries THEN @ ELSE @ + 1]
      /\ UNCHANGED plan

-----------------------------------------------------------------------------
Shared(a) ==
  \E b \in DOMAIN plan \ { a } :
    phase[b] # "new" /\ RegistersOf(a) \cap RegistersOf(b) # {}

\* The register can show the value asked for.
Settable(p) ==
  AsRead(p.reg, Kept(WriteRegisterNow(SomeId, p.raw, SizeOf(p.reg)))) = p.asked
=============================================================================
