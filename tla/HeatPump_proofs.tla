--------------------------- MODULE HeatPump_proofs --------------------------
(* What TLAPS proves about HeatPump, whatever state it is started with. *)
EXTENDS HeatPump, TLAPS

\* When no handler is under way nothing is to be written. While the set-up of
\* rest is under way, the state is not taken for set up, and each register has
\* been told its value or is among those still to write.
RestUnderWay ==
  /\ pc = "idle" => todo = << >>
  /\ pc \in {"setup", "alarm"} => state \in Resting /\ recentState # state
  /\ pc = "setup" =>
       /\ \A i \in 1..Len(todo) : todo[i].value = "off"
       /\ \A r \in Registers :
            registers[r] = "off" \/ \E i \in 1..Len(todo) : todo[i].register = r

\* The other handlers that wait belong to a state that heats; from the wait for
\* the compressor on there is a set point, in state test from the beginning.
HeatingUnderWay ==
  /\ pc \in {"start", "wait", "started", "lower", "adjust", "end"} => state \in Heating
  /\ pc \in {"started", "lower", "adjust", "end"} => setPointTemp
  /\ pc \in {"start", "wait"} /\ state = "test" => setPointTemp

\* The inductive invariant.
IInv ==
  /\ TypeOK
  /\ started => desiredState \in States
  /\ SetUpDone
  /\ RestUnderWay
  /\ HeatingUnderWay

-----------------------------------------------------------------------------
(* The sequences of writes *)

LEMMA WritesType ==
  /\ OffWrites \in Seq(Commands)
  /\ SetDegreeMinutes \in Seq(Commands)
  /\ SetTemperatures \in Seq(Commands)
  /\ << ReadAlarm >> \in Seq(Commands)
  /\ << >> \in Seq(Commands)
<1>1. \A r \in Registers, v \in {"on", "off"} : Write(r, v) \in Commands
  BY DEF Write, Commands
<1>2. \A v \in {"on", "off"} :
        /\ Write("degreeMinutes", v) \in Commands /\ Write("heatTempMin", v) \in Commands
        /\ Write("heatTempMax", v) \in Commands /\ Write("brinePumpMode", v) \in Commands
        /\ Write("supplyPumpMode", v) \in Commands
  BY <1>1 DEF Registers
<1>3. ReadAlarm \in Commands
  BY DEF Commands
<1> QED
  BY <1>2, <1>3 DEF OffWrites, SetDegreeMinutes, SetTemperatures

\* The set-up of rest writes every register.
LEMMA OffWritesCover ==
  /\ \A i \in 1..Len(OffWrites) : OffWrites[i].value = "off"
  /\ \A r \in Registers : \E i \in 1..Len(OffWrites) : OffWrites[i].register = r
<1>1. Len(OffWrites) = 5
  BY DEF OffWrites
<1>2. /\ OffWrites[1] = Write("degreeMinutes", "off")
      /\ OffWrites[2] = Write("heatTempMin", "off")
      /\ OffWrites[3] = Write("heatTempMax", "off")
      /\ OffWrites[4] = Write("brinePumpMode", "off")
      /\ OffWrites[5] = Write("supplyPumpMode", "off")
  BY DEF OffWrites
<1>3. \A i \in 1..5 : i = 1 \/ i = 2 \/ i = 3 \/ i = 4 \/ i = 5
  OBVIOUS
<1>4. \A i \in 1..5 : OffWrites[i].value = "off"
  BY <1>2, <1>3 DEF Write
<1>5. \A r \in Registers : \E i \in 1..5 : OffWrites[i].register = r
  BY <1>2 DEF Write, Registers
<1> QED
  BY <1>1, <1>4, <1>5

LEMMA TailOfCommands ==
  ASSUME NEW q \in Seq(Commands), q # << >>
  PROVE  /\ Head(q) \in Commands /\ Head(q) = q[1]
         /\ Tail(q) \in Seq(Commands)
         /\ Len(q) \in Nat /\ Len(q) > 0 /\ Len(Tail(q)) = Len(q) - 1
         /\ \A i \in 1..Len(Tail(q)) : Tail(q)[i] = q[i + 1] /\ i + 1 \in 1..Len(q)
         /\ \A i \in 2..Len(q) : i - 1 \in 1..Len(Tail(q)) /\ q[i] = Tail(q)[i - 1]
  OBVIOUS

-----------------------------------------------------------------------------
(* What Return and Perform do to the invariant *)

\* The part of the invariant a handler can disturb, once its step is done.
LEMMA ReturnKeeps ==
  ASSUME TypeOK, NEW s \in States, NEW hot \in BOOLEAN, Return(s, hot)
  PROVE  /\ todo' \in Seq(Commands) /\ pc' = "idle"
         /\ state' = s /\ recentState' = state
         /\ overheated' \in BOOLEAN
         /\ RestUnderWay' /\ HeatingUnderWay'
  BY WritesType DEF Return, TypeOK, RestUnderWay, HeatingUnderWay

LEMMA PerformKeeps ==
  ASSUME TypeOK, NEW w \in Seq(Commands), NEW l, Perform(w, l)
  PROVE  /\ todo' = w /\ todo' \in Seq(Commands) /\ pc' = l
         /\ state' = state /\ recentState' = recentState /\ overheated' = overheated
  BY DEF Perform, machine

\* The parts of a state that heats, with a set point.
LEMMA ControlKeeps ==
  ASSUME TypeOK, SetUpDone, state \in Heating, setPointTemp, setPointTemp' = setPointTemp,
         \/ Control \/ LowerTest \/ AdjustSetPoint
         \/ JudgeStart
  PROVE  /\ todo' \in Seq(Commands)
         /\ pc' \in {"idle", "lower", "adjust", "end"}
         /\ state' \in States /\ recentState' \in States \cup {"undefined"}
         /\ overheated' \in BOOLEAN
         /\ RestUnderWay' /\ HeatingUnderWay'
         /\ \A s \in Resting : ~Settled(s)'
<1>1. /\ state \in States /\ recentState \in States \cup {"undefined"}
      /\ Heating \cap Resting = {} /\ "off" \in States /\ "error" \in States
      /\ state \notin Resting /\ overheated \in BOOLEAN
  BY DEF TypeOK, Heating, Resting, States, Modes
<1>2. ASSUME NEW l \in {"lower", "adjust", "end"}, NEW w \in {SetDegreeMinutes, SetTemperatures},
             Perform(w, l)
      PROVE  /\ todo' \in Seq(Commands) /\ pc' \in {"lower", "adjust", "end"}
             /\ state' \in States /\ recentState' \in States \cup {"undefined"}
             /\ overheated' \in BOOLEAN
             /\ RestUnderWay' /\ HeatingUnderWay'
             /\ \A s \in Resting : ~Settled(s)'
  <2>1. /\ todo' \in Seq(Commands) /\ pc' = l
        /\ state' = state /\ recentState' = recentState /\ overheated' = overheated
    BY <1>2, WritesType, PerformKeeps
  <2> QED
    BY <2>1, <1>1 DEF RestUnderWay, HeatingUnderWay, Settled
<1>3. \/ Return("off", TRUE) \/ Return("error", FALSE)
      \/ Return(state, FALSE)
      \/ \E l \in {"lower", "adjust", "end"}, w \in {SetDegreeMinutes, SetTemperatures} :
            Perform(w, l)
  <2>1. AdjustSetPoint => \/ Return(state, FALSE)
                          \/ Perform(SetTemperatures, "end")
    BY DEF AdjustSetPoint
  <2>2. LowerTest => \/ Perform(SetDegreeMinutes, "adjust")
                     \/ Return(state, FALSE)
                     \/ Perform(SetTemperatures, "end")
    BY <2>1 DEF LowerTest
  <2>3. Control => \/ Return("off", TRUE)
                   \/ Perform(SetDegreeMinutes, "lower")
                   \/ Perform(SetDegreeMinutes, "adjust")
                   \/ Return(state, FALSE)
                   \/ Perform(SetTemperatures, "end")
    BY <2>1, <2>2 DEF Control
  <2>4. JudgeStart => Control \/ Return("error", FALSE)
    BY DEF JudgeStart
  <2> QED
    BY <2>1, <2>2, <2>3, <2>4
<1> QED
  <2>1. CASE Return("off", TRUE) \/ Return("error", FALSE) \/ Return(state, FALSE)
    BY <1>1, <2>1, ReturnKeeps DEF Settled, Heating, Resting, States, Modes
  <2> QED
    BY <2>1, <1>2, <1>3

\* The writes of a state that heats, up to the start of the compressor.
LEMMA StartKeeps ==
  ASSUME TypeOK, state \in Heating,
         NEW w \in {SetDegreeMinutes, SetTemperatures, << >>},
         NEW l \in {"start", "wait", "started"},
         Perform(w, l), setPointTemp' \in BOOLEAN,
         l = "started" \/ state = "test" => setPointTemp'
  PROVE  /\ todo' \in Seq(Commands) /\ pc' = l
         /\ state' = state /\ recentState' = recentState /\ overheated' = overheated
         /\ RestUnderWay' /\ HeatingUnderWay'
<1>1. /\ todo' \in Seq(Commands) /\ pc' = l
      /\ state' = state /\ recentState' = recentState /\ overheated' = overheated
  BY WritesType, PerformKeeps
<1> QED
  BY <1>1 DEF RestUnderWay, HeatingUnderWay

\* The set-up of rest begins.
LEMMA SetUpKeeps ==
  ASSUME TypeOK, state \in Resting, recentState # state, Perform(OffWrites, "setup")
  PROVE  /\ todo' \in Seq(Commands) /\ pc' = "setup"
         /\ state' = state /\ recentState' = recentState /\ overheated' = overheated
         /\ RestUnderWay' /\ HeatingUnderWay'
<1>1. /\ todo' = OffWrites /\ todo' \in Seq(Commands) /\ pc' = "setup"
      /\ state' = state /\ recentState' = recentState /\ overheated' = overheated
  BY WritesType, PerformKeeps
<1>2. RestUnderWay'
  BY <1>1, OffWritesCover DEF RestUnderWay
<1>3. HeatingUnderWay'
  BY <1>1 DEF HeatingUnderWay
<1> QED
  BY <1>1, <1>2, <1>3

-----------------------------------------------------------------------------
(* The invariant *)

\* What is left to show once the handler's part is done.
LEMMA Together ==
  ASSUME IInv,
         todo' \in Seq(Commands),
         pc' \in {"idle", "setup", "alarm", "start", "wait", "started", "lower", "adjust", "end"},
         state' \in States, recentState' \in States \cup {"undefined"}, overheated' \in BOOLEAN,
         setPointTemp' \in BOOLEAN, registers' \in [Registers -> {"on", "off"}],
         UNCHANGED <<started, desiredState, polled, up>>,
         RestUnderWay', HeatingUnderWay', SetUpDone'
  PROVE  IInv'
  BY DEF IInv, TypeOK, polled

LEMMA InitIInv == Init => IInv
  BY WritesType DEF Init, IInv, TypeOK, SetUpDone, Settled, RestUnderWay, HeatingUnderWay,
       Resting, Heating, States, Modes

\* The callers and the world outside leave the handlers alone.
LEMMA OutsideKeeps ==
  ASSUME IInv,
         \/ \E s \in StartStates : Start(s)
         \/ \E m \in Modes : SetDesiredMode(m)
         \/ Poll \/ Fail \/ UNCHANGED vars
  PROVE  IInv'
<1>1. UNCHANGED <<machine, setPointTemp, handler, registers>>
  BY DEF Start, SetDesiredMode, Poll, Fail, vars
<1>2. SetUpDone' /\ RestUnderWay' /\ HeatingUnderWay'
  BY <1>1 DEF IInv, SetUpDone, Settled, RestUnderWay, HeatingUnderWay, machine, handler
<1>3. todo' \in Seq(Commands) /\ registers' \in [Registers -> {"on", "off"}]
  BY <1>1 DEF IInv, TypeOK, handler
<1>4. (\E s \in StartStates : Start(s)) => TypeOK' /\ (started' => desiredState' \in States)
  BY <1>1, <1>3, StartAssumption DEF IInv, TypeOK, Start, machine, handler, polled
<1>5. (\E m \in Modes : SetDesiredMode(m)) => TypeOK' /\ (started' => desiredState' \in States)
  BY <1>1, <1>3 DEF IInv, TypeOK, SetDesiredMode, machine, handler, polled, States, Modes
<1>6. Poll => TypeOK' /\ (started' => desiredState' \in States)
  BY <1>1, <1>3 DEF IInv, TypeOK, Poll, machine, handler
<1>7. ASSUME Fail PROVE TypeOK' /\ (started' => desiredState' \in States)
  <2>1. up' \in BOOLEAN
    BY <1>7 DEF Fail
  <2> QED
    BY <1>1, <1>3, <1>7, <2>1 DEF IInv, TypeOK, Fail, machine, handler, polled
<1>8. UNCHANGED vars => TypeOK' /\ (started' => desiredState' \in States)
  BY <1>1, <1>3 DEF IInv, TypeOK, vars, machine, handler, polled
<1> QED
  <2>1. TypeOK' /\ (started' => desiredState' \in States)
    BY <1>4, <1>5, <1>6, <1>7, <1>8
  <2> QED
    BY <1>2, <2>1 DEF IInv

\* A handler that returns a state: it is taken for set up only if it was so
\* before, or if the set-up of the state that returns itself is done.
LEMMA ReturnIsSound ==
  ASSUME IInv, NEW s \in States, NEW hot \in BOOLEAN, Return(s, hot),
         UNCHANGED <<setPointTemp, started, desiredState, polled, up>>,
         registers' \in [Registers -> {"on", "off"}],
         \/ s # state
         \/ s = "init"
         \/ s \in Resting /\ \A r \in Registers : registers'[r] = "off"
         \/ s \in Heating /\ setPointTemp
  PROVE  IInv'
<1>1. /\ todo' \in Seq(Commands) /\ pc' = "idle"
      /\ state' = s /\ recentState' = state
      /\ overheated' \in BOOLEAN
      /\ RestUnderWay' /\ HeatingUnderWay'
  BY ReturnKeeps DEF IInv
<1>2. SetUpDone'
  BY <1>1 DEF SetUpDone, Settled, Resting, Heating
<1>3. state \in States \cup {"undefined"} /\ setPointTemp' \in BOOLEAN
  BY DEF IInv, TypeOK
<1> QED
  BY <1>1, <1>2, <1>3, Together

LEMMA TickKeeps ==
  ASSUME IInv, Tick
  PROVE  IInv'
<1>1. /\ TypeOK /\ SetUpDone /\ state \in States /\ desiredState \in States
      /\ recentState \in States \cup {"undefined"} /\ setPointTemp \in BOOLEAN
      /\ registers \in [Registers -> {"on", "off"}]
      /\ UNCHANGED <<started, desiredState, registers, polled, up>>
      /\ "off" \in States /\ FALSE \in BOOLEAN
  BY DEF Tick, IInv, TypeOK, States, Modes
<1>2. CASE HandleStateInit
  BY <1>1, <1>2, ReturnIsSound DEF HandleStateInit, Resting, Heating
<1>3. CASE HandleResting
  <2>1. CASE desiredState # state
    BY <1>1, <1>3, <2>1, ReturnIsSound DEF HandleResting
  <2>2. CASE desiredState = state /\ recentState = state
    <3>1. state \in Resting /\ \A r \in Registers : registers'[r] = "off"
      BY <1>1, <1>3, <2>2 DEF HandleResting, SetUpDone, Settled
    <3> QED
      BY <1>1, <1>3, <2>2, <3>1, ReturnIsSound DEF HandleResting
  <2>3. CASE desiredState = state /\ recentState # state
    <3>1. state \in Resting
      BY <1>3 DEF HandleResting
    <3>2. CASE Perform(OffWrites, "setup") /\ setPointTemp' = FALSE
      <4>1. /\ todo' \in Seq(Commands) /\ pc' = "setup"
            /\ state' = state /\ recentState' = recentState /\ overheated' = overheated
            /\ RestUnderWay' /\ HeatingUnderWay'
        BY <1>1, <2>3, <3>1, <3>2, SetUpKeeps
      <4>2. SetUpDone'
        BY <2>3, <3>1, <4>1 DEF SetUpDone, Settled, Resting, Heating
      <4> QED
        BY <1>1, <3>2, <4>1, <4>2, Together DEF TypeOK
    <3>3. CASE Perform(<< ReadAlarm >>, "alarm") /\ UNCHANGED setPointTemp
      <4>1. /\ todo' \in Seq(Commands) /\ pc' = "alarm"
            /\ state' = state /\ recentState' = recentState /\ overheated' = overheated
        BY <1>1, <3>3, WritesType, PerformKeeps
      <4>2. SetUpDone' /\ RestUnderWay' /\ HeatingUnderWay'
        BY <1>1, <2>3, <3>1, <3>3, <4>1
           DEF SetUpDone, Settled, RestUnderWay, HeatingUnderWay, Resting, Heating
      <4> QED
        BY <1>1, <3>3, <4>1, <4>2, Together DEF TypeOK
    <3> QED
      BY <1>3, <2>3, <3>2, <3>3 DEF HandleResting
  <2> QED
    BY <2>1, <2>2, <2>3
<1>4. CASE HandleHeating
  <2>0. state \in Heating
    BY <1>4 DEF HandleHeating
  <2>1. CASE desiredState # state
    BY <1>1, <1>4, <2>1, ReturnIsSound DEF HandleHeating
  <2>2. CASE desiredState = state /\ recentState = state
    <3>1. setPointTemp /\ Control /\ setPointTemp' = setPointTemp
      BY <1>1, <1>4, <2>0, <2>2 DEF HandleHeating, SetUpDone, Settled
    <3>2. /\ todo' \in Seq(Commands)
          /\ pc' \in {"idle", "lower", "adjust", "end"}
          /\ state' \in States /\ recentState' \in States \cup {"undefined"}
          /\ overheated' \in BOOLEAN
          /\ RestUnderWay' /\ HeatingUnderWay'
          /\ \A s \in Resting : ~Settled(s)'
      BY <1>1, <2>0, <3>1, ControlKeeps
    <3>3. SetUpDone'
      BY <3>1, <3>2 DEF SetUpDone
    <3> QED
      BY <1>1, <3>1, <3>2, <3>3, Together
  <2>3. CASE desiredState = state /\ recentState # state
    <3>1. CASE Return("off", FALSE) /\ UNCHANGED setPointTemp
      BY <1>1, <2>0, <3>1, ReturnIsSound DEF Heating
    <3>2. CASE /\ Perform(SetTemperatures, "start")
               /\ \/ state = "frequency" /\ UNCHANGED setPointTemp
                  \/ state = "test" /\ setPointTemp' = TRUE
      <4>1. setPointTemp' \in BOOLEAN /\ (state = "test" => setPointTemp')
        BY <1>1, <3>2
      <4>2. /\ todo' \in Seq(Commands) /\ pc' = "start"
            /\ state' = state /\ recentState' = recentState /\ overheated' = overheated
            /\ RestUnderWay' /\ HeatingUnderWay'
        BY <1>1, <2>0, <3>2, <4>1, StartKeeps
      <4>3. SetUpDone'
        BY <2>0, <2>3, <4>2 DEF SetUpDone, Settled, Resting, Heating
      <4> QED
        BY <1>1, <4>1, <4>2, <4>3, Together DEF TypeOK
    <3> QED
      BY <1>4, <2>3, <3>1, <3>2 DEF HandleHeating, SetUpHeating
  <2> QED
    BY <2>1, <2>2, <2>3
<1> QED
  BY <1>2, <1>3, <1>4 DEF Tick

\* What a write tells the heat pump is a value of a register.
LEMMA ToldType ==
  ASSUME IInv, todo # << >>
  PROVE  Told \in [Registers -> {"on", "off"}]
<1>1. Head(todo) \in Commands
  BY TailOfCommands DEF IInv, TypeOK
<1>2. \A r \in Registers : Head(todo).register = r => Head(todo).value \in {"on", "off"}
  BY <1>1 DEF Commands, ReadAlarm, Write, Registers
<1> QED
  BY <1>2 DEF IInv, TypeOK, Told

LEMMA AfterWritesKeeps ==
  ASSUME IInv, AfterWrites,
         registers' \in [Registers -> {"on", "off"}],
         pc = "setup" => \A r \in Registers : registers'[r] = "off",
         UNCHANGED <<started, desiredState, polled, up>>
  PROVE  IInv'
<1>1. /\ TypeOK /\ SetUpDone /\ RestUnderWay /\ HeatingUnderWay /\ state \in States
      /\ recentState \in States \cup {"undefined"} /\ setPointTemp \in BOOLEAN
      /\ FALSE \in BOOLEAN
  BY DEF IInv, TypeOK
<1>2. CASE pc = "setup"
  <2>1. Return(state, FALSE) /\ UNCHANGED setPointTemp /\ state \in Resting
    BY <1>1, <1>2 DEF AfterWrites, RestUnderWay
  <2> QED
    BY <1>1, <1>2, <2>1, ReturnIsSound
<1>3. CASE pc = "alarm"
  <2>1. /\ Perform(OffWrites, "setup") /\ setPointTemp' = FALSE
        /\ state \in Resting /\ recentState # state
    BY <1>1, <1>3 DEF AfterWrites, RestUnderWay
  <2>2. /\ todo' \in Seq(Commands) /\ pc' = "setup"
        /\ state' = state /\ recentState' = recentState /\ overheated' = overheated
        /\ RestUnderWay' /\ HeatingUnderWay'
    BY <1>1, <2>1, SetUpKeeps
  <2>3. SetUpDone'
    BY <2>1, <2>2 DEF SetUpDone, Settled, Resting, Heating
  <2> QED
    BY <1>1, <2>1, <2>2, <2>3, Together DEF TypeOK
<1>4. CASE pc \in {"start", "wait"}
  <2>1. /\ state \in Heating /\ UNCHANGED setPointTemp
        /\ state = "test" => setPointTemp
        /\ Perform(SetDegreeMinutes, "wait") \/ Perform(<< >>, "wait")
    BY <1>1, <1>4 DEF AfterWrites, HeatingUnderWay
  <2>2. /\ todo' \in Seq(Commands) /\ pc' = "wait"
        /\ state' = state /\ recentState' = recentState /\ overheated' = overheated
        /\ RestUnderWay' /\ HeatingUnderWay'
    BY <1>1, <2>1, StartKeeps
  <2>3. SetUpDone'
    BY <1>1, <2>1, <2>2 DEF SetUpDone, Settled, Resting, Heating
  <2> QED
    BY <1>1, <2>1, <2>2, <2>3, Together DEF TypeOK
<1>5. CASE pc \in {"started", "lower", "adjust", "end"}
  <2>1. state \in Heating /\ setPointTemp /\ setPointTemp' = setPointTemp
    BY <1>1, <1>5 DEF AfterWrites, HeatingUnderWay
  <2>2. CASE pc = "end"
    BY <1>1, <2>1, <2>2, ReturnIsSound DEF AfterWrites
  <2>3. CASE pc # "end"
    <3>1. JudgeStart \/ LowerTest \/ AdjustSetPoint
      BY <1>5, <2>3 DEF AfterWrites
    <3>2. /\ todo' \in Seq(Commands)
          /\ pc' \in {"idle", "lower", "adjust", "end"}
          /\ state' \in States /\ recentState' \in States \cup {"undefined"}
          /\ overheated' \in BOOLEAN
          /\ RestUnderWay' /\ HeatingUnderWay'
          /\ \A s \in Resting : ~Settled(s)'
      BY <1>1, <2>1, <3>1, ControlKeeps
    <3>3. SetUpDone'
      BY <2>1, <3>2 DEF SetUpDone
    <3> QED
      BY <1>1, <2>1, <3>2, <3>3, Together
  <2> QED
    BY <2>2, <2>3
<1> QED
  BY <1>2, <1>3, <1>4, <1>5 DEF AfterWrites

\* A write is done, or a read of the alarm has failed.
LEMMA GoOnKeeps ==
  ASSUME IInv, todo # << >>, GoOn,
         registers' \in [Registers -> {"on", "off"}],
         pc = "setup" => registers' = Told,
         UNCHANGED <<started, desiredState, polled, up>>
  PROVE  IInv'
<1>1. /\ todo \in Seq(Commands) /\ pc # "idle" /\ SetUpDone /\ RestUnderWay
      /\ HeatingUnderWay
  BY DEF IInv, TypeOK, RestUnderWay
<1>2. /\ Head(todo) = todo[1] /\ Tail(todo) \in Seq(Commands)
      /\ Len(todo) \in Nat /\ Len(todo) > 0 /\ Len(Tail(todo)) = Len(todo) - 1
      /\ \A i \in 1..Len(Tail(todo)) : Tail(todo)[i] = todo[i + 1] /\ i + 1 \in 1..Len(todo)
      /\ \A i \in 2..Len(todo) : i - 1 \in 1..Len(Tail(todo)) /\ todo[i] = Tail(todo)[i - 1]
  BY <1>1, TailOfCommands
<1>3. ASSUME pc = "setup"
      PROVE  \A r \in Registers : registers'[r] = "off" \/ \E i \in 2..Len(todo) : todo[i].register = r
  <2>1. todo[1].value = "off"
    BY <1>1, <1>2, <1>3 DEF RestUnderWay
  <2>2. \A r \in Registers :
          registers'[r] = IF todo[1].register = r THEN "off" ELSE registers[r]
    BY <1>2, <1>3, <2>1 DEF Told
  <2>3. \A r \in Registers :
          registers[r] = "off" \/ \E i \in 1..Len(todo) : todo[i].register = r
    BY <1>1, <1>3 DEF RestUnderWay
  <2> QED
    BY <1>2, <2>2, <2>3
<1>4. CASE Len(todo) > 1
  <2>1. /\ todo' = Tail(todo) /\ todo' # << >>
        /\ UNCHANGED <<pc, state, recentState, overheated, setPointTemp>>
    BY <1>2, <1>4 DEF GoOn, machine
  <2>2. RestUnderWay'
    <3>1. pc' = "setup" => \A i \in 1..Len(todo') : todo'[i].value = "off"
      BY <1>1, <1>2, <2>1 DEF RestUnderWay
    <3>2. pc' = "setup" => \A r \in Registers :
             registers'[r] = "off" \/ \E i \in 1..Len(todo') : todo'[i].register = r
      BY <1>2, <1>3, <2>1
    <3> QED
      BY <1>1, <2>1, <3>1, <3>2 DEF RestUnderWay
  <2>3. HeatingUnderWay'
    BY <1>1, <2>1 DEF HeatingUnderWay
  <2>4. SetUpDone'
    BY <1>1, <2>1 DEF SetUpDone, Settled, RestUnderWay, HeatingUnderWay, IInv, TypeOK, Resting, Heating
  <2> QED
    BY <1>2, <2>1, <2>2, <2>3, <2>4, Together DEF IInv, TypeOK
<1>5. CASE ~(Len(todo) > 1)
  <2>1. AfterWrites
    BY <1>5 DEF GoOn
  <2>2. pc = "setup" => \A r \in Registers : registers'[r] = "off"
    BY <1>2, <1>3, <1>5
  <2> QED
    BY <2>1, <2>2, AfterWritesKeeps
<1> QED
  BY <1>4, <1>5

LEMMA ResolvesKeeps ==
  ASSUME IInv, Resolves
  PROVE  IInv'
  BY ToldType, GoOnKeeps DEF Resolves

LEMMA RejectsKeeps ==
  ASSUME IInv, Rejects
  PROVE  IInv'
<1>1. registers' \in [Registers -> {"on", "off"}] /\ todo # << >>
  BY ToldType DEF Rejects, IInv, TypeOK
<1>2. CASE pc = "alarm"
  BY <1>1, <1>2, GoOnKeeps DEF Rejects
<1>3. CASE pc # "alarm"
  <2>1. /\ pc' = "idle" /\ todo' = << >>
        /\ UNCHANGED <<state, recentState, overheated, setPointTemp>>
        /\ UNCHANGED <<started, desiredState, polled, up>>
    BY <1>3 DEF Rejects, machine
  <2>2. RestUnderWay' /\ HeatingUnderWay'
    BY <2>1 DEF RestUnderWay, HeatingUnderWay
  <2>3. SetUpDone'
    BY <1>1, <1>3, <2>1
       DEF IInv, TypeOK, SetUpDone, Settled, RestUnderWay, HeatingUnderWay, Resting, Heating
  <2> QED
    BY <1>1, <2>1, <2>2, <2>3, WritesType, Together DEF IInv, TypeOK
<1> QED
  BY <1>2, <1>3

LEMMA WaitEndsKeeps ==
  ASSUME IInv, WaitEnds
  PROVE  IInv'
<1>1. /\ TypeOK /\ SetUpDone /\ state \in Heating /\ state \in States
      /\ recentState \in States \cup {"undefined"} /\ setPointTemp \in BOOLEAN
      /\ state = "test" => setPointTemp
      /\ registers' \in [Registers -> {"on", "off"}]
      /\ UNCHANGED <<started, desiredState, polled, up>>
  BY DEF WaitEnds, IInv, TypeOK, HeatingUnderWay
<1>2. CASE setPointTemp' = TRUE /\ Perform(SetTemperatures, "started")
  <2>1. /\ todo' \in Seq(Commands) /\ pc' = "started"
        /\ state' = state /\ recentState' = recentState /\ overheated' = overheated
        /\ RestUnderWay' /\ HeatingUnderWay'
    BY <1>1, <1>2, StartKeeps
  <2>2. SetUpDone'
    BY <1>1, <1>2, <2>1 DEF SetUpDone, Settled, Resting, Heating
  <2> QED
    BY <1>1, <1>2, <2>1, <2>2, Together DEF TypeOK
<1>3. CASE state = "test" /\ JudgeStart /\ UNCHANGED setPointTemp
  <2>1. /\ todo' \in Seq(Commands)
        /\ pc' \in {"idle", "lower", "adjust", "end"}
        /\ state' \in States /\ recentState' \in States \cup {"undefined"}
        /\ overheated' \in BOOLEAN
        /\ RestUnderWay' /\ HeatingUnderWay'
        /\ \A s \in Resting : ~Settled(s)'
    BY <1>1, <1>3, ControlKeeps
  <2>2. SetUpDone'
    BY <1>1, <1>3, <2>1 DEF SetUpDone
  <2> QED
    BY <1>1, <1>3, <2>1, <2>2, Together
<1> QED
  BY <1>2, <1>3 DEF WaitEnds

-----------------------------------------------------------------------------

LEMMA NextKeeps == IInv /\ [Next]_vars => IInv'
<1>1. IInv /\ Tick => IInv'
  BY TickKeeps
<1>2. IInv /\ Resolves => IInv'
  BY ResolvesKeeps
<1>3. IInv /\ Rejects => IInv'
  BY RejectsKeeps
<1>4. IInv /\ WaitEnds => IInv'
  BY WaitEndsKeeps
<1> QED
  BY <1>1, <1>2, <1>3, <1>4, OutsideKeeps DEF Next

LEMMA Invariance == Spec => []IInv
  BY InitIInv, NextKeeps, PTL DEF Spec, Safety

\* Every variable of HeatPump keeps its type, whatever fails and whenever the
\* desired mode changes.
THEOREM PumpTypeCorrect == Spec => []TypeOK
<1>1. IInv => TypeOK
  BY DEF IInv
<1> QED
  BY <1>1, Invariance, PTL

\* The machine takes a state for set up only when its set-up has been done.
THEOREM SetUpIsDone == Spec => []SetUpDone
<1>1. IInv => SetUpDone
  BY DEF IInv
<1> QED
  BY <1>1, Invariance, PTL
=============================================================================
