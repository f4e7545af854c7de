------------------------------ MODULE HeatPump ------------------------------
(***************************************************************************)
(* HeatPump: the state machine that a 2 s timer drives. A handler runs up  *)
(* to its next await in one action; an await is a write that                *)
(* Nibe1155.handlePolling() gets done or gives up, or the wait for the     *)
(* compressor. An error ends the handler where it is.                      *)
(*                                                                         *)
(* Temperatures and degree minutes are reduced to the comparisons made     *)
(* with them. What a register was last set to is "off" for a value of the  *)
(* set-up of state off and "on" for any other one.                         *)
(***************************************************************************)
EXTENDS Naturals, Sequences

CONSTANT StartStates   \* what start() may be called with

Modes == {"off", "test", "frequency"}           \* IHeatpumpMode.desiredMode
States == Modes \cup {"init", "error"}
Resting == {"off", "error"}                     \* they have the same set-up
Heating == {"test", "frequency"}

Registers ==
  {"degreeMinutes", "heatTempMin", "heatTempMax", "brinePumpMode", "supplyPumpMode"}

ASSUME StartAssumption == StartStates \subseteq States

VARIABLES
  started,         \* _timer is set
  state,           \* _state
  recentState,     \* _recentState
  desiredState,    \* _desiredState
  setPointTemp,    \* _setPointTemp is defined
  pc,              \* where the handler waits; "idle": _inProgressSince is not set
  todo,            \* the writes it awaits, one after the other
  registers,       \* what the heat pump was last told
  supplyTemp,      \* the polled supply temperature: "cool", or "hot" from 55 on
  condensorOut,    \* the polled condensor temperature: below 57, from 57 or from 58.5 on
  running,         \* the polled compressor frequency is not 0
  up,              \* the heat pump answers
  overheated       \* the last change of the state was the switch-off at the limit

handler == <<pc, todo>>
machine == <<state, recentState, overheated>>
polled == <<supplyTemp, condensorOut, running>>
vars == <<started, machine, desiredState, setPointTemp, handler, registers, polled, up>>

-----------------------------------------------------------------------------

Init ==
  /\ started = FALSE
  /\ state = "init"
  /\ recentState = "undefined"
  /\ desiredState = "undefined"
  /\ setPointTemp = FALSE
  /\ pc = "idle"
  /\ todo = << >>
  /\ registers = [r \in Registers |-> "on"]
  /\ supplyTemp \in {"cool", "hot"}
  /\ condensorOut \in {"cool", "57", "58.5"}
  /\ running \in BOOLEAN
  /\ up = TRUE
  /\ overheated = FALSE

-----------------------------------------------------------------------------
(* Parts of the handlers *)

Write(r, v) == [register |-> r, value |-> v]

ReadAlarm == Write("alarm", "read")   \* the answer is only logged

OffWrites ==
  << Write("degreeMinutes", "off"), Write("heatTempMin", "off"), Write("heatTempMax", "off"),
     Write("brinePumpMode", "off"), Write("supplyPumpMode", "off") >>

SetDegreeMinutes == << Write("degreeMinutes", "on") >>
SetTemperatures == << Write("heatTempMin", "on"), Write("heatTempMax", "on") >>

\* Await the writes w one by one; what follows is named by `next`.
Perform(w, next) ==
  /\ todo' = w
  /\ pc' = next
  /\ UNCHANGED machine

\* The handler returns the state s; hot: because the condensor is too hot.
Return(s, hot) ==
  /\ todo' = << >>
  /\ pc' = "idle"
  /\ recentState' = state
  /\ state' = s
  /\ overheated' = IF s = state THEN overheated ELSE hot

Limit == IF state = "test" THEN {"58.5"} ELSE {"57", "58.5"}

\* Both conditions on t and _setPointTemp hold for any two numbers.
AdjustSetPoint ==
  IF setPointTemp THEN Perform(SetTemperatures, "end") ELSE Return(state, FALSE)

\* Degree minutes other than -100 are corrected; they are read anew.
LowerTest == Perform(SetDegreeMinutes, "adjust") \/ AdjustSetPoint

\* The part each tick of a state that heats comes to.
Control ==
  IF condensorOut \in Limit THEN Return("off", TRUE)
  ELSE \/ state = "test" /\ Perform(SetDegreeMinutes, "lower")    \* below -100
       \/ state = "test" /\ LowerTest
       \/ state = "frequency" /\ Perform(SetDegreeMinutes, "adjust")
       \/ state = "frequency" /\ AdjustSetPoint

JudgeStart == IF running THEN Control ELSE Return("error", FALSE)

-----------------------------------------------------------------------------
(* Callers and the world outside *)

\* stop() throws while the timer runs and does nothing else: there is no way
\* back from here.
Start(s) ==
  /\ ~started
  /\ started' = TRUE
  /\ desiredState' = s
  /\ UNCHANGED <<machine, setPointTemp, handler, registers, polled, up>>

\* setDesiredMode(), after its delay. The server takes calls before start().
SetDesiredMode(m) ==
  /\ desiredState' = m
  /\ UNCHANGED <<started, machine, setPointTemp, handler, registers, polled, up>>

\* The polling stores other values.
Poll ==
  /\ supplyTemp' \in {"cool", "hot"}
  /\ condensorOut' \in {"cool", "57", "58.5"}
  /\ running' \in BOOLEAN
  /\ UNCHANGED <<started, machine, desiredState, setPointTemp, handler, registers, up>>

\* The line, the gateway or the heat pump fails, or is back.
Fail ==
  /\ up' = ~up
  /\ UNCHANGED <<started, machine, desiredState, setPointTemp, handler, registers, polled>>

-----------------------------------------------------------------------------
(* handleStateMachine() up to the first await *)

\* Mutant: the wrong variable is returned.
HandleStateInitRecent ==
  /\ state = "init"
  /\ Return(recentState, FALSE)
  /\ UNCHANGED setPointTemp

HandleStateInit ==
  /\ state = "init"
  /\ Return(desiredState, FALSE)
  /\ UNCHANGED setPointTemp

HandleResting ==
  /\ state \in Resting
  /\ IF desiredState # state
     THEN Return(desiredState, FALSE) /\ UNCHANGED setPointTemp
     ELSE IF recentState # state
     THEN \/ /\ state = "off"
             /\ Perform(OffWrites, "setup")
             /\ setPointTemp' = FALSE
          \/ /\ state = "error"
             /\ Perform(<< ReadAlarm >>, "alarm")
             /\ UNCHANGED setPointTemp
     ELSE Return(state, FALSE) /\ UNCHANGED setPointTemp

SetUpHeating ==
  \/ /\ state = "frequency" /\ supplyTemp = "hot"
     /\ Return("off", FALSE)
     /\ UNCHANGED setPointTemp
  \/ /\ state = "frequency" /\ supplyTemp = "cool"
     /\ Perform(SetTemperatures, "start")
     /\ UNCHANGED setPointTemp
  \/ /\ state = "test"
     /\ Perform(SetTemperatures, "start")
     /\ setPointTemp' = TRUE

\* Mutant: once it heats, the desired state is not looked at any more.
HandleHeatingDeaf ==
  /\ state \in Heating
  /\ IF recentState = state THEN Control /\ UNCHANGED setPointTemp
     ELSE IF desiredState # state
     THEN Return(desiredState, FALSE) /\ UNCHANGED setPointTemp
     ELSE SetUpHeating

HandleHeating ==
  /\ state \in Heating
  /\ IF desiredState # state
     THEN Return(desiredState, FALSE) /\ UNCHANGED setPointTemp
     ELSE IF recentState = state
     THEN Control /\ UNCHANGED setPointTemp
     ELSE SetUpHeating

Tick ==
  /\ started /\ pc = "idle"
  /\ HandleStateInit \/ HandleResting \/ HandleHeating
  /\ UNCHANGED <<started, desiredState, registers, polled, up>>

-----------------------------------------------------------------------------
(* The handlers after an await *)

\* What follows the last write of a part.
AfterWrites ==
  \/ pc = "setup" /\ Return(state, FALSE) /\ UNCHANGED setPointTemp
  \/ pc = "alarm" /\ Perform(OffWrites, "setup") /\ setPointTemp' = FALSE
  \/ /\ pc = "start"
     /\ \/ Perform(SetDegreeMinutes, "wait")      \* above -60
        \/ Perform(<< >>, "wait")
     /\ UNCHANGED setPointTemp
  \/ pc = "wait" /\ Perform(<< >>, "wait") /\ UNCHANGED setPointTemp
  \/ pc = "started" /\ JudgeStart /\ UNCHANGED setPointTemp
  \/ pc = "lower" /\ LowerTest /\ UNCHANGED setPointTemp
  \/ pc = "adjust" /\ AdjustSetPoint /\ UNCHANGED setPointTemp
  \/ pc = "end" /\ Return(state, FALSE) /\ UNCHANGED setPointTemp

Told ==
  [r \in Registers |-> IF r = Head(todo).register THEN Head(todo).value ELSE registers[r]]

GoOn ==
  IF Len(todo) > 1
  THEN todo' = Tail(todo) /\ UNCHANGED <<pc, machine, setPointTemp>>
  ELSE AfterWrites

Resolves ==
  /\ todo # << >> /\ up
  /\ registers' = Told
  /\ GoOn
  /\ UNCHANGED <<started, desiredState, polled, up>>

\* Mutant: `finally` moves recentState on.
RejectsMovesOn ==
  /\ todo # << >> /\ ~up
  /\ registers' \in {registers, Told}
  /\ IF pc = "alarm" THEN GoOn
     ELSE /\ pc' = "idle" /\ todo' = << >>
          /\ recentState' = state
          /\ UNCHANGED <<state, overheated, setPointTemp>>
  /\ UNCHANGED <<started, desiredState, polled, up>>

\* Only the read of the alarm has a catch of its own. A write that fails may
\* have reached the heat pump.
Rejects ==
  /\ todo # << >> /\ ~up
  /\ registers' \in {registers, Told}
  /\ IF pc = "alarm" THEN GoOn
     ELSE pc' = "idle" /\ todo' = << >> /\ UNCHANGED <<machine, setPointTemp>>
  /\ UNCHANGED <<started, desiredState, polled, up>>

\* Mutant: the time is not limited.
WaitEndsRunning ==
  /\ pc = "wait" /\ todo = << >> /\ running
  /\ \/ /\ state = "frequency"
        /\ setPointTemp' = TRUE
        /\ Perform(SetTemperatures, "started")
     \/ /\ state = "test"
        /\ JudgeStart
        /\ UNCHANGED setPointTemp
  /\ UNCHANGED <<started, desiredState, registers, polled, up>>

\* The compressor runs, or the time is over.
WaitEnds ==
  /\ pc = "wait" /\ todo = << >>
  /\ \/ /\ state = "frequency"
        /\ setPointTemp' = TRUE
        /\ Perform(SetTemperatures, "started")
     \/ /\ state = "test"
        /\ JudgeStart
        /\ UNCHANGED setPointTemp
  /\ UNCHANGED <<started, desiredState, registers, polled, up>>

-----------------------------------------------------------------------------

Next ==
  \/ \E s \in StartStates : Start(s)
  \/ \E m \in Modes : SetDesiredMode(m)
  \/ Poll \/ Fail
  \/ Tick \/ Resolves \/ Rejects \/ WaitEnds

Safety == Init /\ [][Next]_vars

\* main() starts the machine, its timer goes on, every write is settled
\* (NibePolling: QueueSpec) and the wait for the compressor ends.
Spec ==
  /\ Safety
  /\ WF_vars(\E s \in StartStates : Start(s))
  /\ WF_vars(Tick)
  /\ WF_vars(Resolves \/ Rejects)
  /\ WF_vars(WaitEnds)

-----------------------------------------------------------------------------
(* Properties *)

Commands == [register : Registers, value : {"on", "off"}] \cup {ReadAlarm}

\* Every variable keeps its type.
TypeOK ==
  /\ started \in BOOLEAN
  /\ state \in States
  /\ recentState \in States \cup {"undefined"}
  /\ desiredState \in States \cup {"undefined"}
  /\ setPointTemp \in BOOLEAN
  /\ pc \in {"idle", "setup", "alarm", "start", "wait", "started", "lower", "adjust", "end"}
  /\ todo \in Seq(Commands)
  /\ registers \in [Registers -> {"on", "off"}]
  /\ supplyTemp \in {"cool", "hot"}
  /\ condensorOut \in {"cool", "57", "58.5"}
  /\ running \in BOOLEAN
  /\ up \in BOOLEAN
  /\ overheated \in BOOLEAN

Settled(s) == state = s /\ recentState = s

\* The machine takes a state for set up (recentState = state) only when it is:
\* at rest every register has been told the values of rest, by this set-up or
\* a write since, and when it heats there is a set point to follow. A write
\* that failed in the middle has the set-up done again, whatever came between.
SetUpDone ==
  /\ \A s \in Resting : Settled(s) => \A r \in Registers : registers[r] = "off"
  /\ \A s \in Heating : Settled(s) => setPointTemp

\* No handler stays under way for ever: the timer would be ignored from then
\* on (_inProgressSince), and no mode would be obeyed any more.
HandlerEnds == (pc # "idle") ~> (pc = "idle")

\* Nothing keeps the machine from the mode m.
Favourable(m) ==
  up /\ (m # "off" => running /\ supplyTemp = "cool" /\ condensorOut = "cool")

\* A mode that stays desired is reached, and kept, once nothing keeps the
\* machine from it any more: out of every state, after any failures.
DesiredReached ==
  \A m \in Modes : <>[](desiredState = m /\ Favourable(m)) => <>[]Settled(m)

\* "Temperature ... reached, switch to OFF": when the condensor has reached the
\* limit, the heat pump is told the values of rest before it heats again.
SwitchedOff ==
  [][overheated /\ state = "off" /\ state' # "off" => recentState = "off"]_vars
=============================================================================
