------------------------------- MODULE Server -------------------------------
(***************************************************************************)
(* The server once its serial port is open: the polls of Nibe1155 serve    *)
(* the actions and feed the statistics, and the timer of the statistics    *)
(* ends the time slots, in any order.  A poll is one step here; what       *)
(* happens inside it is the subject of NibePolling.                        *)
(***************************************************************************)
EXTENDS Statistics, Actions

CONSTANTS
  Scenarios,        \* what the behaviours start with: [instance, plan]
  MonitorRecords,   \* the records of LOG.SET values a poll may hand over
  MaxRecords        \* bound: the records of a time slot

\* An action sets one or more registers, each of them once.
ASSUME ServerAssumption ==
  /\ \A s \in Scenarios :
       /\ s.instance \in { "on", "disabled", "missing" }
       /\ \A a \in DOMAIN s.plan :
            /\ Len(s.plan[a]) \in Nat \ { 0 } /\ DOMAIN s.plan[a] = 1 .. Len(s.plan[a])
            /\ \A i, j \in DOMAIN s.plan[a] : s.plan[a][i].reg = s.plan[a][j].reg => i = j
  /\ MaxRecords \in Nat
  /\ MonitorRecords \subseteq [Ids["minMax"] -> Numbers \cup { NaN }]

\* The instance of Statistics: "on", "disabled" when it has no timer, or "missing".
VARIABLE instance

vars == << statistics, actions, instance >>

-----------------------------------------------------------------------------
\* doStartup() does not wait for Statistics.createInstance(): with an invalid
\* configuration the server runs without statistics.
Init ==
  /\ \E s \in Scenarios : instance = s.instance /\ plan = s.plan
  /\ StatisticsInit /\ ActionsInit

\* A register that has been read once keeps a number; it may be none in slot 1 only.
Readable(record) ==
  \A id \in DOMAIN record :
    record[id] = NaN => slot = 1 /\ \A i \in DOMAIN inputs : inputs[i][id] = NaN

\* A poll hands its record over unless writeLog() throws or there are no statistics;
\* what a disabled instance is given is never looked at.
Record ==
  \/ /\ instance = "on" /\ slot <= MaxSlots /\ Len(inputs) < MaxRecords
     /\ \E record \in MonitorRecords : Readable(record) /\ HandleMonitorRecord(record)
  \/ UNCHANGED << current, recordCount, inputs >>

\* The single value of a register that is read.
Single(reg) ==
  IF instance = "on" /\ reg \in Ids["single"]
  THEN HandleSingleValue(reg, ParseModbusResponse(Answer(held[reg]), SizeOf(reg)))
  ELSE UNCHANGED singles

\* The second part of a poll, with an access waiting ...
PollServes ==
  /\ queue # <<>>
  /\ Record
  /\ \E obeyed, answered \in BOOLEAN :
       LET a == Head(queue)
       IN  /\ Serve(obeyed, answered, instance # "missing")
           /\ IF phase[a] = "read" /\ answered
              THEN Single(plan[a][point[a]].reg) ELSE UNCHANGED singles
  /\ UNCHANGED << slot, lines, appends, file, overlapped, instance >>

\* ... and without one, when it reads a register by turns.
PollReads ==
  /\ queue = <<>>
  /\ Record
  /\ \/ \E reg \in DOMAIN held : Single(reg)
     \/ UNCHANGED singles
  /\ UNCHANGED << slot, lines, appends, file, overlapped, actions, instance >>

Timer == instance = "on" /\ HandleTimer /\ UNCHANGED << actions, instance >>

Appended ==
  /\ \E i \in DOMAIN appends, ok \in BOOLEAN : AppendEnds(i, ok)
  /\ UNCHANGED << actions, instance >>

Executed == \E a \in DOMAIN plan : Execute(a) /\ UNCHANGED << statistics, instance >>

Next == PollServes \/ PollReads \/ Timer \/ Appended \/ Executed

\* The timer of the polls runs, and every poll ends.
Spec == Init /\ [][Next]_vars /\ WF_vars(PollServes)

-----------------------------------------------------------------------------
\* What an action tells its caller is true, whatever accesses the line loses: one that
\* has finished left every register with the value it was asked for, and one that has
\* thrown tried hard enough: it lost three accesses, or the register cannot show the
\* value. Two actions on one register may undo each other's work, and without an
\* instance of Statistics nothing can be read (execute(), handlePolling()).
OutcomeRight ==
  \A a \in DOMAIN plan :
    /\ phase[a] = "finished" /\ ~Shared(a) =>
         \A i \in DOMAIN plan[a] : AsRead(plan[a][i].reg, held[plan[a][i].reg]) = plan[a][i].asked
    /\ phase[a] = "failed" =>
         \/ lost[a] = MaxTries
         \/ Shared(a)
         \/ instance = "missing"
         \/ ~Settable(plan[a][point[a]])

\* An action that is executed finishes or throws, however often accesses are lost and
\* other actions write the same register.
ActionsEnd ==
  \A a \in UNION { DOMAIN s.plan : s \in Scenarios } :
    (a \in DOMAIN plan /\ phase[a] = "write") ~>
      (a \in DOMAIN plan /\ phase[a] \in { "finished", "failed" })
=============================================================================
