----------------------------- MODULE Statistics -----------------------------
(***************************************************************************)
(* Class Statistics: every poll hands it a record of the LOG.SET values,   *)
(* every read of another register a single value; a timer ends the slot,   *)
(* makes a line of it and appends the line to a CSV file.  The appends are *)
(* asynchronous, and nothing keeps a second one from starting.             *)
(***************************************************************************)
EXTENDS Integers, FiniteSets, SequencesExt

CONSTANTS
  Numbers,    \* what a register may hold
  NaN,        \* the value of a register that has never been read
  Null,       \* null, undefined
  MaxSlots    \* bound: the time slots whose lines are modelled

ASSUME HeaderAssumption ==
  /\ MaxSlots \in Nat
  /\ Numbers \subseteq Int /\ Null \notin Numbers
  /\ NaN \notin Int /\ NaN \notin Int \X Int

Kinds == { "record", "minMax", "single" }

\* CSVHEADER: records count and have dates, of a minMax item the extremes and the mean
\* are shown, of a single one the last value and its date.
Items(kind, ids) == [i \in DOMAIN ids |-> [id |-> ids[i], kind |-> kind]]

RecordIds == << "cnt", "first-time", "last-time" >>

MinMaxIds ==
  << "calcSupplyTemp", "supplyTemp", "degreeMinutes", "brinePumpSpeed", "supplyPumpSpeed",
     "compressorFrequency", "compressorInPower", "electricHeaterPower", "supplyS1Temp",
     "supplyReturnTemp", "brineInTemp", "brineOutTemp", "condensorOutTemp", "hotGasTemp",
     "liquidLineTemp", "suctionTemp", "compressorState", "supplyPumpState", "brinePumpState" >>

SingleIds ==
  << "outdoorTemp", "roomTemp", "outdoorTempAverage", "heatCurveS1", "supplyMinS1",
     "supplyMaxS1", "heatOffsetS1", "energyCompAndElHeater", "energyCompressor", "alarm",
     "operationalMode", "supplyPumpMode", "brinePumpMode", "cutOffFrequActivated1",
     "cutOffFrequActivated2", "cutOffFrequStart1", "cutOffFrequStop1", "cutOffFrequStart2",
     "cutOffFrequStop2", "compNumberOfStarts", "compTotalOperationTime", "regMaxSupplyDiff",
     "regMinCompFrequ", "regMaxCompFrequ", "dmStartHeating", "dmDiffStartAddHeating",
     "addHeatingStep", "addHeatingMaxPower", "allowAdditiveHeating", "allowHeating",
     "stopTempHeating", "stopTempAddHeating" >>

Header ==
  Items("record", RecordIds) \o Items("minMax", MinMaxIds) \o Items("single", SingleIds)

Ids == [kind \in Kinds |->
          { Header[i].id : i \in { j \in DOMAIN Header : Header[j].kind = kind } }]

HeaderLine == 0     \* in the file, where the line of a slot is its number

VARIABLES
  current,       \* _current
  recordCount,   \* _handleMonitorRecordCount
  singles,       \* the object of single values, shared by all records
  slot,          \* the number of the slot, one more than _history.length
  lines,         \* _writeFileLines
  appends,       \* the appends to the file that have been started and not ended
  file,          \* the lines of the file
  inputs,        \* the records handed over in this slot
  overlapped     \* two appends have been under way at once, or one has failed

statistics ==
  << current, recordCount, singles, slot, lines, appends, file, inputs, overlapped >>

-----------------------------------------------------------------------------
(* One record. An average is a fraction << n, d >>.                         *)

\* An entry of _minMaxValues; Null is no record.
Summary ==
  [id : { Header[i].id : i \in DOMAIN Header },
   min : Int \cup { NaN }, avg : (Int \X Int) \cup { NaN }, max : Int \cup { NaN }]

ASSUME RecordAssumption == Null \notin [count : Nat, minMax : Seq(Summary)]

NoSummary(id) == [id |-> id, min |-> NaN, avg |-> NaN, max |-> NaN]

\* The items of a kind before item i, by which the offsets are counted down.
Before(i, kind) == Cardinality({ j \in 1 .. i - 1 : Header[j].kind = kind })

\* _minMaxValues lists the items that are not of the record, the single values too.
NewRecord ==
  LET items == { i \in DOMAIN Header : Header[i].kind # "record" }
      item(k) == CHOOSE i \in items : i - Before(i, "record") = k
  IN  [count |-> 0,
       minMax |-> [k \in 1 .. Cardinality(items) |-> NoSummary(Header[item(k)].id)]]

CalcMinimum(min, x) == IF min = NaN \/ (x # NaN /\ x < min) THEN x ELSE min
CalcMaximum(max, x) == IF max = NaN \/ (x # NaN /\ x > max) THEN x ELSE max

\* Mutant: the number of records before this one is counted with it.
CalcAverageOver(avg, count, x) ==
  CASE x = NaN -> NaN
    [] x # NaN /\ avg = NaN -> << x, 1 >>
    [] OTHER -> << avg[1] * (count + 1) + x * avg[2], avg[2] * (count + 1) >>

\* A value that is no number makes the average none; the next one starts it again.
CalcAverage(avg, count, x) ==
  CASE x = NaN -> NaN
    [] x # NaN /\ avg = NaN -> << x, 1 >>
    [] OTHER -> << avg[1] * count + x * avg[2], avg[2] * (count + 1) >>

HandleValue(v, count, x) ==
  [v EXCEPT !.min = CalcMinimum(@, x), !.max = CalcMaximum(@, x),
            !.avg = CalcAverage(@, count, x)]

\* The column suctionTemp is given the value of another register.
ValueFor(id, record) == record[IF id = "suctionTemp" THEN "liquidLineTemp" ELSE id]

AddMonitorRecord(r, record) ==
  [count |-> r.count + 1,
   minMax |-> [i \in DOMAIN r.minMax |->
                 IF r.minMax[i].id \in Ids["minMax"]
                 THEN HandleValue(r.minMax[i], r.count, ValueFor(r.minMax[i].id, record))
                 ELSE r.minMax[i]]]

-----------------------------------------------------------------------------
(* The cells of the header and of a line, item by item. A cell of the       *)
(* header says what the column shows.                                       *)

HeaderCells(h) ==
  CASE h.kind = "record" -> << << h.id, "record" >> >>
    [] h.kind = "single" -> << << h.id, "value" >>, << h.id, "date" >> >>
    [] h.kind = "minMax" -> << << h.id, "min" >>, << h.id, "avg" >>, << h.id, "max" >> >>

ToHeader == [i \in DOMAIN Header |-> HeaderCells(Header[i])]

\* Where toLine() looks for the summary of item i.
IndexOf == [i \in DOMAIN Header |-> i - Before(i, "record") - 2 * Before(i, "single")]

\* The date of a single value is left out, and firstAt and lastAt of a record.
LineCells(r, i) ==
  LET h == Header[i]
      v == r.minMax[IndexOf[i]]
  IN  CASE h.kind = "record" -> << IF h.id = "cnt" THEN r.count ELSE Null >>
        [] h.kind = "single" -> << IF singles[h.id] = Null THEN 0 ELSE singles[h.id], Null >>
        [] h.kind = "minMax" /\ v.id # h.id -> << Null, Null, Null >>     \* ERR
        [] h.kind = "minMax" /\ v.id = h.id -> << v.min, v.avg, v.max >>

ToLine(r) == [i \in DOMAIN Header |-> LineCells(r, i)]

-----------------------------------------------------------------------------
StatisticsInit ==
  /\ current = Null /\ recordCount = 0
  /\ singles = [id \in Ids["single"] |-> Null]
  /\ slot = 1 /\ lines = <<>> /\ appends = <<>> /\ file = <<>>
  /\ inputs = <<>> /\ overlapped = FALSE

Current == IF current = Null THEN NewRecord ELSE current

HandleMonitorRecord(record) ==
  /\ current' = AddMonitorRecord(Current, record)
  /\ recordCount' = recordCount + 1
  /\ inputs' = Append(inputs, record)

\* A single value is kept until the next one of its register, over all slots.
HandleSingleValue(id, value) ==
  singles' = IF value = NaN THEN singles ELSE [singles EXCEPT ![id] = value]

\* Mutant: the header is written with every line.
WriteToFileHeaded(l, running) ==
  IF l = <<>> THEN lines' = l /\ appends' = running
  ELSE lines' = Tail(l) /\ appends' = Append(running, << HeaderLine, Head(l) >>)

\* writeToFile() with the lines l: it takes the first one and starts to append it,
\* with a header when there is no file yet.
WriteToFile(l, running) ==
  IF l = <<>> THEN lines' = l /\ appends' = running
  ELSE /\ lines' = Tail(l)
       /\ appends' = Append(running,
                       IF file = <<>> THEN << HeaderLine, Head(l) >> ELSE << Head(l) >>)

\* handleTimer(): a slot without a record goes on.
HandleTimer ==
  /\ slot <= MaxSlots
  /\ IF recordCount = 0 THEN UNCHANGED << lines, appends, current, recordCount, slot, inputs >>
     ELSE /\ recordCount' = 0
          /\ LET l == Append(lines, slot)
             IN  IF Len(l) = 1 THEN WriteToFile(l, appends) ELSE lines' = l /\ UNCHANGED appends
          /\ current' = NewRecord /\ slot' = slot + 1 /\ inputs' = <<>>
  /\ overlapped' = (overlapped \/ Len(appends') > 1)
  /\ UNCHANGED << singles, file >>

\* An append ends, in any order, maybe with an error, and its callback runs.
AppendEnds(i, ok) ==
  /\ file' = IF ok THEN file \o appends[i] ELSE file
  /\ overlapped' = (overlapped \/ ~ok)
  /\ WriteToFile(lines, RemoveAt(appends, i))
  /\ UNCHANGED << current, recordCount, singles, slot, inputs >>

-----------------------------------------------------------------------------
\* The text of a file after the appends to it, taken in the order they were started.
Joined(text, started) == FoldLeft(LAMBDA t, a : t \o a, text, started)

\* The values of a register in the records of this slot, the numbers among them, and a sum.
ValuesOf(id) == [i \in DOMAIN inputs |-> inputs[i][id]]
NumbersOf(id) == { ValuesOf(id)[i] : i \in DOMAIN inputs } \ { NaN }
SumOf(xs) == FoldLeft(LAMBDA s, x : s + x, 0, xs)

\* What a column should show of the records and single values handed over.
Shows(cell, column) ==
  LET id == column[1]
      xs == NumbersOf(id)
  IN  CASE column[2] = "record" -> id = "cnt" => cell = Len(inputs)
        [] column[2] = "value"  -> cell = IF singles[id] = Null THEN 0 ELSE singles[id]
        [] column[2] = "date"   -> TRUE
        [] OTHER ->
             IF xs = {} THEN cell = NaN
             ELSE CASE column[2] = "min" -> cell \in xs /\ \A x \in xs : cell <= x
                    [] column[2] = "max" -> cell \in xs /\ \A x \in xs : x <= cell
                    [] column[2] = "avg" ->
                         /\ \E x, y \in xs : x * cell[2] <= cell[1] /\ cell[1] <= y * cell[2]
                         /\ (\A i \in DOMAIN inputs : ValuesOf(id)[i] # NaN) =>
                              cell[1] * Len(inputs) = cell[2] * SumOf(ValuesOf(id))

\* Whenever the timer may end the slot there is a record with a date (firstAt is not
\* null), and the line made of it shows in every column what the header of the column
\* says: the extremes and the mean of the records of this slot, the last single value.
\* Two exceptions are bugs: suctionTemp shows another register, and a mean over records
\* of which the first ones had no value has wrong weights (handleTimer(), toLine()).
LineIsRight ==
  recordCount > 0 =>
    LET line == ToLine(current)
    IN  /\ current # Null /\ current.count = recordCount
        /\ \A i \in DOMAIN ToHeader :
             /\ Len(line[i]) = Len(ToHeader[i])
             /\ \A k \in DOMAIN ToHeader[i] :
                  ToHeader[i][k][1] = "suctionTemp" \/ Shows(line[i][k], ToHeader[i][k])

\* No line is lost in the queue or written twice; and as long as every append has ended
\* well before the next one starts, the file is one header and the lines of all slots in
\* their order (writeToCsvFile(), writeToFile()).
FileIsRight ==
  /\ lines = <<>>
  /\ LET text == Joined(file, appends)
     IN  /\ \A i, j \in DOMAIN text : i # j /\ text[i] = text[j] => text[i] = HeaderLine
         /\ ~overlapped => text = IF slot = 1 THEN <<>>
                                  ELSE << HeaderLine >> \o [i \in 1 .. slot - 1 |-> i]
=============================================================================
