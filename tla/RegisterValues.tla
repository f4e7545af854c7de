--------------------------- MODULE RegisterValues ---------------------------
(***************************************************************************)
(* What a register value goes through between a caller of class Nibe1155   *)
(* and the heat pump: limits and scale of the write methods, the offset of *)
(* negative numbers, the request the factory builds, the words of the      *)
(* answer, and what Nibe1155Value and the read methods make of them.       *)
(*                                                                         *)
(* A value is counted in tenths of its unit.  A number of 32 bits is the   *)
(* pair << h, l >>, which stands for 2^16 * h + l.                         *)
(***************************************************************************)
EXTENDS Integers, SequencesExt

-----------------------------------------------------------------------------
(* The register table: size and factor of a register.                       *)

CurvePoints ==
  { "ownHeatCurveP1", "ownHeatCurveP2", "ownHeatCurveP3", "ownHeatCurveP4",
    "ownHeatCurveP5", "ownHeatCurveP6", "ownHeatCurveP7" }

Registers8 == [
  unsigned |-> { "compressorState", "supplyPumpState", "brinePumpState", "supplyPumpSpeed",
                 "brinePumpSpeed", "alarmReset", "regMaxSupplyDiff", "operationalMode",
                 "supplyPumpMode", "brinePumpMode", "allowAdditiveHeating", "allowHeating",
                 "cutOffFrequStart1", "cutOffFrequStart2", "cutOffFrequStop1", "cutOffFrequStop2" },
  signed   |-> CurvePoints \cup { "heatCurveS1", "heatOffsetS1", "cutOffFrequActivated1",
                                  "cutOffFrequActivated2" }]

Registers16 == [
  unsigned |-> { "compressorFrequency", "compressorInPower", "compFrequTarget", "addHeatingFuse" },
  signed   |-> { "supplyS1Temp", "supplyReturnTemp", "brineInTemp", "brineOutTemp",
                 "condensorOutTemp", "hotGasTemp", "liquidLineTemp", "suctionTemp", "supplyTemp",
                 "degreeMinutes", "calcSupplyTemp", "electricHeaterPower", "outdoorTemp",
                 "roomTemp", "outdoorTempAverage", "compPower10Min", "alarm", "supplyMinS1",
                 "supplyMaxS1", "regMinCompFrequ", "regMaxCompFrequ", "dmStartHeating",
                 "addHeatingStep", "addHeatingMaxPower", "stopTempHeating", "stopTempAddHeating",
                 "dmDiffStartAddHeating" }]

Registers32 == [
  unsigned |-> { "currentL1", "currentL2", "currentL3", "energyCompAndElHeater",
                 "energyCompressor" },
  signed   |-> { "compNumberOfStarts", "compTotalOperationTime" }]

SizeOf(reg) ==
  CASE reg \in Registers8.unsigned  -> "u8"
    [] reg \in Registers8.signed    -> "s8"
    [] reg \in Registers16.unsigned -> "u16"
    [] reg \in Registers16.signed   -> "s16"
    [] reg \in Registers32.unsigned -> "u32"
    [] reg \in Registers32.signed   -> "s32"

Registers ==
  UNION { r.unsigned \cup r.signed : r \in { Registers8, Registers16, Registers32 } }

\* The tenths of a unit in one step of the register: 10 divided by its factor.
Step(reg) ==
  CASE reg \in { "electricHeaterPower", "compressorInPower", "addHeatingMaxPower" } -> 100
    [] reg \in { "compressorFrequency", "regMaxSupplyDiff", "degreeMinutes", "supplyMinS1",
                 "supplyMaxS1", "stopTempHeating", "stopTempAddHeating" }
               \cup (Registers32.unsigned)
               \cup { "supplyS1Temp", "supplyReturnTemp", "brineInTemp", "brineOutTemp",
                      "condensorOutTemp", "hotGasTemp", "liquidLineTemp", "suctionTemp",
                      "supplyTemp", "calcSupplyTemp", "outdoorTemp", "roomTemp",
                      "outdoorTempAverage" } -> 1
    [] OTHER -> 10

-----------------------------------------------------------------------------
(* The requests of ModbusRequestFactory.  A request is a sequence of bytes. *)

Refused == <<>>     \* the factory throws
SomeId == 47000     \* where the number of a register makes no difference
BytesOf(word) == << word \div 256, word % 256 >>

CreateReadHoldRegister(id, quantity) == << 1, 3 >> \o BytesOf(id) \o << 0, quantity >>

\* For an id below 0xffff. A value that is not given is undefined: no comparison
\* with it holds, and its bits are 0.
CreateWriteMultipleHoldRegisters(id, quantity, values) ==
  LET value(i) == IF i \in DOMAIN values THEN values[i] ELSE 0
  IN  IF \E i \in 1 .. quantity : value(i) < 0 \/ value(i) >= 65535 THEN Refused
      ELSE << 1, 16 >> \o BytesOf(id) \o BytesOf(quantity) \o << 2 * quantity >>
             \o FlattenSeq([i \in 1 .. quantity |-> BytesOf(value(i))])

Quantity(size) == IF size \in { "u32", "s32" } THEN 2 ELSE 1

\* Mutant: a negative s8 becomes a number of 16 bits.
WriteRegisterNowWide(id, value, size) ==
  CreateWriteMultipleHoldRegisters(id, Quantity(size),
    << IF size \in { "s8", "s16" } /\ value < 0 THEN value + 32768 ELSE value >>)

\* The request of writeRegisterNow(). A negative s32 leaves the range of a word with
\* any offset, and is refused without it.
WriteRegisterNow(id, value, size) ==
  LET offset == CASE size = "s8" -> 256 [] size = "s16" -> 65536 [] OTHER -> 0
  IN  CreateWriteMultipleHoldRegisters(id, Quantity(size),
        << IF value < 0 THEN value + offset ELSE value >>)

-----------------------------------------------------------------------------
(* The heat pump keeps the bytes a request writes, and answers a read with  *)
(* the address, the function, the number of bytes, and the bytes.           *)

Kept(request) == SubSeq(request, 8, Len(request))
Answer(bytes) == << 1, 3, Len(bytes) >> \o bytes

-----------------------------------------------------------------------------
(* The accessors of ModbusAsciiFrame, for an index inside the buffer.       *)

TwosComplement(x, n) == IF 2 * x >= n THEN x - n ELSE x

U16At(buffer, i) == 256 * buffer[i + 1] + buffer[i + 2]
U32At(buffer, i) ==
  << 256 * buffer[i + 3] + buffer[i + 4], 256 * buffer[i + 1] + buffer[i + 2] >>

ValueAt(buffer, i, type) ==
  CASE type = "u8"  -> buffer[i + 2]
    [] type = "s8"  -> TwosComplement(buffer[i + 2], 256)
    [] type = "u16" -> U16At(buffer, i)
    [] type = "s16" -> TwosComplement(U16At(buffer, i), 65536)
    [] type = "u32" -> U32At(buffer, i)
    [] type = "s32" -> << TwosComplement(U32At(buffer, i)[1], 65536), U32At(buffer, i)[2] >>

\* Mutant: the sign of a byte is looked for in the whole word.
SetRawValueUnmasked(raw, size) ==
  CASE size = "u8"  -> raw % 256
    [] size = "s8"  -> TwosComplement(raw, 256)
    [] size = "u16" -> raw
    [] size = "s16" -> TwosComplement(raw, 65536)
    [] size \in { "u32", "s32" } -> << TwosComplement(raw[1], 65536), raw[2] >>

\* The number Nibe1155Value.setRawValue() divides by the factor. JavaScript makes
\* the bits of `value & 0xffffffff` a signed number, for u32 too.
SetRawValue(raw, size) ==
  CASE size = "u8"  -> raw % 256
    [] size = "s8"  -> TwosComplement(raw % 256, 256)
    [] size = "u16" -> raw
    [] size = "s16" -> TwosComplement(raw, 65536)
    [] size \in { "u32", "s32" } -> << TwosComplement(raw[1], 65536), raw[2] >>

\* ... and what parseModbusResponse() hands it of the answer to one register.
ParseModbusResponse(response, size) ==
  SetRawValue(IF Quantity(size) = 2 THEN U32At(response, 3) ELSE U16At(response, 3), size)

-----------------------------------------------------------------------------
(* The methods that write numbers.  `limits` stand in the order in which the *)
(* method applies them; `scale` says how many hundredths of a step of the    *)
(* register one tenth of the argument is; two methods do not round.          *)

AtLeast(x) == [least |-> TRUE, bound |-> x]
AtMost(x) == [least |-> FALSE, bound |-> x]
Within(x, y) == << AtLeast(x), AtMost(y) >>

Limited(x, limits) ==
  FoldLeft(LAMBDA y, s : IF (y < 100 * s.bound) = s.least THEN 100 * s.bound ELSE y, x, limits)

Writes(reg, scale, limits) ==
  [reg |-> reg, scale |-> scale, limits |-> limits, rounds |-> TRUE]
WritesUnrounded(reg, scale, limits) ==
  [reg |-> reg, scale |-> scale, limits |-> limits, rounds |-> FALSE]

HeatWriters ==
  { Writes("degreeMinutes", 100, Within(-30000, 30000)),
    WritesUnrounded("heatCurveS1", 10, Within(0, 15)),
    WritesUnrounded("heatOffsetS1", 10, Within(-10, 10)),
    Writes("supplyMinS1", 100, Within(50, 700)),
    Writes("supplyMaxS1", 100, Within(50, 800)),
    Writes("regMaxSupplyDiff", 100, << AtMost(0) >>),
    Writes("regMinCompFrequ", 10, << AtMost(17), AtLeast(90) >>),
    Writes("regMaxCompFrequ", 10, << AtMost(20), AtLeast(120) >>) }
  \cup { Writes(p, 10, Within(5, 80)) : p \in CurvePoints }

LimitWriters ==
  { Writes("dmStartHeating", 10, Within(-1000, 30)),
    Writes("addHeatingStep", 10, Within(-32768, 32767)),
    Writes("addHeatingMaxPower", 1, Within(0, 600)),
    Writes("addHeatingFuse", 10, Within(0, 400)),
    Writes("stopTempHeating", 100, Within(-200, 400)),
    Writes("stopTempAddHeating", 100, Within(-250, 400)),
    Writes("dmDiffStartAddHeating", 10, Within(100, 400)) }
  \cup { Writes(r, 10, Within(17, 115)) : r \in { "cutOffFrequStart1", "cutOffFrequStart2" } }
  \cup { Writes(r, 10, Within(22, 120)) : r \in { "cutOffFrequStop1", "cutOffFrequStop2" } }

\* The number a method hands to writeRegister(); the two that do not round leave
\* that to the bit operations of the factory, which cut.
RawOf(writer, argument) ==
  LET x == Limited(argument * writer.scale, writer.limits)
  IN  (IF writer.rounds THEN x + 50 ELSE x) \div 100

\* The methods that read numbers: the value of the register, whatever it is.
ReadNumber(reg, response) == ParseModbusResponse(response, SizeOf(reg)) * Step(reg)

-----------------------------------------------------------------------------
(* The methods that write and read modes and switches.                      *)

OperationMode == [auto |-> 0, manual |-> 1, add_heat_only |-> 2]
PumpMode == [intermittent |-> 10, continous |-> 20, economy |-> 30, auto |-> 40]

\* What the method that reads a mode returns for x, or "throws".
ReadOperationMode(x) ==
  CASE x = 0 -> "auto" [] x = 1 -> "manual" [] x = 2 -> "add_heat_only" [] OTHER -> "throws"
ReadPumpMode(x) ==
  CASE x = 10 -> "intermittent" [] x = 20 -> "continous" [] x = 30 -> "economy"
    [] x = 40 -> "auto" [] OTHER -> "throws"

\* What valueAsString() shows of it.
OperationModeText(x) ==
  CASE x = 0 -> "auto" [] x = 1 -> "manual" [] x = 2 -> "add_heat_only" [] OTHER -> "Error"
PumpModeText(x) ==
  CASE x = 10 -> "intermittent" [] x = 20 -> "continous" [] x = 30 -> "economy"
    [] x = 40 -> "auto" [] OTHER -> "Error"

WriteSwitch(on) == IF on THEN 1 ELSE 0

\* The two methods for cutOffFrequActivated take 0 for "activated".
ReadSwitch(reg, x) ==
  CASE reg \in { "cutOffFrequActivated1", "cutOffFrequActivated2" } /\ x = 0 -> TRUE
    [] reg \in { "cutOffFrequActivated1", "cutOffFrequActivated2" } /\ x = 1 -> FALSE
    [] reg \in { "allowHeating", "allowAdditiveHeating" } /\ x \in { 0, 1 } -> x = 1
    [] OTHER -> "throws"
=============================================================================
