------------------------------ MODULE MCServer ------------------------------
(* Constants of Server for TLC. *)
EXTENDS Server

MCNumbers == { -4, 1, 2 }

\* The values of the registers the statistics mix up, and of all the others.
TheRecord(liquid, suction, others) ==
  [id \in Ids["minMax"] |->
     CASE id = "liquidLineTemp" -> liquid [] id = "suctionTemp" -> suction [] OTHER -> others]
MCMonitorRecords ==
  { TheRecord(NaN, NaN, NaN), TheRecord(1, 1, -4), TheRecord(NaN, 1, 2), TheRecord(1, 2, 2) }

\* All seven points of a curve next to a switch, two actions on one register, values
\* no register can show: curve 20, and 20.5 degrees on the third point of the curve.
MCPlans ==
  { [curve0 |-> SetCurve0Temp(<< 200, 350 >>), on |-> SwitchHeatPumpOn],
    [on |-> SwitchHeatPumpOn, off |-> SwitchHeatPumpOff],
    [on |-> SwitchBrinePumpOn, off |-> SwitchBrinePumpOff, curve |-> SetCurve(90)],
    [curve |-> SetCurve(200), curve0 |-> SetCurve0Temp(<< 200, 300, 205 >>)] }

\* The statistics are followed next to one action whose value they show.
MCScenarios ==
  [instance : { "disabled", "missing" }, plan : MCPlans]
    \cup { [instance |-> "on", plan |-> [curve |-> SetCurve(90)]] }

ASSUME PlansAssumption ==
  Curve0TempAllowed(<< 200, 350 >>) /\ Curve0TempAllowed(<< 200, 300, 205 >>)
=============================================================================
