------------------------------ MODULE HeatAssist ------------------------------
(***************************************************************************)
(* PoolLogicModule, heat assist: the temperature of the pool is known only *)
(* while water circulates.  A filtration that is off is started now and    *)
(* then for a probe; cold water hands the probe over to heating, until the *)
(* set point is reached.  Times are kept in 16 bits of seconds, and a zero *)
(* stands for "never".                                                     *)
(*                                                                         *)
(* The loop runs once in a tick and writes what it decided; the filtration *)
(* follows, unless a forced lease or a limit holds it back, and the heater *)
(* follows under filtration.  Surroundings change once in a tick.          *)
(*                                                                         *)
(* The operators that no action uses (Signed, AnyWater, AsBefore, Ever)    *)
(* are mistakes easily made here, kept beside the definition they would    *)
(* replace: each breaks a property below.                                  *)
(***************************************************************************)
EXTENDS Integers

CONSTANTS
    ProbeRun,          \* kHeatAssistProbeRunSec
    Intervals,         \* measurement intervals that the outdoor temperature may ask for
    Fallback,          \* kHeatAssistAdaptiveFallbackMin
    SecRange,          \* values of a time
    MaxHeatMoves       \* bound on what happens to the surroundings

ASSUME HeatAssumption ==
    /\ {ProbeRun, Fallback, SecRange} \subseteq Nat \ {0} /\ MaxHeatMoves \in Nat
    /\ Intervals \subseteq Nat /\ \A i \in Intervals \cup {Fallback} : ProbeRun < i /\ i < SecRange

VARIABLES
    nowSec,
    mode,              \* what the modes and the alarms leave to heat assist
    water,             \* its fresh temperature: below, between or above the thresholds
    filtrationBase,    \* filtrationDesiredBase
    held,              \* the filtration is kept off, whatever the loop wants
    circulating,       \* as the loop has seen it: 0 off, else one more than the ticks since
    flowing,           \* history: the same, from the true start
    filtrationWanted, heaterWanted, heaterOn,
    probeRunning, heatingActive, probeStartSec, lastProbeEndSec,
    waterTempValid,    \* heatAssistValidatedWaterTempValid_
    intervalMin,       \* heatAssistIntervalMin_
    heatLooped,        \* the loop has run in this tick
    stagnant,          \* history: the validated temperature is of water that did not flow
    everHeld,          \* history
    idleFor,           \* history: ticks that a probe has been waited for
    heatMoves

session  == <<probeRunning, heatingActive, probeStartSec>>
surround == <<mode, water, filtrationBase, held>>
heatVars == <<nowSec, surround, circulating, flowing, filtrationWanted, heaterWanted, heaterOn,
              session, lastProbeEndSec, waterTempValid, intervalMin, heatLooped, stagnant,
              everHeld, idleFor, heatMoves>>

Underway     == ProbeRun + 1
UpTo(x)      == IF x < Underway THEN x ELSE Underway
Modes        == {"Auto", "Disabled", "Manual", "Blocked"}
Temperatures == {"Unknown", "Cold", "Between", "Hot"}
-----------------------------------------------------------------------------
(* What the loop knows before it decides.                                  *)
Signed(past) == nowSec - past

elapsedSecSince(past) == (nowSec - past) % SecRange

Ever == IF flowing = 0 THEN 0 ELSE circulating + 1

Circulating == IF flowing = 0 THEN 0 ELSE UpTo(circulating + 1)

AnyWater == mode # "Disabled" /\ Circulating > 0 /\ water # "Unknown"

recordedUnderFlow == mode # "Disabled" /\ Circulating = Underway /\ water # "Unknown"

(* A measurement under flow is the origin of the next interval.            *)
LastEnd == IF recordedUnderFlow THEN nowSec ELSE lastProbeEndSec

(* The interval follows the outdoor temperature, once the water is known.  *)
Measured(recorded) ==
    /\ waterTempValid' = (waterTempValid \/ recorded)
    /\ stagnant' = IF recorded THEN flowing <= ProbeRun ELSE stagnant
    /\ intervalMin' \in {Fallback} \cup (IF waterTempValid' THEN Intervals ELSE {})

Session(probing, heating, start) ==
    probeRunning' = probing /\ heatingActive' = heating /\ probeStartSec' = start

(* The loop writes its targets and the devices follow.                     *)
Targets(filtrating, heater) ==
    /\ heatLooped' = TRUE /\ circulating' = Circulating
    /\ filtrationWanted' = filtrating /\ heaterWanted' = heater
    /\ flowing' = IF filtrating /\ ~held THEN (IF flowing = 0 THEN 1 ELSE flowing) ELSE 0
    /\ heaterOn' = (heater /\ flowing' > 0)
    /\ UNCHANGED <<nowSec, surround, everHeld, heatMoves>>
-----------------------------------------------------------------------------
(* Not in automatic mode: the session is forgotten, the heater is kept as  *)
(* it was or, by an alarm or without a set point, stopped.                 *)
StandDown ==
    /\ mode # "Auto" /\ Session(FALSE, FALSE, 0)
    /\ IF mode = "Disabled"
       THEN lastProbeEndSec' = 0 /\ waterTempValid' = FALSE /\ intervalMin' = Fallback
            /\ UNCHANGED stagnant
       ELSE lastProbeEndSec' = LastEnd /\ Measured(recordedUnderFlow)
    /\ Targets(filtrationBase, mode # "Blocked" /\ heaterWanted) /\ idleFor' = 0

KeepHeating ==
    /\ mode = "Auto" /\ heatingActive /\ water # "Hot"
    /\ Measured(recordedUnderFlow) /\ lastProbeEndSec' = LastEnd
    /\ Targets(TRUE, water # "Unknown") /\ idleFor' = 0 /\ UNCHANGED session

EndHeating ==
    /\ mode = "Auto" /\ heatingActive /\ water = "Hot"
    /\ Measured(recordedUnderFlow) /\ Session(FALSE, FALSE, 0) /\ lastProbeEndSec' = nowSec
    /\ Targets(filtrationBase, FALSE) /\ idleFor' = 0

KeepProbing ==
    /\ mode = "Auto" /\ ~heatingActive /\ probeRunning
    /\ elapsedSecSince(probeStartSec) < ProbeRun
    /\ Measured(recordedUnderFlow) /\ lastProbeEndSec' = LastEnd
    /\ Targets(TRUE, FALSE) /\ idleFor' = 0 /\ UNCHANGED session

(* The probe is over by the clock.  Whether the water flowed is not asked. *)
EndProbe ==
    /\ mode = "Auto" /\ ~heatingActive /\ probeRunning
    /\ elapsedSecSince(probeStartSec) >= ProbeRun
    /\ Measured(recordedUnderFlow \/ water # "Unknown") /\ Session(FALSE, water = "Cold", 0)
    /\ lastProbeEndSec' = IF water = "Cold" THEN LastEnd ELSE nowSec
    /\ Targets(filtrationBase \/ water = "Cold", water = "Cold") /\ idleFor' = 0

(* The filtration runs, or is about to: the heater follows the measured    *)
(* water, and a filtration that ends is handed over to the heating.        *)
FollowsWater ==
    recordedUnderFlow /\ IF heaterWanted THEN water # "Hot" ELSE water = "Cold"

AsBefore == filtrationBase

HandedOver == filtrationBase \/ FollowsWater

Circulate ==
    /\ mode = "Auto" /\ ~heatingActive /\ ~probeRunning /\ (Circulating > 0 \/ filtrationBase)
    /\ Measured(recordedUnderFlow)
    /\ lastProbeEndSec' = IF water = "Unknown" /\ Circulating > 0 /\ ~filtrationBase
                          THEN nowSec ELSE LastEnd
    /\ Session(FALSE, FollowsWater, probeStartSec)
    /\ Targets(HandedOver, FollowsWater) /\ idleFor' = 0

(* The filtration is off: a probe starts when it is due.                   *)
dueForProbe(interval) ==
    lastProbeEndSec = 0 \/ elapsedSecSince(lastProbeEndSec) >= interval - ProbeRun

Idling ==
    /\ mode = "Auto" /\ ~heatingActive /\ ~probeRunning /\ Circulating = 0 /\ ~filtrationBase
    /\ Measured(FALSE) /\ UNCHANGED lastProbeEndSec
    /\ IF dueForProbe(intervalMin')
       THEN Session(TRUE, FALSE, nowSec) /\ Targets(TRUE, FALSE) /\ idleFor' = 0
       ELSE Targets(FALSE, FALSE) /\ idleFor' = idleFor + 1 /\ UNCHANGED session

HeatLoop ==
    /\ ~heatLooped
    /\ \/ StandDown \/ KeepHeating \/ EndHeating \/ KeepProbing \/ EndProbe
       \/ Circulate \/ Idling
-----------------------------------------------------------------------------
(* A tick passes, and one of the surroundings may change with it.          *)
Surroundings ==
    \/ UNCHANGED <<surround, heatMoves>>
    \/ /\ heatMoves < MaxHeatMoves /\ heatMoves' = heatMoves + 1
       /\ \/ mode' \in Modes /\ UNCHANGED <<water, filtrationBase, held>>
          \/ water' \in Temperatures /\ UNCHANGED <<mode, filtrationBase, held>>
          \/ filtrationBase' = ~filtrationBase /\ UNCHANGED <<mode, water, held>>
          \/ held' = ~held /\ UNCHANGED <<mode, water, filtrationBase>>

HeatTick ==
    /\ heatLooped /\ heatLooped' = FALSE /\ Surroundings
    /\ nowSec' = (nowSec + 1) % SecRange /\ everHeld' = (everHeld \/ held')
    /\ flowing' = IF held' THEN 0
                  ELSE IF flowing > 0 THEN UpTo(flowing + 1)
                  ELSE IF filtrationWanted THEN 1 ELSE 0
    /\ heaterOn' = (heaterWanted /\ flowing' > 0)
    /\ UNCHANGED <<circulating, filtrationWanted, heaterWanted, session, lastProbeEndSec,
                   waterTempValid, intervalMin, stagnant, idleFor>>

HeatInit ==
    /\ nowSec = 0 /\ mode \in {"Auto", "Disabled"} /\ water = "Unknown"
    /\ filtrationBase = FALSE /\ held = FALSE /\ circulating = 0 /\ flowing = 0
    /\ filtrationWanted = FALSE /\ heaterWanted = FALSE /\ heaterOn = FALSE
    /\ probeRunning = FALSE /\ heatingActive = FALSE
    /\ probeStartSec = 0 /\ lastProbeEndSec = 0
    /\ waterTempValid = FALSE /\ intervalMin = Fallback /\ heatLooped = FALSE
    /\ stagnant = FALSE /\ everHeld = FALSE /\ idleFor = 0 /\ heatMoves = 0

HeatNext == HeatLoop \/ HeatTick

HeatSpec == HeatInit /\ [][HeatNext]_heatVars
-----------------------------------------------------------------------------
(* The state of the protocol keeps its type.                               *)
HeatTypeOK ==
    /\ mode \in Modes /\ water \in Temperatures
    /\ {filtrationBase, held, filtrationWanted, heaterWanted, heaterOn, probeRunning,
        heatingActive, waterTempValid, heatLooped, stagnant, everHeld} \subseteq BOOLEAN
    /\ {nowSec, probeStartSec, lastProbeEndSec} \subseteq 0..(SecRange - 1)
    /\ {circulating, flowing} \subseteq 0..Underway /\ {idleFor, heatMoves} \subseteq Nat
    /\ intervalMin \in Intervals \cup {Fallback}

(* Where heat assist wants heat it wants filtration, through every change  *)
(* from a probe or a daily filtration to heating and back.                 *)
HeatsWithFiltration ==
    heatLooped /\ mode = "Auto" /\ heaterWanted => filtrationWanted /\ water # "Hot"

(* The temperature that the protocol goes by is of water that flowed for   *)
(* the time of a probe, unless the filtration has been held back.          *)
MeasuredUnderFlow == stagnant => everHeld

(* With the filtration off a probe comes within the interval, whatever the *)
(* 16 bits of the clock do.                                                *)
ProbeComes == \E i \in Intervals \cup {Fallback} : idleFor <= i - ProbeRun

(* The heat assistance: its heat with filtration, its temperature measured *)
(* under flow, its probes in time.                                         *)
HeatSound == HeatTypeOK /\ HeatsWithFiltration /\ MeasuredUnderFlow /\ ProbeComes
=============================================================================
