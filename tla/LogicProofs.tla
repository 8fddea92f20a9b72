----------------------------- MODULE LogicProofs -----------------------------
(***************************************************************************)
(* The decisions of PoolLogicModule, for any delays, windows and clocks.   *)
(***************************************************************************)
EXTENDS PoolLogic, PhDosing, HeatAssist, TLAPS

-----------------------------------------------------------------------------
(* The pH pump.                                                            *)
-----------------------------------------------------------------------------
PhFlags ==
    /\ filtering \in BOOLEAN /\ turned \in BOOLEAN /\ winterMode \in BOOLEAN
    /\ phAutoMode \in BOOLEAN /\ permitted \in BOOLEAN /\ phPidEnabled \in BOOLEAN
    /\ pidInitialized \in BOOLEAN /\ phPump \in BOOLEAN /\ announced \in BOOLEAN
    /\ starting \in BOOLEAN /\ stopping \in BOOLEAN /\ undisturbed \in BOOLEAN
    /\ phTarget \in [running : BOOLEAN, regulated : BOOLEAN]
    /\ startedBy \in {"Nobody", "Hand", "Regulation"}
    /\ phLoopAt \in {"Rest", "Decided", "Done"}

PhCounts == flow \in 0..Enough /\ runMin \in 0..Enough

(* What the loop has counted is of the present run of the filtration, and  *)
(* not ahead of it; a stop or a start that it has not seen shows.          *)
RunIsSeen ==
    /\ filtering <=> flow > 0
    /\ turned <=> SeenTurning
    /\ ~turned /\ filtering =>
           /\ runMin <= flow
           /\ phLoopAt = "Rest" => UpToEnough(runMin + 1) <= flow

(* An armed regulation has seen the whole delay, unless the filtration has *)
(* turned since.                                                           *)
ArmedInTime == phPidEnabled /\ ~turned => flow = Enough

DecidedArmed == phLoopAt = "Decided" /\ phTarget.regulated => phPidEnabled

(* The start of a hand has ended the automatic mode, or its command still  *)
(* holds the lock; neither a loop that decided otherwise nor an event that *)
(* found the mode on is about to write.                                    *)
HandStands ==
    startedBy = "Hand" =>
        /\ phPump /\ ~stopping
        /\ phAutoMode => starting
        /\ phLoopAt = "Decided" => phTarget.running

PhInv == PhFlags /\ PhCounts /\ RunIsSeen /\ ArmedInTime /\ DecidedArmed /\ HandStands

LEMMA EnoughIsCounted ==
    /\ Enough \in Nat /\ Enough > 0
    /\ \A n \in Nat : UpToEnough(n) \in 0..Enough /\ (n > 0 => UpToEnough(n) > 0)
BY PhAssumption DEF Enough, UpToEnough

LEMMA PhInvInit == PhInit => PhInv
<1> SUFFICES ASSUME PhInit PROVE PhInv
  OBVIOUS
<1>1. PhFlags
  BY DEF PhInit, PhFlags, NoTarget
<1>2. PhCounts
  BY EnoughIsCounted DEF PhInit, PhCounts
<1>3. runMin = 0 /\ ~(flow > 0)
  BY DEF PhInit
<1>4. RunIsSeen /\ ArmedInTime /\ DecidedArmed /\ HandStands
  BY <1>3, Zenon DEF PhInit, RunIsSeen, SeenTurning, ArmedInTime, DecidedArmed, HandStands
<1> QED
  BY <1>1, <1>2, <1>4 DEF PhInv

LEMMA PhFlagsNext == PhFlags /\ [PhNext]_phVars => PhFlags'
<1> SUFFICES ASSUME PhFlags, [PhNext]_phVars PROVE PhFlags'
  OBVIOUS
<1>1. ASSUME NEW desired \in BOOLEAN, NEW demand \in BOOLEAN, RegulatePh(desired, demand)
      PROVE  PhFlags'
  BY <1>1 DEF PhFlags, RegulatePh, Regulated, Armed
<1>2. CASE WritePh
  BY <1>2 DEF PhFlags, WritePh, NoTarget
<1>3. CASE onPhEvent
  <2>1. announced' \in BOOLEAN /\ stopping' \in BOOLEAN
    BY <1>3 DEF PhFlags, onPhEvent, EntersAuto
  <2>2. startedBy' \in {"Nobody", "Hand", "Regulation"}
    BY <1>3 DEF PhFlags, onPhEvent
  <2>3. UNCHANGED <<filtering, turned, winterMode, phAutoMode, permitted, phPidEnabled,
                    pidInitialized, phPump, starting, phLoopAt, phTarget, undisturbed>>
    BY <1>3 DEF onPhEvent
  <2> QED
    BY <2>1, <2>2, <2>3, ZenonT(60) DEF PhFlags
<1>3a. CASE StopPhPump
  <2>1. /\ stopping' \in BOOLEAN /\ phPump' \in BOOLEAN /\ pidInitialized' \in BOOLEAN
        /\ undisturbed' \in BOOLEAN
    BY <1>3a DEF StopPhPump
  <2>2. UNCHANGED <<filtering, turned, winterMode, phAutoMode, permitted, phPidEnabled, announced,
                    starting, phLoopAt, phTarget, startedBy>>
    BY <1>3a DEF StopPhPump
  <2> QED
    BY <2>1, <2>2, ZenonT(60) DEF PhFlags
<1>4. CASE SetPhAutoMode
  <2>1. /\ phAutoMode' = ~phAutoMode
        /\ announced' = announced \/ announced' = (announced \/ phAutoMode' # phAutoMode)
        /\ startedBy' = (IF phAutoMode THEN startedBy ELSE "Nobody") /\ undisturbed' = FALSE
        /\ UNCHANGED <<filtering, turned, winterMode, permitted, phPidEnabled, pidInitialized,
                       phPump, starting, stopping, phLoopAt, phTarget>>
    BY <1>4 DEF SetPhAutoMode, Announced
  <2>2. announced' \in BOOLEAN /\ phAutoMode' \in BOOLEAN
    BY <2>1 DEF PhFlags
  <2> QED
    BY <2>1, <2>2, ZenonT(60) DEF PhFlags
<1>5. CASE WritePump
  <2>1. /\ phPump' \in BOOLEAN /\ undisturbed' \in BOOLEAN
        /\ startedBy' \in {"Nobody", "Hand", "Regulation"}
    BY <1>5 DEF WritePump
  <2>2. UNCHANGED <<filtering, turned, winterMode, phAutoMode, permitted, phPidEnabled,
                    pidInitialized, announced, starting, stopping, phLoopAt, phTarget>>
    BY <1>5 DEF WritePump
  <2> QED
    BY <2>1, <2>2, ZenonT(60) DEF PhFlags
<1>6. ASSUME NEW v \in BOOLEAN, cmdPhPumpWrite(v)
      PROVE  PhFlags'
  <2>1. /\ phPump' \in BOOLEAN /\ starting' \in BOOLEAN /\ undisturbed' \in BOOLEAN
        /\ startedBy' \in {"Nobody", "Hand", "Regulation"}
    BY <1>6 DEF cmdPhPumpWrite
  <2>2. UNCHANGED <<filtering, turned, winterMode, phAutoMode, permitted, phPidEnabled,
                    pidInitialized, announced, stopping, phLoopAt, phTarget>>
    BY <1>6 DEF cmdPhPumpWrite
  <2> QED
    BY <2>1, <2>2, ZenonT(60) DEF PhFlags
<1>6a. CASE LeavePhAuto
  <2>1. starting' \in BOOLEAN /\ phAutoMode' \in BOOLEAN /\ undisturbed' \in BOOLEAN
    BY <1>6a DEF LeavePhAuto
  <2>2. announced' = announced \/ announced' = (announced \/ FALSE # phAutoMode)
    BY <1>6a DEF LeavePhAuto, Announced
  <2>3. announced' \in BOOLEAN
    BY <2>2 DEF PhFlags
  <2>4. UNCHANGED <<filtering, turned, winterMode, permitted, phPidEnabled, pidInitialized,
                    phPump, stopping, phLoopAt, phTarget, startedBy>>
    BY <1>6a DEF LeavePhAuto
  <2> QED
    BY <2>1, <2>3, <2>4, ZenonT(60) DEF PhFlags
<1>7. CASE FiltrationSwitches
  <2>1. turned' \in BOOLEAN /\ filtering' \in BOOLEAN /\ undisturbed' \in BOOLEAN
    BY <1>7 DEF FiltrationSwitches
  <2>2. UNCHANGED <<winterMode, phAutoMode, permitted, phPidEnabled, pidInitialized, phPump,
                    announced, starting, stopping, phLoopAt, phTarget, startedBy>>
    BY <1>7 DEF FiltrationSwitches
  <2> QED
    BY <2>1, <2>2 DEF PhFlags
<1>8. CASE PumpInterlock
  <2>1. phPump' \in BOOLEAN /\ startedBy' \in {"Nobody", "Hand", "Regulation"}
    BY <1>8 DEF PumpInterlock
  <2>2. UNCHANGED <<filtering, turned, winterMode, phAutoMode, permitted, phPidEnabled,
                    pidInitialized, announced, starting, stopping, phLoopAt, phTarget, undisturbed>>
    BY <1>8 DEF PumpInterlock
  <2> QED
    BY <2>1, <2>2, ZenonT(60) DEF PhFlags
<1>9. CASE PermissionTurns
  <2>1. permitted' \in BOOLEAN /\ winterMode' \in BOOLEAN
    BY <1>9 DEF PhFlags, PermissionTurns
  <2>2. undisturbed' \in BOOLEAN
    BY <1>9 DEF PermissionTurns
  <2>3. UNCHANGED <<filtering, turned, phAutoMode, phPidEnabled, pidInitialized, phPump,
                    announced, starting, stopping, phLoopAt, phTarget, startedBy>>
    BY <1>9 DEF PermissionTurns
  <2> QED
    BY <2>1, <2>2, <2>3, ZenonT(60) DEF PhFlags
<1>10. CASE PhTick
  BY <1>10 DEF PhFlags, PhTick
<1>11. CASE UNCHANGED phVars
  BY <1>11 DEF PhFlags, phVars
<1> QED
  BY <1>1, <1>2, <1>3, <1>3a, <1>4, <1>5, <1>6, <1>6a, <1>7, <1>8, <1>9, <1>10, <1>11 DEF PhNext

LEMMA PhInvNext == PhInv /\ [PhNext]_phVars => PhInv'
<1> SUFFICES ASSUME PhInv, [PhNext]_phVars PROVE PhInv'
  OBVIOUS
<1>f. PhFlags /\ PhFlags'
  BY PhFlagsNext DEF PhInv
<1>i. PhCounts /\ RunIsSeen /\ ArmedInTime /\ DecidedArmed /\ HandStands
  BY DEF PhInv
<1>g. PhCounts' /\ RunIsSeen' /\ ArmedInTime' /\ DecidedArmed' /\ HandStands' => PhInv'
  BY <1>f DEF PhInv
<1> DEFINE Quiet == UNCHANGED <<filtering, turned, flow, runMin, phPidEnabled>>
<1>q. ASSUME Quiet, phLoopAt' = "Rest" => phLoopAt = "Rest" PROVE PhCounts' /\ RunIsSeen' /\ ArmedInTime'
  BY <1>i, <1>q DEF PhCounts, RunIsSeen, ArmedInTime, SeenTurning
<1>1. ASSUME NEW desired \in BOOLEAN, NEW demand \in BOOLEAN, RegulatePh(desired, demand)
      PROVE  PhInv'
  <2>u. /\ phLoopAt = "Rest" /\ ~starting /\ phLoopAt' = "Decided" /\ runMin' = RunMin /\ turned' = FALSE
        /\ phPidEnabled' = Armed
        /\ phTarget' = [running |-> IF Regulated(desired) THEN demand ELSE phPump,
                        regulated |-> Regulated(desired)]
        /\ UNCHANGED <<filtering, flow, phAutoMode, phPump, starting, stopping, startedBy>>
    BY <1>1 DEF RegulatePh
  <2>1. CASE ~filtering
    <3>1. runMin' = 0 /\ flow' = 0 /\ flow = 0 /\ ~filtering'
      BY <2>1, <2>u, <1>i DEF RunMin, RunIsSeen, PhCounts
    <3>2. ~Armed
      BY <2>1 DEF Armed
    <3>3. PhCounts' /\ RunIsSeen' /\ ArmedInTime'
      <4>1. PhCounts'
        BY <3>1, EnoughIsCounted DEF PhCounts
      <4>2. ~(flow' > 0)
        BY <3>1
      <4>3. RunIsSeen' /\ ArmedInTime'
        BY <4>2, <3>1, <3>2, <2>u, Zenon DEF RunIsSeen, ArmedInTime, SeenTurning
      <4> QED
        BY <4>1, <4>3
    <3>4. DecidedArmed'
      BY <3>2, <2>u DEF DecidedArmed, Regulated
    <3>5. HandStands'
      BY <3>2, <2>u, <1>i DEF HandStands, Regulated
    <3> QED
      BY <3>3, <3>4, <3>5, <1>g
  <2>2. CASE filtering
    <3>1. runMin' = UpToEnough(runMin + 1) /\ flow' = flow /\ filtering'
      BY <2>2, <2>u DEF RunMin
    <3>2. runMin' \in 0..Enough /\ runMin' > 0 /\ flow \in 1..Enough
      BY <3>1, <2>2, <1>i, EnoughIsCounted DEF PhCounts, RunIsSeen
    <3>3. runMin' <= flow
      <4>1. CASE turned
        <5>1. runMin = 0
          BY <4>1, <2>2, <1>i, Zenon DEF RunIsSeen, SeenTurning
        <5> QED
          BY <5>1, <3>1, <3>2, <1>i, EnoughIsCounted DEF PhCounts, UpToEnough
      <4>2. CASE ~turned
        BY <4>2, <3>1, <2>u, <2>2, <1>i DEF RunIsSeen
      <4> QED
        BY <4>1, <4>2
    <3>4. Armed => flow = Enough
      <4>1. RunMin = Enough => flow = Enough
        BY <3>1, <3>2, <3>3, <2>u, EnoughIsCounted
      <4>2. phPidEnabled /\ ~SeenTurning => flow = Enough
        BY <1>i DEF RunIsSeen, ArmedInTime
      <4> QED
        BY <4>1, <4>2 DEF Armed
    <3>5. PhCounts' /\ RunIsSeen' /\ ArmedInTime'
      <4>1. PhCounts'
        BY <3>1, <3>2, EnoughIsCounted DEF PhCounts
      <4>a. flow' > 0 /\ runMin' # 0
        BY <3>1, <3>2
      <4>2. ~SeenTurning' /\ (filtering' <=> flow' > 0)
        BY <3>1, <4>a, <1>f, Zenon DEF SeenTurning, PhFlags
      <4>3. RunIsSeen'
        BY <4>2, <3>1, <3>2, <3>3, <2>u DEF RunIsSeen
      <4>4. ArmedInTime'
        BY <3>4, <3>1, <2>u, EnoughIsCounted DEF ArmedInTime
      <4> QED
        BY <4>1, <4>3, <4>4
    <3>6. DecidedArmed'
      BY <2>u DEF DecidedArmed, Regulated
    <3>7. HandStands'
      BY <2>u, <1>i DEF HandStands, Regulated
    <3> QED
      BY <3>5, <3>6, <3>7, <1>g
  <2> QED
    BY <2>1, <2>2
<1>2. CASE WritePh
  <2>1. Quiet /\ phLoopAt' = "Done"
    BY <1>2 DEF WritePh
  <2>2. DecidedArmed'
    BY <2>1 DEF DecidedArmed
  <2>3. HandStands'
    BY <1>2, <1>i DEF HandStands, WritePh
  <2> QED
    BY <2>1, <2>2, <2>3, <1>q, <1>g
<1>3. CASE onPhEvent
  <2>1. Quiet /\ UNCHANGED <<phLoopAt, phTarget>>
    BY <1>3 DEF onPhEvent
  <2>2. DecidedArmed'
    BY <2>1, <1>i DEF DecidedArmed
  <2>3. HandStands'
    <3>1. startedBy' = "Hand" => startedBy = "Hand" /\ ~phAutoMode /\ ~stopping'
      BY <1>3 DEF onPhEvent, EntersAuto
    <3>2. UNCHANGED <<phPump, phAutoMode, phLoopAt, phTarget>>
      BY <1>3 DEF onPhEvent
    <3> QED
      BY <3>1, <3>2, <1>i DEF HandStands
  <2> QED
    BY <2>1, <2>2, <2>3, <1>q, <1>g
<1>3a. CASE StopPhPump
  <2>1. Quiet /\ UNCHANGED <<phLoopAt, phTarget>>
    BY <1>3a DEF StopPhPump
  <2>2. DecidedArmed'
    BY <2>1, <1>i DEF DecidedArmed
  <2>3. HandStands'
    BY <1>3a, <1>i DEF HandStands, StopPhPump
  <2> QED
    BY <2>1, <2>2, <2>3, <1>q, <1>g
<1>4. CASE SetPhAutoMode
  <2>1. Quiet /\ UNCHANGED <<phLoopAt, phTarget>>
    BY <1>4 DEF SetPhAutoMode
  <2>2. DecidedArmed'
    BY <2>1, <1>i DEF DecidedArmed
  <2>3. HandStands'
    BY <1>4, <1>i DEF HandStands, SetPhAutoMode
  <2> QED
    BY <2>1, <2>2, <2>3, <1>q, <1>g
<1>5. CASE WritePump
  <2>1. Quiet /\ UNCHANGED <<phLoopAt, phTarget>>
    BY <1>5 DEF WritePump
  <2>2. DecidedArmed'
    BY <2>1, <1>i DEF DecidedArmed
  <2>3. HandStands'
    BY <1>5 DEF HandStands, WritePump
  <2> QED
    BY <2>1, <2>2, <2>3, <1>q, <1>g
<1>6. ASSUME NEW v \in BOOLEAN, cmdPhPumpWrite(v)
      PROVE  PhInv'
  <2>1. Quiet /\ UNCHANGED <<phLoopAt, phTarget>>
    BY <1>6 DEF cmdPhPumpWrite
  <2>2. DecidedArmed'
    BY <2>1, <1>i DEF DecidedArmed
  <2>3. HandStands'
    BY <1>6 DEF HandStands, cmdPhPumpWrite
  <2> QED
    BY <2>1, <2>2, <2>3, <1>q, <1>g
<1>6a. CASE LeavePhAuto
  <2>1. Quiet /\ UNCHANGED <<phLoopAt, phTarget>>
    BY <1>6a DEF LeavePhAuto
  <2>2. DecidedArmed'
    BY <2>1, <1>i DEF DecidedArmed
  <2>3. HandStands'
    BY <1>6a, <1>i DEF HandStands, LeavePhAuto
  <2> QED
    BY <2>1, <2>2, <2>3, <1>q, <1>g
<1>7. CASE FiltrationSwitches
  <2>1. /\ ~turned /\ turned' = TRUE /\ filtering' = ~filtering
        /\ flow' = (IF filtering THEN 0 ELSE 1)
        /\ UNCHANGED <<runMin, phPidEnabled, phAutoMode, phPump, starting, stopping, phLoopAt,
                       phTarget, startedBy>>
    BY <1>7 DEF FiltrationSwitches
  <2>2. PhCounts'
    BY <2>1, <1>i, EnoughIsCounted DEF PhCounts
  <2>3. RunIsSeen'
    <3>1. filtering' <=> flow' > 0
      <4>1. 1 > 0 /\ ~(0 > 0)
        OBVIOUS
      <4> QED
        BY <4>1, <2>1, Zenon
    <3>2. SeenTurning'
      BY <2>1, <1>i, <1>f DEF SeenTurning, RunIsSeen, PhFlags
    <3> QED
      BY <3>1, <3>2, <2>1 DEF RunIsSeen
  <2>4. ArmedInTime'
    BY <2>1 DEF ArmedInTime
  <2>5. DecidedArmed' /\ HandStands'
    BY <2>1, <1>i DEF DecidedArmed, HandStands
  <2> QED
    BY <2>2, <2>3, <2>4, <2>5, <1>g
<1>8. CASE PumpInterlock
  <2>1. Quiet /\ UNCHANGED <<phLoopAt, phTarget>>
    BY <1>8 DEF PumpInterlock
  <2>2. DecidedArmed'
    BY <2>1, <1>i DEF DecidedArmed
  <2>3. HandStands'
    BY <1>8 DEF HandStands, PumpInterlock
  <2> QED
    BY <2>1, <2>2, <2>3, <1>q, <1>g
<1>9. CASE PermissionTurns
  <2>1. Quiet /\ UNCHANGED <<phLoopAt, phTarget, startedBy, phPump, phAutoMode, starting, stopping>>
    BY <1>9 DEF PermissionTurns
  <2>2. DecidedArmed' /\ HandStands'
    BY <2>1, <1>i DEF DecidedArmed, HandStands
  <2> QED
    BY <2>1, <2>2, <1>q, <1>g
<1>10. CASE PhTick
  <2>1. /\ phLoopAt = "Done" /\ phLoopAt' = "Rest"
        /\ flow' = IF filtering THEN UpToEnough(flow + 1) ELSE 0
        /\ UNCHANGED <<filtering, turned, runMin, phPidEnabled, phAutoMode, phPump, phTarget,
                       starting, stopping, startedBy>>
    BY <1>10 DEF PhTick
  <2>2. PhCounts' /\ (filtering' <=> flow' > 0)
    BY <2>1, <1>i, EnoughIsCounted DEF PhCounts
  <2>3. RunIsSeen'
    <3>1. ASSUME ~turned, filtering PROVE runMin <= flow' /\ UpToEnough(runMin + 1) <= flow'
      BY <3>1, <2>1, <1>i, EnoughIsCounted DEF RunIsSeen, PhCounts, UpToEnough
    <3> QED
      BY <3>1, <2>1, <2>2, <1>i DEF RunIsSeen, SeenTurning, UpToEnough
  <2>4. ArmedInTime'
    BY <2>1, <1>i, EnoughIsCounted DEF ArmedInTime, RunIsSeen, PhCounts, UpToEnough
  <2>5. DecidedArmed' /\ HandStands'
    BY <2>1, <1>i DEF DecidedArmed, HandStands
  <2> QED
    BY <2>2, <2>3, <2>4, <2>5, <1>g
<1>11. CASE UNCHANGED phVars
  <2>1. Quiet /\ UNCHANGED <<phLoopAt, phTarget, startedBy, phPump, phAutoMode, starting, stopping>>
    BY <1>11 DEF phVars
  <2>2. DecidedArmed' /\ HandStands'
    BY <2>1, <1>i DEF DecidedArmed, HandStands
  <2> QED
    BY <2>1, <2>2, <1>q, <1>g
<1> QED
  BY <1>1, <1>2, <1>3, <1>3a, <1>4, <1>5, <1>6, <1>6a, <1>7, <1>8, <1>9, <1>10, <1>11 DEF PhNext

LEMMA PhInvIsSound == PhInv => RegulationSound
<1> SUFFICES ASSUME PhInv PROVE RegulationSound
  OBVIOUS
<1>1. PhTypeOK
  BY DEF PhInv, PhFlags, PhCounts, PhTypeOK
<1>2. ArmedByFlow
  BY DEF PhInv, DecidedArmed, ArmedInTime, ArmedByFlow, Enough
<1>3. HandKept
  BY DEF PhInv, HandStands, HandKept
<1> QED
  BY <1>1, <1>2, <1>3 DEF RegulationSound

(* The regulation pours only into water that has circulated for the whole  *)
(* delay, and neither a decision of the loop nor the announcement of a     *)
(* mode that is over undoes a manual start of the pump, however long the   *)
(* delay.                                                                  *)
THEOREM RegulationCorrect == PhSpec => []RegulationSound
<1>1. PhSpec => []PhInv
  BY PhInvInit, PhInvNext, PTL DEF PhSpec
<1> QED
  BY <1>1, PhInvIsSound, PTL
-----------------------------------------------------------------------------
(* Heat assist.                                                            *)
-----------------------------------------------------------------------------
HeatFlags ==
    /\ filtrationBase \in BOOLEAN /\ held \in BOOLEAN /\ filtrationWanted \in BOOLEAN
    /\ heaterWanted \in BOOLEAN /\ heaterOn \in BOOLEAN /\ probeRunning \in BOOLEAN
    /\ heatingActive \in BOOLEAN /\ waterTempValid \in BOOLEAN /\ heatLooped \in BOOLEAN
    /\ stagnant \in BOOLEAN /\ everHeld \in BOOLEAN

HeatRanges ==
    /\ mode \in Modes /\ water \in Temperatures
    /\ nowSec \in 0..(SecRange - 1) /\ probeStartSec \in 0..(SecRange - 1)
    /\ lastProbeEndSec \in 0..(SecRange - 1)
    /\ circulating \in 0..Underway /\ flowing \in 0..Underway
    /\ idleFor \in Nat /\ heatMoves \in Nat /\ intervalMin \in Intervals \cup {Fallback}

(* Unless the filtration has been held back, the loop counts no more of    *)
(* its run than there is, and what it wants runs.                          *)
FlowIsCounted ==
    ~everHeld =>
        /\ ~held
        /\ flowing > 0 => (IF heatLooped THEN circulating ELSE UpTo(circulating + 1)) <= flowing
        /\ heatLooped /\ filtrationWanted => flowing > 0

(* and a probe flows from its start, for as long as it counts.             *)
ProbeFlows ==
    ~everHeld /\ probeRunning =>
        flowing > ProbeRun \/ flowing > elapsedSecSince(probeStartSec)

(* While a probe is waited for the clock is within an interval.            *)
ProbeIsDue ==
    idleFor > 0 =>
        \E i \in Intervals \cup {Fallback} :
            IF heatLooped
            THEN /\ elapsedSecSince(lastProbeEndSec) < i - ProbeRun
                 /\ idleFor <= elapsedSecSince(lastProbeEndSec) + 1
            ELSE /\ elapsedSecSince(lastProbeEndSec) <= i - ProbeRun
                 /\ idleFor <= elapsedSecSince(lastProbeEndSec)

HeatInv ==
    /\ HeatFlags /\ HeatRanges
    /\ FlowIsCounted /\ ProbeFlows /\ ProbeIsDue
    /\ HeatsWithFiltration /\ MeasuredUnderFlow

LEMMA HeatConstants ==
    /\ ProbeRun \in Nat \ {0} /\ Fallback \in Nat /\ SecRange \in Nat \ {0} /\ Underway \in Nat
    /\ Underway = ProbeRun + 1
    /\ \A i \in Intervals \cup {Fallback} : i \in Nat /\ ProbeRun < i /\ i < SecRange
BY HeatAssumption DEF Underway

LEMMA UpToBound ==
    ASSUME NEW n \in Nat
    PROVE  UpTo(n) \in 0..Underway /\ UpTo(n) <= n /\ (n < Underway => UpTo(n) = n)
           /\ (n >= Underway => UpTo(n) = Underway)
BY HeatConstants DEF UpTo

(* The remainders that the clock is made of.                               *)
LEMMA RemainderInRange ==
    ASSUME NEW r \in Nat \ {0}, NEW a \in Int PROVE a % r \in 0..(r - 1)
OBVIOUS

LEMMA RemainderBelow ==
    ASSUME NEW r \in Nat \ {0}, NEW a \in 0..(r - 1) PROVE a % r = a
OBVIOUS

LEMMA RemainderWraps ==
    ASSUME NEW r \in Nat \ {0}, NEW a \in -r..(-1) PROVE a % r = a + r
OBVIOUS

LEMMA RemainderOfItself == ASSUME NEW r \in Nat \ {0} PROVE r % r = 0
OBVIOUS

LEMMA Difference ==
    ASSUME NEW r \in Nat \ {0}, NEW a \in 0..(r - 1), NEW b \in 0..(r - 1)
    PROVE  (a - b) % r = IF a >= b THEN a - b ELSE a - b + r
<1>1. CASE a >= b
  <2>1. a - b \in 0..(r - 1)
    BY <1>1
  <2> QED
    BY <1>1, <2>1, RemainderBelow
<1>2. CASE ~(a >= b)
  <2>1. a - b \in -r..(-1)
    BY <1>2
  <2>2. (a - b) % r = a - b + r
    BY <2>1, RemainderWraps
  <2> QED
    BY <1>2, <2>2
<1> QED
  BY <1>1, <1>2

(* A second later one second more has elapsed, or the clock has wrapped.   *)
LEMMA SecondPasses ==
    ASSUME NEW r \in Nat \ {0}, NEW a \in 0..(r - 1), NEW b \in 0..(r - 1), NEW c,
           c = (a + 1) % r
    PROVE  /\ c \in 0..(r - 1)
           /\ (c - b) % r = IF (a - b) % r = r - 1 THEN 0 ELSE ((a - b) % r) + 1
<1>1. c = IF a = r - 1 THEN 0 ELSE a + 1
  <2>1. CASE a = r - 1
    BY <2>1, RemainderOfItself
  <2>2. CASE a # r - 1
    <3>1. a + 1 \in 0..(r - 1)
      BY <2>2
    <3> QED
      BY <2>2, <3>1, RemainderBelow
  <2> QED
    BY <2>1, <2>2
<1>2. c \in 0..(r - 1)
  BY <1>1
<1>3. (a - b) % r = IF a >= b THEN a - b ELSE a - b + r
  BY Difference
<1>4. (c - b) % r = IF c >= b THEN c - b ELSE c - b + r
  BY <1>2, Difference
<1> QED
  BY <1>1, <1>2, <1>3, <1>4

LEMMA ElapsedInRange ==
    HeatRanges => /\ elapsedSecSince(probeStartSec) \in 0..(SecRange - 1)
                  /\ elapsedSecSince(lastProbeEndSec) \in 0..(SecRange - 1)
<1> SUFFICES ASSUME HeatRanges PROVE /\ elapsedSecSince(probeStartSec) \in 0..(SecRange - 1)
                  /\ elapsedSecSince(lastProbeEndSec) \in 0..(SecRange - 1)
  OBVIOUS
<1>1. nowSec - probeStartSec \in Int /\ nowSec - lastProbeEndSec \in Int
  BY HeatConstants DEF HeatRanges
<1> QED
  BY <1>1, HeatConstants, RemainderInRange DEF elapsedSecSince

LEMMA HeatInvInit == HeatInit => HeatInv
<1> SUFFICES ASSUME HeatInit PROVE HeatInv
  OBVIOUS
<1>1. HeatFlags
  BY DEF HeatInit, HeatFlags
<1>2. HeatRanges
  BY HeatConstants DEF HeatInit, HeatRanges, Modes, Temperatures
<1>3. flowing = 0 /\ ~(flowing > 0) /\ ~(idleFor > 0)
  BY DEF HeatInit
<1>4. FlowIsCounted /\ ProbeFlows /\ ProbeIsDue /\ HeatsWithFiltration /\ MeasuredUnderFlow
  BY <1>3, Zenon DEF HeatInit, FlowIsCounted, ProbeFlows, ProbeIsDue, HeatsWithFiltration,
     MeasuredUnderFlow
<1> QED
  BY <1>1, <1>2, <1>4 DEF HeatInv

(* What every branch of the loop does to flow and session.                 *)
LEMMA LoopCounts ==
    ASSUME HeatInv, ~heatLooped
    PROVE  /\ Circulating \in 0..Underway
           /\ flowing = 0 => Circulating = 0
           /\ ~everHeld => /\ Circulating <= flowing
                           /\ recordedUnderFlow => flowing > ProbeRun
<1>1. HeatRanges /\ FlowIsCounted
  BY DEF HeatInv
<1>2. circulating \in Nat /\ circulating + 1 \in Nat /\ flowing \in 0..Underway
  BY <1>1, HeatConstants DEF HeatRanges
<1>3. UpTo(circulating + 1) \in 0..Underway
  BY <1>2, UpToBound
<1>4. Circulating = IF flowing = 0 THEN 0 ELSE UpTo(circulating + 1)
  BY DEF Circulating
<1>5. Circulating \in 0..Underway /\ (flowing = 0 => Circulating = 0)
  BY <1>3, <1>4, HeatConstants
<1>6. ASSUME ~everHeld PROVE Circulating <= flowing
  <2>1. flowing > 0 => UpTo(circulating + 1) <= flowing
    BY <1>1, <1>6, Zenon DEF FlowIsCounted
  <2> QED
    BY <2>1, <1>2, <1>4
<1>7. ASSUME ~everHeld, recordedUnderFlow PROVE flowing > ProbeRun
  <2>1. Circulating = Underway
    BY <1>7 DEF recordedUnderFlow
  <2> QED
    BY <2>1, <1>6, <1>7, <1>2, HeatConstants
<1> QED
  BY <1>5, <1>6, <1>7

LEMMA LoopMeasures ==
    ASSUME HeatInv, ~heatLooped, NEW recorded \in BOOLEAN,
           recorded /\ ~everHeld => flowing > ProbeRun,
           Measured(recorded), everHeld' = everHeld
    PROVE  /\ MeasuredUnderFlow' /\ stagnant' \in BOOLEAN /\ waterTempValid' \in BOOLEAN
           /\ intervalMin' \in Intervals \cup {Fallback}
<1>1. waterTempValid' = (waterTempValid \/ recorded)
      /\ stagnant' = (IF recorded THEN flowing <= ProbeRun ELSE stagnant)
      /\ intervalMin' \in Intervals \cup {Fallback}
  BY DEF Measured
<1>2. stagnant' \in BOOLEAN /\ waterTempValid' \in BOOLEAN
  <2>1. waterTempValid \in BOOLEAN /\ stagnant \in BOOLEAN
    BY DEF HeatInv, HeatFlags
  <2>2. (flowing <= ProbeRun) \in BOOLEAN
    OBVIOUS
  <2>3. CASE recorded
    BY <2>3, <2>2, <1>1
  <2>4. CASE ~recorded
    BY <2>4, <2>1, <1>1
  <2> QED
    BY <2>3, <2>4
<1>3. flowing > ProbeRun => ~(flowing <= ProbeRun)
  BY HeatConstants DEF HeatInv, HeatRanges
<1>4. stagnant => everHeld
  BY DEF HeatInv, MeasuredUnderFlow
<1>5. MeasuredUnderFlow'
  <2>1. CASE recorded
    BY <2>1, <1>1, <1>3, Zenon DEF MeasuredUnderFlow
  <2>2. CASE ~recorded
    BY <2>2, <1>1, <1>4, Zenon DEF MeasuredUnderFlow
  <2> QED
    BY <2>1, <2>2
<1> QED
  BY <1>1, <1>2, <1>5

LEMMA LoopTargets ==
    ASSUME HeatInv, ~heatLooped, NEW filtrating \in BOOLEAN, NEW heater \in BOOLEAN,
           Targets(filtrating, heater)
    PROVE  /\ FlowIsCounted'
           /\ flowing' \in 0..Underway /\ circulating' \in 0..Underway
           /\ filtrating /\ ~everHeld => flowing' > 0 /\ flowing' >= flowing
           /\ filtrationWanted' = filtrating /\ heaterWanted' = heater
           /\ heaterOn' \in BOOLEAN /\ heatLooped'
           /\ UNCHANGED <<nowSec, mode, water, filtrationBase, held, everHeld, heatMoves>>
<1>1. /\ heatLooped' = TRUE /\ circulating' = Circulating
      /\ filtrationWanted' = filtrating /\ heaterWanted' = heater
      /\ flowing' = (IF filtrating /\ ~held THEN (IF flowing = 0 THEN 1 ELSE flowing) ELSE 0)
      /\ heaterOn' = (heater /\ flowing' > 0)
      /\ UNCHANGED <<nowSec, mode, water, filtrationBase, held, everHeld, heatMoves>>
  BY DEF Targets, surround
<1>2. /\ Circulating \in 0..Underway /\ flowing \in 0..Underway
      /\ flowing = 0 => Circulating = 0
      /\ ~everHeld => Circulating <= flowing /\ ~held
  BY LoopCounts DEF HeatInv, HeatRanges, FlowIsCounted
<1>3. flowing' \in 0..Underway /\ (flowing' > 0 => flowing' >= flowing)
  BY <1>1, <1>2, HeatConstants
<1>4. filtrating /\ ~everHeld => flowing' > 0
  <2>1. flowing # 0 => flowing > 0
    BY <1>2, HeatConstants
  <2>2. 1 > 0
    OBVIOUS
  <2> QED
    BY <1>1, <1>2, <2>1, <2>2, Zenon
<1>5. heaterOn' \in BOOLEAN
  <2>1. (flowing' > 0) \in BOOLEAN
    OBVIOUS
  <2> QED
    BY <2>1, <1>1
<1>6. ~everHeld => (flowing' > 0 => circulating' <= flowing')
  BY <1>1, <1>2, <1>3, HeatConstants
<1>7. FlowIsCounted'
  BY <1>1, <1>2, <1>4, <1>6, Zenon DEF FlowIsCounted
<1> QED
  BY <1>1, <1>2, <1>3, <1>4, <1>5, <1>7
LEMMA LoopKeeps ==
    ASSUME HeatInv, ~heatLooped, NEW filtrating \in BOOLEAN, NEW heater \in BOOLEAN,
           Targets(filtrating, heater),
           MeasuredUnderFlow', stagnant' \in BOOLEAN, waterTempValid' \in BOOLEAN,
           intervalMin' \in Intervals \cup {Fallback},
           probeRunning' \in BOOLEAN, heatingActive' \in BOOLEAN,
           probeStartSec' \in 0..(SecRange - 1), lastProbeEndSec' \in 0..(SecRange - 1),
           idleFor' \in Nat, ProbeFlows', ProbeIsDue',
           mode = "Auto" /\ heater => filtrating /\ water # "Hot"
    PROVE  HeatInv'
<1>1. /\ FlowIsCounted'
      /\ flowing' \in 0..Underway /\ circulating' \in 0..Underway
      /\ filtrationWanted' = filtrating /\ heaterWanted' = heater
      /\ heaterOn' \in BOOLEAN /\ heatLooped'
      /\ UNCHANGED <<nowSec, mode, water, filtrationBase, held, everHeld, heatMoves>>
  BY LoopTargets
<1>2. HeatFlags'
  <2>1. heatLooped' \in BOOLEAN
    BY DEF Targets
  <2> QED
    BY <1>1, <2>1 DEF HeatInv, HeatFlags
<1>3. HeatRanges'
  BY <1>1 DEF HeatInv, HeatRanges
<1>4. HeatsWithFiltration'
  BY <1>1, Zenon DEF HeatsWithFiltration
<1> QED
  BY <1>1, <1>2, <1>3, <1>4 DEF HeatInv

(* The idle count of every branch but one.                                 *)
LEMMA NotIdle == idleFor' = 0 => idleFor' \in Nat /\ ProbeIsDue'
<1>1. ~(0 > 0)
  OBVIOUS
<1>2. idleFor' = 0 => ProbeIsDue'
  BY <1>1, Zenon DEF ProbeIsDue
<1> QED
  BY <1>2

(* A probe that goes on with the filtration wanted flows on.               *)
LEMMA ProbeGoesOn ==
    ASSUME HeatInv, ~heatLooped, NEW heater \in BOOLEAN, Targets(TRUE, heater),
           UNCHANGED <<probeRunning, heatingActive, probeStartSec>>
    PROVE  ProbeFlows'
<1>1. flowing' \in 0..Underway /\ (~everHeld => flowing' >= flowing)
      /\ UNCHANGED nowSec /\ UNCHANGED everHeld
  BY LoopTargets
<1>2. UNCHANGED elapsedSecSince(probeStartSec)
  BY <1>1 DEF elapsedSecSince
<1>3. flowing \in 0..Underway /\ elapsedSecSince(probeStartSec) \in 0..(SecRange - 1)
  BY ElapsedInRange DEF HeatInv, HeatRanges
<1>4. ASSUME ~everHeld, flowing > ProbeRun \/ flowing > elapsedSecSince(probeStartSec)
      PROVE  flowing' > ProbeRun \/ flowing' > elapsedSecSince(probeStartSec)'
  BY <1>1, <1>2, <1>3, <1>4, HeatConstants
<1>5. ProbeFlows
  BY DEF HeatInv
<1> QED
  BY <1>1, <1>4, <1>5, Zenon DEF ProbeFlows

LEMMA NoProbe == ~probeRunning' => ProbeFlows'
BY DEF ProbeFlows

LEMMA HeatLoopKeeps == HeatInv /\ HeatLoop => HeatInv'
<1> SUFFICES ASSUME HeatInv, HeatLoop PROVE HeatInv'
  OBVIOUS
<1>l. ~heatLooped /\ (StandDown \/ KeepHeating \/ EndHeating \/ KeepProbing \/ EndProbe
                      \/ Circulate \/ Idling)
  BY DEF HeatLoop
<1>f. filtrationBase \in BOOLEAN /\ heaterWanted \in BOOLEAN /\ probeRunning \in BOOLEAN
      /\ heatingActive \in BOOLEAN /\ stagnant \in BOOLEAN
  BY DEF HeatInv, HeatFlags
<1>r. /\ nowSec \in 0..(SecRange - 1) /\ probeStartSec \in 0..(SecRange - 1)
      /\ lastProbeEndSec \in 0..(SecRange - 1) /\ 0 \in 0..(SecRange - 1) /\ idleFor \in Nat
  BY HeatConstants DEF HeatInv, HeatRanges
<1>e. LastEnd \in 0..(SecRange - 1)
  BY <1>r DEF LastEnd
<1>c. recordedUnderFlow \in BOOLEAN /\ (recordedUnderFlow /\ ~everHeld => flowing > ProbeRun)
  <2>1. recordedUnderFlow /\ ~everHeld => flowing > ProbeRun
    BY <1>l, LoopCounts
  <2> QED
    BY <2>1 DEF recordedUnderFlow
<1>t. ASSUME NEW filtrating \in BOOLEAN, NEW heater \in BOOLEAN, Targets(filtrating, heater)
      PROVE  everHeld' = everHeld
  BY <1>t DEF Targets
<1>m. ASSUME NEW filtrating \in BOOLEAN, NEW heater \in BOOLEAN, Targets(filtrating, heater),
             Measured(recordedUnderFlow)
      PROVE  /\ MeasuredUnderFlow' /\ stagnant' \in BOOLEAN /\ waterTempValid' \in BOOLEAN
             /\ intervalMin' \in Intervals \cup {Fallback}
  BY <1>m, <1>t, <1>c, <1>l, LoopMeasures
<1>1. CASE StandDown
  <2> DEFINE h == mode # "Blocked" /\ heaterWanted
  <2>1. h \in BOOLEAN /\ Targets(filtrationBase, h) /\ idleFor' = 0 /\ mode # "Auto"
    BY <1>1, <1>f DEF StandDown
  <2>2. probeRunning' = FALSE /\ heatingActive' = FALSE /\ probeStartSec' = 0
    BY <1>1 DEF StandDown, Session
  <2>3. /\ MeasuredUnderFlow' /\ stagnant' \in BOOLEAN /\ waterTempValid' \in BOOLEAN
        /\ intervalMin' \in Intervals \cup {Fallback} /\ lastProbeEndSec' \in 0..(SecRange - 1)
    <3>1. CASE mode = "Disabled"
      <4>1. lastProbeEndSec' = 0 /\ waterTempValid' = FALSE /\ intervalMin' = Fallback
            /\ stagnant' = stagnant
        BY <1>1, <3>1 DEF StandDown
      <4>2. MeasuredUnderFlow'
        BY <4>1, <2>1, <1>f, <1>t, Zenon DEF HeatInv, MeasuredUnderFlow
      <4> QED
        BY <4>1, <4>2, <1>f, <1>r
    <3>2. CASE mode # "Disabled"
      <4>1. lastProbeEndSec' = LastEnd /\ Measured(recordedUnderFlow)
        BY <1>1, <3>2 DEF StandDown
      <4> QED
        BY <4>1, <2>1, <1>f, <1>m, <1>e
    <3> QED
      BY <3>1, <3>2
  <2> HIDE DEF h
  <2> QED
    BY <2>1, <2>2, <2>3, <1>l, <1>f, <1>r, NotIdle, NoProbe, LoopKeeps
<1>2. CASE KeepHeating
  <2> DEFINE h == water # "Unknown"
  <2>1. /\ h \in BOOLEAN /\ Targets(TRUE, h) /\ idleFor' = 0 /\ water # "Hot"
        /\ Measured(recordedUnderFlow) /\ lastProbeEndSec' = LastEnd
        /\ UNCHANGED <<probeRunning, heatingActive, probeStartSec>>
    BY <1>2 DEF KeepHeating, session
  <2> HIDE DEF h
  <2> QED
    BY <2>1, <1>l, <1>f, <1>r, <1>e, <1>m, NotIdle, ProbeGoesOn, LoopKeeps
<1>3. CASE EndHeating
  <2>1. /\ Targets(filtrationBase, FALSE) /\ idleFor' = 0
        /\ Measured(recordedUnderFlow) /\ lastProbeEndSec' = nowSec
        /\ probeRunning' = FALSE /\ heatingActive' = FALSE /\ probeStartSec' = 0
    BY <1>3 DEF EndHeating, Session
  <2> QED
    BY <2>1, <1>l, <1>f, <1>r, <1>m, NotIdle, NoProbe, LoopKeeps
<1>4. CASE KeepProbing
  <2>1. /\ Targets(TRUE, FALSE) /\ idleFor' = 0
        /\ Measured(recordedUnderFlow) /\ lastProbeEndSec' = LastEnd
        /\ UNCHANGED <<probeRunning, heatingActive, probeStartSec>>
    BY <1>4 DEF KeepProbing, session
  <2> QED
    BY <2>1, <1>l, <1>f, <1>r, <1>e, <1>m, NotIdle, ProbeGoesOn, LoopKeeps
<1>5. CASE EndProbe
  <2> DEFINE h == water = "Cold"
             f == filtrationBase \/ water = "Cold"
             m == recordedUnderFlow \/ water # "Unknown"
  <2>1. /\ h \in BOOLEAN /\ f \in BOOLEAN /\ m \in BOOLEAN
        /\ Targets(f, h) /\ idleFor' = 0 /\ Measured(m)
        /\ lastProbeEndSec' = (IF water = "Cold" THEN LastEnd ELSE nowSec)
        /\ probeRunning' = FALSE /\ heatingActive' = h /\ probeStartSec' = 0
        /\ h => f /\ water # "Hot"
    BY <1>5, <1>f, <1>c DEF EndProbe, Session
  <2>2. ~everHeld => flowing > ProbeRun
    <3>1. probeRunning /\ elapsedSecSince(probeStartSec) >= ProbeRun
      BY <1>5 DEF EndProbe
    <3>2. ProbeFlows /\ flowing \in 0..Underway
          /\ elapsedSecSince(probeStartSec) \in 0..(SecRange - 1)
      BY ElapsedInRange DEF HeatInv, HeatRanges
    <3>3. ASSUME flowing > ProbeRun \/ flowing > elapsedSecSince(probeStartSec)
          PROVE  flowing > ProbeRun
      BY <3>1, <3>2, <3>3, HeatConstants
    <3> QED
      BY <3>1, <3>2, <3>3, Zenon DEF ProbeFlows
  <2>3. lastProbeEndSec' \in 0..(SecRange - 1)
    BY <2>1, <1>e, <1>r
  <2> HIDE DEF h, f, m
  <2>4. /\ MeasuredUnderFlow' /\ stagnant' \in BOOLEAN /\ waterTempValid' \in BOOLEAN
        /\ intervalMin' \in Intervals \cup {Fallback}
    BY <2>1, <2>2, <1>t, <1>l, LoopMeasures
  <2> QED
    BY <2>1, <2>3, <2>4, <1>l, <1>f, <1>r, NotIdle, NoProbe, LoopKeeps
<1>6. CASE Circulate
  <2>1. FollowsWater \in BOOLEAN /\ (FollowsWater => water # "Hot") /\ HandedOver \in BOOLEAN
        /\ (FollowsWater => HandedOver)
    <3>1. FollowsWater \in BOOLEAN /\ (FollowsWater => water # "Hot")
      <4>1. CASE heaterWanted
        BY <4>1, <1>c DEF FollowsWater
      <4>2. CASE ~heaterWanted
        BY <4>2, <1>c DEF FollowsWater
      <4> QED
        BY <4>1, <4>2
    <3> QED
      BY <3>1, <1>f DEF HandedOver
  <2>2. /\ Targets(HandedOver, FollowsWater) /\ idleFor' = 0 /\ Measured(recordedUnderFlow)
        /\ lastProbeEndSec' = nowSec \/ lastProbeEndSec' = LastEnd
        /\ probeRunning' = FALSE /\ heatingActive' = FollowsWater
        /\ probeStartSec' = probeStartSec
    BY <1>6, Zenon DEF Circulate, Session
  <2>3. lastProbeEndSec' \in 0..(SecRange - 1)
    BY <2>2, <1>e, <1>r
  <2> QED
    BY <2>1, <2>2, <2>3, <1>l, <1>f, <1>r, <1>m, NotIdle, NoProbe, LoopKeeps
<1>7. CASE Idling
  <2>1. ~heatingActive /\ ~probeRunning /\ Measured(FALSE) /\ lastProbeEndSec' = lastProbeEndSec
    BY <1>7 DEF Idling
  <2>2. lastProbeEndSec' \in 0..(SecRange - 1)
    BY <2>1, <1>r
  <2>m. ASSUME everHeld' = everHeld
        PROVE  /\ MeasuredUnderFlow' /\ stagnant' \in BOOLEAN /\ waterTempValid' \in BOOLEAN
               /\ intervalMin' \in Intervals \cup {Fallback}
    BY <2>m, <2>1, <1>l, LoopMeasures
  <2>3. CASE dueForProbe(intervalMin')
    <3>1. /\ Targets(TRUE, FALSE) /\ idleFor' = 0 /\ probeRunning' = TRUE /\ heatingActive' = FALSE
          /\ probeStartSec' = nowSec
      BY <1>7, <2>3, Zenon DEF Idling, Session
    <3>2. ProbeFlows'
      <4>1. /\ nowSec' = nowSec /\ everHeld' = everHeld /\ (~everHeld => flowing' > 0)
        BY <3>1, <1>l, LoopTargets
      <4>2. elapsedSecSince(probeStartSec)' = 0
        <5>1. nowSec' - probeStartSec' = 0
          BY <4>1, <3>1, <1>r
        <5>2. 0 % SecRange = 0
          BY <1>r, HeatConstants, RemainderBelow
        <5> QED
          BY <5>1, <5>2 DEF elapsedSecSince
      <4> QED
        BY <4>1, <4>2, Zenon DEF ProbeFlows
    <3>3. everHeld' = everHeld
      BY <3>1, <1>t
    <3> QED
      BY <3>1, <3>2, <3>3, <2>2, <2>m, <1>l, <1>f, <1>r, NotIdle, LoopKeeps
  <2>4. CASE ~dueForProbe(intervalMin')
    <3>1. /\ Targets(FALSE, FALSE) /\ idleFor' = idleFor + 1
          /\ probeRunning' = probeRunning /\ heatingActive' = heatingActive
          /\ probeStartSec' = probeStartSec
      BY <1>7, <2>4 DEF Idling, session
    <3>2. everHeld' = everHeld /\ nowSec' = nowSec /\ heatLooped'
      BY <3>1, <1>l, LoopTargets
    <3>3. intervalMin' \in Intervals \cup {Fallback}
      BY <3>2, <2>m
    <3>4. ProbeIsDue'
      <4> DEFINE e == elapsedSecSince(lastProbeEndSec)
      <4>1. e \in 0..(SecRange - 1) /\ elapsedSecSince(lastProbeEndSec)' = e
        BY <3>2, <2>1, ElapsedInRange DEF HeatInv, elapsedSecSince
      <4>2. ~(e >= intervalMin' - ProbeRun)
        BY <2>4 DEF dueForProbe
      <4>3. idleFor > 0 => idleFor <= e
        <5>1. ASSUME NEW i \in Intervals \cup {Fallback},
                     IF heatLooped THEN /\ e < i - ProbeRun /\ idleFor <= e + 1
                     ELSE /\ e <= i - ProbeRun /\ idleFor <= e
              PROVE  idleFor <= e
          BY <5>1, <1>l
        <5> HIDE DEF e
        <5>2. ProbeIsDue
          BY DEF HeatInv
        <5> QED
          BY <5>1, <5>2, Zenon DEF ProbeIsDue, e
      <4> HIDE DEF e
      <4>4. e < intervalMin' - ProbeRun /\ idleFor' <= e + 1
        BY <4>1, <4>2, <4>3, <3>1, <3>3, <1>r, HeatConstants
      <4> QED
        BY <4>1, <4>4, <3>2, <3>3, Zenon DEF ProbeIsDue
    <3>5. idleFor' \in Nat
      BY <3>1, <1>r
    <3> QED
      BY <3>1, <3>2, <3>4, <3>5, <2>1, <2>2, <2>m, <1>l, <1>f, <1>r, NoProbe, LoopKeeps
  <2> QED
    BY <2>3, <2>4
<1> QED
  BY <1>1, <1>2, <1>3, <1>4, <1>5, <1>6, <1>7, <1>l

LEMMA HeatTickKeeps == HeatInv /\ HeatTick => HeatInv'
<1> SUFFICES ASSUME HeatInv, HeatTick PROVE HeatInv'
  OBVIOUS
<1>1. /\ heatLooped /\ heatLooped' = FALSE /\ Surroundings
      /\ nowSec' = (nowSec + 1) % SecRange /\ everHeld' = (everHeld \/ held')
      /\ flowing' = (IF held' THEN 0
                     ELSE IF flowing > 0 THEN UpTo(flowing + 1)
                     ELSE IF filtrationWanted THEN 1 ELSE 0)
      /\ heaterOn' = (heaterWanted /\ flowing' > 0)
      /\ UNCHANGED <<circulating, filtrationWanted, heaterWanted, probeRunning, heatingActive,
                     probeStartSec, lastProbeEndSec, waterTempValid, intervalMin, stagnant,
                     idleFor>>
  BY DEF HeatTick, session
<1>f. HeatFlags
  BY DEF HeatInv
<1>r. HeatRanges
  BY DEF HeatInv
<1>s. /\ mode' \in Modes /\ water' \in Temperatures
      /\ filtrationBase' \in BOOLEAN /\ held' \in BOOLEAN /\ heatMoves' \in Nat
  <2>1. CASE UNCHANGED <<surround, heatMoves>>
    BY <2>1, <1>f, <1>r DEF surround, HeatFlags, HeatRanges
  <2>2. CASE /\ heatMoves < MaxHeatMoves /\ heatMoves' = heatMoves + 1
             /\ \/ mode' \in Modes /\ UNCHANGED <<water, filtrationBase, held>>
                \/ water' \in Temperatures /\ UNCHANGED <<mode, filtrationBase, held>>
                \/ filtrationBase' = ~filtrationBase /\ UNCHANGED <<mode, water, held>>
                \/ held' = ~held /\ UNCHANGED <<mode, water, filtrationBase>>
    <3>1. heatMoves' \in Nat
      BY <2>2, <1>r DEF HeatRanges
    <3>2. mode' \in Modes /\ water' \in Temperatures
      BY <2>2, <1>r DEF HeatRanges
    <3>3. filtrationBase' \in BOOLEAN /\ held' \in BOOLEAN
      BY <2>2, <1>f DEF HeatFlags
    <3> QED
      BY <3>1, <3>2, <3>3
  <2> QED
    BY <1>1, <2>1, <2>2, Zenon DEF Surroundings
<1>2. flowing \in 0..Underway /\ circulating \in 0..Underway /\ idleFor \in Nat
      /\ flowing \in Nat /\ circulating \in Nat /\ flowing + 1 \in Nat /\ circulating + 1 \in Nat
  BY <1>r, HeatConstants DEF HeatRanges
<1>3. flowing' \in 0..Underway
  <2>1. 0 \in 0..Underway /\ 1 \in 0..Underway /\ UpTo(flowing + 1) \in 0..Underway
    BY <1>2, UpToBound, HeatConstants
  <2> QED
    BY <2>1, <1>1, Zenon
<1>4. /\ nowSec' \in 0..(SecRange - 1)
      /\ elapsedSecSince(probeStartSec)' = 
             (IF elapsedSecSince(probeStartSec) = SecRange - 1 THEN 0
              ELSE elapsedSecSince(probeStartSec) + 1)
      /\ elapsedSecSince(lastProbeEndSec)' = 
             (IF elapsedSecSince(lastProbeEndSec) = SecRange - 1 THEN 0
              ELSE elapsedSecSince(lastProbeEndSec) + 1)
  <2>1. /\ nowSec \in 0..(SecRange - 1) /\ probeStartSec \in 0..(SecRange - 1)
        /\ lastProbeEndSec \in 0..(SecRange - 1) /\ SecRange \in Nat \ {0}
    BY <1>r, HeatConstants DEF HeatRanges
  <2>2. nowSec' \in 0..(SecRange - 1)
    BY <1>1, <2>1, SecondPasses
  <2>3. (nowSec' - probeStartSec) % SecRange =
            (IF (nowSec - probeStartSec) % SecRange = SecRange - 1 THEN 0
             ELSE ((nowSec - probeStartSec) % SecRange) + 1)
    BY <1>1, <2>1, SecondPasses
  <2>4. (nowSec' - lastProbeEndSec) % SecRange =
            (IF (nowSec - lastProbeEndSec) % SecRange = SecRange - 1 THEN 0
             ELSE ((nowSec - lastProbeEndSec) % SecRange) + 1)
    BY <1>1, <2>1, SecondPasses
  <2> QED
    BY <1>1, <2>2, <2>3, <2>4 DEF elapsedSecSince
<1>5. HeatFlags'
  <2>1. heaterOn' \in BOOLEAN
    <3>1. (flowing' > 0) \in BOOLEAN
      OBVIOUS
    <3> QED
      BY <3>1, <1>1, <1>f DEF HeatFlags
  <2>2. everHeld' \in BOOLEAN /\ heatLooped' \in BOOLEAN
    BY <1>1, <1>f, <1>s DEF HeatFlags
  <2> QED
    BY <1>1, <1>s, <2>1, <2>2, <1>f DEF HeatFlags
<1>6. HeatRanges'
  BY <1>1, <1>s, <1>3, <1>4, <1>r DEF HeatRanges
<1>7. FlowIsCounted'
  <2>1. SUFFICES ASSUME ~everHeld' PROVE ~held' /\ (flowing' > 0 => UpTo(circulating' + 1) <= flowing')
    BY <1>1, <1>s, Zenon DEF FlowIsCounted
  <2>2. ~held' /\ ~everHeld
    BY <2>1, <1>1
  <2>3. (flowing > 0 => circulating <= flowing) /\ (filtrationWanted => flowing > 0)
    BY <2>2, <1>1, Zenon DEF HeatInv, FlowIsCounted
  <2>4. flowing' > 0 => flowing > 0
    <3>1. ~(0 > 0)
      OBVIOUS
    <3> QED
      BY <3>1, <2>2, <2>3, <1>1, Zenon
  <2>5. ASSUME flowing > 0 PROVE UpTo(circulating' + 1) <= flowing'
    <3>1. flowing' = UpTo(flowing + 1)
      BY <2>5, <2>2, <1>1, Zenon
    <3>2. circulating + 1 <= flowing + 1 /\ circulating' = circulating
      BY <2>5, <2>3, <1>2, <1>1
    <3> QED
      BY <3>1, <3>2, <1>2, HeatConstants DEF UpTo
  <2> QED
    BY <2>2, <2>4, <2>5
<1>8. ProbeFlows'
  <2>1. SUFFICES ASSUME ~everHeld', probeRunning
                 PROVE  flowing' > ProbeRun \/ flowing' > elapsedSecSince(probeStartSec)'
    BY <1>1, Zenon DEF ProbeFlows
  <2>2. ~held' /\ ~everHeld
    BY <2>1, <1>1
  <2>3. flowing > ProbeRun \/ flowing > elapsedSecSince(probeStartSec)
    BY <2>1, <2>2, Zenon DEF HeatInv, ProbeFlows
  <2>4. elapsedSecSince(probeStartSec) \in 0..(SecRange - 1)
    BY <1>r, ElapsedInRange
  <2>5. flowing > 0
    BY <2>3, <2>4, <1>2, HeatConstants
  <2>6. flowing' = UpTo(flowing + 1)
    BY <2>5, <2>2, <1>1, Zenon
  <2> QED
    BY <2>3, <2>4, <2>6, <1>2, <1>4, HeatConstants DEF UpTo
<1>9. ProbeIsDue'
  <2> DEFINE e == elapsedSecSince(lastProbeEndSec)
  <2>1. SUFFICES ASSUME idleFor > 0
                 PROVE  \E i \in Intervals \cup {Fallback} :
                            /\ elapsedSecSince(lastProbeEndSec)' <= i - ProbeRun
                            /\ idleFor' <= elapsedSecSince(lastProbeEndSec)'
    BY <1>1, Zenon DEF ProbeIsDue
  <2>2. PICK i \in Intervals \cup {Fallback} : e < i - ProbeRun /\ idleFor <= e + 1
    BY <2>1, <1>1, Zenon DEF HeatInv, ProbeIsDue
  <2>3. e \in 0..(SecRange - 1)
    BY <1>r, ElapsedInRange
  <2>4. elapsedSecSince(lastProbeEndSec)' = e + 1
    BY <2>2, <2>3, <1>4, HeatConstants
  <2> HIDE DEF e
  <2>5. e + 1 <= i - ProbeRun /\ idleFor' <= e + 1
    BY <2>2, <2>3, <1>1, HeatConstants
  <2> QED
    BY <2>4, <2>5
<1>10. HeatsWithFiltration'
  BY <1>1 DEF HeatsWithFiltration
<1>11. MeasuredUnderFlow'
  BY <1>1, <1>f DEF HeatInv, MeasuredUnderFlow
<1> QED
  BY <1>5, <1>6, <1>7, <1>8, <1>9, <1>10, <1>11 DEF HeatInv

LEMMA HeatInvNext == HeatInv /\ [HeatNext]_heatVars => HeatInv'
<1> SUFFICES ASSUME HeatInv, [HeatNext]_heatVars PROVE HeatInv'
  OBVIOUS
<1>1. CASE UNCHANGED heatVars
  <2>1. UNCHANGED <<nowSec, mode, water, filtrationBase, held, circulating, flowing,
                    filtrationWanted, heaterWanted, heaterOn, probeRunning, heatingActive,
                    probeStartSec, lastProbeEndSec, waterTempValid, intervalMin, heatLooped,
                    stagnant, everHeld, idleFor, heatMoves>>
    BY <1>1 DEF heatVars, surround, session
  <2>2. HeatFlags' /\ HeatRanges' /\ HeatsWithFiltration' /\ MeasuredUnderFlow'
    BY <2>1 DEF HeatInv, HeatFlags, HeatRanges, HeatsWithFiltration, MeasuredUnderFlow
  <2>3. FlowIsCounted' /\ ProbeFlows' /\ ProbeIsDue'
    BY <2>1 DEF HeatInv, FlowIsCounted, ProbeFlows, ProbeIsDue, elapsedSecSince
  <2> QED
    BY <2>2, <2>3 DEF HeatInv
<1> QED
  BY <1>1, HeatLoopKeeps, HeatTickKeeps DEF HeatNext

LEMMA HeatInvIsSound == HeatInv => HeatSound
<1> SUFFICES ASSUME HeatInv PROVE HeatSound
  OBVIOUS
<1>1. HeatTypeOK
  BY DEF HeatInv, HeatFlags, HeatRanges, HeatTypeOK
<1>2. ProbeComes
  <2>1. CASE idleFor > 0
    <3> DEFINE e == elapsedSecSince(lastProbeEndSec)
    <3>1. PICK i \in Intervals \cup {Fallback} :
              IF heatLooped THEN e < i - ProbeRun /\ idleFor <= e + 1
              ELSE e <= i - ProbeRun /\ idleFor <= e
      BY <2>1 DEF HeatInv, ProbeIsDue
    <3>2. e \in 0..(SecRange - 1) /\ idleFor \in Nat
      BY ElapsedInRange DEF HeatInv, HeatRanges
    <3> HIDE DEF e
    <3>3. i \in Nat
      BY HeatConstants
    <3>4. CASE heatLooped
      <4>1. e < i - ProbeRun /\ idleFor <= e + 1
        BY <3>1, <3>4
      <4>2. idleFor <= i - ProbeRun
        BY <4>1, <3>2, <3>3, HeatConstants
      <4> QED
        BY <4>2 DEF ProbeComes
    <3>5. CASE ~heatLooped
      <4>1. e <= i - ProbeRun /\ idleFor <= e
        BY <3>1, <3>5
      <4>2. idleFor <= i - ProbeRun
        BY <4>1, <3>2, <3>3, HeatConstants
      <4> QED
        BY <4>2 DEF ProbeComes
    <3> QED
      BY <3>4, <3>5
  <2>2. CASE ~(idleFor > 0)
    <3>1. idleFor <= Fallback - ProbeRun
      BY <2>2, HeatConstants DEF HeatInv, HeatRanges
    <3> QED
      BY <3>1 DEF ProbeComes
  <2> QED
    BY <2>1, <2>2
<1> QED
  BY <1>1, <1>2 DEF HeatInv, HeatSound

(* Heat with filtration, a temperature measured under flow for the time of *)
(* a probe, and a probe within the interval across every wrap of the       *)
(* clock, for any durations that fit into it.                              *)
THEOREM HeatCorrect == HeatSpec => []HeatSound
<1>1. HeatSpec => []HeatInv
  BY HeatInvInit, HeatInvNext, PTL DEF HeatSpec
<1> QED
  BY <1>1, HeatInvIsSound, PTL
-----------------------------------------------------------------------------
(* Filtration and robot.                                                   *)
-----------------------------------------------------------------------------
PoolFlags ==
    /\ timeSynced \in BOOLEAN /\ windowActive \in BOOLEAN /\ autoMode \in BOOLEAN
    /\ psiError \in BOOLEAN /\ cleaningDone \in BOOLEAN /\ calm \in BOOLEAN
    /\ autoRun \in BOOLEAN
    /\ on \in [LoopDevices -> BOOLEAN] /\ target \in [LoopDevices -> BOOLEAN]

BusFits == bus \in Seq(PoolEvents) /\ Len(bus) <= BusRoom

PoolRanges ==
    /\ clock \in 0..(DayTicks - 1) /\ BusFits
    /\ window \in Windows /\ pending \subseteq {"recalc", "dayReset", "reconcile"}
    /\ weather \in {"Mild", "Cold", "Frost"}
    /\ \A d \in LoopDevices : seen[d] \in 0..(Span[d] + 1)
    /\ robotManual \in {"None", "Start", "Stop"} /\ wish \in {"None", "Start", "Stop"}
    /\ loopAt \in {"Rest", "Decided", "Done"} /\ cleanings \in Nat /\ moves \in Nat

(* A standing command of the filtration is what the loop is about to write.*)
HandObeyed ==
    wish # "None" =>
        /\ ~autoMode /\ ~psiError /\ on["filtration"] = (wish = "Start")
        /\ loopAt = "Decided" => target["filtration"] = on["filtration"]

(* What an undisturbed loop decides, and then writes.                      *)
WellDecided(running) ==
    /\ autoMode /\ timeSynced /\ ~psiError /\ weather = "Mild" => running = ClockActive
    /\ psiError => ~running

ClockObeyed ==
    calm => /\ loopAt = "Decided" => WellDecided(target["filtration"])
            /\ loopAt = "Done" => WellDecided(on["filtration"])

(* A run of the robot that was counted is still seen or has left its mark, *)
(* and one that is not yet counted is the first.                           *)
RobotCounted ==
    /\ autoRun => on["robot"]
    /\ cleanings # 0 => cleaningDone \/ seen["robot"] # 0
    /\ autoRun /\ seen["robot"] = 0 => cleanings = 0
    /\ loopAt = "Decided" /\ target["robot"] /\ seen["robot"] = 0 /\ robotManual = "None" =>
           cleanings = 0
    /\ cleanings \in {0, 1}

PoolInv == PoolFlags /\ PoolRanges /\ HandObeyed /\ ClockObeyed /\ RobotCounted

LEMMA PoolConstants ==
    /\ DayTicks \in Nat \ {0} /\ robotDelayMin \in Nat /\ robotDurationMin \in Nat
    /\ BusRoom \in Nat /\ "filtration" \in LoopDevices /\ "robot" \in LoopDevices
    /\ Span["filtration"] \in Nat /\ Span["robot"] \in Nat
    /\ \A d \in LoopDevices : Span[d] \in Nat
BY PoolAssumption DEF LoopDevices, Span

LEMMA PostedFits ==
    ASSUME NEW b \in Seq(PoolEvents), Len(b) <= BusRoom, NEW e \in PoolEvents, NEW c \in Posted(b, e)
    PROVE  c \in Seq(PoolEvents) /\ Len(c) <= BusRoom
<1>1. CASE c = b
  BY <1>1
<1>2. CASE c # b
  <2>1. Len(b) < BusRoom /\ c = Append(b, e)
    BY <1>2 DEF Posted
  <2>2. c \in Seq(PoolEvents) /\ Len(c) = Len(b) + 1 /\ Len(b) \in Nat
    BY <2>1
  <2> QED
    BY <2>1, <2>2, PoolConstants
<1> QED
  BY <1>1, <1>2

LEMMA PoolInvInit == PoolInit => PoolInv
<1> SUFFICES ASSUME PoolInit PROVE PoolInv
  OBVIOUS
<1>1. PoolFlags
  BY DEF PoolInit, PoolFlags, Nothing
<1>2. BusFits
  BY PoolConstants DEF PoolInit, BusFits
<1>3. \A d \in LoopDevices : seen[d] = 0 /\ Span[d] \in Nat
  BY PoolConstants DEF PoolInit
<1>4. PoolRanges
  BY <1>2, <1>3, PoolConstants DEF PoolInit, PoolRanges
<1>5. HandObeyed /\ ClockObeyed /\ RobotCounted
  BY DEF PoolInit, HandObeyed, ClockObeyed, RobotCounted
<1> QED
  BY <1>1, <1>4, <1>5 DEF PoolInv

(* A step that neither is the loop nor touches what the loop counts.       *)
LEMMA CountsStand ==
    ASSUME RobotCounted, UNCHANGED <<seen, cleaningDone, cleanings, loopAt, target>>,
           autoRun' => autoRun /\ on'["robot"],
           robotManual' = robotManual \/ loopAt # "Decided"
    PROVE  RobotCounted'
BY DEF RobotCounted

LEMMA DecideKeeps ==
    ASSUME PoolInv, NEW w \in Windows, Decide(w) PROVE PoolInv'
<1>1. /\ loopAt = "Rest" /\ loopAt' = "Decided"
      /\ Recalculated(w)
      /\ windowActive' = WindowActive(w)
      /\ target' = [filtration |-> filtrationDesired(WindowActive(w)), robot |-> robotDesired]
      /\ pending' = {} /\ calm' = TRUE
      /\ seen' = [d \in LoopDevices |-> Seen(d)]
      /\ cleaningDone' = (DoneBefore \/ TimedOut) /\ robotManual' = RobotManual
      /\ UNCHANGED <<clock, timeSynced, autoMode, psiError, weather, on, wish, autoRun, moves>>
  BY DEF Decide
<1>f. PoolFlags
  BY DEF PoolInv
<1>r. PoolRanges
  BY DEF PoolInv
<1>2. window' = w /\ BusFits'
  <2>1. CASE "recalc" \in pending
    <3>1. window' = w /\ (bus' = bus \/ bus' \in Posted(bus, "Window"))
      BY <1>1, <2>1 DEF Recalculated
    <3>2. bus \in Seq(PoolEvents) /\ Len(bus) <= BusRoom /\ "Window" \in PoolEvents
      BY <1>r DEF PoolRanges, BusFits, PoolEvents
    <3> QED
      BY <3>1, <3>2, PostedFits DEF BusFits
  <2>2. CASE "recalc" \notin pending
    BY <1>1, <2>2, <1>r DEF Recalculated, PoolRanges, BusFits
  <2> QED
    BY <2>1, <2>2
<1>3. WindowActive(w) \in BOOLEAN
  <2>1. isFiltrationWindowActiveAtMinute(w, clock) \in BOOLEAN
    BY DEF isFiltrationWindowActiveAtMinute
  <2> QED
    BY <2>1, <1>f DEF WindowActive, PoolFlags
<1>4. filtrationDesired(WindowActive(w)) \in BOOLEAN
  BY <1>3 DEF filtrationDesired
<1>5. robotDesired \in BOOLEAN
  <2>1. on["robot"] \in BOOLEAN
    BY <1>f, PoolConstants DEF PoolFlags
  <2>2. CASE Requested # "None"
    BY <2>2 DEF robotDesired
  <2>3. CASE Requested = "None" /\ autoMode
    BY <2>3 DEF robotDesired
  <2>4. CASE Requested = "None" /\ ~autoMode
    BY <2>1, <2>4 DEF robotDesired
  <2> QED
    BY <2>2, <2>3, <2>4, <1>f DEF PoolFlags
<1>6. target' \in [LoopDevices -> BOOLEAN] /\ target'["robot"] = robotDesired
      /\ target'["filtration"] = filtrationDesired(WindowActive(w))
  <2>1. \A a, b \in BOOLEAN : [filtration |-> a, robot |-> b] \in [LoopDevices -> BOOLEAN]
    BY DEF LoopDevices
  <2> QED
    BY <2>1, <1>1, <1>4, <1>5
<1>7. PoolFlags'
  <2>1. cleaningDone' \in BOOLEAN
    BY <1>1, <1>f DEF DoneBefore, TimedOut, PoolFlags
  <2>2. windowActive' \in BOOLEAN
    BY <1>1, <1>3
  <2> QED
    BY <1>1, <1>6, <2>1, <2>2, <1>f DEF PoolFlags
<1>8. \A d \in LoopDevices :
          /\ seen'[d] \in 0..(Span[d] + 1)
          /\ IF on[d] THEN seen'[d] # 0 ELSE seen'[d] = 0
  <2> SUFFICES ASSUME NEW d \in LoopDevices
               PROVE  /\ seen'[d] \in 0..(Span[d] + 1)
                      /\ IF on[d] THEN seen'[d] # 0 ELSE seen'[d] = 0
    OBVIOUS
  <2>1. seen'[d] = Seen(d) /\ seen[d] \in 0..(Span[d] + 1) /\ Span[d] \in Nat
    BY <1>1, <1>r, PoolConstants DEF PoolRanges
  <2>2. CASE on[d]
    <3>1. seen'[d] = Least(seen[d] + 1, Span[d] + 1)
      BY <2>1, <2>2 DEF Seen
    <3>2. seen'[d] \in 0..(Span[d] + 1) /\ seen'[d] # 0
      BY <3>1, <2>1 DEF Least
    <3> QED
      BY <3>2, <2>2
  <2>3. CASE ~on[d]
    <3>1. seen'[d] = 0
      BY <2>1, <2>3 DEF Seen
    <3> QED
      BY <3>1, <2>1, <2>3
  <2> QED
    BY <2>2, <2>3
<1> DEFINE before == IF "dayReset" \in pending THEN 0 ELSE cleanings
<1>9. cleanings' = IF autoRun /\ on["robot"] /\ seen["robot"] = 0 THEN before + 1 ELSE before
  BY DEF Decide
<1> HIDE DEF before
<1>10. before = 0 \/ (before = cleanings /\ "dayReset" \notin pending)
  BY DEF before
<1>11. RobotManual \in {"None", "Start", "Stop"}
  BY <1>r DEF RobotManual, Requested, PoolRanges
<1>12. RobotCounted'
  <2>r. RobotCounted
    BY DEF PoolInv
  <2>1. autoRun' => on'["robot"]
    BY <1>1, <2>r DEF RobotCounted
  <2>2. cleanings' \in {0, 1}
    <3>1. CASE autoRun /\ on["robot"] /\ seen["robot"] = 0
      <4>1. cleanings = 0
        BY <3>1, <2>r DEF RobotCounted
      <4>2. before = 0
        BY <4>1, <1>10
      <4> QED
        BY <3>1, <1>9, <4>2
    <3>2. CASE ~(autoRun /\ on["robot"] /\ seen["robot"] = 0)
      <4>1. cleanings' = before
        BY <1>9, <3>2
      <4> QED
        BY <4>1, <1>10, <2>r DEF RobotCounted
    <3> QED
      BY <3>1, <3>2
  <2>3. cleanings' # 0 => cleaningDone' \/ seen'["robot"] # 0
    <3>1. CASE on["robot"]
      BY <3>1, <1>8, PoolConstants
    <3>2. CASE ~on["robot"]
      <4>1. cleanings' = before
        BY <1>9, <3>2
      <4>2. ASSUME cleanings' # 0 PROVE DoneBefore
        <5>1. "dayReset" \notin pending /\ (cleaningDone \/ seen["robot"] # 0)
          BY <4>1, <4>2, <1>10, <2>r DEF RobotCounted
        <5>2. seen["robot"] # 0 => seen["robot"] > 0
          BY <1>r, PoolConstants DEF PoolRanges
        <5> QED
          BY <5>1, <5>2, <3>2 DEF DoneBefore, Stopped
      <4> QED
        BY <4>2, <1>1
    <3> QED
      BY <3>1, <3>2
  <2>4. autoRun' => seen'["robot"] # 0
    BY <1>1, <2>1, <1>8, PoolConstants
  <2>5. target'["robot"] /\ seen'["robot"] = 0 /\ robotManual' = "None" => cleanings' = 0
    <3> SUFFICES ASSUME robotDesired, seen'["robot"] = 0, RobotManual = "None"
                 PROVE  cleanings' = 0
      BY <1>1, <1>6
    <3>1. ~on["robot"]
      BY <1>8, PoolConstants
    <3>2. CASE Requested # "None"
      <4>1. on["filtration"] /\ Requested = "Start" /\ ~RanFor("robot")
        BY <3>2 DEF robotDesired
      <4>2. RobotManual = "Start"
        BY <4>1 DEF RobotManual, TimedOut
      <4> QED
        BY <4>2
    <3>3. CASE Requested = "None" /\ autoMode
      <4>1. ~DoneBefore
        BY <3>3 DEF robotDesired
      <4>2. ~TimedOut
        BY <3>3 DEF TimedOut
      <4> QED
        BY <4>1, <4>2, <1>1, <2>3
    <3>4. CASE Requested = "None" /\ ~autoMode
      BY <3>1, <3>4 DEF robotDesired
    <3> QED
      BY <3>2, <3>3, <3>4, <1>f DEF PoolFlags
  <2> QED
    BY <2>1, <2>2, <2>3, <2>4, <2>5, <1>1 DEF RobotCounted
<1>13. PoolRanges'
  <2>1. cleanings' \in Nat
    BY <1>12 DEF RobotCounted
  <2> QED
    BY <1>1, <1>2, <1>8, <1>11, <1>r, <2>1 DEF PoolRanges
<1>14. HandObeyed'
  <2> SUFFICES ASSUME wish # "None"
               PROVE  /\ ~autoMode /\ ~psiError /\ on["filtration"] = (wish = "Start")
                      /\ target'["filtration"] = on["filtration"]
    BY <1>1 DEF HandObeyed
  <2>1. ~autoMode /\ ~psiError /\ on["filtration"] = (wish = "Start")
    BY DEF PoolInv, HandObeyed
  <2>2. filtrationDesired(WindowActive(w)) = on["filtration"]
    <3>1. on["filtration"] \in BOOLEAN
      BY <1>f, PoolConstants DEF PoolFlags
    <3> QED
      BY <3>1, <2>1 DEF filtrationDesired
  <2> QED
    BY <2>1, <2>2, <1>6
<1>15. ClockObeyed'
  <2>1. ClockActive' = isFiltrationWindowActiveAtMinute(w, clock)
    BY <1>1, <1>2 DEF ClockActive
  <2>2. ASSUME autoMode, timeSynced, ~psiError, weather = "Mild"
        PROVE  target'["filtration"] = ClockActive'
    <3>1. WindowActive(w) = ClockActive'
      BY <2>1, <2>2 DEF WindowActive
    <3>2. filtrationDesired(WindowActive(w)) = WindowActive(w)
      BY <2>2, <1>3 DEF filtrationDesired
    <3> QED
      BY <3>1, <3>2, <1>6
  <2>3. psiError => ~target'["filtration"]
    BY <1>6 DEF filtrationDesired
  <2> QED
    BY <2>2, <2>3, <1>1 DEF ClockObeyed, WellDecided
<1> QED
  BY <1>7, <1>12, <1>13, <1>14, <1>15 DEF PoolInv

LEMMA ActKeeps == PoolInv /\ Act => PoolInv'
<1> SUFFICES ASSUME PoolInv, Act PROVE PoolInv'
  OBVIOUS
<1>1. /\ loopAt = "Decided" /\ loopAt' = "Done"
      /\ on' = [filtration |-> target["filtration"],
                robot |-> target["robot"] /\ (on["robot"] \/ target["filtration"])]
      /\ target' = Nothing
      /\ autoRun' = (on'["robot"]
                     /\ (autoRun \/ (~on["robot"] /\ autoMode /\ robotManual = "None")))
      /\ UNCHANGED <<clock, timeSynced, bus, window, windowActive, pending, autoMode, psiError,
                     weather, seen, cleaningDone, robotManual, wish, calm, cleanings, moves>>
  BY DEF Act
<1>2. target["filtration"] \in BOOLEAN /\ target["robot"] \in BOOLEAN /\ on["robot"] \in BOOLEAN
  BY PoolConstants DEF PoolInv, PoolFlags
<1>3. /\ on' \in [LoopDevices -> BOOLEAN] /\ on'["filtration"] = target["filtration"]
      /\ on'["robot"] = (target["robot"] /\ (on["robot"] \/ target["filtration"]))
  <2>1. \A a, b \in BOOLEAN : [filtration |-> a, robot |-> b] \in [LoopDevices -> BOOLEAN]
    BY DEF LoopDevices
  <2>2. (target["robot"] /\ (on["robot"] \/ target["filtration"])) \in BOOLEAN
    OBVIOUS
  <2> QED
    BY <2>1, <2>2, <1>1, <1>2
<1>4. PoolFlags'
  <2>1. autoRun' \in BOOLEAN
    BY <1>1, <1>3 DEF LoopDevices
  <2>2. target' \in [LoopDevices -> BOOLEAN]
    BY <1>1 DEF Nothing
  <2> QED
    BY <1>1, <1>3, <2>1, <2>2 DEF PoolInv, PoolFlags
<1>5. PoolRanges'
  BY <1>1 DEF PoolInv, PoolRanges, BusFits
<1>6. HandObeyed'
  BY <1>1, <1>3 DEF PoolInv, HandObeyed
<1>7. ClockObeyed'
  BY <1>1, <1>3 DEF PoolInv, ClockObeyed, WellDecided, ClockActive
<1>8. RobotCounted'
  <2>1. RobotCounted
    BY DEF PoolInv
  <2>2. autoRun' => on'["robot"]
    BY <1>1
  <2>3. ASSUME autoRun', seen["robot"] = 0 PROVE cleanings = 0
    <3>1. CASE autoRun
      BY <3>1, <2>1, <2>3 DEF RobotCounted
    <3>2. CASE ~autoRun
      <4>1. target["robot"] /\ robotManual = "None"
        BY <3>2, <2>3, <1>1, <1>3
      <4> QED
        BY <4>1, <2>1, <2>3, <1>1 DEF RobotCounted
    <3> QED
      BY <3>1, <3>2
  <2> QED
    BY <2>1, <2>2, <2>3, <1>1 DEF RobotCounted
<1> QED
  BY <1>4, <1>5, <1>6, <1>7, <1>8 DEF PoolInv

LEMMA PoolInvNext == PoolInv /\ [PoolNext]_poolLogicVars => PoolInv'
<1> SUFFICES ASSUME PoolInv, [PoolNext]_poolLogicVars PROVE PoolInv'
  OBVIOUS
<1>f. PoolFlags
  BY DEF PoolInv
<1>r. PoolRanges
  BY DEF PoolInv
<1>b. bus \in Seq(PoolEvents) /\ Len(bus) <= BusRoom
  BY <1>r DEF PoolRanges, BusFits
<1>h. HandObeyed /\ ClockObeyed /\ RobotCounted
  BY DEF PoolInv
<1>n. ASSUME Move PROVE moves' \in Nat
  BY <1>n, <1>r DEF Move, PoolRanges
<1>c. ASSUME calm' = FALSE PROVE ClockObeyed'
  BY <1>c DEF ClockObeyed
<1>1. ASSUME NEW w \in Windows, Decide(w) PROVE PoolInv'
  BY <1>1, DecideKeeps
<1>2. CASE Act
  BY <1>2, ActKeeps
<1>3. ASSUME NEW v \in BOOLEAN, cmdFiltrationWrite(v) PROVE PoolInv'
  <2>1. /\ Move /\ loopAt # "Decided" /\ autoMode' = FALSE
        /\ on' = [on EXCEPT !["filtration"] = v]
        /\ wish' = (IF psiError THEN "None" ELSE IF v THEN "Start" ELSE "Stop")
        /\ calm' = FALSE
        /\ UNCHANGED <<clock, timeSynced, window, windowActive, pending, psiError, weather, seen,
                       cleaningDone, robotManual, loopAt, target, autoRun, cleanings>>
    BY <1>3 DEF cmdFiltrationWrite, LockFree
  <2>2. BusFits'
    <3>1. bus' = bus \/ bus' \in Posted(bus, "AutoMode")
      BY <1>3 DEF cmdFiltrationWrite
    <3>2. "AutoMode" \in PoolEvents
      BY DEF PoolEvents
    <3> QED
      BY <3>1, <3>2, <1>b, PostedFits DEF BusFits
  <2>3. on' \in [LoopDevices -> BOOLEAN] /\ on'["filtration"] = v /\ on'["robot"] = on["robot"]
    BY <2>1, <1>f DEF PoolFlags, LoopDevices
  <2>4. PoolFlags'
    BY <2>1, <2>3, <1>f DEF PoolFlags
  <2>5. PoolRanges'
    BY <2>1, <2>2, <1>n, <1>r DEF PoolRanges
  <2>6. HandObeyed'
    <3>1. ASSUME ~psiError PROVE v = (wish' = "Start")
      <4>1. CASE v
        BY <4>1, <3>1, <2>1
      <4>2. CASE ~v
        BY <4>2, <3>1, <2>1
      <4> QED
        BY <4>1, <4>2
    <3> QED
      BY <3>1, <2>1, <2>3 DEF HandObeyed
  <2>7. RobotCounted'
    BY <2>1, <2>3, <1>h, CountsStand DEF RobotCounted
  <2> QED
    BY <2>1, <2>4, <2>5, <2>6, <2>7, <1>c DEF PoolInv
<1>4. ASSUME NEW v \in BOOLEAN, applyRobotManualValue(v) PROVE PoolInv'
  <2>1. /\ Move /\ loopAt # "Decided" /\ robotManual' = (IF v THEN "Start" ELSE "Stop")
        /\ on' = [on EXCEPT !["robot"] = v] /\ autoRun' = (v /\ autoRun) /\ calm' = FALSE
        /\ UNCHANGED <<clock, timeSynced, bus, window, windowActive, pending, autoMode, psiError,
                       weather, seen, cleaningDone, loopAt, target, wish, cleanings>>
    BY <1>4 DEF applyRobotManualValue, LockFree
  <2>2. on' \in [LoopDevices -> BOOLEAN] /\ on'["filtration"] = on["filtration"] /\ on'["robot"] = v
    BY <2>1, <1>f DEF PoolFlags, LoopDevices
  <2>3. PoolFlags'
    BY <2>1, <2>2, <1>f DEF PoolFlags
  <2>4. PoolRanges'
    BY <2>1, <1>n, <1>r DEF PoolRanges, BusFits
  <2>5. HandObeyed'
    BY <2>1, <2>2, <1>h DEF HandObeyed
  <2>6. RobotCounted'
    BY <2>1, <2>2, <1>h, CountsStand
  <2> QED
    BY <2>1, <2>3, <2>4, <2>5, <2>6, <1>c DEF PoolInv
<1>5. ASSUME NEW v \in BOOLEAN, cmdAutoModeSet(v) PROVE PoolInv'
  <2>1. /\ Move /\ autoMode' = v /\ wish' = (IF v THEN "None" ELSE wish) /\ calm' = FALSE
        /\ UNCHANGED <<clock, timeSynced, window, windowActive, pending, psiError, weather, on,
                       seen, cleaningDone, robotManual, loopAt, target, autoRun, cleanings>>
    BY <1>5 DEF cmdAutoModeSet
  <2>2. BusFits'
    <3>1. bus' = bus \/ bus' \in Posted(bus, "AutoMode")
      BY <1>5 DEF cmdAutoModeSet
    <3>2. "AutoMode" \in PoolEvents
      BY DEF PoolEvents
    <3> QED
      BY <3>1, <3>2, <1>b, PostedFits DEF BusFits
  <2>3. PoolFlags'
    BY <2>1, <1>f DEF PoolFlags
  <2>4. PoolRanges'
    BY <2>1, <2>2, <1>n, <1>r DEF PoolRanges
  <2>5. HandObeyed'
    BY <2>1, <1>h DEF HandObeyed
  <2>6. RobotCounted'
    BY <2>1, <1>h, CountsStand DEF RobotCounted
  <2> QED
    BY <2>1, <2>3, <2>4, <2>5, <2>6, <1>c DEF PoolInv
<1>6. ASSUME NEW v \in BOOLEAN, WriteDevice(v) PROVE PoolInv'
  <2>1. /\ Move /\ on' = [on EXCEPT !["filtration"] = v] /\ wish' = "None" /\ calm' = FALSE
        /\ UNCHANGED <<clock, timeSynced, bus, window, windowActive, pending, autoMode, psiError,
                       weather, seen, cleaningDone, robotManual, loopAt, target, autoRun,
                       cleanings>>
    BY <1>6 DEF WriteDevice
  <2>2. on' \in [LoopDevices -> BOOLEAN] /\ on'["robot"] = on["robot"]
    BY <2>1, <1>f DEF PoolFlags, LoopDevices
  <2>3. PoolFlags'
    BY <2>1, <2>2, <1>f DEF PoolFlags
  <2>4. PoolRanges'
    BY <2>1, <1>n, <1>r DEF PoolRanges, BusFits
  <2>5. HandObeyed'
    BY <2>1 DEF HandObeyed
  <2>6. RobotCounted'
    BY <2>1, <2>2, <1>h, CountsStand DEF RobotCounted
  <2> QED
    BY <2>1, <2>3, <2>4, <2>5, <2>6, <1>c DEF PoolInv
<1>7. CASE InterlockStops
  <2>1. /\ on' = [on EXCEPT !["robot"] = FALSE] /\ autoRun' = FALSE
        /\ UNCHANGED <<clock, timeSynced, bus, window, windowActive, pending, autoMode, psiError,
                       weather, seen, cleaningDone, robotManual, loopAt, target, wish, calm,
                       cleanings, moves>>
    BY <1>7 DEF InterlockStops
  <2>2. on' \in [LoopDevices -> BOOLEAN] /\ on'["filtration"] = on["filtration"]
    BY <2>1, <1>f DEF PoolFlags, LoopDevices
  <2>3. PoolFlags'
    BY <2>1, <2>2, <1>f DEF PoolFlags
  <2>4. PoolRanges'
    BY <2>1, <1>r DEF PoolRanges, BusFits
  <2>5. HandObeyed' /\ ClockObeyed'
    BY <2>1, <2>2, <1>h DEF HandObeyed, ClockObeyed, WellDecided, ClockActive
  <2>6. RobotCounted'
    BY <2>1, <1>h, CountsStand
  <2> QED
    BY <2>3, <2>4, <2>5, <2>6 DEF PoolInv
<1>8. CASE onEvent
  <2>1. /\ bus # <<>> /\ bus' = Tail(bus) /\ pending' = pending \cup Latch(Head(bus))
        /\ UNCHANGED <<clock, timeSynced, window, autoMode, psiError, weather, on, seen,
                       cleaningDone, robotManual, loopAt, target, wish, calm, autoRun, cleanings,
                       moves>>
    BY <1>8 DEF onEvent
  <2>2. BusFits'
    <3>1. Tail(bus) \in Seq(PoolEvents) /\ Len(Tail(bus)) = Len(bus) - 1 /\ Len(bus) \in Nat
      BY <2>1, <1>b
    <3> QED
      BY <3>1, <2>1, <1>b, PoolConstants DEF BusFits
  <2>3. pending' \subseteq {"recalc", "dayReset", "reconcile"}
    BY <2>1, <1>r DEF Latch, PoolRanges
  <2>4. windowActive' \in BOOLEAN
    <3>1. CASE Head(bus) = "Start"
      BY <3>1, <1>8 DEF onEvent
    <3>2. CASE Head(bus) = "Stop"
      BY <3>2, <1>8 DEF onEvent
    <3>3. CASE Head(bus) = "Window"
      <4>1. windowActive' = (timeSynced /\ ClockActive)
        BY <3>3, <1>8 DEF onEvent
      <4> QED
        BY <4>1
    <3>4. CASE Head(bus) \notin {"Start", "Stop", "Window"}
      <4>1. windowActive' = windowActive
        BY <3>4, <1>8 DEF onEvent
      <4> QED
        BY <4>1, <1>f DEF PoolFlags
    <3> QED
      BY <3>1, <3>2, <3>3, <3>4
  <2>5. PoolFlags'
    BY <2>1, <2>4, <1>f DEF PoolFlags
  <2>6. PoolRanges'
    BY <2>1, <2>2, <2>3, <1>r DEF PoolRanges
  <2>7. HandObeyed' /\ ClockObeyed' /\ RobotCounted'
    BY <2>1, <1>h DEF HandObeyed, ClockObeyed, WellDecided, ClockActive, RobotCounted
  <2> QED
    BY <2>5, <2>6, <2>7 DEF PoolInv
<1>9. CASE CircumstancesTurn
  <2>1. /\ Move /\ calm' = FALSE
        /\ UNCHANGED <<clock, bus, window, windowActive, pending, autoMode, on, seen, cleaningDone,
                       robotManual, loopAt, target, autoRun, cleanings>>
        /\ \/ timeSynced' = ~timeSynced /\ UNCHANGED <<psiError, weather, wish>>
           \/ psiError' = ~psiError /\ wish' = "None" /\ UNCHANGED <<timeSynced, weather>>
           \/ weather' \in {"Mild", "Cold", "Frost"} /\ UNCHANGED <<timeSynced, psiError, wish>>
    BY <1>9 DEF CircumstancesTurn
  <2>2. timeSynced' \in BOOLEAN /\ psiError' \in BOOLEAN
    BY <2>1, <1>f DEF PoolFlags
  <2>3. PoolFlags'
    BY <2>1, <2>2, <1>f DEF PoolFlags
  <2>4. wish' \in {"None", "Start", "Stop"} /\ weather' \in {"Mild", "Cold", "Frost"}
    BY <2>1, <1>r DEF PoolRanges
  <2>5. PoolRanges'
    BY <2>1, <2>4, <1>n, <1>r DEF PoolRanges, BusFits
  <2>6. HandObeyed'
    BY <2>1, <1>h DEF HandObeyed
  <2>7. RobotCounted'
    BY <2>1, <1>h, CountsStand DEF RobotCounted
  <2> QED
    BY <2>1, <2>3, <2>5, <2>6, <2>7, <1>c DEF PoolInv
<1>10. CASE ClockTicks
  <2>1. /\ loopAt = "Done" /\ loopAt' = "Rest" /\ clock' = (clock + 1) % DayTicks
        /\ UNCHANGED <<timeSynced, window, windowActive, pending, autoMode, psiError, weather, on,
                       seen, cleaningDone, robotManual, target, wish, calm, autoRun, cleanings,
                       moves>>
    BY <1>10 DEF ClockTicks
  <2>2. clock' \in 0..(DayTicks - 1)
    BY <2>1, <1>r, PoolConstants, RemainderInRange DEF PoolRanges
  <2>3. BusFits'
    <3>1. PICK lost \in BOOLEAN, again \in BOOLEAN :
              LET posted == bus \o (IF timeSynced THEN Scheduled(clock', again) \o Daily(clock')
                                    ELSE <<>>)
              IN  bus' = IF lost THEN bus ELSE SubSeq(posted, 1, Least(Len(posted), BusRoom))
      BY <1>10 DEF ClockTicks
    <3> DEFINE brought == IF timeSynced THEN Scheduled(clock', again) \o Daily(clock') ELSE <<>>
    <3>e. /\ <<>> \in Seq(PoolEvents) /\ <<"Start">> \in Seq(PoolEvents)
          /\ <<"Stop">> \in Seq(PoolEvents) /\ <<"DayStart", "Recalc">> \in Seq(PoolEvents)
      BY DEF PoolEvents
    <3>2. Scheduled(clock', again) \in Seq(PoolEvents)
      <4> DEFINE before == SlotActive(clock) /\ ~again
      <4>1. CASE SlotActive(clock') /\ ~before
        BY <4>1, <3>e DEF Scheduled
      <4>2. CASE ~(SlotActive(clock') /\ ~before) /\ before /\ ~SlotActive(clock')
        BY <4>2, <3>e DEF Scheduled
      <4>3. CASE ~(SlotActive(clock') /\ ~before) /\ ~(before /\ ~SlotActive(clock'))
        BY <4>3, <3>e DEF Scheduled
      <4> QED
        BY <4>1, <4>2, <4>3
    <3>3. Daily(clock') \in Seq(PoolEvents)
      BY <3>e DEF Daily
    <3>4. brought \in Seq(PoolEvents)
      BY <3>2, <3>3
    <3>5. bus' = IF lost THEN bus
                 ELSE SubSeq(bus \o brought, 1, Least(Len(bus \o brought), BusRoom))
      BY <3>1
    <3> HIDE DEF brought
    <3> DEFINE posted == bus \o brought
    <3>6. posted \in Seq(PoolEvents) /\ Len(posted) \in Nat
      BY <3>4, <1>b
    <3>7. bus' = IF lost THEN bus ELSE SubSeq(posted, 1, Least(Len(posted), BusRoom))
      BY <3>5
    <3> HIDE DEF posted
    <3>8. /\ Least(Len(posted), BusRoom) \in Nat /\ Least(Len(posted), BusRoom) <= Len(posted)
          /\ Least(Len(posted), BusRoom) <= BusRoom
      BY <3>6, PoolConstants DEF Least
    <3>9. ASSUME NEW n \in Nat, n <= Len(posted)
          PROVE  SubSeq(posted, 1, n) \in Seq(PoolEvents) /\ Len(SubSeq(posted, 1, n)) = n
      BY <3>6, <3>9
    <3>10. CASE lost
      BY <3>7, <3>10, <1>b DEF BusFits
    <3>11. CASE ~lost
      BY <3>7, <3>8, <3>9, <3>11 DEF BusFits
    <3> QED
      BY <3>10, <3>11
  <2>4. PoolFlags'
    BY <2>1, <1>f DEF PoolFlags
  <2>5. PoolRanges'
    BY <2>1, <2>2, <2>3, <1>r DEF PoolRanges
  <2>6. HandObeyed' /\ ClockObeyed' /\ RobotCounted'
    BY <2>1, <1>h DEF HandObeyed, ClockObeyed, RobotCounted
  <2> QED
    BY <2>4, <2>5, <2>6 DEF PoolInv
<1>11. CASE UNCHANGED poolLogicVars
  BY <1>11 DEF poolLogicVars, PoolInv, PoolFlags, PoolRanges, BusFits, HandObeyed, ClockObeyed,
     WellDecided, ClockActive, RobotCounted
<1> QED
  BY <1>1, <1>2, <1>3, <1>4, <1>5, <1>6, <1>7, <1>8, <1>9, <1>10, <1>11 DEF PoolNext

LEMMA PoolInvIsSound == PoolInv => FiltrationSound
<1> SUFFICES ASSUME PoolInv PROVE FiltrationSound
  OBVIOUS
<1>1. PoolTypeOK
  BY DEF PoolInv, PoolFlags, PoolRanges, BusFits, PoolTypeOK
<1>2. ManualWriteKept
  BY DEF PoolInv, HandObeyed, ManualWriteKept
<1>3. FollowsWindow /\ PsiStops
  BY DEF PoolInv, ClockObeyed, WellDecided, FollowsWindow, PsiStops
<1>4. OneCleaning
  BY DEF PoolInv, RobotCounted, OneCleaning
<1> QED
  BY <1>1, <1>2, <1>3, <1>4 DEF FiltrationSound

(* The hand, the clock and the alarm are obeyed in this order of events,   *)
(* whatever commands and events come between a decision and its writing,   *)
(* and the robot is started once between two daily resets, for any window, *)
(* any durations and any room on the bus.                                  *)
THEOREM FiltrationCorrect == PoolSpec => []FiltrationSound
<1>1. PoolSpec => []PoolInv
  BY PoolInvInit, PoolInvNext, PTL DEF PoolSpec
<1> QED
  BY <1>1, PoolInvIsSound, PTL
=============================================================================
