----------------------------- MODULE MCDrivers -----------------------------
(* The two drivers, the clock that paces their line and the slots they     *)
(* serve side by side: a behaviour exercises one of them.                  *)
EXTENDS DiscreteSpeeds, SerialDevice, BusClock, PoolDevices

VARIABLE part

Polytropic == [separate |-> TRUE,  limits |-> TRUE,  feedback |-> "StatusMask"]
AquaGem    == [separate |-> FALSE, limits |-> FALSE, feedback |-> "DeviceStatus"]
Blind      == [separate |-> TRUE,  limits |-> FALSE, feedback |-> "None"]
MCProfiles == {Polytropic, AquaGem, Blind}

(* A robot, the slot 0, that is visited before the pump it needs.          *)
RobotFirst == [i \in Slots |-> IF i = 0 THEN {1} ELSE {}]
NoSlots == [i \in Slots |-> {}]

driverVars == <<speedVars, serialVars, clockVars, vars, part>>

DriverInit ==
    /\ part \in {"speeds", "serial", "clock", "pool"}
    /\ SpeedInit /\ SerialInit /\ ClockInit /\ Init
    /\ part # "serial" => profile = Blind
    /\ part # "clock" => now = 0

DriverNext ==
    /\ \/ part = "speeds" /\ SpeedNext /\ UNCHANGED <<serialVars, clockVars, vars>>
       \/ part = "serial" /\ SerialNext /\ UNCHANGED <<speedVars, clockVars, vars>>
       \/ part = "clock" /\ ClockNext /\ UNCHANGED <<speedVars, serialVars, vars>>
       \/ part = "pool" /\ Next /\ UNCHANGED <<speedVars, serialVars, clockVars>>
    /\ UNCHANGED part

(* The fairness of each part, restated for it; the clock owes nothing.  A  *)
(* slot the cursor stands at can always be visited, as can the loop begin  *)
(* again: weak fairness of these is that the cursor does not stay.         *)
DriverSpec ==
    /\ DriverInit
    /\ [][DriverNext]_driverVars
    /\ WF_speedVars(part = "speeds" /\ DeadTimePasses)
    /\ WF_speedVars(part = "speeds" /\ OpenAll)
    /\ WF_speedVars(part = "speeds" /\ StopInDeadTime)
    /\ WF_speedVars(part = "speeds" /\ Energise(TRUE, TRUE))
    /\ WF_serialVars(part = "serial" /\ \E op \in Operations : TickSubmits(op))
    /\ WF_serialVars(part = "serial" /\ Transmit)
    /\ WF_serialVars(part = "serial" /\ Reach)
    /\ WF_serialVars(part = "serial" /\ wire # Nothing /\ wire.reached /\ Finish(TRUE))
    /\ []<>~(part = "pool" /\ cursor = 2)
    /\ \A i \in 0..1 : []<>(cursor # i)

(* A target that stays reaches the output, and the loss of a dependency    *)
(* stops what needs it.                                                    *)
OutputsFollow == SpeedDriven /\ TargetReached /\ LossStops
=============================================================================
