------------------------------- MODULE PhDosing -------------------------------
(***************************************************************************)
(* PoolLogicModule: the pH pump, between the regulation, which is armed    *)
(* once the filtration has run long enough, and the hand of the user.  The *)
(* loop decides (RegulatePh) and writes (WritePh) under the lock that the  *)
(* commands take; the event that announces the automatic mode reads it and *)
(* then stops the pump without that lock, so that a command may come in    *)
(* between, and it between the two steps of a command.                     *)
(*                                                                         *)
(* The loop runs once in a tick, and the filtration does not turn twice    *)
(* between two of its runs.  The ORP pump is regulated the same way; it is *)
(* taken as off.                                                           *)
(*                                                                         *)
(* The operators that no action uses (Runaway, StaysArmed, AnyChange) are  *)
(* mistakes easily made here, kept beside the definition they would        *)
(* replace: each breaks a property below.                                  *)
(***************************************************************************)
EXTENDS Integers

CONSTANT delayPidsMin  \* in ticks

ASSUME PhAssumption == delayPidsMin \in Nat

VARIABLES
    filtering,      \* the filtration runs
    turned,         \* it has turned since the loop has read it
    flow,           \* history: 0, or one more than the ticks it has run without a stop
    runMin,         \* what the loop has seen of that
    winterMode, phAutoMode,
    permitted,      \* the probe answers, no pressure alarm, the tank is not low
    phPidEnabled,
    pidInitialized, \* phPidState_
    phPump,         \* the target of the pump, and the pump
    announced,      \* the change of phAutoMode is on the event bus
    starting,       \* a command has started the pump and has yet to leave the automatic mode
    stopping,       \* the event has found the automatic mode and has yet to stop the pump
    phLoopAt,
    phTarget,       \* phPumpDesired, and history: whether the regulation decided it
    startedBy,      \* history: whose start of the pump stands
    undisturbed     \* history: nothing that the loop reads has changed since it read it

phVars == <<filtering, turned, flow, runMin, winterMode, phAutoMode, permitted, phPidEnabled,
            pidInitialized, phPump, announced, starting, stopping, phLoopAt, phTarget, startedBy,
            undisturbed>>

Enough        == delayPidsMin + 1
UpToEnough(n) == IF n > Enough THEN Enough ELSE n
NoTarget      == [running |-> FALSE, regulated |-> FALSE]
-----------------------------------------------------------------------------
(* The loop: the regulation is armed anew after each stop.                 *)
Runaway == IF filtering THEN runMin + 1 ELSE 0

RunMin == IF filtering THEN UpToEnough(runMin + 1) ELSE 0

SeenTurning == filtering <=> runMin = 0

StaysArmed ==
    /\ phAutoMode
    /\ phPidEnabled \/ (filtering /\ ~winterMode /\ RunMin = Enough)

Armed ==
    /\ phAutoMode /\ filtering /\ ~winterMode
    /\ (phPidEnabled /\ ~SeenTurning) \/ RunMin = Enough

Regulated(filtrationDesired) == phAutoMode /\ filtrationDesired /\ Armed /\ permitted

(* The first step of a regulation that was reset demands nothing.          *)
RegulatePh(filtrationDesired, demand) ==
    /\ phLoopAt = "Rest" /\ ~starting /\ phLoopAt' = "Decided" /\ undisturbed' = TRUE
    /\ demand => Regulated(filtrationDesired) /\ pidInitialized /\ ~SeenTurning
    /\ runMin' = RunMin /\ turned' = FALSE /\ phPidEnabled' = Armed
    /\ pidInitialized' = Regulated(filtrationDesired)
    /\ phTarget' = [running |-> IF Regulated(filtrationDesired) THEN demand ELSE phPump,
                    regulated |-> Regulated(filtrationDesired)]
    /\ UNCHANGED <<filtering, flow, winterMode, phAutoMode, permitted, phPump, announced,
                   starting, stopping, startedBy>>

(* PoolDeviceModule does not start the pump without filtration.            *)
WritePh ==
    /\ phLoopAt = "Decided" /\ phLoopAt' = "Done"
    /\ phPump' = (phTarget.running /\ (phPump \/ filtering)) /\ phTarget' = NoTarget
    /\ startedBy' = CASE phPump' /\ phTarget.regulated -> "Regulation"
                       [] ~phPump' /\ startedBy = "Regulation" -> "Nobody"
                       [] OTHER -> startedBy
    /\ UNCHANGED <<filtering, turned, flow, runMin, winterMode, phAutoMode, permitted,
                   phPidEnabled, pidInitialized, announced, starting, stopping, undisturbed>>
-----------------------------------------------------------------------------
(* A command that starts the pump leaves the automatic mode afterwards,    *)
(* and the change is announced if the bus has room for it.                 *)
Announced(auto) == announced' \in {announced, announced \/ auto # phAutoMode}

cmdPhPumpWrite(running) ==
    /\ phLoopAt # "Decided" /\ ~starting /\ (running => filtering)
    /\ phPump' = running /\ starting' = running /\ undisturbed' = FALSE
    /\ startedBy' = IF running /\ ~stopping THEN "Hand" ELSE "Nobody"
    /\ UNCHANGED <<filtering, turned, flow, runMin, winterMode, phAutoMode, permitted,
                   phPidEnabled, pidInitialized, announced, stopping, phLoopAt, phTarget>>

LeavePhAuto ==
    /\ starting /\ starting' = FALSE
    /\ phAutoMode' = FALSE /\ Announced(FALSE) /\ undisturbed' = FALSE
    /\ UNCHANGED <<filtering, turned, flow, runMin, winterMode, permitted, phPidEnabled,
                   pidInitialized, phPump, stopping, phLoopAt, phTarget, startedBy>>

SetPhAutoMode ==
    /\ phAutoMode' = ~phAutoMode /\ Announced(phAutoMode')
    /\ startedBy' = (IF phAutoMode THEN startedBy ELSE "Nobody") /\ undisturbed' = FALSE
    /\ UNCHANGED <<filtering, turned, flow, runMin, winterMode, permitted, phPidEnabled,
                   pidInitialized, phPump, starting, stopping, phLoopAt, phTarget>>

(* pooldevice.write, which clears the automatic mode in a later step.      *)
WritePump ==
    /\ (phPump \/ filtering) /\ phPump' = ~phPump /\ startedBy' = "Nobody" /\ undisturbed' = FALSE
    /\ UNCHANGED <<filtering, turned, flow, runMin, winterMode, phAutoMode, permitted,
                   phPidEnabled, pidInitialized, announced, starting, stopping, phLoopAt, phTarget>>

(* The event: "entering pH auto starts from a safe stopped pump".  A start *)
(* by hand that it meets before the command has left the mode is lost.     *)
AnyChange == TRUE

EntersAuto == phAutoMode

onPhEvent ==
    /\ announced /\ ~stopping /\ announced' = FALSE /\ stopping' = EntersAuto
    /\ startedBy' = (IF startedBy = "Hand" /\ phAutoMode THEN "Nobody" ELSE startedBy)
    /\ UNCHANGED <<filtering, turned, flow, runMin, winterMode, phAutoMode, permitted,
                   phPidEnabled, pidInitialized, phPump, starting, phLoopAt, phTarget, undisturbed>>

StopPhPump ==
    /\ stopping /\ stopping' = FALSE
    /\ phPump' = FALSE /\ pidInitialized' = FALSE /\ undisturbed' = FALSE
    /\ UNCHANGED <<filtering, turned, flow, runMin, winterMode, phAutoMode, permitted,
                   phPidEnabled, announced, starting, phLoopAt, phTarget, startedBy>>

(* The surroundings.                                                       *)
FiltrationSwitches ==
    /\ ~turned /\ turned' = TRUE /\ filtering' = ~filtering /\ undisturbed' = FALSE
    /\ flow' = IF filtering THEN 0 ELSE 1
    /\ UNCHANGED <<runMin, winterMode, phAutoMode, permitted, phPidEnabled, pidInitialized,
                   phPump, announced, starting, stopping, phLoopAt, phTarget, startedBy>>

PumpInterlock ==
    /\ phPump /\ ~filtering /\ phPump' = FALSE /\ startedBy' = "Nobody"
    /\ UNCHANGED <<filtering, turned, flow, runMin, winterMode, phAutoMode, permitted, phPidEnabled,
                   pidInitialized, announced, starting, stopping, phLoopAt, phTarget, undisturbed>>

PermissionTurns ==
    /\ \/ permitted' = ~permitted /\ UNCHANGED winterMode
       \/ winterMode' = ~winterMode /\ UNCHANGED permitted
    /\ undisturbed' = FALSE
    /\ UNCHANGED <<filtering, turned, flow, runMin, phAutoMode, phPidEnabled, pidInitialized,
                   phPump, announced, starting, stopping, phLoopAt, phTarget, startedBy>>

PhTick ==
    /\ phLoopAt = "Done" /\ (phPump => filtering)
    /\ phLoopAt' = "Rest" /\ flow' = IF filtering THEN UpToEnough(flow + 1) ELSE 0
    /\ UNCHANGED <<filtering, turned, runMin, winterMode, phAutoMode, permitted, phPidEnabled,
                   pidInitialized, phPump, announced, starting, stopping, phTarget, startedBy,
                   undisturbed>>
-----------------------------------------------------------------------------
PhInit ==
    /\ filtering = FALSE /\ turned = FALSE /\ flow = 0 /\ runMin = 0
    /\ winterMode = FALSE /\ phAutoMode \in BOOLEAN /\ permitted = TRUE
    /\ phPidEnabled = FALSE /\ pidInitialized = FALSE /\ phPump = FALSE /\ announced = FALSE
    /\ starting = FALSE /\ stopping = FALSE
    /\ phLoopAt = "Rest" /\ phTarget = NoTarget /\ startedBy = "Nobody" /\ undisturbed = FALSE

PhNext ==
    \/ \E desired, demand \in BOOLEAN : RegulatePh(desired, demand)
    \/ WritePh \/ onPhEvent \/ StopPhPump \/ SetPhAutoMode \/ WritePump
    \/ \E v \in BOOLEAN : cmdPhPumpWrite(v)
    \/ LeavePhAuto
    \/ FiltrationSwitches \/ PumpInterlock \/ PermissionTurns \/ PhTick

PhSpec == PhInit /\ [][PhNext]_phVars
-----------------------------------------------------------------------------
(* The state of the loop and of the pump keep their types.                 *)
PhTypeOK ==
    /\ {filtering, turned, winterMode, phAutoMode, permitted, phPidEnabled, pidInitialized, phPump,
        announced, starting, stopping, undisturbed} \subseteq BOOLEAN
    /\ startedBy \in {"Nobody", "Hand", "Regulation"}
    /\ flow \in 0..Enough /\ runMin \in 0..Enough
    /\ phLoopAt \in {"Rest", "Decided", "Done"}
    /\ phTarget \in [running : BOOLEAN, regulated : BOOLEAN]

(* The regulation pours into water that has circulated for the whole delay *)
(* without a stop, however filtration, modes and alarms came and went.     *)
ArmedByFlow ==
    phLoopAt = "Decided" /\ phTarget.regulated /\ phTarget.running /\ ~turned =>
        flow = delayPidsMin + 1

(* A pump started by hand runs until the filtration stops or someone takes *)
(* the start back: no decision of the loop stops it, and no announcement   *)
(* of a mode that was over when it was dispatched, the start's own         *)
(* included.  The start is not kept when an announcement finds the mode    *)
(* still on: dispatched before the start and stopping the pump after it,   *)
(* or between the start and the end of its command.                        *)
HandKept == startedBy = "Hand" => phPump

(* The dosing of pH: by regulation only into water that circulates, by     *)
(* hand as long as the hand wants.                                         *)
RegulationSound == PhTypeOK /\ ArmedByFlow /\ HandKept

(* docs/modules/PoolLogicModule.md, "Si les conditions d'autorisation ne   *)
(* sont plus remplies": "demande OFF".  The loop keeps the target as it    *)
(* was: a pump that was running goes on.                                   *)
DosingNeedsPermission ==
    phLoopAt = "Done" /\ undisturbed /\ phAutoMode /\ ~permitted =>
        startedBy # "Regulation"
=============================================================================
