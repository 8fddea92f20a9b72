------------------------------ MODULE PoolLogic ------------------------------
(***************************************************************************)
(* PoolLogicModule: the loop that arbitrates filtration and robot, among   *)
(* the events of the scheduler, the commands of the user and those who     *)
(* write the devices directly.  runControlLoop_ reads the devices and      *)
(* decides (Decide), and writes what it decided at its end (Act), under    *)
(* overrideMutex_ both; the commands of PoolLogicModule take that lock,    *)
(* the events, the mode command and pooldevice.write do not.               *)
(*                                                                         *)
(* The loop runs once in a tick.  A device follows a write at once; a      *)
(* robot whose filtration stopped is stopped by PoolDeviceModule.          *)
(*                                                                         *)
(* The operators that no action uses (Anytime, Latched, Unseen, Unbounded, *)
(* FrostFirst) are mistakes easily made here, kept beside the definition   *)
(* they would replace: each breaks a property below.                       *)
(***************************************************************************)
EXTENDS Integers, Sequences

CONSTANTS
    DayTicks,          \* ticks of a day
    Windows,           \* filtration windows <<start, stop>> a computation may give
    robotDelayMin, robotDurationMin, \* in ticks
    BusRoom,           \* free places on the event bus
    MaxMoves           \* bound on what users and surroundings do

ASSUME PoolAssumption ==
    /\ DayTicks \in Nat \ {0} /\ {robotDelayMin, robotDurationMin, BusRoom, MaxMoves} \subseteq Nat
    /\ Windows \subseteq (0..(DayTicks - 1)) \X (0..(DayTicks - 1)) /\ Windows # {}

VARIABLES
    clock,             \* of the day, local
    timeSynced,
    bus,               \* events posted and not yet dispatched
    window,            \* filtrationCalcStart_, filtrationCalcStop_
    windowActive,      \* filtrationWindowActive_
    pending,           \* pendingDailyRecalc_, pendingDayReset_, pendingFiltrationReconcile_
    autoMode,
    psiError,          \* a pressure alarm is active
    weather,           \* of the air, for freeze hold and winter demand
    on,                \* of each device, as its slot was last written
    seen,              \* the state machines: 0 off, else one more than the ticks since the start
    cleaningDone,
    robotManual,       \* robotManualOverride_ and robotManualDesired_
    loopAt, target,    \* where the loop is, and what it decided
    wish,              \* history: the standing manual command of the filtration
    calm,              \* history: nothing that the loop reads has changed since it read it
    autoRun,           \* history: the robot runs because the loop started it,
    cleanings,         \*   and how many such runs it has seen since the daily reset
    moves

poolLogicVars ==
    <<clock, timeSynced, bus, window, windowActive, pending, autoMode, psiError, weather, on, seen,
      cleaningDone, robotManual, loopAt, target, wish, calm, autoRun, cleanings, moves>>

LoopDevices == {"filtration", "robot"}
Span        == [filtration |-> robotDelayMin, robot |-> robotDurationMin]
PoolEvents  == {"Start", "Stop", "DayStart", "Recalc", "Window", "AutoMode"}
Nothing     == [d \in LoopDevices |-> FALSE]
Least(x, y) == IF x < y THEN x ELSE y

isFiltrationWindowActiveAtMinute(w, t) ==
    /\ w[1] # w[2]
    /\ IF w[2] <= w[1] THEN t >= w[1] \/ t < w[2] ELSE t >= w[1] /\ t < w[2]

ClockActive == isFiltrationWindowActiveAtMinute(window, clock)

(* The bus is shared: an event finds no room when others have filled it.   *)
Posted(b, e) == {b} \cup (IF Len(b) < BusRoom THEN {Append(b, e)} ELSE {})
-----------------------------------------------------------------------------
(* The loop.  What it sees of the devices:                                 *)
Unbounded(d) == IF on[d] THEN seen[d] + 1 ELSE 0

Seen(d) == IF on[d] THEN Least(seen[d] + 1, Span[d] + 1) ELSE 0

Stopped(d) == seen[d] > 0 /\ ~on[d]

RanFor(d) == Seen(d) > Span[d]

(* the window, which the clock corrects whatever the events said;          *)
Latched(w) == windowActive

WindowActive(w) ==
    IF timeSynced THEN isFiltrationWindowActiveAtMinute(w, clock)
    ELSE windowActive /\ pending \cap {"recalc", "reconcile"} = {} \* no slot is active then

(* the filtration,                                                         *)
FrostFirst(active) ==
    \/ on["filtration"] /\ weather = "Frost"
    \/ ~psiError /\ (IF autoMode THEN active \/ weather = "Cold" ELSE on["filtration"])

filtrationDesired(active) ==
    /\ ~psiError
    /\ \/ on["filtration"] /\ (weather = "Frost" \/ ~autoMode \/ ~timeSynced)
       \/ autoMode /\ (active \/ weather = "Cold")

(* and the robot, whose manual request outlives neither the filtration nor *)
(* its purpose.                                                            *)
Requested ==
    IF Stopped("filtration") \/ (robotManual = "Stop" /\ Stopped("robot"))
    THEN "None" ELSE robotManual

TimedOut == Requested = "Start" /\ on["filtration"] /\ RanFor("robot")

RobotManual ==
    IF ~on["filtration"] \/ TimedOut \/ (Requested = "Stop" /\ ~on["robot"])
    THEN "None" ELSE Requested

Unseen == cleaningDone /\ "dayReset" \notin pending

DoneBefore == Stopped("robot") \/ (cleaningDone /\ "dayReset" \notin pending)

robotDesired ==
    CASE Requested # "None" -> on["filtration"] /\ Requested = "Start" /\ ~RanFor("robot")
      [] Requested = "None" /\ autoMode ->
             on["filtration"] /\ ~DoneBefore /\ RanFor("filtration") /\ ~RanFor("robot")
      [] OTHER -> on["robot"]

(* A window computed anew is stored, and the store posts the change.       *)
Recalculated(w) ==
    IF "recalc" \in pending
    THEN window' = w /\ (IF w = window THEN bus' = bus ELSE bus' \in Posted(bus, "Window"))
    ELSE w = window /\ UNCHANGED <<window, bus>>

Decide(w) ==
    /\ loopAt = "Rest" /\ loopAt' = "Decided"
    /\ Recalculated(w)
    /\ windowActive' = WindowActive(w)
    /\ target' = [filtration |-> filtrationDesired(WindowActive(w)), robot |-> robotDesired]
    /\ pending' = {} /\ calm' = TRUE
    /\ seen' = [d \in LoopDevices |-> Seen(d)]
    /\ cleaningDone' = (DoneBefore \/ TimedOut) /\ robotManual' = RobotManual
    /\ LET before == IF "dayReset" \in pending THEN 0 ELSE cleanings
       IN  cleanings' = IF autoRun /\ on["robot"] /\ seen["robot"] = 0 THEN before + 1 ELSE before
    /\ UNCHANGED <<clock, timeSynced, autoMode, psiError, weather, on, wish, autoRun, moves>>

(* The robot is started under filtration only.                             *)
Act ==
    /\ loopAt = "Decided" /\ loopAt' = "Done"
    /\ on' = [filtration |-> target["filtration"],
              robot |-> target["robot"] /\ (on["robot"] \/ target["filtration"])]
    /\ target' = Nothing
    /\ autoRun' = (on'["robot"] /\ (autoRun \/ (~on["robot"] /\ autoMode /\ robotManual = "None")))
    /\ UNCHANGED <<clock, timeSynced, bus, window, windowActive, pending, autoMode, psiError,
                   weather, seen, cleaningDone, robotManual, wish, calm, cleanings, moves>>
-----------------------------------------------------------------------------
Move == moves < MaxMoves /\ moves' = moves + 1

(* The commands that take the lock of the loop.                            *)
Anytime == TRUE

LockFree == loopAt # "Decided"

cmdFiltrationWrite(running) ==
    /\ Move
    /\ LockFree /\ autoMode' = FALSE
    /\ on' = [on EXCEPT !["filtration"] = running]
    /\ wish' = IF psiError THEN "None" ELSE IF running THEN "Start" ELSE "Stop"
    /\ bus' \in IF autoMode THEN Posted(bus, "AutoMode") ELSE {bus}
    /\ calm' = FALSE
    /\ UNCHANGED <<clock, timeSynced, window, windowActive, pending, psiError, weather, seen,
                   cleaningDone, robotManual, loopAt, target, autoRun, cleanings>>

(* Refused by PoolDeviceModule without filtration, and then undone.        *)
applyRobotManualValue(running) ==
    /\ Move
    /\ LockFree /\ (running => on["filtration"])
    /\ robotManual' = IF running THEN "Start" ELSE "Stop"
    /\ on' = [on EXCEPT !["robot"] = running] /\ autoRun' = (running /\ autoRun) /\ calm' = FALSE
    /\ UNCHANGED <<clock, timeSynced, bus, window, windowActive, pending, autoMode, psiError,
                   weather, seen, cleaningDone, loopAt, target, wish, cleanings>>

(* and the one that does not.                                              *)
cmdAutoModeSet(auto) ==
    /\ Move
    /\ autoMode' = auto /\ wish' = IF auto THEN "None" ELSE wish
    /\ bus' \in IF auto # autoMode THEN Posted(bus, "AutoMode") ELSE {bus}
    /\ calm' = FALSE
    /\ UNCHANGED <<clock, timeSynced, window, windowActive, pending, psiError, weather, on, seen,
                   cleaningDone, robotManual, loopAt, target, autoRun, cleanings>>

(* pooldevice.write and whoever else addresses the slot of the filtration. *)
WriteDevice(running) ==
    /\ Move
    /\ on["filtration"] # running /\ on' = [on EXCEPT !["filtration"] = running]
    /\ wish' = "None" /\ calm' = FALSE
    /\ UNCHANGED <<clock, timeSynced, bus, window, windowActive, pending, autoMode, psiError,
                   weather, seen, cleaningDone, robotManual, loopAt, target, autoRun, cleanings>>

InterlockStops ==
    /\ on["robot"] /\ ~on["filtration"]
    /\ on' = [on EXCEPT !["robot"] = FALSE] /\ autoRun' = FALSE
    /\ UNCHANGED <<clock, timeSynced, bus, window, windowActive, pending, autoMode, psiError,
                   weather, seen, cleaningDone, robotManual, loopAt, target, wish, calm, cleanings,
                   moves>>

(* The events, in the order in which they were posted.                     *)
Latch(e) ==
    CASE e = "DayStart" -> {"dayReset"}
      [] e = "Recalc" -> {"recalc"}
      [] e = "Window" -> {"reconcile"}
      [] e = "AutoMode" -> IF autoMode THEN {"reconcile"} ELSE {}
      [] OTHER -> {}

onEvent ==
    /\ bus # <<>> /\ bus' = Tail(bus)
    /\ pending' = pending \cup Latch(Head(bus))
    /\ windowActive' = CASE Head(bus) = "Start" -> TRUE
                         [] Head(bus) = "Stop" -> FALSE
                         [] Head(bus) = "Window" -> timeSynced /\ ClockActive
                         [] OTHER -> windowActive
    /\ UNCHANGED <<clock, timeSynced, window, autoMode, psiError, weather, on, seen, cleaningDone,
                   robotManual, loopAt, target, wish, calm, autoRun, cleanings, moves>>

(* The surroundings.                                                       *)
CircumstancesTurn ==
    /\ Move
    /\ \/ timeSynced' = ~timeSynced /\ UNCHANGED <<psiError, weather, wish>>
       \/ psiError' = ~psiError /\ wish' = "None" /\ UNCHANGED <<timeSynced, weather>>
       \/ weather' \in {"Mild", "Cold", "Frost"} /\ UNCHANGED <<timeSynced, psiError, wish>>
    /\ calm' = FALSE
    /\ UNCHANGED <<clock, bus, window, windowActive, pending, autoMode, on, seen, cleaningDone,
                   robotManual, loopAt, target, autoRun, cleanings>>

(* A new tick: the scheduler posts what it brings, while the time is known.*)
(* It takes a window over midnight for one that never ends, and when a     *)
(* slot of anyone is edited it begins again, as after a boot.              *)
SlotActive(t) ==
    window[1] # window[2] /\ (window[2] < window[1] \/ t \in window[1]..(window[2] - 1))

Scheduled(t, again) ==
    LET before == SlotActive(clock) /\ ~again
    IN  CASE SlotActive(t) /\ ~before -> <<"Start">>
          [] before /\ ~SlotActive(t) -> <<"Stop">>
          [] OTHER -> <<>>

Daily(t) == IF t = 0 THEN <<"DayStart", "Recalc">> ELSE <<>>

ClockTicks ==
    /\ loopAt = "Done" /\ (on["robot"] => on["filtration"])
    /\ loopAt' = "Rest" /\ clock' = (clock + 1) % DayTicks
    /\ \E lost, again \in BOOLEAN :
           LET posted == bus \o (IF timeSynced THEN Scheduled(clock', again) \o Daily(clock')
                                 ELSE <<>>)
           IN  bus' = IF lost THEN bus ELSE SubSeq(posted, 1, Least(Len(posted), BusRoom))
    /\ UNCHANGED <<timeSynced, window, windowActive, pending, autoMode, psiError, weather, on,
                   seen, cleaningDone, robotManual, target, wish, calm, autoRun, cleanings, moves>>
-----------------------------------------------------------------------------
PoolInit ==
    /\ clock = 0 /\ timeSynced = FALSE /\ bus = <<>>
    /\ window \in Windows /\ windowActive = FALSE /\ pending = {}
    /\ autoMode \in BOOLEAN /\ psiError = FALSE /\ weather = "Mild"
    /\ on = Nothing /\ seen = [d \in LoopDevices |-> 0]
    /\ cleaningDone = FALSE /\ robotManual = "None"
    /\ loopAt = "Rest" /\ target = Nothing
    /\ wish = "None" /\ calm = FALSE /\ autoRun = FALSE /\ cleanings = 0 /\ moves = 0

PoolNext ==
    \/ \E w \in Windows : Decide(w)
    \/ Act \/ onEvent \/ InterlockStops \/ CircumstancesTurn \/ ClockTicks
    \/ \E v \in BOOLEAN :
          cmdFiltrationWrite(v) \/ applyRobotManualValue(v) \/ cmdAutoModeSet(v) \/ WriteDevice(v)

PoolSpec == PoolInit /\ [][PoolNext]_poolLogicVars
-----------------------------------------------------------------------------
(* The state machines of the loop and its latches keep their types.        *)
PoolTypeOK ==
    /\ clock \in 0..(DayTicks - 1) /\ bus \in Seq(PoolEvents) /\ Len(bus) <= BusRoom
    /\ {timeSynced, windowActive, autoMode, psiError, cleaningDone, calm, autoRun} \subseteq BOOLEAN
    /\ window \in Windows /\ pending \subseteq {"recalc", "dayReset", "reconcile"}
    /\ weather \in {"Mild", "Cold", "Frost"} /\ {on, target} \subseteq [LoopDevices -> BOOLEAN]
    /\ \A d \in LoopDevices : seen[d] \in 0..(Span[d] + 1)
    /\ {robotManual, wish} \subseteq {"None", "Start", "Stop"}
    /\ loopAt \in {"Rest", "Decided", "Done"} /\ {cleanings, moves} \subseteq Nat

(* A manual command of the filtration stands, as long as no alarm, no      *)
(* return to the automatic mode and no other hand takes it back: no loop   *)
(* that decided before the command undoes it.                              *)
ManualWriteKept == wish = "None" \/ on["filtration"] = (wish = "Start")

(* A loop that nothing disturbed leaves the filtration as the clock and    *)
(* the window of the day want it, whatever events came late or never.      *)
FollowsWindow ==
    loopAt = "Done" /\ calm /\ autoMode /\ timeSynced /\ ~psiError /\ weather = "Mild" =>
        on["filtration"] = ClockActive

(* and stopped under a pressure alarm: neither a manual command nor the    *)
(* frost nor the season keeps it running.                                  *)
PsiStops == loopAt = "Done" /\ calm /\ psiError => ~on["filtration"]

(* The loop starts one cleaning of its own between two daily resets.       *)
OneCleaning == cleanings <= 1

(* The filtration does what hand, clock and alarm want of it, in the order *)
(* of their authority, and the robot cleans once a day.                    *)
FiltrationSound ==
    PoolTypeOK /\ ManualWriteKept /\ FollowsWindow /\ PsiStops /\ OneCleaning
=============================================================================
