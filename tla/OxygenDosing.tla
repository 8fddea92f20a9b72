----------------------------- MODULE OxygenDosing -----------------------------
(***************************************************************************)
(* PoolLogicModule, active oxygen: a weekly volume split in doses, each    *)
(* created at its hour, poured under filtration and counted from the flow  *)
(* of the pump, over whatever stops it in between.  The loop of the module *)
(* runs stepO2Protocol_ once in a tick; filtration and pump follow what it *)
(* asks before the tick is over.                                           *)
(*                                                                         *)
(* The cursors are handed to the configuration store to survive a restart. *)
(* ConfigStore::set compares the value with the variable of the store,     *)
(* which is the cursor itself, finds no change and writes nothing.         *)
(*                                                                         *)
(* The operators that no action uses (Forgotten, KeptCounting, Overdrawn,  *)
(* Unasked) are mistakes easily made here, kept beside the definition they *)
(* would replace: each breaks a property below.                            *)
(***************************************************************************)
EXTENDS Integers

CONSTANTS
    DayLength,         \* ticks of a day
    WeekDays,          \* days of a week
    Epoch, FirstDay,   \* the first day, counted from 1970, and the weekday of day 0
    Shift,             \* ticks by which UTC is ahead of the local time, in a day
    DoseDays,          \* isO2DoseDay_, of the split
    o2SplitCount, o2MainHour,
    WeeklyDoses,       \* computeO2WeeklyDoseMl_, as the temperature goes
    Flow,              \* of the pump, in a tick
    o2MinFilterRunMin, \* in ticks
    MaxTicks, MaxResets  \* bounds

ASSUME OxygenAssumption ==
    /\ {DayLength, WeekDays, Epoch, o2SplitCount, Flow} \subseteq Nat \ {0}
    /\ {FirstDay, Shift, o2MainHour, o2MinFilterRunMin, MaxTicks, MaxResets} \subseteq Nat
    /\ WeeklyDoses \subseteq Nat

VARIABLES
    tick,
    stepped,   \* the loop has run in this tick
    obstacle,  \* the first that stepO2Protocol_ meets, filtration aside
    moved,     \* it has changed in this tick
    filtration, \* 0: off; else one more than the ticks since it started
    pumpOn,
    o2Pending, o2WeeklyDone, o2LastDoseDay, o2LastProgress,
    protocol,  \* o2ProtocolState_
    asked,     \* requestFiltrationOut
    wanted,    \* pumpDesiredOut
    stored,    \* what the store holds of the cursors
    planned,   \* history: the volume of the last dose created,
    poured,    \*   what the pump poured since
    starts,    \*   and how often it started
    doses,     \* history: the doses completed in this day, as dayKey counts it
    waited,    \* history: for how long a dose has waited without an obstacle
    resets

cursors == <<o2Pending, o2WeeklyDone, o2LastDoseDay>>
oxygenVars == <<tick, stepped, obstacle, moved, filtration, pumpOn, cursors, o2LastProgress,
                protocol, asked, wanted, stored, planned, poured, starts, doses, waited, resets>>

Never == -1
Obstacles == {"None", "Inactive", "Unsynced", "Psi", "TankLow", "FlowInvalid", "PumpBlocked"}
Smaller(x, y) == IF x < y THEN x ELSE y

(* The day is counted in UTC, the hour and the day of the week are local.  *)
dayKey == Epoch + (tick + Shift) \div DayLength
WeekKey(day) == day \div WeekDays
hour == tick % DayLength
isO2DoseDay == (Epoch + tick \div DayLength + FirstDay) % WeekDays \in DoseDays
-----------------------------------------------------------------------------
(* The step of the protocol: what is pending when it has looked at the day *)
WeeklyDone ==
    IF o2LastDoseDay # 0 /\ WeekKey(o2LastDoseDay) # WeekKey(dayKey) THEN 0 ELSE o2WeeklyDone

dueToday(weekly) ==
    isO2DoseDay /\ hour >= o2MainHour /\ o2LastDoseDay # dayKey /\ WeeklyDone < weekly

Created(weekly) == o2Pending = 0 /\ weekly \div o2SplitCount > 0 /\ dueToday(weekly)

Dose(weekly) == Smaller(weekly - WeeklyDone, weekly \div o2SplitCount)

Due(weekly) == IF Created(weekly) THEN Dose(weekly) ELSE o2Pending

(* and what it asks for.                                                   *)
Unasked(weekly) == FALSE

requestFiltration(weekly) == Due(weekly) > 0

filtrationReady == filtration > o2MinFilterRunMin

KeptCounting == o2LastProgress

Interrupted == Never

(* "Starting" also stands for O2ProtocolPending while nothing blocks it.   *)
Outcome(state, weekly) ==
    /\ protocol' = state /\ wanted' = (state \in {"Starting", "Dosing"})
    /\ asked' = requestFiltration(weekly) /\ stepped' = TRUE

NewDose(weekly) ==
    /\ o2Pending' = Due(weekly) /\ o2WeeklyDone' = WeeklyDone
    /\ IF Created(weekly)
       THEN planned' = Dose(weekly) /\ poured' = 0 /\ starts' = 0
       ELSE UNCHANGED <<planned, poured, starts>>

(* Each change of a cursor is followed by persistO2Protocol_, which hands  *)
(* the store a value that its variable already has.                        *)
persistO2Protocol == UNCHANGED stored

(* In manual mode, or with another product; and while the date is unknown. *)
StandBy ==
    /\ ~stepped /\ obstacle \in {"Inactive", "Unsynced"}
    /\ stepped' = TRUE /\ wanted' = FALSE /\ asked' = (obstacle = "Unsynced" /\ o2Pending > 0)
    /\ o2LastProgress' = Interrupted
    /\ protocol' = IF o2Pending = 0 THEN "Idle"
                   ELSE IF obstacle = "Inactive" THEN "Pending" ELSE "Blocked"
    /\ UNCHANGED <<tick, obstacle, moved, filtration, pumpOn, cursors, stored, planned, poured,
                   starts, doses, waited, resets>>

Idle(weekly) ==
    /\ ~stepped /\ obstacle \notin {"Inactive", "Unsynced"} /\ Due(weekly) = 0
    /\ NewDose(weekly) /\ persistO2Protocol
    /\ Outcome(IF weekly \div o2SplitCount = 0 THEN "Blocked" ELSE "Idle", weekly)
    /\ UNCHANGED <<tick, obstacle, moved, filtration, pumpOn, o2LastDoseDay, o2LastProgress, doses,
                   waited, resets>>

Wait(weekly) ==
    /\ ~stepped /\ obstacle \notin {"Inactive", "Unsynced"} /\ Due(weekly) > 0
    /\ obstacle # "None" \/ ~filtrationReady
    /\ NewDose(weekly) /\ persistO2Protocol /\ o2LastProgress' = Interrupted
    /\ Outcome(IF obstacle \in {"None", "PumpBlocked"} /\ ~filtrationReady THEN "Pending"
               ELSE "Blocked", weekly)
    /\ waited' = IF Created(weekly) THEN 0 ELSE waited
    /\ UNCHANGED <<tick, obstacle, moved, filtration, pumpOn, o2LastDoseDay, doses, resets>>

(* The pump may run: what it has poured since the last step is counted,    *)
(* once it is seen running.                                                *)
injected == IF o2LastProgress = Never THEN 0 ELSE Flow * (tick - o2LastProgress)

Overdrawn(weekly) == Due(weekly) - injected

Remaining(weekly) == IF injected < Due(weekly) THEN Due(weekly) - injected ELSE 0

Forgotten == o2LastDoseDay

DoseDay == dayKey

Pour(weekly) ==
    /\ ~stepped /\ obstacle = "None" /\ Due(weekly) > 0 /\ filtrationReady
    /\ IF pumpOn
       THEN /\ o2Pending' = Remaining(weekly)
            /\ o2WeeklyDone' = WeeklyDone + Due(weekly) - Remaining(weekly)
            /\ Outcome(IF Remaining(weekly) = 0 THEN "Idle" ELSE "Dosing", weekly)
            /\ IF Remaining(weekly) = 0
               THEN o2LastDoseDay' = DoseDay /\ o2LastProgress' = Interrupted /\ doses' = doses + 1
               ELSE o2LastProgress' = tick /\ UNCHANGED <<o2LastDoseDay, doses>>
            /\ IF Created(weekly)
               THEN planned' = Dose(weekly) /\ poured' = 0 /\ starts' = 0
               ELSE UNCHANGED <<planned, poured, starts>>
       ELSE /\ NewDose(weekly) /\ Outcome("Starting", weekly) /\ o2LastProgress' = Interrupted
            /\ UNCHANGED <<o2LastDoseDay, doses>>
    /\ persistO2Protocol
    /\ waited' = IF Created(weekly) \/ o2Pending' = 0 THEN 0 ELSE waited
    /\ UNCHANGED <<tick, obstacle, moved, filtration, pumpOn, resets>>

stepO2Protocol == StandBy \/ \E w \in WeeklyDoses : Idle(w) \/ Wait(w) \/ Pour(w)
-----------------------------------------------------------------------------
(* The pump and the filtration, as PoolDeviceModule drives them.           *)
Driven == wanted /\ filtration > 0 /\ obstacle # "PumpBlocked"

PumpFollows ==
    /\ pumpOn # Driven /\ pumpOn' = Driven /\ starts' = IF Driven THEN starts + 1 ELSE starts
    /\ UNCHANGED <<tick, stepped, obstacle, moved, filtration, cursors, o2LastProgress, protocol,
                   asked, wanted, stored, planned, poured, doses, waited, resets>>

(* Filtration starts and stops for reasons of its own as well.             *)
FiltrationTurns ==
    /\ \/ filtration = 0 /\ obstacle # "Psi" /\ filtration' = 1 /\ UNCHANGED waited
       \/ filtration > 0 /\ filtration' = 0 /\ waited' = 0
    /\ ~moved /\ moved' = TRUE
    /\ UNCHANGED <<tick, stepped, obstacle, pumpOn, cursors, o2LastProgress, protocol, asked,
                   wanted, stored, planned, poured, starts, doses, resets>>

FiltrationFollows ==
    /\ asked /\ filtration = 0 /\ obstacle # "Psi" /\ filtration' = 1
    /\ UNCHANGED <<tick, stepped, obstacle, moved, pumpOn, cursors, o2LastProgress, protocol, asked,
                   wanted, stored, planned, poured, starts, doses, waited, resets>>

CircumstancesChange ==
    /\ ~moved /\ moved' = TRUE /\ obstacle' \in Obstacles \ {obstacle} /\ waited' = 0
    /\ UNCHANGED <<tick, stepped, filtration, pumpOn, cursors, o2LastProgress, protocol, asked,
                   wanted, stored, planned, poured, starts, doses, resets>>

Settled == stepped /\ pumpOn = Driven /\ (asked /\ obstacle # "Psi" => filtration > 0)

OxygenTick ==
    /\ tick < MaxTicks /\ Settled /\ tick' = tick + 1 /\ stepped' = FALSE /\ moved' = FALSE
    /\ filtration' = IF filtration = 0 THEN 0
                     ELSE Smaller(filtration + 1, o2MinFilterRunMin + 1)
    /\ poured' = IF pumpOn THEN poured + Flow ELSE poured
    /\ doses' = IF (tick + 1 + Shift) % DayLength = 0 THEN 0 ELSE doses
    /\ waited' = IF o2Pending > 0 /\ obstacle = "None" THEN waited + 1 ELSE 0
    /\ UNCHANGED <<obstacle, pumpOn, cursors, o2LastProgress, protocol, asked, wanted, stored,
                   planned, starts, resets>>

OxygenRestart ==
    /\ resets < MaxResets /\ resets' = resets + 1
    /\ stepped' = FALSE /\ moved' = TRUE /\ obstacle' = "Unsynced" /\ filtration' = 0
    /\ pumpOn' = FALSE /\ wanted' = FALSE /\ asked' = FALSE
    /\ o2Pending' = stored.pending /\ o2WeeklyDone' = stored.weeklyDone
    /\ o2LastDoseDay' = stored.lastDoseDay /\ protocol' = stored.protocol
    /\ o2LastProgress' = Never
    /\ planned' = stored.pending /\ poured' = 0 /\ starts' = 0 /\ waited' = 0
    /\ UNCHANGED <<tick, stored, doses>>

OxygenOver == tick = MaxTicks /\ Settled /\ UNCHANGED oxygenVars
-----------------------------------------------------------------------------
OxygenInit ==
    /\ tick = 0 /\ stepped = FALSE /\ obstacle = "None" /\ moved = FALSE
    /\ filtration = 0 /\ pumpOn = FALSE
    /\ o2Pending = 0 /\ o2WeeklyDone = 0 /\ o2LastDoseDay = 0 /\ o2LastProgress = Never
    /\ protocol = "Idle" /\ asked = FALSE /\ wanted = FALSE
    /\ stored = [pending |-> 0, weeklyDone |-> 0, lastDoseDay |-> 0, protocol |-> "Idle"]
    /\ planned = 0 /\ poured = 0 /\ starts = 0 /\ doses = 0 /\ waited = 0 /\ resets = 0

OxygenNext ==
    \/ stepO2Protocol \/ PumpFollows \/ FiltrationFollows \/ FiltrationTurns
    \/ CircumstancesChange \/ OxygenTick \/ OxygenRestart \/ OxygenOver

OxygenSpec == OxygenInit /\ [][OxygenNext]_oxygenVars
-----------------------------------------------------------------------------
(* The cursors keep their types: in particular no volume is negative.      *)
OxygenTypeOK ==
    /\ tick \in 0..MaxTicks /\ o2LastProgress \in {Never} \cup 0..tick
    /\ {stepped, moved, pumpOn, asked, wanted} \subseteq BOOLEAN /\ obstacle \in Obstacles
    /\ filtration \in 0..(o2MinFilterRunMin + 1)
    /\ {o2Pending, o2WeeklyDone, o2LastDoseDay, planned, poured, starts, doses, waited,
        resets} \subseteq Nat
    /\ protocol \in {"Idle", "Pending", "Starting", "Dosing", "Blocked"}
    /\ stored \in [pending : Nat, weeklyDone : Nat, lastDoseDay : Nat, protocol : {"Idle"}]

(* What is left of a dose is the volume of the dose less what the pump has *)
(* really poured, however often the dose was interrupted.  A start leaves  *)
(* at most two periods of the loop uncounted; a pump stopped and started   *)
(* between two steps has at most one counted in which it was off.          *)
DosePoured ==
    LET counted == planned - o2Pending
        excess  == IF starts > 1 THEN starts - 1 ELSE 0
    IN  poured - counted \in -(excess * Flow)..(2 * starts * Flow)

(* A dose is done in the time it needs once nothing stands in its way: the *)
(* protocol itself brings the filtration about.                            *)
DoseInTime ==
    waited <= o2MinFilterRunMin + 4 + planned \div Flow

(* A day, which is that of UTC, sees one dose completed at most, and one   *)
(* more only after a restart.                                              *)
OneDoseADay == doses <= 1 + resets

(* The dosing of oxygen: the volume that was planned, in time, once a day. *)
DosingSound == OxygenTypeOK /\ DosePoured /\ DoseInTime /\ OneDoseADay

(* docs/modules/PoolLogicModule.md: "si la dose a été terminée,            *)
(* `last_dose_day` empêche une deuxième injection le même jour", after a   *)
(* restart too.  The code has not stored last_dose_day.                    *)
DoseOncePerDay == doses <= 1
=============================================================================
