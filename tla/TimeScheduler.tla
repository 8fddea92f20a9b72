---------------------------- MODULE TimeScheduler ----------------------------
(***************************************************************************)
(* TimeModule's schedule: slots that are windows or reminders, of a clock  *)
(* time or of one date.  Any task edits them, by a service or a command;   *)
(* every edit is written to flash as one text, slot by slot, and the event *)
(* that the store posts has the time task read the text back.  The time    *)
(* task goes through the slots several times a minute and posts what       *)
(* starts, stops and triggers.                                             *)
(*                                                                         *)
(* The clock is in minutes; one reserved slot stands for the three.  A     *)
(* text read in the middle of its copy in RAM is left out.                 *)
(*                                                                         *)
(* The operators that no action uses (SameDayOnly, LoadsQuietly,           *)
(* Unrestored) are mistakes easily made here, kept beside the definition   *)
(* they would replace: each breaks a property below.                       *)
(***************************************************************************)
EXTENDS Integers, FiniteSets

CONSTANTS
    UserSlots,      \* numbers of the slots that may be edited
    UserDefs,       \* what each may be set to
    DayMinutes, DaysOfWeek,
    Editors,        \* tasks
    MaxTurns, MaxMinute \* bounds: on edits, moves of the clock and restarts together, on time

DayStartSlot == 0   \* TIME_SLOT_SYS_DAY_START
Slots        == UserSlots \cup {DayStartSlot}
AllDefs      == UNION {UserDefs[s] : s \in UserSlots}

ASSUME SchedulerAssumption ==
    /\ UserSlots \subseteq Nat \ {DayStartSlot} /\ IsFiniteSet(UserSlots)
    /\ {MaxTurns, MaxMinute} \subseteq Nat
    /\ {DayMinutes, DaysOfWeek} \subseteq Nat \ {0}
    /\ DOMAIN UserDefs = UserSlots
    /\ \A d \in AllDefs :
          /\ {d.enabled, d.hasEnd, d.replay, d.oneShot} \subseteq BOOLEAN
          /\ d.days \subseteq 0 .. DaysOfWeek - 1 /\ d.days # {}
          /\ {d.start, d.end} \subseteq Nat
          /\ IF d.oneShot THEN d.hasEnd => d.start < d.end
                          ELSE {d.start, d.end} \subseteq 0 .. DayMinutes - 1

VARIABLES
    minute,            \* the clock, local
    isSynced,          \* state is Synced
    passing,           \* tickScheduler_ has found it so, and a command has since undone it
    slots,             \* sched_[].used and def
    active,            \* sched_[].active
    lastTrigger,       \* lastTriggerMinuteKey
    activeMask,        \* activeMaskValue_
    schedInitialized, schedNeedsReload,
    loading,           \* inside loadScheduleFromBlob_
    scheduleBlob,      \* the text, in RAM
    savedBlob,         \*   and on flash
    posted,            \* its ConfigChanged is on the bus
    edit,              \* what each editor is doing
    accepted,          \* history: the table that the answers to the editors promise
    excused,           \* history: two edits overlapped, or a slot could not be cleared on flash
    passed,            \* history: a pass has been made in this minute,
    settled,           \*   and nothing has changed since
    fresh,             \* history: triggers posted in this minute that are no replay
    turns

schedulerVars ==
    <<minute, isSynced, passing, slots, active, lastTrigger, activeMask, schedInitialized,
      schedNeedsReload, loading, scheduleBlob, savedBlob, posted, edit, accepted, excused, passed,
      settled, fresh, turns>>
table   == <<slots, active, lastTrigger, activeMask, schedInitialized>>
store   == <<scheduleBlob, savedBlob, posted>>
clocks  == <<minute, isSynced, passing>>
promise == <<accepted, excused>>

Free      == [used |-> FALSE]
NoMinute  == -1
NoSlots   == [s \in UserSlots |-> Free]
Nil       == [none |-> TRUE]
NoEdit    == [at |-> "Idle"]
SystemDay == [enabled |-> TRUE, hasEnd |-> FALSE, replay |-> FALSE, oneShot |-> FALSE,
              days |-> 0 .. DaysOfWeek - 1, start |-> 0, end |-> 0]
WithSystem(t) == [s \in Slots |-> IF s = DayStartSlot THEN SystemDay ELSE t[s]]

MinuteOfDay == minute % DayMinutes
WeekDay     == (minute \div DayMinutes) % DaysOfWeek
DayBefore   == (WeekDay + DaysOfWeek - 1) % DaysOfWeek
-----------------------------------------------------------------------------
SameDayOnly(d) ==
    /\ d.hasEnd /\ d.start # d.end /\ WeekDay \in d.days
    /\ IF d.start < d.end THEN MinuteOfDay \in d.start .. d.end - 1
                          ELSE MinuteOfDay >= d.start \/ MinuteOfDay < d.end

isRecurringActiveNow(d) ==
    /\ d.hasEnd /\ d.start # d.end
    /\ IF d.start < d.end
       THEN WeekDay \in d.days /\ MinuteOfDay \in d.start .. d.end - 1
       ELSE \/ MinuteOfDay >= d.start /\ WeekDay \in d.days
            \/ MinuteOfDay < d.start /\ DayBefore \in d.days

isActiveNow(d) ==
    IF d.oneShot THEN d.hasEnd /\ minute \in d.start .. d.end - 1 ELSE isRecurringActiveNow(d)

isTriggerNow(d) ==
    /\ ~d.hasEnd
    /\ IF d.oneShot THEN minute >= d.start
                    ELSE WeekDay \in d.days /\ MinuteOfDay = d.start

(* A slot of one date is given up once its date is over.                   *)
IsOver(d) == d.enabled /\ d.oneShot /\ minute >= (IF d.hasEnd THEN d.end ELSE d.start)

Enabled == {s \in Slots : slots[s] # Free /\ slots[s].enabled}

tickScheduler ==
    LET activeNow == {s \in Enabled : isActiveNow(slots[s])}
        triggers  == {s \in Enabled : isTriggerNow(slots[s]) /\ lastTrigger[s] # minute}
    IN  /\ isSynced \/ passing
        /\ ~loading
        /\ slots' = [s \in Slots |-> IF slots[s] # Free /\ IsOver(slots[s]) THEN Free ELSE slots[s]]
        /\ active' = activeNow /\ activeMask' = activeNow
        /\ lastTrigger' = [s \in Slots |-> IF s \in triggers THEN minute ELSE lastTrigger[s]]
        /\ fresh' = [s \in Slots |->
                       IF s \in triggers /\ schedInitialized /\ fresh[s] < 2
                       THEN fresh[s] + 1 ELSE fresh[s]]
        /\ schedInitialized' = TRUE
        /\ passing' = FALSE /\ passed' = isSynced /\ settled' = isSynced
        /\ UNCHANGED <<minute, isSynced, schedNeedsReload, loading, scheduleBlob,
                       savedBlob, posted, edit, promise, turns>>
-----------------------------------------------------------------------------
(* loadScheduleFromBlob_, in the time task; no one else is in the table    *)
(* until it ends.                                                          *)
LoadsQuietly ==
    /\ schedNeedsReload /\ ~loading /\ ~passing
    /\ loading' = TRUE
    /\ slots' = WithSystem(scheduleBlob)
    /\ active' = {} /\ activeMask' = {}
    /\ lastTrigger' = [s \in Slots |-> NoMinute]
    /\ settled' = FALSE
    /\ UNCHANGED <<clocks, schedInitialized, schedNeedsReload, store, edit, promise, passed, fresh,
                   turns>>

LoadBegins ==
    /\ schedNeedsReload /\ ~loading /\ ~passing
    /\ loading' = TRUE
    /\ slots' = WithSystem(scheduleBlob)
    /\ active' = {} /\ activeMask' = {} /\ schedInitialized' = FALSE
    /\ lastTrigger' = [s \in Slots |-> NoMinute]
    /\ settled' = FALSE
    /\ UNCHANGED <<clocks, schedNeedsReload, store, edit, promise, passed, fresh, turns>>

LoadEnds ==
    /\ loading /\ loading' = FALSE /\ schedNeedsReload' = FALSE
    /\ UNCHANGED <<clocks, table, store, edit, promise, passed, settled, fresh, turns>>

(* The event task.                                                         *)
ConfigChanged ==
    /\ posted /\ posted' = FALSE /\ schedNeedsReload' = TRUE
    /\ UNCHANGED <<clocks, table, loading, scheduleBlob, savedBlob, edit, promise, passed, settled,
                   fresh, turns>>
-----------------------------------------------------------------------------
Turn == turns < MaxTurns /\ turns' = turns + 1

AtRest == /\ \A e \in Editors : edit[e] = NoEdit
          /\ ~posted /\ ~schedNeedsReload /\ ~loading

(* An edit of some slots starts: they are changed under the lock, active   *)
(* and triggered no more; the reserved one keeps its definition.           *)
Begin(e, edited, next, job, before) ==
    /\ edit[e] = NoEdit /\ ~loading
    /\ Turn
    /\ slots' = [s \in Slots |-> IF s \in edited \cap UserSlots THEN next ELSE slots[s]]
    /\ active' = active \ edited /\ activeMask' = activeMask \ edited
    /\ lastTrigger' = [s \in Slots |-> IF s \in edited THEN NoMinute ELSE lastTrigger[s]]
    /\ fresh' = [s \in Slots |-> IF s \in edited \cap UserSlots THEN 0 ELSE fresh[s]]
    /\ edit' = [edit EXCEPT ![e] = [at |-> "Serialising", job |-> job, edited |-> edited,
                                    next |-> next, before |-> before, text |-> NoSlots,
                                    left |-> UserSlots]]
    /\ excused' = (excused \/ ~AtRest)
    /\ settled' = FALSE
    /\ UNCHANGED <<clocks, schedNeedsReload, loading, store, accepted, passed>>

setSlot(e, s, d) ==
    /\ Begin(e, {s}, d, "Set",
             [slot |-> slots[s], active |-> s \in active, lastTrigger |-> lastTrigger[s],
              mask |-> activeMask, initialized |-> schedInitialized])
    /\ schedInitialized' = FALSE

clearSlot(e, s) == Begin(e, {s}, Free, "Clear", Nil) /\ UNCHANGED schedInitialized

clearAllSlots(e) == /\ Begin(e, Slots, Free, "Clear", Nil)
                    /\ schedInitialized' = FALSE

(* serializeSchedule_: each slot is read under the lock, not the whole.    *)
serializeSlot(e) ==
    /\ edit[e].at = "Serialising" /\ ~loading
    /\ \E s \in edit[e].left :
          /\ \A u \in edit[e].left : s <= u
          /\ edit' = [edit EXCEPT ![e].text[s] = slots[s], ![e].left = @ \ {s}]
    /\ UNCHANGED <<clocks, table, schedNeedsReload, loading, store, promise, passed, settled,
                   fresh, turns>>

Writing == {e \in Editors : edit[e].at = "Writing"}

(* The promise that a positive answer makes.                               *)
Answered(e) ==
    accepted' = [s \in UserSlots |-> IF s \in edit[e].edited THEN edit[e].next ELSE accepted[s]]

(* ConfigStore::set, one at a time.                                        *)
storeText(e) ==
    /\ edit[e].at = "Serialising" /\ edit[e].left = {} /\ Writing = {}
    /\ IF edit[e].text = scheduleBlob
       THEN /\ edit' = [edit EXCEPT ![e] = NoEdit] /\ Answered(e)
            /\ UNCHANGED scheduleBlob
       ELSE /\ scheduleBlob' = edit[e].text
            /\ edit' = [edit EXCEPT ![e].at = "Writing"]
            /\ UNCHANGED accepted
    /\ UNCHANGED <<clocks, table, schedNeedsReload, loading, savedBlob, posted, excused, passed,
                   settled, fresh, turns>>

(* The flash takes the text, and the change is posted to a bus that may    *)
(* be full; or it refuses, and the old text is read back.                  *)
Stored(e) ==
    /\ edit[e].at = "Writing"
    /\ savedBlob' = scheduleBlob /\ posted' \in {TRUE, posted}
    /\ edit' = [edit EXCEPT ![e] = NoEdit] /\ Answered(e)
    /\ UNCHANGED <<clocks, table, schedNeedsReload, loading, scheduleBlob, excused, passed,
                   settled, fresh, turns>>

Refused(e) ==
    /\ edit[e].at = "Writing"
    /\ scheduleBlob' = savedBlob
    /\ IF edit[e].job = "Set"
       THEN /\ edit' = [edit EXCEPT ![e].at = "Restoring"] /\ UNCHANGED excused
       ELSE /\ edit' = [edit EXCEPT ![e] = NoEdit] /\ excused' = TRUE
    /\ UNCHANGED <<clocks, table, schedNeedsReload, loading, savedBlob, posted, accepted, passed,
                   settled, fresh, turns>>

(* setSlot_ puts back the slot, and with it the mask and the flag of all.  *)
Unrestored(e) ==
    /\ edit[e].at = "Restoring" /\ ~loading
    /\ edit' = [edit EXCEPT ![e] = NoEdit]
    /\ UNCHANGED <<clocks, table, schedNeedsReload, loading, store, promise, passed, settled,
                   fresh, turns>>

Restore(e) ==
    /\ edit[e].at = "Restoring" /\ ~loading
    /\ \E s \in edit[e].edited :
          LET before == edit[e].before
          IN  /\ slots' = [slots EXCEPT ![s] = before.slot]
              /\ active' = IF before.active THEN active \cup {s} ELSE active \ {s}
              /\ lastTrigger' = [lastTrigger EXCEPT ![s] = before.lastTrigger]
              /\ fresh' = [u \in Slots |-> 0]
              /\ activeMask' = before.mask /\ schedInitialized' = before.initialized
    /\ edit' = [edit EXCEPT ![e] = NoEdit]
    /\ settled' = FALSE
    /\ UNCHANGED <<clocks, schedNeedsReload, loading, store, promise, passed, turns>>
-----------------------------------------------------------------------------
(* A minute passes; while the clock is known, never without a pass.        *)
MinutePasses ==
    /\ isSynced => passed
    /\ ~passing /\ ~loading /\ minute < MaxMinute
    /\ minute' = minute + 1
    /\ passed' = FALSE /\ settled' = FALSE /\ fresh' = [s \in Slots |-> 0]
    /\ UNCHANGED <<isSynced, passing, table, schedNeedsReload, loading, store, edit,
                   promise, turns>>

(* The clock is set again while it is known: manual time, the daily        *)
(* reading of the on-board clock.                                          *)
ClockCorrected(m) ==
    /\ isSynced /\ ~passing /\ ~loading
    /\ Turn
    /\ m # minute /\ minute' = m
    /\ passed' = FALSE /\ settled' = FALSE /\ fresh' = [s \in Slots |-> 0]
    /\ UNCHANGED <<isSynced, passing, table, schedNeedsReload, loading, store, edit, promise>>

(* setState to Synced, in the time task.                                   *)
ClockKnown ==
    /\ ~isSynced /\ ~passing /\ ~loading
    /\ isSynced' = TRUE /\ schedInitialized' = FALSE
    /\ settled' = FALSE
    /\ UNCHANGED <<minute, passing, slots, active, lastTrigger, activeMask,
                   schedNeedsReload, loading, store, edit, promise, passed, fresh, turns>>

(* setState from Synced: a new synchronisation is due, or a command asks   *)
(* for one, perhaps when a pass has just found the clock synchronised.     *)
ClockUnknown ==
    /\ isSynced /\ ~loading
    /\ Turn
    /\ isSynced' = FALSE /\ passing' \in BOOLEAN
    /\ active' = {} /\ activeMask' = {} /\ schedInitialized' = FALSE
    /\ lastTrigger' = [s \in Slots |-> NoMinute]
    /\ settled' = FALSE
    /\ UNCHANGED <<minute, slots, schedNeedsReload, loading, store, edit, promise, passed, fresh>>

(* The power fails; onConfigLoaded reads the text that flash has.          *)
SchedulerRestart ==
    /\ Turn
    /\ scheduleBlob' = savedBlob /\ slots' = WithSystem(savedBlob)
    /\ active' = {} /\ activeMask' = {} /\ schedInitialized' = FALSE
    /\ lastTrigger' = [s \in Slots |-> NoMinute]
    /\ schedNeedsReload' = FALSE /\ loading' = FALSE /\ posted' = FALSE
    /\ edit' = [e \in Editors |-> NoEdit]
    /\ isSynced' = FALSE /\ passing' = FALSE
    /\ passed' = FALSE /\ settled' = FALSE /\ fresh' = [s \in Slots |-> 0]
    /\ UNCHANGED <<minute, savedBlob, promise>>
-----------------------------------------------------------------------------
SchedulerInit ==
    /\ minute = 0 /\ isSynced = FALSE /\ passing = FALSE
    /\ savedBlob = NoSlots /\ scheduleBlob = NoSlots /\ accepted = NoSlots
    /\ slots = WithSystem(NoSlots) /\ active = {} /\ activeMask = {}
    /\ lastTrigger = [s \in Slots |-> NoMinute]
    /\ schedInitialized = FALSE /\ schedNeedsReload = FALSE /\ loading = FALSE /\ posted = FALSE
    /\ edit = [e \in Editors |-> NoEdit]
    /\ excused = FALSE /\ passed = FALSE /\ settled = FALSE
    /\ fresh = [s \in Slots |-> 0]
    /\ turns = 0

SchedulerNext ==
    \/ \E e \in Editors :
          \/ \E s \in UserSlots : \E d \in UserDefs[s] : setSlot(e, s, d)
          \/ \E s \in UserSlots : clearSlot(e, s)
          \/ clearAllSlots(e)
          \/ serializeSlot(e)
          \/ storeText(e)
          \/ Stored(e)
          \/ Refused(e)
          \/ Restore(e)
    \/ ConfigChanged
    \/ LoadBegins
    \/ LoadEnds
    \/ tickScheduler
    \/ MinutePasses
    \/ \E m \in {minute - 1, minute + 2} \cap (0 .. MaxMinute) : ClockCorrected(m)
    \/ ClockKnown
    \/ ClockUnknown
    \/ SchedulerRestart

SchedulerSpec == SchedulerInit /\ [][SchedulerNext]_schedulerVars
-----------------------------------------------------------------------------
(* The types; the clock, table and text have the shapes that the code      *)
(* gives them.                                                             *)
SchedulerTypeOK ==
    /\ minute \in 0 .. MaxMinute
    /\ {isSynced, passing, schedInitialized, schedNeedsReload, loading, posted, excused, passed,
        settled} \subseteq BOOLEAN
    /\ \A s \in UserSlots :
          {slots[s], scheduleBlob[s], savedBlob[s], accepted[s]} \subseteq UserDefs[s] \cup {Free}
    /\ slots[DayStartSlot] = SystemDay
    /\ active \subseteq Slots /\ activeMask \subseteq Slots
    /\ lastTrigger \in [Slots -> {NoMinute} \cup 0 .. MaxMinute]

(* The windows as a calendar has them: a window belongs to the day in      *)
(* which it starts, and may end in the next one (isRecurringActiveNow_).   *)
Covers(d, m) ==
    IF d.oneShot THEN d.start <= m /\ m < d.end
    ELSE \E day \in -1 .. m \div DayMinutes :
           LET from   == day * DayMinutes + d.start
               length == (d.end - d.start) % DayMinutes
           IN  /\ (day + DaysOfWeek) % DaysOfWeek \in d.days
               /\ from <= m /\ m < from + length

WithinADay(d) == d.oneShot \/ d.start <= d.end

(* isActive and the mask of active slots say, once tickScheduler_ has      *)
(* passed and until a slot or the clock changes, which enabled windows     *)
(* cover the present minute, whatever edits, failures, reloads and         *)
(* corrections of the clock came before.  A window over midnight is at     *)
(* least active while it covers the minute.                                *)
MaskIsTrue ==
    settled =>
        LET covering == {s \in Enabled : slots[s].hasEnd /\ Covers(slots[s], minute)}
        IN  /\ covering \subseteq activeMask
            /\ \A s \in activeMask \ covering : ~WithinADay(slots[s])

(* A reminder, and the start of the day with it, is posted at most once    *)
(* in its minute without the mark of a replay, whatever else is edited or  *)
(* reloaded in that minute, unless flash refuses such an edit.             *)
NotTwice == \A s \in Slots : fresh[s] < 2

Dated == {d \in AllDefs : d.oneShot}

(* Once everything is at rest, table, text and flash hold what setSlot,    *)
(* clearSlot and clearAll answered that they would, a refused edit having  *)
(* left no trace, and a restart brings it back; unless two edits           *)
(* overlapped (one then may be lost) or flash refused to forget a slot.  A *)
(* slot of one date may be gone from the table and yet in the text.        *)
AsAnswered ==
    AtRest /\ ~excused =>
        \A s \in UserSlots, t \in {slots, scheduleBlob, savedBlob} :
            t[s] = accepted[s] \/ {t[s], accepted[s]} \in {{d, Free} : d \in Dated}

(* The slots: what is active, what was posted and what was stored.         *)
SlotsSound == SchedulerTypeOK /\ MaskIsTrue /\ NotTwice /\ AsAnswered
=============================================================================
