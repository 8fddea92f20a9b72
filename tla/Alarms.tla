-------------------------------- MODULE Alarms --------------------------------
(***************************************************************************)
(* AlarmModule: the alarms task evaluates one slot after the other, the    *)
(* condition outside the lock, its effect under it, the events after it.   *)
(* A command's task resets latched alarms in the meantime.                 *)
(*                                                                         *)
(* An event only tells its subscribers (the MQTT module, the display, the  *)
(* buzzer) to look at the alarm, so that the queue of events is the set of *)
(* alarms to be looked at.  The bus is shared with every module and may be *)
(* full: an event it refuses is dropped, and no one posts it again.  A     *)
(* pass takes a unit of time.  The texts, the activity log and the date of *)
(* the last raise are left out.                                            *)
(*                                                                         *)
(* The operators that no action uses (KeptRunning, SilentClear...) are     *)
(* mistakes easily made here, kept beside the definition they would        *)
(* replace: each breaks a property below.                                  *)
(***************************************************************************)
EXTENDS Integers

CONSTANTS
    SlotCount,   \* the alarms are 1..SlotCount, in the order of the slots
    Latched,     \* those that stay active until they are reset
    OnDelay,     \* for each alarm, in passes
    OffDelay,
    MinRepeat    \* passes between two reminders

Slots == 1..SlotCount
Longest == MinRepeat

ASSUME AlarmAssumption ==
    /\ {SlotCount, MinRepeat} \subseteq Nat \ {0} /\ Latched \subseteq Slots
    /\ OnDelay \in [Slots -> 0..Longest] /\ OffDelay \in [Slots -> 0..Longest]

VARIABLES
    slots,     \* what is kept of each alarm
    pass,      \* the alarms task: the slot it is at, and how far
    outgoing,  \* the command's task: the alarms it has yet to reset
    accepted,  \* and the one whose reset it has yet to announce, or 0
    inQueue,   \* the alarms with an event in the queue
    unseen,    \* history: alarms changed since a subscriber looked, or
               \* since the bus refused their event
    held       \* history: passes since the condition has been as it is

alarmVars == <<slots, pass, outgoing, accepted, inQueue, unseen, held>>

AlarmCondState == {"True", "False", "Unknown"}
Stopped == -1
Timers == Stopped..Longest
Asleep == [at |-> 0, judged |-> "Unknown", step |-> "Evaluate"]

(* A running timer is a number of passes, as far as it matters.            *)
Older(t) == IF t \in {Stopped, Longest} THEN t ELSE t + 1

delayReached(since, delay) == delay = 0 \/ since >= delay

(* The timers of slot s, whose condition has just been found so.           *)
KeptOnUnknown(s, cond) ==
    [on  |-> IF s.active \/ cond = "False" THEN Stopped
             ELSE IF cond = "True" /\ s.on = Stopped THEN 0 ELSE s.on,
     off |-> IF ~s.active \/ cond = "True" THEN Stopped
             ELSE IF cond = "False" /\ s.off = Stopped THEN 0 ELSE s.off]

KeptRunning(s, cond) ==
    [on  |-> IF cond # "True" THEN Stopped
             ELSE IF s.on = Stopped THEN 0 ELSE s.on,
     off |-> IF cond # "False" THEN Stopped
             ELSE IF s.off = Stopped THEN 0 ELSE s.off]

Started(s, cond) ==
    [on  |-> IF cond # "True" \/ s.active THEN Stopped
             ELSE IF s.on = Stopped THEN 0 ELSE s.on,
     off |-> IF cond # "False" \/ ~s.active THEN Stopped
             ELSE IF s.off = Stopped THEN 0 ELSE s.off]

Raised(a, s, cond) ==
    cond = "True" /\ ~s.active /\ delayReached(Started(s, cond).on, OnDelay[a])

Cleared(a, s, cond) ==
    /\ cond = "False" /\ s.active /\ a \notin Latched
    /\ delayReached(Started(s, cond).off, OffDelay[a])

(* Unknown cancels the timers and leaves the alarm as it is.               *)
Applied(a, s, cond) ==
    [active   |-> (s.active \/ Raised(a, s, cond)) /\ ~Cleared(a, s, cond),
     lastCond |-> cond,
     on       |-> IF Raised(a, s, cond) THEN Stopped ELSE Started(s, cond).on,
     off      |-> IF a \in Latched \/ Cleared(a, s, cond) THEN Stopped
                  ELSE Started(s, cond).off,
     notified |-> s.notified]

(* An event tells what happened; that the condition is not known does not. *)
SilentClear(a, s, cond) ==
    Raised(a, s, cond) \/ (s.lastCond # cond /\ cond = "True")

ToAnnounce(a, s, cond) ==
    \/ Raised(a, s, cond) \/ Cleared(a, s, cond)
    \/ s.lastCond # cond /\ cond # "Unknown"

Changed(s, t) ==
    t.active # s.active \/ (t.lastCond # s.lastCond /\ t.lastCond # "Unknown")

Resettable(a) == slots[a].active /\ a \in Latched /\ slots[a].lastCond = "False"
-----------------------------------------------------------------------------
(* An event of each of these alarms is posted; the bus takes some.         *)
Posted(alarms, taken) ==
    /\ inQueue' = inQueue \cup taken
    /\ unseen' = unseen \ (alarms \ taken)

ReminderDue(s) ==
    /\ s.active /\ s.lastCond = "True"
    /\ s.notified # Stopped /\ delayReached(s.notified, MinRepeat)

Aged(s) == [s EXCEPT !.on = Older(@), !.off = Older(@), !.notified = Older(@)]

(* evaluateOnce_ begins with the reminders that are due.                   *)
Due == {a \in Slots : ReminderDue(Aged(slots[a]))}

StartPass(taken) ==
    /\ pass.at = 0
    /\ slots' = [a \in Slots |-> IF a \in Due THEN [Aged(slots[a]) EXCEPT !.notified = 0]
                                 ELSE Aged(slots[a])]
    /\ Posted(Due, taken)
    /\ held' = [a \in Slots |-> Older(held[a])]
    /\ pass' = [Asleep EXCEPT !.at = 1]
    /\ UNCHANGED <<outgoing, accepted>>

Judge(cond) ==
    /\ pass.at > 0 /\ pass.step = "Evaluate"
    /\ pass' = [pass EXCEPT !.judged = cond, !.step = "Apply"]
    /\ UNCHANGED <<slots, outgoing, accepted, inQueue, unseen, held>>

NextSlot == IF pass.at = SlotCount THEN Asleep ELSE [Asleep EXCEPT !.at = pass.at + 1]

Apply ==
    /\ pass.step = "Apply"
    /\ LET a == pass.at
           t == Applied(a, slots[a], pass.judged)
       IN  /\ slots' = [slots EXCEPT ![a] = t]
           /\ unseen' = unseen \cup (IF Changed(slots[a], t) THEN {a} ELSE {})
           /\ held' = [held EXCEPT ![a] = IF t.lastCond = slots[a].lastCond THEN @ ELSE 0]
           /\ pass' = IF ToAnnounce(a, slots[a], pass.judged)
                      THEN [pass EXCEPT !.step = "Announce"] ELSE NextSlot
    /\ UNCHANGED <<outgoing, accepted, inQueue>>

NotNoted(s) == s.notified

Noted(s) == 0

Announce(taken) ==
    /\ pass.step = "Announce"
    /\ slots' = [slots EXCEPT ![pass.at].notified = Noted(slots[pass.at])]
    /\ Posted({pass.at}, taken)
    /\ pass' = NextSlot
    /\ UNCHANGED <<outgoing, accepted, held>>
-----------------------------------------------------------------------------
(* reset_ of one alarm, and resetAll_ of those that can be.                *)
Command(alarms) ==
    /\ outgoing = {} /\ accepted = 0
    /\ outgoing' = alarms
    /\ UNCHANGED <<slots, pass, accepted, inQueue, unseen, held>>

ResetAll == Command({a \in Slots : Resettable(a)})

resetWithActor(a) ==
    /\ a \in outgoing /\ accepted = 0
    /\ \A b \in outgoing : a <= b
    /\ outgoing' = outgoing \ {a}
    /\ IF Resettable(a)
       THEN /\ slots' = [slots EXCEPT ![a].active = FALSE, ![a].off = Stopped, ![a].notified = 0]
            /\ accepted' = a
            /\ unseen' = unseen \cup {a}
       ELSE UNCHANGED <<slots, accepted, unseen>>
    /\ UNCHANGED <<pass, inQueue, held>>

(* AlarmCleared, for which every subscriber looks.  AlarmReset, posted     *)
(* first, tells only some of them, and is left out.                        *)
AnnounceReset(taken) ==
    /\ accepted # 0
    /\ Posted({accepted}, taken)
    /\ accepted' = 0
    /\ UNCHANGED <<slots, pass, outgoing, held>>

(* A subscriber looks at what is announced.                                *)
Look(a) ==
    /\ a \in inQueue
    /\ inQueue' = inQueue \ {a}
    /\ unseen' = unseen \ {a}
    /\ UNCHANGED <<slots, pass, outgoing, accepted, held>>
-----------------------------------------------------------------------------
AlarmInit ==
    /\ slots = [a \in Slots |-> [active |-> FALSE, lastCond |-> "Unknown", on |-> Stopped,
                                 off |-> Stopped, notified |-> Stopped]]
    /\ pass = Asleep /\ outgoing = {} /\ accepted = 0
    /\ inQueue = {} /\ unseen = {}
    /\ held = [a \in Slots |-> 0]

Evaluating ==
    \/ \E taken \in SUBSET Due : StartPass(taken)
    \/ \E cond \in AlarmCondState : Judge(cond)
    \/ Apply
    \/ \E taken \in SUBSET {pass.at} : Announce(taken)

Resetting ==
    \/ \E a \in Slots : resetWithActor(a)
    \/ \E taken \in SUBSET {accepted} : AnnounceReset(taken)

AlarmNext ==
    \/ Evaluating \/ Resetting \/ ResetAll
    \/ \E a \in Slots : Command({a}) \/ Look(a)

(* The alarms task goes on.  The bus owes nothing.                         *)
AlarmFairness == WF_alarmVars(Evaluating)

AlarmSpec == AlarmInit /\ [][AlarmNext]_alarmVars /\ AlarmFairness
-----------------------------------------------------------------------------
(* The slots, and the two tasks that work on them, keep their types.      *)
AlarmTypeOK ==
    /\ slots \in [Slots -> [active : BOOLEAN, lastCond : AlarmCondState, on : Timers,
                            off : Timers, notified : Timers]]
    /\ \A a \in Slots : Stopped = IF slots[a].active THEN slots[a].on ELSE slots[a].off
    /\ pass \in [at : 0..SlotCount, judged : AlarmCondState,
                 step : {"Evaluate", "Apply", "Announce"}]
    /\ outgoing \subseteq Slots /\ accepted \in 0..SlotCount
    /\ inQueue \subseteq Slots /\ unseen \subseteq Slots
    /\ held \in [Slots -> 0..Longest]

(* Whoever shows an alarm is told of every change of it, unless the bus    *)
(* refuses the event: what changed since a subscriber looked is announced  *)
(* or about to be.  And what is still the matter will be reminded of,      *)
(* refused or not; a clear or a reset is posted once, and a condition that *)
(* is no longer known is not told at all.                                  *)
AboutToTell(a) == pass.step = "Announce" /\ pass.at = a

ChangesAnnounced ==
    /\ \A a \in unseen : a \in inQueue \/ accepted = a \/ AboutToTell(a)
    /\ \A a \in Slots :
          slots[a].active /\ slots[a].lastCond = "True" =>
              slots[a].notified # Stopped \/ AboutToTell(a)

(* An alarm is raised, and one that is not latched cleared, only after its *)
(* condition was found so at every pass for as long as its delay, however  *)
(* it was reset, or unknown, in the meantime.                              *)
DelaysHold ==
    [][\A a \in Slots :
          LET lasted == IF slots'[a].lastCond = slots[a].lastCond THEN held[a] ELSE 0
          IN  /\ ~slots[a].active /\ slots'[a].active =>
                    slots'[a].lastCond = "True" /\ lasted >= OnDelay[a]
              /\ slots[a].active /\ ~slots'[a].active =>
                    /\ slots[a].lastCond # "True" \/ a \notin Latched
                    /\ slots'[a].lastCond = "False"
                    /\ a \notin Latched => lasted >= OffDelay[a]
                    /\ a \in Latched => UNCHANGED pass]_alarmVars

(* An alarm changes after its delays, and its changes are told but for     *)
(* what the bus refuses.                                                   *)
AlarmsSound == [](AlarmTypeOK /\ ChangesAnnounced) /\ DelaysHold

(* A condition that stays true raises its alarm, and an event about it is  *)
(* posted again and again (notified is 0 just after a post), whatever the  *)
(* bus does with each: it may refuse any, and then a later one is posted.  *)
Reminds ==
    \A a \in Slots :
        <>[](slots[a].lastCond = "True") => []<>(slots[a].active /\ slots[a].notified = 0)
=============================================================================
