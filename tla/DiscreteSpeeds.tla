--------------------------- MODULE DiscreteSpeeds ---------------------------
(***************************************************************************)
(* A pump whose speeds are selected by exclusive contacts, driven by       *)
(* DiscreteSpeedDriver (PoolDeviceDriver.cpp): before a speed is energised *)
(* all contacts are opened and a dead time passes.  A write may fail, and  *)
(* nobody knows then whether the contact moved; the outputs may be out of  *)
(* service; the controller may restart with a contact closed.              *)
(*                                                                         *)
(* Only whether a tick finds its deadlines due matters, so they are what   *)
(* is left of them, in Elapse steps.  The phase and the error the driver   *)
(* reports follow from what is here and are left out.                      *)
(***************************************************************************)
EXTENDS Naturals, FiniteSets

CONSTANTS
    Steps,     \* outputs, each of which selects a speed
    DeadTime,  \* breakBeforeMakeMs
    RetryRest, \* the rest after a failure
    MaxFaults  \* bound: failing writes, losses of the outputs and restarts

Off == "Off"
Unknown == "Unknown"

ASSUME StepsAssumption == IsFiniteSet(Steps) /\ {Off, Unknown} \cap Steps = {}
ASSUME DeadTimeAssumption == DeadTime \in Nat \ {0} /\ RetryRest \in Nat /\ MaxFaults \in Nat

VARIABLES
    contact,   \* the contacts that are closed
    output,    \* the outputs that IOModule believes on
    speed,     \* target_: a step, or Off
    cleared,   \* cleared_
    readyIn,   \* readyAt_
    retryIn,   \* retryAt_
    applied,   \* state_.applied, Unknown while not appliedValid
    current,   \* appliedRevision = revision_
    openFor,   \* history: for how long no contact has been closed, up to DeadTime
    contactFaults \* bound: faults so far

speedVars == <<contact, output, speed, cleared, readyIn, retryIn, applied, current,
               openFor, contactFaults>>

Selected(t) == {t} \ {Off}

(* Plausible mistake: a time that is over is counted on.                   *)
CountedOn(n) == n - 1

(* due: a deadline that is over stays so.                                  *)
LessOne(n) == IF n = 0 THEN 0 ELSE n - 1

ContactFault == contactFaults < MaxFaults /\ contactFaults' = contactFaults + 1
NoContactFault == UNCHANGED contactFaults

(* History: a closed contact ends the interval without one.                *)
Observed == openFor' = IF contact' = {} THEN openFor ELSE 0

(* failed_.                                                                *)
Failed ==
    /\ applied' = Unknown
    /\ retryIn' = RetryRest

(* applied_.                                                               *)
Acknowledged ==
    /\ applied' = speed
    /\ current' = TRUE
    /\ UNCHANGED retryIn
-----------------------------------------------------------------------------
SpeedInit ==
    /\ contact = {} /\ output = {}
    /\ speed = Off
    /\ cleared = FALSE
    /\ readyIn = 0 /\ retryIn = 0
    /\ applied = Unknown /\ current = FALSE
    /\ openFor = DeadTime
    /\ contactFaults = 0

(* applyTarget, called with a target that differs (for a stopped pump in   *)
(* the speed to come): it is tried at once and the dead time goes on.      *)
SelectSpeed(t) ==
    /\ t # speed \/ t = Off
    /\ speed' = t
    /\ current' = FALSE
    /\ retryIn' = 0
    /\ UNCHANGED <<contact, output, cleared, readyIn, applied, openFor, contactFaults>>

(* A tick that finds an output out of service, whether or not writes are   *)
(* frozen.                                                                 *)
OutputsLost ==
    /\ ContactFault
    /\ cleared' = FALSE
    /\ Failed
    /\ UNCHANGED <<contact, output, speed, readyIn, current, openFor>>

(* The outputs show the target that was applied: the tick ends here.       *)
InPlace == ~cleared /\ applied # Unknown /\ current

(* An output that should be read back is not readable.                     *)
ReadBackFails ==
    /\ ContactFault
    /\ retryIn = 0
    /\ InPlace
    /\ Failed
    /\ UNCHANGED <<contact, output, speed, cleared, readyIn, current, openFor>>

(* Plausible mistake: the driver clears only the step that it applied.     *)
ToOpenApplied == Steps \cap {applied}

(* The steps that are written off before a speed is energised.             *)
ToOpen == Steps

(* Plausible mistake: the deadline of an earlier dead time is kept.        *)
EarlierDeadline == readyIn

(* The dead time starts when the contacts are open.                        *)
NewDeadline == DeadTime

(* Plausible mistake: every tick opens the contacts, those of the dead     *)
(* time too.                                                               *)
AlwaysClears == TRUE

(* Contacts are opened once before a step.                                 *)
NeedsClearing == ~cleared

(* A tick opens all contacts.  Of the writes that fail, those of stuck     *)
(* left their contact as it was.  A stop is complete once they are open.   *)
OpenContacts(fails, stuck) ==
    /\ retryIn = 0
    /\ NeedsClearing
    /\ InPlace => output # Selected(speed)
    /\ contact' = (contact \ ToOpen) \cup (contact \cap stuck)
    /\ output' = (output \ ToOpen) \cup (output \cap fails)
    /\ IF fails # {}
       THEN /\ ContactFault /\ Failed
            /\ UNCHANGED <<cleared, readyIn, current>>
       ELSE /\ NoContactFault
            /\ readyIn' = NewDeadline
            /\ IF speed = Off
               THEN cleared' = FALSE /\ Acknowledged
               ELSE cleared' = TRUE /\ applied' = Off /\ UNCHANGED <<current, retryIn>>
    /\ Observed
    /\ UNCHANGED speed

(* A stop that was asked for during the dead time.                         *)
StopInDeadTime ==
    /\ retryIn = 0
    /\ cleared
    /\ speed = Off
    /\ cleared' = FALSE
    /\ Acknowledged
    /\ UNCHANGED <<contact, output, speed, readyIn, openFor, contactFaults>>

(* Plausible mistake: a failed write is taken for a contact still open.    *)
ClearedAfter(ok) == ~ok

(* Whatever the write of the step did, contacts are opened again before    *)
(* the next one.                                                           *)
ClearedBy(ok) == FALSE

(* The dead time is over: the step is written, and the write may fail      *)
(* after the contact moved.                                                *)
Energise(ok, moved) ==
    /\ retryIn = 0
    /\ cleared
    /\ speed # Off
    /\ readyIn = 0
    /\ contact' = contact \cup (IF moved THEN {speed} ELSE {})
    /\ output' = output \cup (IF ok THEN {speed} ELSE {})
    /\ cleared' = ClearedBy(ok)
    /\ IF ok THEN NoContactFault /\ Acknowledged ELSE ContactFault /\ Failed /\ UNCHANGED current
    /\ Observed
    /\ UNCHANGED <<speed, readyIn>>

(* A restart: outputs are retained and adopted, or written off, in vain    *)
(* perhaps; the driver knows nothing of them.                              *)
RestartDriver(adopted) ==
    /\ ContactFault
    /\ adopted \in {{}, contact}
    /\ output' = adopted
    /\ speed' = Off
    /\ cleared' = FALSE
    /\ readyIn' = 0 /\ retryIn' = 0
    /\ applied' = Unknown /\ current' = FALSE
    /\ UNCHANGED <<contact, openFor>>

(* Time passes between ticks.                                              *)
DeadTimePasses ==
    /\ readyIn' = LessOne(readyIn)
    /\ retryIn' = LessOne(retryIn)
    /\ openFor' = IF contact = {} /\ openFor < DeadTime THEN openFor + 1 ELSE openFor
    /\ UNCHANGED <<contact, output, speed, cleared, applied, current, contactFaults>>

OpenAll == OpenContacts({}, {})

SpeedNext ==
    \/ \E t \in Steps \cup {Off} : SelectSpeed(t)
    \/ OutputsLost
    \/ ReadBackFails
    \/ \E fails \in SUBSET Steps : \E stuck \in SUBSET fails : OpenContacts(fails, stuck)
    \/ StopInDeadTime
    \/ \E moved \in BOOLEAN : Energise(FALSE, moved)
    \/ Energise(TRUE, TRUE)
    \/ \E adopted \in SUBSET Steps : RestartDriver(adopted)
    \/ DeadTimePasses

(* The device loop ticks the driver every 20 ms, and time passes.          *)
SpeedFairness ==
    /\ WF_speedVars(DeadTimePasses)
    /\ WF_speedVars(OpenAll)
    /\ WF_speedVars(StopInDeadTime)
    /\ WF_speedVars(Energise(TRUE, TRUE))

SpeedSpec == SpeedInit /\ [][SpeedNext]_speedVars /\ SpeedFairness
-----------------------------------------------------------------------------
(* The contacts, the phase and the deadlines keep their types.             *)
SpeedTypeOK ==
    /\ contact \subseteq Steps /\ output \subseteq Steps
    /\ speed \in Steps \cup {Off}
    /\ applied \in Steps \cup {Off, Unknown}
    /\ {cleared, current} \subseteq BOOLEAN
    /\ readyIn \in 0..DeadTime /\ openFor \in 0..DeadTime
    /\ retryIn \in 0..RetryRest
    /\ contactFaults \in 0..MaxFaults

(* Two speeds are never energised together, whichever writes fail, whether *)
(* or not they moved their contact, however the target changes meanwhile   *)
(* and across restarts (PoolActuators.md line 53: exclusive outputs).      *)
ExclusiveContacts == \A s1, s2 \in contact : s1 = s2

(* What the driver reports applied is what the contacts do.                *)
ReportedAsWired == applied # Unknown => contact = Selected(applied)

(* A contact closes only after the dead time without any closed one: the   *)
(* motor never sees two speeds without a pause.                            *)
BreakBeforeMake == [][contact' \subseteq contact \/ openFor >= DeadTime]_speedVars

(* The contacts, whatever fails: one at most, after a pause, and as told.  *)
ContactsSafe ==
    /\ [](SpeedTypeOK /\ ExclusiveContacts /\ ReportedAsWired)
    /\ BreakBeforeMake

(* A target that stays is driven to the contacts, faults being finite.     *)
SpeedDriven ==
    \A t \in Steps \cup {Off} : <>[](speed = t) => <>[](contact = Selected(t))
=============================================================================
