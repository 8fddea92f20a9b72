---------------------------- MODULE SerialDevice ----------------------------
(***************************************************************************)
(* A device commanded through registers over RS-485: SerialDeviceDriver    *)
(* (PoolDeviceDriver.cpp), the service of the arbiter as its one client    *)
(* sees it, and the device.  A write may reach the device although its     *)
(* answer is lost; an exchange on the wire goes on although the driver     *)
(* cancelled it.                                                           *)
(*                                                                         *)
(* Values are rounded already; a temperature is one of a few levels.  The  *)
(* priority of an operation and the turn-taking among clients belong to    *)
(* ModbusScheduler.  Whether a tick finds retryAt_, nextRequestAt_ and     *)
(* nextPollAt_ due, and the age of a measure, are choices.                 *)
(***************************************************************************)
EXTENDS Integers

CONSTANTS
    Levels,     \* setpoints
    Low, High,  \* limits: one that some level exceeds, one that none does
    Nothing,    \* no value
    Profiles,   \* ways to command and read a device
    SerialFaults \* bound: exchanges that fail, refused submissions, freezes

(* A device has a lowest setpoint.                                         *)
ASSUME LevelsAssumption == Levels \subseteq Int /\ \E l \in Levels : \A m \in Levels : l <= m
ASSUME LimitsAssumption == Low # High
ASSUME SerialFaultsAssumption == SerialFaults \in Nat

Operations == {"Run", "Setpoint", "Limits", "Status", "Feedback", "Telemetry"}
Targets == [run : BOOLEAN, level : Levels]

Requests == [op : Operations, target : Targets]
Readings == Targets \cup {Low, High, Nothing}
Transmissions == [op : Operations, target : Targets, owned : BOOLEAN, reached : BOOLEAN,
                  value : Readings]
Answers == [op : Operations, target : Targets, ok : BOOLEAN, value : Readings]

ASSUME NothingAssumption ==
    /\ Nothing \notin Targets \cup Operations \cup Levels \cup BOOLEAN
    /\ Nothing \notin {Low, High, "Stop", "Other"}
    /\ Nothing \notin Requests \cup Transmissions \cup Answers

(* How a device is commanded and read: a run register beside the setpoint  *)
(* or stop as one of its values; a limit that is read before a setpoint is *)
(* written; its state read from a status register, with the setpoint, or   *)
(* not at all.  Polytropic is the one with a limit, AquaGem the combined   *)
(* one that is read with the setpoint.                                     *)
AllProfiles == {p \in [separate : BOOLEAN, limits : BOOLEAN,
                       feedback : {"StatusMask", "DeviceStatus", "None"}] :
                   p.limits => p.separate /\ p.feedback = "StatusMask"}

ASSUME ProfilesAssumption == Profiles \subseteq AllProfiles

VARIABLES
    profile,   \* config_.serial
    driver,    \* fields of SerialDeviceDriver
    queued,    \* the exchange that waits in the arbiter
    wire,      \* the exchange on the wire
    answer,    \* the response kept for the driver
    device,    \* the registers of the device
    readSince, \* history: what was read since a write last reached the device
    firstSent, \* history: the first exchange since a stop was asked for
    exchangeFaults \* bound: faults so far

serialVars == <<profile, driver, queued, wire, answer, device, readSince, firstSent,
                exchangeFaults>>

ExchangeFault == exchangeFaults < SerialFaults /\ exchangeFaults' = exchangeFaults + 1

(* cancelOwner: what waits or is kept for the driver goes, an exchange on  *)
(* the wire is drained.                                                    *)
Cancelled ==
    /\ queued' = Nothing
    /\ answer' = Nothing
    /\ wire' = IF wire = Nothing THEN Nothing ELSE [wire EXCEPT !.owned = FALSE]

LeftAlone == UNCHANGED <<queued, answer, wire>>
-----------------------------------------------------------------------------
(* consume_.  A failure forgets what was known of the device.              *)
FailedDriver(d) ==
    [d EXCEPT !.applied = Nothing, !.stopAcknowledged = FALSE, !.confirmation = Nothing,
              !.seenRun = Nothing, !.seenLevel = Nothing]

(* failed_ without an exchange.                                            *)
Unapplied(d) == [d EXCEPT !.applied = Nothing]

(* A combined reading that makes no sense.                                 *)
Unread(d) == [d EXCEPT !.applied = Nothing, !.seenRun = Nothing, !.seenLevel = Nothing]

(* Plausible mistake: an acknowledgement is taken for a confirmation.      *)
TakenAsConfirmed(p) == Nothing

(* What is read first after a command.                                     *)
FirstReading(p) ==
    CASE p.feedback = "StatusMask" -> "Status"
      [] p.feedback = "DeviceStatus" -> "Feedback"
      [] OTHER -> Nothing

(* commandAcknowledged_.                                                   *)
CommandAcknowledged(d, p, target) ==
    [d EXCEPT !.applied = target, !.appliedNow = d.sentNow, !.confirmation = FirstReading(p)]

StopAcknowledged(d) ==
    [d EXCEPT !.stopAcknowledged = TRUE, !.applied = Nothing]

(* A confirmation goes on from the status to the level.                    *)
NextConfirmation(d, op) ==
    IF op # d.confirmation THEN d.confirmation
    ELSE IF op = "Status" THEN "Feedback" ELSE Nothing

Reading(d, p, a) ==
    [d EXCEPT !.seenRun = IF a.op = "Status" \/ p.feedback = "DeviceStatus" THEN a.value.run ELSE @,
              !.seenLevel = IF a.op = "Feedback" THEN a.value.level ELSE @,
              !.confirmation = NextConfirmation(d, a.op)]

(* Plausible mistake: a setpoint that was written counts as the command.   *)
NoRunToCome(target) == FALSE

(* A running target is not complete with its setpoint.                     *)
RunToCome(target) == target.run

(* Plausible mistake: the setpoint that was written is not recorded.       *)
SpeedUnrecorded(d) == d

SpeedRecorded(d) == [d EXCEPT !.speedNow = d.sentNow]

SetpointWritten(d, p, target) ==
    LET s == SpeedRecorded(d)
    IN  IF RunToCome(target) THEN s ELSE CommandAcknowledged(s, p, target)

RunWritten(d, p, target) ==
    IF p.separate /\ ~target.run THEN StopAcknowledged(d)
                                 ELSE CommandAcknowledged(d, p, target)

(* A limit that makes no sense is an error of its own.                     *)
LimitRead(d, value) ==
    [IF value = Nothing THEN Unapplied(d) ELSE d EXCEPT !.limit = value]

(* A diagnostic that fails says nothing of the command.                    *)
Consumed(d, p, a) ==
    LET c == CASE a.op = "Telemetry" -> d
               [] ~a.ok /\ a.op # "Telemetry" -> FailedDriver(d)
               [] a.ok /\ a.op = "Setpoint" -> SetpointWritten(d, p, a.target)
               [] a.ok /\ a.op = "Run" -> RunWritten(d, p, a.target)
               [] a.ok /\ a.op = "Limits" -> LimitRead(d, a.value)
               [] a.ok /\ a.op \in {"Status", "Feedback"} ->
                      IF a.value = Nothing THEN Unread(d) ELSE Reading(d, p, a)
    IN  [c EXCEPT !.asked = Nothing]
-----------------------------------------------------------------------------
IsApplied(d) == d.applied # Nothing /\ d.appliedNow

(* observedTargetReached_.                                                 *)
ObservedReached(d, p) ==
    /\ d.seenRun = d.applied.run
    /\ d.seenLevel # Nothing
    /\ d.applied.run \/ p.separate => d.seenLevel = d.applied.level

(* phase = Applied.                                                        *)
ReportsApplied(d, p) ==
    /\ IsApplied(d)
    /\ p.feedback # "None" => d.confirmation = Nothing /\ ObservedReached(d, p)

AboveLimit(d) == d.limit = Low /\ \E l \in Levels : l < d.target.level

(* Plausible mistake: a device is started before its setpoint is written.  *)
StartedFirst(d, p) == p.separate /\ ~d.target.run

SetpointFirst(d, p) == p.separate /\ (~d.target.run \/ ~d.speedNow)

(* The stop of a separate run register, sent before anything else.         *)
StopComes(d, p) == p.separate /\ ~d.target.run /\ ~d.stopAcknowledged

(* Plausible mistake: a limit is read before the stop.                     *)
StopAfterLimit(d, p) == StopComes(d, p) /\ (p.limits => d.limit # Nothing)

(* A stop is never delayed behind a limit read or a setpoint write.        *)
StopNow(d, p) == StopComes(d, p)

(* What brings a device to a target that it has not acknowledged.          *)
Commands(d, p) ==
    IF StopNow(d, p) THEN {"Run"}
    ELSE IF p.limits /\ d.limit = Nothing THEN {"Limits"}
    ELSE IF AboveLimit(d) THEN {}
    ELSE IF SetpointFirst(d, p) THEN {"Setpoint"} ELSE {"Run"}

(* What is read in turn of a device that acknowledged its target; one that *)
(* cannot be read has its command renewed.                                 *)
Polls(p) ==
    CASE p.feedback = "StatusMask" ->
               {"Status", "Feedback"} \cup (IF p.limits THEN {"Telemetry"} ELSE {})
      [] p.feedback = "DeviceStatus" -> {"Feedback"}
      [] OTHER -> {"Run"}

(* What a tick with nothing outstanding submits when it is due.            *)
Wanted(d, p) ==
    IF ~IsApplied(d) THEN Commands(d, p)
    ELSE IF d.confirmation # Nothing THEN {d.confirmation}
    ELSE Polls(p)
-----------------------------------------------------------------------------
StoppedTarget == [run |-> FALSE, level |-> CHOOSE l \in Levels : \A m \in Levels : l <= m]

SerialInit ==
    /\ profile \in Profiles
    /\ driver = [target |-> StoppedTarget, applied |-> Nothing, appliedNow |-> FALSE,
                 speedNow |-> FALSE, limit |-> Nothing, stopAcknowledged |-> FALSE,
                 confirmation |-> Nothing, seenRun |-> Nothing, seenLevel |-> Nothing,
                 asked |-> Nothing, sentNow |-> FALSE, frozen |-> FALSE]
    /\ queued = Nothing /\ wire = Nothing /\ answer = Nothing
    /\ device = StoppedTarget
    /\ readSince = {}
    /\ firstSent = Nothing
    /\ exchangeFaults = 0

(* Plausible mistake: the exchange for the last target is left alone.      *)
KeepsExchange == LeftAlone

(* Obsolete operations are dropped.                                        *)
DropsExchange == IF driver.asked = Nothing THEN LeftAlone ELSE Cancelled

(* applyTarget: nothing that was acknowledged counts for the new target.   *)
ApplyTarget(t) ==
    /\ t # driver.target
    /\ DropsExchange
    /\ driver' = [driver EXCEPT !.target = t, !.appliedNow = FALSE, !.speedNow = FALSE,
                                !.limit = Nothing, !.stopAcknowledged = FALSE,
                                !.confirmation = Nothing, !.asked = Nothing, !.sentNow = FALSE]
    /\ firstSent' = Nothing
    /\ UNCHANGED <<profile, device, readSince, exchangeFaults>>

(* The first tick with writes frozen.                                      *)
Freeze ==
    /\ ~driver.frozen
    /\ ExchangeFault
    /\ Cancelled
    /\ driver' = [driver EXCEPT !.frozen = TRUE, !.asked = Nothing]
    /\ UNCHANGED <<profile, device, readSince, firstSent>>

(* The driver with the answer of its exchange, if it came.                 *)
Polled == IF answer = Nothing THEN driver ELSE Consumed(driver, profile, answer)

(* A tick with writes enabled, once nothing is outstanding: it takes the   *)
(* answer and may submit the next operation.                               *)
TickEnds(d) ==
    /\ driver.asked = Nothing \/ answer # Nothing
    /\ driver' = [d EXCEPT !.frozen = FALSE]
    /\ answer' = Nothing
    /\ UNCHANGED <<profile, wire, device, readSince, firstSent>>

TickSubmits(op) ==
    /\ op \in Wanted(Polled, profile)
    /\ queued' = [op |-> op, target |-> driver.target]
    /\ TickEnds([Polled EXCEPT !.asked = op, !.sentNow = TRUE])
    /\ UNCHANGED exchangeFaults

(* Nothing is due, or the arbiter is full.                                 *)
TickOnly ==
    /\ answer # Nothing \/ driver.frozen
    /\ TickEnds(Polled)
    /\ UNCHANGED <<queued, exchangeFaults>>

(* The target is above the limit, or the arbiter refuses the operation.    *)
TickRefused ==
    /\ \/ Wanted(Polled, profile) = {} /\ UNCHANGED exchangeFaults
       \/ ExchangeFault
    /\ TickEnds(Unapplied(Polled))
    /\ UNCHANGED queued

(* A measure becomes too old.                                              *)
Stale ==
    /\ \/ driver' = [driver EXCEPT !.seenRun = Nothing]
       \/ driver' = [driver EXCEPT !.seenLevel = Nothing]
    /\ UNCHANGED <<profile, queued, wire, answer, device, readSince, firstSent, exchangeFaults>>
-----------------------------------------------------------------------------
Writes == {"Run", "Setpoint"}

(* The arbiter sends one exchange at a time.                               *)
Transmit ==
    /\ queued # Nothing
    /\ wire = Nothing
    /\ wire' = [op |-> queued.op, target |-> queued.target, owned |-> TRUE,
                reached |-> FALSE, value |-> Nothing]
    /\ queued' = Nothing
    /\ firstSent' = IF driver.target.run \/ firstSent # Nothing THEN firstSent
                    ELSE IF queued.op = "Run" /\ ~queued.target.run THEN "Stop" ELSE "Other"
    /\ UNCHANGED <<profile, driver, answer, device, readSince, exchangeFaults>>

(* The registers after a write.                                            *)
Written(x) ==
    CASE x.op = "Setpoint" -> [device EXCEPT !.level = x.target.level]
      [] x.op = "Run" /\ (profile.separate \/ ~x.target.run) -> [device EXCEPT !.run = x.target.run]
      [] x.op = "Run" /\ ~profile.separate /\ x.target.run -> x.target
      [] OTHER -> device

(* What the device answers to a read.                                      *)
Values(op) ==
    CASE op = "Limits" -> {Low, High, Nothing}
      [] op = "Feedback" /\ profile.feedback = "DeviceStatus" -> {device, Nothing}
      [] op = "Status" \/ (op = "Feedback" /\ profile.feedback # "DeviceStatus") -> {device}
      [] OTHER -> {Nothing}

(* The request reaches the device, which executes it.                      *)
Reach ==
    /\ wire # Nothing
    /\ ~wire.reached
    /\ device' = Written(wire)
    /\ \E v \in Values(wire.op) :
          /\ wire' = [wire EXCEPT !.reached = TRUE, !.value = v]
          /\ readSince' = IF wire.op \in Writes THEN {}
                          ELSE IF v = Nothing THEN readSince
                          ELSE readSince \cup ({wire.op} \cap {"Status", "Feedback"})
    /\ UNCHANGED <<profile, driver, queued, answer, firstSent, exchangeFaults>>

(* The exchange ends, with an answer only if the device had the request.   *)
Finish(ok) ==
    /\ wire # Nothing
    /\ IF ok THEN wire.reached /\ UNCHANGED exchangeFaults ELSE ExchangeFault
    /\ wire' = Nothing
    /\ answer' = IF wire.owned
                 THEN [op |-> wire.op, target |-> wire.target, ok |-> ok, value |-> wire.value]
                 ELSE answer
    /\ UNCHANGED <<profile, driver, queued, device, readSince, firstSent>>

SerialNext ==
    \/ \E t \in Targets : ApplyTarget(t)
    \/ Freeze
    \/ \E op \in Operations : TickSubmits(op)
    \/ TickOnly
    \/ TickRefused
    \/ Stale
    \/ Transmit
    \/ Reach
    \/ \E ok \in BOOLEAN : Finish(ok)

(* The device loop ticks, the arbiter serves its client, and an exchange   *)
(* that reached the device is answered.                                    *)
SerialFairness ==
    /\ WF_serialVars(\E op \in Operations : TickSubmits(op))
    /\ WF_serialVars(Transmit)
    /\ WF_serialVars(Reach)
    /\ WF_serialVars(wire # Nothing /\ wire.reached /\ Finish(TRUE))

SerialSpec == SerialInit /\ [][SerialNext]_serialVars /\ SerialFairness
-----------------------------------------------------------------------------
Exchanges == {x \in {queued, answer} : x # Nothing}
             \cup (IF wire = Nothing THEN {} ELSE IF wire.owned THEN {wire} ELSE {})

(* The driver, and the one exchange it has: it knows which operation it    *)
(* waits for, and an exchange it does not wait for is drained on the wire. *)
SerialTypeOK ==
    /\ profile \in Profiles
    /\ driver.target \in Targets /\ driver.applied \in Targets \cup {Nothing}
    /\ driver.limit \in {Nothing, Low, High}
    /\ driver.confirmation \in {Nothing, "Status", "Feedback"}
    /\ driver.seenRun \in BOOLEAN \cup {Nothing} /\ driver.seenLevel \in Levels \cup {Nothing}
    /\ queued \in Requests \cup {Nothing}
    /\ wire \in Transmissions \cup {Nothing}
    /\ answer \in Answers \cup {Nothing}
    /\ device \in Targets
    /\ readSince \subseteq {"Status", "Feedback"} /\ firstSent \in {Nothing, "Stop", "Other"}
    /\ IF driver.asked = Nothing THEN Exchanges = {}
       ELSE \E x \in Exchanges : Exchanges = {x} /\ x.op = driver.asked

(* The target that counts as applied is in the registers of the device,    *)
(* whatever was sent before it and ended in whichever way.                 *)
AppliedIsDriven ==
    IsApplied(driver) =>
        /\ device.run = driver.target.run
        /\ driver.target.run \/ profile.separate => device.level = driver.target.level

(* What is reported as applied was read from the device after the last     *)
(* write reached it, the run state and the level.                          *)
ConfirmedByReading ==
    ReportsApplied(driver, profile) =>
        CASE profile.feedback = "StatusMask" -> {"Status", "Feedback"} \subseteq readSince
          [] profile.feedback = "DeviceStatus" -> "Feedback" \in readSince
          [] OTHER -> TRUE

(* The first thing on the wire after a stop was asked for is the stop,     *)
(* whatever was being prepared (PoolDeviceDriver.cpp line 484).            *)
StopIsFirst ==
    firstSent # "Other"

(* A device starts at the level that was asked for with its start          *)
(* (docs/modules/PoolActuators.md: the setpoint is written before the run).*)
StartsAtLevel ==
    [][~device.run /\ device'.run => device'.level = wire.target.level]_serialVars

(* A device behind the line does what it was last asked, stops first and   *)
(* starts at its level, and what is reported of it was read.               *)
DeviceFollows ==
    /\ [](SerialTypeOK /\ AppliedIsDriven /\ ConfirmedByReading /\ StopIsFirst)
    /\ StartsAtLevel

(* A target that stays reaches the device, faults being finite; a start    *)
(* may be refused because of its limit.                                    *)
TargetReached ==
    \A t \in Targets :
        <>[](driver.target = t) => <>[]((t.run /\ profile.limits) \/ device.run = t.run)
=============================================================================
