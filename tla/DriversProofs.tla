--------------------------- MODULE DriversProofs ---------------------------
(***************************************************************************)
(* Proofs about the drivers of pool devices, for every set of speeds and   *)
(* every dead time (DiscreteSpeeds), and for every set of setpoints and    *)
(* profiles (SerialDevice); and about the clock of their line (BusClock).  *)
(***************************************************************************)
EXTENDS DiscreteSpeeds, SerialDevice, BusClock, TLAPS

USE StepsAssumption, DeadTimeAssumption DEF Off, Unknown
-----------------------------------------------------------------------------
(* The contacts *)

(* While the driver counts on open contacts they are, and what is left of  *)
(* the dead time is what they have still to stay open.                     *)
ClearedIsOpen == cleared => contact = {} /\ openFor + readyIn >= DeadTime

SpeedFlags == cleared \in BOOLEAN /\ current \in BOOLEAN

SpeedRanges ==
    /\ contact \subseteq Steps /\ output \subseteq Steps
    /\ speed \in Steps \cup {Off}
    /\ applied \in Steps \cup {Off, Unknown}
    /\ readyIn \in 0..DeadTime /\ openFor \in 0..DeadTime
    /\ retryIn \in 0..RetryRest
    /\ contactFaults \in 0..MaxFaults

SpeedInv == SpeedRanges /\ ExclusiveContacts /\ ReportedAsWired /\ ClearedIsOpen

LEMMA SpeedInvInit == SpeedInit => SpeedInv
BY DEF SpeedInit, SpeedInv, SpeedRanges, ExclusiveContacts, ReportedAsWired, ClearedIsOpen

(* Opening the contacts closes none; if no write failed none stays closed. *)
LEMMA OpeningKeeps ==
    ASSUME SpeedInv, NEW fails \in SUBSET Steps, NEW stuck \in SUBSET fails,
           OpenContacts(fails, stuck)
    PROVE  SpeedInv' /\ contact' \subseteq contact
<1> USE DEF SpeedInv, SpeedRanges, ToOpen
<1>1. contact' \subseteq contact /\ output' \subseteq Steps
  BY DEF OpenContacts
<1>2. ExclusiveContacts'
  BY <1>1 DEF ExclusiveContacts
<1>3. openFor' \in 0..DeadTime
  BY DEF OpenContacts, Observed
<1>4. CASE fails = {}
  <2>1. contact' = {} /\ openFor' = openFor /\ readyIn' = DeadTime
    BY <1>4 DEF OpenContacts, Observed, NewDeadline
  <2> QED
    BY <1>1, <1>2, <1>4, <2>1
    DEF OpenContacts, Acknowledged, NoContactFault, ReportedAsWired, ClearedIsOpen, Selected
<1>5. CASE fails # {}
  <2>1. /\ applied' = Unknown /\ retryIn' = RetryRest
        /\ contactFaults' = contactFaults + 1 /\ contactFaults < MaxFaults
        /\ speed' = speed /\ readyIn' = readyIn /\ ~cleared'
    BY <1>5 DEF OpenContacts, ContactFault, Failed, NeedsClearing
  <2>2. SpeedRanges'
    BY <1>1, <1>3, <2>1
  <2>3. ReportedAsWired' /\ ClearedIsOpen'
    BY <2>1 DEF ReportedAsWired, ClearedIsOpen
  <2> QED
    BY <1>1, <1>2, <2>2, <2>3
<1> QED BY <1>1, <1>4, <1>5

(* A step is energised when the contacts have been open long enough.       *)
LEMMA EnergisingKeeps ==
    ASSUME SpeedInv, NEW ok \in BOOLEAN, NEW moved \in BOOLEAN, ok => moved, Energise(ok, moved)
    PROVE  SpeedInv' /\ openFor >= DeadTime
<1> USE DEF SpeedInv, SpeedRanges
<1>1. contact = {} /\ openFor >= DeadTime /\ speed \in Steps
  BY DEF Energise, ClearedIsOpen
<1>2. contact' \in {{}, {speed}} /\ output' \subseteq Steps /\ cleared' = FALSE
  BY <1>1 DEF Energise, ClearedBy
<1>3. ExclusiveContacts' /\ ClearedIsOpen'
  BY <1>2 DEF ExclusiveContacts, ClearedIsOpen
<1>4. openFor' \in 0..DeadTime
  BY DEF Energise, Observed
<1>5. ReportedAsWired'
  BY <1>1 DEF Energise, Acknowledged, Failed, ReportedAsWired, Selected
<1> QED
  BY <1>1, <1>2, <1>3, <1>4, <1>5
  DEF Energise, Acknowledged, Failed, ContactFault, NoContactFault

(* One step of the driver, its outputs or time.                            *)
LEMMA SpeedStep ==
    ASSUME SpeedInv, [SpeedNext]_speedVars
    PROVE  SpeedInv' /\ (contact' \subseteq contact \/ openFor >= DeadTime)
<1> USE DEF SpeedInv, SpeedRanges, ExclusiveContacts, ReportedAsWired, ClearedIsOpen
<1>1. ASSUME NEW t \in Steps \cup {Off}, SelectSpeed(t)
      PROVE  SpeedInv' /\ contact' \subseteq contact
  BY <1>1 DEF SelectSpeed
<1>2. CASE OutputsLost
  BY <1>2 DEF OutputsLost, ContactFault, Failed
<1>3. CASE ReadBackFails
  BY <1>3 DEF ReadBackFails, ContactFault, Failed
<1>4. CASE StopInDeadTime
  BY <1>4 DEF StopInDeadTime, Acknowledged, Selected
<1>5. ASSUME NEW adopted \in SUBSET Steps, RestartDriver(adopted)
      PROVE  SpeedInv' /\ contact' \subseteq contact
  BY <1>5 DEF RestartDriver, ContactFault
<1>6. CASE DeadTimePasses
  BY <1>6 DEF DeadTimePasses, LessOne
<1>7. CASE UNCHANGED speedVars
  BY <1>7 DEF speedVars
<1> QED
  BY <1>1, <1>2, <1>3, <1>4, <1>5, <1>6, <1>7, OpeningKeeps, EnergisingKeeps DEF SpeedNext

LEMMA SpeedFlagsStep ==
    ASSUME SpeedFlags, [SpeedNext]_speedVars
    PROVE  SpeedFlags'
<1> USE DEF SpeedFlags
<1>1. ASSUME NEW t \in Steps \cup {Off}, SelectSpeed(t)
      PROVE  SpeedFlags'
  BY <1>1 DEF SelectSpeed
<1>2. CASE OutputsLost \/ ReadBackFails \/ StopInDeadTime \/ DeadTimePasses
  BY <1>2 DEF OutputsLost, ReadBackFails, StopInDeadTime, Acknowledged, DeadTimePasses
<1>3. ASSUME NEW fails, NEW stuck, OpenContacts(fails, stuck)
      PROVE  SpeedFlags'
  BY <1>3 DEF OpenContacts, Acknowledged
<1>4. ASSUME NEW ok, NEW moved, Energise(ok, moved)
      PROVE  SpeedFlags'
  BY <1>4 DEF Energise, ClearedBy, Acknowledged
<1>5. ASSUME NEW adopted, RestartDriver(adopted)
      PROVE  SpeedFlags'
  BY <1>5 DEF RestartDriver
<1>6. CASE UNCHANGED speedVars
  BY <1>6 DEF speedVars
<1> QED
  BY <1>1, <1>2, <1>3, <1>4, <1>5, <1>6 DEF SpeedNext

(* However the target changes, whichever writes fail and whether or not    *)
(* they moved their contact, and across restarts: one contact at most, as  *)
(* reported, and only after the dead time without any.                     *)
THEOREM ContactsCorrect == SpeedSpec => ContactsSafe
<1>0. SpeedInit => SpeedFlags
  BY DEF SpeedInit, SpeedFlags
<1>1. SpeedSpec => [](SpeedInv /\ SpeedFlags)
  BY <1>0, SpeedInvInit, SpeedStep, SpeedFlagsStep, PTL DEF SpeedSpec
<1>2. SpeedInv /\ SpeedFlags => SpeedTypeOK /\ ExclusiveContacts /\ ReportedAsWired
  BY Zenon DEF SpeedInv, SpeedRanges, SpeedFlags, SpeedTypeOK
<1>3. SpeedInv /\ [SpeedNext]_speedVars
      => [contact' \subseteq contact \/ openFor >= DeadTime]_speedVars
  BY SpeedStep
<1> QED BY <1>1, <1>2, <1>3, PTL DEF SpeedSpec, ContactsSafe, BreakBeforeMake
-----------------------------------------------------------------------------
(* The device behind the line *)

Drivers ==
    [target : Targets, applied : Targets \cup {Nothing}, appliedNow : BOOLEAN,
     speedNow : BOOLEAN, limit : {Nothing, Low, High}, stopAcknowledged : BOOLEAN,
     confirmation : {Nothing, "Status", "Feedback"}, seenRun : BOOLEAN \cup {Nothing},
     seenLevel : Levels \cup {Nothing}, asked : Operations \cup {Nothing},
     sentNow : BOOLEAN, frozen : BOOLEAN]

SerialRanges ==
    /\ profile \in AllProfiles
    /\ driver \in Drivers
    /\ queued \in Requests \cup {Nothing}
    /\ wire \in Transmissions \cup {Nothing}
    /\ answer \in Answers \cup {Nothing}
    /\ device \in Targets
    /\ readSince \subseteq {"Status", "Feedback"} /\ firstSent \in {Nothing, "Stop", "Other"}
    /\ exchangeFaults \in Nat

(* What a driver concludes is so, and what is on the wire cannot make it   *)
(* untrue: a write of an earlier target has left it.                       *)
NothingStale(d) ==
    d.appliedNow \/ d.speedNow \/ d.stopAcknowledged => wire = Nothing \/ wire.target = d.target

Registers(d) ==
    /\ d.speedNow => device.level = d.target.level
    /\ d.stopAcknowledged => ~device.run /\ ~d.target.run
    /\ d.appliedNow =>
        /\ device.run = d.target.run
        /\ profile.separate => d.speedNow
        /\ d.target.run => device.level = d.target.level

(* What is left to confirm of an applied target has not been read yet, and *)
(* nothing is being written that would have to be read again.              *)
ToConfirm(d) ==
    IsApplied(d) /\ profile.feedback # "None" =>
        /\ wire = Nothing \/ wire.op \notin Writes
        /\ CASE profile.feedback = "StatusMask" ->
                  \/ d.confirmation = "Status"
                  \/ d.confirmation = "Feedback" /\ "Status" \in readSince
                  \/ d.confirmation = Nothing /\ {"Status", "Feedback"} \subseteq readSince
             [] OTHER ->
                  \/ d.confirmation = "Feedback"
                  \/ d.confirmation = Nothing /\ "Feedback" \in readSince

(* Until something was sent for a stop, nothing was acknowledged for it.   *)
StopStillDue(d) == ~d.target.run /\ firstSent = Nothing => ~d.appliedNow /\ ~d.stopAcknowledged

Sound(d) ==
    d \in Drivers /\ NothingStale(d) /\ Registers(d) /\ ToConfirm(d) /\ StopStillDue(d)

(* The exchange a driver waits for is for its target, and its turn had     *)
(* come: a setpoint before a run, a stop before a setpoint.                *)
Asked(d, x) ==
    /\ x.op = d.asked /\ x.target = d.target /\ d.sentNow
    /\ x.op = "Setpoint" => profile.separate /\ (d.target.run \/ d.stopAcknowledged)
    /\ x.op = "Run" /\ profile.separate /\ d.target.run => d.speedNow
    /\ IsApplied(d) /\ profile.feedback # "None" => x.op \notin Writes

(* What the device did with a request that reached it.                     *)
Executed(x) ==
    /\ x.op = "Run" => /\ device.run = x.target.run
                       /\ x.target.run => device.level = x.target.level
    /\ x.op = "Setpoint" => device.level = x.target.level
    /\ x.op \in {"Status", "Feedback"} =>
          x.value = Nothing \/ (x.value \in Targets /\ x.op \in readSince)
    /\ x.op = "Limits" => x.value \in {Nothing, Low, High}

(* The one exchange that is the driver's, if any.                          *)
NoneOwned == wire = Nothing \/ ~wire.owned

Idle == queued = Nothing /\ answer = Nothing /\ NoneOwned /\ driver.asked = Nothing

Waiting ==
    /\ queued # Nothing /\ answer = Nothing /\ NoneOwned
    /\ Asked(driver, queued)
    /\ ~driver.target.run /\ firstSent = Nothing => queued.op = "Run"

OnTheWire ==
    /\ wire # Nothing /\ wire.owned /\ queued = Nothing /\ answer = Nothing
    /\ Asked(driver, wire)
    /\ driver.target.run \/ firstSent # Nothing

Answered ==
    /\ answer # Nothing /\ queued = Nothing /\ wire = Nothing
    /\ Asked(driver, answer)
    /\ answer.ok => Executed(answer)
    /\ driver.target.run \/ firstSent # Nothing

(* A request to run is on the wire with its level in the register already, *)
(* whether or not the driver still waits for it.                           *)
LevelFirst ==
    wire = Nothing \/
    /\ wire.op = "Run" /\ profile.separate /\ wire.target.run
       => device.level = wire.target.level
    /\ wire.reached => Executed(wire)

SerialInv ==
    /\ SerialRanges
    /\ Sound(driver)
    /\ Idle \/ Waiting \/ OnTheWire \/ Answered
    /\ LevelFirst
    /\ StopIsFirst

USE LevelsAssumption, SerialFaultsAssumption, NothingAssumption, ProfilesAssumption

LEMMA SerialInvInit == SerialInit => SerialInv
<1> SUFFICES ASSUME SerialInit PROVE SerialInv
  OBVIOUS
<1>1. StoppedTarget \in Targets /\ ~StoppedTarget.run
  <2>1. PICK l \in Levels : \A m \in Levels : l <= m
    OBVIOUS
  <2>2. (CHOOSE u \in Levels : \A m \in Levels : u <= m) \in Levels
    BY <2>1
  <2> QED BY <2>2 DEF StoppedTarget, Targets
<1>2. SerialRanges /\ driver.asked = Nothing
  BY <1>1 DEF SerialInit, SerialRanges, Drivers
<1>3. Sound(driver)
  BY <1>1, <1>2
  DEF SerialInit, SerialRanges, Sound, NothingStale, Registers, ToConfirm, StopStillDue, IsApplied
<1> QED
  BY <1>2, <1>3 DEF SerialInit, SerialInv, Idle, NoneOwned, LevelFirst, StopIsFirst

(* What a driver concluded does not depend on what it waits for.           *)
LEMMA SoundOf ==
    ASSUME NEW d, NEW e \in Drivers, Sound(d),
           e.target = d.target, e.applied = d.applied, e.appliedNow = d.appliedNow,
           e.speedNow = d.speedNow, e.stopAcknowledged = d.stopAcknowledged,
           e.confirmation = d.confirmation
    PROVE  Sound(e)
BY DEF Sound, NothingStale, Registers, ToConfirm, StopStillDue, IsApplied

(* A target is forgotten with what was to be confirmed of it.              *)
LEMMA SoundUnapplied ==
    ASSUME NEW d, NEW e \in Drivers, Sound(d),
           e.target = d.target, e.applied = Nothing, e.appliedNow = d.appliedNow,
           e.speedNow = d.speedNow, e.stopAcknowledged \in {d.stopAcknowledged, FALSE}
    PROVE  Sound(e)
BY DEF Sound, NothingStale, Registers, ToConfirm, StopStillDue, IsApplied

(* What a tick submits is wanted: stop, setpoint and run in their order.   *)
LEMMA Submission ==
    ASSUME profile \in AllProfiles, NEW d, Sound(d), NEW op \in Wanted(d, profile),
           NEW e, e = [d EXCEPT !.asked = op, !.sentNow = TRUE]
    PROVE  /\ op \in Operations
           /\ e \in Drivers /\ e.target = d.target /\ Sound(e)
           /\ Asked(e, [op |-> op, target |-> d.target])
           /\ ~d.target.run /\ firstSent = Nothing => op = "Run"
<1> USE DEF AllProfiles, Operations, Targets
<1>0. d \in Drivers
  BY DEF Sound
<1>1. op \in Operations
  <2>1. \/ op \in Commands(d, profile) \cup Polls(profile)
        \/ op = d.confirmation /\ op # Nothing
    BY DEF Wanted
  <2>2. Commands(d, profile) \subseteq Operations /\ Polls(profile) \subseteq Operations
    BY DEF Commands, Polls
  <2> QED
    BY <1>0, <2>1, <2>2 DEF Drivers
<1>2. /\ e \in Drivers /\ e.target = d.target /\ e.asked = op /\ e.sentNow
      /\ Sound(e) /\ e.applied = d.applied /\ e.appliedNow = d.appliedNow
      /\ e.speedNow = d.speedNow /\ e.stopAcknowledged = d.stopAcknowledged
  <2>1. /\ e \in Drivers /\ e.target = d.target /\ e.asked = op /\ e.sentNow
        /\ e.applied = d.applied /\ e.appliedNow = d.appliedNow
        /\ e.speedNow = d.speedNow /\ e.stopAcknowledged = d.stopAcknowledged
        /\ e.confirmation = d.confirmation
    BY <1>0, <1>1 DEF Drivers
  <2> QED
    BY <2>1, SoundOf
<1>3. CASE ~IsApplied(d)
  <2>1. op \in Commands(d, profile)
    BY <1>3 DEF Wanted
  <2>2. op \in {"Run", "Setpoint", "Limits"}
    BY <2>1 DEF Commands
  <2>3. op = "Setpoint" => profile.separate /\ (d.target.run \/ d.stopAcknowledged)
    BY <1>0, <2>1 DEF Commands, StopNow, StopComes, SetpointFirst, Drivers
  <2>4. op = "Run" /\ profile.separate /\ d.target.run => d.speedNow
    BY <1>0, <2>1 DEF Commands, StopNow, StopComes, SetpointFirst, Drivers
  <2>5. ~d.target.run /\ firstSent = Nothing => op = "Run"
    BY <1>0, <2>1 DEF Sound, StopStillDue, Commands, StopNow, StopComes, SetpointFirst, Drivers
  <2> QED
    BY <1>2, <1>3, <2>2, <2>3, <2>4, <2>5 DEF Asked, IsApplied
<1>4. CASE IsApplied(d)
  <2>1. \/ op \in {"Status", "Feedback", "Telemetry"}
        \/ op = "Run" /\ profile.feedback = "None"
    BY <1>0, <1>4 DEF Wanted, Polls, Drivers
  <2>2. profile.separate => d.speedNow
    BY <1>4 DEF Sound, Registers, IsApplied
  <2>3. ~(~d.target.run /\ firstSent = Nothing)
    BY <1>4 DEF Sound, StopStillDue, IsApplied
  <2> QED
    BY <1>2, <2>1, <2>2, <2>3 DEF Asked, Writes
<1> QED BY <1>3, <1>4

(* A command that the device executed is acknowledged, and everything is   *)
(* to be confirmed.                                                        *)
LEMMA AcknowledgedSound ==
    ASSUME profile \in AllProfiles, NEW d \in Drivers, wire = Nothing, d.sentNow,
           device.run = d.target.run, d.target.run => device.level = d.target.level,
           d.speedNow => device.level = d.target.level, profile.separate => d.speedNow,
           d.stopAcknowledged => ~device.run /\ ~d.target.run,
           d.target.run \/ firstSent # Nothing
    PROVE  LET c == CommandAcknowledged(d, profile, d.target)
           IN  Sound(c) /\ c.target = d.target
<1> DEFINE c == CommandAcknowledged(d, profile, d.target)
<1>1. FirstReading(profile) \in {Nothing, "Status", "Feedback"}
  BY DEF FirstReading
<1>2. /\ c \in Drivers /\ c.target = d.target /\ c.applied = d.target /\ c.appliedNow
      /\ c.speedNow = d.speedNow /\ c.stopAcknowledged = d.stopAcknowledged
      /\ c.confirmation = FirstReading(profile)
  BY <1>1 DEF CommandAcknowledged, Drivers
<1>3. ToConfirm(c)
  BY <1>2 DEF ToConfirm, FirstReading, AllProfiles
<1> QED
  BY <1>2, <1>3 DEF Sound, NothingStale, Registers, StopStillDue

(* An answer is taken for what the device did.                             *)
LEMMA Consumption ==
    ASSUME SerialInv, Answered
    PROVE  Sound(Polled) /\ Polled.target = driver.target /\ Polled.asked = Nothing
<1> DEFINE d == driver  a == answer
           done(c) == [c EXCEPT !.asked = Nothing]
<1> USE DEF AllProfiles, Targets
<1>1. /\ d \in Drivers /\ Sound(d) /\ a \in Answers /\ wire = Nothing
      /\ profile \in AllProfiles /\ Asked(d, a) /\ a.op \in Operations /\ a.target = d.target
      /\ (a.ok => Executed(a)) /\ (d.target.run \/ firstSent # Nothing)
      /\ device \in Targets
  BY DEF SerialInv, SerialRanges, Answered, Sound, Answers, Asked
<1>2. Polled = Consumed(d, profile, a)
  BY DEF Answered, Polled
<1>3. ASSUME NEW c \in Drivers, Sound(c), c.target = d.target
      PROVE  /\ done(c) \in Drivers /\ Sound(done(c))
             /\ done(c).target = d.target /\ done(c).asked = Nothing
  <2>1. /\ done(c) \in Drivers /\ done(c).target = c.target /\ done(c).applied = c.applied
        /\ done(c).appliedNow = c.appliedNow /\ done(c).speedNow = c.speedNow
        /\ done(c).stopAcknowledged = c.stopAcknowledged
        /\ done(c).confirmation = c.confirmation /\ done(c).asked = Nothing
    BY <1>3 DEF Drivers
  <2> QED
    BY <1>3, <2>1, SoundOf
<1>4. CASE a.op = "Telemetry"
  <2>1. Polled = done(d)
    BY <1>2, <1>4 DEF Consumed
  <2> QED BY <1>1, <1>3, <2>1
<1>5. CASE ~a.ok /\ a.op # "Telemetry"
  <2> DEFINE c == FailedDriver(d)
  <2>1. Polled = done(c)
    BY <1>2, <1>5 DEF Consumed
  <2>2. /\ c \in Drivers /\ c.target = d.target /\ c.applied = Nothing
        /\ c.appliedNow = d.appliedNow /\ c.speedNow = d.speedNow
        /\ c.stopAcknowledged = FALSE
    BY <1>1 DEF FailedDriver, Drivers
  <2>3. Sound(c)
    BY <1>1, <2>2, SoundUnapplied
  <2> QED BY <1>3, <2>1, <2>2, <2>3
<1>6. CASE a.ok /\ a.op = "Setpoint"
  <2> DEFINE s == SpeedRecorded(d)
  <2>1. /\ s \in Drivers /\ s.target = d.target /\ s.speedNow
        /\ s.applied = d.applied /\ s.appliedNow = d.appliedNow /\ s.sentNow
        /\ s.stopAcknowledged = d.stopAcknowledged /\ s.confirmation = d.confirmation
    BY <1>1 DEF SpeedRecorded, Drivers, Asked
  <2>2. device.level = d.target.level /\ profile.separate
        /\ (d.target.run \/ d.stopAcknowledged)
    BY <1>1, <1>6 DEF Executed, Asked
  <2>3. CASE d.target.run
    <3>1. Polled = done(s)
      BY <1>1, <1>2, <1>6, <2>3 DEF Consumed, SetpointWritten, RunToCome
    <3>2. Sound(s)
      BY <1>1, <1>6, <2>1, <2>2, <2>3
      DEF Sound, NothingStale, Registers, ToConfirm, StopStillDue, IsApplied, Asked, Writes
    <3> QED BY <1>3, <2>1, <3>1, <3>2
  <2>4. CASE ~d.target.run
    <3> DEFINE c == CommandAcknowledged(s, profile, d.target)
    <3>1. Polled = done(c)
      BY <1>1, <1>2, <1>6, <2>4 DEF Consumed, SetpointWritten, RunToCome
    <3>2. device.run = s.target.run /\ ~s.target.run /\ ~device.run
      BY <1>1, <2>1, <2>2, <2>4 DEF Sound, Registers, Drivers
    <3>3. c = CommandAcknowledged(s, profile, s.target)
      BY <2>1
    <3> HIDE DEF s, c
    <3>4. Sound(c) /\ c.target = d.target
      BY <1>1, <2>1, <2>2, <3>2, <3>3, AcknowledgedSound
    <3> QED BY <1>3, <3>1, <3>4 DEF Sound
  <2> QED BY <2>3, <2>4
<1>7. CASE a.ok /\ a.op = "Run"
  <2>1. CASE profile.separate /\ ~d.target.run
    <3> DEFINE c == StopAcknowledged(d)
    <3>1. Polled = done(c)
      BY <1>1, <1>2, <1>7, <2>1 DEF Consumed, RunWritten
    <3>2. /\ c \in Drivers /\ c.target = d.target /\ c.applied = Nothing
          /\ c.appliedNow = d.appliedNow /\ c.speedNow = d.speedNow /\ c.stopAcknowledged
      BY <1>1 DEF StopAcknowledged, Drivers
    <3>3. Sound(c)
      BY <1>1, <1>7, <2>1, <3>2
      DEF Sound, NothingStale, Registers, ToConfirm, StopStillDue, IsApplied, Executed
    <3> QED BY <1>3, <3>1, <3>2, <3>3
  <2>2. CASE ~(profile.separate /\ ~d.target.run)
    <3> DEFINE c == CommandAcknowledged(d, profile, d.target)
    <3>1. Polled = done(c)
      BY <1>1, <1>2, <1>7, <2>2 DEF Consumed, RunWritten
    <3>2. d.sentNow /\ (profile.separate => d.speedNow)
      BY <1>1, <1>7, <2>2 DEF Asked
    <3>3. /\ device.run = d.target.run
          /\ d.target.run => device.level = d.target.level
      BY <1>1, <1>7 DEF Executed
    <3>4. Sound(c) /\ c.target = d.target
      BY <1>1, <3>2, <3>3, AcknowledgedSound DEF Sound, Registers
    <3> QED BY <1>3, <3>1, <3>4 DEF Sound
  <2> QED BY <2>1, <2>2
<1>8. CASE a.ok /\ a.op = "Limits"
  <2> DEFINE c == LimitRead(d, a.value)
  <2>1. Polled = done(c)
    BY <1>2, <1>8 DEF Consumed
  <2>2. a.value \in {Nothing, Low, High}
    BY <1>1, <1>8 DEF Executed
  <2>3. CASE a.value = Nothing
    <3>1. /\ c \in Drivers /\ c.target = d.target /\ c.applied = Nothing
          /\ c.appliedNow = d.appliedNow /\ c.speedNow = d.speedNow
          /\ c.stopAcknowledged = d.stopAcknowledged
      <4> DEFINE u == Unapplied(d)
      <4>1. /\ u \in Drivers /\ u.target = d.target /\ u.applied = Nothing
            /\ u.appliedNow = d.appliedNow /\ u.speedNow = d.speedNow
            /\ u.stopAcknowledged = d.stopAcknowledged
        BY <1>1 DEF Unapplied, Drivers
      <4>2. c = [u EXCEPT !.limit = Nothing]
        BY <2>3 DEF LimitRead
      <4> HIDE DEF u, c
      <4> QED BY <4>1, <4>2 DEF Drivers
    <3> QED BY <1>1, <1>3, <2>1, <3>1, SoundUnapplied
  <2>4. CASE a.value # Nothing
    <3>1. /\ c \in Drivers /\ c.target = d.target /\ c.applied = d.applied
          /\ c.appliedNow = d.appliedNow /\ c.speedNow = d.speedNow
          /\ c.stopAcknowledged = d.stopAcknowledged /\ c.confirmation = d.confirmation
      BY <1>1, <2>2, <2>4 DEF LimitRead, Drivers
    <3> QED BY <1>1, <1>3, <2>1, <3>1, SoundOf
  <2> QED BY <2>3, <2>4
<1>9. CASE a.ok /\ a.op \in {"Status", "Feedback"} /\ a.value = Nothing
  <2> DEFINE c == Unread(d)
  <2>1. Polled = done(c)
    BY <1>2, <1>9 DEF Consumed
  <2>2. /\ c \in Drivers /\ c.target = d.target /\ c.applied = Nothing
        /\ c.appliedNow = d.appliedNow /\ c.speedNow = d.speedNow
        /\ c.stopAcknowledged = d.stopAcknowledged
    BY <1>1 DEF Unread, Drivers
  <2> QED BY <1>1, <1>3, <2>1, <2>2, SoundUnapplied
<1>10. CASE a.ok /\ a.op \in {"Status", "Feedback"} /\ a.value # Nothing
  <2> DEFINE c == Reading(d, profile, a)
  <2>1. Polled = done(c)
    BY <1>2, <1>10 DEF Consumed
  <2>2. a.value.run \in BOOLEAN /\ a.value.level \in Levels /\ a.op \in readSince
    BY <1>1, <1>10 DEF Executed
  <2>3. NextConfirmation(d, a.op) \in {Nothing, "Status", "Feedback"}
    BY <1>1 DEF NextConfirmation, Drivers
  <2>4. /\ c \in Drivers /\ c.target = d.target /\ c.applied = d.applied
        /\ c.appliedNow = d.appliedNow /\ c.speedNow = d.speedNow
        /\ c.stopAcknowledged = d.stopAcknowledged
        /\ c.confirmation = NextConfirmation(d, a.op)
    <3> DEFINE r == IF a.op = "Status" \/ profile.feedback = "DeviceStatus"
                    THEN a.value.run ELSE d.seenRun
               l == IF a.op = "Feedback" THEN a.value.level ELSE d.seenLevel
               n == NextConfirmation(d, a.op)
    <3>1. r \in BOOLEAN \cup {Nothing} /\ l \in Levels \cup {Nothing}
      BY <1>1, <2>2 DEF Drivers
    <3>2. c = [d EXCEPT !.seenRun = r, !.seenLevel = l, !.confirmation = n]
      BY DEF Reading
    <3> HIDE DEF r, l, n, c
    <3>3. n \in {Nothing, "Status", "Feedback"}
      BY <2>3 DEF n
    <3>4. /\ c \in Drivers /\ c.target = d.target /\ c.applied = d.applied
          /\ c.appliedNow = d.appliedNow /\ c.speedNow = d.speedNow
          /\ c.stopAcknowledged = d.stopAcknowledged /\ c.confirmation = n
      BY <1>1, <3>1, <3>2, <3>3 DEF Drivers
    <3> QED BY <3>4 DEF n
  <2> HIDE DEF c
  <2>5. ToConfirm(c)
    <3>1. SUFFICES ASSUME IsApplied(d), profile.feedback # "None" PROVE ToConfirm(c)
      BY <2>4 DEF ToConfirm, IsApplied
    <3>2. CASE a.op # d.confirmation
      BY <1>1, <2>4, <3>1, <3>2 DEF Sound, ToConfirm, IsApplied, NextConfirmation
    <3>3. CASE a.op = d.confirmation /\ a.op = "Status"
      <4>1. c.confirmation = "Feedback"
        BY <2>4, <3>3 DEF NextConfirmation
      <4> QED BY <1>1, <2>2, <3>3, <4>1 DEF ToConfirm
    <3>4. CASE a.op = d.confirmation /\ a.op = "Feedback"
      <4>1. c.confirmation = Nothing
        BY <2>4, <3>4 DEF NextConfirmation
      <4>2. profile.feedback = "StatusMask" => "Status" \in readSince
        BY <1>1, <3>1, <3>4 DEF Sound, ToConfirm, Operations
      <4> QED BY <1>1, <2>2, <3>4, <4>1, <4>2 DEF ToConfirm
    <3> QED BY <1>10, <3>2, <3>3, <3>4
  <2>6. Sound(c)
    BY <1>1, <2>4, <2>5 DEF Sound, NothingStale, Registers, StopStillDue
  <2> QED BY <1>3, <2>1, <2>4, <2>6
<1> QED
  BY <1>1, <1>4, <1>5, <1>6, <1>7, <1>8, <1>9, <1>10 DEF Operations, Answers

(* Cancelling leaves the driver nothing to wait for.                       *)
LEMMA CancelledIdle ==
    ASSUME SerialRanges, Cancelled
    PROVE  /\ queued' = Nothing /\ answer' = Nothing /\ wire' \in Transmissions \cup {Nothing}
           /\ NoneOwned'
           /\ wire' = Nothing <=> wire = Nothing
           /\ wire # Nothing => /\ wire'.op = wire.op /\ wire'.target = wire.target
                                /\ wire'.reached = wire.reached /\ wire'.value = wire.value
BY DEF SerialRanges, Cancelled, NoneOwned, Transmissions

(* A driver that waits for nothing has nothing under way.                  *)
LEMMA UnaskedIsIdle == SerialInv /\ driver.asked = Nothing => Idle
BY DEF SerialInv, SerialRanges, Idle, Waiting, OnTheWire, Answered, Asked, Requests, Answers,
       Transmissions

LEMMA ApplyTargetStep ==
    ASSUME SerialInv, NEW t \in Targets, ApplyTarget(t)
    PROVE  SerialInv'
<1>1. /\ driver' \in Drivers /\ driver'.target = t
      /\ ~driver'.appliedNow /\ ~driver'.speedNow /\ ~driver'.stopAcknowledged
      /\ driver'.asked = Nothing
  BY DEF SerialInv, SerialRanges, ApplyTarget, Drivers
<1>2. /\ queued' = Nothing /\ answer' = Nothing /\ wire' \in Transmissions \cup {Nothing}
      /\ NoneOwned'
      /\ wire' = Nothing <=> wire = Nothing
      /\ wire # Nothing => /\ wire'.op = wire.op /\ wire'.target = wire.target
                           /\ wire'.reached = wire.reached /\ wire'.value = wire.value
  <2>1. CASE driver.asked = Nothing
    BY <2>1, UnaskedIsIdle DEF SerialInv, SerialRanges, ApplyTarget, DropsExchange, LeftAlone,
                               Idle, NoneOwned
  <2>2. CASE driver.asked # Nothing
    BY <2>2, CancelledIdle DEF SerialInv, ApplyTarget, DropsExchange
  <2> QED BY <2>1, <2>2
<1>3. SerialRanges'
  BY <1>1, <1>2 DEF SerialInv, SerialRanges, ApplyTarget
<1>4. Sound(driver)'
  BY <1>1 DEF Sound, NothingStale, Registers, ToConfirm, StopStillDue, IsApplied
<1>5. LevelFirst'
  BY <1>2 DEF SerialInv, LevelFirst, Executed, ApplyTarget
<1> QED
  BY <1>1, <1>2, <1>3, <1>4, <1>5
  DEF SerialInv, Idle, StopIsFirst, ApplyTarget, Operations

LEMMA FreezeStep ==
    ASSUME SerialInv, Freeze
    PROVE  SerialInv'
<1>1. /\ driver' \in Drivers /\ driver'.target = driver.target
      /\ driver'.applied = driver.applied /\ driver'.appliedNow = driver.appliedNow
      /\ driver'.speedNow = driver.speedNow /\ driver'.asked = Nothing
      /\ driver'.stopAcknowledged = driver.stopAcknowledged
      /\ driver'.confirmation = driver.confirmation
  BY DEF SerialInv, SerialRanges, Freeze, Drivers
<1>2. /\ queued' = Nothing /\ answer' = Nothing /\ wire' \in Transmissions \cup {Nothing}
      /\ NoneOwned'
      /\ wire' = Nothing <=> wire = Nothing
      /\ wire # Nothing => /\ wire'.op = wire.op /\ wire'.target = wire.target
                           /\ wire'.reached = wire.reached /\ wire'.value = wire.value
  BY CancelledIdle DEF SerialInv, Freeze
<1>3. SerialRanges'
  BY <1>1, <1>2 DEF SerialInv, SerialRanges, Freeze, ExchangeFault
<1>4. Sound(driver)'
  BY <1>1, <1>2
  DEF SerialInv, Sound, NothingStale, Registers, ToConfirm, StopStillDue, IsApplied, Freeze
<1>5. LevelFirst'
  BY <1>2 DEF SerialInv, LevelFirst, Executed, Freeze
<1> QED
  BY <1>1, <1>2, <1>3, <1>4, <1>5 DEF SerialInv, Idle, StopIsFirst, Freeze

(* A tick knows what the answer says, and nothing is under way.            *)
LEMMA PolledSound ==
    ASSUME SerialInv, driver.asked = Nothing \/ answer # Nothing
    PROVE  /\ Sound(Polled) /\ Polled.target = driver.target /\ Polled.asked = Nothing
           /\ queued = Nothing /\ NoneOwned
<1>1. CASE answer = Nothing
  BY <1>1, UnaskedIsIdle DEF SerialInv, Idle, Polled
<1>2. CASE answer # Nothing
  <2>1. Answered
    BY <1>2 DEF SerialInv, Idle, Waiting, OnTheWire
  <2> QED BY <2>1, Consumption DEF Answered, NoneOwned
<1> QED BY <1>1, <1>2

(* What a tick leaves behind, whether or not it submitted something.       *)
LEMMA TickEndsSound ==
    ASSUME SerialInv, NEW d \in Drivers, Sound(d), TickEnds(d),
           queued' \in Requests \cup {Nothing}, exchangeFaults' \in Nat
    PROVE  /\ SerialRanges' /\ Sound(driver)' /\ LevelFirst' /\ StopIsFirst'
           /\ driver'.target = d.target /\ driver'.asked = d.asked
           /\ driver'.sentNow = d.sentNow /\ driver'.applied = d.applied
           /\ driver'.appliedNow = d.appliedNow /\ driver'.speedNow = d.speedNow
           /\ driver'.stopAcknowledged = d.stopAcknowledged
<1>1. /\ driver' \in Drivers /\ driver'.target = d.target /\ driver'.asked = d.asked
      /\ driver'.sentNow = d.sentNow /\ driver'.applied = d.applied
      /\ driver'.appliedNow = d.appliedNow /\ driver'.speedNow = d.speedNow
      /\ driver'.stopAcknowledged = d.stopAcknowledged
      /\ driver'.confirmation = d.confirmation
  BY DEF TickEnds, Drivers
<1>2. SerialRanges'
  BY <1>1 DEF SerialInv, SerialRanges, TickEnds
<1>3. Sound(driver)'
  BY <1>1 DEF Sound, NothingStale, Registers, ToConfirm, StopStillDue, IsApplied, TickEnds
<1> QED
  BY <1>1, <1>2, <1>3 DEF SerialInv, LevelFirst, Executed, StopIsFirst, TickEnds

LEMMA TickSubmitsStep ==
    ASSUME SerialInv, NEW op \in Operations, TickSubmits(op)
    PROVE  SerialInv'
<1> DEFINE e == [Polled EXCEPT !.asked = op, !.sentNow = TRUE]
           x == [op |-> op, target |-> driver.target]
<1>1. /\ Sound(Polled) /\ Polled.target = driver.target
      /\ queued = Nothing /\ NoneOwned
  BY PolledSound DEF TickSubmits, TickEnds
<1>2. profile \in AllProfiles /\ op \in Wanted(Polled, profile) /\ driver.target \in Targets
  BY DEF SerialInv, SerialRanges, TickSubmits, Drivers
<1>3. /\ e \in Drivers /\ e.target = driver.target /\ Sound(e)
      /\ Asked(e, x)
      /\ ~driver.target.run /\ firstSent = Nothing => op = "Run"
  BY <1>1, <1>2, Submission
<1>4. x \in Requests /\ x # Nothing /\ x.op = op
  BY <1>2 DEF Requests
<1>5. queued' = x /\ TickEnds(e) /\ exchangeFaults' = exchangeFaults
  BY DEF TickSubmits
<1> HIDE DEF e, x
<1>6. /\ SerialRanges' /\ Sound(driver)' /\ LevelFirst' /\ StopIsFirst'
      /\ driver'.target = e.target /\ driver'.asked = e.asked
      /\ driver'.sentNow = e.sentNow /\ driver'.applied = e.applied
      /\ driver'.appliedNow = e.appliedNow /\ driver'.speedNow = e.speedNow
      /\ driver'.stopAcknowledged = e.stopAcknowledged
  BY <1>3, <1>4, <1>5, TickEndsSound DEF SerialInv, SerialRanges
<1>7. Waiting'
  BY <1>1, <1>3, <1>4, <1>5, <1>6 DEF Waiting, Asked, IsApplied, TickEnds, NoneOwned
<1> QED BY <1>6, <1>7 DEF SerialInv

LEMMA TickOnlyStep ==
    ASSUME SerialInv, TickOnly
    PROVE  SerialInv'
<1>1. /\ Sound(Polled) /\ Polled.asked = Nothing
      /\ queued = Nothing /\ NoneOwned /\ Polled \in Drivers
  BY PolledSound DEF TickOnly, TickEnds, Sound
<1>2. /\ SerialRanges' /\ Sound(driver)' /\ LevelFirst' /\ StopIsFirst'
      /\ driver'.asked = Nothing
  BY <1>1, TickEndsSound DEF TickOnly, SerialInv, SerialRanges
<1>3. Idle'
  BY <1>1, <1>2 DEF Idle, TickOnly, TickEnds, NoneOwned
<1> QED BY <1>2, <1>3 DEF SerialInv

LEMMA TickRefusedStep ==
    ASSUME SerialInv, TickRefused
    PROVE  SerialInv'
<1> DEFINE e == Unapplied(Polled)
<1>1. /\ Sound(Polled) /\ Polled.asked = Nothing
      /\ queued = Nothing /\ NoneOwned /\ Polled \in Drivers
  BY PolledSound DEF TickRefused, TickEnds, Sound
<1>2. /\ e \in Drivers /\ e.asked = Nothing /\ e.target = Polled.target /\ e.applied = Nothing
      /\ e.appliedNow = Polled.appliedNow /\ e.speedNow = Polled.speedNow
      /\ e.stopAcknowledged = Polled.stopAcknowledged
  BY <1>1 DEF Unapplied, Drivers
<1>3. Sound(e)
  BY <1>1, <1>2, SoundUnapplied
<1>4. TickEnds(e) /\ queued' = Nothing /\ exchangeFaults' \in Nat
  BY <1>1 DEF TickRefused, ExchangeFault, SerialInv, SerialRanges
<1> HIDE DEF e
<1>5. /\ SerialRanges' /\ Sound(driver)' /\ LevelFirst' /\ StopIsFirst'
      /\ driver'.asked = Nothing
  BY <1>2, <1>3, <1>4, TickEndsSound
<1>6. Idle'
  BY <1>1, <1>4, <1>5 DEF Idle, TickEnds, NoneOwned
<1> QED BY <1>5, <1>6 DEF SerialInv

LEMMA StaleStep ==
    ASSUME SerialInv, Stale
    PROVE  SerialInv'
<1>1. /\ driver' \in Drivers /\ driver'.target = driver.target
      /\ driver'.applied = driver.applied /\ driver'.appliedNow = driver.appliedNow
      /\ driver'.speedNow = driver.speedNow /\ driver'.asked = driver.asked
      /\ driver'.stopAcknowledged = driver.stopAcknowledged
      /\ driver'.confirmation = driver.confirmation /\ driver'.sentNow = driver.sentNow
  BY DEF SerialInv, SerialRanges, Stale, Drivers
<1>2. SerialRanges'
  BY <1>1 DEF SerialInv, SerialRanges, Stale
<1>3. Sound(driver)'
  BY <1>1
  DEF SerialInv, Sound, NothingStale, Registers, ToConfirm, StopStillDue, IsApplied, Stale
<1>4. (Idle \/ Waiting \/ OnTheWire \/ Answered)'
  BY <1>1
  DEF SerialInv, Idle, Waiting, OnTheWire, Answered, NoneOwned, Asked, IsApplied, Executed, Stale
<1> QED
  BY <1>2, <1>3, <1>4 DEF SerialInv, LevelFirst, Executed, StopIsFirst, Stale

LEMMA TransmitStep ==
    ASSUME SerialInv, Transmit
    PROVE  SerialInv'
<1>1. Waiting /\ wire = Nothing /\ queued \in Requests /\ queued' = Nothing
  BY DEF SerialInv, SerialRanges, Idle, Waiting, OnTheWire, Answered, Transmit
<1>2. /\ wire' \in Transmissions /\ wire' # Nothing /\ wire'.owned /\ ~wire'.reached
      /\ wire'.op = queued.op /\ wire'.target = queued.target
  <2>1. wire' = [op |-> queued.op, target |-> queued.target, owned |-> TRUE,
                 reached |-> FALSE, value |-> Nothing]
    BY DEF Transmit
  <2>2. queued.op \in Operations /\ queued.target \in Targets /\ Nothing \in Readings
    BY <1>1 DEF Requests, Readings
  <2>3. wire' \in Transmissions
    BY <2>1, <2>2 DEF Transmissions
  <2> QED BY <2>1, <2>3
<1>3. firstSent' \in {"Stop", "Other", Nothing} /\ StopIsFirst'
      /\ (driver.target.run \/ firstSent' # Nothing)
  BY <1>1 DEF SerialInv, SerialRanges, Waiting, Asked, Transmit, StopIsFirst
<1>4. SerialRanges'
  BY <1>1, <1>2, <1>3 DEF SerialInv, SerialRanges, Transmit
<1>5. Sound(driver)'
  BY <1>1, <1>2, <1>3
  DEF SerialInv, Sound, NothingStale, Registers, ToConfirm, StopStillDue, IsApplied, Transmit,
      Waiting, Asked
<1>6. OnTheWire'
  BY <1>1, <1>2, <1>3 DEF OnTheWire, Waiting, Asked, IsApplied, Transmit
<1>7. LevelFirst'
  BY <1>1, <1>2 DEF SerialInv, LevelFirst, Waiting, Asked, Sound, Registers, Transmit
<1> QED BY <1>3, <1>4, <1>5, <1>6, <1>7 DEF SerialInv

(* A request that reaches the device brings it to what the driver already  *)
(* takes for done, or to what it will take for done.                       *)
LEMMA ReachStep ==
    ASSUME SerialInv, Reach
    PROVE  /\ SerialInv'
           /\ ~device.run /\ device'.run => device'.level = wire.target.level
<1> USE DEF Targets
<1>1. /\ wire \in Transmissions /\ wire # Nothing /\ ~wire.reached /\ device \in Targets
      /\ wire.op \in Operations /\ wire.target \in Targets /\ profile \in AllProfiles
      /\ device' = Written(wire)
      /\ driver' = driver /\ profile' = profile /\ queued' = queued /\ answer' = answer
      /\ firstSent' = firstSent /\ exchangeFaults' = exchangeFaults
  BY DEF SerialInv, SerialRanges, Reach, Transmissions
<1>2. PICK v \in Values(wire.op) :
          /\ wire' = [wire EXCEPT !.reached = TRUE, !.value = v]
          /\ readSince' = IF wire.op \in Writes THEN {}
                          ELSE IF v = Nothing THEN readSince
                          ELSE readSince \cup ({wire.op} \cap {"Status", "Feedback"})
  BY DEF Reach
<1>3. /\ wire.op \in {"Status", "Feedback"} => v \in {device, Nothing}
      /\ wire.op = "Limits" => v \in {Nothing, Low, High}
      /\ v \in Readings
  BY <1>1, <1>2 DEF Values, Readings
<1>4. /\ wire' \in Transmissions /\ wire' # Nothing /\ wire'.op = wire.op
      /\ wire'.target = wire.target /\ wire'.owned = wire.owned /\ wire'.reached
      /\ wire'.value = v
  BY <1>1, <1>2, <1>3 DEF Transmissions
<1>5. /\ wire.op = "Setpoint" =>
            device'.level = wire.target.level /\ device'.run = device.run
      /\ wire.op = "Run" =>
            /\ device'.run = wire.target.run
            /\ ~wire.target.run \/ profile.separate => device'.level = device.level
            /\ wire.target.run => device'.level = wire.target.level
      /\ wire.op \notin Writes => device' = device
      /\ device' \in Targets
  <2>1. CASE wire.op = "Setpoint"
    BY <1>1, <2>1 DEF Written, Writes
  <2>2. CASE wire.op = "Run" /\ (profile.separate \/ ~wire.target.run)
    BY <1>1, <2>2 DEF Written, Writes, SerialInv, LevelFirst
  <2>3. CASE wire.op = "Run" /\ ~profile.separate /\ wire.target.run
    BY <1>1, <2>3 DEF Written, Writes
  <2>4. CASE wire.op \notin Writes
    BY <1>1, <2>4 DEF Written, Writes
  <2> QED BY <2>1, <2>2, <2>3, <2>4 DEF Writes
<1>6. /\ wire.op \notin Writes => readSince \subseteq readSince'
      /\ wire.op \in {"Status", "Feedback"} /\ v # Nothing => wire.op \in readSince'
      /\ readSince' \subseteq {"Status", "Feedback"}
  BY <1>2 DEF Writes, SerialInv, SerialRanges
<1>7. SerialRanges'
  BY <1>1, <1>4, <1>5, <1>6 DEF SerialInv, SerialRanges
<1>8. Sound(driver)'
  <2>1. (driver \in Drivers)' /\ NothingStale(driver)' /\ StopStillDue(driver)'
    BY <1>1, <1>4 DEF SerialInv, Sound, NothingStale, StopStillDue
  <2>2. Registers(driver)'
    <3>1. CASE wire.target = driver.target
      BY <1>1, <1>5, <3>1 DEF SerialInv, Sound, Registers, Writes
    <3>2. CASE wire.target # driver.target
      BY <1>1, <3>2 DEF SerialInv, Sound, NothingStale, Registers
    <3> QED BY <3>1, <3>2
  <2>3. ToConfirm(driver)'
    BY <1>1, <1>4, <1>6 DEF SerialInv, Sound, ToConfirm, IsApplied
  <2> QED BY <2>1, <2>2, <2>3 DEF Sound
<1>9. LevelFirst'
  BY <1>1, <1>3, <1>4, <1>5, <1>6 DEF SerialInv, LevelFirst, Executed, Writes
<1>10. (Idle \/ Waiting \/ OnTheWire \/ Answered)'
  BY <1>1, <1>4
  DEF SerialInv, Idle, Waiting, OnTheWire, Answered, NoneOwned, Asked, IsApplied
<1>11. ~device.run /\ device'.run => device'.level = wire.target.level
  BY <1>1, <1>5 DEF Writes
<1> QED
  BY <1>1, <1>7, <1>8, <1>9, <1>10, <1>11 DEF SerialInv, StopIsFirst

LEMMA FinishStep ==
    ASSUME SerialInv, NEW ok \in BOOLEAN, Finish(ok)
    PROVE  SerialInv'
<1>1. /\ wire \in Transmissions /\ wire # Nothing /\ wire' = Nothing
      /\ driver' = driver /\ profile' = profile /\ queued' = queued
      /\ device' = device /\ readSince' = readSince /\ firstSent' = firstSent
      /\ exchangeFaults' \in Nat /\ (ok => wire.reached)
  BY DEF SerialInv, SerialRanges, Finish, ExchangeFault
<1>2. Sound(driver)' /\ LevelFirst' /\ StopIsFirst'
  BY <1>1 DEF SerialInv, Sound, NothingStale, Registers, ToConfirm, StopStillDue, IsApplied,
              LevelFirst, StopIsFirst
<1>3. CASE wire.owned
  <2>1. OnTheWire
    BY <1>1, <1>3 DEF SerialInv, Idle, Waiting, OnTheWire, Answered, NoneOwned
  <2>2. answer' = [op |-> wire.op, target |-> wire.target, ok |-> ok, value |-> wire.value]
    BY <1>3 DEF Finish
  <2>3. /\ answer' \in Answers /\ answer' # Nothing /\ answer'.op = wire.op
        /\ answer'.target = wire.target /\ answer'.ok = ok /\ answer'.value = wire.value
    BY <1>1, <2>2 DEF Transmissions, Answers
  <2>4. ok => Executed(wire)
    BY <1>1 DEF SerialInv, LevelFirst
  <2>5. Answered'
    BY <1>1, <2>1, <2>3, <2>4 DEF OnTheWire, Answered, Asked, IsApplied, Executed
  <2> QED
    BY <1>1, <1>2, <2>3, <2>5 DEF SerialInv, SerialRanges
<1>4. CASE ~wire.owned
  <2>1. answer' = answer
    BY <1>4 DEF Finish
  <2>2. (Idle \/ Waiting)'
    BY <1>1, <1>4, <2>1
    DEF SerialInv, Idle, Waiting, OnTheWire, Answered, NoneOwned, Asked, IsApplied
  <2> QED
    BY <1>1, <1>2, <2>1, <2>2 DEF SerialInv, SerialRanges
<1> QED BY <1>3, <1>4

LEMMA SerialStep ==
    ASSUME SerialInv, [SerialNext]_serialVars
    PROVE  /\ SerialInv'
           /\ ~device.run /\ device'.run => device'.level = wire.target.level
<1>1. CASE Reach
  BY <1>1, ReachStep
<1>2. CASE SerialNext /\ ~Reach
  <2>1. SerialInv'
    BY <1>2, ApplyTargetStep, FreezeStep, TickSubmitsStep, TickOnlyStep, TickRefusedStep,
       StaleStep, TransmitStep, FinishStep DEF SerialNext
  <2>2. device' = device
    BY <1>2 DEF SerialNext, ApplyTarget, Freeze, TickSubmits, TickOnly, TickRefused, TickEnds,
                Stale, Transmit, Finish
  <2> QED BY <2>1, <2>2
<1>3. CASE UNCHANGED serialVars
  BY <1>3
  DEF serialVars, SerialInv, SerialRanges, Sound, NothingStale, Registers, ToConfirm, StopStillDue,
      IsApplied, Idle, Waiting, OnTheWire, Answered, NoneOwned, Asked, Executed, LevelFirst,
      StopIsFirst
<1> QED BY <1>1, <1>2, <1>3

(* The invariant says what the run checks of each state.                   *)
LEMMA SerialInvMeans ==
    ASSUME SerialInv, profile \in Profiles
    PROVE  SerialTypeOK /\ AppliedIsDriven /\ ConfirmedByReading /\ StopIsFirst
<1>1. AppliedIsDriven
  BY DEF SerialInv, Sound, Registers, IsApplied, AppliedIsDriven
<1>2. ConfirmedByReading
  BY DEF SerialInv, SerialRanges, AllProfiles, Sound, ToConfirm, ReportsApplied,
         ConfirmedByReading, Operations
<1>3. IF driver.asked = Nothing THEN Exchanges = {}
      ELSE \E x \in Exchanges : Exchanges = {x} /\ x.op = driver.asked
  <2>1. CASE Idle
    BY <2>1 DEF Idle, NoneOwned, Exchanges
  <2>2. CASE Waiting
    <3>1. Exchanges = {queued} /\ queued.op = driver.asked
      BY <2>2 DEF Waiting, NoneOwned, Asked, Exchanges
    <3>2. queued.op \in Operations
      BY <2>2 DEF SerialInv, SerialRanges, Waiting, Requests
    <3> QED BY <3>1, <3>2
  <2>3. CASE OnTheWire
    <3>1. Exchanges = {wire} /\ wire.op = driver.asked
      BY <2>3 DEF OnTheWire, Asked, Exchanges
    <3>2. wire.op \in Operations
      BY <2>3 DEF SerialInv, SerialRanges, OnTheWire, Transmissions
    <3> QED BY <3>1, <3>2
  <2>4. CASE Answered
    <3>1. Exchanges = {answer} /\ answer.op = driver.asked
      BY <2>4 DEF Answered, Asked, Exchanges
    <3>2. answer.op \in Operations
      BY <2>4 DEF SerialInv, SerialRanges, Answered, Answers
    <3> QED BY <3>1, <3>2
  <2> QED BY <2>1, <2>2, <2>3, <2>4 DEF SerialInv
<1>4. SerialTypeOK
  BY <1>3 DEF SerialInv, SerialRanges, SerialTypeOK, Drivers
<1> QED BY <1>1, <1>2, <1>4 DEF SerialInv

(* Whatever is lost, refused, frozen or drained, and however the target    *)
(* changes meanwhile: what the driver takes for applied is in the          *)
(* registers and was read back, a stop goes first, and a start finds its   *)
(* level written.                                                          *)
THEOREM DeviceCorrect == SerialSpec => DeviceFollows
<1>1. SerialSpec => []SerialInv
  BY SerialInvInit, SerialStep, PTL DEF SerialSpec
<1>2. SerialSpec => [](profile \in Profiles)
  <2>1. SerialInit => profile \in Profiles
    BY DEF SerialInit
  <2>2. profile \in Profiles /\ [SerialNext]_serialVars => (profile \in Profiles)'
    BY DEF serialVars, SerialNext, ApplyTarget, Freeze, TickSubmits, TickOnly, TickRefused,
           TickEnds, Stale, Transmit, Reach, Finish
  <2> QED BY <2>1, <2>2, PTL DEF SerialSpec
<1>3. SerialInv /\ [SerialNext]_serialVars
      => [~device.run /\ device'.run => device'.level = wire.target.level]_serialVars
  BY SerialStep
<1> QED BY <1>1, <1>2, <1>3, SerialInvMeans, PTL DEF SerialSpec, DeviceFollows, StartsAtLevel
-----------------------------------------------------------------------------
(* The clock of the line *)

Half == Range \div 2

(* The longest that anything the clock compares can be apart.              *)
Span == 2 * (Quiet + Guard) + Interval + LineLimit + RestLimit

(* The most that may be owed, and the longest since a request still queued *)
(* was sent.                                                               *)
Owed == Quiet + Guard + Interval
SinceSent == LineLimit + Owed + RestLimit

LEMMA ClockConstants ==
    /\ Range \in Nat \ {0} /\ Half \in Nat /\ Range = 2 * Half
    /\ Quiet \in Nat /\ Guard \in Nat /\ Interval \in Nat /\ Timeout \in Nat
    /\ LineLimit \in Nat /\ RestLimit \in Nat /\ Timeout <= LineLimit
    /\ Span \in Nat /\ Span < Half
<1>1. Range \in Nat \ {0} /\ Half \in Nat /\ Range = 2 * Half
  BY RangeAssumption DEF Half
<1>2. /\ Quiet \in Nat /\ Guard \in Nat /\ Interval \in Nat /\ Timeout \in Nat
      /\ LineLimit \in Nat /\ RestLimit \in Nat
  BY ProfileAssumption
<1>3. Timeout <= LineLimit /\ 2 * Span < Range
  BY ProfileAssumption DEF Span
<1>4. Span \in Nat
  BY <1>2 DEF Span
<1> QED
  BY <1>1, <1>2, <1>3, <1>4

(* Within one turn of the counter, wrapping is adding or taking one turn.  *)
LEMMA WrappedIs ==
    ASSUME NEW x \in Int, -Range <= x, x < 2 * Range
    PROVE  Wrapped(x) = IF x < 0 THEN x + Range ELSE IF x < Range THEN x ELSE x - Range
<1> DEFINE q == x \div Range
           m == x % Range
<1>1. Range \in Nat \ {0}
  BY ClockConstants
<1>2. q \in Int /\ m \in 0..(Range - 1) /\ x = Range * q + m
  BY <1>1
<1> HIDE DEF q, m
<1>3. Range * q \in Int /\ -2 * Range < Range * q /\ Range * q < 2 * Range
  BY <1>1, <1>2
<1>4. q < 2
  <2>1. SUFFICES ASSUME q >= 2 PROVE FALSE
    BY <1>2
  <2>2. q - 2 \in Nat
    BY <1>2, <2>1
  <2>3. Range * (q - 2) >= 0
    BY <1>1, <2>2
  <2>4. Range * (q - 2) = Range * q - 2 * Range
    BY <1>1, <1>2
  <2> QED
    BY <1>1, <1>3, <2>3, <2>4
<1>5. q > -2
  <2>1. SUFFICES ASSUME q <= -2 PROVE FALSE
    BY <1>2
  <2>2. -2 - q \in Nat
    BY <1>2, <2>1
  <2>3. Range * (-2 - q) >= 0
    BY <1>1, <2>2
  <2>4. Range * (-2 - q) = -2 * Range - Range * q
    BY <1>1, <1>2
  <2> QED
    BY <1>1, <1>3, <2>3, <2>4
<1>6. q = -1 \/ q = 0 \/ q = 1
  BY <1>2, <1>4, <1>5
<1>7. Range * (-1) = -Range /\ Range * 0 = 0 /\ Range * 1 = Range
  BY <1>1
<1>8. Range * q = -Range \/ Range * q = 0 \/ Range * q = Range
  BY <1>6, <1>7
<1> DEFINE p == Range * q
<1>9. x = p + m /\ (p = -Range \/ p = 0 \/ p = Range)
  BY <1>2, <1>8
<1> HIDE DEF p
<1>10. m = IF x < 0 THEN x + Range ELSE IF x < Range THEN x ELSE x - Range
  BY <1>1, <1>2, <1>9
<1> QED
  BY <1>10 DEF Wrapped, m

LEMMA WrappedInRange == ASSUME NEW x \in Int PROVE Wrapped(x) \in Counter
BY ClockConstants DEF Wrapped, Counter

(* Two values of the counter that are k apart show k, either way.          *)
LEMMA ApartShows ==
    ASSUME NEW a \in Counter, NEW k \in Int, -Half < k, k < Half
    PROVE  /\ Wrapped(a + k) \in Counter
           /\ Wrapped(Wrapped(a + k) - a) = Wrapped(k)
           /\ Wrapped(a - Wrapped(a + k)) = Wrapped(-k)
           /\ \A j \in -Half..Half : Wrapped(Wrapped(a + k) + j) = Wrapped(a + (k + j))
<1> DEFINE b == Wrapped(a + k)
<1>c. Range \in Nat \ {0} /\ Half \in Nat /\ Range = 2 * Half
  BY ClockConstants
<1>a. a \in 0..(Range - 1)
  BY DEF Counter
<1>1. b \in Counter
  BY <1>a, <1>c, WrappedInRange
<1>2. b = IF a + k < 0 THEN (a + k) + Range ELSE IF a + k < Range THEN a + k ELSE (a + k) - Range
  BY <1>a, <1>c, WrappedIs
<1>3. b \in 0..(Range - 1)
  BY <1>1 DEF Counter
<1> HIDE DEF b
<1>4. Wrapped(k) = IF k < 0 THEN k + Range ELSE k
  BY <1>c, WrappedIs
<1>5. Wrapped(-k) = IF -k < 0 THEN -k + Range ELSE -k
  <2>1. -k \in Int /\ -Range <= -k /\ -k < 2 * Range /\ -k < Range
    BY <1>c
  <2> QED
    BY <1>c, <2>1, WrappedIs
<1>6. Wrapped(b - a) = Wrapped(k)
  <2>1. Wrapped(b - a) = IF b - a < 0 THEN (b - a) + Range
                         ELSE IF b - a < Range THEN b - a ELSE (b - a) - Range
    BY <1>a, <1>c, <1>3, WrappedIs
  <2> QED
    BY <1>a, <1>c, <1>2, <1>3, <1>4, <2>1
<1>7. Wrapped(a - b) = Wrapped(-k)
  <2>1. Wrapped(a - b) = IF a - b < 0 THEN (a - b) + Range
                         ELSE IF a - b < Range THEN a - b ELSE (a - b) - Range
    BY <1>a, <1>c, <1>3, WrappedIs
  <2> QED
    BY <1>a, <1>c, <1>2, <1>3, <1>5, <2>1
<1>8. ASSUME NEW j \in -Half..Half PROVE Wrapped(b + j) = Wrapped(a + (k + j))
  <2>1. Wrapped(b + j) = IF b + j < 0 THEN (b + j) + Range
                         ELSE IF b + j < Range THEN b + j ELSE (b + j) - Range
    BY <1>a, <1>c, <1>3, WrappedIs
  <2>2. a + (k + j) \in Int /\ -Range <= a + (k + j) /\ a + (k + j) < 2 * Range
    BY <1>a, <1>c
  <2>3. Wrapped(a + (k + j)) = IF a + (k + j) < 0 THEN (a + (k + j)) + Range
                         ELSE IF a + (k + j) < Range THEN a + (k + j) ELSE (a + (k + j)) - Range
    BY <2>2, WrappedIs
  <2> QED
    BY <1>a, <1>c, <1>2, <1>3, <2>1, <2>3
<1> QED
  BY <1>1, <1>6, <1>7, <1>8 DEF b

(* A value k ahead is not reached yet; one k behind, or this one, is.      *)
LEMMA ReachedIs ==
    ASSUME NEW a \in Counter, NEW k \in Int, -Half < k, k < Half
    PROVE  /\ NotBefore(a, Wrapped(a + k)) <=> k <= 0
           /\ After(Wrapped(a + k), a) <=> k > 0
<1>c. Range \in Nat \ {0} /\ Half \in Nat /\ Range = 2 * Half
  BY ClockConstants
<1>1. Wrapped(Wrapped(a + k) - a) = Wrapped(k) /\ Wrapped(a - Wrapped(a + k)) = Wrapped(-k)
  BY ApartShows
<1>2. Wrapped(k) = IF k < 0 THEN k + Range ELSE k
  BY <1>c, WrappedIs
<1>3. Wrapped(-k) = IF -k < 0 THEN -k + Range ELSE -k
  <2>1. -k \in Int /\ -Range <= -k /\ -k < 2 * Range /\ -k < Range
    BY <1>c
  <2> QED
    BY <1>c, <2>1, WrappedIs
<1> QED
  BY <1>c, <1>1, <1>2, <1>3 DEF NotBefore, After, Half

(* The line frees when the relative time says, whatever has wrapped.       *)
LEMMA FreesOnTime ==
    ASSUME NEW at \in Counter, NEW since \in 0..SinceSent, NEW guarded \in BOOLEAN
    PROVE  /\ Due(since, guarded) \in 0..Owed
           /\ busAvailableAt(Wrapped(at - since), at, guarded) = Wrapped(at + Due(since, guarded))
<1> DEFINE q == Quiet + (IF guarded THEN Guard ELSE 0)
           quietUntil == Wrapped(at + q)
           sent == Wrapped(at - since)
           nextStart == Wrapped(sent + Interval)
<1>c. /\ Range \in Nat \ {0} /\ Half \in Nat /\ Range = 2 * Half
      /\ Quiet \in Nat /\ Guard \in Nat /\ Interval \in Nat
      /\ LineLimit \in Nat /\ RestLimit \in Nat /\ Span < Half /\ Span \in Nat
      /\ Span = 2 * (Quiet + Guard) + Interval + LineLimit + RestLimit
      /\ SinceSent = LineLimit + (Quiet + Guard + Interval) + RestLimit
      /\ Owed = Quiet + Guard + Interval
  BY ClockConstants DEF Span, SinceSent, Owed
<1>1. q \in 0..(Quiet + Guard)
  BY <1>c
<1>2. since \in Nat /\ -Half < -since /\ -since < Half /\ -since \in Int /\ at \in Int
  BY <1>c DEF Counter
<1>8. busAvailableAt(sent, at, guarded) = IF After(nextStart, quietUntil) THEN nextStart ELSE quietUntil
  <2>1. at + q = at + Quiet + (IF guarded THEN Guard ELSE 0)
    BY <1>c DEF Counter
  <2> HIDE DEF q
  <2>2. quietUntil = Wrapped(at + Quiet + (IF guarded THEN Guard ELSE 0))
    BY <2>1
  <2> HIDE DEF quietUntil
  <2> QED
    BY <2>2, Zenon DEF busAvailableAt
<1>a. at - since = at + (-since)
  BY <1>2
<1> HIDE DEF q
<1>3. nextStart = Wrapped(at + (-since + Interval))
  BY <1>2, <1>a, <1>c, ApartShows
<1>4. quietUntil \in Counter /\ Wrapped(quietUntil + (Interval - since - q)) = Wrapped(at + (q + (Interval - since - q)))
  BY <1>1, <1>2, <1>c, ApartShows
<1>5. q + (Interval - since - q) = -since + Interval
  BY <1>1, <1>2, <1>c
<1>6. nextStart = Wrapped(quietUntil + (Interval - since - q))
  BY <1>3, <1>4, <1>5
<1>7. After(nextStart, quietUntil) <=> Interval - since - q > 0
  <2> DEFINE k == Interval - since - q
  <2>1. k \in Int /\ -Half < k /\ k < Half
    BY <1>1, <1>2, <1>c
  <2>2. quietUntil \in Counter /\ nextStart = Wrapped(quietUntil + k)
    BY <1>4, <1>6
  <2> HIDE DEF k, quietUntil, nextStart
  <2>3. After(Wrapped(quietUntil + k), quietUntil) <=> k > 0
    BY <2>1, <2>2, ReachedIs
  <2> QED
    BY <2>2, <2>3 DEF k
<1>9. Due(since, guarded) = IF Interval - since - q > 0 THEN -since + Interval ELSE q
  BY <1>1, <1>2, <1>c DEF Due, Larger, Less, q
<1>10. Due(since, guarded) \in 0..Owed
  BY <1>9, <1>1, <1>2, <1>c
<1>11. busAvailableAt(sent, at, guarded) = Wrapped(at + Due(since, guarded))
  BY <1>3, <1>7, <1>8, <1>9
<1> QED
  BY <1>10, <1>11

(* Later than the interval and within half of the counter, a request never *)
(* sent leaves the line as one sent long ago would.                        *)
LEMMA NeverSent ==
    ASSUME NEW at \in FirstHalf
    PROVE  busAvailableAt(0, at, TRUE) = Wrapped(at + Due(Interval, TRUE))
<1> DEFINE q == Quiet + Guard
<1>c. /\ Range \in Nat \ {0} /\ Half \in Nat /\ Range = 2 * Half /\ Half = Range \div 2
      /\ Quiet \in Nat /\ Guard \in Nat /\ Interval \in Nat /\ q \in Nat /\ Interval < Half
  BY ClockConstants DEF Span, Half
<1>1. at \in Int /\ Interval <= at /\ at + q <= Half
  BY <1>c DEF FirstHalf
<1>2. Due(Interval, TRUE) = q
  BY <1>c DEF Due, Less, Larger
<1>3. busAvailableAt(0, at, TRUE)
      = IF After(Wrapped(0 + Interval), Wrapped(at + Quiet + Guard))
        THEN Wrapped(0 + Interval) ELSE Wrapped(at + Quiet + Guard)
  BY Zenon DEF busAvailableAt
<1>4. at + Quiet + Guard = at + q /\ 0 + Interval = Interval
  BY <1>1, <1>c
<1> HIDE DEF q
<1>5. Wrapped(Interval) = Interval
  BY <1>c, WrappedIs
<1>6. Wrapped(at + q) = at + q
  <2>1. at + q \in Int /\ -Range <= at + q /\ at + q < Range /\ 0 <= at + q /\ at + q < 2 * Range
    BY <1>1, <1>c
  <2> QED
    BY <2>1, WrappedIs
<1>7. ~After(Interval, at + q)
  <2> DEFINE x == Interval - (at + q)
  <2>1. x \in Int /\ -Half <= x /\ x <= 0
    BY <1>1, <1>c
  <2>2. Wrapped(x) = IF x < 0 THEN x + Range ELSE x
    <3> HIDE DEF x
    <3>1. -Range <= x /\ x < 2 * Range /\ x < Range
      BY <2>1, <1>c
    <3> QED
      BY <2>1, <3>1, WrappedIs
  <2>3. Wrapped(x) = 0 \/ Wrapped(x) >= Half
    <3> HIDE DEF x
    <3> QED
      BY <2>1, <2>2, <1>c
  <2>4. Wrapped(x) \notin 1..(Range \div 2 - 1)
    <3> HIDE DEF x
    <3> QED
      BY <2>2, <2>3, <2>1, <1>c
  <2> QED
    BY <2>4 DEF After
<1> QED
  BY <1>2, <1>3, <1>4, <1>5, <1>6, <1>7

(* What is known between two uses of the line: how far ahead, or behind,   *)
(* the moment is at which it is available ...                              *)
AvailableIn ==
    ~onLine /\ ~adrift =>
        IF due > 0 THEN available = Wrapped(now + due) /\ for = 0
                   ELSE available = Wrapped(now - for)

(* ... and when the request was sent that is on it, or will be again.      *)
SentWhen ==
    /\ onLine => sentAt = Wrapped(now - for)
    /\ retrying => ~onLine /\ \E k \in Nat : /\ k + due <= LineLimit + Owed + for
                                              /\ sentAt = Wrapped(now - k)
    /\ adrift => ~onLine /\ ~retrying

ClockRanges ==
    /\ now \in Counter /\ available \in Counter /\ sentAt \in Counter
    /\ retrying \in BOOLEAN /\ onLine \in BOOLEAN /\ adrift \in BOOLEAN
    /\ for \in 0..(IF onLine THEN LineLimit ELSE RestLimit) /\ due \in 0..Owed

ClockInv == ClockRanges /\ AvailableIn /\ SentWhen

(* The ranges of what is compared.                                         *)
LEMMA ClockSpans ==
    /\ Range \in Nat \ {0} /\ Half \in Nat /\ Range = 2 * Half
    /\ LineLimit \in Nat /\ RestLimit \in Nat /\ Owed \in Nat /\ SinceSent \in Nat
    /\ SinceSent = LineLimit + Owed + RestLimit /\ SinceSent < Half
BY ClockConstants DEF Span, Owed, SinceSent

LEMMA ClockInvInit == ClockInit => ClockInv
<1> SUFFICES ASSUME ClockInit PROVE ClockInv
  OBVIOUS
<1>1. now \in 0..(Range - 1) /\ 0 \in Counter /\ Wrapped(now - 0) = now
  BY ClockSpans, WrappedIs DEF ClockInit, Counter
<1>2. ClockRanges
  <2>1. for = 0 /\ 0 \in 0..(IF onLine THEN LineLimit ELSE RestLimit) /\ 0 \in 0..Owed
    BY ClockSpans DEF ClockInit
  <2> QED
    BY <1>1, <2>1 DEF ClockInit, ClockRanges
<1> QED
  BY <1>1, <1>2 DEF ClockInit, ClockInv, SentWhen, AvailableIn

LEMMA MayStartIs == ClockInv => ReleasedOnTime
<1> SUFFICES ASSUME ClockInv, ~onLine, ~adrift PROVE MayStart <=> due = 0
  BY DEF ReleasedOnTime
<1>1. now \in Counter /\ now \in Int /\ for \in 0..RestLimit /\ due \in 0..Owed
  BY ClockSpans DEF ClockInv, ClockRanges, Counter
<1>2. CASE due > 0
  <2>1. available = Wrapped(now + due)
    BY <1>2 DEF ClockInv, AvailableIn
  <2> QED
    BY <1>1, <1>2, ClockSpans, <2>1, ReachedIs DEF MayStart
<1>3. CASE due = 0
  <2>1. available = Wrapped(now - for)
    BY <1>3 DEF ClockInv, AvailableIn
  <2>2. -for \in Int /\ -Half < -for /\ -for < Half /\ -for <= 0 /\ now - for = now + (-for)
    BY <1>1, ClockSpans
  <2> QED
    BY <1>1, <1>3, <2>1, <2>2, ReachedIs DEF MayStart
<1> QED
  BY <1>1, <1>2, <1>3

LEMMA SendKeeps == ClockInv /\ Send => ClockInv'
<1> SUFFICES ASSUME ClockInv, Send PROVE ClockInv'
  OBVIOUS
<1>1. now \in 0..(Range - 1) /\ Wrapped(now - 0) = now
  BY ClockSpans, WrappedIs DEF ClockInv, ClockRanges, Counter
<1>2. sentAt' = Wrapped(now' - for')
  BY <1>1 DEF Send
<1>3. ClockRanges'
  <2>1. for' = 0 /\ 0 \in 0..(IF onLine' THEN LineLimit ELSE RestLimit)
    BY ClockSpans DEF Send
  <2> QED
    BY <2>1 DEF ClockInv, ClockRanges, Send
<1> QED
  BY <1>2, <1>3 DEF ClockInv, AvailableIn, SentWhen, Send

(* The line is freed for the time owed.                                    *)
LEMMA FreedFor ==
    ASSUME ClockInv, now' = now, for' = 0, ~onLine', onLine' \in BOOLEAN,
           adrift' = FALSE, retrying' \in BOOLEAN, sentAt' = sentAt,
           due' \in 0..Owed, available' = Wrapped(now + due')
    PROVE  ClockRanges' /\ AvailableIn'
<1>1. now \in Counter /\ now \in Int /\ sentAt \in Counter
  BY ClockSpans DEF ClockInv, ClockRanges, Counter
<1>2. available' \in Counter /\ now + due' \in Int
  BY <1>1, WrappedInRange, ClockSpans
<1>3. 0 \in 0..(IF onLine' THEN LineLimit ELSE RestLimit)
  BY ClockSpans
<1>4. ClockRanges'
  BY <1>1, <1>2, <1>3 DEF ClockRanges
<1>5. CASE due' = 0
  <2>1. now + due' = now' - for'
    BY <1>1, <1>5
  <2> QED
    BY <1>4, <1>5, <2>1 DEF AvailableIn
<1>6. CASE due' > 0
  BY <1>4, <1>6 DEF AvailableIn
<1> QED
  BY <1>5, <1>6, ClockSpans

LEMMA SendFailsKeeps ==
    ASSUME ClockInv, NEW again \in BOOLEAN, SendFails(again)
    PROVE  ClockInv'
<1>1. /\ now \in Counter /\ now \in Int /\ sentAt \in Counter /\ ~onLine /\ onLine = FALSE
      /\ for \in 0..RestLimit /\ due \in 0..Owed
  BY ClockSpans DEF SendFails, ClockInv, ClockRanges, Counter
<1>2. /\ now' = now /\ sentAt' = sentAt /\ for' = 0 /\ retrying' = FALSE /\ onLine' = onLine
      /\ adrift' = (~again /\ now \notin FirstHalf)
  BY DEF SendFails
<1>3. CASE again
  <2>1. PICK k \in Nat : k + due <= LineLimit + Owed + for /\ sentAt = Wrapped(now - k)
    BY <1>3 DEF ClockInv, SentWhen, SendFails
  <2>2. k \in 0..SinceSent
    BY <1>1, <2>1, ClockSpans
  <2>3. Wrapped(now - sentAt) = k
    <3>1. now - k = now + (-k) /\ -k \in Int /\ -Half < -k /\ -k < Half /\ -(-k) = k
      BY <1>1, <2>2, ClockSpans
    <3>2. Wrapped(now - sentAt) = Wrapped(-(-k))
      BY <1>1, <2>1, <3>1, ApartShows
    <3>3. Wrapped(k) = k
      <4>1. k \in Int /\ -Range <= k /\ 0 <= k /\ k < Range /\ k < 2 * Range
        BY <2>2, ClockSpans
      <4> QED
        BY <4>1, WrappedIs
    <3> QED
      BY <3>1, <3>2, <3>3
  <2>4. available' = Wrapped(now + due') /\ due' \in 0..Owed
    <3>1. available' = busAvailableAt(sentAt, now, TRUE) /\ due' = Due(k, TRUE)
      BY <1>3, <2>3 DEF SendFails
    <3> QED
      BY <1>1, <2>1, <2>2, <3>1, FreesOnTime
  <2>5. ClockRanges' /\ AvailableIn'
    BY <1>1, <1>2, <1>3, <2>4, FreedFor
  <2> QED
    BY <1>1, <1>2, <1>3, <2>5 DEF ClockInv, SentWhen
<1>4. CASE ~again
  <2>1. available' = busAvailableAt(0, now, TRUE) /\ due' = Due(Interval, TRUE)
    BY <1>4 DEF SendFails
  <2>2. due' \in 0..Owed
    BY <2>1, ClockConstants DEF Due, Less, Larger, Owed
  <2>3. CASE now \in FirstHalf
    <3>1. available' = Wrapped(now + due')
      BY <2>1, <2>3, NeverSent
    <3>2. ClockRanges' /\ AvailableIn'
      BY <1>1, <1>2, <2>2, <2>3, <3>1, FreedFor
    <3> QED
      BY <1>1, <1>2, <2>3, <3>2 DEF ClockInv, SentWhen
  <2>4. CASE now \notin FirstHalf
    <3>1. adrift' = TRUE
      BY <1>2, <1>4, <2>4
    <3>2. available' \in Counter
      <4>1. 0 + Interval \in Int /\ now + Quiet + Guard \in Int
        BY <1>1, ClockConstants
      <4> QED
        BY <2>1, <4>1, WrappedInRange DEF busAvailableAt
    <3>3. 0 \in 0..(IF onLine' THEN LineLimit ELSE RestLimit)
      BY ClockSpans
    <3>4. ClockRanges'
      BY <1>1, <1>2, <2>2, <3>1, <3>2, <3>3 DEF ClockRanges
    <3> QED
      BY <1>1, <1>2, <3>1, <3>4 DEF ClockInv, SentWhen, AvailableIn
  <2> QED
    BY <2>3, <2>4
<1> QED
  BY <1>3, <1>4

LEMMA DoneKeeps ==
    ASSUME ClockInv, NEW guarded \in BOOLEAN, NEW again \in BOOLEAN, Done(guarded, again)
    PROVE  ClockInv'
<1>1. onLine /\ sentAt = Wrapped(now - for) /\ adrift = FALSE
  BY DEF Done, ClockInv, ClockRanges, SentWhen
<1>2. for \in 0..LineLimit /\ now \in Counter /\ for \in 0..SinceSent /\ for \in Nat
  BY <1>1, ClockSpans DEF ClockInv, ClockRanges
<1>3. /\ available' = busAvailableAt(sentAt, now, guarded) /\ due' = Due(for, guarded)
      /\ now' = now /\ sentAt' = sentAt /\ for' = 0 /\ retrying' = again /\ onLine' = FALSE
      /\ adrift' = FALSE
  BY <1>1 DEF Done
<1>4. available' = Wrapped(now + due') /\ due' \in 0..Owed
  BY <1>1, <1>2, <1>3, FreesOnTime
<1>5. ClockRanges' /\ AvailableIn'
  BY <1>3, <1>4, FreedFor
<1>6. SentWhen'
  <2>1. for + due' <= LineLimit + Owed + for' /\ sentAt' = Wrapped(now' - for)
    BY <1>1, <1>2, <1>3, <1>4, ClockSpans
  <2> QED
    BY <1>2, <1>3, <2>1 DEF SentWhen
<1> QED
  BY <1>5, <1>6 DEF ClockInv

(* A moment k behind, or ahead, is one more behind, or less ahead.         *)
LEMMA ElapseMoves ==
    ASSUME NEW a \in Counter, NEW k \in Int, -Half < k, k <= Half
    PROVE  Wrapped(Wrapped(a + 1) + (k - 1)) = Wrapped(a + k)
<1>c. /\ Half \in Nat /\ Range = 2 * Half /\ Half > 0
  BY ClockConstants DEF Span
<1>1. Wrapped(a + 1) = IF a + 1 < Range THEN a + 1 ELSE (a + 1) - Range
  BY <1>c, WrappedIs DEF Counter
<1>2. /\ a \in 0..(Range - 1) /\ Wrapped(a + 1) \in 0..(Range - 1)
  BY <1>c, <1>1 DEF Counter
<1> DEFINE b == Wrapped(a + 1)
<1> HIDE DEF b
<1>3. Wrapped(b + (k - 1)) = IF b + (k - 1) < 0 THEN (b + (k - 1)) + Range
                             ELSE IF b + (k - 1) < Range THEN b + (k - 1) ELSE (b + (k - 1)) - Range
  BY <1>c, <1>2, WrappedIs DEF b
<1>4. Wrapped(a + k) = IF a + k < 0 THEN (a + k) + Range
                       ELSE IF a + k < Range THEN a + k ELSE (a + k) - Range
  BY <1>c, <1>2, WrappedIs
<1> QED
  BY <1>c, <1>1, <1>2, <1>3, <1>4 DEF b

LEMMA ClockElapseKeeps == ClockInv /\ Elapse => ClockInv'
<1> SUFFICES ASSUME ClockInv, Elapse PROVE ClockInv'
  OBVIOUS
<1>1. /\ now \in Counter /\ now \in Int /\ due \in 0..Owed /\ for \in Nat
      /\ now' = Wrapped(now + 1) /\ due' = (IF due >= 1 THEN due - 1 ELSE 0)
      /\ UNCHANGED <<available, sentAt, retrying, onLine, adrift>>
      /\ available \in Counter /\ sentAt \in Counter
      /\ for \in 0..(IF onLine THEN LineLimit ELSE RestLimit)
  BY ClockSpans DEF ClockInv, ClockRanges, Elapse, Less, Counter
<1>2. now' \in Counter
  BY <1>1, WrappedInRange
<1>b. now' \in Int
  BY <1>2, ClockConstants DEF Counter
<1>3. ASSUME NEW k \in Int, -Half < k, k <= Half PROVE Wrapped(now' + (k - 1)) = Wrapped(now + k)
  BY <1>1, <1>3, ElapseMoves
<1>4. ASSUME NEW k \in 0..SinceSent PROVE Wrapped(now' - (k + 1)) = Wrapped(now - k)
  <2>1. -k \in Int /\ -Half < -k /\ -k <= Half
    BY ClockSpans
  <2>2. now' + (-k - 1) = now' - (k + 1) /\ now + (-k) = now - k
    BY <1>1, <1>b
  <2> QED
    BY <1>3, <2>1, <2>2
<1>5. due' \in 0..Owed /\ due' <= due
  BY <1>1, ClockSpans
<1>6. CASE onLine
  <2>1. for' = for + 1 /\ for < LineLimit
    BY <1>6 DEF Elapse
  <2>2. for \in 0..SinceSent /\ for' \in 0..LineLimit
    BY <1>1, <2>1, ClockSpans
  <2>3. sentAt' = Wrapped(now' - for')
    BY <1>1, <1>4, <1>6, <2>1, <2>2 DEF ClockInv, SentWhen
  <2>4. ClockRanges'
    BY <1>1, <1>2, <1>5, <1>6, <2>2 DEF ClockInv, ClockRanges
  <2> QED
    BY <1>1, <1>6, <2>3, <2>4 DEF ClockInv, AvailableIn, SentWhen
<1>7. CASE ~onLine /\ adrift
  <2>1. for' \in 0..RestLimit
    BY <1>1, <1>7, ClockSpans DEF Elapse
  <2>2. ClockRanges'
    BY <1>1, <1>2, <1>5, <1>7, <2>1 DEF ClockInv, ClockRanges
  <2> QED
    BY <1>1, <1>7, <2>2 DEF ClockInv, AvailableIn, SentWhen
<1>8. CASE ~onLine /\ ~adrift
  <2>1. MayStart <=> due = 0
    BY <1>8, MayStartIs DEF ReleasedOnTime
  <2>2. /\ for' = (IF due = 0 THEN for + 1 ELSE for)
        /\ for' \in 0..RestLimit
    BY <1>1, <1>8, <2>1, ClockSpans DEF Elapse
  <2>3. ClockRanges'
    BY <1>1, <1>2, <1>5, <1>8, <2>2 DEF ClockInv, ClockRanges
  <2>4. AvailableIn'
    <3>1. CASE due = 0
      <4>1. for \in 0..SinceSent /\ available = Wrapped(now - for) /\ for' = for + 1 /\ due' = 0
        BY <1>1, <1>8, <2>2, <3>1, ClockSpans DEF ClockInv, AvailableIn
      <4> QED
        BY <1>1, <1>4, <4>1 DEF AvailableIn
    <3>2. CASE due > 0
      <4>1. available = Wrapped(now + due) /\ for = 0 /\ for' = 0 /\ due' = due - 1
        BY <1>1, <1>8, <2>2, <3>2 DEF ClockInv, AvailableIn
      <4>2. due \in Int /\ -Half < due /\ due <= Half
        BY <1>1, <3>2, ClockSpans
      <4>3. available' = Wrapped(now' + due')
        BY <1>1, <1>3, <4>1, <4>2
      <4>4. ~adrift' /\ due' \in Nat
        BY <1>1, <1>5, <1>8, ClockSpans
      <4>5. CASE due' > 0
        BY <4>1, <4>3, <4>5 DEF AvailableIn
      <4>6. CASE due' = 0
        <5>1. now' + due' = now' - for'
          BY <1>b, <4>1, <4>6
        <5> QED
          BY <4>3, <4>6, <5>1 DEF AvailableIn
      <4> QED
        BY <4>4, <4>5, <4>6
    <3> QED
      BY <1>1, <3>1, <3>2, ClockSpans
  <2>5. retrying => \E k \in Nat : k + due' <= LineLimit + Owed + for' /\ sentAt' = Wrapped(now' - k)
    <3> SUFFICES ASSUME retrying
                 PROVE  \E k \in Nat : k + due' <= LineLimit + Owed + for' /\ sentAt' = Wrapped(now' - k)
      OBVIOUS
    <3>1. PICK k \in Nat : k + due <= LineLimit + Owed + for /\ sentAt = Wrapped(now - k)
      BY DEF ClockInv, SentWhen
    <3>2. k \in 0..SinceSent
      BY <1>1, <1>8, <3>1, ClockSpans
    <3>3. k + 1 \in Nat /\ (k + 1) + due' <= LineLimit + Owed + for'
      BY <1>1, <2>2, <3>1, ClockSpans
    <3>4. sentAt' = Wrapped(now' - (k + 1))
      BY <1>1, <1>4, <3>1, <3>2
    <3> QED
      BY <3>3, <3>4
  <2> QED
    BY <1>1, <1>8, <2>3, <2>4, <2>5 DEF ClockInv, SentWhen
<1> QED
  BY <1>6, <1>7, <1>8

(* The counters keep their ranges and release the line at the moment       *)
(* relative time does, for every counter that is more than twice as long   *)
(* as all that is compared, whatever is sent, refused, answered or tried   *)
(* again; but after a request never sent that failed outside the first     *)
(* half of the counter (Rs485TransactionScheduler).                        *)
THEOREM ClockCorrect == ClockSpec => []ClockSound
<1>1. ClockInv => ClockSound
  <2>1. ClockInv => ClockTypeOK
    BY ClockSpans DEF ClockInv, ClockRanges, ClockTypeOK
  <2> QED
    BY <2>1, MayStartIs DEF ClockSound
<1>2. ClockInv /\ [ClockNext]_clockVars => ClockInv'
  <2> SUFFICES ASSUME ClockInv, [ClockNext]_clockVars PROVE ClockInv'
    OBVIOUS
  <2>1. CASE Send
    BY <2>1, SendKeeps
  <2>2. ASSUME NEW again \in BOOLEAN, SendFails(again) PROVE ClockInv'
    BY <2>2, SendFailsKeeps
  <2>3. ASSUME NEW guarded \in BOOLEAN, NEW again \in BOOLEAN, Done(guarded, again) PROVE ClockInv'
    BY <2>3, DoneKeeps
  <2>4. CASE Elapse
    BY <2>4, ClockElapseKeeps
  <2>5. CASE UNCHANGED clockVars
    BY <2>5 DEF clockVars, ClockInv, ClockRanges, AvailableIn, SentWhen
  <2> QED
    BY <2>1, <2>2, <2>3, <2>4, <2>5 DEF ClockNext
<1> QED
  BY <1>1, <1>2, ClockInvInit, PTL DEF ClockSpec
=============================================================================
