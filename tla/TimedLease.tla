----------------------------- MODULE TimedLease -----------------------------
(***************************************************************************)
(* The durable actuator lease of Core/Control/TimedActuatorOverride.h: a   *)
(* forcing of one output to one value, bounded in time, with a flash       *)
(* record behind it.                                                       *)
(*                                                                         *)
(* The module has no variables.  A holder h is a record                    *)
(*     [ram |-> the object's fields, flash |-> the record last written]    *)
(* and every operation of the class is an operator from holders to         *)
(* holders.  A flash write is the argument ok (did save_ return true): a   *)
(* failed write leaves the previous record.  OverrideLease runs one lease  *)
(* alone; PoolDevices runs one per actuator.                               *)
(*                                                                         *)
(* The operators that no action uses (StartBeforeWrite, DriftIgnored,      *)
(* EndMoved...) are mistakes easily made here, kept beside the definition  *)
(* they would replace: each breaks a property of OverrideLease.            *)
(***************************************************************************)
EXTENDS Integers

CONSTANTS
    Targets,         \* what a lease can force: a slot and its output binding
    MaxDurationSec,  \* the longest lease that is granted, in seconds
    MsPerSec,        \* units of the monotonic clock in a second
    Tolerance        \* the UTC drift, in seconds, that is not worth a write

ASSUME MaxDurationAssumption == MaxDurationSec \in Nat \ {0}
ASSUME MsPerSecAssumption == MsPerSec \in Nat \ {0}
ASSUME ToleranceAssumption == Tolerance \in Nat

Reasons == {"None", "Released", "Expired", "ClockInvalid", "Safety", "Configuration"}

Record == [active : BOOLEAN, target : Targets, value : BOOLEAN,
           start : Nat, end : Nat]

Ram == [target : Targets, active : BOOLEAN, value : BOOLEAN,
        anchored : BOOLEAN, dirty : BOOLEAN,
        start : Nat, end : Nat, deadline : Nat, reason : Reasons]

Holder == [ram : Ram, flash : Record]

(* The bytes of a live record, and of the tombstone a stop leaves.         *)
Encoded(l) == [active |-> TRUE, target |-> l.target, value |-> l.value,
               start |-> l.start, end |-> l.end]

Tombstone(t) == [active |-> FALSE, target |-> t, value |-> FALSE,
                 start |-> 0, end |-> 0]

(* A record restore() refuses leaves the object as its constructor did.    *)
Fresh(t) == [target |-> t, active |-> FALSE, value |-> FALSE,
             anchored |-> FALSE, dirty |-> FALSE,
             start |-> 0, end |-> 0, deadline |-> 0, reason |-> "None"]

WellFormed(r) ==
    r.active => /\ r.start # 0
                /\ r.end > r.start
                /\ r.end - r.start <= MaxDurationSec

Restore(r) ==
    IF WellFormed(r)
    THEN [target |-> r.target, active |-> r.active, value |-> r.value,
          anchored |-> FALSE, dirty |-> FALSE,
          start |-> r.start, end |-> r.end, deadline |-> 0, reason |-> "None"]
    ELSE Fresh(r.target)
-----------------------------------------------------------------------------
(* A start or replacement: nothing changes unless the record is durable.   *)
StartAllowed(utc, seconds) == utc # 0 /\ seconds \in 1..MaxDurationSec

Granted(t, value, seconds, utc, mono) ==
    [target |-> t, active |-> TRUE, value |-> value,
     anchored |-> TRUE, dirty |-> FALSE,
     start |-> utc, end |-> utc + seconds,
     deadline |-> mono + seconds * MsPerSec, reason |-> "None"]

StartBeforeWrite(h, t, value, seconds, utc, mono, ok) ==
    LET l == Granted(t, value, seconds, utc, mono)
    IN  IF StartAllowed(utc, seconds)
        THEN [ram |-> l, flash |-> IF ok THEN Encoded(l) ELSE h.flash]
        ELSE h

Start(h, t, value, seconds, utc, mono, ok) ==
    LET l == Granted(t, value, seconds, utc, mono)
    IN  IF StartAllowed(utc, seconds) /\ ok
        THEN [ram |-> l, flash |-> Encoded(l)]
        ELSE h

FlushForgotten(h, ok) == h

Flush(h, ok) ==
    IF h.ram.dirty /\ ok
    THEN [ram |-> [h.ram EXCEPT !.dirty = FALSE], flash |-> Tombstone(h.ram.target)]
    ELSE h

(* A stop takes effect at once; only its tombstone can be late.            *)
Cancel(h, why, ok) ==
    IF ~h.ram.active /\ ~h.ram.dirty
    THEN h
    ELSE Flush([h EXCEPT !.ram = [h.ram EXCEPT !.active = FALSE, !.anchored = FALSE,
                                               !.dirty = TRUE, !.reason = why]], ok)
-----------------------------------------------------------------------------
(* Whole seconds left on the monotonic deadline, rounded up.               *)
RemainingSec(l, mono) == (l.deadline - mono + MsPerSec - 1) \div MsPerSec

CorrectedEnd(l, utc, mono) == utc + RemainingSec(l, mono)

DriftIgnored(l, utc, mono) == FALSE

Drifted(l, utc, mono) ==
    LET e == CorrectedEnd(l, utc, mono)
    IN  e - l.end > Tolerance \/ l.end - e > Tolerance

(* A restored lease has no deadline until UTC is trusted.                  *)
AnchoredBackwards(l, utc, mono) ==
    [l EXCEPT !.anchored = TRUE, !.deadline = mono - (l.end - utc) * MsPerSec]

Anchored(l, utc, mono) ==
    [l EXCEPT !.anchored = TRUE, !.deadline = mono + (l.end - utc) * MsPerSec]

NeverBehind(l, utc) == FALSE

ClockBehind(l, utc) == ~l.anchored /\ utc < l.start

ExpiredByUtcOnly(l, utc, mono) == ~l.anchored /\ utc >= l.end

Expired(l, utc, mono) == IF l.anchored THEN mono >= l.deadline ELSE utc >= l.end

(* The record is moved with the clock, its length kept.                    *)
DeadlineMoved(l, end) ==
    [l EXCEPT !.start = end - (l.end - l.start), !.end = end,
              !.deadline = l.deadline + MsPerSec]
EndMoved(l, end) == [l EXCEPT !.end = end]

Shifted(l, end) == [l EXCEPT !.start = end - (l.end - l.start), !.end = end]

(* okMove: the write of a moved record; okStop: the write of a tombstone.  *)
(* A lease that was just anchored is not drifted: its end is its end.      *)
Tick(h, utc, mono, okMove, okStop) ==
    LET l == h.ram
        end == CorrectedEnd(l, utc, mono)
        moved == Shifted(l, end)
    IN  IF ~l.active \/ (~l.anchored /\ utc = 0) THEN h
        ELSE IF ClockBehind(l, utc) THEN Cancel(h, "ClockInvalid", okStop)
        ELSE IF Expired(l, utc, mono) THEN Cancel(h, "Expired", okStop)
        ELSE IF ~l.anchored THEN [h EXCEPT !.ram = Anchored(l, utc, mono)]
        ELSE IF utc = 0 \/ ~Drifted(l, utc, mono) THEN h
        ELSE IF end >= l.end - l.start /\ okMove
             THEN [ram |-> moved, flash |-> Encoded(moved)]
        ELSE Cancel(h, "ClockInvalid", okStop)

(* ActuatorControlState.mode                                               *)
Mode(l) == IF l.dirty THEN "PersistenceError"
           ELSE IF ~l.active THEN "Guided"
           ELSE IF l.anchored THEN "Forced" ELSE "WaitingTime"
=============================================================================
