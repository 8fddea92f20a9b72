---------------------------- MODULE OverrideLease ----------------------------
(***************************************************************************)
(* One lease of TimedLease in the hands of its caller: commands grant and  *)
(* release it, the control loop ticks it and retries its tombstone, flash  *)
(* writes fail, the UTC clock is unknown, trusted or corrected, and the    *)
(* controller restarts at any point.                                       *)
(*                                                                         *)
(* Time is one ground truth, real, in units of the monotonic clock.  The   *)
(* monotonic clock counts from the boot; UTC is offset seconds away from   *)
(* it while it is trusted and 0 (unknown) otherwise.                       *)
(***************************************************************************)
EXTENDS TimedLease

CONSTANTS
    None,        \* no forcing
    Durations,   \* lengths of lease that are asked for, in seconds
    Offsets,     \* settings of the UTC clock, in seconds
    StopReasons, \* why a caller stops a lease
    MaxReal,     \* bound: last instant at which a lease is granted
    MaxReboots   \* bound: restarts of a behaviour

ASSUME DurationsAssumption == Durations \subseteq Nat
(* TimeModule accepts no date before the year of the build.                *)
ASSUME OffsetsAssumption == Offsets \subseteq {o \in Nat : o > MaxDurationSec}
ASSUME StopReasonsAssumption == StopReasons \subseteq Reasons
ASSUME NoneAssumption == None \notin Targets \X BOOLEAN
ASSUME MaxRealAssumption == MaxReal \in Nat
ASSUME MaxRebootsAssumption == MaxReboots \in Nat

VARIABLES
    holder,    \* the lease and its flash record
    real,      \* true time since the start of the behaviour
    bootAt,    \* true time of the last restart
    trusted,   \* is the UTC clock trusted (RTC or NTP)
    offset,    \* the setting of the UTC clock
    \* history, read by properties only
    grantedAt, \* true time of the last grant
    granted,   \* its length, in monotonic units
    reboots,   \* restarts since that grant
    seen,      \* the UTC setting the durable end was last compared with
    misread    \* was the clock changed unseen, between a last tick and a restart

leaseVars == <<holder>>
clockVars == <<real, bootAt, trusted, offset>>
history == <<grantedAt, granted, reboots, seen, misread>>
vars == <<leaseVars, clockVars, history>>

Mono == real - bootAt
Utc == IF trusted THEN offset + real \div MsPerSec ELSE 0

(* The lease, its record on flash and the clocks keep their types.         *)
TypeOK ==
    /\ holder \in Holder
    /\ real \in Nat /\ bootAt \in 0..real
    /\ trusted \in BOOLEAN /\ offset \in Offsets
    /\ grantedAt \in 0..real /\ granted \in Nat
    /\ reboots \in 0..MaxReboots
    /\ seen \in Offsets /\ misread \in BOOLEAN

Init ==
    /\ \E t \in Targets : holder = [ram |-> Fresh(t), flash |-> Tombstone(t)]
    /\ real = 0 /\ bootAt = 0
    /\ trusted = FALSE /\ offset \in Offsets
    /\ grantedAt = 0 /\ granted = 0 /\ reboots = 0
    /\ seen = offset /\ misread = FALSE
-----------------------------------------------------------------------------
(* A command grants or replaces the lease.  The caller refuses it while a  *)
(* tombstone is pending or the time is unknown.                            *)
Grant(t, value, seconds, ok) ==
    /\ ~holder.ram.dirty
    /\ Utc # 0
    /\ real < MaxReal
    /\ holder' = Start(holder, t, value, seconds, Utc, Mono, ok)
    /\ IF ok /\ StartAllowed(Utc, seconds)
       THEN /\ grantedAt' = real
            /\ granted' = seconds * MsPerSec
            /\ reboots' = 0
            /\ seen' = offset
            /\ misread' = FALSE
       ELSE UNCHANGED history
    /\ UNCHANGED clockVars

(* A manual command, a release or a safety stop.                           *)
Stop(why, ok) ==
    /\ holder' = Cancel(holder, why, ok)
    /\ UNCHANGED <<clockVars, history>>

(* resolveOverride_ ticks the lease on every pass of the control loop.     *)
LoopTick(okMove, okStop) ==
    /\ holder' = Tick(holder, Utc, Mono, okMove, okStop)
    /\ IF holder'.ram.active /\ Utc # 0
       THEN /\ seen' = offset
            /\ misread' = (misread \/ (~holder.ram.anchored /\ offset # seen))
       ELSE UNCHANGED <<seen, misread>>
    /\ UNCHANGED <<clockVars, grantedAt, granted, reboots>>

(* The same loop retries a pending tombstone.                              *)
Retry(ok) ==
    /\ holder.ram.dirty
    /\ holder' = Flush(holder, ok)
    /\ UNCHANGED <<clockVars, history>>

(* A restart forgets everything but the flash record.                      *)
Reboot ==
    /\ reboots < MaxReboots
    /\ reboots' = reboots + 1
    /\ holder' = [holder EXCEPT !.ram = Restore(holder.flash)]
    /\ bootAt' = real
    /\ trusted' = FALSE
    /\ UNCHANGED <<real, offset, grantedAt, granted, seen, misread>>

(* Beyond the bound MaxReal only a lease that still runs lets time pass.   *)
Elapse ==
    /\ real < MaxReal \/ (Mode(holder.ram) = "Forced" /\ Mono < holder.ram.deadline)
    /\ real' = real + 1
    /\ UNCHANGED <<leaseVars, bootAt, trusted, offset, history>>

(* The clock becomes trusted, or is corrected while it is.                 *)
SetClock(o) ==
    /\ trusted' = TRUE /\ offset' = o
    /\ UNCHANGED <<leaseVars, real, bootAt, history>>

LoseClock ==
    /\ trusted /\ trusted' = FALSE
    /\ UNCHANGED <<leaseVars, real, bootAt, offset, history>>

Next ==
    \/ \E t \in Targets, v \in BOOLEAN, s \in Durations, ok \in BOOLEAN :
          Grant(t, v, s, ok)
    \/ \E why \in StopReasons, ok \in BOOLEAN : Stop(why, ok)
    \/ \E okMove, okStop \in BOOLEAN : LoopTick(okMove, okStop)
    \/ \E ok \in BOOLEAN : Retry(ok)
    \/ Reboot
    \/ Elapse
    \/ \E o \in Offsets : SetClock(o)
    \/ LoseClock

Spec == Init /\ [][Next]_vars

(* The loop runs for ever and time passes; flash writes do not fail for    *)
(* ever.  Commands, clocks and restarts are owed nothing.                  *)
Fairness ==
    /\ WF_vars(Elapse)
    /\ WF_vars(\E okMove, okStop \in BOOLEAN : LoopTick(okMove, okStop))
    /\ WF_vars(Retry(TRUE))

FairSpec == Spec /\ Fairness
-----------------------------------------------------------------------------
(* Properties *)

Forced == Mode(holder.ram) = "Forced"

(* A lease that acts is on flash exactly as it acts, and a lease that was  *)
(* stopped is off flash unless the stop still shows as a persistence       *)
(* error: a restart can neither lose a lease nor hide that one will return *)
(* (start() and tick() write before they change RAM, cancel() marks dirty).*)
RamMatchesFlash ==
    /\ holder.ram.active => holder.flash = Encoded(holder.ram)
    /\ ~holder.ram.active /\ ~holder.ram.dirty => ~holder.flash.active

(* Every lease restore() could meet is one it accepts: a correction of the *)
(* clock keeps the length of the lease and a start that is a real time.    *)
FlashRestorable == WellFormed(holder.flash)

(* Corrections of UTC never move the end of a lease that is running: only  *)
(* a new grant does.                                                       *)
Granting == \E t \in Targets, v \in BOOLEAN, s \in Durations : Grant(t, v, s, TRUE)

DeadlineFixed ==
    [][Forced /\ Forced' /\ ~Granting
         => holder'.ram.deadline = holder.ram.deadline]_vars

(* Whatever the clocks do, a lease that forces has at most its own length  *)
(* left to run.                                                            *)
NeverMoreThanGranted ==
    Forced => holder.ram.deadline - Mono <= granted

(* What a restart finds on flash is the lease that acts, in a form that    *)
(* restore() accepts, and neither has more time than was granted.          *)
LeaseKept == RamMatchesFlash /\ FlashRestorable /\ NeverMoreThanGranted

(* A restart keeps the end of a lease to the tolerance of its record, the  *)
(* second that the record is rounded up to and the part of a second that   *)
(* is lost when it is read back.                                           *)
RestartSlack == Tolerance * MsPerSec + 2 * (MsPerSec - 1)

(* Downtime counts: the lease ends at the instant it was granted for, even *)
(* across restarts and corrections of the clock, but for the slack of each *)
(* restart (the correction is made durable because "a reboot after NTP     *)
(* corrected the clock could extend the original lease").  It is not       *)
(* claimed of a clock that changed unseen by any tick.                     *)
NeverOutlivesGrant ==
    Forced /\ ~misread
      => bootAt + holder.ram.deadline <= grantedAt + granted + reboots * RestartSlack

(* The lease implements DurableLease: the forcing in force and the forcing *)
(* a restart brings back.                                                  *)
Owed(l) == IF l.active THEN <<l.target, l.value>> ELSE None

Store == INSTANCE DurableLease WITH
            Forcings <- Targets \X BOOLEAN,
            live <- Owed(holder.ram),
            kept <- Owed(holder.flash)

ImplementsDurableLease == Store!Spec

(* A forcing ends, by expiry, whatever flash and UTC do; and once flash    *)
(* accepts writes its end is recorded there.                               *)
ForcingEnds ==
    /\ Forced ~> ~Forced
    /\ holder.ram.dirty ~> ~holder.ram.dirty
=============================================================================
