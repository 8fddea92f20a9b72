----------------------------- MODULE PoolDevices -----------------------------
(***************************************************************************)
(* The actuators of the pool: PoolDeviceModule's slots, the targets set by *)
(* users and by PoolLogic, the durable leases that override them, the      *)
(* interlocks between slots and the drivers below.                         *)
(*                                                                         *)
(* tickDevices_ visits the slots in order under the state mutex.  Here one *)
(* step visits one slot and cursor names the next; cursor = N means that   *)
(* the mutex is free.  A command takes effect and then runs a tick itself, *)
(* as the code does before it unlocks.                                     *)
(*                                                                         *)
(* Time is abstracted: a lease with trusted time may expire on any tick,   *)
(* an actuator that ran may reach its daily maximum, a back-off may or may *)
(* not be over.  OverrideLease has the clocks.  The value of a lease and   *)
(* the baseline are read only while it is active and are FALSE otherwise.  *)
(*                                                                         *)
(* The operators that no action uses (DependenciesCommanded, TargetKept,   *)
(* AlwaysWaiting, RelayLatched...) are mistakes easily made here, kept     *)
(* beside the definition they would replace: each breaks a property below. *)
(***************************************************************************)
EXTENDS Naturals

CONSTANTS
    N,         \* number of slots
    Deps,      \* dependsOnMask: the slots each slot needs
    Required,  \* requiredOnMask: the slots its forcing needs besides
    Sensed,    \* slots whose driver reads a feedback (RS-485), not a relay
    Overridable, \* relay slots that share their output with no other slot
    Roles      \* slots to which PoolLogic has given a role

Slots == 0..(N - 1)

ASSUME NAssumption == N \in Nat \ {0}
ASSUME DepsAssumption == Deps \in [Slots -> SUBSET Slots]
ASSUME RequiredAssumption == Required \in [Slots -> SUBSET Slots]
ASSUME SensedAssumption == Sensed \subseteq Slots
ASSUME OverridableAssumption == Overridable \subseteq Slots \ Sensed
ASSUME RolesAssumption == Roles \subseteq Slots

VARIABLES
    dev,      \* the slots
    policy,   \* what PoolLogic allows forcings to do
    writes,   \* are actuator writes enabled
    trusted,  \* is UTC trusted
    cursor,   \* the next slot of the tick in progress, or N
    asked     \* history: has the slot been asked to run since it was last unsafe

vars == <<dev, policy, writes, trusted, cursor, asked>>

Interlocks == {"Ready", "Unavailable", "StartRejected", "SafetyStopped"}
Feedbacks == {"Unknown", "On", "Off", "Failed", "Stale"}

Lease == [active : BOOLEAN, value : BOOLEAN, anchored : BOOLEAN, dirty : BOOLEAN]
Flash == [active : BOOLEAN, value : BOOLEAN, baseline : BOOLEAN]
Policy == [ready : BOOLEAN, allowOn : BOOLEAN, allowOff : BOOLEAN]

Slot == [desired : BOOLEAN,     \* the guided target
         effective : BOOLEAN,   \* the target given to the driver
         feedback : Feedbacks,  \* what the driver reports
         backoff : BOOLEAN,     \* is the driver waiting to retry
         interlock : Interlocks,
         maxed : BOOLEAN,       \* the daily running time is used up
         restored : BOOLEAN,    \* the lease comes from flash, not yet applied
         baseline : BOOLEAN,    \* the guided target when the lease was granted
         lease : Lease, flash : Flash]

(* The slots and the position of the tick keep their types.                *)
TypeOK ==
    /\ dev \in [Slots -> Slot]
    /\ policy \in [Slots -> Policy]
    /\ writes \in BOOLEAN /\ trusted \in BOOLEAN
    /\ cursor \in 0..N
    /\ asked \in [Slots -> BOOLEAN]

Idle == cursor = N
-----------------------------------------------------------------------------
(* Leases *)

NoLease == [active |-> FALSE, value |-> FALSE, anchored |-> FALSE, dirty |-> FALSE]
Tombstone == [active |-> FALSE, value |-> FALSE, baseline |-> FALSE]

Flush(d, ok) ==
    IF d.lease.dirty /\ ok THEN [d EXCEPT !.lease = NoLease, !.flash = Tombstone]
    ELSE d

Cancel(d, ok) ==
    IF ~d.lease.active /\ ~d.lease.dirty THEN d
    ELSE Flush([d EXCEPT !.lease = [NoLease EXCEPT !.dirty = TRUE],
                         !.baseline = FALSE], ok)

(* TimedActuatorOverride::tick: without time an unanchored lease waits;    *)
(* with it the lease is anchored and may end, well saved or not.           *)
Expiring(d) ==
    IF ~d.lease.active \/ (~d.lease.anchored /\ ~trusted) THEN {d}
    ELSE {[d EXCEPT !.lease.anchored = TRUE], Cancel(d, TRUE), Cancel(d, FALSE)}

Granted(d, value) ==
    [d EXCEPT !.baseline = d.desired, !.restored = FALSE,
              !.lease = [active |-> TRUE, value |-> value,
                         anchored |-> TRUE, dirty |-> FALSE],
              !.flash = [active |-> TRUE, value |-> value, baseline |-> d.desired]]

Forced(d) == d.lease.active /\ d.lease.anchored
-----------------------------------------------------------------------------
(* Interlocks *)

(* The slots reached through dependencies: the least set that holds those  *)
(* of slot i and is closed under them, which the passes of the loop reach. *)
Closed(S) == \A k \in S : Deps[k] \subseteq S

Reachable(i) == {j \in Slots : \A S \in SUBSET Slots :
                                   Deps[i] \subseteq S /\ Closed(S) => j \in S}

OnCycle(i) == i \in Reachable(i)

IsOn(d) == d.feedback = "On"
Faulty(d) == d.feedback \in {"Failed", "Stale"}
Blocked(state) == state \in {"StartRejected", "SafetyStopped"}

DependenciesCommanded(i) == ~OnCycle(i) /\ \A p \in Deps[i] : dev[p].effective

dependenciesSatisfied(i) == ~OnCycle(i) /\ \A p \in Deps[i] : IsOn(dev[p])

(* Required is part of the policy PoolLogic publishes once it is ready.    *)
overrideDependenciesSatisfied(i) ==
    /\ dependenciesSatisfied(i)
    /\ i \in Roles /\ policy[i].ready =>
          \A p \in Required[i] : IsOn(dev[p]) /\ ~dev[p].maxed

Requested(d) ==
    d.desired \/ d.effective \/ IsOn(d) \/ (d.lease.active /\ d.lease.value)

Interlock(d, ready) ==
    IF ready THEN "Ready"
    ELSE IF Requested(d) THEN "SafetyStopped"
    ELSE IF Blocked(d.interlock) THEN d.interlock
    ELSE "Unavailable"

Safe(d, ready) == ready /\ ~d.maxed /\ ~Faulty(d)

(* The guided target of a device that may not run is given up.  A slot     *)
(* whose dependencies fail and which asks for nothing has nothing to lose. *)
TargetKept(d, ready) == [d EXCEPT !.interlock = Interlock(d, ready)]

Diagnosed(d, ready) ==
    LET state == Interlock(d, ready)
    IN  [d EXCEPT !.interlock = state,
                  !.desired = d.desired /\ ~d.maxed /\ ~Blocked(state) /\ ~Faulty(d)]
-----------------------------------------------------------------------------
(* Arbitration between the lease and the guided target: resolveOverride_.  *)

(* A restored lease that was never applied waits for its dependencies.     *)
AlwaysWaiting(d, ready) == ~ready /\ ~d.maxed /\ ~Faulty(d)

Waiting(d, ready) == d.restored /\ ~ready /\ ~d.maxed /\ ~Faulty(d)

ProtectionCancels(i, d, safe) ==
    LET ready == overrideDependenciesSatisfied(i)
    IN  /\ writes /\ policy[i].ready /\ d.lease.active
        /\ IF d.lease.value
           THEN \/ ~policy[i].allowOn
                \/ ~(safe /\ ready) /\ ~Waiting(d, ready)
           ELSE ~policy[i].allowOff

Protected(i, d, safe, ok) ==
    IF ProtectionCancels(i, d, safe)
    THEN Cancel([d EXCEPT !.desired = d.desired /\ ~d.lease.value], ok)
    ELSE d

Acting(i, d) ==
    /\ Forced(d) /\ policy[i].ready
    /\ d.lease.value => overrideDependenciesSatisfied(i)

Resolved(i, d) ==
    IF Forced(d) THEN Acting(i, d) /\ d.lease.value
    ELSE d.desired /\ ~d.lease.active /\ ~d.lease.dirty

Arbitrated(i, d, safe) ==
    [d EXCEPT !.restored = d.restored /\ ~(Acting(i, d) /\ writes),
              !.effective = Resolved(i, d) /\ safe,
              !.backoff = d.backoff /\ (Resolved(i, d) /\ safe) = d.effective]
-----------------------------------------------------------------------------
(* Drivers.  DigitalRelayDriver reports what it wrote; a sensed driver     *)
(* reports what its device does, whenever it answers.                      *)

(* A relay that compares its readback with the target it last applied.     *)
RelayLatched(d) ==
    LET failed == [d EXCEPT !.feedback = "Failed", !.backoff = TRUE]
        written == [d EXCEPT !.feedback = IF d.effective THEN "On" ELSE "Off",
                             !.backoff = FALSE]
    IN  IF ~writes \/ (IsOn(d) /\ ~d.effective) THEN {d, failed}
        ELSE {failed, written}

RelayDriven(d) ==
    LET failed == [d EXCEPT !.feedback = "Failed", !.backoff = TRUE]
        written == [d EXCEPT !.feedback = IF d.effective THEN "On" ELSE "Off",
                             !.backoff = FALSE]
    IN  IF ~writes THEN {d, failed}
        ELSE {failed, written} \cup (IF d.backoff THEN {d} ELSE {})

SensedDriven(d) == {[d EXCEPT !.feedback = f] : f \in Feedbacks}

Driven(i, d) == IF i \in Sensed THEN SensedDriven(d) ELSE RelayDriven(d)

(* The running time of the delta since the last tick reaches the maximum.  *)
Metered(d, wasOn) == IF wasOn THEN {d, [d EXCEPT !.maxed = TRUE]} ELSE {d}
-----------------------------------------------------------------------------
(* One pass of tickDevices_ over one slot.  The retry of a tombstone comes *)
(* round every five seconds.                                               *)
TickSlot(i) ==
    /\ cursor = i
    /\ cursor' = i + 1
    /\ \E okStop, okRetry \in BOOLEAN :
          LET ready == dependenciesSatisfied(i)
              d0 == Diagnosed(dev[i], ready)
              safe == Safe(d0, ready)
          IN  \E d1 \in Expiring(d0) :
                LET d2 == Arbitrated(i, Flush(Protected(i, d1, safe, okStop), okRetry), safe)
                IN  /\ \E d3 \in Driven(i, d2) : \E d4 \in Metered(d3, IsOn(dev[i])) :
                          dev' = [dev EXCEPT ![i] = d4]
                    /\ asked' = [asked EXCEPT ![i] =
                          asked[i] /\ (safe \/ (d2.restored /\ d2.lease.active /\ d2.lease.value))]
    /\ UNCHANGED <<policy, writes, trusted>>

(* loop(): every 20 ms.                                                    *)
Loop ==
    /\ Idle /\ cursor' = 0
    /\ UNCHANGED <<dev, policy, writes, trusted, asked>>

(* A command leaves slot i as d and ticks all the slots.                   *)
CommandedFromBefore(i, d) ==
    /\ cursor' = i - 1
    /\ dev' = [dev EXCEPT ![i] = d]
    /\ UNCHANGED <<policy, writes, trusted>>

Commanded(i, d) ==
    /\ cursor' = 0
    /\ dev' = [dev EXCEPT ![i] = d]
    /\ UNCHANGED <<policy, writes, trusted>>

(* setTarget_: PoolLogic's targets and, with manual, the user's.           *)
RejectStart(i) ==
    /\ Idle /\ ~dev[i].maxed /\ ~dependenciesSatisfied(i)
    /\ Commanded(i, [dev[i] EXCEPT !.interlock = "StartRejected"])
    /\ UNCHANGED asked

SetTarget(i, on, manual, ok) ==
    LET d == IF manual THEN Cancel(dev[i], ok) ELSE dev[i]
        accepted == ~(manual /\ d.lease.dirty)
    IN  /\ Idle
        /\ on => ~dev[i].maxed /\ dependenciesSatisfied(i)
        /\ Commanded(i, IF accepted THEN [d EXCEPT !.interlock = "Ready", !.desired = on]
                        ELSE d)
        /\ asked' = [asked EXCEPT ![i] = asked[i] \/ (on /\ accepted)]
-----------------------------------------------------------------------------
(* A failed write of the lease rolls the baseline back, not the interlock. *)
BaselineLeft(d) == [d EXCEPT !.interlock = "Ready", !.baseline = d.desired]

StartFailed(d) == [d EXCEPT !.interlock = "Ready"]

OverrideAllowed(i, value) ==
    /\ i \in Overridable
    /\ writes /\ policy[i].ready /\ ~dev[i].lease.dirty /\ trusted
    /\ IF value
       THEN /\ policy[i].allowOn /\ overrideDependenciesSatisfied(i)
            /\ ~dev[i].maxed /\ ~Faulty(dev[i])
       ELSE policy[i].allowOff

(* svcOverrideCommandImpl_: a refused write ends it without a tick.        *)
Override(i, value) ==
    /\ Idle /\ OverrideAllowed(i, value)
    /\ Commanded(i, [Granted(dev[i], value) EXCEPT !.interlock = "Ready"])
    /\ asked' = [asked EXCEPT ![i] = asked[i] \/ value]

OverrideNotSaved(i, value) ==
    /\ Idle /\ OverrideAllowed(i, value)
    /\ dev' = [dev EXCEPT ![i] = StartFailed(dev[i])]
    /\ UNCHANGED <<policy, writes, trusted, cursor, asked>>

Release(i, ok) ==
    /\ Idle
    /\ Commanded(i, Cancel(dev[i], ok))
    /\ UNCHANGED asked
-----------------------------------------------------------------------------
(* PoolLogic enables the writes once per boot, after adopting the state of *)
(* the actuators, and publishes its policies from then on.                 *)
EnableWrites ==
    /\ Idle /\ ~writes
    /\ writes' = TRUE /\ cursor' = 0
    /\ UNCHANGED <<dev, policy, trusted, asked>>

SetPolicies ==
    /\ Idle /\ writes
    /\ \E p \in [Roles -> [ready : {TRUE}, allowOn : BOOLEAN, allowOff : BOOLEAN]] :
          policy' = [i \in Slots |-> IF i \in Roles THEN p[i] ELSE policy[i]]
    /\ UNCHANGED <<dev, writes, trusted, cursor, asked>>

(* The day turns: resetPendingMask_, taken by the tick that follows.       *)
NewDay ==
    /\ cursor \in {0, N}
    /\ dev' = [i \in Slots |-> [dev[i] EXCEPT !.maxed = FALSE]]
    /\ UNCHANGED <<policy, writes, trusted, cursor, asked>>

SetTime(t) ==
    /\ trusted # t /\ trusted' = t
    /\ UNCHANGED <<dev, policy, writes, cursor, asked>>

Unstarted(i) == [ready |-> i \notin Roles, allowOn |-> TRUE, allowOff |-> TRUE]

(* restoreOverrides_ and configureRuntime_.  Running time that was not     *)
(* persisted is lost.                                                      *)
Restarted(d, maxed) ==
    [desired |-> d.flash.active /\ d.flash.baseline,
     effective |-> d.flash.active /\ d.flash.baseline,
     feedback |-> "Unknown", backoff |-> FALSE, interlock |-> "Ready",
     maxed |-> d.maxed /\ maxed,
     restored |-> d.flash.active, baseline |-> d.flash.baseline,
     lease |-> [active |-> d.flash.active, value |-> d.flash.value,
                anchored |-> FALSE, dirty |-> FALSE],
     flash |-> d.flash]

Reboot ==
    /\ \E maxed \in [Slots -> BOOLEAN] :
          dev' = [i \in Slots |-> Restarted(dev[i], maxed[i])]
    /\ policy' = [i \in Slots |-> Unstarted(i)]
    /\ writes' = FALSE /\ trusted' = FALSE /\ cursor' = N
    /\ asked' = [i \in Slots |->
          dev[i].flash.active /\ (dev[i].flash.value \/ dev[i].flash.baseline)]

NewSlot ==
    [desired |-> FALSE, effective |-> FALSE, feedback |-> "Unknown", backoff |-> FALSE,
     interlock |-> "Ready", maxed |-> FALSE, restored |-> FALSE, baseline |-> FALSE,
     lease |-> NoLease, flash |-> Tombstone]

Init ==
    /\ dev = [i \in Slots |-> NewSlot]
    /\ policy = [i \in Slots |-> Unstarted(i)]
    /\ writes = FALSE /\ trusted = FALSE /\ cursor = N
    /\ asked = [i \in Slots |-> FALSE]

Next ==
    \/ \E i \in Slots :
          \/ TickSlot(i)
          \/ RejectStart(i)
          \/ \E on, manual, ok \in BOOLEAN : SetTarget(i, on, manual, ok)
          \/ \E value \in BOOLEAN : Override(i, value)
          \/ \E value \in BOOLEAN : OverrideNotSaved(i, value)
          \/ \E ok \in BOOLEAN : Release(i, ok)
    \/ Loop
    \/ EnableWrites
    \/ SetPolicies
    \/ NewDay
    \/ \E t \in BOOLEAN : SetTime(t)
    \/ Reboot

Spec == Init /\ [][Next]_vars

(* The task loop never stops ticking.  Nothing else is owed.               *)
Fairness == WF_vars(Loop) /\ \A i \in Slots : WF_vars(TickSlot(i))

FairSpec == Spec /\ Fairness
-----------------------------------------------------------------------------
(* Properties *)

(* No slot runs, by its relay or its sensed target, unless what it needs   *)
(* was seen running when the slot was last visited: a parent that precedes *)
(* it in this very tick, one that follows it in the tick before.  It holds *)
(* between any two visits of a tick, for guided targets, forcings and      *)
(* restored forcings alike (docs: commands all pass through dependencies). *)
Running(i) == IF i \in Sensed THEN dev[i].effective ELSE IsOn(dev[i])

InterlockHolds ==
    \A i \in Slots : i < cursor /\ Running(i) =>
        /\ ~OnCycle(i)
        /\ \A p \in Deps[i] : p < i \/ cursor <= p => IsOn(dev[p])

(* Once a protection finds a slot unsafe nothing but a new command runs it *)
(* again: neither the return of its dependency, nor the end of a lease,    *)
(* nor a new day ("a new start command is required").  The one exception   *)
(* is a lease restored at boot that has not been applied yet.              *)
NoAutoRestart == \A i \in Slots : i < cursor /\ Running(i) => asked[i]

(* A lease in force is on flash with the guided target it will return to,  *)
(* even when the write of a replacement failed half way.                   *)
BaselineDurable ==
    \A i \in Slots : dev[i].lease.active =>
        dev[i].flash = [active |-> TRUE, value |-> dev[i].lease.value,
                        baseline |-> dev[i].baseline]

(* A protection ends a forcing, it never pauses it: a tick that leaves an  *)
(* applied ON forcing in force leaves the slot running (docs: a protection *)
(* cancels the forcing, does not suspend its delay and does not re-arm it).*)
Ticks(i) == cursor = i /\ cursor' = i + 1

NeverPaused ==
    [][\A i \in Slots :
          Ticks(i) /\ writes /\ policy[i].ready /\ ~dev'[i].restored
            /\ Forced(dev'[i]) /\ dev'[i].lease.value
          => dev'[i].effective]_vars

(* What a forcing does is all or nothing: a restart finds it with the      *)
(* target it returns to, and a protection ends it and never pauses it.     *)
ForcingsWhole == []BaselineDurable /\ NeverPaused

(* A relay whose dependency is off does not stay on, however the slots are *)
(* ordered.                                                                *)
LossStops ==
    \A i \in Slots \ Sensed : \A p \in Deps[i] :
        (IsOn(dev[i]) /\ dev[p].feedback = "Off") ~> (~IsOn(dev[i]) \/ IsOn(dev[p]))
=============================================================================
