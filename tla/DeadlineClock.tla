---------------------------- MODULE DeadlineClock ----------------------------
(***************************************************************************)
(* The deadlines that are set to zero for "at once": notBeforeMs of a      *)
(* publish job (MQTTQueue.cpp) and retryAt_ of a device driver             *)
(* (PoolDeviceDriver.cpp).  MqttQueue has what is left of the delay in     *)
(* their place, which is what these deadlines say during the first half of *)
(* the counter.                                                            *)
(***************************************************************************)
EXTENDS WrappedCounter

CONSTANTS
    MaxDelay, \* RetryMaxMs: the longest delay
    RestLimit \* bound: how long a deadline is left as it is

VARIABLES
    now,      \* millis()
    deadline, \* notBeforeMs, retryAt_
    for       \* history: time since the deadline was set

vars == <<now, deadline, for>>

Due == NotBefore(now, deadline)
-----------------------------------------------------------------------------
(* The firmware has run for any while when a job is admitted.              *)
Init ==
    /\ now \in Counter
    /\ deadline = 0
    /\ for = 0

(* An attempt failed: the next one rests for d.                            *)
Rest(d) ==
    /\ Due
    /\ deadline' = Wrapped(now + d)
    /\ for' = 0
    /\ UNCHANGED now

(* A new job or target, or one that succeeded: the next one may start.     *)
Clear ==
    /\ deadline' = 0
    /\ for' = 0
    /\ UNCHANGED now

Elapse ==
    /\ for < RestLimit
    /\ now' = Wrapped(now + 1)
    /\ for' = for + 1
    /\ UNCHANGED deadline

Next ==
    \/ \E d \in 1..MaxDelay : Rest(d)
    \/ Clear
    \/ Elapse

Spec == Init /\ [][Next]_vars
-----------------------------------------------------------------------------
(* Nothing waits longer than the longest delay (docs/modules/MQTTModule.md *)
(* line 109: back-off from 250 ms to 10 s).                                *)
NoLongerThanMax == for >= MaxDelay => Due
=============================================================================
