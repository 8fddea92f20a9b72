------------------------- MODULE MCModbusScheduler -------------------------
(* Two devices on one line: telemetry that is retried and paced, and a     *)
(* safety stop with a longer guard.  Beside them, a lease that has to end: *)
(* a behaviour exercises the line or the lease.                            *)
EXTENDS ModbusScheduler

VARIABLES
    part,
    holder, real, bootAt, trusted, offset, grantedAt, granted, reboots, seen, misread

Telemetry == [owner |-> 1, priority |-> 1, retries |-> 1, timeout |-> 2,
              quiet |-> 0, guard |-> 1, interval |-> 3, latest |-> 3]
Stop == [owner |-> 2, priority |-> 3, retries |-> 0, timeout |-> 1,
         quiet |-> 1, guard |-> 1, interval |-> 0, latest |-> 3]

StopAndTelemetry == {Stop, Telemetry}

(* Two settings of the clock two seconds apart, one restart.               *)
Lease == INSTANCE OverrideLease WITH
    None <- "None", Targets <- {"pump"}, MaxDurationSec <- 2, MsPerSec <- 2, Tolerance <- 0,
    Durations <- {1, 2}, StopReasons <- {"Safety"}, Offsets <- {3, 5},
    MaxReal <- 2, MaxReboots <- 2

leaseVars == <<holder, real, bootAt, trusted, offset, grantedAt, granted, reboots, seen, misread>>

LineInit ==
    /\ part \in {"line", "lease"}
    /\ Init /\ Lease!Init
    /\ part = "line" => offset = 3

LineNext ==
    /\ \/ part = "line" /\ Next /\ UNCHANGED leaseVars
       \/ part = "lease" /\ Lease!Next /\ UNCHANGED vars
    /\ UNCHANGED part

(* The line owes nothing here; the lease its fairness, for its part.       *)
LineSpec ==
    /\ LineInit
    /\ [][LineNext]_<<vars, leaseVars, part>>
    /\ WF_leaseVars(part = "lease" /\ Lease!Elapse)
    /\ WF_leaseVars(
           part = "lease" /\ \E okMove, okStop \in BOOLEAN : Lease!LoopTick(okMove, okStop))
    /\ WF_leaseVars(part = "lease" /\ Lease!Retry(TRUE))

(* A forcing ends, and so does what its caller has stopped.                *)
ForcingEnds == Lease!ForcingEnds
=============================================================================
