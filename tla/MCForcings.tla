----------------------------- MODULE MCForcings -----------------------------
(* A forcing in the hands of its caller, and the slots it acts on: a robot *)
(* that needs a sensed pump of a higher slot.  A behaviour exercises the   *)
(* lease, with its clocks, or the slots, with an abstract time.            *)
EXTENDS OverrideLease

VARIABLES part, dev, policy, writes, dated, cursor, asked

MCStopReasons == {"Safety"}
MCDurations == {1, 3}
MCTwoOffsets == {4, 6}

ParentLast == [i \in 0..1 |-> IF i = 0 THEN {1} ELSE {}]

Pool == INSTANCE PoolDevices WITH
    N <- 2, Deps <- ParentLast, Required <- ParentLast,
    Sensed <- {1}, Overridable <- {0}, Roles <- {0}, trusted <- dated

poolVars == <<dev, policy, writes, dated, cursor, asked>>

ForcingInit ==
    /\ part \in {"lease", "slots"}
    /\ Init /\ Pool!Init
    /\ part = "slots" => offset = 4

ForcingNext ==
    /\ \/ part = "lease" /\ Next /\ UNCHANGED poolVars
       \/ part = "slots" /\ Pool!Next /\ UNCHANGED vars
    /\ UNCHANGED part

ForcingSpec == ForcingInit /\ [][ForcingNext]_<<vars, poolVars, part>>

(* What is claimed of the slots.                                           *)
SlotsTypeOK == Pool!TypeOK
InterlockHolds == Pool!InterlockHolds
NoAutoRestart == Pool!NoAutoRestart
ForcingsWhole == Pool!ForcingsWhole
=============================================================================
