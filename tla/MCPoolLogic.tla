---------------------------- MODULE MCPoolLogic ----------------------------
(* PoolLogicModule, the schedule that wakes it and the counters of running *)
(* time that limit what it starts, part by part: a behaviour exercises one *)
(* of them.                                                                *)
EXTENDS OxygenDosing, PoolLogic, PhDosing, HeatAssist, PeriodCounters, TimeScheduler, TLC

VARIABLE part

MCWindows == {<<1, 3>>, <<3, 1>>}

Slot(over, days, from, to) ==
    [enabled |-> TRUE, hasEnd |-> TRUE, replay |-> TRUE, oneShot |-> over, days |-> days,
     start |-> from, end |-> to]

MCUserDefs ==
    (3 :> {Slot(FALSE, {0}, 2, 1), [Slot(FALSE, {0, 1}, 0, 1) EXCEPT !.replay = FALSE]})
        @@ (4 :> {Slot(TRUE, {0, 1}, 1, 3), [Slot(FALSE, {0}, 1, 1) EXCEPT !.enabled = FALSE]})

MCPeriodLength == [p \in Periods |-> IF p = Day THEN 4 ELSE 8]

(* Those who edit slots are interchangeable.                               *)
EditorSymmetry == Permutations(Editors)

vars == <<oxygenVars, poolLogicVars, phVars, heatVars, periodVars, schedulerVars, part>>

Init ==
    /\ part \in {"oxygen", "filtration", "ph", "heat", "periods", "scheduler"}
    /\ OxygenInit /\ PoolInit /\ PhInit /\ HeatInit /\ PeriodInit /\ SchedulerInit
    /\ part # "filtration" => window = <<1, 3>> /\ ~autoMode
    /\ part # "ph" => ~phAutoMode
    /\ part # "heat" => mode = "Auto"

Next ==
    /\ \/ /\ part = "oxygen" /\ OxygenNext
          /\ UNCHANGED <<poolLogicVars, phVars, heatVars, periodVars, schedulerVars>>
       \/ /\ part = "filtration" /\ PoolNext
          /\ UNCHANGED <<oxygenVars, phVars, heatVars, periodVars, schedulerVars>>
       \/ /\ part = "ph" /\ PhNext
          /\ UNCHANGED <<oxygenVars, poolLogicVars, heatVars, periodVars, schedulerVars>>
       \/ /\ part = "heat" /\ HeatNext
          /\ UNCHANGED <<oxygenVars, poolLogicVars, phVars, periodVars, schedulerVars>>
       \/ /\ part = "periods" /\ PeriodNext
          /\ UNCHANGED <<oxygenVars, poolLogicVars, phVars, heatVars, schedulerVars>>
       \/ /\ part = "scheduler" /\ SchedulerNext
          /\ UNCHANGED <<oxygenVars, poolLogicVars, phVars, heatVars, periodVars>>
    /\ UNCHANGED part

Spec == Init /\ [][Next]_vars
=============================================================================
