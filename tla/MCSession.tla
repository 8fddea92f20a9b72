----------------------------- MODULE MCSession -----------------------------
(* The connection and the two producers that depend on it side by side: a  *)
(* behaviour exercises one of them, against what the others promise.       *)
EXTENDS ConfigRoutes, RuntimeRoutes, MqttConnection

VARIABLE part

vars == <<cfgVars, runtimeVars, connectionVars, part>>

Init ==
    /\ part \in {"config", "runtime", "connection"}
    /\ CfgInit /\ RuntimeInit /\ ConnectionInit

Next ==
    /\ \/ part = "config" /\ CfgNext /\ UNCHANGED <<runtimeVars, connectionVars>>
       \/ part = "runtime" /\ RuntimeNext /\ UNCHANGED <<cfgVars, connectionVars>>
       \/ part = "connection" /\ ConnectionNext /\ UNCHANGED <<cfgVars, runtimeVars>>
    /\ UNCHANGED part

(* What a part at rest is asked by its fairness holds in its first state.  *)
Spec ==
    /\ Init
    /\ [][Next]_vars
    /\ CfgFairness /\ RuntimeFairness /\ ConnectionFairness

(* Once the connection holds and nothing changes any more, the broker has  *)
(* every value and the producers rest; and the connection comes to hold.   *)
PublishedInTheEnd == ChangesPublished /\ ComesToRest /\ ValueIsShown /\ ConnectsAgain
=============================================================================
