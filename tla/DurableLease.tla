---------------------------- MODULE DurableLease ----------------------------
(***************************************************************************)
(* What a lease promises across crashes, without time, clocks or records:  *)
(* live is the forcing in force, kept the forcing a restart brings back.   *)
(* Nothing is ever in force that is not kept, so a restart never loses a   *)
(* forcing.  The converse is not promised: a stop is immediate and its     *)
(* record may follow late, in which case a restart brings the forcing back.*)
(***************************************************************************)
CONSTANTS Forcings,  \* what can be forced
          None       \* no forcing

VARIABLES live, kept

vars == <<live, kept>>

Init == live = None /\ kept = None

(* A grant or replacement is durable before it is in force.                *)
Grant(f) == live' = f /\ kept' = f

(* A stop is in force before it is durable; Settle makes it so.            *)
Stop == live' = None /\ kept' \in {kept, None}

Settle == live = None /\ kept' = None /\ UNCHANGED live

Restart == live' = kept /\ UNCHANGED kept

Next == (\E f \in Forcings : Grant(f)) \/ Stop \/ Settle \/ Restart

Spec == Init /\ [][Next]_vars

(* Nothing is in force that a restart would lose.                          *)
LiveIsKept == live # None => kept = live
=============================================================================
