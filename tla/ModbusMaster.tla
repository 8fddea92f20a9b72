---------------------------- MODULE ModbusMaster ----------------------------
(***************************************************************************)
(* What ModbusMasterService promises its clients, by transaction id: a     *)
(* transaction that was accepted ends once, its response is kept until it  *)
(* is taken, and one whose owner cancelled is never heard of again.        *)
(***************************************************************************)
EXTENDS Naturals

CONSTANTS Ids, Owners

VARIABLE transactions

None == [owner |-> 0, phase |-> "None"]

Phase(p) == {i \in Ids : transactions[i].phase = p}

Init == transactions = [i \in Ids |-> None]

(* submit() returns an id nobody waits for.                                *)
Accept(i, o) ==
    /\ transactions[i] = None
    /\ transactions' = [transactions EXCEPT ![i] = [owner |-> o, phase |-> "Pending"]]

(* Pending transactions complete or fail.                                  *)
End(S) ==
    /\ S # {}
    /\ transactions' = [i \in Ids |-> IF i \in S THEN [transactions[i] EXCEPT !.phase = "Done"]
                                                 ELSE transactions[i]]

(* poll() hands the response over.                                         *)
Collect(i) ==
    /\ transactions[i].phase = "Done"
    /\ transactions' = [transactions EXCEPT ![i] = None]

Cancel(o) ==
    transactions' = [i \in Ids |-> IF transactions[i].owner = o THEN None
                                                               ELSE transactions[i]]

Next ==
    \/ \E i \in Ids, o \in Owners : Accept(i, o)
    \/ \E S \in SUBSET Phase("Pending") : End(S)
    \/ \E i \in Ids : Collect(i)
    \/ \E o \in Owners : Cancel(o)

Spec == Init /\ [][Next]_transactions
=============================================================================
