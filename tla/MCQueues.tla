------------------------------ MODULE MCQueues ------------------------------
(* The two queues many tasks share, of messages to publish and of requests *)
(* for the RS-485 line, side by side: a behaviour exercises one of them.   *)
EXTENDS MqttQueue

VARIABLES
    part,
    slots, older, active, accepting, nextId, available, bus, wire, spacing

(* Three messages that compete for rings of one place each, one of them    *)
(* asked for urgently at times.                                            *)
Asked(m, p) == [msg |-> m, priority |-> p]
Three == {"alarm", "status", "route"}
Competing == {Asked(m, 1) : m \in Three} \cup {Asked("route", 2)}
Tight == [p \in Prios |-> 1]

(* A reading and a slower one that is retried, without guard or pace.      *)
Quick == [owner |-> 1, priority |-> 1, retries |-> 0, timeout |-> 1,
          quiet |-> 0, guard |-> 0, interval |-> 0, latest |-> 1]
Slow == [owner |-> 2, priority |-> 0, retries |-> 1, timeout |-> 1,
         quiet |-> 0, guard |-> 0, interval |-> 0, latest |-> 1]

Line == INSTANCE ModbusScheduler WITH
    N <- 2, MaxId <- 2, Requests <- {Quick, Slow}, Age <- 2, Long <- 1, owed <- spacing

lineVars == <<slots, older, active, accepting, nextId, available, bus, wire, spacing>>
vars == <<queueVars, lineVars, part>>

Init == part \in {"queue", "line"} /\ QueueInit /\ Line!Init

Next ==
    /\ \/ part = "queue" /\ QueueNext /\ UNCHANGED lineVars
       \/ part = "line" /\ Line!Next /\ UNCHANGED queueVars
    /\ UNCHANGED part

(* The fairness of each part, restated for it.                             *)
Spec ==
    /\ Init
    /\ [][Next]_vars
    /\ []<>~(part = "queue" /\ connected /\ task = TaskIdle)
    /\ \A at \in {"Pass", "Build", "Settle"} : []<>(task.at # at)
    /\ WF_lineVars(part = "line" /\ Line!Tick)
    /\ WF_lineVars(part = "line" /\ Line!Elapse)

RequestsEnd == Line!RequestsEnd

(* Both queues serve whoever waits.                                        *)
EachIsServed == AcceptedAreBuilt /\ RequestsEnd
=============================================================================
