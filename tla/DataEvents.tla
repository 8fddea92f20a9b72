------------------------------ MODULE DataEvents ------------------------------
(***************************************************************************)
(* DataStore, EventBus and the mailboxes of their subscribers: how a task  *)
(* that shows the data (MQTT, the local display) comes to know that a key  *)
(* has changed.  A producer writes the value and marks the key; the task   *)
(* of the bus dispatches some events, posts SystemStarted until the queue  *)
(* takes it, then posts some of the marked keys; a subscriber marks the    *)
(* key in a mailbox of its own and looks at the value in its own loop.     *)
(* The queue is short and other events fill it.                            *)
(*                                                                         *)
(* A value is one of two; statistics and event payloads are left out.      *)
(*                                                                         *)
(* The operators that no action uses (Dropped, FromTheStart...) are        *)
(* mistakes easily made here, kept beside the definition they would        *)
(* replace: each breaks a property below.                                  *)
(***************************************************************************)
EXTENDS Integers, Sequences

CONSTANTS
    KeyCount,       \* data keys
    Consumers,      \* subscribers to DataChanged
    QUEUE_LENGTH,   \* places in the queue of the bus
    DispatchBudget, \* events dispatched in a round, 16 in the code
    FlushBudget,    \* keys posted in a round, 4 in the code
    MaxOthers       \* bound on the other events

ASSUME DataEventsAssumption ==
    /\ {KeyCount, QUEUE_LENGTH, DispatchBudget, FlushBudget} \subseteq Nat \ {0}
    /\ MaxOthers \in Nat

Keys == 0..(KeyCount - 1)
None == -1
SystemStarted == -2  \* the other events of the queue
Other == -3

VARIABLES
    value,     \* the data
    writing,   \* keys written by a producer that has yet to mark them
    pending,   \* DataStore::pendingChanges_
    cursor,    \* its cursor
    queue,     \* EventBus::_queue
    turn,      \* Dispatch, Start or Flush: where the task of the bus is
    left,      \* of the budget of that loop
    scanned,   \* keys looked at by tryDrain
    inHand,    \* the key that tryDrain publishes
    startedPending, \* systemStartedPending_
    announced, \* SystemStarted was dispatched
    mailbox,   \* pendingDataKeys_ of each consumer
    place,     \* its cursor
    taken,     \* the key that the consumer handles
    looked,    \* the value that the consumer saw last
    others

dataVars == <<value, writing, pending, cursor, queue, turn, left, scanned, inHand, startedPending,
              announced, mailbox, place, taken, looked, others>>
consumerVars == <<mailbox, place, taken, looked>>
busVars == <<turn, left, scanned, cursor, inHand, startedPending>>

OverFull == Len(queue) > QUEUE_LENGTH

QueueFull == Len(queue) >= QUEUE_LENGTH
-----------------------------------------------------------------------------
(* A producer, in two steps.                                               *)
WriteValue(k) ==
    /\ k \notin writing
    /\ value' = [value EXCEPT ![k] = 1 - @]
    /\ writing' = writing \cup {k}
    /\ UNCHANGED <<pending, queue, announced, others, busVars, consumerVars>>

notifyChanged(k) ==
    /\ k \in writing
    /\ writing' = writing \ {k} /\ pending' = pending \cup {k}
    /\ UNCHANGED <<value, queue, announced, others, busVars, consumerVars>>

(* Another event, dropped by a full queue.                                 *)
post ==
    /\ others < MaxOthers /\ others' = others + 1
    /\ queue' = IF QueueFull THEN queue ELSE Append(queue, Other)
    /\ UNCHANGED <<value, writing, pending, announced, busVars, consumerVars>>
-----------------------------------------------------------------------------
(* The task of the bus.                                                    *)
Notify(e) ==
    IF e \in Keys THEN [c \in Consumers |-> mailbox[c] \cup {e}] ELSE mailbox

dispatch ==
    /\ turn = "Dispatch" /\ left > 0 /\ queue # <<>>
    /\ queue' = Tail(queue) /\ left' = left - 1
    /\ mailbox' = Notify(Head(queue))
    /\ announced' = (announced \/ Head(queue) = SystemStarted)
    /\ UNCHANGED <<value, writing, pending, cursor, turn, scanned, inHand, startedPending, place,
                   taken, looked, others>>

EndDispatch ==
    /\ turn = "Dispatch" /\ (left = 0 \/ queue = <<>>)
    /\ turn' = "Start" /\ left' = 0
    /\ UNCHANGED <<value, writing, pending, queue, scanned, cursor, inHand, startedPending,
                   announced, others, consumerVars>>

PostedOnce == FALSE

StillToStart == startedPending /\ QueueFull

(* No key is posted before SystemStarted.                                  *)
AfterStart == IF StillToStart THEN "Dispatch" ELSE "Flush"

postStarted ==
    /\ turn = "Start"
    /\ queue' = IF startedPending /\ ~QueueFull THEN Append(queue, SystemStarted) ELSE queue
    /\ startedPending' = StillToStart
    /\ turn' = AfterStart
    /\ left' = IF AfterStart = "Flush" THEN FlushBudget ELSE DispatchBudget
    /\ UNCHANGED <<value, writing, pending, cursor, scanned, inHand, announced, others,
                   consumerVars>>

(* tryDrain: the bit is cleared before the key is published.               *)
Flushing == turn = "Flush" /\ inHand = None

FromTheStart == IF scanned = KeyCount - 1 THEN 0 ELSE scanned + 1

NextCursor == (cursor + 1) % KeyCount

Scan ==
    /\ Flushing /\ left > 0 /\ scanned < KeyCount
    /\ inHand' = IF cursor \in pending THEN cursor ELSE None
    /\ pending' = pending \ {cursor}
    /\ cursor' = NextCursor /\ scanned' = scanned + 1
    /\ UNCHANGED <<value, writing, queue, turn, left, startedPending, announced, others,
                   consumerVars>>

Dropped == pending

PutBack == pending \cup {inHand}

Publish ==
    /\ turn = "Flush" /\ inHand # None /\ inHand' = None
    /\ IF QueueFull
       THEN pending' = PutBack /\ left' = 0 /\ UNCHANGED queue
       ELSE queue' = Append(queue, inHand) /\ left' = left - 1 /\ UNCHANGED pending
    /\ UNCHANGED <<value, writing, cursor, turn, scanned, startedPending, announced, others,
                   consumerVars>>

EndFlush ==
    /\ Flushing /\ (left = 0 \/ scanned = KeyCount)
    /\ turn' = "Dispatch" /\ left' = DispatchBudget /\ scanned' = 0
    /\ UNCHANGED <<value, writing, pending, cursor, queue, inHand, startedPending,
                   announced, others, consumerVars>>
-----------------------------------------------------------------------------
(* The loop of a consumer: its budget only lets other work in between.     *)
Drain(c) ==
    /\ taken[c] = None /\ mailbox[c] # {}
    /\ taken' = [taken EXCEPT ![c] = IF place[c] \in mailbox[c] THEN place[c] ELSE None]
    /\ mailbox' = [mailbox EXCEPT ![c] = @ \ {place[c]}]
    /\ place' = [place EXCEPT ![c] = (@ + 1) % KeyCount]
    /\ UNCHANGED <<value, writing, pending, queue, announced, looked, others, busVars>>

handleEvent(c) ==
    /\ taken[c] # None
    /\ looked' = [looked EXCEPT ![c][taken[c]] = value[taken[c]]]
    /\ taken' = [taken EXCEPT ![c] = None]
    /\ UNCHANGED <<value, writing, pending, queue, announced, mailbox, place, others, busVars>>
-----------------------------------------------------------------------------
DataInit ==
    /\ value = [k \in Keys |-> 0] /\ writing = {} /\ pending = {} /\ cursor = 0
    /\ queue = <<>> /\ turn = "Dispatch" /\ left = DispatchBudget /\ scanned = 0
    /\ inHand = None /\ startedPending = TRUE /\ announced = FALSE
    /\ mailbox = [c \in Consumers |-> {}] /\ place = [c \in Consumers |-> 0]
    /\ taken = [c \in Consumers |-> None] /\ looked = [c \in Consumers |-> value]
    /\ others = 0

BusStep ==
    dispatch \/ EndDispatch \/ postStarted \/ Scan \/ Publish \/ EndFlush

ConsumerStep(c) == Drain(c) \/ handleEvent(c)

DataNext ==
    \/ \E k \in Keys : WriteValue(k) \/ notifyChanged(k)
    \/ post \/ BusStep
    \/ \E c \in Consumers : ConsumerStep(c)

(* The tasks go on; a producer marks what it has written.                  *)
DataFairness ==
    /\ WF_dataVars(BusStep)
    /\ \A c \in Consumers : WF_dataVars(ConsumerStep(c))
    /\ \A k \in Keys : WF_dataVars(notifyChanged(k))

DataSpec == DataInit /\ [][DataNext]_dataVars /\ DataFairness
-----------------------------------------------------------------------------
(* The queue never holds more than its length, and the bus its budgets.    *)
DataTypeOK ==
    /\ value \in [Keys -> 0..1] /\ {writing, pending} \subseteq SUBSET Keys
    /\ cursor \in Keys /\ queue \in Seq(Keys \cup {SystemStarted, Other})
    /\ Len(queue) <= QUEUE_LENGTH
    /\ turn \in {"Dispatch", "Start", "Flush"} /\ left \in 0..(DispatchBudget + FlushBudget)
    /\ scanned \in 0..KeyCount /\ inHand \in Keys \cup {None}
    /\ mailbox \in [Consumers -> SUBSET Keys] /\ place \in [Consumers -> Keys]
    /\ taken \in [Consumers -> Keys \cup {None}] /\ looked \in [Consumers -> [Keys -> 0..1]]

InQueue(k) == \E i \in 1..Len(queue) : queue[i] = k

(* A consumer that has not seen the present value of a key is told of it:  *)
(* the key is on its way somewhere, however full the queue is and whatever *)
(* is written while it travels.                                            *)
NothingMissed ==
    \A c \in Consumers, k \in Keys : looked[c][k] # value[k] =>
        \/ k \in writing \cup pending \cup mailbox[c]
        \/ inHand = k \/ InQueue(k) \/ taken[c] = k

(* SystemStarted arrives, once and before any change of data.              *)
StartedFirst ==
    ~announced => /\ \A c \in Consumers, k \in Keys : looked[c][k] = 0 /\ k \notin mailbox[c]
                  /\ startedPending \/ InQueue(SystemStarted)

(* Who reads the data store by its events ends with the present values.    *)
EventsSound == DataTypeOK /\ NothingMissed /\ StartedFirst

(* A key that is marked gets its turn, also when another one changes all   *)
(* the time.                                                               *)
EachHasItsTurn ==
    \A k \in Keys : []<>(k \notin pending) /\ \A c \in Consumers : []<>(k \notin mailbox[c])
=============================================================================
