------------------------------ MODULE MqttQueue ------------------------------
(***************************************************************************)
(* The publish queue of MQTTModule (MQTTQueue.cpp): the slots of the jobs, *)
(* the three rings of references to them, and the mqtt task that builds    *)
(* and publishes one message per pass.                                     *)
(*                                                                         *)
(* A critical section of jobsMux_ is one step; between two of them, and    *)
(* while a message is built and handed to the MQTT client, any task may    *)
(* enqueue and the connection may come and go.                             *)
(*                                                                         *)
(* Time is the nowMs each pass reads: delays are what is left of them when *)
(* a pass begins.  A reference holds the token its slot had when it was    *)
(* pushed; old says that the slot has been given a later one since, so a   *)
(* reference of the model never comes back to life when the 16-bit token   *)
(* wraps.  DeadlineClock has the arithmetic of notBeforeMs.                *)
(*                                                                         *)
(* The operators that no action uses (TokensKept, BackToItsRing,           *)
(* ForgetfulEnd...) are mistakes easily made here, kept beside the         *)
(* definition they would replace: each breaks a property below.            *)
(***************************************************************************)
EXTENDS SequencesExt

CONSTANTS
    N,          \* MaxJobs
    Cap,        \* HighQueueCap, NormalQueueCap and LowQueueCap, by priority
    Messages,   \* pairs of a producer and a message of it
    NoMessage,
    Requests,   \* what producers enqueue: a message and a priority
    MinDelay,   \* RetryMinMs
    MaxDelay,   \* RetryMaxMs
    MaxRetries, \* the retries that are counted
    Pace        \* PublishDispatchIntervalMs

Slots == 1..N
Prios == 0..2
High == 2

ASSUME SizeAssumption == N \in Nat \ {0}
ASSUME CapAssumption == Cap \in [Prios -> Nat \ {0}]
ASSUME RequestsAssumption == Requests \subseteq [msg : Messages, priority : Prios]
ASSUME NoMessageAssumption == NoMessage \notin Messages
ASSUME DelayAssumption ==
    MinDelay \in Nat \ {0} /\ MaxDelay \in Nat /\ MinDelay <= MaxDelay
ASSUME MaxRetriesAssumption == MaxRetries \in Nat
ASSUME PaceAssumption == Pace \in Nat

VARIABLES
    q,          \* the slots, the rings and the retry cursors
    connected,  \* is state_ Connected
    task,       \* where the mqtt task is, with the slot it works on
    pace,       \* what is left of the interval between two publications
    owed,       \* history: messages accepted and not built since
    resting     \* history: what is left of the last failure's delay

queueVars == <<q, connected, task, pace, owed, resting>>

States == {"Free", "Waiting", "Queued", "Processing"}
Results == {"Ready", "RetryLater", "Permanent"}

Job == [state : States, msg : Messages \cup {NoMessage}, priority : Prios,
        queuedPrio : Prios, again : BOOLEAN, retries : 0..MaxRetries,
        delay : 0..MaxDelay]

Ref == [slot : Slots, old : BOOLEAN]

NoJob == [state |-> "Free", msg |-> NoMessage, priority |-> 0, queuedPrio |-> 0,
          again |-> FALSE, retries |-> 0, delay |-> 0]

TaskIdle == [at |-> "Idle", slot |-> 0, result |-> "Ready"]

Less(a, b) == IF a >= b THEN a - b ELSE 0
Larger(a, b) == IF a >= b THEN a ELSE b
Lesser(a, b) == IF a <= b THEN a ELSE b
-----------------------------------------------------------------------------
(* The rings.                                                              *)
RoomPastFull(k, p) == Cap[p] - Len(k.rings[p]) + 1

Room(k, p) == Cap[p] - Len(k.rings[p])

TokensKept(ring, S) == ring

Superseded(ring, S) ==
    [i \in DOMAIN ring |-> [ring[i] EXCEPT !.old = @ \/ ring[i].slot \in S]]

(* queueSlot_ of the slots of a sequence, one after the other: each gets a *)
(* new token and its reference is the last of ring p.                      *)
queueSlots(k, p, order) ==
    LET S == ToSet(order)
        refs == [i \in DOMAIN order |-> [slot |-> order[i], old |-> FALSE]]
    IN  [k EXCEPT
          !.jobs = [s \in Slots |->
                      IF s \in S THEN [k.jobs[s] EXCEPT !.state = "Queued", !.queuedPrio = p]
                      ELSE k.jobs[s]],
          !.rings = [r \in Prios |->
                       Superseded(k.rings[r], S) \o (IF r = p THEN refs ELSE <<>>)]]

Promotable(job) == job.state = "Queued" /\ job.priority > job.queuedPrio

BackToItsRing(job, p) ==
    /\ job.state = "Waiting" \/ Promotable(job)
    /\ job.queuedPrio = p
    /\ job.delay = 0

Retriable(job, p) ==
    /\ job.state = "Waiting" \/ Promotable(job)
    /\ job.priority = p
    /\ job.delay = 0

AlwaysFirst(s) == 1

AfterCursor(s) == (s % N) + 1

(* retryPendingJobsNoLock_: the slots that want ring p, from the cursor on *)
(* and in a circle, as many as the ring has room for.                      *)
RetriedAt(k, p) ==
    LET turn(s) == (s - k.cursor[p]) % N
        wanting == {s \in Slots : Retriable(k.jobs[s], p)}
        before(s) == {t \in wanting : turn(t) < turn(s)}
        order == [i \in 1..Lesser(Cardinality(wanting), Room(k, p)) |->
                    CHOOSE s \in wanting : Cardinality(before(s)) = i - 1]
    IN  IF order = <<>> THEN k
        ELSE [queueSlots(k, p, order) EXCEPT !.cursor[p] = AfterCursor(Last(order))]

retryPending(k) == RetriedAt(RetriedAt(RetriedAt(k, High), 1), 0)
-----------------------------------------------------------------------------
(* Producers, in any task.                                                 *)
CoalescesQueued(k, s, m) ==
    k.jobs[s].state \in {"Queued", "Waiting"} /\ k.jobs[s].msg = m

Coalesces(k, s, m) == k.jobs[s].state # "Free" /\ k.jobs[s].msg = m

MergedReset(job, p) ==
    [job EXCEPT !.priority = Larger(@, p), !.again = (job.state = "Processing"), !.delay = 0]

Merged(job, p) ==
    [job EXCEPT !.priority = Larger(@, p), !.again = (job.state = "Processing")]

coalesce(k, s, p) ==
    LET merged == [k EXCEPT !.jobs[s] = Merged(k.jobs[s], p)]
        prio == merged.jobs[s].priority
    IN  IF Promotable(merged.jobs[s]) /\ Room(k, prio) > 0
        THEN queueSlots(merged, prio, <<s>>)
        ELSE merged

admit(k, s, m, p) ==
    queueSlots([k EXCEPT !.jobs[s] = [NoJob EXCEPT !.msg = m, !.priority = p]], p, <<s>>)

FirstFree(s) ==
    q.jobs[s].state = "Free" /\ \A t \in 1..(s - 1) : q.jobs[t].state # "Free"

(* A message that has a job keeps it; a new one needs a slot and room in   *)
(* its ring, or is refused and nothing changes.  The connection is tested  *)
(* before the lock is taken: it may be gone by then.                       *)
Enqueue(r) ==
    LET mine == {s \in Slots : Coalesces(q, s, r.msg)}
    IN  /\ \/ \E s \in mine :
                 /\ \A t \in mine : s <= t
                 /\ q' = coalesce(q, s, r.priority)
           \/ /\ mine = {} /\ Room(q, r.priority) > 0
              /\ \E s \in Slots : FirstFree(s) /\ q' = admit(q, s, r.msg, r.priority)
        /\ owed' = owed \cup {r.msg}
        /\ UNCHANGED <<connected, task, pace, resting>>
-----------------------------------------------------------------------------
(* The mqtt task.                                                          *)
Valid(k, p, i) ==
    LET ref == k.rings[p][i]
        job == k.jobs[ref.slot]
    IN  job.state = "Queued" /\ ~ref.old /\ job.queuedPrio = p

(* The first n references of ring p are popped; a job that is not due goes *)
(* back to waiting.                                                        *)
Popped(k, p, n) ==
    LET parked == {k.rings[p][i].slot : i \in {j \in 1..n : Valid(k, p, j)}}
    IN  [k EXCEPT !.rings[p] = SubSeq(@, n + 1, Len(@)),
                  !.jobs = [s \in Slots |->
                              IF s \in parked THEN [k.jobs[s] EXCEPT !.state = "Waiting"]
                              ELSE k.jobs[s]]]

Takable(k, p) ==
    {i \in DOMAIN k.rings[p] : Valid(k, p, i) /\ k.jobs[k.rings[p][i].slot].delay = 0}

PoppedAll(k, p) == Popped(k, p, Len(k.rings[p]))

RingsDrained(k, p) ==
    CASE p = 2 -> k
      [] p = 1 -> PoppedAll(k, 2)
      [] p = 0 -> PoppedAll(PoppedAll(k, 2), 1)

(* dequeueNextJob_: nothing to take, or the first due job of the highest   *)
(* ring that has one; the room it leaves goes to the jobs that wait.       *)
FoundNothing(k) == \A p \in Prios : Takable(k, p) = {}

Found(k, p, i) ==
    /\ i \in Takable(k, p)
    /\ \A j \in Takable(k, p) : i <= j
    /\ \A r \in Prios : r > p => Takable(k, r) = {}

Taken(k, p, i) ==
    LET s == k.rings[p][i].slot
        popped == Popped(RingsDrained(k, p), p, i)
    IN  retryPending([popped EXCEPT !.jobs[s].state = "Processing"])

Later(k, e) == [k EXCEPT !.jobs = [s \in Slots |-> [k.jobs[s] EXCEPT !.delay = Less(@, e)]]]

(* processJobs_ up to the pacing test: a later clock, then the jobs that   *)
(* became due.                                                             *)
Pass(e) ==
    /\ connected /\ task = TaskIdle
    /\ q' = retryPending(Later(q, e))
    /\ pace' = Less(pace, e)
    /\ resting' = [m \in Messages |-> Less(resting[m], e)]
    /\ task' = IF Less(pace, e) > 0 THEN TaskIdle ELSE [TaskIdle EXCEPT !.at = "Pass"]
    /\ UNCHANGED <<connected, owed>>

Dequeue ==
    LET k == retryPending(q)
    IN  /\ task.at = "Pass"
        /\ \/ /\ FoundNothing(k)
              /\ q' = retryPending(PoppedAll(RingsDrained(k, 0), 0))
              /\ task' = TaskIdle
           \/ \E p \in Prios : \E i \in Takable(k, p) :
                 /\ Found(k, p, i)
                 /\ q' = Taken(k, p, i)
                 /\ task' = [TaskIdle EXCEPT !.at = "Build", !.slot = k.rings[p][i].slot]
        /\ UNCHANGED <<connected, pace, owed, resting>>

(* The producer builds the message from the state of this moment.          *)
BuildJob(result) ==
    /\ task.at = "Build"
    /\ task' = [task EXCEPT !.at = "Settle", !.result = result]
    /\ pace' = IF result = "Ready" THEN Pace ELSE pace
    /\ owed' = owed \ {q.jobs[task.slot].msg}
    /\ UNCHANGED <<q, connected, resting>>

Delay(retries) == Lesser(MinDelay * 2^retries, MaxDelay)

Readmitted(job) ==
    [job EXCEPT !.state = "Waiting", !.again = FALSE, !.retries = 0, !.delay = 0]

RestedJob(job) ==
    [job EXCEPT !.state = "Waiting", !.again = FALSE, !.delay = Delay(job.retries),
                !.retries = Lesser(@ + 1, MaxRetries)]

(* A message that was published, or whose producer gave up, leaves unless  *)
(* it was asked for again; one that failed rests.                          *)
ForgetfulEnd(job, result, published) ==
    IF published \/ result = "Permanent" THEN NoJob ELSE RestedJob(job)

EndedJob(job, result, published) ==
    IF published \/ result = "Permanent"
    THEN IF job.again THEN Readmitted(job) ELSE NoJob
    ELSE RestedJob(job)

Settle(published) ==
    LET s == task.slot
        job == q.jobs[s]
    IN  /\ task.at = "Settle"
        /\ published => connected /\ task.result = "Ready"
        /\ q' = retryPending([q EXCEPT !.jobs[s] = EndedJob(job, task.result, published)])
        /\ resting' = [resting EXCEPT ![job.msg] =
                         IF published \/ task.result = "Permanent" THEN @ ELSE Delay(job.retries)]
        /\ task' = TaskIdle
        /\ UNCHANGED <<connected, pace, owed>>

(* The connection, as the client's own task reports it.                    *)
Connection ==
    /\ connected' = ~connected
    /\ UNCHANGED <<q, task, pace, owed, resting>>
-----------------------------------------------------------------------------
(* Enqueue refuses everything before the first connection: it starts here. *)
QueueInit ==
    /\ q = [jobs |-> [s \in Slots |-> NoJob],
            rings |-> [p \in Prios |-> <<>>],
            cursor |-> [p \in Prios |-> 1]]
    /\ connected = TRUE
    /\ task = TaskIdle
    /\ pace = 0
    /\ owed = {}
    /\ resting = [m \in Messages |-> 0]

Passes == \E e \in 1..MaxDelay : Pass(e)
Builds == \E result \in Results : BuildJob(result)
Settles == \E published \in BOOLEAN : Settle(published)

QueueNext ==
    \/ \E r \in Requests : Enqueue(r)
    \/ Passes
    \/ Dequeue
    \/ Builds
    \/ Settles
    \/ Connection

(* The mqtt task loops and is never held for ever, which is weak fairness  *)
(* of each of its steps: the step before which it stands is enabled until  *)
(* it is taken.  Producers and the broker owe nothing.                     *)
QueueFairness ==
    /\ []<>~(connected /\ task = TaskIdle)
    /\ \A at \in {"Pass", "Build", "Settle"} : []<>(task.at # at)

QueueSpec == QueueInit /\ [][QueueNext]_queueVars /\ QueueFairness
-----------------------------------------------------------------------------
(* Slots and rings keep their types; no ring holds more than its capacity. *)
QueueTypeOK ==
    /\ q \in [jobs : [Slots -> Job], rings : [Prios -> Seq(Ref)], cursor : [Prios -> Slots]]
    /\ \A p \in Prios : Len(q.rings[p]) <= Cap[p]
    /\ connected \in BOOLEAN
    /\ task \in [at : {"Idle", "Pass", "Build", "Settle"}, slot : 0..N, result : Results]
    /\ pace \in 0..Pace
    /\ owed \subseteq Messages
    /\ resting \in [Messages -> 0..MaxDelay]

(* The queue's own check (snapshotQueueStatsNoLock_): a queued job has one *)
(* live reference, in the ring it is queued in, and every reference that   *)
(* is not obsolete is live, through promotions, refusals and the reuse of  *)
(* slots.                                                                  *)
References ==
    /\ \A p \in Prios : \A i \in DOMAIN q.rings[p] : ~q.rings[p][i].old => Valid(q, p, i)
    /\ \A s \in Slots : q.jobs[s].state = "Queued" =>
          LET p == q.jobs[s].queuedPrio
          IN  \E i \in DOMAIN q.rings[p] :
                 /\ Valid(q, p, i) /\ q.rings[p][i].slot = s
                 /\ \A j \in DOMAIN q.rings[p] :
                       Valid(q, p, j) /\ q.rings[p][j].slot = s => i = j

(* A message has one job, also while it is being built and sent, and only  *)
(* the task's own slot is being processed.                                 *)
OneJob ==
    /\ \A s, t \in Slots :
          q.jobs[s].state # "Free" /\ q.jobs[t].state # "Free"
          /\ q.jobs[s].msg = q.jobs[t].msg => s = t
    /\ \A s \in Slots : q.jobs[s].state = "Processing"
                          <=> task.at \in {"Build", "Settle"} /\ task.slot = s

(* A request that was accepted is built after it was made: whatever job it *)
(* was merged with, at whatever moment of it, will still be built.         *)
NothingLost ==
    \A m \in owed : \E s \in Slots :
        /\ q.jobs[s].msg = m
        /\ \/ q.jobs[s].state \in {"Queued", "Waiting"}
           \/ q.jobs[s].state = "Processing" /\ (task.at = "Build" \/ q.jobs[s].again)

(* The rings, the slots and what was accepted agree: a message accepted    *)
(* has one job, the job one reference.                                     *)
JobsSound == References /\ OneJob /\ NothingLost

(* A message that failed is not built again before its delay is over,      *)
(* whoever asks for it meanwhile and at whatever priority.                 *)
BackoffRespected ==
    [][task.at = "Build" /\ task'.at = "Settle" => resting[q.jobs[task.slot].msg] = 0]_queueVars

(* No job is taken while another of high priority is due (alarms, status,  *)
(* acknowledgements and actuators), whichever ring that one has a place in.*)
Takes == task.at = "Pass" /\ task'.at = "Build"
Due(s) == q.jobs[s].state \in {"Queued", "Waiting"} /\ q.jobs[s].delay = 0

UrgentFirst ==
    [][Takes => LET s == task'.slot
                IN  q.jobs[s].priority = High
                    \/ \A t \in Slots : Due(t) => q.jobs[t].priority < High]_queueVars

(* A message is taken when it is its turn: after its rest, and after what  *)
(* is urgent.                                                              *)
TakenInTurn == BackoffRespected /\ UrgentFirst

(* An accepted message is built, once the connection holds and nothing of  *)
(* a higher priority is left: no slot waits for ever for a place in a ring.*)
Undisturbed(m) ==
    /\ connected
    /\ \A s, t \in Slots :
          /\ q.jobs[s].msg = m /\ q.jobs[t].state # "Free"
          => q.jobs[t].priority <= q.jobs[s].priority

AcceptedAreBuilt ==
    \A m \in Messages : <>[]Undisturbed(m) => (m \in owed ~> m \notin owed)
=============================================================================
