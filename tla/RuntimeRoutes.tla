--------------------------- MODULE RuntimeRoutes ---------------------------
(***************************************************************************)
(* RuntimeProducer: it publishes the values of the DataStore.  Changes are *)
(* collected by key and drained by the mqtt task, which also has messages  *)
(* built, publishes them, and refreshes some of them now and then.  When   *)
(* the client connects, its own task marks every snapshot and enqueues it, *)
(* while the mqtt task already publishes what is left of the connection    *)
(* before: the flags of a snapshot have two writers and no lock.           *)
(*                                                                         *)
(* The publish queue is reduced to what MqttQueue promises.  Its lock is   *)
(* free again when the producer hears what became of a message, so that a  *)
(* new job may exist by then.  Times are relative.  A sample is newer than *)
(* the one last published or not; the count of the initial snapshot, which *)
(* nobody listens to, is left out.                                         *)
(*                                                                         *)
(* The operators that no action uses (JoinIgnored, RefreshLost...) are      *)
(* mistakes easily made here, kept beside the definition they would        *)
(* replace: each breaks a property below.                                  *)
(***************************************************************************)
EXTENDS Integers, FiniteSets

CONSTANTS
    Snapshots, \* the routes
    Nobody,    \* no snapshot
    Throttled, \* those of class NumericThrottled
    Refreshed, \* those with a refreshIntervalMs
    Throttle,  \* NumericThrottleMs
    Refresh,   \* refreshIntervalMs
    MaxSkips   \* bound: requests refused, messages not built or not sent

ASSUME SnapshotAssumption ==
    Throttled \subseteq Snapshots /\ Refreshed \subseteq Snapshots /\ Nobody \notin Snapshots
ASSUME PeriodAssumption == Throttle \in Nat /\ Refresh \in Nat /\ Throttle <= Refresh
ASSUME SkipAssumption == MaxSkips \in Nat

VARIABLES
    snap,     \* the routes, with what their samples are compared to
    jobs,     \* their jobs in the publish queue
    dirty,    \* pendingDataKeys_: snapshots with a change not yet seen
    online,   \* is the state Connected
    mqttTask, \* what the mqtt task is at, with which snapshot
    client,   \* onConnect_ in the client's task: what it has left to do
    shown,    \* history: snapshots whose value was sent on this connection
    missed,   \* history: those refused that are not refreshed
    skips     \* bound: what MaxSkips counts

runtimeVars == <<snap, jobs, dirty, online, mqttTask, client, shown, missed, skips>>

Snapshot ==
    [pending : BOOLEAN, force : BOOLEAN, refreshQueued : BOOLEAN,
     newer : BOOLEAN, built : BOOLEAN, since : 0..Refresh]
QueueJob == [state : {"None", "Waiting", "Processing"}, again : BOOLEAN]

NoQueueJob == [state |-> "None", again |-> FALSE]
Free == [at |-> "Loop", on |-> Nobody]
-----------------------------------------------------------------------------
(* The publish queue: a request joins the job there is.                    *)
JoinIgnored(job) == [job EXCEPT !.state = IF @ = "None" THEN "Waiting" ELSE @]

JoinRequeued(job) == [job EXCEPT !.state = "Waiting", !.again = job.state = "Processing"]

Join(job) ==
    IF job.state = "Processing" THEN [job EXCEPT !.again = TRUE]
    ELSE [job EXCEPT !.state = "Waiting"]

MayEnqueue(s, ok) == IF ok THEN online ELSE ~online \/ jobs[s].state = "None"

(* A refusal while the connection holds is one of the bounded ones.        *)
Counted(n) ==
    /\ skips + n <= MaxSkips
    /\ skips' = skips + n

enqueueRoute(s, ok) ==
    /\ MayEnqueue(s, ok)
    /\ Counted(IF ok \/ ~online THEN 0 ELSE 1)
    /\ jobs' = IF ok THEN [jobs EXCEPT ![s] = Join(@)] ELSE jobs

EndedForgetful(job) == NoQueueJob

Ended(job) ==
    IF job.again THEN [state |-> "Waiting", again |-> FALSE] ELSE NoQueueJob
-----------------------------------------------------------------------------
(* The snapshots whose last publication anybody asks the time of.          *)
Timed == Throttled \cup Refreshed

(* A value changes; its key is collected.                                  *)
ValueChanges(s) ==
    /\ snap' = [snap EXCEPT ![s].newer = TRUE, ![s].built = FALSE]
    /\ dirty' = dirty \cup {s}
    /\ shown' = shown \ {s}
    /\ missed' = missed \ {s}
    /\ UNCHANGED <<jobs, online, mqttTask, client, skips>>

TimePasses ==
    /\ \E s \in Timed : snap[s].since < Refresh
    /\ snap' = [s \in Snapshots |->
                  [snap[s] EXCEPT !.since = IF s \in Timed /\ @ < Refresh THEN @ + 1 ELSE @]]
    /\ UNCHANGED <<jobs, dirty, online, mqttTask, client, shown, missed, skips>>

(* The client's task: onConnect_ sets the state, then onConnected marks    *)
(* one route and enqueues it, then the next.                               *)
ClientConnects ==
    /\ ~online /\ mqttTask = Free /\ client.left = {}
    /\ online' = TRUE
    /\ client' = [left |-> Snapshots, marked |-> {}]
    /\ shown' = {} /\ missed' = {}
    /\ UNCHANGED <<snap, jobs, dirty, mqttTask, skips>>

onConnectedMarks(s) ==
    /\ s \in client.left /\ client.marked = {}
    /\ snap' = [snap EXCEPT ![s].refreshQueued = FALSE,
                            ![s].pending = TRUE, ![s].force = TRUE]
    /\ client' = [client EXCEPT !.marked = {s}]
    /\ UNCHANGED <<jobs, dirty, online, mqttTask, shown, missed, skips>>

RefusedFor(s, ok) == IF ok \/ s \in Refreshed THEN missed ELSE missed \cup {s}

onConnectedEnqueues(s, ok) ==
    /\ s \in client.marked
    /\ enqueueRoute(s, ok)
    /\ client' = [left |-> client.left \ {s}, marked |-> {}]
    /\ missed' = RefusedFor(s, ok)
    /\ UNCHANGED <<snap, dirty, online, mqttTask, shown>>

ConnectionLost ==
    /\ online /\ client.left = {}
    /\ online' = FALSE
    /\ UNCHANGED <<snap, jobs, dirty, mqttTask, client, shown, missed, skips>>
-----------------------------------------------------------------------------
(* The mqtt task, between two messages.                                    *)
onDataChanged(s, ok) ==
    /\ mqttTask = Free /\ s \in dirty
    /\ dirty' = dirty \ {s}
    /\ snap' = [snap EXCEPT ![s].pending = TRUE]
    /\ enqueueRoute(s, ok)
    /\ missed' = RefusedFor(s, ok)
    /\ UNCHANGED <<online, mqttTask, client, shown>>

RefreshLost(ok) == TRUE

RefreshQueued(ok) == ok

ToRefresh(s) == s \in Refreshed /\ ~snap[s].refreshQueued /\ snap[s].since >= Refresh

tick(s, ok) ==
    /\ online /\ mqttTask = Free /\ ToRefresh(s)
    /\ snap' = [snap EXCEPT ![s].pending = TRUE, ![s].force = TRUE,
                            ![s].refreshQueued = RefreshQueued(ok)]
    /\ enqueueRoute(s, ok)
    /\ UNCHANGED <<dirty, online, mqttTask, client, shown, missed>>

TooEarly(r, s) == ~r.force /\ s \in Throttled /\ r.since < Throttle

Unchanged(r) == ~r.force /\ ~r.newer

Unwanted(r) == ~r.pending /\ ~r.force

(* The queue has taken the job of s: buildMessage.                         *)
Wait(s) ==
    /\ jobs' = [jobs EXCEPT ![s] = [state |-> "Waiting", again |-> FALSE]]
    /\ mqttTask' = Free

buildNotNeeded(s) ==
    /\ Unwanted(snap[s]) \/ (~TooEarly(snap[s], s) /\ Unchanged(snap[s]))
    /\ snap' = [snap EXCEPT ![s].pending = FALSE]
    /\ jobs' = [jobs EXCEPT ![s].state = "Processing"]
    /\ mqttTask' = [at |-> "Leave", on |-> s]
    /\ UNCHANGED skips

buildTooEarly(s) ==
    /\ ~Unwanted(snap[s]) /\ TooEarly(snap[s], s)
    /\ Wait(s)
    /\ UNCHANGED <<snap, skips>>

buildFails(s) ==
    /\ ~Unwanted(snap[s]) /\ ~TooEarly(snap[s], s)
    /\ Counted(1)
    /\ Wait(s)
    /\ UNCHANGED snap

buildReady(s) ==
    /\ ~Unwanted(snap[s]) /\ ~TooEarly(snap[s], s) /\ ~Unchanged(snap[s])
    /\ snap' = [snap EXCEPT ![s].built = TRUE]
    /\ jobs' = [jobs EXCEPT ![s].state = "Processing"]
    /\ mqttTask' = [at |-> "Send", on |-> s]
    /\ UNCHANGED skips

Build(s) ==
    /\ online /\ mqttTask = Free /\ jobs[s].state = "Waiting"
    /\ buildNotNeeded(s) \/ buildTooEarly(s) \/ buildFails(s) \/ buildReady(s)
    /\ UNCHANGED <<dirty, online, client, shown, missed>>

(* A message nobody needs leaves the queue, unless it was asked for again. *)
Leave(s) ==
    /\ mqttTask = [at |-> "Leave", on |-> s]
    /\ jobs' = [jobs EXCEPT ![s] = Ended(@)]
    /\ mqttTask' = IF jobs[s].again THEN Free ELSE [at |-> "Dropped", on |-> s]
    /\ UNCHANGED <<snap, dirty, online, client, shown, missed, skips>>

Send(s) ==
    /\ mqttTask = [at |-> "Send", on |-> s]
    /\ online
    /\ jobs' = [jobs EXCEPT ![s] = Ended(@)]
    /\ mqttTask' = [at |-> "Sent", on |-> s]
    /\ shown' = IF snap[s].built THEN shown \cup {s} ELSE shown
    /\ missed' = IF snap[s].built THEN missed \ {s} ELSE missed
    /\ UNCHANGED <<snap, dirty, online, client, skips>>

SendFails(s) ==
    /\ mqttTask = [at |-> "Send", on |-> s]
    /\ Counted(IF online THEN 1 ELSE 0)
    /\ Wait(s)
    /\ snap' = [snap EXCEPT ![s].built = FALSE]
    /\ UNCHANGED <<dirty, online, client, shown, missed>>

(* The queue is unlocked: the producer hears of it.                        *)
runtimePublished(s) ==
    /\ mqttTask = [at |-> "Sent", on |-> s]
    /\ snap' = [snap EXCEPT ![s] =
                  [@ EXCEPT !.newer = ~snap[s].built, !.built = FALSE, !.since = 0,
                            !.refreshQueued = FALSE, !.pending = FALSE, !.force = FALSE]]
    /\ mqttTask' = Free
    /\ UNCHANGED <<jobs, dirty, online, client, shown, missed, skips>>

runtimeDropped(s) ==
    /\ mqttTask = [at |-> "Dropped", on |-> s]
    /\ snap' = [snap EXCEPT ![s].pending = FALSE, ![s].refreshQueued = FALSE]
    /\ mqttTask' = Free
    /\ UNCHANGED <<jobs, dirty, online, client, shown, missed, skips>>
-----------------------------------------------------------------------------
RuntimeInit ==
    /\ snap = [s \in Snapshots |->
                 [pending |-> TRUE, force |-> TRUE, refreshQueued |-> FALSE,
                  newer |-> TRUE, built |-> FALSE, since |-> Refresh]]
    /\ jobs = [s \in Snapshots |-> NoQueueJob]
    /\ dirty = {}
    /\ online = FALSE
    /\ mqttTask = Free
    /\ client = [left |-> {}, marked |-> {}]
    /\ shown = {} /\ missed = {} /\ skips = 0

Sends(s) == Send(s) \/ SendFails(s) \/ Leave(s)
Hears(s) == runtimePublished(s) \/ runtimeDropped(s)

RuntimeNext ==
    \/ \E s \in Snapshots : ValueChanges(s) \/ onConnectedMarks(s)
    \/ \E s \in Snapshots, ok \in BOOLEAN :
          onConnectedEnqueues(s, ok) \/ onDataChanged(s, ok) \/ tick(s, ok)
    \/ TimePasses \/ ClientConnects \/ ConnectionLost
    \/ \E s \in Snapshots : Build(s) \/ Sends(s) \/ Hears(s)

(* Time passes, the client's task and the mqtt task go on, the loop sees   *)
(* every changed key and every refresh that is due, and the queue takes    *)
(* every accepted message (AcceptedAreBuilt of MqttQueue).                 *)
RuntimeFairness ==
    /\ WF_runtimeVars(TimePasses)
    /\ []<>(client.left = {}) /\ []<>(mqttTask = Free)
    /\ \A s \in Snapshots :
          /\ []<>(s \notin dirty)
          /\ []<>(~online \/ ~ToRefresh(s))
          /\ []<>(~online \/ jobs[s].state # "Waiting" \/ TooEarly(snap[s], s))

RuntimeSpec == RuntimeInit /\ [][RuntimeNext]_runtimeVars /\ RuntimeFairness
-----------------------------------------------------------------------------
(* Routes, throttles and jobs keep their types.                            *)
RuntimeTypeOK ==
    /\ snap \in [Snapshots -> Snapshot]
    /\ jobs \in [Snapshots -> QueueJob]
    /\ dirty \subseteq Snapshots
    /\ online \in BOOLEAN
    /\ mqttTask \in [at : {"Loop", "Send", "Sent", "Leave", "Dropped"},
                     on : Snapshots \cup {Nobody}]
    /\ client \in [left : SUBSET Snapshots, marked : SUBSET Snapshots]
    /\ shown \subseteq Snapshots /\ missed \subseteq Snapshots
    /\ skips \in 0..MaxSkips
    /\ \A s \in Snapshots : jobs[s].again => jobs[s].state = "Processing"

(* A refresh that is said to be queued is: whatever the two tasks do to    *)
(* the flag, it is never left set without a job that will clear it, which  *)
(* would end the refreshes of that value for good.                         *)
RefreshGoesOn ==
    \A s \in Snapshots :
        snap[s].refreshQueued => jobs[s].state # "None" \/ mqttTask.on = s

(* While the connection holds, a value that was not sent on it is about to *)
(* be: the client's task still has it to enqueue, its change is to be      *)
(* seen, a job that will find it wanted waits for it, or it was refused.   *)
AboutToBeBuilt(s) ==
    LET r == snap[s]
    IN  /\ jobs[s].state = "Waiting" \/ jobs[s].again
        /\ r.force \/ (r.pending /\ r.newer)

ValuesRemembered ==
    online => \A s \in (Snapshots \ Refreshed) \ (shown \cup missed) :
        \/ s \in client.left \cup dirty
        \/ AboutToBeBuilt(s)
        \/ mqttTask = [at |-> "Send", on |-> s]

(* No value is forgotten, and none stops being refreshed.                  *)
SnapshotsSound == RuntimeTypeOK /\ RefreshGoesOn /\ ValuesRemembered

(* Once the connection holds, the last change of a value is sent, although *)
(* a refused request is not repeated: by the refresh if the value has one. *)
ValueIsShown ==
    \A s \in Snapshots :
        <>[]online /\ <>[][~ValueChanges(s)]_runtimeVars => <>[](s \in shown \cup missed)
=============================================================================
