--------------------------- MODULE SessionProofs ---------------------------
(***************************************************************************)
(* Proofs about the connection to the broker, its producers and the queue  *)
(* of what they publish, for any routes, snapshots, rings and bounds.      *)
(***************************************************************************)
EXTENDS ConfigRoutes, RuntimeRoutes, MqttConnection, MqttQueue, SequenceTheorems,
        FiniteSetTheorems, TLAPS
-----------------------------------------------------------------------------
(* The snapshots (RuntimeRoutes) *)

(* Who is at work for a snapshot, and what that says of its job and flags: *)
(* what was changed since the message was built is still to be seen, and   *)
(* what is about to be dropped is only asked for with the force flag.      *)
WorkOn(s) ==
    /\ mqttTask.at \in {"Send", "Leave"} => jobs[s].state = "Processing"
    /\ mqttTask.at \in {"Leave", "Dropped"} => (snap[s].pending => snap[s].force)
    /\ mqttTask.at \in {"Send", "Sent"} => (snap[s].built \/ s \in dirty)
    /\ mqttTask.at = "Sent" => (snap[s].built => s \in shown)

TaskAtWork ==
    /\ mqttTask.at = "Loop" => mqttTask = Free
    /\ mqttTask.on = Nobody => mqttTask = Free
    /\ \A s \in Snapshots : mqttTask.on = s => WorkOn(s)

(* What was not sent on this connection is wanted, as soon as the client's *)
(* task has marked it.                                                     *)
Wants(s) ==
    \/ snap[s].force
    \/ snap[s].newer /\ (snap[s].pending \/ s \in dirty)

StillWanted ==
    \A s \in Snapshots \ shown : s \in client.left \ client.marked \/ Wants(s)

(* Somebody will have it built.                                            *)
Served(s) ==
    \/ s \in client.left \cup dirty
    \/ jobs[s].state = "Waiting" \/ jobs[s].again
    \/ mqttTask = [at |-> "Send", on |-> s]

StillServed == \A s \in (Snapshots \ Refreshed) \ (shown \cup missed) : Served(s)

SnapshotInv ==
    /\ RuntimeTypeOK
    /\ client.marked \subseteq client.left
    /\ TaskAtWork
    /\ RefreshGoesOn
    /\ online => StillWanted /\ StillServed

-----------------------------------------------------------------------------
LEMMA SnapshotLemma ==
    /\ Nobody \notin Snapshots /\ Timed \subseteq Snapshots
    /\ Throttle \in Nat /\ Refresh \in Nat /\ MaxSkips \in Nat
    /\ Free.at = "Loop" /\ Free.on = Nobody
BY SnapshotAssumption, PeriodAssumption, SkipAssumption DEF Timed, Free

LEMMA SnapshotInvInit == RuntimeInit => SnapshotInv
<1> SUFFICES ASSUME RuntimeInit PROVE SnapshotInv
  OBVIOUS
<1>1. snap \in [Snapshots -> Snapshot] /\ jobs \in [Snapshots -> QueueJob]
  BY SnapshotLemma DEF RuntimeInit, Snapshot, QueueJob, NoQueueJob
<1>2. /\ mqttTask = Free /\ online = FALSE /\ client = [left |-> {}, marked |-> {}]
      /\ dirty = {} /\ shown = {} /\ missed = {} /\ skips = 0
      /\ \A s \in Snapshots : ~jobs[s].again /\ ~snap[s].refreshQueued
  BY DEF RuntimeInit, NoQueueJob
<1>a. mqttTask \in [at : {"Loop", "Send", "Sent", "Leave", "Dropped"},
                    on : Snapshots \cup {Nobody}]
  BY <1>2 DEF Free
<1>b. client \in [left : SUBSET Snapshots, marked : SUBSET Snapshots] /\ skips \in 0..MaxSkips
  BY <1>2, SnapshotLemma
<1>c. online \in BOOLEAN
  BY <1>2, Zenon
<1>3. RuntimeTypeOK
  BY <1>1, <1>2, <1>a, <1>b, <1>c, Zenon DEF RuntimeTypeOK
<1>4. TaskAtWork /\ RefreshGoesOn
  BY <1>2, SnapshotLemma DEF TaskAtWork, RefreshGoesOn, Free
<1> QED BY <1>2, <1>3, <1>4 DEF SnapshotInv

(* Nothing is lost when it is remembered and served.                       *)
LEMMA SnapshotInvImplies == SnapshotInv => SnapshotsSound
BY DEF SnapshotInv, SnapshotsSound, ValuesRemembered, StillWanted, StillServed, Wants, Served,
       AboutToBeBuilt, RuntimeTypeOK

(* A request joins the job of its snapshot and no other changes.           *)
LEMMA JoinLemma ==
    ASSUME NEW s \in Snapshots, NEW ok \in BOOLEAN, RuntimeTypeOK, enqueueRoute(s, ok)
    PROVE  /\ jobs' \in [Snapshots -> QueueJob] /\ skips' \in 0..MaxSkips
           /\ \A z \in Snapshots : jobs'[z].again => jobs'[z].state = "Processing"
           /\ \A z \in Snapshots : z # s => jobs'[z] = jobs[z]
           /\ ok => jobs'[s].state = "Waiting" \/ jobs'[s].again
           /\ ~ok => jobs' = jobs
           /\ jobs[s].state = "Processing" => jobs'[s].state = "Processing"
           /\ jobs[s].state = "Waiting" \/ jobs[s].again =>
                 jobs'[s].state = "Waiting" \/ jobs'[s].again
           /\ jobs[s].state # "None" => jobs'[s].state # "None"
<1>1. /\ jobs \in [Snapshots -> QueueJob] /\ skips \in 0..MaxSkips
      /\ \A z \in Snapshots : jobs[z].again => jobs[z].state = "Processing"
  BY DEF RuntimeTypeOK
<1>2. skips' \in 0..MaxSkips
  BY <1>1, SnapshotLemma DEF enqueueRoute, Counted
<1>3. jobs' = IF ok THEN [jobs EXCEPT ![s] = Join(jobs[s])] ELSE jobs
  BY DEF enqueueRoute
<1>4. /\ Join(jobs[s]) \in QueueJob
      /\ Join(jobs[s]).again => Join(jobs[s]).state = "Processing"
      /\ Join(jobs[s]).state = "Waiting" \/ Join(jobs[s]).again
      /\ jobs[s].state = "Processing" => Join(jobs[s]).state = "Processing"
      /\ Join(jobs[s]).state # "None"
  BY <1>1 DEF Join, QueueJob
<1> HIDE DEF Join
<1> QED BY <1>1, <1>2, <1>3, <1>4

LEMMA ValueKeeps ==
    ASSUME SnapshotInv, NEW s \in Snapshots, ValueChanges(s)
    PROVE  SnapshotInv'
<1>1. /\ snap' \in [Snapshots -> Snapshot]
      /\ snap'[s].newer /\ ~snap'[s].built
      /\ snap'[s].pending = snap[s].pending /\ snap'[s].force = snap[s].force
      /\ snap'[s].refreshQueued = snap[s].refreshQueued
      /\ \A z \in Snapshots : z # s => snap'[z] = snap[z]
  <2> DEFINE r == [snap[s] EXCEPT !.newer = TRUE, !.built = FALSE]
  <2>1. snap \in [Snapshots -> Snapshot] /\ snap[s] \in Snapshot
    BY DEF SnapshotInv, RuntimeTypeOK
  <2>2. /\ r \in Snapshot /\ r.newer /\ ~r.built
        /\ r.pending = snap[s].pending /\ r.force = snap[s].force
        /\ r.refreshQueued = snap[s].refreshQueued
    BY <2>1 DEF Snapshot
  <2>3. snap' = [snap EXCEPT ![s] = r]
    BY <2>1 DEF ValueChanges
  <2> HIDE DEF r
  <2> QED BY <2>1, <2>2, <2>3
<1>2. /\ dirty' = dirty \cup {s} /\ shown' = shown \ {s} /\ missed' = missed \ {s}
      /\ UNCHANGED <<jobs, online, mqttTask, client, skips>>
  BY DEF ValueChanges
<1>3. RuntimeTypeOK'
  BY <1>1, <1>2 DEF SnapshotInv, RuntimeTypeOK
<1>4. TaskAtWork'
  BY <1>1, <1>2 DEF SnapshotInv, TaskAtWork, WorkOn
<1>5. RefreshGoesOn'
  BY <1>1, <1>2 DEF SnapshotInv, RefreshGoesOn
<1>6. online => StillWanted'
  BY <1>1, <1>2 DEF SnapshotInv, StillWanted, Wants
<1>7. online => StillServed'
  BY <1>1, <1>2 DEF SnapshotInv, StillServed, Served
<1> QED BY <1>2, <1>3, <1>4, <1>5, <1>6, <1>7 DEF SnapshotInv

LEMMA TimeKeeps ==
    ASSUME SnapshotInv, TimePasses
    PROVE  SnapshotInv'
<1>1. /\ UNCHANGED <<jobs, dirty, online, mqttTask, client, shown, missed, skips>>
      /\ snap' = [s \in Snapshots |->
                  [snap[s] EXCEPT !.since = IF s \in Timed /\ @ < Refresh THEN @ + 1 ELSE @]]
  BY DEF TimePasses
<1>2. /\ snap \in [Snapshots -> Snapshot]
      /\ \A s \in Snapshots : snap[s] \in Snapshot /\ snap[s].since \in 0..Refresh
  BY DEF SnapshotInv, RuntimeTypeOK, Snapshot
<1>3. \A r \in Snapshot, n \in 0..Refresh : [r EXCEPT !.since = n] \in Snapshot
  BY DEF Snapshot
<1>4. ASSUME NEW s \in Snapshots
      PROVE  /\ snap'[s] \in Snapshot
             /\ snap'[s].pending = snap[s].pending /\ snap'[s].force = snap[s].force
             /\ snap'[s].newer = snap[s].newer /\ snap'[s].built = snap[s].built
             /\ snap'[s].refreshQueued = snap[s].refreshQueued
  <2> DEFINE n == IF s \in Timed /\ snap[s].since < Refresh THEN snap[s].since + 1
                  ELSE snap[s].since
  <2>1. n \in 0..Refresh
    BY <1>2, SnapshotLemma
  <2>2. snap'[s] = [snap[s] EXCEPT !.since = n]
    BY <1>1
  <2> HIDE DEF n
  <2>3. snap[s] \in Snapshot
    BY <1>2
  <2>4. snap'[s] \in Snapshot
    BY <1>3, <2>1, <2>2, <2>3
  <2> QED BY <2>2, <2>3, <2>4 DEF Snapshot
<1>5. snap' \in [Snapshots -> Snapshot]
  BY <1>1, <1>4
<1>6. RuntimeTypeOK'
  BY <1>1, <1>5 DEF SnapshotInv, RuntimeTypeOK
<1>7. TaskAtWork'
  BY <1>1, <1>4 DEF SnapshotInv, TaskAtWork, WorkOn
<1>8. RefreshGoesOn'
  BY <1>1, <1>4 DEF SnapshotInv, RefreshGoesOn
<1>9. online => StillWanted'
  BY <1>1, <1>4 DEF SnapshotInv, StillWanted, Wants
<1>10. online => StillServed'
  BY <1>1, <1>4 DEF SnapshotInv, StillServed, Served
<1> QED BY <1>1, <1>6, <1>7, <1>8, <1>9, <1>10 DEF SnapshotInv

LEMMA ClientKeeps ==
    ASSUME SnapshotInv,
           ClientConnects \/ ConnectionLost \/ \E s \in Snapshots : onConnectedMarks(s)
    PROVE  SnapshotInv'
<1>1. CASE ClientConnects
  BY <1>1, SnapshotLemma
  DEF SnapshotInv, ClientConnects, RuntimeTypeOK, TaskAtWork, WorkOn, Free, RefreshGoesOn,
      StillWanted, StillServed, Served
<1>2. CASE ConnectionLost
  BY <1>2 DEF SnapshotInv, ConnectionLost, RuntimeTypeOK, TaskAtWork, WorkOn, Free,
              RefreshGoesOn
<1>3. ASSUME NEW s \in Snapshots, onConnectedMarks(s)
      PROVE  SnapshotInv'
  <2> DEFINE r == [snap[s] EXCEPT !.refreshQueued = FALSE, !.pending = TRUE, !.force = TRUE]
  <2>a. snap' = [snap EXCEPT ![s] = r] /\ snap \in [Snapshots -> Snapshot]
    BY <1>3 DEF onConnectedMarks, SnapshotInv, RuntimeTypeOK
  <2>b. /\ r \in Snapshot /\ ~r.refreshQueued /\ r.pending /\ r.force
        /\ r.newer = snap[s].newer /\ r.built = snap[s].built
    BY <2>a DEF Snapshot
  <2> HIDE DEF r
  <2>1. /\ snap' \in [Snapshots -> Snapshot]
        /\ ~snap'[s].refreshQueued /\ snap'[s].pending /\ snap'[s].force
        /\ snap'[s].newer = snap[s].newer /\ snap'[s].built = snap[s].built
        /\ \A z \in Snapshots : z # s => snap'[z] = snap[z]
    BY <2>a, <2>b
  <2>2. /\ client' = [client EXCEPT !.marked = {s}] /\ s \in client.left /\ client.marked = {}
        /\ UNCHANGED <<jobs, dirty, online, mqttTask, shown, missed, skips>>
    BY <1>3 DEF onConnectedMarks
  <2>3. /\ client' \in [left : SUBSET Snapshots, marked : SUBSET Snapshots]
        /\ client'.left = client.left /\ client'.marked = {s}
    BY <2>2 DEF SnapshotInv, RuntimeTypeOK
  <2>4. RuntimeTypeOK'
    BY <2>1, <2>2, <2>3 DEF SnapshotInv, RuntimeTypeOK
  <2>5. TaskAtWork'
    BY <2>1, <2>2 DEF SnapshotInv, TaskAtWork, WorkOn
  <2>6. RefreshGoesOn'
    BY <2>1, <2>2 DEF SnapshotInv, RefreshGoesOn
  <2>7. online => StillWanted'
    BY <2>1, <2>2, <2>3 DEF SnapshotInv, StillWanted, Wants
  <2>8. online => StillServed'
    BY <2>1, <2>2, <2>3 DEF SnapshotInv, StillServed, Served
  <2> QED BY <2>2, <2>3, <2>4, <2>5, <2>6, <2>7, <2>8 DEF SnapshotInv
<1> QED BY <1>1, <1>2, <1>3

LEMMA EnqueueKeeps ==
    ASSUME SnapshotInv, NEW s \in Snapshots, NEW ok \in BOOLEAN, onConnectedEnqueues(s, ok)
    PROVE  SnapshotInv'
<1>1. /\ s \in client.marked /\ s \in client.left /\ enqueueRoute(s, ok)
      /\ client' = [left |-> client.left \ {s}, marked |-> {}]
      /\ missed' = RefusedFor(s, ok)
      /\ UNCHANGED <<snap, dirty, online, mqttTask, shown>>
  BY DEF onConnectedEnqueues, SnapshotInv
<1>2. RuntimeTypeOK
  BY DEF SnapshotInv
<1>3. /\ jobs' \in [Snapshots -> QueueJob] /\ skips' \in 0..MaxSkips
      /\ \A z \in Snapshots : jobs'[z].again => jobs'[z].state = "Processing"
      /\ \A z \in Snapshots : z # s => jobs'[z] = jobs[z]
      /\ ok => jobs'[s].state = "Waiting" \/ jobs'[s].again
      /\ ~ok => jobs' = jobs
      /\ jobs[s].state = "Processing" => jobs'[s].state = "Processing"
      /\ jobs[s].state # "None" => jobs'[s].state # "None"
  BY <1>1, <1>2, JoinLemma
<1>4. /\ missed' \subseteq Snapshots /\ missed \subseteq missed'
      /\ ~ok => s \in Refreshed \cup missed'
  BY <1>1, <1>2 DEF RefusedFor, RuntimeTypeOK
<1>5. client' \in [left : SUBSET Snapshots, marked : SUBSET Snapshots]
  BY <1>1, <1>2 DEF RuntimeTypeOK
<1>6. RuntimeTypeOK'
  BY <1>1, <1>2, <1>3, <1>4, <1>5 DEF RuntimeTypeOK
<1>7. TaskAtWork'
  BY <1>1, <1>3 DEF SnapshotInv, TaskAtWork, WorkOn
<1>8. RefreshGoesOn'
  BY <1>1, <1>3 DEF SnapshotInv, RefreshGoesOn
<1>9. online => StillWanted'
  BY <1>1 DEF SnapshotInv, StillWanted, Wants
<1>10. online => StillServed'
  BY <1>1, <1>3, <1>4 DEF SnapshotInv, StillServed, Served
<1> QED BY <1>1, <1>6, <1>7, <1>8, <1>9, <1>10 DEF SnapshotInv

LEMMA ChangedKeeps ==
    ASSUME SnapshotInv, NEW s \in Snapshots, NEW ok \in BOOLEAN, onDataChanged(s, ok)
    PROVE  SnapshotInv'
<1>1. /\ mqttTask = Free /\ s \in dirty /\ dirty' = dirty \ {s} /\ enqueueRoute(s, ok)
      /\ missed' = RefusedFor(s, ok)
      /\ UNCHANGED <<online, mqttTask, client, shown>>
  BY DEF onDataChanged
<1>2. RuntimeTypeOK
  BY DEF SnapshotInv
<1>3. /\ jobs' \in [Snapshots -> QueueJob] /\ skips' \in 0..MaxSkips
      /\ \A z \in Snapshots : jobs'[z].again => jobs'[z].state = "Processing"
      /\ \A z \in Snapshots : z # s => jobs'[z] = jobs[z]
      /\ ok => jobs'[s].state = "Waiting" \/ jobs'[s].again
      /\ ~ok => jobs' = jobs
      /\ jobs[s].state = "Processing" => jobs'[s].state = "Processing"
      /\ jobs[s].state # "None" => jobs'[s].state # "None"
  BY <1>1, <1>2, JoinLemma
<1>4. /\ missed' \subseteq Snapshots /\ missed \subseteq missed'
      /\ ~ok => s \in Refreshed \cup missed'
  BY <1>1, <1>2 DEF RefusedFor, RuntimeTypeOK
<1>5. /\ snap' \in [Snapshots -> Snapshot]
      /\ snap'[s].pending /\ snap'[s].force = snap[s].force /\ snap'[s].newer = snap[s].newer
      /\ snap'[s].refreshQueued = snap[s].refreshQueued
      /\ \A z \in Snapshots : z # s => snap'[z] = snap[z]
  <2> DEFINE r == [snap[s] EXCEPT !.pending = TRUE]
  <2>1. snap \in [Snapshots -> Snapshot] /\ snap[s] \in Snapshot
    BY <1>2 DEF RuntimeTypeOK
  <2>2. /\ r \in Snapshot /\ r.pending /\ r.force = snap[s].force
        /\ r.newer = snap[s].newer /\ r.refreshQueued = snap[s].refreshQueued
    BY <2>1 DEF Snapshot
  <2>3. snap' = [snap EXCEPT ![s] = r]
    BY <2>1 DEF onDataChanged
  <2> HIDE DEF r
  <2> QED BY <2>1, <2>2, <2>3
<1>6. RuntimeTypeOK'
  BY <1>1, <1>2, <1>3, <1>4, <1>5 DEF RuntimeTypeOK
<1>7. TaskAtWork'
  BY <1>1, SnapshotLemma DEF TaskAtWork, WorkOn
<1>8. RefreshGoesOn'
  BY <1>1, <1>3, <1>5 DEF SnapshotInv, RefreshGoesOn
<1>9. online => StillWanted'
  BY <1>1, <1>5 DEF SnapshotInv, StillWanted, Wants
<1>10. online => StillServed'
  BY <1>1, <1>3, <1>4 DEF SnapshotInv, StillServed, Served
<1> QED BY <1>1, <1>6, <1>7, <1>8, <1>9, <1>10 DEF SnapshotInv

LEMMA TickKeeps ==
    ASSUME SnapshotInv, NEW s \in Snapshots, NEW ok \in BOOLEAN, tick(s, ok)
    PROVE  SnapshotInv'
<1>1. /\ mqttTask = Free /\ s \in Refreshed /\ enqueueRoute(s, ok)
      /\ UNCHANGED <<dirty, online, mqttTask, client, shown, missed>>
  BY DEF tick, ToRefresh
<1>2. RuntimeTypeOK
  BY DEF SnapshotInv
<1>3. /\ jobs' \in [Snapshots -> QueueJob] /\ skips' \in 0..MaxSkips
      /\ \A z \in Snapshots : jobs'[z].again => jobs'[z].state = "Processing"
      /\ \A z \in Snapshots : z # s => jobs'[z] = jobs[z]
      /\ ok => jobs'[s].state = "Waiting" \/ jobs'[s].again
  BY <1>1, <1>2, JoinLemma
<1> DEFINE r == [snap[s] EXCEPT !.pending = TRUE, !.force = TRUE, !.refreshQueued = ok]
<1>4. snap' = [snap EXCEPT ![s] = r] /\ snap \in [Snapshots -> Snapshot]
  BY <1>2 DEF tick, RefreshQueued, RuntimeTypeOK
<1>5. r \in Snapshot /\ r.force /\ (r.refreshQueued => ok)
  BY <1>4 DEF Snapshot
<1> HIDE DEF r
<1>6. /\ snap' \in [Snapshots -> Snapshot] /\ snap'[s].force
      /\ snap'[s].refreshQueued => ok
      /\ \A z \in Snapshots : z # s => snap'[z] = snap[z]
  BY <1>4, <1>5
<1>7. RuntimeTypeOK'
  BY <1>1, <1>2, <1>3, <1>6 DEF RuntimeTypeOK
<1>8. TaskAtWork'
  BY <1>1, SnapshotLemma DEF TaskAtWork, WorkOn
<1>9. RefreshGoesOn'
  <2>1. jobs'[s].again => jobs'[s].state # "None"
    BY <1>3
  <2> QED BY <1>1, <1>3, <1>6, <2>1 DEF SnapshotInv, RefreshGoesOn
<1>10. online => StillWanted'
  BY <1>1, <1>6 DEF SnapshotInv, StillWanted, Wants
<1>11. online => StillServed'
  BY <1>1, <1>3 DEF SnapshotInv, StillServed, Served
<1> QED BY <1>1, <1>7, <1>8, <1>9, <1>10, <1>11 DEF SnapshotInv

LEMMA BuildKeeps ==
    ASSUME SnapshotInv, NEW s \in Snapshots, Build(s)
    PROVE  SnapshotInv'
<1>1. /\ online /\ mqttTask = Free /\ jobs[s].state = "Waiting"
      /\ UNCHANGED <<dirty, online, client, shown, missed>>
  BY DEF Build
<1>2. /\ RuntimeTypeOK /\ snap \in [Snapshots -> Snapshot] /\ jobs \in [Snapshots -> QueueJob]
      /\ skips \in 0..MaxSkips
      /\ \A z \in Snapshots : jobs[z].again => jobs[z].state = "Processing"
  BY DEF SnapshotInv, RuntimeTypeOK
<1>3. StillWanted /\ StillServed
  BY <1>1 DEF SnapshotInv
<1>4. CASE buildTooEarly(s) \/ buildFails(s)
  <2>1. /\ mqttTask' = mqttTask /\ snap' = snap
        /\ jobs' = [jobs EXCEPT ![s] = [state |-> "Waiting", again |-> FALSE]]
    BY <1>1, <1>4 DEF buildTooEarly, buildFails, Wait
  <2>2. skips' \in 0..MaxSkips
    BY <1>2, <1>4, SnapshotLemma DEF buildTooEarly, buildFails, Counted
  <2>3. /\ jobs' \in [Snapshots -> QueueJob] /\ jobs'[s].state = "Waiting"
        /\ \A z \in Snapshots : jobs'[z].again => jobs'[z].state = "Processing"
        /\ \A z \in Snapshots : z # s => jobs'[z] = jobs[z]
    BY <1>2, <2>1 DEF QueueJob
  <2>4. RuntimeTypeOK'
    BY <1>1, <1>2, <2>1, <2>2, <2>3 DEF RuntimeTypeOK
  <2>5. TaskAtWork'
    BY <1>1, <2>1, SnapshotLemma DEF TaskAtWork, WorkOn
  <2>6. RefreshGoesOn'
    BY <1>1, <2>1, <2>3 DEF SnapshotInv, RefreshGoesOn
  <2>7. StillWanted'
    BY <1>1, <1>3, <2>1 DEF StillWanted, Wants
  <2>8. StillServed'
    BY <1>1, <1>3, <2>1, <2>3 DEF StillServed, Served
  <2> QED BY <1>1, <2>4, <2>5, <2>6, <2>7, <2>8 DEF SnapshotInv
<1>5. CASE buildReady(s)
  <2>1. /\ mqttTask' = [at |-> "Send", on |-> s] /\ skips' = skips
        /\ jobs' = [jobs EXCEPT ![s].state = "Processing"]
        /\ snap' = [snap EXCEPT ![s].built = TRUE]
    BY <1>5 DEF buildReady
  <2>2. /\ jobs' \in [Snapshots -> QueueJob] /\ jobs'[s].state = "Processing"
        /\ \A z \in Snapshots : z # s => jobs'[z] = jobs[z]
    BY <1>2, <2>1 DEF QueueJob
  <2>3. /\ snap' \in [Snapshots -> Snapshot] /\ snap'[s].built
        /\ \A z \in Snapshots : /\ snap'[z].refreshQueued = snap[z].refreshQueued
                                /\ snap'[z].pending = snap[z].pending
                                /\ snap'[z].force = snap[z].force
                                /\ snap'[z].newer = snap[z].newer
    BY <1>2, <2>1 DEF Snapshot
  <2>4. RuntimeTypeOK'
    BY <1>1, <1>2, <2>1, <2>2, <2>3 DEF RuntimeTypeOK
  <2>5. TaskAtWork'
    BY <2>1, <2>2, <2>3, SnapshotLemma DEF TaskAtWork, WorkOn
  <2>6. RefreshGoesOn'
    BY <1>1, <2>1, <2>2, <2>3, SnapshotLemma DEF SnapshotInv, RefreshGoesOn
  <2>7. StillWanted'
    BY <1>1, <1>3, <2>3 DEF StillWanted, Wants
  <2>8. StillServed'
    BY <1>1, <1>3, <2>1, <2>2, SnapshotLemma DEF StillServed, Served
  <2> QED BY <1>1, <2>4, <2>5, <2>6, <2>7, <2>8 DEF SnapshotInv
<1>6. CASE buildNotNeeded(s)
  <2>1. /\ mqttTask' = [at |-> "Leave", on |-> s] /\ skips' = skips
        /\ jobs' = [jobs EXCEPT ![s].state = "Processing"]
        /\ snap' = [snap EXCEPT ![s].pending = FALSE]
    BY <1>6 DEF buildNotNeeded
  <2>2. /\ jobs' \in [Snapshots -> QueueJob] /\ jobs'[s].state = "Processing"
        /\ \A z \in Snapshots : z # s => jobs'[z] = jobs[z]
    BY <1>2, <2>1 DEF QueueJob
  <2>3. /\ snap' \in [Snapshots -> Snapshot] /\ ~snap'[s].pending
        /\ \A z \in Snapshots : /\ snap'[z].refreshQueued = snap[z].refreshQueued
                                /\ z # s => snap'[z].pending = snap[z].pending
                                /\ snap'[z].force = snap[z].force
                                /\ snap'[z].newer = snap[z].newer
    BY <1>2, <2>1 DEF Snapshot
  <2>4. RuntimeTypeOK'
    BY <1>1, <1>2, <2>1, <2>2, <2>3 DEF RuntimeTypeOK
  <2>5. TaskAtWork'
    BY <2>1, <2>2, <2>3, SnapshotLemma DEF TaskAtWork, WorkOn
  <2>6. RefreshGoesOn'
    BY <1>1, <2>1, <2>2, <2>3, SnapshotLemma DEF SnapshotInv, RefreshGoesOn
  <2>7. ~snap[s].force /\ ~(snap[s].pending /\ snap[s].newer)
    BY <1>6 DEF buildNotNeeded, Unwanted, Unchanged
  <2>8. StillWanted'
    BY <1>1, <1>3, <2>3, <2>7 DEF StillWanted, Wants
  <2>9. StillServed'
    <3>1. s \in client.left \cup dirty \cup shown
      BY <1>3, <2>7 DEF StillWanted, Wants
    <3> QED BY <1>1, <1>3, <2>1, <2>2, <3>1, SnapshotLemma DEF StillServed, Served
  <2> QED BY <1>1, <2>4, <2>5, <2>6, <2>8, <2>9 DEF SnapshotInv
<1> QED BY <1>4, <1>5, <1>6 DEF Build

(* The job of a message that leaves the queue.                             *)
LEMMA EndedLemma ==
    ASSUME NEW s \in Snapshots, RuntimeTypeOK, jobs' = [jobs EXCEPT ![s] = Ended(@)]
    PROVE  /\ jobs' \in [Snapshots -> QueueJob]
           /\ \A z \in Snapshots : jobs'[z].again => jobs'[z].state = "Processing"
           /\ \A z \in Snapshots : z # s => jobs'[z] = jobs[z]
           /\ jobs[s].again => jobs'[s].state = "Waiting"
           /\ ~jobs[s].again => jobs'[s].state = "None"
<1>1. /\ jobs \in [Snapshots -> QueueJob]
      /\ \A z \in Snapshots : jobs[z].again => jobs[z].state = "Processing"
  BY DEF RuntimeTypeOK
<1>2. /\ Ended(jobs[s]) \in QueueJob /\ ~Ended(jobs[s]).again
      /\ jobs[s].again => Ended(jobs[s]).state = "Waiting"
      /\ ~jobs[s].again => Ended(jobs[s]).state = "None"
  BY <1>1 DEF Ended, NoQueueJob, QueueJob
<1> HIDE DEF Ended
<1> QED BY <1>1, <1>2

LEMMA LeaveKeeps ==
    ASSUME SnapshotInv, NEW s \in Snapshots, Leave(s)
    PROVE  SnapshotInv'
<1>1. /\ mqttTask = [at |-> "Leave", on |-> s] /\ jobs' = [jobs EXCEPT ![s] = Ended(@)]
      /\ mqttTask' = IF jobs[s].again THEN Free ELSE [at |-> "Dropped", on |-> s]
      /\ UNCHANGED <<snap, dirty, online, client, shown, missed, skips>>
  BY DEF Leave
<1>2. RuntimeTypeOK
  BY DEF SnapshotInv
<1>3. /\ jobs' \in [Snapshots -> QueueJob]
      /\ \A z \in Snapshots : jobs'[z].again => jobs'[z].state = "Processing"
      /\ \A z \in Snapshots : z # s => jobs'[z] = jobs[z]
      /\ jobs[s].again => jobs'[s].state = "Waiting"
  BY <1>1, <1>2, EndedLemma
<1>4. /\ mqttTask' \in [at : {"Loop", "Send", "Sent", "Leave", "Dropped"},
                        on : Snapshots \cup {Nobody}]
      /\ mqttTask'.at \in {"Loop", "Dropped"}
      /\ mqttTask'.on \in Snapshots => mqttTask'.on = s
      /\ ~jobs[s].again => mqttTask'.on = s
      /\ mqttTask'.at = "Loop" => mqttTask' = Free
      /\ mqttTask'.on = Nobody => mqttTask' = Free
  BY <1>1, SnapshotLemma DEF Free
<1>5. /\ jobs[s].state = "Processing" /\ (snap[s].pending => snap[s].force)
  BY <1>1 DEF SnapshotInv, TaskAtWork, WorkOn
<1>6. RuntimeTypeOK'
  BY <1>1, <1>2, <1>3, <1>4 DEF RuntimeTypeOK
<1>7. TaskAtWork'
  BY <1>1, <1>4, <1>5 DEF TaskAtWork, WorkOn
<1>8. RefreshGoesOn'
  BY <1>1, <1>3, <1>4 DEF SnapshotInv, RefreshGoesOn
<1>9. online => StillWanted'
  BY <1>1 DEF SnapshotInv, StillWanted, Wants
<1>10. online => StillServed'
  BY <1>1, <1>3, <1>5 DEF SnapshotInv, StillServed, Served
<1> QED BY <1>1, <1>6, <1>7, <1>8, <1>9, <1>10 DEF SnapshotInv

LEMMA SendKeeps ==
    ASSUME SnapshotInv, NEW s \in Snapshots, Send(s)
    PROVE  SnapshotInv'
<1>1. /\ mqttTask = [at |-> "Send", on |-> s] /\ jobs' = [jobs EXCEPT ![s] = Ended(@)]
      /\ mqttTask' = [at |-> "Sent", on |-> s]
      /\ shown' = IF snap[s].built THEN shown \cup {s} ELSE shown
      /\ missed' = IF snap[s].built THEN missed \ {s} ELSE missed
      /\ UNCHANGED <<snap, dirty, online, client, skips>>
  BY DEF Send
<1>2. RuntimeTypeOK
  BY DEF SnapshotInv
<1>3. /\ jobs' \in [Snapshots -> QueueJob]
      /\ \A z \in Snapshots : jobs'[z].again => jobs'[z].state = "Processing"
      /\ \A z \in Snapshots : z # s => jobs'[z] = jobs[z]
  BY <1>1, <1>2, EndedLemma
<1>4. snap[s].built \/ s \in dirty
  BY <1>1 DEF SnapshotInv, TaskAtWork, WorkOn
<1>5. shown' \subseteq Snapshots /\ missed' \subseteq Snapshots
  BY <1>1, <1>2 DEF RuntimeTypeOK
<1>6. RuntimeTypeOK'
  BY <1>1, <1>2, <1>3, <1>5 DEF RuntimeTypeOK
<1>7. TaskAtWork'
  BY <1>1, <1>4, SnapshotLemma DEF TaskAtWork, WorkOn
<1>8. RefreshGoesOn'
  BY <1>1, <1>3 DEF SnapshotInv, RefreshGoesOn
<1>9. online => StillWanted'
  BY <1>1 DEF SnapshotInv, StillWanted, Wants
<1>10. online => StillServed'
  BY <1>1, <1>3, <1>4 DEF SnapshotInv, StillServed, Served
<1> QED BY <1>1, <1>6, <1>7, <1>8, <1>9, <1>10 DEF SnapshotInv

LEMMA SendFailsKeeps ==
    ASSUME SnapshotInv, NEW s \in Snapshots, SendFails(s)
    PROVE  SnapshotInv'
<1>1. /\ mqttTask = [at |-> "Send", on |-> s] /\ mqttTask' = Free
      /\ jobs' = [jobs EXCEPT ![s] = [state |-> "Waiting", again |-> FALSE]]
      /\ snap' = [snap EXCEPT ![s].built = FALSE]
      /\ UNCHANGED <<dirty, online, client, shown, missed>>
  BY DEF SendFails, Wait
<1>2. RuntimeTypeOK /\ skips \in 0..MaxSkips
  BY DEF SnapshotInv, RuntimeTypeOK
<1>3. skips' \in 0..MaxSkips
  BY <1>2, SnapshotLemma DEF SendFails, Counted
<1>4. /\ jobs' \in [Snapshots -> QueueJob] /\ jobs'[s].state = "Waiting"
      /\ \A z \in Snapshots : jobs'[z].again => jobs'[z].state = "Processing"
      /\ \A z \in Snapshots : z # s => jobs'[z] = jobs[z]
  BY <1>1, <1>2 DEF RuntimeTypeOK, QueueJob
<1>5. /\ snap' \in [Snapshots -> Snapshot]
      /\ \A z \in Snapshots : /\ snap'[z].refreshQueued = snap[z].refreshQueued
                              /\ snap'[z].pending = snap[z].pending
                              /\ snap'[z].force = snap[z].force
                              /\ snap'[z].newer = snap[z].newer
  <2> DEFINE r == [snap[s] EXCEPT !.built = FALSE]
  <2>1. snap \in [Snapshots -> Snapshot] /\ snap[s] \in Snapshot
    BY <1>2 DEF RuntimeTypeOK
  <2>2. /\ r \in Snapshot /\ r.refreshQueued = snap[s].refreshQueued
        /\ r.pending = snap[s].pending /\ r.force = snap[s].force /\ r.newer = snap[s].newer
    BY <2>1 DEF Snapshot
  <2>3. snap' = [snap EXCEPT ![s] = r]
    BY <1>1
  <2> HIDE DEF r
  <2> QED BY <2>1, <2>2, <2>3
<1>6. mqttTask' \in [at : {"Loop", "Send", "Sent", "Leave", "Dropped"},
                     on : Snapshots \cup {Nobody}]
  BY <1>1 DEF Free
<1>7. RuntimeTypeOK'
  BY <1>1, <1>2, <1>3, <1>4, <1>5, <1>6 DEF RuntimeTypeOK
<1>8. TaskAtWork'
  BY <1>1, SnapshotLemma DEF TaskAtWork, WorkOn
<1>9. RefreshGoesOn'
  BY <1>1, <1>4, <1>5 DEF SnapshotInv, RefreshGoesOn
<1>10. online => StillWanted'
  BY <1>1, <1>5 DEF SnapshotInv, StillWanted, Wants
<1>11. online => StillServed'
  BY <1>1, <1>4 DEF SnapshotInv, StillServed, Served
<1> QED BY <1>1, <1>7, <1>8, <1>9, <1>10, <1>11 DEF SnapshotInv

LEMMA PublishedKeeps ==
    ASSUME SnapshotInv, NEW s \in Snapshots, runtimePublished(s)
    PROVE  SnapshotInv'
<1> DEFINE r == [snap[s] EXCEPT !.newer = ~snap[s].built, !.built = FALSE, !.since = 0,
                                !.refreshQueued = FALSE, !.pending = FALSE, !.force = FALSE]
<1>1. /\ mqttTask = [at |-> "Sent", on |-> s] /\ mqttTask' = Free
      /\ snap' = [snap EXCEPT ![s] = r]
      /\ UNCHANGED <<jobs, dirty, online, client, shown, missed, skips>>
  BY DEF runtimePublished
<1>2. RuntimeTypeOK /\ snap \in [Snapshots -> Snapshot]
  BY DEF SnapshotInv, RuntimeTypeOK
<1>a. snap[s] \in Snapshot /\ snap[s].built \in BOOLEAN /\ 0 \in 0..Refresh
  BY <1>2, SnapshotLemma DEF Snapshot
<1>b. ASSUME snap[s].built
      PROVE  r \in Snapshot /\ ~r.newer /\ ~r.refreshQueued
  <2>1. r = [snap[s] EXCEPT !.newer = FALSE, !.built = FALSE, !.since = 0,
                            !.refreshQueued = FALSE, !.pending = FALSE, !.force = FALSE]
    BY <1>b
  <2> HIDE DEF r
  <2>2. r \in Snapshot /\ ~r.newer /\ ~r.refreshQueued
    BY <1>a, <2>1 DEF Snapshot
  <2> QED BY <1>b, <2>2
<1>c. ASSUME ~snap[s].built
      PROVE  r \in Snapshot /\ r.newer /\ ~r.refreshQueued
  <2>1. r = [snap[s] EXCEPT !.newer = TRUE, !.built = FALSE, !.since = 0,
                            !.refreshQueued = FALSE, !.pending = FALSE, !.force = FALSE]
    BY <1>c
  <2> HIDE DEF r
  <2>2. r \in Snapshot /\ r.newer /\ ~r.refreshQueued
    BY <1>a, <2>1 DEF Snapshot
  <2> QED BY <1>c, <2>2
<1>3. r \in Snapshot /\ (r.newer <=> ~snap[s].built) /\ ~r.refreshQueued
  BY <1>b, <1>c
<1> HIDE DEF r
<1>4. /\ snap' \in [Snapshots -> Snapshot] /\ ~snap'[s].refreshQueued
      /\ snap'[s].newer <=> ~snap[s].built
      /\ \A z \in Snapshots : z # s => snap'[z] = snap[z]
  BY <1>1, <1>2, <1>3
<1>5. (snap[s].built \/ s \in dirty) /\ (snap[s].built => s \in shown)
  BY <1>1 DEF SnapshotInv, TaskAtWork, WorkOn
<1>6. mqttTask' \in [at : {"Loop", "Send", "Sent", "Leave", "Dropped"},
                     on : Snapshots \cup {Nobody}]
  BY <1>1 DEF Free
<1>7. RuntimeTypeOK'
  BY <1>1, <1>2, <1>4, <1>6 DEF RuntimeTypeOK
<1>8. TaskAtWork'
  BY <1>1, SnapshotLemma DEF TaskAtWork, WorkOn
<1>9. RefreshGoesOn'
  BY <1>1, <1>4 DEF SnapshotInv, RefreshGoesOn
<1>10. online => StillWanted'
  BY <1>1, <1>4, <1>5 DEF SnapshotInv, StillWanted, Wants
<1>11. online => StillServed'
  BY <1>1 DEF SnapshotInv, StillServed, Served
<1> QED BY <1>1, <1>7, <1>8, <1>9, <1>10, <1>11 DEF SnapshotInv

LEMMA DroppedKeeps ==
    ASSUME SnapshotInv, NEW s \in Snapshots, runtimeDropped(s)
    PROVE  SnapshotInv'
<1> DEFINE r == [snap[s] EXCEPT !.pending = FALSE, !.refreshQueued = FALSE]
<1>1. /\ mqttTask = [at |-> "Dropped", on |-> s] /\ mqttTask' = Free
      /\ UNCHANGED <<jobs, dirty, online, client, shown, missed, skips>>
  BY DEF runtimeDropped
<1>2. RuntimeTypeOK /\ snap \in [Snapshots -> Snapshot] /\ snap' = [snap EXCEPT ![s] = r]
  BY DEF SnapshotInv, RuntimeTypeOK, runtimeDropped
<1>3. /\ r \in Snapshot /\ ~r.refreshQueued
      /\ r.force = snap[s].force /\ r.newer = snap[s].newer
  BY <1>2 DEF Snapshot
<1> HIDE DEF r
<1>4. /\ snap' \in [Snapshots -> Snapshot] /\ ~snap'[s].refreshQueued
      /\ snap'[s].force = snap[s].force /\ snap'[s].newer = snap[s].newer
      /\ \A z \in Snapshots : z # s => snap'[z] = snap[z]
  BY <1>2, <1>3
<1>5. snap[s].pending => snap[s].force
  BY <1>1 DEF SnapshotInv, TaskAtWork, WorkOn
<1>6. mqttTask' \in [at : {"Loop", "Send", "Sent", "Leave", "Dropped"},
                     on : Snapshots \cup {Nobody}]
  BY <1>1 DEF Free
<1>7. RuntimeTypeOK'
  BY <1>1, <1>2, <1>4, <1>6 DEF RuntimeTypeOK
<1>8. TaskAtWork'
  BY <1>1, SnapshotLemma DEF TaskAtWork, WorkOn
<1>9. RefreshGoesOn'
  BY <1>1, <1>4 DEF SnapshotInv, RefreshGoesOn
<1>10. online => StillWanted'
  BY <1>1, <1>4, <1>5 DEF SnapshotInv, StillWanted, Wants
<1>11. online => StillServed'
  BY <1>1 DEF SnapshotInv, StillServed, Served
<1> QED BY <1>1, <1>7, <1>8, <1>9, <1>10, <1>11 DEF SnapshotInv

LEMMA SnapshotStep ==
    ASSUME SnapshotInv, [RuntimeNext]_runtimeVars
    PROVE  SnapshotInv'
<1>1. CASE UNCHANGED runtimeVars
  BY <1>1 DEF runtimeVars, SnapshotInv, RuntimeTypeOK, TaskAtWork, WorkOn, RefreshGoesOn,
              StillWanted, Wants, StillServed, Served
<1>2. CASE RuntimeNext
  BY <1>2, ValueKeeps, TimeKeeps, ClientKeeps, EnqueueKeeps, ChangedKeeps, TickKeeps,
     BuildKeeps, LeaveKeeps, SendKeeps, SendFailsKeeps, PublishedKeeps, DroppedKeeps
  DEF RuntimeNext, Sends, Hears
<1> QED BY <1>1, <1>2

(* Whatever the client's task and the mqtt task do to the flags of a       *)
(* snapshot at the same time, without a lock, no value is forgotten and no *)
(* refresh ends for good (RuntimeProducer).                                *)
THEOREM SnapshotsCorrect == RuntimeSpec => []SnapshotsSound
<1>1. RuntimeSpec => []SnapshotInv
  BY SnapshotInvInit, SnapshotStep, PTL DEF RuntimeSpec
<1> QED BY <1>1, SnapshotInvImplies, PTL

-----------------------------------------------------------------------------
(* The connection (MqttConnection) *)

(* What is left of a list of accesses: they come in the order of the       *)
(* following ranks, each at most once.                                     *)
Rank(op) ==
    CASE op = "Dirty" -> 0 [] op = "Unsuppress" -> 1 [] op = "Ensure" -> 2
      [] op = "Suppress" -> 3 [] op = "Stop" -> 4 [] op = "Joined" -> 5
      [] op = "Destroy" -> 6 [] op = "Read" -> 7 [] op = "Clean" -> 8
      [] op = "Dial" -> 9 [] op = "State" -> 10 [] op = "Ready" -> 11
      [] OTHER -> 12

InOrder(l) == \A i, j \in 1..Len(l) : i < j => Rank(l[i].op) < Rank(l[j].op)
Lists == {l \in Seq(Accesses) : InOrder(l)}

Holds(l, op) == \E i \in 1..Len(l) : l[i].op = op
Aims(l, s) == \E i \in 1..Len(l) : l[i].op = "State" /\ l[i].to = s

Has(t, op) == Holds(todo[t], op)
WillSet(t, s) == Aims(todo[t], s)

Off == session \in {"None", "Stopped"}

(* What each task may have left: only the client's says Connected, only    *)
(* the loop says Disabled, dials or destroys.                              *)
OwnAccesses ==
    /\ todo \in [Tasks -> Lists]
    /\ \A op \in {"Dirty", "Lost"} : ~Has("loop", op)
    /\ \A op \in {"Unsuppress", "Ensure", "Destroy", "Read", "Clean", "Dial", "Lost"} :
          ~Has("event", op)
    /\ \A op \in {"Dirty", "Ensure", "Suppress", "Stop", "Joined", "Destroy", "Read", "Clean",
                  "Dial"} : ~Has("client", op)
    /\ ~WillSet("loop", "Connected")
    /\ \A s \in MQTTState : WillSet("event", s) => s = "WaitingNetwork"
    /\ ~WillSet("client", "Disabled")

(* A stop is followed by a state; a client is destroyed once it is stopped *)
(* and its last event handled; one is made when there is none; and there   *)
(* is one when it dials.                                                   *)
StopsEnd ==
    \A t \in {"loop", "event"} :
        /\ Has(t, "Suppress") => Has(t, "Stop")
        /\ Has(t, "Stop") => Has(t, "State") \/ Has(t, "Dial")

Makes ==
    /\ Has("loop", "Destroy") => Has("loop", "Read")
    /\ Has("loop", "Read") => Has("loop", "Dial")
    /\ Has("loop", "Destroy") /\ Has("loop", "Stop") => Has("loop", "Joined")
    /\ Has("loop", "Destroy") => Has("loop", "Stop") \/ Off
    /\ Has("loop", "Destroy") => Has("loop", "Joined") \/ Idle("client")
    /\ Has("loop", "Read") => Has("loop", "Destroy") \/ session = "None"
    /\ Has("loop", "Dial") => Has("loop", "Read") \/ session # "None"
    /\ session = "None" => Idle("client")
    /\ Has("loop", "Ensure") => ~Has("loop", "Stop")

(* A module that is disabled, or about to say so, dials no more.           *)
StaysOff ==
    /\ state = "Disabled" => Off
    /\ state = "Disabled" \/ WillSet("loop", "Disabled") =>
          ~Has("loop", "Ensure") /\ ~Has("loop", "Dial")
    /\ WillSet("loop", "Disabled") => Has("loop", "Stop") \/ Off

(* Somebody will overwrite the state with another one than Connected.      *)
Writes(t) == Has(t, "State") \/ Has(t, "Dial") \/ Has(t, "Ensure")

Overwritten ==
    \/ Writes("loop") \/ Writes("event")
    \/ WillSet("client", "ErrorWait")
    \/ Has("client", "Lost") /\ ~suppress

(* What is not connected any more does not stay Connected; the end of a    *)
(* connection is only ignored when somebody stops the client.              *)
EndsSeen ==
    /\ WillSet("client", "Connected") => session = "Up"
    /\ state = "Connected" => session = "Up" \/ Overwritten
    /\ session = "Up" /\ suppress =>
          Has("client", "Unsuppress") \/ Has("loop", "Stop") \/ Has("event", "Stop")

ConnectionRanges ==
    /\ state \in MQTTState /\ session \in Sessions
    /\ troubles \in 0..MaxTroubles

ConnectionFlags ==
    /\ ready \in BOOLEAN /\ enabled \in BOOLEAN /\ suppress \in BOOLEAN /\ changed \in BOOLEAN
    /\ clientConfigDirty \in BOOLEAN /\ stale \in BOOLEAN
    /\ net \in [real : BOOLEAN, seen : BOOLEAN, key : BOOLEAN]

ConnectionInv ==
    ConnectionRanges /\ OwnAccesses /\ StopsEnd /\ Makes /\ StaysOff /\ EndsSeen

-----------------------------------------------------------------------------
Ops == {"Dirty", "Unsuppress", "Ensure", "Suppress", "Stop", "Joined", "Destroy", "Read",
        "Clean", "Dial", "State", "Ready", "Lost"}

LEMMA RankLemma ==
    /\ \A a \in Accesses : a.op \in Ops /\ (a.op \in {"State", "Ready"} => a.to \in MQTTState)
    /\ \A op \in Ops : Rank(op) \in 0..12
BY DEF Accesses, Ops, Rank

LEMMA ListLemma ==
    ASSUME NEW l \in Lists
    PROVE  /\ l \in Seq(Accesses) /\ Len(l) \in Nat
           /\ \A i \in 1..Len(l) : l[i] \in Accesses /\ l[i].op \in Ops /\ Rank(l[i].op) \in 0..12
           /\ l = <<>> <=> Len(l) = 0
BY RankLemma DEF Lists

(* The next access of a list, and what it leaves.                          *)
LEMMA HeadLemma ==
    ASSUME NEW l \in Lists, l # <<>>
    PROVE  /\ Head(l) \in Accesses /\ Head(l) = l[1] /\ Len(l) \in Nat \ {0}
           /\ Holds(l, Head(l).op)
           /\ Head(l).op = "State" => Aims(l, Head(l).to) /\ Head(l).to \in MQTTState
           /\ \A op \in Ops : Holds(l, op) => Rank(Head(l).op) <= Rank(op)
<1>1. /\ Head(l) = l[1] /\ Len(l) \in Nat \ {0} /\ Head(l) \in Accesses
  BY ListLemma
<1>a. \A i \in 1..Len(l) : Rank(l[i].op) \in 0..12
  BY ListLemma
<1>b. \A i \in 1..Len(l) : 1 < i => Rank(l[1].op) < Rank(l[i].op)
  BY <1>1 DEF Lists, InOrder
<1>3. 1 \in 1..Len(l)
  BY <1>1
<1>2. ASSUME NEW i \in 1..Len(l) PROVE Rank(l[1].op) <= Rank(l[i].op)
  <2>1. Rank(l[1].op) \in Int /\ Rank(l[i].op) \in Int
    BY <1>a, <1>3
  <2>2. CASE i = 1
    BY <2>1, <2>2
  <2>3. CASE i # 1
    <3>1. 1 < i
      BY <1>1, <2>3
    <3> QED BY <1>b, <2>1, <3>1
  <2> QED BY <2>2, <2>3
<1>4. Holds(l, Head(l).op) /\ (Head(l).op = "State" => Aims(l, Head(l).to))
  BY <1>1, <1>3 DEF Holds, Aims
<1>5. \A op \in Ops : Holds(l, op) => Rank(Head(l).op) <= Rank(op)
  BY <1>1, <1>2 DEF Holds
<1> QED BY <1>1, <1>4, <1>5, RankLemma

LEMMA TailLemma ==
    ASSUME NEW l \in Lists, l # <<>>
    PROVE  /\ Tail(l) \in Lists
           /\ \A op \in Ops : Holds(Tail(l), op) <=> Holds(l, op) /\ op # Head(l).op
           /\ \A s \in MQTTState : Aims(Tail(l), s) => Aims(l, s)
           /\ \A s : Aims(l, s) /\ Head(l).op # "State" => Aims(Tail(l), s)
<1>1. /\ l \in Seq(Accesses) /\ Len(l) \in Nat \ {0} /\ Head(l) = l[1]
      /\ Tail(l) \in Seq(Accesses) /\ Len(Tail(l)) = Len(l) - 1
      /\ \A i \in 1..Len(Tail(l)) : Tail(l)[i] = l[i + 1]
  BY ListLemma
<1>2. InOrder(l)
  BY DEF Lists
<1> DEFINE m == Tail(l)
<1>3. \A i \in 1..Len(m) : i + 1 \in 1..Len(l) /\ m[i] = l[i + 1]
  BY <1>1
<1>4. \A i \in 2..Len(l) : i - 1 \in 1..Len(m) /\ m[i - 1] = l[i]
  BY <1>1
<1>5. m \in Seq(Accesses)
  BY <1>1
<1> HIDE DEF m
<1>6. InOrder(m)
  BY <1>1, <1>2, <1>3, <1>5 DEF InOrder
<1>7. \A s \in MQTTState : Aims(m, s) => Aims(l, s)
  BY <1>3 DEF Aims
<1>9. \A s : Aims(l, s) /\ l[1].op # "State" => Aims(m, s)
  BY <1>1, <1>4 DEF Aims
<1>8. ASSUME NEW op \in Ops
      PROVE  Holds(m, op) <=> Holds(l, op) /\ op # l[1].op
  <2>1. Holds(m, op) => Holds(l, op)
    BY <1>3 DEF Holds
  <2>2. Holds(m, op) => op # l[1].op
    <3>1. \A i \in 2..Len(l) : Rank(l[1].op) < Rank(l[i].op)
      BY <1>1, <1>2 DEF InOrder
    <3>2. \A i \in 1..Len(l) : Rank(l[i].op) \in Int
      BY ListLemma
    <3>3. \A i \in 2..Len(l) : l[1].op # l[i].op
      BY <1>1, <3>1, <3>2
    <3> QED BY <1>1, <1>3, <3>3 DEF Holds
  <2>3. Holds(l, op) /\ op # l[1].op => Holds(m, op)
    BY <1>1, <1>4 DEF Holds
  <2> QED BY <2>1, <2>2, <2>3
<1> QED BY <1>1, <1>5, <1>6, <1>7, <1>8, <1>9 DEF Lists, m

(* Two lists one after the other.                                          *)
LEMMA ConcatLemma ==
    ASSUME NEW a \in Lists, NEW b \in Lists,
           \A i \in 1..Len(a), j \in 1..Len(b) : Rank(a[i].op) < Rank(b[j].op)
    PROVE  /\ a \o b \in Lists
           /\ \A op : Holds(a \o b, op) <=> Holds(a, op) \/ Holds(b, op)
           /\ \A s : Aims(a \o b, s) <=> Aims(a, s) \/ Aims(b, s)
<1> DEFINE c == a \o b
<1>1. /\ a \in Seq(Accesses) /\ b \in Seq(Accesses) /\ Len(a) \in Nat /\ Len(b) \in Nat
      /\ InOrder(a) /\ InOrder(b)
  BY DEF Lists
<1>2. /\ c \in Seq(Accesses) /\ Len(c) = Len(a) + Len(b)
      /\ \A i \in 1..Len(a) : c[i] = a[i] /\ i \in 1..Len(c)
      /\ \A i \in 1..Len(b) : c[Len(a) + i] = b[i] /\ Len(a) + i \in 1..Len(c)
      /\ \A i \in 1..Len(c) : \/ i \in 1..Len(a) /\ c[i] = a[i]
                              \/ i - Len(a) \in 1..Len(b) /\ c[i] = b[i - Len(a)]
  BY <1>1
<1> HIDE DEF c
<1>3. InOrder(c)
  <2> SUFFICES ASSUME NEW i \in 1..Len(c), NEW j \in 1..Len(c), i < j
               PROVE  Rank(c[i].op) < Rank(c[j].op)
    BY DEF InOrder
  <2>1. CASE i \in 1..Len(a) /\ j \in 1..Len(a)
    BY <1>1, <1>2, <2>1 DEF InOrder
  <2>2. CASE i \in 1..Len(a) /\ j - Len(a) \in 1..Len(b)
    <3>1. c[i] = a[i] /\ Len(a) + (j - Len(a)) = j /\ c[j] = b[j - Len(a)]
      BY <1>1, <1>2, <2>2
    <3> QED BY <1>1, <2>2, <3>1
  <2>3. CASE i - Len(a) \in 1..Len(b) /\ j - Len(a) \in 1..Len(b)
    <3>1. /\ c[i] = b[i - Len(a)] /\ c[j] = b[j - Len(a)] /\ i - Len(a) < j - Len(a)
      BY <1>1, <1>2, <2>3
    <3> QED BY <1>1, <2>3, <3>1 DEF InOrder
  <2> QED BY <1>1, <1>2, <2>1, <2>2, <2>3
<1>4. \A op : Holds(c, op) <=> Holds(a, op) \/ Holds(b, op)
  <2> SUFFICES ASSUME NEW op PROVE Holds(c, op) <=> Holds(a, op) \/ Holds(b, op)
    OBVIOUS
  <2>1. Holds(c, op) => Holds(a, op) \/ Holds(b, op)
    BY <1>2 DEF Holds
  <2>2. Holds(a, op) => Holds(c, op)
    BY <1>2 DEF Holds
  <2>3. ASSUME Holds(b, op) PROVE Holds(c, op)
    <3>1. PICK i \in 1..Len(b) : b[i].op = op
      BY <2>3 DEF Holds
    <3>2. Len(a) + i \in 1..Len(c) /\ c[Len(a) + i].op = op
      BY <1>2, <3>1
    <3> QED BY <3>2 DEF Holds
  <2> QED BY <2>1, <2>2, <2>3
<1>5. \A s : Aims(c, s) <=> Aims(a, s) \/ Aims(b, s)
  <2> SUFFICES ASSUME NEW s PROVE Aims(c, s) <=> Aims(a, s) \/ Aims(b, s)
    OBVIOUS
  <2>1. ASSUME Aims(c, s) PROVE Aims(a, s) \/ Aims(b, s)
    <3>1. PICK i \in 1..Len(c) : c[i].op = "State" /\ c[i].to = s
      BY <2>1 DEF Aims
    <3>2. \/ i \in 1..Len(a) /\ c[i] = a[i]
          \/ i - Len(a) \in 1..Len(b) /\ c[i] = b[i - Len(a)]
      BY <1>2
    <3> QED BY <3>1, <3>2 DEF Aims
  <2>2. Aims(a, s) => Aims(c, s)
    BY <1>2 DEF Aims
  <2>3. ASSUME Aims(b, s) PROVE Aims(c, s)
    <3>1. PICK i \in 1..Len(b) : b[i].op = "State" /\ b[i].to = s
      BY <2>3 DEF Aims
    <3>2. Len(a) + i \in 1..Len(c) /\ c[Len(a) + i] = b[i]
      BY <1>2
    <3> QED BY <3>1, <3>2 DEF Aims
  <2> QED BY <2>1, <2>2, <2>3
<1> QED BY <1>2, <1>3, <1>4, <1>5 DEF Lists, c

LEMMA ChainLemma ==
    ASSUME NEW a \in Lists, NEW b \in Lists,
           \A p, o \in Ops : Holds(a, p) /\ Holds(b, o) => Rank(p) < Rank(o)
    PROVE  /\ a \o b \in Lists
           /\ \A op : Holds(a \o b, op) <=> Holds(a, op) \/ Holds(b, op)
           /\ \A s : Aims(a \o b, s) <=> Aims(a, s) \/ Aims(b, s)
<1>1. \A i \in 1..Len(a), j \in 1..Len(b) : Rank(a[i].op) < Rank(b[j].op)
  <2>1. \A i \in 1..Len(a) : Holds(a, a[i].op) /\ a[i].op \in Ops
    BY ListLemma DEF Holds
  <2>2. \A j \in 1..Len(b) : Holds(b, b[j].op) /\ b[j].op \in Ops
    BY ListLemma DEF Holds
  <2> QED BY <2>1, <2>2
<1> QED BY <1>1, ConcatLemma

LEMMA NoneLeft ==
    /\ <<>> \in Lists
    /\ \A op : ~Holds(<<>>, op)
    /\ \A s : ~Aims(<<>>, s)
BY DEF Lists, InOrder, Holds, Aims

LEMMA OneLeft ==
    ASSUME NEW a \in Accesses
    PROVE  /\ <<a>> \in Lists
           /\ \A op : Holds(<<a>>, op) <=> op = a.op
           /\ \A s : Aims(<<a>>, s) <=> a.op = "State" /\ a.to = s
<1>1. <<a>> \in Seq(Accesses) /\ Len(<<a>>) = 1 /\ <<a>>[1] = a
  OBVIOUS
<1> QED BY <1>1 DEF Lists, InOrder, Holds, Aims

(* The lists the tasks begin with.                                         *)
LEMMA SetStateLemma ==
    ASSUME NEW s \in MQTTState
    PROVE  /\ setState(s) \in Lists
           /\ \A op : Holds(setState(s), op) <=> op \in {"State", "Ready"}
           /\ \A z : Aims(setState(s), z) <=> z = s
<1> DEFINE a == [op |-> "State", to |-> s]
           b == [op |-> "Ready", to |-> s]
<1>1. a \in Accesses /\ b \in Accesses /\ a.op = "State" /\ b.op = "Ready" /\ a.to = s
  BY DEF Accesses
<1>2. setState(s) = <<a>> \o <<b>>
  BY DEF setState
<1> HIDE DEF a, b
<1>3. \A p, o \in Ops : Holds(<<a>>, p) /\ Holds(<<b>>, o) => Rank(p) < Rank(o)
  BY <1>1, OneLeft DEF Rank
<1>4. <<a>> \in Lists /\ <<b>> \in Lists
  BY <1>1, OneLeft
<1>5. /\ \A op : Holds(<<a>>, op) <=> op = "State"
      /\ \A op : Holds(<<b>>, op) <=> op = "Ready"
      /\ \A z : Aims(<<a>>, z) <=> z = s
      /\ \A z : ~Aims(<<b>>, z)
  BY <1>1, OneLeft
<1>6. /\ <<a>> \o <<b>> \in Lists
      /\ \A op : Holds(<<a>> \o <<b>>, op) <=> Holds(<<a>>, op) \/ Holds(<<b>>, op)
      /\ \A z : Aims(<<a>> \o <<b>>, z) <=> Aims(<<a>>, z) \/ Aims(<<b>>, z)
  BY <1>3, <1>4, ChainLemma
<1> QED BY <1>2, <1>5, <1>6

(* Three accesses, none of which sets the state.                           *)
LEMMA ThreeLeft ==
    ASSUME NEW a \in Accesses, NEW b \in Accesses, NEW c \in Accesses,
           Rank(a.op) < Rank(b.op), Rank(b.op) < Rank(c.op), "State" \notin {a.op, b.op, c.op}
    PROVE  /\ <<a, b, c>> \in Lists
           /\ \A op : Holds(<<a, b, c>>, op) <=> op \in {a.op, b.op, c.op}
           /\ \A z : ~Aims(<<a, b, c>>, z)
<1> DEFINE l == <<a, b, c>>
<1>1. l \in Seq(Accesses) /\ Len(l) = 3 /\ l[1] = a /\ l[2] = b /\ l[3] = c
  OBVIOUS
<1>2. Rank(a.op) \in Int /\ Rank(b.op) \in Int /\ Rank(c.op) \in Int
  BY RankLemma
<1> HIDE DEF l
<1>3. \A i \in 1..Len(l) : i \in {1, 2, 3}
  BY <1>1
<1>4. InOrder(l)
  BY <1>1, <1>2, <1>3 DEF InOrder
<1>5. \A op : Holds(l, op) <=> op \in {a.op, b.op, c.op}
  BY <1>1, <1>3 DEF Holds
<1>6. \A z : ~Aims(l, z)
  BY <1>1, <1>3 DEF Aims
<1> QED BY <1>1, <1>4, <1>5, <1>6 DEF Lists, l

LEMMA StopClientLemma ==
    /\ stopClient \in Lists
    /\ \A op : Holds(stopClient, op) <=> op \in {"Suppress", "Stop", "Joined"}
    /\ \A z : ~Aims(stopClient, z)
<1> DEFINE a == [op |-> "Suppress"]
           b == [op |-> "Stop"]
           c == [op |-> "Joined"]
<1>1. /\ a \in Accesses /\ b \in Accesses /\ c \in Accesses
      /\ a.op = "Suppress" /\ b.op = "Stop" /\ c.op = "Joined"
  BY DEF Accesses
<1>2. stopClient = <<a, b, c>>
  BY DEF stopClient
<1> HIDE DEF a, b, c
<1>3. Rank("Suppress") < Rank("Stop") /\ Rank("Stop") < Rank("Joined")
  BY DEF Rank
<1> QED BY <1>1, <1>2, <1>3, ThreeLeft

LEMMA StopThenLemma ==
    ASSUME NEW s \in MQTTState
    PROVE  /\ stopThen(s) \in Lists
           /\ \A op : Holds(stopThen(s), op) <=>
                 op \in {"Suppress", "Stop", "Joined", "State", "Ready"}
           /\ \A z : Aims(stopThen(s), z) <=> z = s
<1>1. \A p, o \in Ops : p \in {"Suppress", "Stop", "Joined"} /\ o \in {"State", "Ready"} =>
            Rank(p) < Rank(o)
  BY DEF Rank
<1>2. /\ stopClient \o setState(s) \in Lists
      /\ \A op : Holds(stopClient \o setState(s), op) <=>
            Holds(stopClient, op) \/ Holds(setState(s), op)
      /\ \A z : Aims(stopClient \o setState(s), z) <=>
            Aims(stopClient, z) \/ Aims(setState(s), z)
  BY <1>1, StopClientLemma, SetStateLemma, ChainLemma
<1> QED BY <1>2, StopClientLemma, SetStateLemma DEF stopThen

LEMMA DirtyThenLemma ==
    ASSUME NEW l, l = <<[op |-> "Dirty"]>> \o stopThen("WaitingNetwork")
    PROVE  /\ l \in Lists
           /\ \A op : Holds(l, op) <=>
                 op \in {"Dirty", "Suppress", "Stop", "Joined", "State", "Ready"}
           /\ \A z : Aims(l, z) <=> z = "WaitingNetwork"
<1> DEFINE a == [op |-> "Dirty"]
<1>1. a \in Accesses /\ a.op = "Dirty" /\ "WaitingNetwork" \in MQTTState
  BY DEF Accesses, MQTTState
<1>2. l = <<a>> \o stopThen("WaitingNetwork")
  OBVIOUS
<1> HIDE DEF a
<1>3. \A p, o \in Ops :
        p = "Dirty" /\ o \in {"Suppress", "Stop", "Joined", "State", "Ready"} => Rank(p) < Rank(o)
  BY DEF Rank
<1>4. /\ <<a>> \in Lists /\ \A op : Holds(<<a>>, op) <=> op = "Dirty"
      /\ \A z : ~Aims(<<a>>, z)
  BY <1>1, OneLeft
<1> DEFINE b == stopThen("WaitingNetwork")
<1>5. /\ b \in Lists
      /\ \A op : Holds(b, op) <=> op \in {"Suppress", "Stop", "Joined", "State", "Ready"}
      /\ \A z : Aims(b, z) <=> z = "WaitingNetwork"
  BY <1>1, StopThenLemma
<1> HIDE DEF b
<1>6. /\ <<a>> \o b \in Lists
      /\ \A op : Holds(<<a>> \o b, op) <=> Holds(<<a>>, op) \/ Holds(b, op)
      /\ \A z : Aims(<<a>> \o b, z) <=> Aims(<<a>>, z) \/ Aims(b, z)
  BY <1>3, <1>4, <1>5, ChainLemma
<1> QED BY <1>2, <1>4, <1>5, <1>6 DEF b

LEMMA OnConnectLemma ==
    /\ onConnect \in Lists
    /\ \A op : Holds(onConnect, op) <=> op \in {"Unsuppress", "State", "Ready"}
    /\ \A z : Aims(onConnect, z) <=> z = "Connected"
<1> DEFINE a == [op |-> "Unsuppress"]
           b == setState("Connected")
<1>1. a \in Accesses /\ a.op = "Unsuppress" /\ "Connected" \in MQTTState
  BY DEF Accesses, MQTTState
<1>2. onConnect = <<a>> \o b
  BY DEF onConnect
<1> HIDE DEF a
<1>3. \A p, o \in Ops : p = "Unsuppress" /\ o \in {"State", "Ready"} => Rank(p) < Rank(o)
  BY DEF Rank
<1>4. /\ <<a>> \in Lists /\ \A op : Holds(<<a>>, op) <=> op = "Unsuppress"
      /\ \A z : ~Aims(<<a>>, z)
  BY <1>1, OneLeft
<1>5. /\ b \in Lists /\ \A op : Holds(b, op) <=> op \in {"State", "Ready"}
      /\ \A z : Aims(b, z) <=> z = "Connected"
  BY <1>1, SetStateLemma
<1> HIDE DEF b
<1>6. /\ <<a>> \o b \in Lists
      /\ \A op : Holds(<<a>> \o b, op) <=> Holds(<<a>>, op) \/ Holds(b, op)
      /\ \A z : Aims(<<a>> \o b, z) <=> Aims(<<a>>, z) \/ Aims(b, z)
  BY <1>3, <1>4, <1>5, ChainLemma
<1> QED BY <1>2, <1>4, <1>5, <1>6

LEMMA ConnectLemma ==
    /\ connectMqtt \in Lists
    /\ \A op : Holds(connectMqtt, op) <=> op \in {"Unsuppress", "Ensure"}
    /\ \A z : ~Aims(connectMqtt, z)
<1> DEFINE a == [op |-> "Unsuppress"]
           b == [op |-> "Ensure"]
<1>1. /\ a \in Accesses /\ b \in Accesses /\ a.op = "Unsuppress" /\ b.op = "Ensure"
  BY DEF Accesses
<1>2. connectMqtt = <<a>> \o <<b>>
  BY DEF connectMqtt
<1> HIDE DEF a, b
<1>3. Rank("Unsuppress") < Rank("Ensure")
  BY DEF Rank
<1>4. /\ <<a>> \in Lists /\ <<b>> \in Lists
      /\ \A op : Holds(<<a>>, op) <=> op = "Unsuppress"
      /\ \A op : Holds(<<b>>, op) <=> op = "Ensure"
      /\ \A z : ~Aims(<<a>>, z) /\ ~Aims(<<b>>, z)
  BY <1>1, OneLeft
<1>5. /\ <<a>> \o <<b>> \in Lists
      /\ \A op : Holds(<<a>> \o <<b>>, op) <=> Holds(<<a>>, op) \/ Holds(<<b>>, op)
      /\ \A z : Aims(<<a>> \o <<b>>, z) <=> Aims(<<a>>, z) \/ Aims(<<b>>, z)
  BY <1>3, <1>4, ChainLemma
<1> QED BY <1>2, <1>4, <1>5

LEMMA EnsureLemma ==
    ASSUME NEW l, l = (IF Usable THEN <<>> ELSE Destruction \o <<[op |-> "Read"],
                                                                 [op |-> "Clean"]>>)
                      \o <<[op |-> "Dial"]>>
    PROVE  /\ l \in Lists
           /\ \A op : Holds(l, op) => op \in {"Stop", "Joined", "Destroy", "Read", "Clean", "Dial"}
           /\ Holds(l, "Dial")
           /\ Holds(l, "Read") <=> ~Usable
           /\ \A op \in {"Stop", "Joined", "Destroy"} :
                 Holds(l, op) <=> ~Usable /\ session # "None"
           /\ \A z : ~Aims(l, z)
<1> DEFINE a == [op |-> "Read"]
           b == [op |-> "Clean"]
           c == [op |-> "Dial"]
           d == [op |-> "Stop"]
           e == [op |-> "Joined"]
           f == [op |-> "Destroy"]
<1>1. /\ a \in Accesses /\ b \in Accesses /\ c \in Accesses /\ d \in Accesses /\ e \in Accesses
      /\ f \in Accesses /\ a.op = "Read" /\ b.op = "Clean" /\ c.op = "Dial" /\ d.op = "Stop"
      /\ e.op = "Joined" /\ f.op = "Destroy"
  BY DEF Accesses
<1>2. /\ l = (IF Usable THEN <<>> ELSE Destruction \o <<a, b>>) \o <<c>>
      /\ Destruction = IF session = "None" THEN <<>> ELSE <<d, e, f>>
      /\ <<a, b>> = <<a>> \o <<b>>
  BY DEF Destruction
<1> HIDE DEF a, b, c, d, e, f
<1> DEFINE mid == <<a>> \o <<b>>
           first == Destruction
<1>3. /\ <<a>> \in Lists /\ <<b>> \in Lists /\ <<c>> \in Lists
      /\ \A op : Holds(<<a>>, op) <=> op = "Read"
      /\ \A op : Holds(<<b>>, op) <=> op = "Clean"
      /\ \A op : Holds(<<c>>, op) <=> op = "Dial"
      /\ \A z : ~Aims(<<a>>, z) /\ ~Aims(<<b>>, z) /\ ~Aims(<<c>>, z)
  BY <1>1, OneLeft
<1>4. \A p, o \in Ops : p = "Read" /\ o = "Clean" => Rank(p) < Rank(o)
  BY DEF Rank
<1>5. /\ mid \in Lists
      /\ \A op : Holds(mid, op) <=> op \in {"Read", "Clean"}
      /\ \A z : ~Aims(mid, z)
  BY <1>3, <1>4, ChainLemma
<1>6. /\ first \in Lists
      /\ \A op : Holds(first, op) <=> session # "None" /\ op \in {"Stop", "Joined", "Destroy"}
      /\ \A z : ~Aims(first, z)
  <2>1. CASE session = "None"
    BY <1>2, <2>1, NoneLeft
  <2>2. CASE session # "None"
    <3>1. Rank("Stop") < Rank("Joined") /\ Rank("Joined") < Rank("Destroy")
      BY DEF Rank
    <3> DEFINE three == <<d, e, f>>
    <3>2. first = three
      BY <1>2, <2>2
    <3>3. /\ three \in Lists
          /\ \A op : Holds(three, op) <=> op \in {"Stop", "Joined", "Destroy"}
          /\ \A z : ~Aims(three, z)
      BY <1>1, <3>1, ThreeLeft
    <3> HIDE DEF three, first
    <3>4. \A op : Holds(first, op) <=> op \in {"Stop", "Joined", "Destroy"}
      BY <3>2, <3>3
    <3>5. first \in Lists /\ \A z : ~Aims(first, z)
      BY <3>2, <3>3
    <3> QED BY <2>2, <3>4, <3>5
  <2> QED BY <2>1, <2>2
<1>7. l = (IF Usable THEN <<>> ELSE first \o mid) \o <<c>>
  BY <1>2
<1> HIDE DEF mid, first
<1>8. \A p, o \in Ops :
        p \in {"Stop", "Joined", "Destroy"} /\ o \in {"Read", "Clean"} => Rank(p) < Rank(o)
  BY DEF Rank
<1>9. /\ first \o mid \in Lists
      /\ \A op : Holds(first \o mid, op) <=> Holds(first, op) \/ Holds(mid, op)
      /\ \A z : ~Aims(first \o mid, z)
  BY <1>5, <1>6, <1>8, ChainLemma
<1> DEFINE m == IF Usable THEN <<>> ELSE first \o mid
<1>10. /\ m \in Lists
       /\ \A op : Holds(m, op) <=> ~Usable /\ (Holds(first, op) \/ Holds(mid, op))
       /\ \A z : ~Aims(m, z)
  BY <1>9, NoneLeft
<1>11. l = m \o <<c>>
  BY <1>7
<1> HIDE DEF m
<1>12. \A p, o \in Ops :
         p \in {"Stop", "Joined", "Destroy", "Read", "Clean"} /\ o = "Dial" => Rank(p) < Rank(o)
  BY DEF Rank
<1>13. \A p, o \in Ops : Holds(m, p) /\ Holds(<<c>>, o) => Rank(p) < Rank(o)
  BY <1>3, <1>5, <1>6, <1>10, <1>12
<1>14. /\ m \o <<c>> \in Lists
       /\ \A op : Holds(m \o <<c>>, op) <=> Holds(m, op) \/ Holds(<<c>>, op)
       /\ \A z : Aims(m \o <<c>>, z) <=> Aims(m, z) \/ Aims(<<c>>, z)
  BY <1>3, <1>10, <1>13, ChainLemma
<1>15. /\ l \in Lists
       /\ \A op : Holds(l, op) <=> Holds(m, op) \/ op = "Dial"
       /\ \A z : ~Aims(l, z)
  BY <1>3, <1>10, <1>11, <1>14
<1> QED BY <1>5, <1>6, <1>10, <1>15

LEMMA LostLemma ==
    /\ <<[op |-> "Lost"]>> \in Lists
    /\ \A op : Holds(<<[op |-> "Lost"]>>, op) <=> op = "Lost"
    /\ \A z : ~Aims(<<[op |-> "Lost"]>>, z)
<1> DEFINE a == [op |-> "Lost"]
<1>1. a \in Accesses /\ a.op = "Lost"
  BY DEF Accesses
<1> HIDE DEF a
<1>2. <<a>> \in Lists /\ (\A op : Holds(<<a>>, op) <=> op = "Lost") /\ \A z : ~Aims(<<a>>, z)
  BY <1>1, OneLeft
<1> QED BY <1>2 DEF a

(* A task makes its next access, and goes on.                              *)
LEMMA AccessLemma ==
    ASSUME NEW t \in Tasks, NEW op \in Ops, todo \in [Tasks -> Lists], Access(t, op)
    PROVE  /\ Head(todo[t]).op = op /\ todo[t] # <<>> /\ Has(t, op)
           /\ \A o \in Ops : Has(t, o) => Rank(op) <= Rank(o)
           /\ op = "State" => WillSet(t, Head(todo[t]).to) /\ Head(todo[t]).to \in MQTTState
           /\ Tail(todo[t]) \in Lists
           /\ \A o \in Ops : Holds(Tail(todo[t]), o) <=> Has(t, o) /\ o # op
           /\ \A s \in MQTTState : Aims(Tail(todo[t]), s) => WillSet(t, s)
           /\ \A s : WillSet(t, s) /\ op # "State" => Aims(Tail(todo[t]), s)
<1>1. todo[t] \in Lists /\ todo[t] # <<>> /\ Head(todo[t]).op = op
  BY DEF Access, Idle
<1>2. /\ Holds(todo[t], Head(todo[t]).op)
      /\ Head(todo[t]).op = "State" =>
            Aims(todo[t], Head(todo[t]).to) /\ Head(todo[t]).to \in MQTTState
      /\ \A o \in Ops : Holds(todo[t], o) => Rank(Head(todo[t]).op) <= Rank(o)
  BY <1>1, HeadLemma
<1>3. /\ Tail(todo[t]) \in Lists
      /\ \A o \in Ops : Holds(Tail(todo[t]), o) <=> Holds(todo[t], o) /\ o # Head(todo[t]).op
      /\ \A s \in MQTTState : Aims(Tail(todo[t]), s) => Aims(todo[t], s)
      /\ \A s : Aims(todo[t], s) /\ Head(todo[t]).op # "State" => Aims(Tail(todo[t]), s)
  BY <1>1, TailLemma
<1> QED BY <1>1, <1>2, <1>3 DEF Has, WillSet

LEMMA IdleLemma ==
    ASSUME NEW t \in Tasks, Idle(t)
    PROVE  (\A op : ~Has(t, op)) /\ \A s : ~WillSet(t, s)
BY NoneLeft DEF Idle, Has, WillSet

LEMMA ConnectionInvInit == ConnectionInit => ConnectionInv
<1> SUFFICES ASSUME ConnectionInit PROVE ConnectionInv
  OBVIOUS
<1>1. /\ todo = [t \in Tasks |-> <<>>] /\ state = "WaitingNetwork" /\ session = "None"
      /\ troubles = 0
  BY DEF ConnectionInit
<1>2. \A t \in Tasks : Idle(t)
  BY <1>1 DEF Idle
<1>3. \A t \in Tasks : (\A op : ~Has(t, op)) /\ \A s : ~WillSet(t, s)
  BY <1>2, IdleLemma
<1>4. todo \in [Tasks -> Lists]
  BY <1>1, NoneLeft
<1>5. "loop" \in Tasks /\ "event" \in Tasks /\ "client" \in Tasks
  BY DEF Tasks
<1>6. OwnAccesses
  BY <1>3, <1>4, <1>5 DEF OwnAccesses
<1>7. StopsEnd /\ Makes /\ StaysOff /\ EndsSeen
  BY <1>1, <1>2, <1>3, <1>5 DEF StopsEnd, Makes, StaysOff, EndsSeen, Off
<1>8. ConnectionRanges
  BY <1>1, TroubleAssumption DEF ConnectionRanges, MQTTState, Sessions
<1> QED BY <1>6, <1>7, <1>8 DEF ConnectionInv

(* ... which leaves the others what they have.                             *)
LEMMA ProceedsLemma ==
    ASSUME NEW t \in Tasks, NEW op \in Ops, todo \in [Tasks -> Lists],
           Access(t, op), Proceeds(t)
    PROVE  /\ todo' \in [Tasks -> Lists]
           /\ \A z \in Tasks, o \in Ops : Has(z, o)' <=> Has(z, o) /\ ~(z = t /\ o = op)
           /\ \A z \in Tasks, s \in MQTTState : WillSet(z, s)' => WillSet(z, s)
           /\ op # "State" => \A z \in Tasks, s \in MQTTState : WillSet(z, s)' <=> WillSet(z, s)
           /\ \A z \in Tasks, s \in MQTTState : z # t => (WillSet(z, s)' <=> WillSet(z, s))
           /\ \A z \in Tasks : Idle(z) => Idle(z)'
           /\ ~Idle(t)
<1>1. /\ Tail(todo[t]) \in Lists /\ todo[t] # <<>>
      /\ \A o \in Ops : Holds(Tail(todo[t]), o) <=> Has(t, o) /\ o # op
      /\ \A s \in MQTTState : Aims(Tail(todo[t]), s) => WillSet(t, s)
      /\ \A s : WillSet(t, s) /\ op # "State" => Aims(Tail(todo[t]), s)
  BY AccessLemma
<1>2. todo' = [todo EXCEPT ![t] = Tail(todo[t])]
  BY DEF Proceeds, Begins
<1>3. /\ todo'[t] = Tail(todo[t]) /\ todo' \in [Tasks -> Lists]
      /\ \A z \in Tasks : z # t => todo'[z] = todo[z]
  BY <1>1, <1>2
<1> QED BY <1>1, <1>3 DEF Has, WillSet, Idle

LEMMA BeginsLemma ==
    ASSUME NEW t \in Tasks, NEW l \in Lists, todo \in [Tasks -> Lists], Begins(t, l)
    PROVE  /\ todo' \in [Tasks -> Lists]
           /\ \A op : Has(t, op)' <=> Holds(l, op)
           /\ \A s : WillSet(t, s)' <=> Aims(l, s)
           /\ \A z \in Tasks, o \in Ops : z # t => (Has(z, o)' <=> Has(z, o))
           /\ \A z \in Tasks, s \in MQTTState : z # t => (WillSet(z, s)' <=> WillSet(z, s))
           /\ \A z \in Tasks : z # t => (Idle(z)' <=> Idle(z))
<1>1. todo' = [todo EXCEPT ![t] = l]
  BY DEF Begins
<1>2. /\ todo'[t] = l /\ todo' \in [Tasks -> Lists]
      /\ \A z \in Tasks : z # t => todo'[z] = todo[z]
  BY <1>1
<1> QED BY <1>2 DEF Has, WillSet, Idle

(* An access that neither sets the state nor touches the client.           *)
LEMMA PassKeeps ==
    ASSUME ConnectionInv, NEW t \in Tasks, Proceeds(t),
           NEW op \in {"Ready", "Suppress", "Unsuppress", "Dirty", "Clean", "Joined"},
           Access(t, op), UNCHANGED <<state, session, troubles>>,
           suppress' => suppress \/ op = "Suppress",
           op = "Unsuppress" => ~suppress',
           op = "Joined" => Idle("client")
    PROVE  ConnectionInv'
<1>1. op \in Ops /\ todo \in [Tasks -> Lists] /\ op # "State"
  BY DEF Ops, ConnectionInv, OwnAccesses
<1>2. /\ todo' \in [Tasks -> Lists]
      /\ \A z \in Tasks, o \in Ops : Has(z, o)' <=> Has(z, o) /\ ~(z = t /\ o = op)
      /\ \A z \in Tasks, s \in MQTTState : WillSet(z, s)' <=> WillSet(z, s)
      /\ \A z \in Tasks : Idle(z) => Idle(z)'
  BY <1>1, ProceedsLemma
<1>3. /\ Has(t, op)
      /\ \A o \in Ops : Has(t, o) => Rank(op) <= Rank(o)
  BY <1>1, AccessLemma
<1>4. op = "Joined" => ~Has(t, "Stop")
  BY <1>3 DEF Rank, Ops
<1>5. ConnectionRanges'
  BY DEF ConnectionInv, ConnectionRanges
<1>6. OwnAccesses'
  BY <1>2 DEF ConnectionInv, OwnAccesses, Ops, Tasks, MQTTState
<1>7. StopsEnd'
  BY <1>2 DEF ConnectionInv, StopsEnd, Ops, Tasks
<1>8. Makes'
  BY <1>2, <1>4 DEF ConnectionInv, Makes, Ops, Tasks, Off
<1>9. StaysOff'
  BY <1>2 DEF ConnectionInv, StaysOff, Ops, Tasks, Off, MQTTState
<1>10. WillSet("client", "Connected")' => session' = "Up"
  BY <1>2 DEF ConnectionInv, EndsSeen, Tasks, MQTTState
<1>11. Overwritten => Overwritten'
  <2>1. \A z \in Tasks : Writes(z) => Writes(z)'
    BY <1>2 DEF Writes, Ops
  <2>2. WillSet("client", "ErrorWait") => WillSet("client", "ErrorWait")'
    BY <1>2 DEF Tasks, MQTTState
  <2>3. Has("client", "Lost") => Has("client", "Lost")'
    BY <1>2 DEF Tasks, Ops
  <2>4. op = "Suppress" => t \in {"loop", "event"} /\ Writes(t)
    BY <1>3 DEF ConnectionInv, OwnAccesses, StopsEnd, Tasks, Writes
  <2>5. "loop" \in Tasks /\ "event" \in Tasks
    BY DEF Tasks
  <2> QED BY <2>1, <2>2, <2>3, <2>4, <2>5 DEF Overwritten
<1>12. session' = "Up" /\ suppress' =>
          (Has("client", "Unsuppress") \/ Has("loop", "Stop") \/ Has("event", "Stop"))'
  <2>1. op = "Suppress" => t \in {"loop", "event"} /\ Has(t, "Stop")
    BY <1>3 DEF ConnectionInv, OwnAccesses, StopsEnd, Tasks
  <2> QED BY <1>2, <2>1 DEF ConnectionInv, EndsSeen, Tasks, Ops
<1>13. EndsSeen'
  BY <1>10, <1>11, <1>12 DEF ConnectionInv, EndsSeen
<1> QED BY <1>5, <1>6, <1>7, <1>8, <1>9, <1>13 DEF ConnectionInv

LEMMA SetsKeeps ==
    ASSUME ConnectionInv, NEW t \in Tasks, Sets(t)
    PROVE  ConnectionInv'
<1>1. /\ todo \in [Tasks -> Lists] /\ Proceeds(t)
      /\ UNCHANGED <<session, troubles>>
  BY DEF Sets, ConnectionInv, OwnAccesses
<1>2. CASE Access(t, "State") /\ state' = Head(todo[t]).to /\ suppress' = suppress
  <2>1. "State" \in Ops
    BY DEF Ops
  <2>2. /\ todo' \in [Tasks -> Lists]
        /\ \A z \in Tasks, o \in Ops : Has(z, o)' <=> Has(z, o) /\ ~(z = t /\ o = "State")
        /\ \A z \in Tasks, s \in MQTTState : WillSet(z, s)' => WillSet(z, s)
        /\ \A z \in Tasks, s \in MQTTState : z # t => (WillSet(z, s)' <=> WillSet(z, s))
        /\ \A z \in Tasks : Idle(z) => Idle(z)'
    BY <1>1, <1>2, <2>1, ProceedsLemma
  <2>3. /\ WillSet(t, state') /\ state' \in MQTTState
        /\ \A o \in Ops : Has(t, o) => Rank("State") <= Rank(o)
    BY <1>1, <1>2, <2>1, AccessLemma
  <2>4. \A o \in {"Suppress", "Stop", "Joined", "Destroy", "Read", "Dial", "Ensure",
                  "Unsuppress"} : ~Has(t, o) /\ o \in Ops
    BY <2>3 DEF Rank, Ops
  <2>5. ConnectionRanges'
    BY <1>1, <2>3 DEF ConnectionInv, ConnectionRanges
  <2>6. OwnAccesses'
    BY <2>2 DEF ConnectionInv, OwnAccesses, Ops, Tasks, MQTTState
  <2>7. StopsEnd' /\ Makes'
    BY <1>1, <2>2, <2>4 DEF ConnectionInv, StopsEnd, Makes, Ops, Tasks, Off
  <2>8. StaysOff'
    BY <1>1, <2>2, <2>3, <2>4
    DEF ConnectionInv, OwnAccesses, StaysOff, Ops, Tasks, Off, MQTTState
  <2>9. /\ WillSet("client", "Connected")' => session' = "Up"
        /\ state' = "Connected" => session' = "Up"
    <3>1. state' = "Connected" => WillSet("client", "Connected")
      BY <2>3 DEF ConnectionInv, OwnAccesses, Tasks, MQTTState
    <3> QED BY <1>1, <2>2, <3>1 DEF ConnectionInv, EndsSeen, Tasks, MQTTState
  <2>10. session' = "Up" /\ suppress' =>
            (Has("client", "Unsuppress") \/ Has("loop", "Stop") \/ Has("event", "Stop"))'
    BY <1>1, <1>2, <2>2, <2>4 DEF ConnectionInv, EndsSeen, Tasks
  <2>11. EndsSeen'
    BY <2>9, <2>10 DEF EndsSeen
  <2> QED BY <2>5, <2>6, <2>7, <2>8, <2>11 DEF ConnectionInv
<1>3. CASE UNCHANGED <<state, suppress, clientConfigDirty>> /\ Access(t, "Ready")
  BY <1>1, <1>3, PassKeeps
<1>4. CASE /\ UNCHANGED <<state, ready, clientConfigDirty>>
           /\ Access(t, "Suppress") \/ Access(t, "Unsuppress")
           /\ suppress' = Access(t, "Suppress")
  <2>1. CASE Access(t, "Suppress")
    BY <1>1, <1>4, <2>1, PassKeeps
  <2>2. CASE Access(t, "Unsuppress")
    <3>1. ~Access(t, "Suppress")
      BY <2>2 DEF Access
    <3> QED BY <1>1, <1>4, <2>2, <3>1, PassKeeps
  <2> QED BY <1>4, <2>1, <2>2
<1>5. CASE UNCHANGED <<state, ready, suppress>> /\ (Access(t, "Dirty") \/ Access(t, "Clean"))
  BY <1>1, <1>5, PassKeeps
<1> QED BY <1>1, <1>2, <1>3, <1>4, <1>5 DEF Sets

(* The loop begins what it has decided.                                    *)
LEMMA DecidesKeeps ==
    ASSUME ConnectionInv, NEW l \in Lists, Decides(l),
           \A op \in Ops : Holds(l, op) =>
              op \in {"Suppress", "Stop", "Joined", "State", "Ready", "Unsuppress", "Ensure"},
           Holds(l, "Stop") => Holds(l, "State"),
           Holds(l, "Suppress") => Holds(l, "Stop"),
           ~Aims(l, "Connected"),
           Holds(l, "Ensure") => /\ state # "Disabled" /\ ~Aims(l, "Disabled")
                                 /\ ~Holds(l, "Stop"),
           Aims(l, "Disabled") => Holds(l, "Stop")
    PROVE  ConnectionInv'
<1>1. /\ "loop" \in Tasks /\ todo \in [Tasks -> Lists] /\ Begins("loop", l) /\ Idle("loop")
      /\ UNCHANGED <<state, suppress, session, troubles>>
  BY DEF Decides, ConnectionInv, OwnAccesses, Tasks
<1>2. /\ todo' \in [Tasks -> Lists]
      /\ \A op : Has("loop", op)' <=> Holds(l, op)
      /\ \A s : WillSet("loop", s)' <=> Aims(l, s)
      /\ \A z \in Tasks, o \in Ops : z # "loop" => (Has(z, o)' <=> Has(z, o))
      /\ \A z \in Tasks, s \in MQTTState : z # "loop" => (WillSet(z, s)' <=> WillSet(z, s))
      /\ \A z \in Tasks : z # "loop" => (Idle(z)' <=> Idle(z))
  BY <1>1, BeginsLemma
<1>3. (\A op : ~Has("loop", op)) /\ \A s : ~WillSet("loop", s)
  BY <1>1, IdleLemma
<1>4. ConnectionRanges'
  BY <1>1 DEF ConnectionInv, ConnectionRanges
<1>5. OwnAccesses'
  BY <1>2 DEF ConnectionInv, OwnAccesses, Ops, Tasks, MQTTState
<1>6. StopsEnd'
  BY <1>2 DEF ConnectionInv, StopsEnd, Ops, Tasks
<1>7. Makes'
  BY <1>1, <1>2 DEF ConnectionInv, Makes, Ops, Tasks, Off
<1>8. StaysOff'
  BY <1>1, <1>2 DEF ConnectionInv, StaysOff, Ops, Tasks, Off, MQTTState
<1>9. EndsSeen'
  <2>1. WillSet("client", "Connected")' => session' = "Up"
    BY <1>1, <1>2 DEF ConnectionInv, EndsSeen, Tasks, MQTTState
  <2>2. Overwritten => Overwritten'
    BY <1>1, <1>2, <1>3 DEF Overwritten, Writes, Ops, Tasks, MQTTState
  <2>3. session' = "Up" /\ suppress' =>
            (Has("client", "Unsuppress") \/ Has("loop", "Stop") \/ Has("event", "Stop"))'
    BY <1>1, <1>2, <1>3 DEF ConnectionInv, EndsSeen, Tasks, Ops
  <2> QED BY <1>1, <2>1, <2>2, <2>3 DEF ConnectionInv, EndsSeen
<1> QED BY <1>4, <1>5, <1>6, <1>7, <1>8, <1>9 DEF ConnectionInv

LEMMA LoopDecides ==
    ASSUME ConnectionInv, SeesNetwork \/ Switch \/ GoesRound
    PROVE  ConnectionInv'
<1>1. {"WaitingNetwork", "Disabled", "ErrorWait"} \subseteq MQTTState
  BY DEF MQTTState
<1>2. ASSUME Decides(<<>>)
      PROVE  ConnectionInv'
  BY <1>2, NoneLeft, DecidesKeeps
<1>3. ASSUME NEW s \in {"WaitingNetwork", "ErrorWait"}, Decides(setState(s))
      PROVE  ConnectionInv'
  <2> DEFINE l == setState(s)
  <2>1. /\ l \in Lists /\ \A op : Holds(l, op) <=> op \in {"State", "Ready"}
        /\ ~Aims(l, "Connected") /\ ~Aims(l, "Disabled") /\ Decides(l)
    BY <1>1, <1>3, SetStateLemma
  <2> HIDE DEF l
  <2> QED BY <2>1, DecidesKeeps
<1>4. ASSUME NEW s \in {"WaitingNetwork", "ErrorWait", "Disabled"}, Decides(stopThen(s))
      PROVE  ConnectionInv'
  <2> DEFINE l == stopThen(s)
  <2>1. /\ l \in Lists
        /\ \A op : Holds(l, op) <=> op \in {"Suppress", "Stop", "Joined", "State", "Ready"}
        /\ ~Aims(l, "Connected") /\ Decides(l)
    BY <1>1, <1>4, StopThenLemma
  <2> HIDE DEF l
  <2> QED BY <2>1, DecidesKeeps
<1>5. ASSUME state # "Disabled", Decides(connectMqtt)
      PROVE  ConnectionInv'
  <2> DEFINE l == connectMqtt
  <2>1. /\ l \in Lists /\ \A op : Holds(l, op) <=> op \in {"Unsuppress", "Ensure"}
        /\ ~Aims(l, "Connected") /\ ~Aims(l, "Disabled") /\ Decides(l)
    BY <1>5, ConnectLemma
  <2> HIDE DEF l
  <2> QED BY <1>5, <2>1, DecidesKeeps
<1>6. CASE SeesNetwork
  <2>1. \/ Decides(<<>>) \/ Decides(stopThen("WaitingNetwork"))
        \/ Decides(setState("WaitingNetwork"))
    BY <1>6, Zenon DEF SeesNetwork
  <2> QED BY <2>1, <1>2, <1>3, <1>4
<1>7. CASE Switch
  BY <1>3, <1>4, <1>5, <1>7
  DEF Switch, Disables, Enables, Connects, TimesOut, ConnectTimedOut, Retries
<1>8. CASE GoesRound
  BY <1>2, <1>8 DEF GoesRound
<1> QED BY <1>6, <1>7, <1>8

LEMMA SettingsKeeps ==
    ASSUME ConnectionInv, SeesSettings
    PROVE  ConnectionInv'
<1> DEFINE l == <<[op |-> "Dirty"]>> \o stopThen("WaitingNetwork")
<1>1. /\ "event" \in Tasks /\ todo \in [Tasks -> Lists] /\ Begins("event", l) /\ Idle("event")
      /\ UNCHANGED <<state, suppress, session, troubles>>
  BY DEF SeesSettings, ConnectionInv, OwnAccesses, Tasks
<1>2. /\ l \in Lists
      /\ \A op : Holds(l, op) <=>
            op \in {"Dirty", "Suppress", "Stop", "Joined", "State", "Ready"}
      /\ \A z : Aims(l, z) <=> z = "WaitingNetwork"
  BY DirtyThenLemma
<1> HIDE DEF l
<1>3. /\ todo' \in [Tasks -> Lists]
      /\ \A op : Has("event", op)' <=> Holds(l, op)
      /\ \A s : WillSet("event", s)' <=> Aims(l, s)
      /\ \A z \in Tasks, o \in Ops : z # "event" => (Has(z, o)' <=> Has(z, o))
      /\ \A z \in Tasks, s \in MQTTState : z # "event" => (WillSet(z, s)' <=> WillSet(z, s))
      /\ \A z \in Tasks : z # "event" => (Idle(z)' <=> Idle(z))
  BY <1>1, <1>2, BeginsLemma
<1>4. (\A op : ~Has("event", op)) /\ \A s : ~WillSet("event", s)
  BY <1>1, IdleLemma
<1>5. ConnectionRanges'
  BY <1>1 DEF ConnectionInv, ConnectionRanges
<1>6. OwnAccesses'
  BY <1>2, <1>3 DEF ConnectionInv, OwnAccesses, Ops, Tasks, MQTTState
<1>7. StopsEnd'
  BY <1>2, <1>3 DEF ConnectionInv, StopsEnd, Ops, Tasks
<1>8. Makes'
  BY <1>1, <1>3 DEF ConnectionInv, Makes, Ops, Tasks, Off
<1>9. StaysOff'
  BY <1>1, <1>3 DEF ConnectionInv, StaysOff, Ops, Tasks, Off, MQTTState
<1>10. EndsSeen'
  <2>1. WillSet("client", "Connected")' => session' = "Up"
    BY <1>1, <1>3 DEF ConnectionInv, EndsSeen, Tasks, MQTTState
  <2>2. Overwritten => Overwritten'
    BY <1>1, <1>3, <1>4 DEF Overwritten, Writes, Ops, Tasks, MQTTState
  <2>3. session' = "Up" /\ suppress' =>
            (Has("client", "Unsuppress") \/ Has("loop", "Stop") \/ Has("event", "Stop"))'
    BY <1>1, <1>3, <1>4 DEF ConnectionInv, EndsSeen, Tasks, Ops
  <2> QED BY <1>1, <2>1, <2>2, <2>3 DEF ConnectionInv, EndsSeen
<1> QED BY <1>5, <1>6, <1>7, <1>8, <1>9, <1>10 DEF ConnectionInv

(* The steps of ensureClient_ and connectMqtt_ that begin another list.    *)
LEMMA EnsureKeeps ==
    ASSUME ConnectionInv, Ensure
    PROVE  ConnectionInv'
<1> DEFINE l == (IF Usable THEN <<>> ELSE Destruction \o <<[op |-> "Read"], [op |-> "Clean"]>>)
                \o <<[op |-> "Dial"]>>
<1>1. /\ "loop" \in Tasks /\ "Ensure" \in Ops /\ todo \in [Tasks -> Lists] /\ Begins("loop", l)
      /\ Access("loop", "Ensure") /\ UNCHANGED <<state, suppress, session, troubles>>
  BY DEF Ensure, ConnectionInv, OwnAccesses, Tasks, Ops
<1>2. /\ l \in Lists
      /\ \A op : Holds(l, op) => op \in {"Stop", "Joined", "Destroy", "Read", "Clean", "Dial"}
      /\ Holds(l, "Dial")
      /\ Holds(l, "Read") <=> ~Usable
      /\ \A op \in {"Stop", "Joined", "Destroy"} :
            Holds(l, op) <=> ~Usable /\ session # "None"
      /\ \A z : ~Aims(l, z)
  BY EnsureLemma
<1> HIDE DEF l
<1>3. /\ todo' \in [Tasks -> Lists]
      /\ \A op : Has("loop", op)' <=> Holds(l, op)
      /\ \A s : WillSet("loop", s)' <=> Aims(l, s)
      /\ \A z \in Tasks, o \in Ops : z # "loop" => (Has(z, o)' <=> Has(z, o))
      /\ \A z \in Tasks, s \in MQTTState : z # "loop" => (WillSet(z, s)' <=> WillSet(z, s))
      /\ \A z \in Tasks : z # "loop" => (Idle(z)' <=> Idle(z))
  BY <1>1, <1>2, BeginsLemma
<1>4. /\ Has("loop", "Ensure") /\ \A o \in Ops : Has("loop", o) => Rank("Ensure") <= Rank(o)
  BY <1>1, AccessLemma
<1>5. Usable => session # "None"
  BY DEF Usable
<1>6. ConnectionRanges'
  BY <1>1 DEF ConnectionInv, ConnectionRanges
<1>7. OwnAccesses'
  BY <1>2, <1>3 DEF ConnectionInv, OwnAccesses, Ops, Tasks, MQTTState
<1>8. StopsEnd'
  BY <1>2, <1>3 DEF ConnectionInv, StopsEnd, Ops, Tasks
<1>9. Makes'
  BY <1>1, <1>2, <1>3, <1>5 DEF ConnectionInv, Makes, Ops, Tasks, Off
<1>10. StaysOff'
  BY <1>1, <1>2, <1>3, <1>4 DEF ConnectionInv, StaysOff, Ops, Tasks, Off, MQTTState
<1>11. EndsSeen'
  <2>1. WillSet("client", "Connected")' => session' = "Up"
    BY <1>1, <1>3 DEF ConnectionInv, EndsSeen, Tasks, MQTTState
  <2>2. Overwritten'
    BY <1>2, <1>3 DEF Overwritten, Writes
  <2>3. session' = "Up" /\ suppress' =>
            (Has("client", "Unsuppress") \/ Has("loop", "Stop") \/ Has("event", "Stop"))'
    <3>1. ~Has("loop", "Stop")
      BY <1>4 DEF ConnectionInv, Makes
    <3> QED BY <1>1, <1>3, <3>1 DEF ConnectionInv, EndsSeen, Tasks, Ops
  <2> QED BY <2>1, <2>2, <2>3 DEF EndsSeen
<1> QED BY <1>6, <1>7, <1>8, <1>9, <1>10, <1>11 DEF ConnectionInv

LEMMA DestroyKeeps ==
    ASSUME ConnectionInv, Destroy
    PROVE  ConnectionInv'
<1>1. /\ "loop" \in Tasks /\ "Destroy" \in Ops /\ todo \in [Tasks -> Lists] /\ Proceeds("loop")
      /\ Access("loop", "Destroy") /\ session' = "None" /\ UNCHANGED <<state, suppress, troubles>>
  BY DEF Destroy, ConnectionInv, OwnAccesses, Tasks, Ops
<1>2. /\ todo' \in [Tasks -> Lists]
      /\ \A z \in Tasks, o \in Ops : Has(z, o)' <=> Has(z, o) /\ ~(z = "loop" /\ o = "Destroy")
      /\ \A z \in Tasks, s \in MQTTState : WillSet(z, s)' <=> WillSet(z, s)
      /\ \A z \in Tasks : Idle(z) => Idle(z)'
  BY <1>1, ProceedsLemma
<1>3. /\ Has("loop", "Destroy")
      /\ \A o \in Ops : Has("loop", o) => Rank("Destroy") <= Rank(o)
  BY <1>1, AccessLemma
<1>4. ~Has("loop", "Stop") /\ ~Has("loop", "Joined")
  BY <1>3 DEF Rank, Ops
<1>5. Idle("client") /\ Off /\ Has("loop", "Read") /\ Has("loop", "Dial")
  BY <1>3, <1>4 DEF ConnectionInv, Makes
<1>6. (\A op : ~Has("client", op)) /\ \A s : ~WillSet("client", s)
  BY <1>5, IdleLemma DEF Tasks
<1>7. ConnectionRanges'
  BY <1>1 DEF ConnectionInv, ConnectionRanges, Sessions
<1>8. OwnAccesses'
  BY <1>2 DEF ConnectionInv, OwnAccesses, Ops, Tasks, MQTTState
<1>9. StopsEnd'
  BY <1>2 DEF ConnectionInv, StopsEnd, Ops, Tasks
<1>10. Makes'
  BY <1>1, <1>2, <1>5 DEF ConnectionInv, Makes, Ops, Tasks, Off
<1>11. StaysOff'
  BY <1>1, <1>2 DEF ConnectionInv, StaysOff, Ops, Tasks, Off, MQTTState
<1>12. EndsSeen'
  <2>1. ~WillSet("client", "Connected")'
    BY <1>2, <1>6 DEF Tasks, MQTTState
  <2>2. Overwritten'
    BY <1>2, <1>5 DEF Overwritten, Writes, Tasks, Ops
  <2> QED BY <1>1, <2>1, <2>2 DEF EndsSeen
<1> QED BY <1>7, <1>8, <1>9, <1>10, <1>11, <1>12 DEF ConnectionInv

(* The loop ends its list with a state that is not Connected.              *)
LEMMA LoopEndsKeeps ==
    ASSUME ConnectionInv, NEW s \in {"ErrorWait", "Connecting"}, Begins("loop", setState(s)),
           UNCHANGED <<state, suppress>>, troubles' \in 0..MaxTroubles,
           Has("loop", "Dial") \/ Has("loop", "Read"), ~Has("loop", "Stop"),
           session' = session \/ (session \in {"Stopped", "Waiting"} /\ session' = "Dialling")
    PROVE  ConnectionInv'
<1> DEFINE l == setState(s)
<1>1. /\ "loop" \in Tasks /\ todo \in [Tasks -> Lists] /\ s \in MQTTState
  BY DEF ConnectionInv, OwnAccesses, Tasks, MQTTState
<1>2. /\ l \in Lists
      /\ \A op : Holds(l, op) <=> op \in {"State", "Ready"}
      /\ \A z : Aims(l, z) <=> z = s
  BY <1>1, SetStateLemma
<1>3. Begins("loop", l)
  OBVIOUS
<1> HIDE DEF l
<1>4. /\ todo' \in [Tasks -> Lists]
      /\ \A op : Has("loop", op)' <=> Holds(l, op)
      /\ \A z : WillSet("loop", z)' <=> Aims(l, z)
      /\ \A z \in Tasks, o \in Ops : z # "loop" => (Has(z, o)' <=> Has(z, o))
      /\ \A z \in Tasks, r \in MQTTState : z # "loop" => (WillSet(z, r)' <=> WillSet(z, r))
      /\ \A z \in Tasks : z # "loop" => (Idle(z)' <=> Idle(z))
  BY <1>1, <1>2, <1>3, BeginsLemma
<1>5. state # "Disabled"
  BY DEF ConnectionInv, StaysOff, Makes
<1>6. ConnectionRanges'
  BY DEF ConnectionInv, ConnectionRanges, Sessions
<1>7. OwnAccesses'
  BY <1>2, <1>4 DEF ConnectionInv, OwnAccesses, Ops, Tasks, MQTTState
<1>8. StopsEnd'
  BY <1>2, <1>4 DEF ConnectionInv, StopsEnd, Ops, Tasks
<1>9. Makes'
  BY <1>2, <1>4 DEF ConnectionInv, Makes, Ops, Tasks, Off
<1>10. StaysOff'
  BY <1>2, <1>4, <1>5 DEF ConnectionInv, StaysOff, Ops, Tasks, Off, MQTTState
<1>11. EndsSeen'
  <2>1. WillSet("client", "Connected")' => session' = "Up"
    BY <1>4 DEF ConnectionInv, EndsSeen, Tasks, MQTTState
  <2>2. Overwritten'
    BY <1>2, <1>4 DEF Overwritten, Writes
  <2>3. session' = "Up" /\ suppress' =>
            (Has("client", "Unsuppress") \/ Has("loop", "Stop") \/ Has("event", "Stop"))'
    BY <1>4 DEF ConnectionInv, EndsSeen, Tasks, Ops
  <2> QED BY <2>1, <2>2, <2>3 DEF EndsSeen
<1> QED BY <1>6, <1>7, <1>8, <1>9, <1>10, <1>11 DEF ConnectionInv

LEMMA TroubleLemma ==
    ASSUME ConnectionInv, NEW n \in {0, 1}, Trouble(n)
    PROVE  troubles' \in 0..MaxTroubles
BY TroubleAssumption DEF ConnectionInv, ConnectionRanges, Trouble

LEMMA ReadKeeps ==
    ASSUME ConnectionInv, Read
    PROVE  ConnectionInv'
<1>1. /\ "loop" \in Tasks /\ "Read" \in Ops /\ todo \in [Tasks -> Lists]
      /\ Access("loop", "Read") /\ UNCHANGED <<state, suppress>>
  BY DEF Read, ConnectionInv, OwnAccesses, Tasks, Ops
<1>2. /\ Has("loop", "Read")
      /\ \A o \in Ops : Has("loop", o) => Rank("Read") <= Rank(o)
  BY <1>1, AccessLemma
<1>3. ~Has("loop", "Stop") /\ ~Has("loop", "Joined") /\ ~Has("loop", "Destroy")
  BY <1>2 DEF Rank, Ops
<1>4. session = "None" /\ Has("loop", "Dial") /\ Idle("client")
  BY <1>2, <1>3 DEF ConnectionInv, Makes
<1>5. CASE session' = "Stopped" /\ Proceeds("loop") /\ troubles' = troubles
  <2>1. /\ todo' \in [Tasks -> Lists]
        /\ \A z \in Tasks, o \in Ops : Has(z, o)' <=> Has(z, o) /\ ~(z = "loop" /\ o = "Read")
        /\ \A z \in Tasks, s \in MQTTState : WillSet(z, s)' <=> WillSet(z, s)
        /\ \A z \in Tasks : Idle(z) => Idle(z)'
    BY <1>1, <1>5, ProceedsLemma
  <2>2. (\A op : ~Has("client", op)) /\ \A s : ~WillSet("client", s)
    BY <1>4, IdleLemma DEF Tasks
  <2>3. ConnectionRanges'
    BY <1>1, <1>5 DEF ConnectionInv, ConnectionRanges, Sessions
  <2>4. OwnAccesses'
    BY <2>1 DEF ConnectionInv, OwnAccesses, Ops, Tasks, MQTTState
  <2>5. StopsEnd'
    BY <2>1 DEF ConnectionInv, StopsEnd, Ops, Tasks
  <2>6. Makes'
    BY <1>3, <1>5, <2>1 DEF ConnectionInv, Makes, Ops, Tasks, Off
  <2>7. StaysOff'
    BY <1>1, <1>5, <2>1 DEF ConnectionInv, StaysOff, Ops, Tasks, Off, MQTTState
  <2>8. EndsSeen'
    <3>1. ~WillSet("client", "Connected")'
      BY <2>1, <2>2 DEF Tasks, MQTTState
    <3>2. Overwritten'
      BY <1>4, <2>1 DEF Overwritten, Writes, Tasks, Ops
    <3> QED BY <1>5, <3>1, <3>2 DEF EndsSeen
  <2> QED BY <2>3, <2>4, <2>5, <2>6, <2>7, <2>8 DEF ConnectionInv
<1>6. CASE Trouble(1) /\ Begins("loop", setState("ErrorWait")) /\ session' = session
  <2>1. troubles' \in 0..MaxTroubles
    BY <1>6, TroubleLemma
  <2>2. /\ Begins("loop", setState("ErrorWait")) /\ "ErrorWait" \in {"ErrorWait", "Connecting"}
        /\ session' = session \/ (session \in {"Stopped", "Waiting"} /\ session' = "Dialling")
        /\ Has("loop", "Dial") \/ Has("loop", "Read")
    BY <1>2, <1>6
  <2> QED BY <1>1, <1>3, <2>1, <2>2, LoopEndsKeeps
<1> QED BY <1>5, <1>6 DEF Read

LEMMA DialKeeps ==
    ASSUME ConnectionInv, Dial
    PROVE  ConnectionInv'
<1>1. /\ "loop" \in Tasks /\ "Dial" \in Ops /\ todo \in [Tasks -> Lists]
      /\ Access("loop", "Dial") /\ UNCHANGED <<state, suppress>>
  BY DEF Dial, ConnectionInv, OwnAccesses, Tasks, Ops
<1>2. /\ Has("loop", "Dial")
      /\ \A o \in Ops : Has("loop", o) => Rank("Dial") <= Rank(o)
  BY <1>1, AccessLemma
<1>3. ~Has("loop", "Stop")
  BY <1>2 DEF Rank, Ops
<1>4. CASE /\ session \in {"Stopped", "Waiting"} /\ session' = "Dialling"
           /\ Begins("loop", setState("Connecting")) /\ UNCHANGED troubles
  <2>1. troubles' \in 0..MaxTroubles
    BY <1>4 DEF ConnectionInv, ConnectionRanges
  <2> QED BY <1>1, <1>2, <1>3, <1>4, <2>1, LoopEndsKeeps
<1>5. CASE /\ Trouble(IF session \in {"Stopped", "Waiting"} THEN 1 ELSE 0)
           /\ Begins("loop", setState("ErrorWait")) /\ session' = session
  <2>1. troubles' \in 0..MaxTroubles
    BY <1>5, TroubleLemma
  <2>2. /\ Begins("loop", setState("ErrorWait")) /\ "ErrorWait" \in {"ErrorWait", "Connecting"}
        /\ session' = session \/ (session \in {"Stopped", "Waiting"} /\ session' = "Dialling")
        /\ Has("loop", "Dial") \/ Has("loop", "Read")
    BY <1>2, <1>5
  <2> QED BY <1>1, <1>3, <2>1, <2>2, LoopEndsKeeps
<1> QED BY <1>4, <1>5 DEF Dial

LEMMA AimsLemma ==
    ASSUME NEW t \in Tasks, NEW s, WillSet(t, s)
    PROVE  Has(t, "State")
BY DEF WillSet, Has, Aims, Holds

LEMMA StopKeeps ==
    ASSUME ConnectionInv, NEW t \in Tasks, Stop(t)
    PROVE  ConnectionInv'
<1>1. /\ "Stop" \in Ops /\ "client" \in Tasks /\ todo \in [Tasks -> Lists]
      /\ Access(t, "Stop") /\ Idle("client") /\ UNCHANGED <<state, suppress, troubles>>
      /\ session' = IF session = "None" THEN "None" ELSE "Stopped"
  BY DEF Stop, ConnectionInv, OwnAccesses, Ops, Tasks
<1>2. /\ Has(t, "Stop") /\ Tail(todo[t]) \in Lists
      /\ \A o \in Ops : Has(t, o) => Rank("Stop") <= Rank(o)
      /\ \A o \in Ops : Holds(Tail(todo[t]), o) <=> Has(t, o) /\ o # "Stop"
      /\ \A s : WillSet(t, s) => Aims(Tail(todo[t]), s)
      /\ \A s \in MQTTState : Aims(Tail(todo[t]), s) => WillSet(t, s)
  BY <1>1, AccessLemma
<1>3. t \in {"loop", "event"}
  BY <1>2 DEF ConnectionInv, OwnAccesses, Tasks
<1>4. ~Has(t, "Suppress") /\ ~Has(t, "Ensure") /\ (Has(t, "State") \/ Has(t, "Dial"))
  BY <1>2, <1>3 DEF Rank, Ops, ConnectionInv, StopsEnd
<1>5. (\A op : ~Has("client", op)) /\ \A s : ~WillSet("client", s)
  BY <1>1, IdleLemma
<1>6. /\ todo' \in [Tasks -> Lists] /\ todo'[t] = Tail(todo[t])
      /\ \A z \in Tasks : z # t /\ z # "client" => todo'[z] = todo[z]
      /\ \/ todo'["client"] = todo["client"]
         \/ session = "Up" /\ todo'["client"] = <<[op |-> "Lost"]>>
  <2>1. CASE Proceeds(t)
    <3>1. todo' = [todo EXCEPT ![t] = Tail(todo[t])]
      BY <2>1 DEF Proceeds, Begins
    <3> QED BY <1>1, <1>2, <1>3, <3>1
  <2>2. CASE /\ session = "Up"
             /\ todo' = [todo EXCEPT ![t] = Tail(@), !["client"] = <<[op |-> "Lost"]>>]
    <3> DEFINE l == <<[op |-> "Lost"]>>
    <3>1. l \in Lists
      BY LostLemma
    <3>2. todo' = [todo EXCEPT ![t] = Tail(todo[t]), !["client"] = l]
      BY <2>2
    <3> HIDE DEF l
    <3>3. /\ todo' \in [Tasks -> Lists] /\ todo'[t] = Tail(todo[t]) /\ todo'["client"] = l
          /\ \A z \in Tasks : z # t /\ z # "client" => todo'[z] = todo[z]
      BY <1>1, <1>2, <1>3, <3>1, <3>2
    <3> QED BY <2>2, <3>3 DEF l
  <2> QED BY <2>1, <2>2 DEF Stop
<1>7. /\ \A o \in Ops : Has(t, o)' <=> Has(t, o) /\ o # "Stop"
      /\ \A s \in MQTTState : WillSet(t, s)' <=> WillSet(t, s)
      /\ \A z \in Tasks : z # t /\ z # "client" =>
            /\ \A o : Has(z, o)' <=> Has(z, o)
            /\ \A s : WillSet(z, s)' <=> WillSet(z, s)
      /\ \A o : Has("client", o)' => o = "Lost"
      /\ \A s : ~WillSet("client", s)'
      /\ Idle("client")' \/ session = "Up"
  <2>1. /\ \A o : Holds(todo'["client"], o) => o = "Lost"
        /\ \A s : ~Aims(todo'["client"], s)
        /\ todo'["client"] = <<>> \/ session = "Up"
    BY <1>1, <1>5, <1>6, LostLemma DEF Has, WillSet, Idle
  <2> QED BY <1>2, <1>6, <2>1 DEF Has, WillSet, Idle
<1>8. ConnectionRanges'
  BY <1>1 DEF ConnectionInv, ConnectionRanges, Sessions
<1>9. OwnAccesses'
  BY <1>3, <1>6, <1>7 DEF ConnectionInv, OwnAccesses, Ops, Tasks, MQTTState
<1>10. StopsEnd'
  BY <1>3, <1>4, <1>7 DEF ConnectionInv, StopsEnd, Ops, Tasks
<1>11. Makes'
  BY <1>1, <1>2, <1>3, <1>7 DEF ConnectionInv, Makes, Ops, Tasks, Off
<1>12. StaysOff'
  BY <1>1, <1>3, <1>7 DEF ConnectionInv, StaysOff, Ops, Tasks, Off, MQTTState
<1>13. EndsSeen'
  <2>1. ~WillSet("client", "Connected")' /\ session' # "Up"
    BY <1>1, <1>7
  <2>2. Overwritten'
    BY <1>3, <1>4, <1>7 DEF Overwritten, Writes, Tasks, Ops
  <2> QED BY <2>1, <2>2 DEF EndsSeen
<1> QED BY <1>8, <1>9, <1>10, <1>11, <1>12, <1>13 DEF ConnectionInv

(* The client's task begins a list.                                        *)
LEMMA ClientBegins ==
    ASSUME ConnectionInv, NEW l \in Lists, Begins("client", l)
    PROVE  /\ todo' \in [Tasks -> Lists]
           /\ \A op : Has("client", op)' <=> Holds(l, op)
           /\ \A s : WillSet("client", s)' <=> Aims(l, s)
           /\ \A z \in {"loop", "event"} :
                 /\ \A o \in Ops : Has(z, o)' <=> Has(z, o)
                 /\ \A s \in MQTTState : WillSet(z, s)' <=> WillSet(z, s)
<1>1. "client" \in Tasks /\ todo \in [Tasks -> Lists]
  BY DEF ConnectionInv, OwnAccesses, Tasks
<1>2. /\ todo' \in [Tasks -> Lists]
      /\ \A op : Has("client", op)' <=> Holds(l, op)
      /\ \A s : WillSet("client", s)' <=> Aims(l, s)
      /\ \A z \in Tasks, o \in Ops : z # "client" => (Has(z, o)' <=> Has(z, o))
      /\ \A z \in Tasks, s \in MQTTState : z # "client" => (WillSet(z, s)' <=> WillSet(z, s))
  BY <1>1, BeginsLemma
<1> QED BY <1>2 DEF Tasks

LEMMA DisconnectKeeps ==
    ASSUME ConnectionInv, onDisconnect
    PROVE  ConnectionInv'
<1> DEFINE l == IF suppress THEN <<>> ELSE setState("ErrorWait")
<1>1. /\ "client" \in Tasks /\ "Lost" \in Ops /\ todo \in [Tasks -> Lists]
      /\ "ErrorWait" \in MQTTState /\ Begins("client", l)
      /\ Access("client", "Lost") /\ UNCHANGED <<state, session, troubles>>
  BY DEF onDisconnect, ConnectionInv, OwnAccesses, Tasks, Ops, MQTTState
<1>2. ~suppress'
  BY Zenon DEF onDisconnect
<1>3. /\ l \in Lists
      /\ \A op : Holds(l, op) => op \in {"State", "Ready"}
      /\ \A z : Aims(l, z) => z = "ErrorWait"
      /\ ~suppress => Aims(l, "ErrorWait")
  BY <1>1, NoneLeft, SetStateLemma
<1> HIDE DEF l
<1>4. /\ todo' \in [Tasks -> Lists]
      /\ \A op : Has("client", op)' <=> Holds(l, op)
      /\ \A s : WillSet("client", s)' <=> Aims(l, s)
      /\ \A z \in {"loop", "event"} :
            /\ \A o \in Ops : Has(z, o)' <=> Has(z, o)
            /\ \A s \in MQTTState : WillSet(z, s)' <=> WillSet(z, s)
  BY <1>1, <1>3, ClientBegins
<1>5. ~Idle("client") /\ ~Has("client", "State")
  <2>1. \A o \in Ops : Has("client", o) => Rank("Lost") <= Rank(o)
    BY <1>1, AccessLemma
  <2>2. "State" \in Ops /\ ~(Rank("Lost") <= Rank("State"))
    BY DEF Rank, Ops
  <2> QED BY <1>1, <2>1, <2>2 DEF Access
<1>6. \A s : ~WillSet("client", s)
  BY <1>1, <1>5, AimsLemma
<1>7. ConnectionRanges'
  BY <1>1 DEF ConnectionInv, ConnectionRanges
<1>8. OwnAccesses'
  BY <1>3, <1>4 DEF ConnectionInv, OwnAccesses, Ops, MQTTState
<1>9. StopsEnd'
  BY <1>4 DEF ConnectionInv, StopsEnd, Ops
<1>10. Makes'
  BY <1>1, <1>4, <1>5 DEF ConnectionInv, Makes, Ops, Off
<1>11. StaysOff'
  BY <1>1, <1>4 DEF ConnectionInv, StaysOff, Ops, Off, MQTTState
<1>12. EndsSeen'
  <2>1. ~WillSet("client", "Connected")'
    BY <1>3, <1>4
  <2>2. Overwritten => Overwritten'
    <3>1. \A z \in {"loop", "event"} : Writes(z) => Writes(z)'
      BY <1>4 DEF Writes, Ops
    <3>2. ~suppress => WillSet("client", "ErrorWait")'
      BY <1>3, <1>4
    <3> QED BY <1>6, <3>1, <3>2 DEF Overwritten
  <2> QED BY <1>1, <1>2, <2>1, <2>2 DEF ConnectionInv, EndsSeen
<1> QED BY <1>7, <1>8, <1>9, <1>10, <1>11, <1>12 DEF ConnectionInv

LEMMA ReportKeeps ==
    ASSUME ConnectionInv, NEW l \in Lists, NEW s \in {"Up", "Waiting"}, NEW n \in {0, 1},
           Reports(s, l, n), session \in {"Dialling", "Up"},
           \A op : Holds(l, op) => op \in {"Unsuppress", "State", "Ready", "Lost"},
           s = "Up" => Holds(l, "Unsuppress"),
           s = "Waiting" => Holds(l, "Lost") /\ ~Aims(l, "Connected"),
           ~Aims(l, "Disabled")
    PROVE  ConnectionInv'
<1>1. /\ Begins("client", l) /\ Idle("client") /\ session' = s
      /\ UNCHANGED <<state, suppress>>
  BY DEF Reports
<1>2. troubles' \in 0..MaxTroubles
  BY TroubleLemma DEF Reports
<1>3. /\ todo' \in [Tasks -> Lists]
      /\ \A op : Has("client", op)' <=> Holds(l, op)
      /\ \A r : WillSet("client", r)' <=> Aims(l, r)
      /\ \A z \in {"loop", "event"} :
            /\ \A o \in Ops : Has(z, o)' <=> Has(z, o)
            /\ \A r \in MQTTState : WillSet(z, r)' <=> WillSet(z, r)
  BY <1>1, ClientBegins
<1>4. (\A op : ~Has("client", op)) /\ \A r : ~WillSet("client", r)
  BY <1>1, IdleLemma DEF Tasks
<1>5. ConnectionRanges'
  BY <1>1, <1>2 DEF ConnectionInv, ConnectionRanges, Sessions
<1>6. OwnAccesses'
  BY <1>3 DEF ConnectionInv, OwnAccesses, Ops, MQTTState
<1>7. StopsEnd'
  BY <1>3 DEF ConnectionInv, StopsEnd, Ops
<1>8. Makes'
  BY <1>1, <1>3 DEF ConnectionInv, Makes, Ops, Off
<1>9. StaysOff'
  BY <1>1, <1>3 DEF ConnectionInv, StaysOff, Ops, Off, MQTTState
<1>10. EndsSeen'
  <2>1. WillSet("client", "Connected")' => session' = "Up"
    BY <1>1, <1>3
  <2>2. \A z \in {"loop", "event"} :
          (Writes(z) => Writes(z)') /\ (Has(z, "Stop") => Writes(z))
    BY <1>3 DEF ConnectionInv, StopsEnd, Writes, Ops
  <2>3. state' = "Connected" => session' = "Up" \/ Overwritten'
    BY <1>1, <1>3, <1>4, <2>2 DEF ConnectionInv, EndsSeen, Overwritten
  <2>4. session' = "Up" => Has("client", "Unsuppress")'
    BY <1>1, <1>3
  <2> QED BY <2>1, <2>3, <2>4 DEF EndsSeen
<1> QED BY <1>5, <1>6, <1>7, <1>8, <1>9, <1>10 DEF ConnectionInv

LEMMA ClientReports ==
    ASSUME ConnectionInv, AttemptSucceeds \/ AttemptFails \/ ConnectionFails
    PROVE  ConnectionInv'
<1>1. CASE AttemptSucceeds
  <2> DEFINE l == onConnect
  <2>1. PICK n \in {0, 1} : Reports("Up", l, n)
    BY <1>1 DEF AttemptSucceeds
  <2>2. session \in {"Dialling", "Up"}
    BY <1>1 DEF AttemptSucceeds
  <2>3. /\ l \in Lists /\ \A op : Holds(l, op) <=> op \in {"Unsuppress", "State", "Ready"}
        /\ ~Aims(l, "Disabled")
    BY OnConnectLemma
  <2> HIDE DEF l
  <2> QED BY <2>1, <2>2, <2>3, ReportKeeps
<1>2. CASE AttemptFails \/ ConnectionFails
  <2> DEFINE l == <<[op |-> "Lost"]>>
  <2>1. PICK n \in {0, 1} : Reports("Waiting", l, n)
    BY <1>2 DEF AttemptFails, ConnectionFails
  <2>2. session \in {"Dialling", "Up"}
    BY <1>2 DEF AttemptFails, ConnectionFails
  <2>3. /\ l \in Lists /\ \A op : Holds(l, op) <=> op = "Lost"
        /\ ~Aims(l, "Disabled") /\ ~Aims(l, "Connected")
    BY LostLemma
  <2> HIDE DEF l
  <2> QED BY <2>1, <2>2, <2>3, ReportKeeps
<1> QED BY <1>1, <1>2

LEMMA SurroundingsKeepConnection ==
    ASSUME ConnectionInv, NetworkChanges \/ SettingsChange \/ EnabledChanges
    PROVE  ConnectionInv'
<1>1. Trouble(1) /\ UNCHANGED <<state, suppress, session, todo>>
  BY DEF NetworkChanges, SettingsChange, EnabledChanges
<1>2. troubles' \in 0..MaxTroubles
  BY <1>1, TroubleLemma
<1> QED BY <1>1, <1>2
        DEF ConnectionInv, ConnectionRanges, OwnAccesses, StopsEnd, Makes, StaysOff, EndsSeen,
            Overwritten, Writes, Off, Has, WillSet, Idle

LEMMA ConnectionStep ==
    ASSUME ConnectionInv, [ConnectionNext]_connectionVars
    PROVE  ConnectionInv'
<1>1. CASE UNCHANGED connectionVars
  BY <1>1 DEF connectionVars, ConnectionInv, ConnectionRanges, OwnAccesses, StopsEnd, Makes,
              StaysOff, EndsSeen, Overwritten, Writes, Off, Has, WillSet, Idle
<1>2. ASSUME NEW t \in Tasks, Joined(t)
      PROVE  ConnectionInv'
  BY <1>2, PassKeeps DEF Joined
<1>3. ASSUME NEW t \in Tasks, Accessing(t)
      PROVE  ConnectionInv'
  BY <1>2, <1>3, SetsKeeps, StopKeeps DEF Accessing
<1>4. CASE Looping \/ GoesRound
  BY <1>4, LoopDecides, EnsureKeeps, DestroyKeeps, ReadKeeps, DialKeeps DEF Looping
<1>5. CASE onDisconnect \/ SeesSettings
  BY <1>5, DisconnectKeeps, SettingsKeeps
<1>6. CASE AttemptSucceeds \/ AttemptFails \/ ConnectionFails
  BY <1>6, ClientReports
<1>7. CASE NetworkChanges \/ SettingsChange \/ EnabledChanges
  BY <1>7, SurroundingsKeepConnection
<1> QED BY <1>1, <1>3, <1>4, <1>5, <1>6, <1>7 DEF ConnectionNext

(* The flags are flags.                                                    *)
LEMMA ConnectionFlagsStep ==
    ASSUME ConnectionFlags, [ConnectionNext]_connectionVars
    PROVE  ConnectionFlags'
<1>1. CASE UNCHANGED connectionVars
  BY <1>1 DEF connectionVars, ConnectionFlags
<1>2. ASSUME NEW t \in Tasks, Accessing(t)
      PROVE  ConnectionFlags'
  BY <1>2 DEF Accessing, Sets, Stop, Joined, Access, ConnectionFlags
<1>3. CASE onDisconnect
  BY <1>3 DEF onDisconnect, ConnectionFlags
<1>4. CASE Looping \/ GoesRound
  <2>1. /\ UNCHANGED <<ready, enabled, suppress, clientConfigDirty, changed>>
        /\ stale' = stale \/ stale' = FALSE
    BY <1>4, Zenon DEF Looping, Ensure, Destroy, Read, Dial, SeesNetwork, Switch, Decides,
                       Disables, Enables, Connects, TimesOut, Retries, GoesRound
  <2>2. \/ net' = net
        \/ net' = [real |-> net.real, seen |-> net.real, key |-> FALSE]
    BY <1>4, Zenon DEF Looping, Ensure, Destroy, Read, Dial, SeesNetwork, Switch, GoesRound
  <2>3. net' \in [real : BOOLEAN, seen : BOOLEAN, key : BOOLEAN]
    <3>1. net \in [real : BOOLEAN, seen : BOOLEAN, key : BOOLEAN]
      BY DEF ConnectionFlags
    <3>2. net.real \in BOOLEAN
      BY <3>1
    <3>3. \A a, b, c \in BOOLEAN : [real |-> a, seen |-> b, key |-> c]
                                    \in [real : BOOLEAN, seen : BOOLEAN, key : BOOLEAN]
      OBVIOUS
    <3>4. [real |-> net.real, seen |-> net.real, key |-> FALSE]
             \in [real : BOOLEAN, seen : BOOLEAN, key : BOOLEAN]
      BY <3>2, <3>3
    <3> QED BY <2>2, <3>1, <3>4
  <2> QED BY <2>1, <2>3 DEF ConnectionFlags
<1>5. CASE SeesSettings \/ AttemptSucceeds \/ AttemptFails \/ ConnectionFails
  BY <1>5 DEF SeesSettings, AttemptSucceeds, AttemptFails, ConnectionFails, Reports,
              ConnectionFlags
<1>6. CASE NetworkChanges \/ SettingsChange \/ EnabledChanges
  BY <1>6 DEF NetworkChanges, SettingsChange, EnabledChanges, ConnectionFlags
<1> QED BY <1>1, <1>2, <1>3, <1>4, <1>5, <1>6 DEF ConnectionNext

LEMMA ConnectionInvImplies == ConnectionInv /\ ConnectionFlags => ConnectionSound
<1> SUFFICES ASSUME ConnectionInv, ConnectionFlags PROVE ConnectionSound
  OBVIOUS
<1>1. /\ "loop" \in Tasks /\ "client" \in Tasks /\ "Dial" \in Ops
      /\ todo \in [Tasks -> Lists]
  BY DEF ConnectionInv, OwnAccesses, Tasks, Ops
<1>2. Access("loop", "Dial") => session # "None"
  <2> SUFFICES ASSUME Access("loop", "Dial") PROVE session # "None"
    OBVIOUS
  <2>1. Has("loop", "Dial") /\ \A o \in Ops : Has("loop", o) => Rank("Dial") <= Rank(o)
    BY <1>1, AccessLemma
  <2>2. ~Has("loop", "Read")
    BY <2>1 DEF Rank, Ops
  <2> QED BY <2>1, <2>2 DEF ConnectionInv, Makes
<1>3. \A t \in Tasks : \A i \in DOMAIN todo[t] : todo[t][i] \in Accesses
  <2>1. \A l \in Lists : \A i \in DOMAIN l : l[i] \in Accesses
    BY DEF Lists
  <2> QED BY <1>1, <2>1
<1>4. ConnectionRanges
  BY DEF ConnectionInv
<1>5. ConnectionTypeOK
  BY <1>2, <1>3, <1>4, Zenon DEF ConnectionTypeOK, ConnectionRanges, ConnectionFlags
<1>6. StateMatchesClient
  <2> SUFFICES ASSUME AllIdle
               PROVE  /\ state = "Connected" => session = "Up"
                      /\ state = "Disabled" => session \in {"None", "Stopped"}
    BY DEF StateMatchesClient
  <2>1. \A t \in Tasks : (\A op : ~Has(t, op)) /\ \A s : ~WillSet(t, s)
    BY IdleLemma DEF AllIdle
  <2>2. ~Overwritten
    BY <2>1 DEF Overwritten, Writes, Tasks
  <2> QED BY <2>2 DEF ConnectionInv, EndsSeen, StaysOff, Off
<1> QED BY <1>5, <1>6 DEF ConnectionSound

(* Whatever three tasks do to the state, the flags and the client, each    *)
(* access on its own and without a lock, the module that is at rest is     *)
(* connected when it says so and stopped when it is disabled (MQTTModule). *)
THEOREM ConnectionCorrect == ConnectionSpec => []ConnectionSound
<1>1. ConnectionInit => ConnectionFlags
  <2> SUFFICES ASSUME ConnectionInit PROVE ConnectionFlags
    OBVIOUS
  <2>1. net \in [real : BOOLEAN, seen : BOOLEAN, key : BOOLEAN]
    BY DEF ConnectionInit
  <2>2. /\ ready \in BOOLEAN /\ enabled \in BOOLEAN /\ suppress \in BOOLEAN
        /\ changed \in BOOLEAN /\ clientConfigDirty \in BOOLEAN /\ stale \in BOOLEAN
    BY Zenon DEF ConnectionInit
  <2> QED BY <2>1, <2>2 DEF ConnectionFlags
<1>2. ConnectionSpec => [](ConnectionInv /\ ConnectionFlags)
  BY <1>1, ConnectionInvInit, ConnectionStep, ConnectionFlagsStep, PTL DEF ConnectionSpec
<1> QED BY <1>2, ConnectionInvImplies, PTL

-----------------------------------------------------------------------------
(* The publish queue *)

LEMMA QueueConstants ==
    /\ N \in Nat \ {0} /\ MinDelay \in Nat \ {0} /\ MaxDelay \in Nat \ {0}
    /\ MaxRetries \in Nat /\ Pace \in Nat
    /\ \A p \in Prios : Cap[p] \in Nat \ {0}
    /\ \A r \in Requests : r.msg \in Messages /\ r.priority \in Prios
    /\ NoMessage \notin Messages
BY SizeAssumption, CapAssumption, RequestsAssumption, NoMessageAssumption, DelayAssumption,
   MaxRetriesAssumption, PaceAssumption

LEMMA IsSequence ==
    ASSUME NEW S, NEW n \in Nat, NEW f \in [1..n -> S] PROVE f \in Seq(S) /\ Len(f) = n
OBVIOUS

LEMMA LastOnes ==
    ASSUME NEW S, NEW s \in Seq(S), NEW n \in 0..Len(s)
    PROVE  /\ SubSeq(s, n + 1, Len(s)) \in Seq(S)
           /\ Len(SubSeq(s, n + 1, Len(s))) = Len(s) - n
           /\ \A i \in 1..(Len(s) - n) : SubSeq(s, n + 1, Len(s))[i] = s[i + n]
OBVIOUS

LEMMA PowerIsNat == ASSUME NEW r \in Nat PROVE 2^r \in Nat
<1>1. IsFiniteSet(1..r) /\ Cardinality(1..r) = r
  BY FS_Interval
<1>2. IsFiniteSet(SUBSET (1..r)) /\ Cardinality(SUBSET (1..r)) = 2^r
  BY <1>1, FS_SUBSET
<1> QED
  BY <1>2, FS_CardinalityType

LEMMA DelayType == ASSUME NEW r \in Nat PROVE Delay(r) \in 0..MaxDelay
<1>1. 2^r \in Nat /\ MinDelay \in Nat /\ MaxDelay \in Nat
  BY PowerIsNat, QueueConstants
<1> DEFINE x == 2^r
<1> HIDE DEF x
<1>2. MinDelay * x \in Nat
  BY <1>1 DEF x
<1> DEFINE y == MinDelay * x
<1> HIDE DEF y
<1>3. Lesser(y, MaxDelay) \in 0..MaxDelay
  BY <1>1, <1>2 DEF Lesser, y
<1> QED
  BY <1>3 DEF Delay, x, y

(* What is known of the slots and the rings between any two changes: a     *)
(* reference that is not old is of a job queued in that ring, a queued job *)
(* has one and has rested, and in the ring of high priority none is old.   *)
QueueShape(k) ==
    /\ k \in [jobs : [Slots -> Job], rings : [Prios -> Seq(Ref)], cursor : [Prios -> Slots]]
    /\ \A p \in Prios : Len(k.rings[p]) <= Cap[p]

LiveIsQueued(k) ==
    \A p \in Prios : \A i \in 1..Len(k.rings[p]) :
        ~k.rings[p][i].old => /\ k.jobs[k.rings[p][i].slot].state = "Queued"
                              /\ k.jobs[k.rings[p][i].slot].queuedPrio = p

QueuedIsLive(k) ==
    \A s \in Slots : k.jobs[s].state = "Queued" =>
        \E i \in 1..Len(k.rings[k.jobs[s].queuedPrio]) :
            /\ k.rings[k.jobs[s].queuedPrio][i].slot = s
            /\ ~k.rings[k.jobs[s].queuedPrio][i].old

OneLive(k) ==
    \A p \in Prios : \A i, j \in 1..Len(k.rings[p]) :
        ~k.rings[p][i].old /\ ~k.rings[p][j].old /\ k.rings[p][i].slot = k.rings[p][j].slot
        => i = j

QueuedIsDue(k) ==
    \A s \in Slots : k.jobs[s].state = "Queued" =>
        k.jobs[s].delay = 0 /\ k.jobs[s].queuedPrio <= k.jobs[s].priority

UrgentIsLive(k) == \A i \in 1..Len(k.rings[High]) : ~k.rings[High][i].old

QueueOK(k) ==
    /\ QueueShape(k) /\ LiveIsQueued(k) /\ QueuedIsLive(k) /\ OneLive(k)
    /\ QueuedIsDue(k) /\ UrgentIsLive(k)

(* A job keeps all but its place: queued or waiting.                       *)
SameJob(d, e) ==
    /\ e.msg = d.msg /\ e.priority = d.priority /\ e.again = d.again
    /\ e.retries = d.retries /\ e.delay = d.delay
    /\ e.state = d.state \/ {d.state, e.state} \subseteq {"Queued", "Waiting"}

SameJobs(k, l) == \A s \in Slots : SameJob(k.jobs[s], l.jobs[s])

LEMMA SameJobsTwice ==
    ASSUME NEW k, NEW l, NEW m, SameJobs(k, l), SameJobs(l, m) PROVE SameJobs(k, m)
BY DEF SameJobs, SameJob

RingsOf(k) ==
    /\ \A p \in Prios : /\ k.rings[p] \in Seq(Ref) /\ Len(k.rings[p]) \in Nat
                        /\ DOMAIN k.rings[p] = 1..Len(k.rings[p])
                        /\ \A i \in 1..Len(k.rings[p]) :
                              k.rings[p][i].slot \in Slots /\ k.rings[p][i].old \in BOOLEAN
    /\ \A s \in Slots : k.jobs[s] \in Job
    /\ High \in Prios

LEMMA RingsAre == ASSUME NEW k, QueueShape(k) PROVE RingsOf(k)
<1>1. \A p \in Prios : k.rings[p] \in Seq(Ref)
  BY DEF QueueShape
<1>2. ASSUME NEW p \in Prios
      PROVE  /\ Len(k.rings[p]) \in Nat /\ DOMAIN k.rings[p] = 1..Len(k.rings[p])
             /\ \A i \in 1..Len(k.rings[p]) : k.rings[p][i] \in Ref
  BY <1>1, <1>2
<1>3. High \in Prios
  BY DEF High, Prios
<1> QED
  BY <1>1, <1>2, <1>3 DEF QueueShape, RingsOf, Ref

LEMMA SupersededIs ==
    ASSUME NEW ring \in Seq(Ref), NEW S
    PROVE  /\ Superseded(ring, S) \in Seq(Ref) /\ Len(Superseded(ring, S)) = Len(ring)
           /\ \A i \in 1..Len(ring) :
                 /\ Superseded(ring, S)[i].slot = ring[i].slot
                 /\ Superseded(ring, S)[i].old <=> ring[i].old \/ ring[i].slot \in S
<1>1. Len(ring) \in Nat /\ DOMAIN ring = 1..Len(ring) /\ \A i \in 1..Len(ring) : ring[i] \in Ref
  OBVIOUS
<1>2. ASSUME NEW i \in 1..Len(ring)
      PROVE  /\ [ring[i] EXCEPT !.old = @ \/ ring[i].slot \in S] \in Ref
             /\ [ring[i] EXCEPT !.old = @ \/ ring[i].slot \in S].slot = ring[i].slot
             /\ [ring[i] EXCEPT !.old = @ \/ ring[i].slot \in S].old
                   <=> ring[i].old \/ ring[i].slot \in S
  BY <1>1 DEF Ref
<1>3. Superseded(ring, S) =
        [i \in 1..Len(ring) |-> [ring[i] EXCEPT !.old = @ \/ ring[i].slot \in S]]
  BY <1>1 DEF Superseded
<1>4. Superseded(ring, S) \in [1..Len(ring) -> Ref]
  BY <1>2, <1>3
<1>5. Superseded(ring, S) \in Seq(Ref) /\ Len(Superseded(ring, S)) = Len(ring)
  BY <1>1, <1>4, IsSequence
<1>6. \A i \in 1..Len(ring) :
         Superseded(ring, S)[i] = [ring[i] EXCEPT !.old = @ \/ ring[i].slot \in S]
  BY <1>3
<1> QED
  BY <1>2, <1>5, <1>6

(* queueSlot_ of slots that have rested and have no place in the ring of   *)
(* high priority: the rest of the rings is as it was.                      *)
Admissible(d, p) ==
    /\ d.delay = 0 /\ p <= d.priority
    /\ d.state = "Queued" => d.queuedPrio # High

Order(order, n) ==
    /\ n \in Nat /\ order \in [1..n -> Slots]
    /\ \A i, j \in 1..n : order[i] = order[j] => i = j

Placed(order, n, s) == \E i \in 1..n : order[i] = s

(* What queueSlots makes of the jobs, and of each ring.                    *)
JobsPlaced(k, l, p, n, order) ==
    /\ l = [k EXCEPT !.jobs = l.jobs, !.rings = l.rings]
    /\ l.rings = [r \in Prios |-> l.rings[r]]
    /\ l.jobs \in [Slots -> Job]
    /\ \A s \in Slots :
          /\ Placed(order, n, s)
               => l.jobs[s] = [k.jobs[s] EXCEPT !.state = "Queued", !.queuedPrio = p]
          /\ ~Placed(order, n, s) => l.jobs[s] = k.jobs[s]

RingPlaced(ring, l, n, order, here) ==
    /\ l \in Seq(Ref)
    /\ Len(l) = Len(ring) + (IF here THEN n ELSE 0)
    /\ \A i \in 1..Len(ring) :
          /\ l[i].slot = ring[i].slot
          /\ l[i].old <=> ring[i].old \/ Placed(order, n, ring[i].slot)
    /\ here => \A i \in (Len(ring) + 1)..(Len(ring) + n) :
                  l[i].slot = order[i - Len(ring)] /\ ~l[i].old

LEMMA QueuedJobs ==
    ASSUME NEW k, QueueShape(k), NEW p \in Prios, NEW n, NEW order, Order(order, n)
    PROVE  JobsPlaced(k, queueSlots(k, p, order), p, n, order)
<1> DEFINE l == queueSlots(k, p, order)
           S == ToSet(order)
<1>1. \A s : s \in S <=> \E i \in 1..n : order[i] = s
  BY DEF Order, ToSet
<1>2. l.jobs = [s \in Slots |->
                  IF s \in S THEN [k.jobs[s] EXCEPT !.state = "Queued", !.queuedPrio = p]
                  ELSE k.jobs[s]]
  BY DEF QueueShape, queueSlots
<1>3. \A s \in Slots : k.jobs[s] \in Job
  BY DEF QueueShape
<1>4. \A s \in Slots : [k.jobs[s] EXCEPT !.state = "Queued", !.queuedPrio = p] \in Job
  BY <1>3 DEF Job, States
<1>5. l.jobs \in [Slots -> Job]
  BY <1>2, <1>3, <1>4
<1>6. l.rings = [r \in Prios |-> l.rings[r]] /\ l = [k EXCEPT !.jobs = l.jobs, !.rings = l.rings]
  BY DEF QueueShape, queueSlots
<1> HIDE DEF l, S
<1>7. ASSUME NEW s \in Slots
      PROVE  /\ s \in S => l.jobs[s] = [k.jobs[s] EXCEPT !.state = "Queued", !.queuedPrio = p]
             /\ s \notin S => l.jobs[s] = k.jobs[s]
  BY <1>2
<1>8. ASSUME NEW s \in Slots
      PROVE  /\ (\E i \in 1..n : order[i] = s)
                  => l.jobs[s] = [k.jobs[s] EXCEPT !.state = "Queued", !.queuedPrio = p]
             /\ ~(\E i \in 1..n : order[i] = s) => l.jobs[s] = k.jobs[s]
  BY <1>1, <1>7
<1> QED
  BY <1>5, <1>6, <1>8 DEF l, JobsPlaced, Placed

LEMMA QueuedRings ==
    ASSUME NEW k, QueueShape(k), NEW p \in Prios, NEW n, NEW order, Order(order, n),
           NEW r \in Prios
    PROVE  RingPlaced(k.rings[r], queueSlots(k, p, order).rings[r], n, order, r = p)
<1> DEFINE l == queueSlots(k, p, order).rings[r]
           S == ToSet(order)
           refs == [i \in DOMAIN order |-> [slot |-> order[i], old |-> FALSE]]
           head == Superseded(k.rings[r], S)
           tail == IF r = p THEN refs ELSE <<>>
           more == IF r = p THEN n ELSE 0
<1>1. \A s : s \in S <=> \E i \in 1..n : order[i] = s
  BY DEF Order, ToSet
<1>2. n \in Nat /\ DOMAIN order = 1..n /\ \A i \in 1..n : order[i] \in Slots
  BY DEF Order
<1>3. refs \in [1..n -> Ref] /\ \A i \in 1..n : refs[i] = [slot |-> order[i], old |-> FALSE]
  BY <1>2 DEF Ref
<1>4. refs \in Seq(Ref) /\ Len(refs) = n
  BY <1>2, <1>3, IsSequence
<1>5. l = head \o tail
  BY DEF QueueShape, queueSlots
<1>6. /\ k.rings[r] \in Seq(Ref) /\ Len(k.rings[r]) \in Nat
  BY RingsAre DEF RingsOf
<1>7. /\ head \in Seq(Ref) /\ Len(head) = Len(k.rings[r])
      /\ \A i \in 1..Len(k.rings[r]) :
            /\ head[i].slot = k.rings[r][i].slot
            /\ head[i].old <=> k.rings[r][i].old \/ k.rings[r][i].slot \in S
  BY <1>6, SupersededIs
<1>8. tail \in Seq(Ref) /\ Len(tail) = more /\ more \in Nat
  BY <1>2, <1>4
<1>9. \A i \in 1..more : tail[i].slot = order[i] /\ ~tail[i].old
  BY <1>2, <1>3
<1> HIDE DEF l, head, tail, refs
<1>10. /\ l \in Seq(Ref) /\ Len(l) = Len(head) + Len(tail)
       /\ \A i \in 1..(Len(head) + Len(tail)) :
             l[i] = IF i <= Len(head) THEN head[i] ELSE tail[i - Len(head)]
  BY <1>5, <1>7, <1>8, ConcatProperties
<1> DEFINE m == Len(k.rings[r])
<1>11. l \in Seq(Ref) /\ Len(l) = m + more
  BY <1>7, <1>8, <1>10
<1>12. ASSUME NEW i \in 1..m
       PROVE  /\ l[i].slot = k.rings[r][i].slot
              /\ l[i].old <=> k.rings[r][i].old \/ \E j \in 1..n : order[j] = k.rings[r][i].slot
  <2>1. l[i] = head[i]
    <3>1. i \in 1..(Len(head) + Len(tail)) /\ i <= Len(head)
      BY <1>6, <1>7, <1>8
    <3> QED
      BY <1>10, <3>1
  <2> QED
    BY <1>1, <1>7, <2>1
<1>13. ASSUME NEW i \in (m + 1)..(m + more)
       PROVE  l[i].slot = order[i - m] /\ ~l[i].old
  <2>1. l[i] = tail[i - m] /\ i - m \in 1..more
    <3>1. /\ i \in 1..(Len(head) + Len(tail)) /\ ~(i <= Len(head)) /\ Len(head) = m
          /\ i - m \in 1..more
      BY <1>6, <1>7, <1>8
    <3> QED
      BY <1>10, <3>1
  <2> QED
    BY <1>9, <2>1
<1> QED
  <2>1. r = p => more = n
    OBVIOUS
  <2> QED
    BY <1>11, <1>12, <1>13, <2>1 DEF l, RingPlaced, Placed

(* A place beyond the first a of a + n is one of the last n.               *)
LEMMA BeyondFirst ==
    ASSUME NEW a \in Nat, NEW n \in Nat, NEW i \in 1..(a + n), i > a
    PROVE  i \in (a + 1)..(a + n) /\ i - a \in 1..n
OBVIOUS

LEMMA QueueSlotsKeeps ==
    ASSUME NEW k, QueueOK(k), NEW p \in Prios, NEW n, NEW order, Order(order, n),
           n <= Room(k, p), \A i \in 1..n : Admissible(k.jobs[order[i]], p)
    PROVE  /\ QueueOK(queueSlots(k, p, order))
           /\ \A r \in Prios : Len(queueSlots(k, p, order).rings[r]) >= Len(k.rings[r])
           /\ n > 0 => Len(queueSlots(k, p, order).rings[p]) > 0
<1> DEFINE l == queueSlots(k, p, order)
           Now(s) == Placed(order, n, s)
           more(r) == IF r = p THEN n ELSE 0
<1>1. QueueShape(k) /\ RingsOf(k) /\ n \in Nat /\ Order(order, n)
  BY RingsAre DEF QueueOK, Order
<1>a. /\ JobsPlaced(k, l, p, n, order)
      /\ \A r \in Prios : RingPlaced(k.rings[r], l.rings[r], n, order, r = p)
  BY <1>1, QueuedJobs, QueuedRings
<1> HIDE DEF l
<1>2. /\ l = [k EXCEPT !.jobs = l.jobs, !.rings = l.rings]
      /\ l.rings = [r \in Prios |-> l.rings[r]] /\ l.jobs \in [Slots -> Job]
  BY <1>a DEF JobsPlaced
<1>j. ASSUME NEW s \in Slots
      PROVE  /\ Now(s) => l.jobs[s] = [k.jobs[s] EXCEPT !.state = "Queued", !.queuedPrio = p]
             /\ ~Now(s) => l.jobs[s] = k.jobs[s]
  BY <1>a DEF JobsPlaced
<1>3. ASSUME NEW r \in Prios
      PROVE  /\ l.rings[r] \in Seq(Ref) /\ Len(l.rings[r]) = Len(k.rings[r]) + more(r)
             /\ \A i \in 1..Len(k.rings[r]) :
                   /\ l.rings[r][i].slot = k.rings[r][i].slot
                   /\ l.rings[r][i].old <=> k.rings[r][i].old \/ Now(k.rings[r][i].slot)
             /\ r = p => \A i \in (Len(k.rings[r]) + 1)..(Len(k.rings[r]) + n) :
                            /\ l.rings[r][i].slot = order[i - Len(k.rings[r])] /\ ~l.rings[r][i].old
  BY <1>a DEF RingPlaced
<1>m. more(p) = n /\ \A r \in Prios : (r # p => more(r) = 0) /\ more(r) \in Nat
  BY <1>1
<1>4. \A r \in Prios : Len(k.rings[r]) \in Nat /\ more(r) \in Nat
  BY <1>1 DEF RingsOf
<1>f. \A i \in 1..n : order[i] \in Slots /\ Now(order[i])
  BY DEF Order, Placed
<1>g. \A i \in 1..n, j \in 1..n : order[i] = order[j] => i = j
  BY DEF Order
<1>h. \A s : Now(s) => \E i \in 1..n : order[i] = s
  BY DEF Placed
<1>i. \A s : Now(s) => Admissible(k.jobs[s], p)
  BY DEF Placed
<1> HIDE DEF Now, more
<1>5. l \in [jobs : [Slots -> Job], rings : [Prios -> Seq(Ref)], cursor : [Prios -> Slots]]
  <2>1. l.rings \in [Prios -> Seq(Ref)]
    BY <1>2, <1>3
  <2> QED
    BY <1>1, <1>2, <2>1 DEF QueueShape
<1>e. \A s \in Slots : /\ Now(s) => l.jobs[s].state = "Queued" /\ l.jobs[s].queuedPrio = p
                                    /\ l.jobs[s].delay = k.jobs[s].delay
                                    /\ l.jobs[s].priority = k.jobs[s].priority
                       /\ ~Now(s) => l.jobs[s] = k.jobs[s]
  BY <1>1, <1>j DEF RingsOf, Job
<1>6. QueueShape(l)
  <2>1. \A r \in Prios : Len(l.rings[r]) <= Cap[r]
    <3>1. Len(k.rings[p]) + n <= Cap[p]
      BY <1>1, <1>4, QueueConstants DEF Room
    <3> SUFFICES ASSUME NEW r \in Prios PROVE Len(l.rings[r]) <= Cap[r]
      OBVIOUS
    <3>2. Len(k.rings[r]) <= Cap[r] /\ Len(l.rings[r]) = Len(k.rings[r]) + more(r)
      BY <1>1, <1>3 DEF QueueShape
    <3>3. CASE r = p
      BY <1>m, <3>1, <3>2, <3>3
    <3>4. CASE r # p
      BY <1>4, <1>m, <3>2, <3>4
    <3> QED
      BY <3>3, <3>4
  <2> QED
    BY <1>5, <2>1 DEF QueueShape
<1>7. LiveIsQueued(l)
  <2> SUFFICES ASSUME NEW r \in Prios, NEW i \in 1..Len(l.rings[r]), ~l.rings[r][i].old
               PROVE  /\ l.jobs[l.rings[r][i].slot].state = "Queued"
                      /\ l.jobs[l.rings[r][i].slot].queuedPrio = r
    BY DEF LiveIsQueued
  <2>1. CASE i <= Len(k.rings[r])
    <3>1. i \in 1..Len(k.rings[r])
      BY <1>3, <1>4, <2>1
    <3>2. l.rings[r][i].slot = k.rings[r][i].slot /\ ~k.rings[r][i].old /\ ~Now(k.rings[r][i].slot)
      BY <1>3, <3>1
    <3>3. k.rings[r][i].slot \in Slots
      BY <1>1, <3>1 DEF RingsOf
    <3>4. LiveIsQueued(k)
      BY DEF QueueOK
    <3>5. /\ k.jobs[k.rings[r][i].slot].state = "Queued"
          /\ k.jobs[k.rings[r][i].slot].queuedPrio = r
      BY <3>1, <3>2, <3>4 DEF LiveIsQueued
    <3> QED
      BY <1>e, <3>2, <3>3, <3>5
  <2>2. CASE i > Len(k.rings[r])
    <3>1. r = p
      BY <1>3, <1>4, <1>m, <2>2
    <3>2. i \in (Len(k.rings[r]) + 1)..(Len(k.rings[r]) + n) /\ i - Len(k.rings[r]) \in 1..n
      <4>1. Len(l.rings[r]) = Len(k.rings[r]) + n
        BY <1>3, <1>m, <3>1
      <4>2. Len(k.rings[r]) \in Nat /\ n \in Nat /\ i \in 1..(Len(k.rings[r]) + n)
        BY <1>1, <1>4, <4>1
      <4> QED
        BY <2>2, <4>2, BeyondFirst
    <3>3. l.rings[r][i].slot = order[i - Len(k.rings[r])]
      BY <1>3, <3>1, <3>2
    <3> QED
      BY <1>e, <1>f, <3>1, <3>2, <3>3
  <2>3. i \in Int /\ Len(k.rings[r]) \in Int
    BY <1>4
  <2> QED
    BY <2>1, <2>2, <2>3
<1>8. QueuedIsLive(l)
  <2> SUFFICES ASSUME NEW s \in Slots, l.jobs[s].state = "Queued"
               PROVE  \E i \in 1..Len(l.rings[l.jobs[s].queuedPrio]) :
                         /\ l.rings[l.jobs[s].queuedPrio][i].slot = s
                         /\ ~l.rings[l.jobs[s].queuedPrio][i].old
    BY DEF QueuedIsLive
  <2>1. CASE Now(s)
    <3>1. PICK i \in 1..n : order[i] = s
      BY <1>h, <2>1
    <3>2. l.jobs[s].queuedPrio = p
      BY <1>e, <2>1
    <3> DEFINE j == Len(k.rings[p]) + i
    <3>3. /\ j \in (Len(k.rings[p]) + 1)..(Len(k.rings[p]) + n) /\ j - Len(k.rings[p]) = i
          /\ j \in 1..Len(l.rings[p])
      BY <1>1, <1>3, <1>4, <1>m
    <3> HIDE DEF j
    <3>4. l.rings[p][j].slot = s /\ ~l.rings[p][j].old
      BY <1>3, <3>1, <3>3
    <3> QED
      BY <3>2, <3>3, <3>4
  <2>2. CASE ~Now(s)
    <3>1. l.jobs[s] = k.jobs[s] /\ k.jobs[s].queuedPrio \in Prios
      BY <1>1, <1>e, <2>2 DEF RingsOf, Job
    <3> DEFINE r == k.jobs[s].queuedPrio
    <3>2. PICK i \in 1..Len(k.rings[r]) : k.rings[r][i].slot = s /\ ~k.rings[r][i].old
      BY <3>1 DEF QueueOK, QueuedIsLive
    <3>3. i \in 1..Len(l.rings[r])
      BY <1>3, <1>4, <3>1
    <3>4. l.rings[r][i].slot = s /\ ~l.rings[r][i].old
      <4>1. l.rings[r][i].slot = k.rings[r][i].slot
            /\ (l.rings[r][i].old <=> k.rings[r][i].old \/ Now(k.rings[r][i].slot))
        BY <1>3, <3>1, <3>2
      <4> QED
        BY <2>2, <3>2, <4>1
    <3> QED
      BY <3>1, <3>3, <3>4
  <2> QED
    BY <2>1, <2>2
<1>9. OneLive(l)
  <2> SUFFICES ASSUME NEW r \in Prios, NEW i \in 1..Len(l.rings[r]), NEW j \in 1..Len(l.rings[r]),
                      ~l.rings[r][i].old, ~l.rings[r][j].old,
                      l.rings[r][i].slot = l.rings[r][j].slot
               PROVE  i = j
    BY DEF OneLive
  <2> DEFINE m == Len(k.rings[r])
  <2>1. ASSUME NEW x \in 1..Len(l.rings[r]), ~l.rings[r][x].old
        PROVE  \/ /\ x \in 1..m /\ ~k.rings[r][x].old /\ l.rings[r][x].slot = k.rings[r][x].slot
                  /\ ~Now(l.rings[r][x].slot)
               \/ /\ r = p /\ x - m \in 1..n /\ l.rings[r][x].slot = order[x - m]
                  /\ Now(l.rings[r][x].slot)
    <3>1. CASE x <= m
      <4>1. x \in 1..m
        BY <1>3, <1>4, <3>1
      <4> QED
        BY <1>3, <2>1, <4>1
    <3>2. CASE x > m
      <4>1. r = p
        BY <1>3, <1>4, <1>m, <3>2
      <4>2. x \in (m + 1)..(m + n) /\ x - m \in 1..n
        BY <1>1, <1>3, <1>4, <1>m, <3>2, <4>1
      <4> QED
        BY <1>3, <1>f, <4>1, <4>2
    <3> QED
      BY <1>3, <1>4, <3>1, <3>2
  <2>2. CASE Now(l.rings[r][i].slot)
    <3>1. i - m \in 1..n /\ j - m \in 1..n /\ order[i - m] = order[j - m]
      BY <2>1, <2>2
    <3>2. i - m = j - m
      BY <1>g, <3>1
    <3>3. i \in Nat /\ j \in Nat /\ m \in Nat
      BY <1>3, <1>4, <1>m
    <3> QED
      BY <3>2, <3>3
  <2>3. CASE ~Now(l.rings[r][i].slot)
    BY <2>1, <2>3 DEF QueueOK, OneLive
  <2> QED
    BY <2>2, <2>3
<1>10. QueuedIsDue(l)
  <2> SUFFICES ASSUME NEW s \in Slots, l.jobs[s].state = "Queued"
               PROVE  l.jobs[s].delay = 0 /\ l.jobs[s].queuedPrio <= l.jobs[s].priority
    BY DEF QueuedIsDue
  <2>1. CASE Now(s)
    <3>1. Admissible(k.jobs[s], p)
      BY <1>i, <2>1
    <3> QED
      BY <1>e, <2>1, <3>1 DEF Admissible
  <2>2. CASE ~Now(s)
    BY <1>e, <2>2 DEF QueueOK, QueuedIsDue
  <2> QED
    BY <2>1, <2>2
<1>11. UrgentIsLive(l)
  <2> SUFFICES ASSUME NEW i \in 1..Len(l.rings[High]), l.rings[High][i].old PROVE FALSE
    BY DEF UrgentIsLive
  <2>h. High \in Prios
    BY <1>1 DEF RingsOf
  <2>1. CASE i <= Len(k.rings[High])
    <3>1. i \in 1..Len(k.rings[High])
      BY <1>3, <1>4, <2>1, <2>h
    <3>2. Now(k.rings[High][i].slot) /\ ~k.rings[High][i].old
      BY <1>3, <2>h, <3>1 DEF QueueOK, UrgentIsLive
    <3>3. /\ k.jobs[k.rings[High][i].slot].state = "Queued"
          /\ k.jobs[k.rings[High][i].slot].queuedPrio = High
      BY <2>h, <3>1, <3>2 DEF QueueOK, LiveIsQueued
    <3> QED
      BY <1>i, <3>2, <3>3 DEF Admissible
  <2>2. CASE i > Len(k.rings[High])
    <3>1. High = p
      BY <1>3, <1>4, <1>m, <2>2, <2>h
    <3>2. i \in (Len(k.rings[High]) + 1)..(Len(k.rings[High]) + n)
      BY <1>1, <1>3, <1>4, <1>m, <2>2, <3>1
    <3> QED
      BY <1>3, <2>h, <3>1, <3>2
  <2> QED
    BY <1>3, <1>4, <2>1, <2>2, <2>h
<1>12. \A r \in Prios : Len(l.rings[r]) >= Len(k.rings[r])
  BY <1>3, <1>4
<1>13. n > 0 => Len(l.rings[p]) > 0
  BY <1>1, <1>3, <1>4, <1>m
<1>14. QueueOK(l)
  BY <1>6, <1>7, <1>8, <1>9, <1>10, <1>11 DEF QueueOK
<1> QED
  BY <1>12, <1>13, <1>14 DEF l

(* A job that is replaced by one with the same place, or that had none and *)
(* has none.                                                               *)
SamePlace(d, e) ==
    \/ d.state # "Queued" /\ e.state # "Queued"
    \/ /\ e.state = d.state /\ e.queuedPrio = d.queuedPrio /\ e.delay = d.delay
       /\ e.priority >= d.priority

LEMMA PlacesKept ==
    ASSUME NEW k, QueueOK(k), NEW js \in [Slots -> Job],
           \A s \in Slots : SamePlace(k.jobs[s], js[s])
    PROVE  QueueOK([k EXCEPT !.jobs = js])
<1> DEFINE l == [k EXCEPT !.jobs = js]
<1>1. QueueShape(k) /\ RingsOf(k)
  BY RingsAre DEF QueueOK
<1>2. l.jobs = js /\ l.rings = k.rings /\ QueueShape(l)
  BY <1>1 DEF QueueShape
<1>3. \A s \in Slots : /\ js[s].priority \in Nat /\ k.jobs[s].priority \in Nat
                       /\ k.jobs[s].queuedPrio \in Prios /\ k.jobs[s].queuedPrio \in Nat
  <2>1. \A s \in Slots : js[s] \in Job /\ k.jobs[s] \in Job
    BY <1>1 DEF RingsOf
  <2>2. \A job \in Job : job.priority \in Prios /\ job.queuedPrio \in Prios
    BY DEF Job
  <2>3. Prios \subseteq Nat
    BY DEF Prios
  <2> QED
    BY <2>1, <2>2, <2>3
<1> HIDE DEF l
<1>4. LiveIsQueued(l)
  <2> SUFFICES ASSUME NEW p \in Prios, NEW i \in 1..Len(k.rings[p]), ~k.rings[p][i].old
               PROVE  /\ js[k.rings[p][i].slot].state = "Queued"
                      /\ js[k.rings[p][i].slot].queuedPrio = p
    BY <1>2 DEF LiveIsQueued
  <2>1. /\ k.rings[p][i].slot \in Slots
        /\ k.jobs[k.rings[p][i].slot].state = "Queued"
        /\ k.jobs[k.rings[p][i].slot].queuedPrio = p
    BY <1>1 DEF RingsOf, QueueOK, LiveIsQueued
  <2> QED
    BY <2>1 DEF SamePlace
<1>5. QueuedIsLive(l)
  <2> SUFFICES ASSUME NEW s \in Slots, js[s].state = "Queued"
               PROVE  \E i \in 1..Len(k.rings[js[s].queuedPrio]) :
                         /\ k.rings[js[s].queuedPrio][i].slot = s
                         /\ ~k.rings[js[s].queuedPrio][i].old
    BY <1>2 DEF QueuedIsLive
  <2>1. k.jobs[s].state = "Queued" /\ js[s].queuedPrio = k.jobs[s].queuedPrio
    BY DEF SamePlace
  <2>2. QueuedIsLive(k)
    BY DEF QueueOK
  <2> QED
    BY <2>1, <2>2 DEF QueuedIsLive
<1>6. OneLive(l) /\ UrgentIsLive(l)
  <2>1. OneLive(k) /\ UrgentIsLive(k)
    BY DEF QueueOK
  <2>2. OneLive(l)
    BY <1>2, <2>1 DEF OneLive
  <2>3. UrgentIsLive(l)
    BY <1>2, <2>1 DEF UrgentIsLive
  <2> QED
    BY <2>2, <2>3
<1>7. QueuedIsDue(l)
  <2> SUFFICES ASSUME NEW s \in Slots, js[s].state = "Queued"
               PROVE  js[s].delay = 0 /\ js[s].queuedPrio <= js[s].priority
    BY <1>2 DEF QueuedIsDue
  <2>1. /\ k.jobs[s].state = "Queued" /\ js[s].queuedPrio = k.jobs[s].queuedPrio
        /\ js[s].delay = k.jobs[s].delay /\ js[s].priority >= k.jobs[s].priority
    BY DEF SamePlace
  <2>2. k.jobs[s].delay = 0 /\ k.jobs[s].queuedPrio <= k.jobs[s].priority
    BY <2>1 DEF QueueOK, QueuedIsDue
  <2> QED
    BY <1>3, <2>1, <2>2
<1> QED
  BY <1>2, <1>4, <1>5, <1>6, <1>7 DEF QueueOK, l

LEMMA PlaceKept ==
    ASSUME NEW k, QueueOK(k), NEW s \in Slots, NEW job \in Job, SamePlace(k.jobs[s], job)
    PROVE  QueueOK([k EXCEPT !.jobs[s] = job])
<1> DEFINE js == [k.jobs EXCEPT ![s] = job]
<1>1. js \in [Slots -> Job] /\ \A t \in Slots : SamePlace(k.jobs[t], js[t])
  <2>1. \A t \in Slots : k.jobs[t] \in Job /\ k.jobs[t].priority >= k.jobs[t].priority
    BY DEF QueueOK, QueueShape, Job, Prios
  <2> QED
    BY <2>1 DEF QueueOK, QueueShape, SamePlace
<1>2. [k EXCEPT !.jobs[s] = job] = [k EXCEPT !.jobs = js]
  BY DEF QueueOK, QueueShape
<1> QED
  BY <1>1, <1>2, PlacesKept

(* A cursor may be anywhere.                                               *)
LEMMA CursorMoves ==
    ASSUME NEW k, QueueOK(k), NEW p \in Prios, NEW c \in Slots
    PROVE  /\ QueueOK([k EXCEPT !.cursor[p] = c])
           /\ [k EXCEPT !.cursor[p] = c].jobs = k.jobs
           /\ [k EXCEPT !.cursor[p] = c].rings = k.rings
<1> DEFINE l == [k EXCEPT !.cursor[p] = c]
<1>1. l.jobs = k.jobs /\ l.rings = k.rings /\ QueueShape(l)
  BY DEF QueueOK, QueueShape
<1> HIDE DEF l
<1>2. QueueOK(l)
  <2>1. /\ LiveIsQueued(k) /\ QueuedIsLive(k) /\ OneLive(k)
        /\ QueuedIsDue(k) /\ UrgentIsLive(k)
    BY DEF QueueOK
  <2>2. LiveIsQueued(l)
    BY <1>1, <2>1 DEF LiveIsQueued
  <2>3. QueuedIsLive(l)
    BY <1>1, <2>1 DEF QueuedIsLive
  <2>4. OneLive(l)
    BY <1>1, <2>1 DEF OneLive
  <2>5. QueuedIsDue(l)
    BY <1>1, <2>1 DEF QueuedIsDue
  <2>6. UrgentIsLive(l)
    BY <1>1, <2>1 DEF UrgentIsLive
  <2> QED
    BY <1>1, <2>2, <2>3, <2>4, <2>5, <2>6 DEF QueueOK
<1> QED
  BY <1>1, <1>2 DEF l

(* The first n references of a ring are popped.                            *)
Parked(k, p, n, s) == \E i \in 1..n : k.rings[p][i].slot = s /\ ~k.rings[p][i].old

RingPopped(k, l, p, n) ==
    /\ Len(l.rings[p]) = Len(k.rings[p]) - n
    /\ \A i \in 1..(Len(k.rings[p]) - n) : l.rings[p][i] = k.rings[p][i + n]
    /\ \A r \in Prios \ {p} : l.rings[r] = k.rings[r]

JobsParked(k, l, p, n) ==
    \A s \in Slots :
        /\ Parked(k, p, n, s) => l.jobs[s] = [k.jobs[s] EXCEPT !.state = "Waiting"]
        /\ ~Parked(k, p, n, s) => l.jobs[s] = k.jobs[s]

LEMMA PoppedIs ==
    ASSUME NEW k, QueueOK(k), NEW p \in Prios, NEW n \in 0..Len(k.rings[p])
    PROVE  /\ QueueShape(Popped(k, p, n)) /\ RingPopped(k, Popped(k, p, n), p, n)
           /\ JobsParked(k, Popped(k, p, n), p, n)
<1> DEFINE l == Popped(k, p, n)
           parked == {k.rings[p][i].slot : i \in {j \in 1..n : Valid(k, p, j)}}
<1>1. QueueShape(k) /\ RingsOf(k)
  BY RingsAre DEF QueueOK
<1>2. \A i \in 1..n : Valid(k, p, i) <=> ~k.rings[p][i].old
  <2>1. 1..n \subseteq 1..Len(k.rings[p])
    BY <1>1 DEF RingsOf
  <2> QED
    BY <2>1 DEF QueueOK, LiveIsQueued, Valid
<1>3. \A s : s \in parked <=> Parked(k, p, n, s)
  BY <1>2 DEF Parked
<1>4. /\ l = [k EXCEPT !.rings = l.rings, !.jobs = l.jobs]
      /\ l.rings = [k.rings EXCEPT ![p] = SubSeq(@, n + 1, Len(@))]
      /\ l.jobs = [s \in Slots |-> IF s \in parked THEN [k.jobs[s] EXCEPT !.state = "Waiting"]
                                   ELSE k.jobs[s]]
  BY <1>1 DEF QueueShape, Popped
<1> HIDE DEF l, parked
<1>5. /\ l.rings[p] = SubSeq(k.rings[p], n + 1, Len(k.rings[p]))
      /\ \A r \in Prios \ {p} : l.rings[r] = k.rings[r]
  BY <1>1, <1>4 DEF QueueShape
<1>6. /\ l.rings[p] \in Seq(Ref) /\ Len(l.rings[p]) = Len(k.rings[p]) - n
      /\ \A i \in 1..(Len(k.rings[p]) - n) : l.rings[p][i] = k.rings[p][i + n]
  BY <1>1, <1>5, LastOnes DEF RingsOf
<1>7. l.rings \in [Prios -> Seq(Ref)]
  BY <1>1, <1>4, <1>5, <1>6 DEF QueueShape
<1>8. ASSUME NEW s \in Slots
      PROVE  /\ s \in parked => l.jobs[s] = [k.jobs[s] EXCEPT !.state = "Waiting"]
             /\ s \notin parked => l.jobs[s] = k.jobs[s]
  BY <1>4
<1>9. l.jobs \in [Slots -> Job]
  <2>1. \A s \in Slots : k.jobs[s] \in Job /\ [k.jobs[s] EXCEPT !.state = "Waiting"] \in Job
    BY <1>1 DEF RingsOf, Job, States
  <2> QED
    BY <1>4, <2>1
<1>10. \A r \in Prios : Len(l.rings[r]) <= Cap[r]
  <2> SUFFICES ASSUME NEW r \in Prios PROVE Len(l.rings[r]) <= Cap[r]
    OBVIOUS
  <2>1. Len(k.rings[r]) <= Cap[r] /\ Len(k.rings[r]) \in Nat /\ Cap[r] \in Nat
    BY <1>1, QueueConstants DEF QueueShape, RingsOf
  <2>2. CASE r = p
    BY <1>6, <2>1, <2>2
  <2>3. CASE r # p
    BY <1>5, <2>1, <2>3
  <2> QED
    BY <2>2, <2>3
<1>11. QueueShape(l)
  BY <1>1, <1>4, <1>7, <1>9, <1>10 DEF QueueShape
<1> QED
  BY <1>3, <1>5, <1>6, <1>8, <1>11 DEF l, RingPopped, JobsParked

LEMMA PoppedKeeps ==
    ASSUME NEW k, QueueOK(k), NEW p \in Prios, NEW n \in 0..Len(k.rings[p])
    PROVE  QueueOK(Popped(k, p, n)) /\ SameJobs(k, Popped(k, p, n))
<1> DEFINE l == Popped(k, p, n)
           m == Len(k.rings[p])
<1>1. QueueShape(k) /\ RingsOf(k) /\ m \in Nat /\ n \in Nat /\ n <= m
  BY RingsAre DEF QueueOK, RingsOf
<1>p. QueueShape(l) /\ RingPopped(k, l, p, n) /\ JobsParked(k, l, p, n)
  BY PoppedIs
<1> HIDE DEF l
<1>2. /\ QueueShape(l) /\ Len(l.rings[p]) = m - n
      /\ \A i \in 1..(m - n) : l.rings[p][i] = k.rings[p][i + n]
      /\ \A r \in Prios \ {p} : l.rings[r] = k.rings[r]
      /\ \A s \in Slots :
            /\ Parked(k, p, n, s) => l.jobs[s] = [k.jobs[s] EXCEPT !.state = "Waiting"]
            /\ ~Parked(k, p, n, s) => l.jobs[s] = k.jobs[s]
  BY <1>p DEF RingPopped, JobsParked
<1>3. ASSUME NEW s, Parked(k, p, n, s)
      PROVE  s \in Slots /\ k.jobs[s].state = "Queued" /\ k.jobs[s].queuedPrio = p
  <2>1. PICK i \in 1..n : k.rings[p][i].slot = s /\ ~k.rings[p][i].old
    BY <1>3 DEF Parked
  <2>2. i \in 1..m
    BY <1>1
  <2> QED
    BY <1>1, <2>1, <2>2 DEF QueueOK, LiveIsQueued, RingsOf
<1>4. ASSUME NEW s \in Slots, Parked(k, p, n, s)
      PROVE  l.jobs[s].state = "Waiting" /\ SameJob(k.jobs[s], l.jobs[s])
  <2>1. l.jobs[s] = [k.jobs[s] EXCEPT !.state = "Waiting"] /\ k.jobs[s] \in Job
    BY <1>1, <1>2, <1>4 DEF RingsOf
  <2> QED
    BY <1>3, <1>4, <2>1 DEF Job, SameJob
<1>5. ASSUME NEW r \in Prios, NEW i \in 1..Len(l.rings[r])
      PROVE  \E j \in 1..Len(k.rings[r]) :
                /\ l.rings[r][i] = k.rings[r][j]
                /\ IF r = p THEN j = i + n ELSE j = i
  <2>1. CASE r = p
    <3>1. i \in 1..(m - n) /\ i + n \in 1..m
      BY <1>1, <1>2, <2>1
    <3> QED
      BY <1>2, <2>1, <3>1
  <2>2. CASE r # p
    BY <1>2, <2>2
  <2> QED
    BY <2>1, <2>2
<1>6. LiveIsQueued(l)
  <2> SUFFICES ASSUME NEW r \in Prios, NEW i \in 1..Len(l.rings[r]), ~l.rings[r][i].old
               PROVE  /\ l.jobs[l.rings[r][i].slot].state = "Queued"
                      /\ l.jobs[l.rings[r][i].slot].queuedPrio = r
    BY DEF LiveIsQueued
  <2>1. PICK j \in 1..Len(k.rings[r]) : /\ l.rings[r][i] = k.rings[r][j]
                                        /\ IF r = p THEN j = i + n ELSE j = i
    BY <1>5
  <2> DEFINE s == k.rings[r][j].slot
  <2>2. s \in Slots /\ k.jobs[s].state = "Queued" /\ k.jobs[s].queuedPrio = r
    BY <1>1, <2>1 DEF RingsOf, QueueOK, LiveIsQueued
  <2>3. ~Parked(k, p, n, s)
    <3> SUFFICES ASSUME Parked(k, p, n, s) PROVE FALSE
      OBVIOUS
    <3>1. r = p
      BY <1>3, <2>2
    <3>2. PICK x \in 1..n : k.rings[p][x].slot = s /\ ~k.rings[p][x].old
      BY DEF Parked
    <3>3. x \in 1..m /\ j \in 1..m /\ x # j
      BY <1>1, <1>2, <2>1, <3>1
    <3> QED
      BY <2>1, <3>1, <3>2, <3>3 DEF QueueOK, OneLive
  <2> QED
    BY <1>2, <2>1, <2>2, <2>3
<1>7. QueuedIsLive(l)
  <2> SUFFICES ASSUME NEW s \in Slots, l.jobs[s].state = "Queued"
               PROVE  \E i \in 1..Len(l.rings[l.jobs[s].queuedPrio]) :
                         /\ l.rings[l.jobs[s].queuedPrio][i].slot = s
                         /\ ~l.rings[l.jobs[s].queuedPrio][i].old
    BY DEF QueuedIsLive
  <2>1. ~Parked(k, p, n, s)
    BY <1>4
  <2>2. l.jobs[s] = k.jobs[s] /\ k.jobs[s].queuedPrio \in Prios
    BY <1>1, <1>2, <2>1 DEF RingsOf, Job
  <2> DEFINE r == k.jobs[s].queuedPrio
  <2>a. k.jobs[s].state = "Queued" /\ QueuedIsLive(k)
    BY <2>2 DEF QueueOK
  <2>3. PICK i \in 1..Len(k.rings[r]) : k.rings[r][i].slot = s /\ ~k.rings[r][i].old
    BY <2>a DEF QueuedIsLive
  <2>4. CASE r # p
    <3>1. l.rings[r] = k.rings[r]
      BY <1>2, <2>2, <2>4
    <3> QED
      BY <2>2, <2>3, <3>1
  <2>5. CASE r = p
    <3>1. i \in 1..m /\ i \notin 1..n
      BY <2>1, <2>3, <2>5 DEF Parked
    <3>2. i - n \in 1..(m - n) /\ (i - n) + n = i
      BY <1>1, <3>1
    <3>3. l.rings[p][i - n] = k.rings[p][i]
      BY <1>2, <3>2
    <3>4. i - n \in 1..Len(l.rings[r]) /\ l.rings[r][i - n] = k.rings[r][i]
      BY <1>2, <2>5, <3>2, <3>3
    <3> QED
      BY <2>2, <2>3, <3>4
  <2> QED
    BY <2>4, <2>5
<1>8. OneLive(l)
  <2> SUFFICES ASSUME NEW r \in Prios, NEW i \in 1..Len(l.rings[r]), NEW j \in 1..Len(l.rings[r]),
                      ~l.rings[r][i].old, ~l.rings[r][j].old,
                      l.rings[r][i].slot = l.rings[r][j].slot
               PROVE  i = j
    BY DEF OneLive
  <2>1. PICK x \in 1..Len(k.rings[r]) : /\ l.rings[r][i] = k.rings[r][x]
                                        /\ IF r = p THEN x = i + n ELSE x = i
    BY <1>5
  <2>2. PICK y \in 1..Len(k.rings[r]) : /\ l.rings[r][j] = k.rings[r][y]
                                        /\ IF r = p THEN y = j + n ELSE y = j
    BY <1>5
  <2>3. x = y
    BY <2>1, <2>2 DEF QueueOK, OneLive
  <2> QED
    BY <1>1, <2>1, <2>2, <2>3
<1>9. QueuedIsDue(l)
  <2> SUFFICES ASSUME NEW s \in Slots, l.jobs[s].state = "Queued"
               PROVE  l.jobs[s].delay = 0 /\ l.jobs[s].queuedPrio <= l.jobs[s].priority
    BY DEF QueuedIsDue
  <2>1. l.jobs[s] = k.jobs[s]
    BY <1>2, <1>4
  <2> QED
    BY <2>1 DEF QueueOK, QueuedIsDue
<1>10. UrgentIsLive(l)
  <2> SUFFICES ASSUME NEW i \in 1..Len(l.rings[High]) PROVE ~l.rings[High][i].old
    BY DEF UrgentIsLive
  <2>1. High \in Prios
    BY <1>1 DEF RingsOf
  <2>2. PICK j \in 1..Len(k.rings[High]) : l.rings[High][i] = k.rings[High][j]
    BY <1>5, <2>1
  <2> QED
    BY <2>2 DEF QueueOK, UrgentIsLive
<1>11. SameJobs(k, l)
  <2> SUFFICES ASSUME NEW s \in Slots PROVE SameJob(k.jobs[s], l.jobs[s])
    BY DEF SameJobs
  <2>1. CASE ~Parked(k, p, n, s)
    BY <1>2, <2>1 DEF SameJob
  <2> QED
    BY <1>4, <2>1
<1> QED
  BY <1>2, <1>6, <1>7, <1>8, <1>9, <1>10, <1>11 DEF QueueOK, l

(* The places of a circle, from any of them on, are all different.         *)
LEMMA TurnIs ==
    ASSUME NEW n \in Nat \ {0}, NEW a \in Int
    PROVE  a \div n \in Int /\ a % n \in 0..(n - 1) /\ a = n * (a \div n) + (a % n)
<1> DEFINE q1 == a \div n
           r1 == a % n
<1>1. q1 \in Int /\ r1 \in 0..(n - 1) /\ a = n * q1 + r1
  OBVIOUS
<1> QED
  BY <1>1

(* Two remainders do not differ by a whole turn.                           *)
LEMMA NoWholeTurn ==
    ASSUME NEW n \in Nat \ {0}, NEW r \in 0..(n - 1), NEW m \in 0..(n - 1), NEW d \in Int,
           r - m = n * d
    PROVE  d = 0
<1>1. n * d \in Int /\ -n < n * d /\ n * d < n
  OBVIOUS
<1>2. ~(d >= 1)
  <2>1. SUFFICES ASSUME d >= 1 PROVE FALSE
    OBVIOUS
  <2>2. d - 1 \in Nat
    BY <2>1
  <2>3. n * (d - 1) >= 0 /\ n * (d - 1) = n * d - n
    BY <2>2
  <2> QED
    BY <1>1, <2>3
<1>3. ~(-d >= 1)
  <2>1. SUFFICES ASSUME -d >= 1 PROVE FALSE
    OBVIOUS
  <2>2. -d - 1 \in Nat
    BY <2>1
  <2>3. n * (-d - 1) >= 0 /\ n * (-d - 1) = -(n * d) - n
    BY <2>2
  <2> QED
    BY <1>1, <2>3
<1> QED
  BY <1>2, <1>3

LEMMA TurnsDiffer ==
    ASSUME NEW n \in Nat \ {0}, NEW c \in Int, NEW s \in 1..n, NEW t \in 1..n,
           (s - c) % n = (t - c) % n
    PROVE  s = t
<1> DEFINE x == (s - c) \div n
           y == (t - c) \div n
           r == (s - c) % n
<1>1. s - c \in Int /\ t - c \in Int
  OBVIOUS
<1>2. x \in Int /\ r \in Int /\ s - c = n * x + r
  BY <1>1, TurnIs
<1>3. y \in Int /\ t - c = n * y + r
  BY <1>1, TurnIs
<1> HIDE DEF x, y, r
<1>4. n * x \in Int /\ n * y \in Int /\ s - t = n * x - n * y
  BY <1>2, <1>3
<1>5. x - y \in Int /\ n * x - n * y = n * (x - y)
  BY <1>2, <1>3
<1>6. (s - 1) - (t - 1) = n * (x - y) /\ s - 1 \in 0..(n - 1) /\ t - 1 \in 0..(n - 1)
  BY <1>4, <1>5
<1>7. x - y = 0
  BY <1>5, <1>6, NoWholeTurn
<1> QED
  BY <1>2, <1>3, <1>7

(* Of a finite set in an order, one has each rank.                         *)
Ahead(W, turn, s) == {t \in W : turn[t] < turn[s]}

LEMMA EveryRank ==
    ASSUME NEW W, IsFiniteSet(W), NEW turn \in [W -> Int],
           \A s, t \in W : turn[s] = turn[t] => s = t,
           NEW i \in Nat, i < Cardinality(W)
    PROVE  \E s \in W : Cardinality(Ahead(W, turn, s)) = i
<1> DEFINE n == Cardinality(W)
           before(s) == Ahead(W, turn, s)
           rank == [s \in W |-> Cardinality(before(s))]
<1>1. n \in Nat /\ i < n
  BY FS_CardinalityType
<1> HIDE DEF n
<1>2. ASSUME NEW s \in W
      PROVE  /\ IsFiniteSet(before(s)) /\ Cardinality(before(s)) \in Nat
             /\ IsFiniteSet(before(s) \cup {s})
             /\ Cardinality(before(s) \cup {s}) = Cardinality(before(s)) + 1
             /\ Cardinality(before(s) \cup {s}) <= n
  <2>1. before(s) \subseteq W /\ before(s) \cup {s} \subseteq W /\ s \notin before(s)
    BY DEF Ahead
  <2>2. IsFiniteSet(before(s)) /\ IsFiniteSet(before(s) \cup {s})
        /\ Cardinality(before(s) \cup {s}) <= n
    BY <2>1, FS_Subset DEF n
  <2> HIDE DEF before
  <2>3. Cardinality(before(s)) \in Nat
    BY <2>2, FS_CardinalityType
  <2> QED
    BY <2>1, <2>2, <2>3, FS_AddElement
<1>3. ASSUME NEW s \in W, NEW t \in W, turn[s] < turn[t]
      PROVE  Cardinality(before(s)) < Cardinality(before(t))
  <2>1. before(s) \cup {s} \subseteq before(t)
    BY <1>3 DEF Ahead
  <2> HIDE DEF before
  <2>2. Cardinality(before(s) \cup {s}) <= Cardinality(before(t))
    BY <1>2, <2>1, FS_Subset
  <2>3. Cardinality(before(s)) \in Nat /\ Cardinality(before(t)) \in Nat
        /\ Cardinality(before(s) \cup {s}) = Cardinality(before(s)) + 1
    BY <1>2
  <2> QED
    BY <2>2, <2>3
<1>4. \A s \in W : rank[s] = Cardinality(before(s))
  OBVIOUS
<1> HIDE DEF before
<1>5. rank \in [W -> 0..(n - 1)]
  <2>1. ASSUME NEW s \in W PROVE Cardinality(before(s)) \in 0..(n - 1)
    <3>1. Cardinality(before(s)) \in Nat /\ Cardinality(before(s)) + 1 <= n
      BY <1>2
    <3> QED
      BY <1>1, <3>1
  <2> QED
    BY <2>1
<1> HIDE DEF rank
<1>6. ASSUME NEW s \in W, NEW t \in W, rank[s] = rank[t] PROVE s = t
  <2>1. turn[s] \in Int /\ turn[t] \in Int
    OBVIOUS
  <2>4. /\ Cardinality(before(s)) \in Nat /\ Cardinality(before(t)) \in Nat
        /\ Cardinality(before(s)) = Cardinality(before(t))
    BY <1>2, <1>4, <1>6
  <2>2. ~(turn[s] < turn[t])
    BY <1>3, <2>4
  <2>3. ~(turn[t] < turn[s])
    BY <1>3, <2>4
  <2> QED
    BY <2>1, <2>2, <2>3
<1>7. rank \in Injection(W, 0..(n - 1))
  BY <1>5, <1>6 DEF Injection, IsInjective
<1>8. IsFiniteSet(0..(n - 1)) /\ Cardinality(0..(n - 1)) = n
  BY <1>1, FS_Interval
<1>9. rank \in Surjection(W, 0..(n - 1))
  BY <1>7, <1>8, FS_Injection DEF n
<1>10. i \in 0..(n - 1)
  BY <1>1
<1>11. PICK s \in W : rank[s] = i
  BY <1>9, <1>10 DEF Surjection
<1> QED
  BY <1>4, <1>11 DEF before

(* Nothing but places change, and no ring shrinks.                         *)
Grown(k, l) ==
    SameJobs(k, l) /\ \A r \in Prios : Len(l.rings[r]) >= Len(k.rings[r])

LEMMA GrownTwice ==
    ASSUME NEW k, NEW l, NEW m, QueueShape(k), QueueShape(l), QueueShape(m),
           Grown(k, l), Grown(l, m)
    PROVE  Grown(k, m)
<1>1. \A r \in Prios : /\ Len(k.rings[r]) \in Nat /\ Len(l.rings[r]) \in Nat
                       /\ Len(m.rings[r]) \in Nat
  BY RingsAre DEF RingsOf
<1>2. \A r \in Prios : Len(m.rings[r]) >= Len(k.rings[r])
  BY <1>1 DEF Grown
<1> QED
  BY <1>2, SameJobsTwice DEF Grown

LEMMA QueuedSame ==
    ASSUME NEW k, QueueOK(k), NEW p \in Prios, NEW n, NEW order, Order(order, n),
           \A i \in 1..n : k.jobs[order[i]].state \in {"Queued", "Waiting"}
    PROVE  SameJobs(k, queueSlots(k, p, order))
<1> DEFINE l == queueSlots(k, p, order)
<1>1. JobsPlaced(k, l, p, n, order) /\ RingsOf(k)
  BY QueuedJobs, RingsAre DEF QueueOK
<1> HIDE DEF l
<1> SUFFICES ASSUME NEW s \in Slots PROVE SameJob(k.jobs[s], l.jobs[s])
  BY DEF SameJobs, l
<1>2. k.jobs[s] \in Job
  BY <1>1 DEF RingsOf
<1>3. CASE Placed(order, n, s)
  <2>1. /\ l.jobs[s] = [k.jobs[s] EXCEPT !.state = "Queued", !.queuedPrio = p]
        /\ k.jobs[s].state \in {"Queued", "Waiting"}
    BY <1>1, <1>3 DEF JobsPlaced, Placed
  <2> QED
    BY <1>2, <2>1 DEF Job, SameJob
<1>4. CASE ~Placed(order, n, s)
  BY <1>1, <1>4 DEF JobsPlaced, SameJob
<1> QED
  BY <1>3, <1>4

(* One round of the slots that want a place in a ring.                     *)
PlacesGiven(k, l, p) ==
    /\ QueueOK(l) /\ Grown(k, l)
    /\ (\E s \in Slots : Retriable(k.jobs[s], p)) => Len(l.rings[p]) > 0

LEMMA RetriedKeeps ==
    ASSUME NEW k, QueueOK(k), NEW p \in Prios PROVE PlacesGiven(k, RetriedAt(k, p), p)
<1> DEFINE turn(s) == (s - k.cursor[p]) % N
           wanting == {s \in Slots : Retriable(k.jobs[s], p)}
           before(s) == {t \in wanting : turn(t) < turn(s)}
           w == Cardinality(wanting)
           room == Room(k, p)
           n == Lesser(w, room)
           ranked(i) == CHOOSE s \in wanting : Cardinality(before(s)) = i - 1
           order == [i \in 1..n |-> ranked(i)]
           queued == queueSlots(k, p, order)
           moved == [queued EXCEPT !.cursor[p] = AfterCursor(Last(order))]
<1>1. RetriedAt(k, p) = IF order = <<>> THEN k ELSE moved
  BY DEF RetriedAt
<1>2. QueueShape(k) /\ RingsOf(k) /\ k.cursor[p] \in Slots
  BY RingsAre DEF QueueOK, QueueShape
<1>s. Slots \subseteq Int
  BY QueueConstants DEF Slots
<1>3. N \in Nat \ {0}
  BY QueueConstants
<1>4. IsFiniteSet(wanting) /\ w \in Nat
  <2>1. IsFiniteSet(Slots)
    BY <1>3, FS_Interval DEF Slots
  <2>2. wanting \subseteq Slots
    OBVIOUS
  <2> HIDE DEF wanting
  <2> QED
    BY <2>1, <2>2, FS_Subset, FS_CardinalityType
<1>5. /\ room \in Nat /\ (room = 0 => Len(k.rings[p]) > 0)
  <2>1. Len(k.rings[p]) \in Nat /\ Len(k.rings[p]) <= Cap[p] /\ Cap[p] \in Nat \ {0}
    BY <1>2, QueueConstants DEF RingsOf, QueueShape
  <2> QED
    BY <2>1 DEF Room
<1>6. n \in Nat /\ n <= w /\ n <= room /\ (n = 0 => w = 0 \/ room = 0)
  BY <1>4, <1>5 DEF Lesser
<1>7. ASSUME NEW i \in 1..n
      PROVE  order[i] \in wanting /\ Cardinality(before(order[i])) = i - 1
  <2> DEFINE circle == [s \in wanting |-> turn(s)]
  <2>1. ASSUME NEW s \in Slots PROVE s - k.cursor[p] \in Int
    <3>1. s \in Int /\ k.cursor[p] \in Int
      BY <1>2, <1>s
    <3> QED
      BY <3>1
  <2>2. \A s \in Slots : turn(s) \in Int
    BY <1>3, <2>1, TurnIs
  <2>3. ASSUME NEW s \in Slots, NEW t \in Slots, turn(s) = turn(t) PROVE s = t
    BY <1>2, <1>3, <1>s, <2>3, TurnsDiffer DEF Slots
  <2>4. circle \in [wanting -> Int] /\ \A s, t \in wanting : circle[s] = circle[t] => s = t
    BY <2>2, <2>3
  <2>5. i - 1 \in Nat /\ i - 1 < w
    BY <1>4, <1>6
  <2>6. \A s \in wanting : Ahead(wanting, circle, s) = before(s)
    BY DEF Ahead
  <2> HIDE DEF circle, w, turn
  <2>7. \E s \in wanting : Cardinality(Ahead(wanting, circle, s)) = i - 1
    BY <1>4, <2>4, <2>5, EveryRank DEF w
  <2> HIDE DEF wanting
  <2>8. \E s \in wanting : Cardinality(before(s)) = i - 1
    BY <2>6, <2>7
  <2> HIDE DEF before
  <2>9. ranked(i) \in wanting /\ Cardinality(before(ranked(i))) = i - 1
    BY <2>8
  <2> HIDE DEF ranked
  <2> QED
    BY <2>9
<1> DEFINE WantsRing(s) == Retriable(k.jobs[s], p)
<1>8. \A s : s \in wanting <=> s \in Slots /\ WantsRing(s)
  OBVIOUS
<1>9. order = [i \in 1..n |-> order[i]]
  <2> HIDE DEF ranked
  <2> QED
    OBVIOUS
<1>w. (\E s \in Slots : WantsRing(s)) => w > 0
  <2>1. SUFFICES ASSUME wanting # {} PROVE w > 0
    BY <1>8
  <2>2. w # 0
    BY <1>4, <2>1, FS_EmptySet
  <2> QED
    BY <1>4, <2>2
<1> HIDE DEF turn, wanting, before, w, room, n, order, WantsRing
<1>10. ASSUME NEW i \in 1..n, NEW j \in 1..n, order[i] = order[j] PROVE i = j
  <2>1. i - 1 = j - 1
    BY <1>7, <1>10
  <2>2. i \in Int /\ j \in Int
    BY <1>6
  <2> QED
    BY <2>1, <2>2
<1>11. order \in [1..n -> Slots]
  BY <1>7, <1>8, <1>9
<1>12. Order(order, n)
  BY <1>6, <1>10, <1>11 DEF Order
<1>13. order \in Seq(Slots) /\ Len(order) = n
  BY <1>6, <1>11, IsSequence
<1>14. ASSUME NEW i \in 1..n
       PROVE  k.jobs[order[i]].state \in {"Queued", "Waiting"} /\ Admissible(k.jobs[order[i]], p)
  <2>1. WantsRing(order[i]) /\ order[i] \in Slots
    BY <1>7, <1>8
  <2>2. k.jobs[order[i]] \in Job
    BY <1>2, <2>1 DEF RingsOf
  <2> DEFINE job == k.jobs[order[i]]
  <2>3. job.priority \in Prios /\ job.queuedPrio \in Prios
    BY <2>2 DEF Job
  <2>4. Retriable(job, p)
    BY <2>1 DEF WantsRing
  <2> HIDE DEF job
  <2>5. job.state \in {"Queued", "Waiting"} /\ job.delay = 0 /\ job.priority = p
    BY <2>4 DEF Retriable, Promotable
  <2>6. job.state = "Queued" => job.priority > job.queuedPrio
    BY <2>4 DEF Retriable, Promotable
  <2> QED
    BY <2>3, <2>5, <2>6 DEF Admissible, Prios, High, job
<1>15. /\ QueueOK(queued) /\ \A r \in Prios : Len(queued.rings[r]) >= Len(k.rings[r])
       /\ n > 0 => Len(queued.rings[p]) > 0
  BY <1>6, <1>12, <1>14, QueueSlotsKeeps DEF room
<1>16. SameJobs(k, queued)
  BY <1>12, <1>14, QueuedSame
<1> HIDE DEF queued
<1>17. CASE order = <<>>
  <2>1. RetriedAt(k, p) = k /\ n = 0
    BY <1>1, <1>13, <1>17
  <2>2. Grown(k, k)
    BY <1>2 DEF Grown, SameJobs, SameJob, RingsOf
  <2>3. w > 0 => Len(k.rings[p]) > 0
    BY <1>4, <1>5, <1>6, <2>1
  <2> QED
    BY <2>1, <2>2, <2>3, <1>w DEF PlacesGiven, WantsRing
<1>18. CASE order # <<>>
  <2>1. n > 0
    <3>1. n # 0
      BY <1>13, <1>18, EmptySeq
    <3> QED
      BY <1>6, <3>1
  <2>2. Last(order) \in Slots
    BY <1>11, <1>13, <2>1, <1>6 DEF Last
  <2>3. AfterCursor(Last(order)) \in Slots
    <3>1. Last(order) \in Int
      BY <1>s, <2>2
    <3>2. Last(order) % N \in 0..(N - 1)
      BY <1>3, <3>1, TurnIs
    <3> QED
      BY <1>3, <3>2 DEF AfterCursor, Slots
  <2>4. QueueOK(moved) /\ moved.jobs = queued.jobs /\ moved.rings = queued.rings
    BY <1>15, <2>3, CursorMoves
  <2>5. RetriedAt(k, p) = moved
    BY <1>1, <1>18
  <2> HIDE DEF moved
  <2>6. Grown(k, moved)
    BY <1>15, <1>16, <2>4 DEF Grown, SameJobs
  <2>7. Len(moved.rings[p]) > 0
    BY <1>15, <2>1, <2>4
  <2> QED
    BY <2>4, <2>5, <2>6, <2>7 DEF PlacesGiven
<1> QED
  BY <1>17, <1>18

(* All three rounds.                                                       *)
LEMMA RetryKeeps ==
    ASSUME NEW k, QueueOK(k)
    PROVE  PlacesGiven(k, retryPending(k), High)
<1> DEFINE a == RetriedAt(k, High)
           b == RetriedAt(a, 1)
           c == RetriedAt(b, 0)
<1>1. High \in Prios /\ 1 \in Prios /\ 0 \in Prios
  BY DEF High, Prios
<1>2. PlacesGiven(k, a, High)
  BY <1>1, RetriedKeeps
<1> HIDE DEF a
<1>3. PlacesGiven(a, b, 1)
  BY <1>1, <1>2, RetriedKeeps DEF PlacesGiven
<1> HIDE DEF b
<1>4. PlacesGiven(b, c, 0)
  BY <1>1, <1>3, RetriedKeeps DEF PlacesGiven
<1>5. retryPending(k) = c
  BY DEF retryPending, a, b, c
<1> HIDE DEF c
<1>6. QueueShape(k) /\ QueueShape(a) /\ QueueShape(b) /\ QueueShape(c)
  BY <1>2, <1>3, <1>4 DEF PlacesGiven, QueueOK
<1>7. Grown(a, c)
  BY <1>3, <1>4, <1>6, GrownTwice DEF PlacesGiven
<1>8. Grown(k, c)
  BY <1>2, <1>6, <1>7, GrownTwice DEF PlacesGiven
<1>9. Len(a.rings[High]) \in Nat /\ Len(c.rings[High]) \in Nat
  BY <1>1, <1>6, RingsAre DEF RingsOf
<1>10. (\E s \in Slots : Retriable(k.jobs[s], High)) => Len(c.rings[High]) > 0
  BY <1>1, <1>2, <1>7, <1>9 DEF PlacesGiven, Grown
<1> QED
  BY <1>4, <1>5, <1>8, <1>10 DEF PlacesGiven

(* Rings are emptied, and no job but loses its place.                      *)
Emptied(k, l, p) ==
    /\ QueueOK(l) /\ SameJobs(k, l)
    /\ \A r \in Prios : r <= p => l.rings[r] = k.rings[r]

LEMMA DrainedFurther ==
    ASSUME NEW k, NEW l, NEW p \in {1, 2}, Emptied(k, l, p)
    PROVE  Emptied(k, PoppedAll(l, p), p - 1)
<1> DEFINE n == Len(l.rings[p])
           m == PoppedAll(l, p)
<1>1. p \in Prios /\ QueueOK(l)
  BY DEF Prios, Emptied
<1>2. n \in 0..n
  BY <1>1, RingsAre DEF RingsOf, QueueOK
<1>3. m = Popped(l, p, n)
  BY DEF PoppedAll
<1>4. QueueOK(m) /\ SameJobs(l, m) /\ RingPopped(l, m, p, n)
  BY <1>1, <1>2, <1>3, PoppedKeeps, PoppedIs
<1> HIDE DEF m, n
<1>5. SameJobs(k, m)
  BY <1>4, SameJobsTwice DEF Emptied
<1>6. ASSUME NEW r \in Prios, r <= p - 1 PROVE m.rings[r] = k.rings[r]
  <2>1. r <= p /\ r # p
    BY <1>6 DEF Prios
  <2> QED
    BY <1>4, <2>1 DEF Emptied, RingPopped
<1> QED
  BY <1>4, <1>5, <1>6 DEF Emptied, m

LEMMA DrainedIs ==
    ASSUME NEW k, QueueOK(k), NEW p \in Prios PROVE Emptied(k, RingsDrained(k, p), p)
<1>1. \A s \in Slots : SameJob(k.jobs[s], k.jobs[s])
  BY RingsAre DEF QueueOK, RingsOf, SameJob
<1>2. Emptied(k, k, 2)
  BY <1>1 DEF Emptied, SameJobs
<1>3. Emptied(k, PoppedAll(k, 2), 1)
  <2>1. Emptied(k, PoppedAll(k, 2), 2 - 1)
    BY <1>2, DrainedFurther
  <2> QED
    BY <2>1
<1>4. Emptied(k, PoppedAll(PoppedAll(k, 2), 1), 0)
  <2>1. Emptied(k, PoppedAll(PoppedAll(k, 2), 1), 1 - 1)
    BY <1>3, DrainedFurther
  <2> QED
    BY <2>1
<1>5. CASE p = 2
  BY <1>2, <1>5 DEF RingsDrained
<1>6. CASE p = 1
  BY <1>3, <1>6 DEF RingsDrained
<1>7. CASE p = 0
  BY <1>4, <1>7 DEF RingsDrained
<1> QED
  BY <1>5, <1>6, <1>7 DEF Prios

(* dequeueNextJob_ that finds nothing.                                     *)
LEMMA NothingFound ==
    ASSUME NEW k, QueueOK(k)
    PROVE  LET l == retryPending(PoppedAll(RingsDrained(k, 0), 0))
           IN  QueueOK(l) /\ SameJobs(k, l)
<1> DEFINE d == RingsDrained(k, 0)
           n == Len(d.rings[0])
           e == PoppedAll(d, 0)
<1>1. 0 \in Prios
  BY DEF Prios
<1>2. QueueOK(d) /\ SameJobs(k, d)
  BY <1>1, DrainedIs DEF Emptied
<1> HIDE DEF d
<1>3. n \in 0..n
  BY <1>1, <1>2, RingsAre DEF RingsOf, QueueOK
<1>4. e = Popped(d, 0, n)
  BY DEF PoppedAll
<1>5. QueueOK(e) /\ SameJobs(d, e)
  BY <1>1, <1>2, <1>3, <1>4, PoppedKeeps
<1> HIDE DEF e, n
<1>6. QueueOK(retryPending(e)) /\ SameJobs(e, retryPending(e))
  BY <1>5, RetryKeeps DEF PlacesGiven, Grown
<1> QED
  BY <1>2, <1>5, <1>6, SameJobsTwice DEF d, e

(* dequeueNextJob_ that takes a job.                                       *)
TakenFrom(k, l, s) ==
    /\ QueueOK(l)
    /\ \A t \in Slots \ {s} : SameJob(k.jobs[t], l.jobs[t])
    /\ l.jobs[s].state = "Processing" /\ l.jobs[s].msg = k.jobs[s].msg

LEMMA TakableIs ==
    ASSUME NEW k, QueueOK(k), NEW p \in Prios, NEW i \in Takable(k, p)
    PROVE  /\ i \in 1..Len(k.rings[p]) /\ ~k.rings[p][i].old /\ k.rings[p][i].slot \in Slots
           /\ k.jobs[k.rings[p][i].slot].state = "Queued"
           /\ k.jobs[k.rings[p][i].slot].queuedPrio = p
           /\ k.jobs[k.rings[p][i].slot].delay = 0
<1>1. RingsOf(k)
  BY RingsAre DEF QueueOK
<1>2. i \in DOMAIN k.rings[p] /\ Valid(k, p, i) /\ k.jobs[k.rings[p][i].slot].delay = 0
  BY DEF Takable
<1> QED
  BY <1>1, <1>2 DEF RingsOf, Valid

LEMMA TakenIs ==
    ASSUME NEW k, QueueOK(k), NEW p \in Prios, NEW i \in Takable(k, p)
    PROVE  TakenFrom(k, Taken(k, p, i), k.rings[p][i].slot)
<1> DEFINE s == k.rings[p][i].slot
           d == RingsDrained(k, p)
           e == Popped(d, p, i)
           job == [e.jobs[s] EXCEPT !.state = "Processing"]
           f == [e EXCEPT !.jobs[s] = job]
<1>1. /\ i \in 1..Len(k.rings[p]) /\ ~k.rings[p][i].old /\ s \in Slots
  BY TakableIs
<1>2. QueueOK(d) /\ SameJobs(k, d) /\ d.rings[p] = k.rings[p]
  <2>1. p <= p
    BY DEF Prios
  <2> QED
    BY <2>1, DrainedIs DEF Emptied
<1>3. Parked(d, p, i, s) /\ i \in 0..Len(d.rings[p])
  <2>1. i \in 1..i /\ i \in 0..Len(d.rings[p])
    BY <1>1, <1>2
  <2> QED
    BY <1>1, <1>2, <2>1 DEF Parked
<1>4. Taken(k, p, i) = retryPending([e EXCEPT !.jobs[s].state = "Processing"])
  BY DEF Taken
<1> HIDE DEF d, s
<1>5. QueueOK(e) /\ SameJobs(d, e) /\ JobsParked(d, e, p, i)
  BY <1>2, <1>3, PoppedKeeps, PoppedIs
<1> HIDE DEF e
<1>6. e.jobs[s].state = "Waiting" /\ \A t \in Slots : e.jobs[t] \in Job
  <2>1. d.jobs[s] \in Job /\ \A t \in Slots : e.jobs[t] \in Job
    BY <1>1, <1>2, <1>5, RingsAre DEF RingsOf, QueueOK
  <2>2. e.jobs[s] = [d.jobs[s] EXCEPT !.state = "Waiting"]
    BY <1>1, <1>3, <1>5 DEF JobsParked
  <2> QED
    BY <2>1, <2>2 DEF Job
<1>7. job \in Job /\ job.state = "Processing" /\ job.msg = e.jobs[s].msg
  BY <1>1, <1>6 DEF Job, States
<1>8. [e EXCEPT !.jobs[s].state = "Processing"] = f
  OBVIOUS
<1>9. SamePlace(e.jobs[s], job)
  BY <1>6, <1>7 DEF SamePlace
<1> HIDE DEF job
<1>10. QueueOK(f)
  BY <1>1, <1>5, <1>7, <1>9, PlaceKept
<1>11. f.jobs[s] = job /\ \A t \in Slots \ {s} : f.jobs[t] = e.jobs[t]
  BY <1>1, <1>5 DEF QueueOK, QueueShape
<1> HIDE DEF f
<1> DEFINE l == retryPending(f)
<1>12. QueueOK(l) /\ SameJobs(f, l)
  BY <1>10, RetryKeeps DEF PlacesGiven, Grown
<1> HIDE DEF l
<1>13. SameJobs(k, e)
  BY <1>2, <1>5, SameJobsTwice
<1>14. ASSUME NEW t \in Slots \ {s} PROVE SameJob(k.jobs[t], l.jobs[t])
  BY <1>11, <1>12, <1>13 DEF SameJobs, SameJob
<1>15. l.jobs[s].state = "Processing" /\ l.jobs[s].msg = k.jobs[s].msg
  BY <1>1, <1>7, <1>11, <1>12, <1>13 DEF SameJobs, SameJob
<1>16. Taken(k, p, i) = l
  BY <1>4, <1>8 DEF l
<1> QED
  BY <1>12, <1>14, <1>15, <1>16 DEF TakenFrom, s

(* Time passes for every job alike.                                        *)
LEMMA LessIs ==
    ASSUME NEW n \in Nat, NEW a \in 0..n, NEW e \in Nat
    PROVE  Less(a, e) \in 0..n /\ Less(a, e) <= a /\ Less(0, e) = 0
BY DEF Less

LEMMA LaterKeeps ==
    ASSUME NEW k, QueueOK(k), NEW e \in Nat
    PROVE  /\ QueueOK(Later(k, e))
           /\ \A s \in Slots : /\ Later(k, e).jobs[s].state = k.jobs[s].state
                               /\ Later(k, e).jobs[s].msg = k.jobs[s].msg
                               /\ Later(k, e).jobs[s].again = k.jobs[s].again
                               /\ Later(k, e).jobs[s].delay = Less(k.jobs[s].delay, e)
<1> DEFINE js == [s \in Slots |-> [k.jobs[s] EXCEPT !.delay = Less(@, e)]]
<1>1. \A s \in Slots : k.jobs[s] \in Job
  BY RingsAre DEF QueueOK, RingsOf
<1>2. ASSUME NEW s \in Slots
      PROVE  /\ js[s] \in Job /\ SamePlace(k.jobs[s], js[s])
             /\ js[s].state = k.jobs[s].state /\ js[s].msg = k.jobs[s].msg
             /\ js[s].again = k.jobs[s].again /\ js[s].delay = Less(k.jobs[s].delay, e)
  <2>1. k.jobs[s].delay \in 0..MaxDelay /\ k.jobs[s].priority \in Nat /\ MaxDelay \in Nat
    BY <1>1, QueueConstants DEF Job, Prios
  <2>2. Less(k.jobs[s].delay, e) \in 0..MaxDelay /\ Less(0, e) = 0
    BY <2>1, LessIs
  <2>3. js[s] = [k.jobs[s] EXCEPT !.delay = Less(k.jobs[s].delay, e)] /\ k.jobs[s] \in Job
    BY <1>1
  <2> HIDE DEF js
  <2>4. /\ js[s] \in Job
        /\ js[s].state = k.jobs[s].state /\ js[s].msg = k.jobs[s].msg
        /\ js[s].again = k.jobs[s].again /\ js[s].delay = Less(k.jobs[s].delay, e)
        /\ js[s].priority = k.jobs[s].priority /\ js[s].queuedPrio = k.jobs[s].queuedPrio
    BY <2>2, <2>3 DEF Job
  <2>5. k.jobs[s].state = "Queued" => k.jobs[s].delay = 0
    BY DEF QueueOK, QueuedIsDue
  <2>6. SamePlace(k.jobs[s], js[s])
    BY <2>1, <2>2, <2>4, <2>5 DEF SamePlace
  <2> QED
    BY <2>4, <2>6
<1>3. Later(k, e) = [k EXCEPT !.jobs = js] /\ Later(k, e).jobs = js
  BY DEF Later, QueueOK, QueueShape
<1>4. js \in [Slots -> Job]
  BY <1>2
<1> HIDE DEF js
<1> QED
  BY <1>2, <1>3, <1>4, PlacesKept

(* A job that is asked for again while it is at work will be built again.  *)
AskedAgain(d, e) ==
    /\ e.msg = d.msg /\ e.delay = d.delay
    /\ e.state = d.state \/ {d.state, e.state} \subseteq {"Queued", "Waiting"}
    /\ d.state = "Processing" => e.again

OthersSame(k, l, s) == \A t \in Slots \ {s} : SameJob(k.jobs[t], l.jobs[t])

LEMMA OneOrdered == ASSUME NEW s \in Slots PROVE Order(<<s>>, 1) /\ <<s>>[1] = s
<1>1. 1..1 = {1}
  OBVIOUS
<1>2. <<s>> \in [1..1 -> Slots] /\ <<s>>[1] = s
  BY <1>1
<1> QED
  BY <1>1, <1>2 DEF Order

Put(k, l, s, job) ==
    /\ l.jobs[s] = job /\ l.rings = k.rings
    /\ \A t \in Slots \ {s} : l.jobs[t] = k.jobs[t]
    /\ OthersSame(k, l, s)

LEMMA Replaced ==
    ASSUME NEW k, QueueOK(k), NEW s \in Slots, NEW job \in Job
    PROVE  Put(k, [k EXCEPT !.jobs[s] = job], s, job)
<1> DEFINE l == [k EXCEPT !.jobs[s] = job]
<1>1. /\ l.jobs[s] = job /\ l.rings = k.rings
      /\ \A t \in Slots \ {s} : l.jobs[t] = k.jobs[t]
  BY DEF QueueOK, QueueShape
<1> HIDE DEF l
<1>2. OthersSame(k, l, s)
  BY <1>1 DEF OthersSame, SameJob
<1> QED
  BY <1>1, <1>2 DEF l, Put

LEMMA MergedJob ==
    ASSUME NEW d \in Job, NEW p \in Prios
    PROVE  /\ Merged(d, p) \in Job
           /\ Merged(d, p).msg = d.msg /\ Merged(d, p).delay = d.delay
           /\ Merged(d, p).state = d.state /\ Merged(d, p).queuedPrio = d.queuedPrio
           /\ Merged(d, p).priority >= d.priority
           /\ d.state = "Processing" => Merged(d, p).again
<1>1. d.priority \in Prios /\ d.priority \in Nat /\ p \in Nat
  BY DEF Job, Prios
<1>2. Larger(d.priority, p) \in Prios /\ Larger(d.priority, p) >= d.priority
  BY <1>1 DEF Larger
<1> DEFINE larger == Larger(d.priority, p)
<1>3. Merged(d, p) = [d EXCEPT !.priority = larger, !.again = (d.state = "Processing")]
  BY DEF Merged, Job
<1> HIDE DEF larger
<1>4. larger \in Prios /\ larger >= d.priority
  BY <1>2 DEF larger
<1> QED
  BY <1>3, <1>4 DEF Job

LEMMA CoalesceKeeps ==
    ASSUME NEW k, QueueOK(k), NEW s \in Slots, NEW p \in Prios
    PROVE  /\ QueueOK(coalesce(k, s, p)) /\ OthersSame(k, coalesce(k, s, p), s)
           /\ AskedAgain(k.jobs[s], coalesce(k, s, p).jobs[s])
<1> DEFINE d == k.jobs[s]
           e == Merged(d, p)
           merged == [k EXCEPT !.jobs[s] = e]
           prio == merged.jobs[s].priority
           l == queueSlots(merged, prio, <<s>>)
<1>1. coalesce(k, s, p) = IF Promotable(merged.jobs[s]) /\ Room(k, prio) > 0 THEN l ELSE merged
  BY DEF coalesce
<1>2. d \in Job /\ QueueShape(k)
  BY RingsAre DEF QueueOK, RingsOf
<1>3. /\ e \in Job /\ e.msg = d.msg /\ e.delay = d.delay /\ e.state = d.state
      /\ e.queuedPrio = d.queuedPrio /\ e.priority >= d.priority
      /\ d.state = "Processing" => e.again
  BY <1>2, MergedJob
<1> HIDE DEF e
<1>4. SamePlace(d, e)
  BY <1>3 DEF SamePlace
<1>5. QueueOK(merged) /\ merged.jobs[s] = e /\ merged.rings = k.rings /\ OthersSame(k, merged, s)
  <2>1. QueueOK(merged) /\ Put(k, merged, s, e)
    BY <1>3, <1>4, PlaceKept, Replaced
  <2> HIDE DEF merged
  <2> QED
    BY <2>1 DEF Put
<1>6. AskedAgain(d, e)
  BY <1>3 DEF AskedAgain
<1>7. prio = e.priority /\ e.priority \in Prios /\ e.queuedPrio \in Prios
  BY <1>3, <1>5 DEF Job
<1> HIDE DEF merged, prio
<1>8. CASE Promotable(merged.jobs[s]) /\ Room(k, prio) > 0
  <2>1. coalesce(k, s, p) = l /\ e.state = "Queued" /\ e.priority > e.queuedPrio
    BY <1>1, <1>5, <1>8 DEF Promotable
  <2>2. e.delay = 0
    BY <1>5, <2>1 DEF QueueOK, QueuedIsDue
  <2>3. Admissible(e, prio)
    BY <1>7, <2>1, <2>2 DEF Admissible, High, Prios
  <2>4. 1 \in Nat /\ Order(<<s>>, 1) /\ <<s>>[1] = s
    BY OneOrdered
  <2>5. 1 <= Room(merged, prio)
    <3>1. Room(merged, prio) = Room(k, prio) /\ Room(k, prio) \in Int
      BY <1>2, <1>5, <1>7, RingsAre, QueueConstants DEF Room, RingsOf
    <3> QED
      BY <1>8, <3>1
  <2>6. \A i \in 1..1 : Admissible(merged.jobs[<<s>>[i]], prio)
                        /\ merged.jobs[<<s>>[i]].state \in {"Queued", "Waiting"}
    BY <1>5, <2>1, <2>3
  <2>7. QueueOK(l) /\ SameJobs(merged, l)
    BY <1>5, <1>7, <2>4, <2>5, <2>6, QueueSlotsKeeps, QueuedSame
  <2> HIDE DEF l
  <2>8. OthersSame(k, l, s)
    BY <1>5, <2>7 DEF OthersSame, SameJobs, SameJob
  <2>9. AskedAgain(d, l.jobs[s])
    BY <1>5, <1>6, <2>7 DEF AskedAgain, SameJobs, SameJob
  <2> QED
    BY <2>1, <2>7, <2>8, <2>9
<1>9. CASE ~(Promotable(merged.jobs[s]) /\ Room(k, prio) > 0)
  BY <1>1, <1>5, <1>6, <1>9
<1> QED
  BY <1>8, <1>9

LEMMA AdmitKeeps ==
    ASSUME NEW k, QueueOK(k), NEW s \in Slots, k.jobs[s].state = "Free",
           NEW m \in Messages, NEW p \in Prios, Room(k, p) > 0
    PROVE  /\ QueueOK(admit(k, s, m, p)) /\ OthersSame(k, admit(k, s, m, p), s)
           /\ admit(k, s, m, p).jobs[s].state = "Queued"
           /\ admit(k, s, m, p).jobs[s].msg = m
<1> DEFINE e == [NoJob EXCEPT !.msg = m, !.priority = p]
           asked == [k EXCEPT !.jobs[s] = e]
           l == queueSlots(asked, p, <<s>>)
<1>1. admit(k, s, m, p) = l
  BY DEF admit
<1>2. e \in Job /\ e.state = "Free" /\ e.delay = 0 /\ e.priority = p /\ e.msg = m
  <2>1. NoJob \in Job /\ NoJob.state = "Free" /\ NoJob.delay = 0
    BY QueueConstants DEF NoJob, Job, States, Prios
  <2> QED
    BY <2>1 DEF Job
<1> HIDE DEF e
<1>3. SamePlace(k.jobs[s], e)
  BY <1>2 DEF SamePlace
<1>4. QueueOK(asked) /\ asked.jobs[s] = e /\ asked.rings = k.rings /\ OthersSame(k, asked, s)
  <2>1. QueueOK(asked) /\ Put(k, asked, s, e)
    BY <1>2, <1>3, PlaceKept, Replaced
  <2> HIDE DEF asked
  <2> QED
    BY <2>1 DEF Put
<1> HIDE DEF asked
<1>5. Admissible(e, p)
  BY <1>2 DEF Admissible, Prios
<1>6. 1 \in Nat /\ Order(<<s>>, 1) /\ <<s>>[1] = s
  BY OneOrdered
<1>7. 1 <= Room(asked, p)
  <2>1. Room(asked, p) = Room(k, p) /\ Room(k, p) \in Int
    BY <1>4, RingsAre, QueueConstants DEF Room, RingsOf, QueueOK
  <2> QED
    BY <2>1
<1>8. \A i \in 1..1 : Admissible(asked.jobs[<<s>>[i]], p)
  BY <1>4, <1>5
<1>9. QueueOK(l)
  BY <1>4, <1>6, <1>7, <1>8, QueueSlotsKeeps
<1>10. JobsPlaced(asked, l, p, 1, <<s>>)
  BY <1>4, <1>6, QueuedJobs DEF QueueOK
<1> HIDE DEF l
<1>11. \A t : Placed(<<s>>, 1, t) <=> t = s
  BY <1>6 DEF Placed
<1>12. l.jobs[s] = [e EXCEPT !.state = "Queued", !.queuedPrio = p]
  BY <1>4, <1>10, <1>11 DEF JobsPlaced
<1>13. l.jobs[s].state = "Queued" /\ l.jobs[s].msg = m
  BY <1>2, <1>12 DEF Job
<1>14. \A t \in Slots \ {s} : l.jobs[t] = asked.jobs[t]
  BY <1>10, <1>11 DEF JobsPlaced
<1>15. OthersSame(k, l, s)
  BY <1>4, <1>14 DEF OthersSame
<1> QED
  BY <1>1, <1>9, <1>13, <1>15

(* What the slots have to do with the task and with what was accepted.     *)
Working == {"Build", "Settle"}

MessagesKnown(js) == \A s \in Slots : js[s].state # "Free" => js[s].msg \in Messages

OneEach(js) ==
    \A s, t \in Slots :
        js[s].state # "Free" /\ js[t].state # "Free" /\ js[s].msg = js[t].msg => s = t

OneAtWork(js, tk) ==
    \A s \in Slots : js[s].state = "Processing" <=> tk.at \in Working /\ tk.slot = s

StillOwed(job, at, m) ==
    /\ job.msg = m
    /\ \/ job.state \in {"Queued", "Waiting"}
       \/ job.state = "Processing" /\ (at = "Build" \/ job.again)

AllKept(js, at, due) == \A m \in due : \E s \in Slots : StillOwed(js[s], at, m)

Resting(job, m, left) ==
    job.state \in {"Queued", "Waiting"} /\ job.msg = m /\ left <= job.delay

AllRest(js, rests) ==
    \A m \in Messages : rests[m] = 0 \/ \E s \in Slots : Resting(js[s], m, rests[m])

JobsOK(js, tk, due, rests) ==
    /\ MessagesKnown(js) /\ OneEach(js) /\ OneAtWork(js, tk)
    /\ AllKept(js, tk.at, due) /\ AllRest(js, rests)

TaskShape(tk) ==
    /\ tk \in [at : {"Idle", "Pass", "Build", "Settle"}, slot : 0..N, result : Results]
    /\ tk.at \in Working => tk.slot \in Slots

QueueInv ==
    /\ QueueOK(q) /\ JobsOK(q.jobs, task, owed, resting) /\ TaskShape(task)
    /\ connected \in BOOLEAN /\ pace \in 0..Pace
    /\ owed \subseteq Messages /\ resting \in [Messages -> 0..MaxDelay]

LEMMA JobsStayOK ==
    ASSUME NEW k, NEW l, NEW tk, NEW due, NEW rests, SameJobs(k, l),
           JobsOK(k.jobs, tk, due, rests)
    PROVE  JobsOK(l.jobs, tk, due, rests)
<1>1. ASSUME NEW s \in Slots
      PROVE  /\ SameJob(k.jobs[s], l.jobs[s])
             /\ l.jobs[s].msg = k.jobs[s].msg
             /\ l.jobs[s].state = "Free" <=> k.jobs[s].state = "Free"
             /\ l.jobs[s].state = "Processing" <=> k.jobs[s].state = "Processing"
             /\ \A m : StillOwed(k.jobs[s], tk.at, m) => StillOwed(l.jobs[s], tk.at, m)
             /\ \A m, n : Resting(k.jobs[s], m, n) => Resting(l.jobs[s], m, n)
  BY DEF SameJobs, SameJob, StillOwed, Resting
<1>2. MessagesKnown(l.jobs) /\ OneEach(l.jobs) /\ OneAtWork(l.jobs, tk)
  BY <1>1 DEF JobsOK, MessagesKnown, OneEach, OneAtWork
<1>3. AllKept(l.jobs, tk.at, due) /\ AllRest(l.jobs, rests)
  BY <1>1 DEF JobsOK, AllKept, AllRest
<1> QED
  BY <1>2, <1>3 DEF JobsOK

LEMMA QueueInvInit == QueueInit => QueueInv
<1> SUFFICES ASSUME QueueInit PROVE QueueInv
  OBVIOUS
<1>1. NoJob \in Job /\ NoJob.state = "Free"
  BY QueueConstants DEF NoJob, Job, States, Prios
<1>2. /\ q.jobs = [s \in Slots |-> NoJob] /\ q.rings = [p \in Prios |-> <<>>]
      /\ q.cursor = [p \in Prios |-> 1]
      /\ q \in [jobs : [Slots -> Job], rings : [Prios -> Seq(Ref)], cursor : [Prios -> Slots]]
  BY <1>1, QueueConstants DEF QueueInit, Slots
<1>3. \A s \in Slots : q.jobs[s].state = "Free"
  BY <1>1, <1>2
<1>4. \A p \in Prios : Len(q.rings[p]) = 0
  BY <1>2
<1>5. QueueShape(q)
  BY <1>2, <1>4, QueueConstants DEF QueueShape
<1>6. QueueOK(q)
  <2>1. High \in Prios
    BY DEF High, Prios
  <2> QED
    BY <1>3, <1>4, <1>5, <2>1
       DEF QueueOK, LiveIsQueued, QueuedIsLive, OneLive, QueuedIsDue, UrgentIsLive
<1>7. TaskShape(task) /\ task.at = "Idle"
  BY QueueConstants DEF QueueInit, TaskIdle, TaskShape, Results, Working
<1>8. JobsOK(q.jobs, task, owed, resting)
  BY <1>3, <1>7
     DEF JobsOK, MessagesKnown, OneEach, OneAtWork, AllKept, AllRest, QueueInit, Working
<1> QED
  BY <1>6, <1>7, <1>8, QueueConstants DEF QueueInv, QueueInit

(* One action after the other.                                             *)
LEMMA EnqueueKeepsQueue ==
    ASSUME QueueInv, NEW r \in Requests, Enqueue(r) PROVE QueueInv'
<1> DEFINE mine == {s \in Slots : Coalesces(q, s, r.msg)}
<1>1. /\ r.msg \in Messages /\ r.priority \in Prios
      /\ owed' = owed \cup {r.msg} /\ UNCHANGED <<connected, task, pace, resting>>
      /\ QueueOK(q) /\ JobsOK(q.jobs, task, owed, resting)
  BY QueueConstants DEF Enqueue, QueueInv
<1>2. ASSUME NEW s \in Slots, q.jobs[s].state # "Free", q.jobs[s].msg = r.msg,
             q' = coalesce(q, s, r.priority)
      PROVE  QueueOK(q') /\ JobsOK(q'.jobs, task, owed \cup {r.msg}, resting)
  <2>1. QueueOK(q') /\ OthersSame(q, q', s) /\ AskedAgain(q.jobs[s], q'.jobs[s])
    BY <1>1, <1>2, CoalesceKeeps
  <2>2. ASSUME NEW t \in Slots
        PROVE  /\ q'.jobs[t].msg = q.jobs[t].msg
               /\ q'.jobs[t].state = "Free" <=> q.jobs[t].state = "Free"
               /\ q'.jobs[t].state = "Processing" <=> q.jobs[t].state = "Processing"
               /\ \A m : StillOwed(q.jobs[t], task.at, m) => StillOwed(q'.jobs[t], task.at, m)
               /\ \A m, n : Resting(q.jobs[t], m, n) => Resting(q'.jobs[t], m, n)
    <3>1. CASE t = s
      BY <2>1, <3>1 DEF AskedAgain, StillOwed, Resting
    <3>2. CASE t # s
      BY <2>1, <3>2 DEF OthersSame, SameJob, StillOwed, Resting
    <3> QED
      BY <3>1, <3>2
  <2>3. StillOwed(q'.jobs[s], task.at, r.msg)
    <3>1. q.jobs[s] \in Job
      BY <1>1, RingsAre DEF QueueOK, RingsOf
    <3>2. q.jobs[s].state \in {"Queued", "Waiting", "Processing"}
      BY <1>2, <3>1 DEF Job, States
    <3> QED
      BY <1>2, <2>1, <3>2 DEF AskedAgain, StillOwed
  <2>4. MessagesKnown(q'.jobs) /\ OneEach(q'.jobs) /\ OneAtWork(q'.jobs, task)
    BY <1>1, <2>2 DEF JobsOK, MessagesKnown, OneEach, OneAtWork
  <2>5. AllKept(q'.jobs, task.at, owed \cup {r.msg}) /\ AllRest(q'.jobs, resting)
    BY <1>1, <2>2, <2>3 DEF JobsOK, AllKept, AllRest
  <2> QED
    BY <2>1, <2>4, <2>5 DEF JobsOK
<1>3. ASSUME mine = {}, Room(q, r.priority) > 0, NEW s \in Slots, FirstFree(s),
             q' = admit(q, s, r.msg, r.priority)
      PROVE  QueueOK(q') /\ JobsOK(q'.jobs, task, owed \cup {r.msg}, resting)
  <2>1. q.jobs[s].state = "Free"
    BY <1>3 DEF FirstFree
  <2>2. /\ QueueOK(q') /\ OthersSame(q, q', s)
        /\ q'.jobs[s].state = "Queued" /\ q'.jobs[s].msg = r.msg
    BY <1>1, <1>3, <2>1, AdmitKeeps
  <2>3. \A t \in Slots : q.jobs[t].state # "Free" => q.jobs[t].msg # r.msg
    BY <1>3 DEF Coalesces
  <2>4. ASSUME NEW t \in Slots, t # s
        PROVE  /\ q'.jobs[t].msg = q.jobs[t].msg
               /\ q'.jobs[t].state = "Free" <=> q.jobs[t].state = "Free"
               /\ q'.jobs[t].state = "Processing" <=> q.jobs[t].state = "Processing"
               /\ \A m : StillOwed(q.jobs[t], task.at, m) => StillOwed(q'.jobs[t], task.at, m)
               /\ \A m, n : Resting(q.jobs[t], m, n) => Resting(q'.jobs[t], m, n)
    BY <2>2, <2>4 DEF OthersSame, SameJob, StillOwed, Resting
  <2>5. /\ StillOwed(q'.jobs[s], task.at, r.msg)
        /\ \A m : ~StillOwed(q.jobs[s], task.at, m)
        /\ \A m, n : ~Resting(q.jobs[s], m, n)
    BY <2>1, <2>2 DEF StillOwed, Resting
  <2>6. MessagesKnown(q'.jobs) /\ OneEach(q'.jobs)
    BY <1>1, <2>2, <2>3, <2>4 DEF JobsOK, MessagesKnown, OneEach
  <2>7. OneAtWork(q'.jobs, task)
    BY <1>1, <2>1, <2>2, <2>4 DEF JobsOK, OneAtWork
  <2>8. AllKept(q'.jobs, task.at, owed \cup {r.msg}) /\ AllRest(q'.jobs, resting)
    BY <1>1, <2>4, <2>5 DEF JobsOK, AllKept, AllRest
  <2> QED
    BY <2>2, <2>6, <2>7, <2>8 DEF JobsOK
<1>4. QueueOK(q') /\ JobsOK(q'.jobs, task, owed \cup {r.msg}, resting)
  <2>1. \A s \in mine : s \in Slots /\ q.jobs[s].state # "Free" /\ q.jobs[s].msg = r.msg
    BY DEF Coalesces
  <2>2. \/ \E s \in mine : q' = coalesce(q, s, r.priority)
        \/ /\ mine = {} /\ Room(q, r.priority) > 0
           /\ \E s \in Slots : FirstFree(s) /\ q' = admit(q, s, r.msg, r.priority)
    BY DEF Enqueue
  <2> HIDE DEF mine
  <2> QED
    BY <1>2, <1>3, <2>1, <2>2
<1> QED
  BY <1>1, <1>4 DEF QueueInv

LEMMA PassKeepsQueue == ASSUME QueueInv, Passes PROVE QueueInv'
<1>1. PICK e \in 1..MaxDelay : Pass(e)
  BY DEF Passes
<1> DEFINE k == Later(q, e)
           rests == [m \in Messages |-> Less(resting[m], e)]
<1>2. e \in Nat /\ MaxDelay \in Nat /\ Pace \in Nat
  BY <1>1, QueueConstants
<1>3. /\ task = TaskIdle /\ q' = retryPending(k) /\ pace' = Less(pace, e) /\ resting' = rests
      /\ task' = IF Less(pace, e) > 0 THEN TaskIdle ELSE [TaskIdle EXCEPT !.at = "Pass"]
      /\ UNCHANGED <<connected, owed>>
      /\ QueueOK(q) /\ JobsOK(q.jobs, task, owed, resting)
      /\ resting \in [Messages -> 0..MaxDelay] /\ pace \in 0..Pace
  BY <1>1 DEF Pass, QueueInv
<1>4. /\ QueueOK(k)
      /\ \A s \in Slots : /\ k.jobs[s].state = q.jobs[s].state /\ k.jobs[s].msg = q.jobs[s].msg
                          /\ k.jobs[s].again = q.jobs[s].again
                          /\ k.jobs[s].delay = Less(q.jobs[s].delay, e)
  BY <1>2, <1>3, LaterKeeps
<1> HIDE DEF k
<1>5. /\ task'.at \in {"Idle", "Pass"} /\ TaskShape(task') /\ task.at = "Idle"
  BY <1>3, QueueConstants DEF TaskIdle, TaskShape, Results, Working
<1>6. rests \in [Messages -> 0..MaxDelay] /\ Less(pace, e) \in 0..Pace
  <2>1. \A m \in Messages : Less(resting[m], e) \in 0..MaxDelay
    BY <1>2, <1>3, LessIs
  <2> QED
    BY <1>2, <1>3, <2>1, LessIs
<1>7. AllRest(k.jobs, rests)
  <2> SUFFICES ASSUME NEW m \in Messages, rests[m] # 0
               PROVE  \E s \in Slots : Resting(k.jobs[s], m, rests[m])
    BY DEF AllRest
  <2>1. rests[m] = Less(resting[m], e) /\ resting[m] \in Nat
    BY <1>2, <1>3
  <2>2. resting[m] # 0
    BY <1>2, <2>1, LessIs DEF Less
  <2>3. PICK s \in Slots : Resting(q.jobs[s], m, resting[m])
    BY <1>3, <2>2 DEF JobsOK, AllRest
  <2>4. q.jobs[s].delay \in Nat /\ resting[m] <= q.jobs[s].delay
    <3>1. q.jobs[s] \in Job
      BY <1>3, RingsAre DEF QueueOK, RingsOf
    <3> QED
      BY <1>2, <2>3, <3>1 DEF Job, Resting
  <2>5. Less(resting[m], e) <= Less(q.jobs[s].delay, e)
    BY <1>2, <2>1, <2>4 DEF Less
  <2> QED
    BY <1>4, <2>1, <2>3, <2>5 DEF Resting
<1>8. JobsOK(k.jobs, task', owed, rests)
  <2>1. MessagesKnown(k.jobs) /\ OneEach(k.jobs)
    BY <1>3, <1>4 DEF JobsOK, MessagesKnown, OneEach
  <2>2. OneAtWork(k.jobs, task')
    BY <1>3, <1>4, <1>5 DEF JobsOK, OneAtWork, Working
  <2>3. AllKept(k.jobs, task'.at, owed)
    BY <1>3, <1>4, <1>5 DEF JobsOK, AllKept, StillOwed
  <2> QED
    BY <1>7, <2>1, <2>2, <2>3 DEF JobsOK
<1>9. QueueOK(q') /\ SameJobs(k, q')
  BY <1>3, <1>4, RetryKeeps DEF PlacesGiven, Grown
<1>10. JobsOK(q'.jobs, task', owed, rests)
  BY <1>8, <1>9, JobsStayOK
<1> HIDE DEF rests
<1> QED
  BY <1>3, <1>5, <1>6, <1>9, <1>10 DEF QueueInv

LEMMA DequeueKeepsQueue == ASSUME QueueInv, Dequeue PROVE QueueInv'
<1> DEFINE k == retryPending(q)
<1>1. /\ task.at = "Pass" /\ UNCHANGED <<connected, pace, owed, resting>>
      /\ QueueOK(q) /\ JobsOK(q.jobs, task, owed, resting) /\ TaskShape(task)
      /\ resting \in [Messages -> 0..MaxDelay]
  BY DEF Dequeue, QueueInv
<1>2. QueueOK(k) /\ SameJobs(q, k)
  BY <1>1, RetryKeeps DEF PlacesGiven, Grown
<1>3. JobsOK(k.jobs, task, owed, resting)
  BY <1>1, <1>2, JobsStayOK
<1>4. \/ /\ q' = retryPending(PoppedAll(RingsDrained(k, 0), 0)) /\ task' = TaskIdle
      \/ \E p \in Prios : \E i \in Takable(k, p) :
            /\ q' = Taken(k, p, i)
            /\ task' = [TaskIdle EXCEPT !.at = "Build", !.slot = k.rings[p][i].slot]
  BY DEF Dequeue
<1> HIDE DEF k
<1>5. ASSUME q' = retryPending(PoppedAll(RingsDrained(k, 0), 0)), task' = TaskIdle
      PROVE  QueueOK(q') /\ JobsOK(q'.jobs, task', owed, resting) /\ TaskShape(task')
  <2>1. QueueOK(q') /\ SameJobs(k, q')
    BY <1>2, <1>5, NothingFound
  <2>2. JobsOK(q'.jobs, task, owed, resting)
    BY <1>3, <2>1, JobsStayOK
  <2>3. task'.at = "Idle" /\ TaskShape(task')
    BY <1>5, QueueConstants DEF TaskIdle, TaskShape, Results, Working
  <2>4. OneAtWork(q'.jobs, task')
    BY <1>1, <2>2, <2>3 DEF JobsOK, OneAtWork, Working
  <2>5. AllKept(q'.jobs, task'.at, owed)
    BY <1>1, <2>2, <2>3 DEF JobsOK, AllKept, StillOwed
  <2> QED
    BY <2>1, <2>2, <2>3, <2>4, <2>5 DEF JobsOK
<1>6. ASSUME NEW p \in Prios, NEW i \in Takable(k, p), q' = Taken(k, p, i),
             task' = [TaskIdle EXCEPT !.at = "Build", !.slot = k.rings[p][i].slot]
      PROVE  QueueOK(q') /\ JobsOK(q'.jobs, task', owed, resting) /\ TaskShape(task')
  <2> DEFINE s == k.rings[p][i].slot
  <2>1. /\ s \in Slots /\ k.jobs[s].state = "Queued" /\ k.jobs[s].delay = 0
    BY <1>2, TakableIs
  <2>2. TakenFrom(k, q', s)
    BY <1>2, <1>6, TakenIs
  <2> HIDE DEF s
  <2>3. task'.at = "Build" /\ task'.slot = s /\ TaskShape(task')
    <3>1. s \in 0..N
      BY <2>1, QueueConstants DEF Slots
    <3>2. task' = [at |-> "Build", slot |-> s, result |-> "Ready"]
      BY <1>6 DEF TaskIdle, s
    <3> QED
      BY <2>1, <3>1, <3>2 DEF TaskShape, Results
  <2>4. q'.jobs[s].state = "Processing" /\ q'.jobs[s].msg = k.jobs[s].msg /\ QueueOK(q')
    BY <2>2 DEF TakenFrom
  <2>5. ASSUME NEW t \in Slots, t # s
        PROVE  /\ q'.jobs[t].msg = k.jobs[t].msg
               /\ q'.jobs[t].state = "Free" <=> k.jobs[t].state = "Free"
               /\ q'.jobs[t].state = "Processing" <=> k.jobs[t].state = "Processing"
               /\ \A m : StillOwed(k.jobs[t], "Pass", m) => StillOwed(q'.jobs[t], "Build", m)
               /\ \A m, n : Resting(k.jobs[t], m, n) => Resting(q'.jobs[t], m, n)
    BY <2>2, <2>5 DEF TakenFrom, SameJob, StillOwed, Resting
  <2>6. \A m : StillOwed(k.jobs[s], "Pass", m) => StillOwed(q'.jobs[s], "Build", m)
    BY <2>4 DEF StillOwed
  <2>7. MessagesKnown(q'.jobs) /\ OneEach(q'.jobs)
    BY <1>3, <2>1, <2>4, <2>5 DEF JobsOK, MessagesKnown, OneEach
  <2>8. OneAtWork(q'.jobs, task')
    BY <1>1, <1>3, <2>3, <2>4, <2>5 DEF JobsOK, OneAtWork, Working
  <2>9. AllKept(q'.jobs, task'.at, owed)
    BY <1>1, <1>3, <2>3, <2>5, <2>6 DEF JobsOK, AllKept
  <2>10. AllRest(q'.jobs, resting)
    <3> SUFFICES ASSUME NEW m \in Messages, resting[m] # 0
                 PROVE  \E t \in Slots : Resting(q'.jobs[t], m, resting[m])
      BY DEF AllRest
    <3>1. PICK t \in Slots : Resting(k.jobs[t], m, resting[m])
      BY <1>3 DEF JobsOK, AllRest
    <3>2. t # s
      <4>1. resting[m] \in Nat
        BY <1>1, QueueConstants
      <4> QED
        BY <2>1, <3>1, <4>1 DEF Resting
    <3> QED
      BY <2>5, <3>1, <3>2
  <2> QED
    BY <2>3, <2>4, <2>7, <2>8, <2>9, <2>10 DEF JobsOK
<1>7. QueueOK(q') /\ JobsOK(q'.jobs, task', owed, resting) /\ TaskShape(task')
  BY <1>4, <1>5, <1>6
<1> QED
  BY <1>1, <1>7 DEF QueueInv

(* The job the task works on is its slot's, and its message has rested.    *)
LEMMA AtWork ==
    ASSUME QueueInv, task.at \in Working
    PROVE  /\ task.slot \in Slots /\ q.jobs[task.slot] \in Job
           /\ q.jobs[task.slot].state = "Processing"
           /\ q.jobs[task.slot].msg \in Messages /\ resting[q.jobs[task.slot].msg] = 0
<1>1. task.slot \in Slots /\ JobsOK(q.jobs, task, owed, resting) /\ QueueOK(q)
  BY DEF QueueInv, TaskShape
<1>2. q.jobs[task.slot] \in Job
  BY <1>1, RingsAre DEF QueueOK, RingsOf
<1>3. q.jobs[task.slot].state = "Processing"
  BY <1>1 DEF JobsOK, OneAtWork
<1>4. q.jobs[task.slot].msg \in Messages
  BY <1>1, <1>3 DEF JobsOK, MessagesKnown
<1> DEFINE m == q.jobs[task.slot].msg
<1>5. ASSUME resting[m] # 0 PROVE FALSE
  <2>1. PICK s \in Slots : Resting(q.jobs[s], m, resting[m])
    BY <1>1, <1>4, <1>5 DEF JobsOK, AllRest
  <2>2. s = task.slot
    BY <1>1, <1>3, <2>1 DEF JobsOK, OneEach, Resting
  <2> QED
    BY <1>3, <2>1, <2>2 DEF Resting
<1> QED
  BY <1>1, <1>2, <1>3, <1>4, <1>5

LEMMA BuildKeepsQueue == ASSUME QueueInv, Builds PROVE QueueInv'
<1>1. PICK result \in Results : BuildJob(result)
  BY DEF Builds
<1> DEFINE s == task.slot
           m == q.jobs[s].msg
<1>2. /\ task.at = "Build" /\ task' = [task EXCEPT !.at = "Settle", !.result = result]
      /\ pace' = (IF result = "Ready" THEN Pace ELSE pace)
      /\ owed' = owed \ {m} /\ UNCHANGED <<q, connected, resting>>
  BY <1>1 DEF BuildJob
<1>3. JobsOK(q.jobs, task, owed, resting) /\ TaskShape(task) /\ pace \in 0..Pace /\ s \in Slots
  BY <1>2, AtWork DEF QueueInv, Working
<1>4. task'.at = "Settle" /\ task'.slot = s /\ TaskShape(task')
  BY <1>2, <1>3 DEF TaskShape, Working
<1>5. OneAtWork(q.jobs, task')
  BY <1>2, <1>3, <1>4 DEF JobsOK, OneAtWork, Working
<1>6. AllKept(q.jobs, "Settle", owed \ {m})
  <2> SUFFICES ASSUME NEW n \in owed \ {m}
               PROVE  \E t \in Slots : StillOwed(q.jobs[t], "Settle", n)
    BY DEF AllKept
  <2>1. PICK t \in Slots : StillOwed(q.jobs[t], "Build", n)
    BY <1>2, <1>3 DEF JobsOK, AllKept
  <2>2. t # s
    BY <2>1 DEF StillOwed
  <2>3. q.jobs[t].state # "Processing"
    BY <1>3, <2>2 DEF JobsOK, OneAtWork
  <2> QED
    BY <2>1, <2>3 DEF StillOwed
<1>7. JobsOK(q.jobs, task', owed \ {m}, resting)
  BY <1>3, <1>4, <1>5, <1>6 DEF JobsOK
<1>8. pace' \in 0..Pace
  BY <1>2, <1>3, QueueConstants
<1> QED
  BY <1>2, <1>4, <1>7, <1>8 DEF QueueInv

(* How a job ends: it leaves, or waits to be built again, rested or not.   *)
Ends(job, e, rest) ==
    \/ e.state = "Free" /\ ~job.again /\ rest = 0
    \/ e.state = "Waiting" /\ e.msg = job.msg /\ e.delay = rest

LEMMA EndedIs ==
    ASSUME NEW job \in Job, job.state = "Processing", NEW result, NEW published \in BOOLEAN
    PROVE  /\ EndedJob(job, result, published) \in Job
           /\ Ends(job, EndedJob(job, result, published),
                   IF published \/ result = "Permanent" THEN 0 ELSE Delay(job.retries))
           /\ Delay(job.retries) \in 0..MaxDelay
<1> DEFINE rest == Delay(job.retries)
           again == Lesser(job.retries + 1, MaxRetries)
<1>1. job.retries \in Nat /\ MaxRetries \in Nat /\ MaxDelay \in Nat
  BY QueueConstants DEF Job
<1>2. rest \in 0..MaxDelay
  BY <1>1, DelayType
<1>3. again \in 0..MaxRetries
  BY <1>1 DEF Lesser
<1>4. NoJob \in Job /\ NoJob.state = "Free"
  BY QueueConstants DEF NoJob, Job, States, Prios
<1>5. RestedJob(job) = [job EXCEPT !.state = "Waiting", !.again = FALSE, !.delay = rest,
                                   !.retries = again]
  BY DEF RestedJob, Job
<1> HIDE DEF rest, again
<1>6. /\ RestedJob(job) \in Job /\ RestedJob(job).state = "Waiting"
      /\ RestedJob(job).msg = job.msg /\ RestedJob(job).delay = rest
  BY <1>2, <1>3, <1>5 DEF Job, States
<1>7. /\ Readmitted(job) \in Job /\ Readmitted(job).state = "Waiting"
      /\ Readmitted(job).msg = job.msg /\ Readmitted(job).delay = 0
  <2>1. "Waiting" \in States /\ 0 \in 0..MaxRetries /\ 0 \in 0..MaxDelay
    BY <1>1 DEF States
  <2> QED
    BY <2>1 DEF Readmitted, Job
<1> QED
  BY <1>2, <1>4, <1>6, <1>7 DEF EndedJob, Ends, rest

LEMMA SettleKeepsQueue == ASSUME QueueInv, Settles PROVE QueueInv'
<1>1. PICK published \in BOOLEAN : Settle(published)
  BY DEF Settles
<1> DEFINE s == task.slot
           job == q.jobs[s]
           m == job.msg
           over == published \/ task.result = "Permanent"
           rest == IF over THEN 0 ELSE Delay(job.retries)
           e == EndedJob(job, task.result, published)
           f == [q EXCEPT !.jobs[s] = e]
<1>2. /\ task.at = "Settle" /\ q' = retryPending(f)
      /\ resting' = [resting EXCEPT ![m] = IF over THEN @ ELSE Delay(job.retries)]
      /\ task' = TaskIdle /\ UNCHANGED <<connected, pace, owed>>
  BY <1>1 DEF Settle
<1>3. s \in Slots /\ job \in Job /\ job.state = "Processing" /\ m \in Messages /\ resting[m] = 0
  BY <1>2, AtWork DEF Working
<1>4. /\ QueueOK(q) /\ JobsOK(q.jobs, task, owed, resting)
      /\ resting \in [Messages -> 0..MaxDelay]
  BY DEF QueueInv
<1>5. e \in Job /\ Ends(job, e, rest) /\ Delay(job.retries) \in 0..MaxDelay
  BY <1>3, EndedIs
<1> HIDE DEF e, over
<1>6. resting' = [resting EXCEPT ![m] = rest] /\ rest \in 0..MaxDelay
  BY <1>2, <1>3, <1>4, <1>5, QueueConstants
<1> HIDE DEF rest
<1>7. QueueOK(f) /\ f.jobs[s] = e /\ \A t \in Slots \ {s} : f.jobs[t] = q.jobs[t]
  <2>1. SamePlace(job, e)
    BY <1>3, <1>5 DEF SamePlace, Ends
  <2> HIDE DEF job
  <2>2. QueueOK(f)
    BY <1>3, <1>4, <1>5, <2>1, PlaceKept DEF job
  <2>3. f.jobs[s] = e /\ \A t \in Slots \ {s} : f.jobs[t] = q.jobs[t]
    <3>1. QueueOK(q) /\ s \in Slots /\ e \in Job
      BY <1>3, <1>4, <1>5
    <3>2. Put(q, f, s, e)
      BY <3>1, Replaced
    <3> HIDE DEF f
    <3> QED
      BY <3>2 DEF Put
  <2> QED
    BY <2>2, <2>3
<1> HIDE DEF f
<1>8. task'.at = "Idle" /\ TaskShape(task')
  BY <1>2, QueueConstants DEF TaskIdle, TaskShape, Results, Working
<1>9. ASSUME NEW t \in Slots PROVE q.jobs[t].state = "Processing" <=> t = s
  BY <1>2, <1>4 DEF JobsOK, OneAtWork, Working
<1>10. e.state \in {"Free", "Waiting"} /\ (e.state # "Free" => e.msg = m)
  BY <1>5 DEF Ends
<1> HIDE DEF job, m, s
<1>a. job.msg = m /\ job.state = "Processing" /\ q.jobs[s] = job
  BY <1>3 DEF job, m
<1>11. MessagesKnown(f.jobs)
  BY <1>3, <1>4, <1>7, <1>10 DEF JobsOK, MessagesKnown
<1>12. OneEach(f.jobs)
  <2> SUFFICES ASSUME NEW t \in Slots, NEW u \in Slots, f.jobs[t].state # "Free",
                      f.jobs[u].state # "Free", f.jobs[t].msg = f.jobs[u].msg
               PROVE  t = u
    BY DEF OneEach
  <2>1. \A v \in Slots : f.jobs[v].state # "Free"
           => q.jobs[v].state # "Free" /\ q.jobs[v].msg = f.jobs[v].msg
    BY <1>7, <1>10, <1>a
  <2> QED
    BY <1>4, <2>1 DEF JobsOK, OneEach
<1>13. OneAtWork(f.jobs, task')
  BY <1>7, <1>8, <1>9, <1>10 DEF OneAtWork, Working
<1>14. AllKept(f.jobs, task'.at, owed)
  <2> SUFFICES ASSUME NEW n \in owed PROVE \E t \in Slots : StillOwed(f.jobs[t], task'.at, n)
    BY DEF AllKept
  <2>1. PICK t \in Slots : StillOwed(q.jobs[t], "Settle", n)
    BY <1>2, <1>4 DEF JobsOK, AllKept
  <2>2. CASE t = s
    <3>1. job.again /\ m = n
      BY <1>a, <2>1, <2>2 DEF StillOwed
    <3> QED
      BY <1>5, <1>7, <1>a, <2>2, <3>1 DEF Ends, StillOwed
  <2>3. CASE t # s
    BY <1>7, <1>9, <2>1, <2>3 DEF StillOwed
  <2> QED
    BY <2>2, <2>3
<1>15. AllRest(f.jobs, resting')
  <2> SUFFICES ASSUME NEW n \in Messages, resting'[n] # 0
               PROVE  \E t \in Slots : Resting(f.jobs[t], n, resting'[n])
    BY DEF AllRest
  <2>1. CASE n = m
    <3>1. resting'[n] = rest /\ rest # 0 /\ rest \in Nat
      BY <1>3, <1>4, <1>6, <2>1, QueueConstants
    <3>2. e.state = "Waiting" /\ e.msg = m /\ e.delay = rest
      BY <1>5, <1>a, <3>1 DEF Ends
    <3>3. Resting(f.jobs[s], n, resting'[n])
      BY <1>7, <2>1, <3>1, <3>2 DEF Resting
    <3> QED
      BY <1>3, <3>3
  <2>2. CASE n # m
    <3>1. resting'[n] = resting[n]
      BY <1>4, <1>6, <2>2
    <3>2. PICK t \in Slots : Resting(q.jobs[t], n, resting[n])
      BY <1>4, <3>1 DEF JobsOK, AllRest
    <3>3. t # s
      BY <1>a, <3>2 DEF Resting
    <3> QED
      BY <1>7, <3>1, <3>2, <3>3
  <2> QED
    BY <2>1, <2>2
<1>16. JobsOK(f.jobs, task', owed, resting')
  BY <1>11, <1>12, <1>13, <1>14, <1>15 DEF JobsOK
<1>17. QueueOK(q') /\ SameJobs(f, q')
  BY <1>2, <1>7, RetryKeeps DEF PlacesGiven, Grown
<1>18. JobsOK(q'.jobs, task', owed, resting')
  BY <1>16, <1>17, JobsStayOK
<1>19. resting' \in [Messages -> 0..MaxDelay]
  BY <1>4, <1>6
<1> QED
  BY <1>2, <1>8, <1>17, <1>18, <1>19 DEF QueueInv

LEMMA QueueStep == QueueInv /\ [QueueNext]_queueVars => QueueInv'
<1> SUFFICES ASSUME QueueInv, [QueueNext]_queueVars PROVE QueueInv'
  OBVIOUS
<1>1. CASE \E r \in Requests : Enqueue(r)
  BY <1>1, EnqueueKeepsQueue
<1>2. CASE Passes
  BY <1>2, PassKeepsQueue
<1>3. CASE Dequeue
  BY <1>3, DequeueKeepsQueue
<1>4. CASE Builds
  BY <1>4, BuildKeepsQueue
<1>5. CASE Settles
  BY <1>5, SettleKeepsQueue
<1>6. CASE Connection
  BY <1>6 DEF Connection, QueueInv
<1>7. CASE UNCHANGED queueVars
  BY <1>7 DEF queueVars, QueueInv
<1> QED
  BY <1>1, <1>2, <1>3, <1>4, <1>5, <1>6, <1>7 DEF QueueNext

LEMMA QueueInvariance == QueueSpec => []QueueInv
<1>1. QueueSpec => QueueInit /\ [][QueueNext]_queueVars
  BY DEF QueueSpec
<1> QED
  BY <1>1, QueueInvInit, QueueStep, PTL

(* The slots and the rings keep their types, and no ring is over full      *)
(* (pushQueueNoLock_).                                                     *)
THEOREM QueueTypeCorrect == QueueSpec => []QueueTypeOK
<1>1. QueueInv => QueueTypeOK
  BY DEF QueueInv, QueueOK, QueueShape, TaskShape, QueueTypeOK
<1> QED
  BY <1>1, QueueInvariance, PTL

LEMMA ReferencesHold == QueueInv => References
<1> SUFFICES ASSUME QueueInv PROVE References
  OBVIOUS
<1>1. QueueOK(q) /\ RingsOf(q)
  BY RingsAre DEF QueueInv, QueueOK
<1>2. ASSUME NEW p \in Prios, NEW i \in DOMAIN q.rings[p]
      PROVE  /\ i \in 1..Len(q.rings[p]) /\ q.rings[p][i].slot \in Slots
             /\ Valid(q, p, i) <=> ~q.rings[p][i].old
  <2>1. i \in 1..Len(q.rings[p]) /\ q.rings[p][i].slot \in Slots
    BY <1>1 DEF RingsOf
  <2> QED
    BY <1>1, <2>1 DEF QueueOK, LiveIsQueued, Valid
<1>3. ASSUME NEW s \in Slots, q.jobs[s].state = "Queued"
      PROVE  LET p == q.jobs[s].queuedPrio
             IN  \E i \in DOMAIN q.rings[p] :
                    /\ Valid(q, p, i) /\ q.rings[p][i].slot = s
                    /\ \A j \in DOMAIN q.rings[p] :
                          Valid(q, p, j) /\ q.rings[p][j].slot = s => i = j
  <2> DEFINE p == q.jobs[s].queuedPrio
  <2>1. q.jobs[s] \in Job
    BY <1>1 DEF RingsOf
  <2>2. p \in Prios
    BY <2>1 DEF Job
  <2>3. PICK i \in 1..Len(q.rings[p]) : q.rings[p][i].slot = s /\ ~q.rings[p][i].old
    BY <1>1, <1>3 DEF QueueOK, QueuedIsLive
  <2>4. i \in DOMAIN q.rings[p] /\ Valid(q, p, i)
    BY <1>1, <1>2, <2>2, <2>3 DEF RingsOf
  <2>5. ASSUME NEW j \in DOMAIN q.rings[p], Valid(q, p, j), q.rings[p][j].slot = s
        PROVE  i = j
    BY <1>1, <1>2, <2>2, <2>3, <2>5 DEF QueueOK, OneLive
  <2> QED
    BY <2>3, <2>4, <2>5
<1> QED
  BY <1>2, <1>3 DEF References

(* A message that was accepted has one job, a queued job one live          *)
(* reference, and what was asked for after a build began will be built     *)
(* again: through coalescing, promotion, full rings, failures and the      *)
(* reuse of slots (enqueue, retryPendingJobsNoLock_, dequeueNextJob_).     *)
THEOREM JobsCorrect == QueueSpec => []JobsSound
<1>1. QueueInv => OneJob
  BY DEF QueueInv, JobsOK, OneEach, OneAtWork, Working, OneJob
<1>2. QueueInv => NothingLost
  BY DEF QueueInv, JobsOK, AllKept, StillOwed, NothingLost
<1>3. QueueInv => JobsSound
  BY <1>1, <1>2, ReferencesHold DEF JobsSound
<1> QED
  BY <1>3, QueueInvariance, PTL

LEMMA RestedWhenBuilt ==
    ASSUME QueueInv, task.at = "Build" PROVE resting[q.jobs[task.slot].msg] = 0
BY AtWork DEF Working

(* A job that is due and urgent has a place in the ring of high priority   *)
(* when the next one is taken, or finds one before.                        *)
LEMMA UrgentInRing ==
    ASSUME NEW k, QueueOK(k), NEW t \in Slots,
           k.jobs[t].state \in {"Queued", "Waiting"}, k.jobs[t].delay = 0,
           ~(k.jobs[t].priority < High)
    PROVE  \E i \in 1..Len(retryPending(k).rings[High]) : i \in Takable(retryPending(k), High)
<1> DEFINE l == retryPending(k)
<1>1. PlacesGiven(k, l, High) /\ RingsOf(k) /\ High \in Prios
  BY RetryKeeps, RingsAre DEF QueueOK, High, Prios
<1> HIDE DEF l
<1>2. RingsOf(l) /\ QueueOK(l)
  BY <1>1, RingsAre DEF PlacesGiven, QueueOK
<1>3. Len(l.rings[High]) > 0
  <2>1. k.jobs[t] \in Job
    BY <1>1 DEF RingsOf
  <2> DEFINE job == k.jobs[t]
  <2>2. job.priority \in Prios /\ job.queuedPrio \in Prios
    BY <2>1 DEF Job
  <2>3. job.priority = High
    BY <2>2 DEF Prios, High
  <2>4. CASE Retriable(job, High)
    BY <1>1, <2>4 DEF PlacesGiven
  <2>5. CASE ~Retriable(job, High)
    <3>1. job.state = "Queued" /\ ~(High > job.queuedPrio)
      BY <2>3, <2>5 DEF Retriable, Promotable
    <3>2. job.queuedPrio = High
      BY <2>2, <3>1 DEF Prios, High
    <3>3. PICK i \in 1..Len(k.rings[High]) : k.rings[High][i].slot = t
      BY <3>1, <3>2 DEF QueueOK, QueuedIsLive
    <3>4. Len(k.rings[High]) \in Nat /\ Len(l.rings[High]) \in Nat
          /\ Len(l.rings[High]) >= Len(k.rings[High])
      BY <1>1, <1>2 DEF RingsOf, PlacesGiven, Grown
    <3> QED
      BY <3>3, <3>4
  <2> QED
    BY <2>4, <2>5
<1>4. 1 \in 1..Len(l.rings[High]) /\ 1 \in DOMAIN l.rings[High]
  BY <1>1, <1>2, <1>3 DEF RingsOf
<1> DEFINE s == l.rings[High][1].slot
<1>5. /\ ~l.rings[High][1].old /\ s \in Slots
      /\ l.jobs[s].state = "Queued" /\ l.jobs[s].queuedPrio = High
  BY <1>1, <1>2, <1>4 DEF QueueOK, UrgentIsLive, LiveIsQueued, RingsOf
<1>6. l.jobs[s].delay = 0
  BY <1>2, <1>5 DEF QueueOK, QueuedIsDue
<1>7. 1 \in Takable(l, High)
  BY <1>4, <1>5, <1>6 DEF Takable, Valid
<1> QED
  BY <1>4, <1>7 DEF l

LEMMA UrgentTaken ==
    ASSUME QueueInv, Dequeue, task'.at = "Build"
    PROVE  \/ q.jobs[task'.slot].priority = High
           \/ \A t \in Slots : Due(t) => q.jobs[t].priority < High
<1> DEFINE k == retryPending(q)
<1>1. QueueOK(q) /\ QueueOK(k) /\ SameJobs(q, k)
  BY RetryKeeps DEF QueueInv, PlacesGiven, Grown
<1>a. \/ task' = TaskIdle
      \/ \E p \in Prios : \E i \in Takable(k, p) :
            /\ Found(k, p, i)
            /\ task' = [TaskIdle EXCEPT !.at = "Build", !.slot = k.rings[p][i].slot]
  BY DEF Dequeue
<1> HIDE DEF k
<1>2. PICK p \in Prios : \E i \in Takable(k, p) :
         /\ Found(k, p, i)
         /\ task' = [TaskIdle EXCEPT !.at = "Build", !.slot = k.rings[p][i].slot]
  <2>1. task' # TaskIdle
    BY DEF TaskIdle
  <2> QED
    BY <1>a, <2>1
<1>3. PICK i \in Takable(k, p) :
         /\ Found(k, p, i)
         /\ task' = [TaskIdle EXCEPT !.at = "Build", !.slot = k.rings[p][i].slot]
  BY <1>2
<1> DEFINE s == k.rings[p][i].slot
<1>4. task'.slot = s
  BY <1>3 DEF TaskIdle
<1>5. s \in Slots /\ k.jobs[s].state = "Queued" /\ k.jobs[s].queuedPrio = p
  <2>1. QueueOK(k) /\ p \in Prios /\ i \in Takable(k, p)
    BY <1>1
  <2> QED
    BY <2>1, TakableIs
<1>6. k.jobs[s].queuedPrio <= k.jobs[s].priority /\ k.jobs[s].priority = q.jobs[s].priority
  BY <1>1, <1>5 DEF QueueOK, QueuedIsDue, SameJobs, SameJob
<1>7. k.jobs[s].priority \in Prios
  <2>1. k.jobs[s] \in Job
    BY <1>1, <1>5, RingsAre DEF QueueOK, RingsOf
  <2> QED
    BY <2>1 DEF Job
<1>8. CASE p = High
  BY <1>4, <1>5, <1>6, <1>7, <1>8 DEF Prios, High
<1>9. CASE p # High
  <2>1. High \in Prios /\ High > p
    BY <1>9 DEF Prios, High
  <2>2. Takable(k, High) = {}
    BY <1>3, <2>1 DEF Found
  <2>3. ASSUME NEW t \in Slots, Due(t), ~(q.jobs[t].priority < High) PROVE FALSE
    BY <1>1, <2>2, <2>3, UrgentInRing DEF Due, k
  <2> QED
    BY <2>3
<1> QED
  BY <1>8, <1>9

LEMMA TakesDequeue == QueueNext /\ Takes => Dequeue
BY DEF QueueNext, Takes, Enqueue, Passes, Pass, Builds, BuildJob, Settles, Settle, Connection,
       TaskIdle

(* A message that failed rests as long as it was told to, and nothing of   *)
(* lower priority is taken while something urgent is due, whichever ring   *)
(* that one has its place in (dequeueNextJob_ and completeJobNoLock_).     *)
THEOREM TakenInTurnCorrect == QueueSpec => TakenInTurn
<1>1. QueueInv /\ [QueueNext]_queueVars =>
        [task.at = "Build" /\ task'.at = "Settle" => resting[q.jobs[task.slot].msg] = 0]_queueVars
  BY RestedWhenBuilt
<1>2. QueueInv /\ [QueueNext]_queueVars =>
        [Takes => LET s == task'.slot
                  IN  q.jobs[s].priority = High
                      \/ \A t \in Slots : Due(t) => q.jobs[t].priority < High]_queueVars
  BY UrgentTaken, TakesDequeue DEF Takes
<1>3. QueueSpec => [][QueueNext]_queueVars
  BY DEF QueueSpec
<1>4. QueueSpec => BackoffRespected
  BY <1>1, <1>3, QueueInvariance, PTL DEF BackoffRespected
<1>5. QueueSpec => UrgentFirst
  BY <1>2, <1>3, QueueInvariance, PTL DEF UrgentFirst
<1> QED
  BY <1>4, <1>5 DEF TakenInTurn
-----------------------------------------------------------------------------
(* The routes of the configuration (ConfigRoutes) *)

(* A number below the modulus is its own remainder, also a turn later.     *)
LEMMA RestIs ==
    ASSUME NEW n \in Nat \ {0}, NEW r \in 0..(n - 1)
    PROVE  r % n = r /\ (r + n) % n = r
<1>1. ASSUME NEW k \in 0..1
      PROVE  (r + n * k) % n = r
  <2> DEFINE a == r + n * k
  <2>1. a \in Int
    OBVIOUS
  <2>2. a \div n \in Int /\ a % n \in 0..(n - 1) /\ a = n * (a \div n) + (a % n)
    BY <2>1, TurnIs
  <2> DEFINE x == a \div n
             m == a % n
  <2>3. x \in Int /\ m \in 0..(n - 1) /\ r + n * k = n * x + m
    BY <2>2
  <2> HIDE DEF x, m
  <2>4. n * x \in Int /\ n * k \in Int /\ n * (x - k) = n * x - n * k
    BY <2>3
  <2>5. x - k = 0
    <3>1. r - m = n * (x - k) /\ x - k \in Int
      BY <2>3, <2>4
    <3> QED
      BY <2>3, <3>1, NoWholeTurn
  <2>6. m = r
    BY <2>3, <2>4, <2>5
  <2> QED
    BY <2>6 DEF m
<1>2. r + n * 0 = r /\ r + n * 1 = r + n
  OBVIOUS
<1> QED
  BY <1>1, <1>2

(* Induction along an interval.                                            *)
LEMMA UpTo ==
    ASSUME NEW top \in Nat, NEW P, 0 \in P, \A n \in 1..top : n - 1 \in P => n \in P
    PROVE  0..top \subseteq P
<1> DEFINE T == {n \in 0..top : n \notin P}
<1> DEFINE R == OpToRel(<, Nat)
<1>1. SUFFICES ASSUME T # {} PROVE FALSE
  OBVIOUS
<1>2. T \subseteq Nat
  OBVIOUS
<1>3. IsWellFoundedOn(R, Nat)
  BY NatLessThanWellFounded
<1>4. PICK n \in T : \A k \in T : <<k, n>> \notin R
  <2> HIDE DEF T, R
  <2> QED BY <1>1, <1>2, <1>3, WFMin
<1>5. n # 0
  OBVIOUS
<1>6. n - 1 \in Nat /\ n \in 1..top
  BY <1>5
<1>7. <<n - 1, n>> \in R
  BY <1>6 DEF OpToRel
<1>8. n - 1 \notin T
  BY <1>4, <1>7
<1> QED
  BY <1>6, <1>8

(* A function defined by what it is at zero and by each step exists.       *)
Follows(g, k, base, step) ==
    g = [n \in 0..k |-> IF n = 0 THEN base ELSE step[n][g[n - 1]]]

LEMMA Stepwise ==
    ASSUME NEW S, NEW base \in S, NEW top \in Nat, NEW step \in [1..top -> [S -> S]]
    PROVE  \E g \in [0..top -> S] : Follows(g, top, base, step)
<1> DEFINE P == {k \in 0..top : \E g \in [0..k -> S] : Follows(g, k, base, step)}
<1>1. 0 \in P
  <2>1. [n \in 0..0 |-> base] \in [0..0 -> S]
    OBVIOUS
  <2>2. Follows([n \in 0..0 |-> base], 0, base, step)
    BY DEF Follows
  <2> QED
    BY <2>1, <2>2
<1>2. ASSUME NEW k \in 1..top, k - 1 \in P
      PROVE  k \in P
  <2>1. PICK g \in [0..(k - 1) -> S] : Follows(g, k - 1, base, step)
    BY <1>2
  <2> DEFINE h == [n \in 0..k |-> IF n = k THEN step[k][g[k - 1]] ELSE g[n]]
  <2>2. h \in [0..k -> S]
    OBVIOUS
  <2>3. \A n \in 0..k : h[n] = IF n = 0 THEN base ELSE step[n][h[n - 1]]
    <3> SUFFICES ASSUME NEW n \in 0..k
                 PROVE h[n] = IF n = 0 THEN base ELSE step[n][h[n - 1]]
      OBVIOUS
    <3>1. CASE n = k
      BY <3>1
    <3>2. CASE n # k
      <4>1. n \in 0..(k - 1) /\ h[n] = g[n]
        BY <3>2
      <4>2. g[n] = IF n = 0 THEN base ELSE step[n][g[n - 1]]
        BY <2>1, <4>1 DEF Follows
      <4>3. n # 0 => h[n - 1] = g[n - 1]
        BY <3>2
      <4> QED
        BY <4>1, <4>2, <4>3
    <3> QED
      BY <3>1, <3>2
  <2>4. Follows(h, k, base, step)
    <3> HIDE DEF h
    <3> QED BY <2>2, <2>3 DEF Follows
  <2> HIDE DEF h
  <2> QED
    BY <2>2, <2>4
<1>3. 0..top \subseteq P
  <2> HIDE DEF P
  <2>1. \A k \in 1..top : k - 1 \in P => k \in P
    BY <1>2
  <2> QED
    BY <1>1, <2>1, UpTo
<1> QED
  BY <1>3

(* A set of natural numbers that has a member has a least one.             *)
LEMMA LeastOf ==
    ASSUME NEW T \in SUBSET Nat, T # {}
    PROVE  \E n \in T : \A k \in T : n <= k
<1> DEFINE R == OpToRel(<, Nat)
<1>1. IsWellFoundedOn(R, Nat)
  BY NatLessThanWellFounded
<1>2. PICK n \in T : \A k \in T : <<k, n>> \notin R
  <2> HIDE DEF R
  <2> QED BY <1>1, WFMin
<1>3. \A k \in T : k < n => <<k, n>> \in R
  BY DEF OpToRel
<1> HIDE DEF R
<1>4. ASSUME NEW k \in T PROVE n <= k
  <2>1. n \in Nat /\ k \in Nat /\ ~(k < n)
    BY <1>2, <1>3
  <2> QED
    BY <2>1
<1> QED
  BY <1>4

(* What the constants are.                                                 *)
LEMMA RouteConstants ==
    /\ RouteCount \in Nat \ {0} /\ DrainBudget \in Nat \ {0}
    /\ RetryMin \in Nat \ {0} /\ RetryMax \in Nat /\ GiveUp \in Nat
    /\ RetryMin <= RetryMax /\ RetryMax <= GiveUp
    /\ MaxRefusals \in Nat /\ Routes = 0..(RouteCount - 1) /\ NotRefused = -1
  BY RouteAssumption, RetryAssumption, RefusalAssumption DEF Routes, NotRefused

Backoffs == [left : 0..RetryMax, step : 0..RetryMax]
Producers == [routes : [Routes -> RouteState], backoff : Backoffs]

(* Every position of a scan is a route.                                    *)
LEMMA TurnIsRoute == ASSUME NEW a \in Int PROVE a % RouteCount \in Routes
  BY RouteConstants, TurnIs

(* The scan of the mailbox goes by every route.                            *)
LEMMA AllScanned ==
    ASSUME cursor.mail \in Routes, NEW r \in Routes
    PROVE  \E t \in 1..RouteCount : Scanned(t - 1) = r
<1>1. CASE cursor.mail <= r
  <2> DEFINE t == r - cursor.mail + 1
  <2>1. t \in 1..RouteCount /\ cursor.mail + (t - 1) = r
    BY <1>1, RouteConstants
  <2>2. r % RouteCount = r
    BY RouteConstants, RestIs
  <2> QED
    BY <2>1, <2>2 DEF Scanned
<1>2. CASE r < cursor.mail
  <2> DEFINE t == r - cursor.mail + 1 + RouteCount
  <2>1. t \in 1..RouteCount /\ cursor.mail + (t - 1) = r + RouteCount
    BY <1>2, RouteConstants
  <2>2. (r + RouteCount) % RouteCount = r
    BY RouteConstants, RestIs
  <2> QED
    BY <2>1, <2>2 DEF Scanned
<1> QED
  BY <1>1, <1>2, RouteConstants

(* What becomes of a route that is asked for: a job that will build it, or *)
(* a retry.                                                                *)
Enqueued(old, new, accepted) ==
    /\ new.pending
    /\ accepted => new.job = "Waiting" /\ ~new.needs
    /\ ~accepted => new.job = old.job /\ new.needs

(* Arming the retry keeps the delays within their range.                   *)
LEMMA ArmedIs ==
    ASSUME NEW p \in Producers
    PROVE  armRetry(p) \in Producers /\ armRetry(p).routes = p.routes
<1> DEFINE step == IF p.backoff.step < RetryMin THEN RetryMin ELSE p.backoff.step
<1>1. step \in 0..RetryMax /\ NextStep(step) \in 0..RetryMax
  BY RouteConstants DEF Producers, Backoffs, NextStep, Smaller
<1>2. armRetry(p) = [p EXCEPT !.backoff = [left |-> step, step |-> NextStep(step)]]
  BY DEF armRetry
<1> HIDE DEF step
<1> QED
  BY <1>1, <1>2 DEF Producers, Backoffs

(* A route asked for is pending and to be enqueued, its job as it was.     *)
LEMMA RequestedIs ==
    ASSUME NEW route \in RouteState
    PROVE  LET new == Requested(route)
           IN  new \in RouteState /\ new.pending /\ new.needs /\ new.job = route.job
<1>1. Republished(route) \in BOOLEAN
  BY DEF RouteState, Republished
<1> QED
  BY <1>1 DEF RouteState, Requested

(* A route the queue accepts has its job and nothing left to retry.        *)
LEMMA GrantedIs ==
    ASSUME NEW route \in RouteState
    PROVE  /\ Granted(route) \in RouteState /\ Granted(route).pending
           /\ Granted(route).job = "Waiting" /\ ~Granted(route).needs
<1> DEFINE u == Requested(route)
<1>1. u \in RouteState /\ u.pending
  BY RequestedIs
<1>2. -1 \in NotRefused..GiveUp
  BY RouteConstants
<1>3. Granted(route) = [u EXCEPT !.needs = FALSE, !.refused = NotRefused, !.job = "Waiting"]
  BY DEF Granted
<1> HIDE DEF u
<1> QED
  BY <1>1, <1>2, <1>3, RouteConstants DEF RouteState

(* A route the queue refuses keeps its job and is to be retried.           *)
LEMMA DeniedIs ==
    ASSUME NEW route \in RouteState
    PROVE  /\ Denied(route) \in RouteState /\ Denied(route).pending
           /\ Denied(route).job = route.job /\ Denied(route).needs
<1> DEFINE u == Requested(route)
<1>1. u \in RouteState /\ u.pending /\ u.needs /\ u.job = route.job
  BY RequestedIs
<1>2. 0 \in NotRefused..GiveUp
  BY RouteConstants
<1>3. Denied(route) = [u EXCEPT !.republish = u.republish \/ route.pending,
                                !.refused = IF u.refused = NotRefused THEN 0 ELSE u.refused]
  BY DEF Denied
<1> HIDE DEF u
<1>4. (u.republish \/ route.pending) \in BOOLEAN
  BY <1>1 DEF RouteState
<1> QED
  BY <1>1, <1>2, <1>3, <1>4, RouteConstants DEF RouteState

(* Asking for one route leaves the others alone.                           *)
LEMMA EnqueueIs ==
    ASSUME NEW p \in Producers, NEW r \in Routes, NEW ok \in Answers
    PROVE  LET d == enqueueByRoute(p, r, ok)
           IN  /\ d \in Producers
               /\ \A s \in Routes \ {r} : d.routes[s] = p.routes[s]
               /\ Enqueued(p.routes[r], d.routes[r], ok[r])
<1> DEFINE d == enqueueByRoute(p, r, ok)
<1>1. p.routes[r] \in RouteState /\ p.routes \in [Routes -> RouteState] /\ ok[r] \in BOOLEAN
  BY DEF Producers, Answers
<1>2. p.routes[r].job \in {"None", "Waiting", "Built"}
  BY <1>1 DEF RouteState
<1>3. CASE ok[r]
  <2> DEFINE new == Granted(p.routes[r])
             x == [p EXCEPT !.routes[r] = new]
  <2>1. d = IF hasNeedsEnqueue(x)
            THEN [x EXCEPT !.backoff.left = IF @ = 0 THEN RetryMin ELSE @]
            ELSE [x EXCEPT !.backoff = Rested]
    BY <1>3 DEF enqueueByRoute, Accepted
  <2>2. new \in RouteState /\ new.pending /\ new.job = "Waiting" /\ ~new.needs
    BY <1>1, GrantedIs
  <2> HIDE DEF new
  <2>3. x \in Producers /\ x.routes = [p.routes EXCEPT ![r] = new]
    BY <1>1, <2>2 DEF Producers
  <2> HIDE DEF x
  <2>4. d \in Producers /\ d.routes = x.routes
    <3>1. CASE hasNeedsEnqueue(x)
      <4>1. x.backoff \in Backoffs
        BY <2>3 DEF Producers
      <4> DEFINE b == [x.backoff EXCEPT !.left = IF @ = 0 THEN RetryMin ELSE @]
      <4>2. b \in Backoffs
        BY <4>1, RouteConstants DEF Backoffs
      <4>3. d = [x EXCEPT !.backoff = b]
        BY <2>1, <2>3, <3>1, <4>1 DEF Producers, Backoffs
      <4> HIDE DEF b
      <4> QED
        BY <2>3, <4>2, <4>3 DEF Producers
    <3>2. CASE ~hasNeedsEnqueue(x)
      <4>1. d = [x EXCEPT !.backoff = Rested] /\ Rested \in Backoffs
        BY <2>1, <3>2, RouteConstants DEF Rested, Backoffs
      <4> QED
        BY <2>3, <4>1 DEF Producers
    <3> QED
      BY <3>1, <3>2
  <2> QED
    BY <1>1, <1>2, <1>3, <2>2, <2>3, <2>4 DEF Enqueued
<1>4. CASE ~ok[r]
  <2> DEFINE new == Denied(p.routes[r])
             x == [p EXCEPT !.routes[r] = new]
  <2>1. d = armRetry(x)
    BY <1>4 DEF enqueueByRoute, Refused
  <2>2. new \in RouteState /\ new.pending /\ new.job = p.routes[r].job /\ new.needs
    BY <1>1, DeniedIs
  <2> HIDE DEF new
  <2>3. x \in Producers /\ x.routes = [p.routes EXCEPT ![r] = new]
    BY <1>1, <2>2 DEF Producers
  <2> HIDE DEF x
  <2>4. d \in Producers /\ d.routes = x.routes
    BY <2>1, <2>3, ArmedIs
  <2> QED
    BY <1>1, <1>2, <1>4, <2>2, <2>3, <2>4 DEF Enqueued
<1> QED
  BY <1>1, <1>3, <1>4

(* Asking again has the same outcomes.                                     *)
LEMMA EnqueuedTwice ==
    ASSUME NEW a, NEW b, NEW c, NEW yes, Enqueued(a, b, yes), Enqueued(b, c, yes)
    PROVE  Enqueued(a, c, yes)
  BY DEF Enqueued

(* What the mailbox hands out is asked for, and nothing else.              *)
LEMMA DrainIs ==
    ASSUME NEW p \in Producers, NEW M \in SUBSET Routes, NEW ok \in Answers,
           cursor.mail \in Routes
    PROVE  LET d == drain(p, M, ok)
           IN  /\ d \in Producers
               /\ \A r \in Drained(M) : Enqueued(p.routes[r], d.routes[r], ok[r])
               /\ \A r \in Routes \ Drained(M) : d.routes[r] = p.routes[r]
<1> DEFINE Next1(x, t) ==
       IF Scanned(t - 1) \in Drained(M) THEN enqueueByRoute(x, Scanned(t - 1), ok) ELSE x
<1> DEFINE Rec(g) == [t \in 0..RouteCount |->
                       IF t = 0 THEN p
                       ELSE IF Scanned(t - 1) \in Drained(M)
                            THEN enqueueByRoute(g[t - 1], Scanned(t - 1), ok)
                            ELSE g[t - 1]]
<1> DEFINE step == [t \in 1..RouteCount |-> [x \in Producers |-> Next1(x, t)]]
<1> DEFINE upTo == CHOOSE g : g = Rec(g)
<1>0. RouteCount \in Nat /\ Drained(M) \subseteq Routes
  BY RouteConstants DEF Drained
<1>1. drain(p, M, ok) = upTo[RouteCount]
  BY DEF drain
<1>2. upTo = Rec(upTo)
  <2>1. step \in [1..RouteCount -> [Producers -> Producers]]
    BY <1>0, EnqueueIs
  <2>2. PICK g \in [0..RouteCount -> Producers] : Follows(g, RouteCount, p, step)
    <3> HIDE DEF step
    <3> QED BY <1>0, <2>1, Stepwise
  <2>3. g = Rec(g)
    <3>1. \A t \in 0..RouteCount : t # 0 => step[t][g[t - 1]] = Next1(g[t - 1], t)
      BY <1>0
    <3> HIDE DEF step
    <3> QED BY <2>2, <3>1 DEF Follows
  <2> HIDE DEF Rec
  <2> QED
    BY <2>3
<1>3. upTo[0] = p /\ \A t \in 1..RouteCount : upTo[t] = Next1(upTo[t - 1], t)
  <2> HIDE DEF upTo
  <2> QED BY <1>0, <1>2
<1> HIDE DEF upTo, step, Rec, Next1
<1> DEFINE Kept(t) ==
       /\ upTo[t] \in Producers
       /\ \A r \in Routes :
             \/ /\ r \in Drained(M)
                /\ Enqueued(p.routes[r], upTo[t].routes[r], ok[r])
             \/ /\ upTo[t].routes[r] = p.routes[r]
                /\ r \in Drained(M) => \A k \in 1..t : Scanned(k - 1) # r
<1> DEFINE P == {t \in 0..RouteCount : Kept(t)}
<1>4. 0 \in P
  BY <1>0, <1>3
<1>5. ASSUME NEW t \in 1..RouteCount, t - 1 \in P
      PROVE  t \in P
  <2> DEFINE old == upTo[t - 1]
             new == upTo[t]
             at == Scanned(t - 1)
  <2>1. Kept(t - 1) /\ new = Next1(old, t)
    BY <1>3, <1>5
  <2>2. CASE at \in Drained(M)
    <3>1. new = enqueueByRoute(old, at, ok) /\ old \in Producers /\ at \in Routes
      BY <1>0, <2>1, <2>2 DEF Next1
    <3>2. /\ new \in Producers
          /\ \A s \in Routes \ {at} : new.routes[s] = old.routes[s]
          /\ Enqueued(old.routes[at], new.routes[at], ok[at])
      <4> HIDE DEF old, new, at
      <4> QED BY <3>1, EnqueueIs
    <3>3. Enqueued(p.routes[at], new.routes[at], ok[at])
      BY <2>1, <3>1, <3>2, EnqueuedTwice
    <3>4. \A k \in 1..t : k \in 1..(t - 1) \/ Scanned(k - 1) = at
      OBVIOUS
    <3> HIDE DEF new, at
    <3> QED
      BY <2>1, <2>2, <3>1, <3>2, <3>3, <3>4 DEF new
  <2>3. CASE at \notin Drained(M)
    <3>1. new = old
      BY <2>1, <2>3 DEF Next1
    <3>2. \A k \in 1..t : k \in 1..(t - 1) \/ Scanned(k - 1) = at
      OBVIOUS
    <3> HIDE DEF new, at
    <3> QED
      BY <2>1, <2>3, <3>1, <3>2 DEF new
  <2> QED
    BY <2>2, <2>3
<1>6. Kept(RouteCount)
  <2>1. 0..RouteCount \subseteq P
    <3> HIDE DEF P
    <3>1. \A t \in 1..RouteCount : t - 1 \in P => t \in P
      BY <1>5
    <3> QED
      BY <1>0, <1>4, <3>1, UpTo
  <2> QED
    BY <1>0, <2>1
<1>7. \A r \in Drained(M) : \E t \in 1..RouteCount : Scanned(t - 1) = r
  BY <1>0, AllScanned
<1> QED
  BY <1>0, <1>1, <1>6, <1>7

(* A message being built is wanted, and what changed since is marked.      *)
BuiltIsWanted ==
    \A r \in Routes :
        /\ cfg[r].job = "Built" => cfg[r].pending /\ (r \in built \/ r \in marked)
        /\ r \in built => cfg[r].job = "Built"

(* While the connection holds, a route that has a job is not refused.      *)
JoinedAgain ==
    link.connected => \A r \in Routes : cfg[r].job # "None" /\ cfg[r].needs => r \in marked

RoutesInv ==
    CfgTypeOK /\ NothingForgotten /\ PendingIsBacked /\ BuiltIsWanted /\ JoinedAgain

LEMMA RoutesInvInit == CfgInit => RoutesInv
<1> SUFFICES ASSUME CfgInit PROVE RoutesInv
  OBVIOUS
<1>1. IdleRoute \in RouteState /\ Rested \in Backoffs /\ 0 \in Routes
  BY RouteConstants DEF IdleRoute, RouteState, Rested, Backoffs
<1>2. CfgTypeOK
  BY <1>1, RouteConstants DEF CfgInit, CfgTypeOK, Backoffs
<1>3. NothingForgotten /\ PendingIsBacked /\ BuiltIsWanted /\ JoinedAgain
  BY <1>1 DEF CfgInit, NothingForgotten, PendingIsBacked, BuiltIsWanted, JoinedAgain, IdleRoute
<1> QED
  BY <1>2, <1>3 DEF RoutesInv

(* Every route has its flags.                                              *)
LEMMA RouteIs ==
    ASSUME CfgTypeOK, NEW r \in Routes
    PROVE  cfg[r] \in RouteState
  BY DEF CfgTypeOK

(* The event task and the client.                                          *)
LEMMA EventsKeepRoutes ==
    ASSUME RoutesInv,
           \/ \E r \in Routes, whole \in BOOLEAN : onEvent(r, whole)
           \/ Connect \/ Disconnect \/ UNCHANGED cfgVars
    PROVE  RoutesInv'
<1>1. CASE \E r \in Routes, whole \in BOOLEAN : onEvent(r, whole)
  <2>1. PICK r \in Routes, whole \in BOOLEAN : onEvent(r, whole)
    BY <1>1
  <2>2. CfgTypeOK' /\ marked \cup {r} \subseteq marked'
    BY <2>1 DEF RoutesInv, CfgTypeOK, onEvent
  <2>3. NothingForgotten' /\ PendingIsBacked' /\ BuiltIsWanted' /\ JoinedAgain'
    BY <2>1, <2>2
    DEF RoutesInv, onEvent, NothingForgotten, PendingIsBacked, BuiltIsWanted, JoinedAgain
  <2> QED
    BY <2>2, <2>3 DEF RoutesInv
<1>2. CASE Connect
  <2>1. CfgTypeOK' /\ marked' = Routes
    BY <1>2 DEF RoutesInv, CfgTypeOK, Connect
  <2>2. NothingForgotten' /\ PendingIsBacked' /\ BuiltIsWanted' /\ JoinedAgain'
    BY <1>2, <2>1
    DEF RoutesInv, CfgTypeOK, Connect, NothingForgotten, PendingIsBacked, BuiltIsWanted, JoinedAgain
  <2> QED
    BY <2>1, <2>2 DEF RoutesInv
<1>3. CASE Disconnect
  <2>1. CfgTypeOK' /\ link'.connected = FALSE
    BY <1>3 DEF RoutesInv, CfgTypeOK, Disconnect
  <2>2. NothingForgotten' /\ PendingIsBacked' /\ BuiltIsWanted' /\ JoinedAgain'
    BY <1>3, <2>1
    DEF RoutesInv, CfgTypeOK, Disconnect, NothingForgotten, PendingIsBacked, BuiltIsWanted,
        JoinedAgain
  <2> QED
    BY <2>1, <2>2 DEF RoutesInv
<1>4. CASE UNCHANGED cfgVars
  BY <1>4 DEF cfgVars, RoutesInv, CfgTypeOK, NothingForgotten, PendingIsBacked, BuiltIsWanted,
                  JoinedAgain
<1> QED
  BY <1>1, <1>2, <1>3, <1>4

(* Time passing changes only how long a route has been refused.            *)
LEMMA AgedIs ==
    ASSUME CfgTypeOK, NEW e \in {1, GiveUp}
    PROVE  /\ Aged(e) \in Producers
           /\ \A r \in Routes : LET new == Aged(e).routes[r]
                                IN  /\ new.pending = cfg[r].pending /\ new.needs = cfg[r].needs
                                    /\ new.job = cfg[r].job
<1>1. e \in Nat
  BY RouteConstants
<1>2. \A r \in Routes :
         LET new == [cfg[r] EXCEPT !.refused = IF @ = NotRefused THEN @ ELSE Smaller(@ + e, GiveUp)]
         IN  /\ new \in RouteState
             /\ new.pending = cfg[r].pending /\ new.needs = cfg[r].needs /\ new.job = cfg[r].job
  <2> SUFFICES ASSUME NEW r \in Routes
      PROVE  LET new == [cfg[r] EXCEPT !.refused = IF @ = NotRefused THEN @
                                                   ELSE Smaller(@ + e, GiveUp)]
             IN  /\ new \in RouteState /\ new.pending = cfg[r].pending
                 /\ new.needs = cfg[r].needs /\ new.job = cfg[r].job
    OBVIOUS
  <2>1. cfg[r] \in RouteState
    BY RouteIs
  <2>2. cfg[r].refused \in NotRefused..GiveUp
    BY <2>1 DEF RouteState
  <2>3. (IF cfg[r].refused = NotRefused THEN cfg[r].refused
         ELSE Smaller(cfg[r].refused + e, GiveUp)) \in NotRefused..GiveUp
    BY <1>1, <2>2, RouteConstants DEF Smaller
  <2> QED
    BY <2>1, <2>3 DEF RouteState
<1>3. [backoff EXCEPT !.left = Shorter(@, e)] \in Backoffs
  <2>1. backoff \in Backoffs /\ backoff.left \in 0..RetryMax
    BY DEF CfgTypeOK, Backoffs
  <2>2. Shorter(backoff.left, e) \in 0..RetryMax
    BY <1>1, <2>1, RouteConstants DEF Shorter
  <2> QED
    BY <2>1, <2>2 DEF Backoffs
<1> QED
  BY <1>2, <1>3 DEF Aged, Producers

(* A tick without a connection.                                            *)
LEMMA DownKeepsRoutes ==
    ASSUME RoutesInv, NEW e \in {1, GiveUp}, TickWhileDown(e)
    PROVE  RoutesInv'
<1>1. /\ cfg' = Aged(e).routes /\ backoff' = Aged(e).backoff
      /\ link' = [link EXCEPT !.latched = FALSE] /\ link.connected = FALSE
      /\ UNCHANGED <<marked, cursor, built, behind, lost, refusals>>
  BY DEF TickWhileDown, RoutesInv, CfgTypeOK
<1>2. /\ Aged(e) \in Producers
      /\ \A r \in Routes : /\ cfg'[r].pending = cfg[r].pending /\ cfg'[r].needs = cfg[r].needs
                           /\ cfg'[r].job = cfg[r].job
  BY <1>1, AgedIs DEF RoutesInv
<1>3. \A r \in Routes : cfg[r].job # "Built"
  BY DEF TickWhileDown, Publishing
<1>4. CfgTypeOK' /\ link'.connected = FALSE
  BY <1>1, <1>2 DEF RoutesInv, CfgTypeOK, Producers, Backoffs
<1>5. NothingForgotten'
  BY <1>1, <1>2, <1>3 DEF RoutesInv, CfgTypeOK, NothingForgotten
<1>6. PendingIsBacked' /\ BuiltIsWanted' /\ JoinedAgain'
  BY <1>1, <1>2, <1>3, <1>4 DEF RoutesInv, PendingIsBacked, BuiltIsWanted, JoinedAgain
<1> QED
  BY <1>4, <1>5, <1>6 DEF RoutesInv

-----------------------------------------------------------------------------
GivenUp(route) == [route EXCEPT !.needs = FALSE, !.pending = FALSE, !.refused = NotRefused]

(* A route given up is no longer wanted, the others are as before.         *)
LEMMA ExpiredIs ==
    ASSUME NEW p \in Producers
    PROVE  /\ Expired(p) \in Producers
           /\ \A r \in Routes :
                 LET new == Expired(p).routes[r]
                 IN  IF TimedOut(p.routes[r])
                     THEN ~new.needs /\ ~new.pending /\ new.job = p.routes[r].job
                     ELSE new = p.routes[r]
<1>1. \A r \in Routes : p.routes[r] \in RouteState
  BY DEF Producers
<1>2. \A route \in RouteState :
         LET new == GivenUp(route)
         IN  new \in RouteState /\ ~new.needs /\ ~new.pending /\ new.job = route.job
  <2>1. -1 \in NotRefused..GiveUp
    BY RouteConstants
  <2> QED
    BY <2>1, RouteConstants DEF RouteState, GivenUp
<1> DEFINE routes == [r \in Routes |-> IF TimedOut(p.routes[r]) THEN GivenUp(p.routes[r])
                                      ELSE p.routes[r]]
<1>3. Expired(p) = [p EXCEPT !.routes = routes]
  BY DEF Expired, GivenUp
<1>4. routes \in [Routes -> RouteState]
  BY <1>1, <1>2
<1>5. \A r \in Routes : LET new == routes[r]
                       IN  IF TimedOut(p.routes[r])
                           THEN ~new.needs /\ ~new.pending /\ new.job = p.routes[r].job
                           ELSE new = p.routes[r]
  BY <1>1, <1>2
<1> HIDE DEF routes
<1> QED
  BY <1>3, <1>4, <1>5 DEF Producers

(* At most one route is retried, of those that were refused.               *)
LEMMA RetriedIs ==
    ASSUME NEW p \in Producers, NEW retried, retried = ToRetry(p), NEW ok \in Answers
    PROVE  LET done == runRetryTick(p, retried, ok)
           IN  /\ done \in Producers
               /\ \A r \in Routes :
                     \/ done.routes[r] = p.routes[r]
                     \/ p.routes[r].needs /\ Enqueued(p.routes[r], done.routes[r], ok[r])
<1> DEFINE done == runRetryTick(p, retried, ok)
<1>1. CASE ~hasNeedsEnqueue(p)
  <2>1. done = [p EXCEPT !.backoff = Rested] /\ Rested \in Backoffs
    BY <1>1, RouteConstants DEF runRetryTick, Rested, Backoffs
  <2>2. done \in Producers /\ done.routes = p.routes
    BY <2>1 DEF Producers
  <2> QED
    BY <2>2
<1>2. CASE hasNeedsEnqueue(p) /\ retried = {}
  BY <1>2 DEF runRetryTick
<1>3. CASE hasNeedsEnqueue(p) /\ retried # {}
  <2> DEFINE z == CHOOSE r \in retried : TRUE
  <2>1. z \in retried
    BY <1>3
  <2>2. z \in Routes /\ p.routes[z].needs
    BY <2>1 DEF ToRetry, NextRetry
  <2>3. done = enqueueByRoute(p, z, ok)
    BY <1>3 DEF runRetryTick
  <2> HIDE DEF z
  <2>4. LET d == enqueueByRoute(p, z, ok)
        IN  /\ d \in Producers
            /\ \A s \in Routes \ {z} : d.routes[s] = p.routes[s]
            /\ Enqueued(p.routes[z], d.routes[z], ok[z])
    BY <2>2, EnqueueIs
  <2> QED
    BY <2>2, <2>3, <2>4
<1> QED
  BY <1>1, <1>2, <1>3

(* A full budget has a last route.                                         *)
LEMMA CursorIs ==
    ASSUME cursor.mail \in Routes, NEW M \in SUBSET Routes
    PROVE  CursorAfter(M) \in Routes
<1>1. ASSUME NEW r \in Routes
      PROVE  MailTurn(r) \in Nat /\ MailTurn(r) < RouteCount
  <2>1. r - cursor.mail \in Int
    BY RouteConstants
  <2>2. MailTurn(r) \in 0..(RouteCount - 1)
    BY <2>1, RouteConstants, TurnIs DEF MailTurn
  <2> QED
    BY <2>2, RouteConstants
<1>2. Drained(M) \subseteq Routes
  BY DEF Drained
<1>3. IsFiniteSet(M)
  <2>1. IsFiniteSet(Routes)
    BY RouteConstants, FS_Interval
  <2> QED
    BY <2>1, FS_Subset
<1>4. CASE Cardinality(M) < DrainBudget
  BY <1>4 DEF CursorAfter
<1>5. CASE ~(Cardinality(M) < DrainBudget)
  <2>1. M # {}
    <3>1. Cardinality({}) < DrainBudget
      BY RouteConstants, FS_EmptySet
    <3> QED
      BY <1>5, <3>1
  <2>2. Drained(M) # {}
    <3> DEFINE T == {MailTurn(r) : r \in M}
    <3>1. T \in SUBSET Nat /\ T # {}
      BY <1>1, <2>1
    <3>2. PICK n \in T : \A k \in T : n <= k
      <4> HIDE DEF T
      <4> QED BY <3>1, LeastOf
    <3>3. PICK r \in M : \A s \in M : MailTurn(r) <= MailTurn(s)
      BY <3>2
    <3>4. {s \in M : MailTurn(s) < MailTurn(r)} = {}
      BY <1>1, <3>3
    <3> QED
      BY <3>3, <3>4, RouteConstants, FS_EmptySet DEF Drained
  <2>3. \E r \in Drained(M) : \A s \in Drained(M) : MailTurn(s) <= MailTurn(r)
    <3> DEFINE T == {RouteCount - MailTurn(r) : r \in Drained(M)}
    <3>1. T \in SUBSET Nat /\ T # {}
      <4>1. \A r \in Drained(M) : RouteCount - MailTurn(r) \in Nat
        BY <1>1, <1>2, RouteConstants
      <4> QED
        BY <2>2, <4>1
    <3>2. PICK n \in T : \A k \in T : n <= k
      <4> HIDE DEF T
      <4> QED BY <3>1, LeastOf
    <3>3. PICK r \in Drained(M) : \A s \in Drained(M) :
             RouteCount - MailTurn(r) <= RouteCount - MailTurn(s)
      BY <3>2
    <3>4. ASSUME NEW s \in Drained(M) PROVE MailTurn(s) <= MailTurn(r)
      <4>1. MailTurn(s) \in Nat /\ MailTurn(r) \in Nat
        BY <1>1, <1>2
      <4> QED
        BY <3>3, <4>1, RouteConstants
    <3> QED
      BY <3>4
  <2> DEFINE z == CHOOSE r \in Drained(M) : \A s \in Drained(M) : MailTurn(s) <= MailTurn(r)
  <2>4. z \in Routes
    BY <1>2, <2>3
  <2>5. CursorAfter(M) = (1 + z) % RouteCount
    BY <1>5 DEF CursorAfter
  <2> HIDE DEF z
  <2>6. 1 + z \in Int
    BY <2>4, RouteConstants
  <2> QED
    BY <2>5, <2>6, TurnIsRoute
<1> QED
  BY <1>4, <1>5

(* What a tick makes of a route: it has a job, or it was refused, or it is *)
(* given up, or it is as before.                                           *)
Ticked(old, new, late, asked, yes) ==
    \/ new.pending /\ new.job = "Waiting" /\ ~new.needs
    \/ new.pending /\ new.needs /\ new.job = old.job /\ ~yes
    \/ /\ late /\ ~new.pending /\ ~new.needs /\ new.job = old.job
       /\ IF asked THEN ~yes ELSE old.needs
    \/ /\ ~asked /\ new.pending = old.pending /\ new.needs = old.needs
       /\ new.job = old.job

(* What one tick does to a route: given up, asked for, both or neither.    *)
LEMMA TickedIs ==
    ASSUME RoutesInv, NEW e \in {1, GiveUp}, NEW ok \in Answers, NEW M \in SUBSET Routes,
           NEW drained, drained = drain(Aged(e), M, ok),
           NEW retried, retried = ToRetry(Expired(drained)),
           NEW done, done = runRetryTick(Expired(drained), retried, ok)
    PROVE  /\ done \in Producers
           /\ \A r \in Routes :
                 Ticked(cfg[r], done.routes[r], TimedOut(drained.routes[r]),
                        r \in Drained(M), ok[r])
<1>1. CfgTypeOK /\ cursor.mail \in Routes
  BY DEF RoutesInv, CfgTypeOK
<1>2. /\ Aged(e) \in Producers
      /\ \A r \in Routes : LET new == Aged(e).routes[r]
                           IN  /\ new.pending = cfg[r].pending /\ new.needs = cfg[r].needs
                               /\ new.job = cfg[r].job
  BY <1>1, AgedIs
<1>3. /\ drained \in Producers
      /\ \A r \in Drained(M) : Enqueued(Aged(e).routes[r], drained.routes[r], ok[r])
      /\ \A r \in Routes \ Drained(M) : drained.routes[r] = Aged(e).routes[r]
  BY <1>1, <1>2, DrainIs
<1> DEFINE kept == Expired(drained)
<1>4. /\ kept \in Producers
      /\ \A r \in Routes :
            IF TimedOut(drained.routes[r])
            THEN /\ ~kept.routes[r].needs /\ ~kept.routes[r].pending
                 /\ kept.routes[r].job = drained.routes[r].job
            ELSE kept.routes[r] = drained.routes[r]
  BY <1>3, ExpiredIs
<1>5. /\ done \in Producers
      /\ \A r \in Routes :
            \/ done.routes[r] = kept.routes[r]
            \/ kept.routes[r].needs /\ Enqueued(kept.routes[r], done.routes[r], ok[r])
  BY <1>4, RetriedIs
<1> HIDE DEF kept
<1>6. ASSUME NEW r \in Routes
      PROVE  Ticked(cfg[r], done.routes[r], TimedOut(drained.routes[r]), r \in Drained(M), ok[r])
  <2>1. TimedOut(drained.routes[r]) => drained.routes[r].needs
    BY DEF TimedOut
  <2>2. CASE r \in Drained(M)
    BY <1>2, <1>3, <1>4, <1>5, <2>1, <2>2 DEF Enqueued, Ticked
  <2>3. CASE r \notin Drained(M)
    BY <1>2, <1>3, <1>4, <1>5, <2>1, <2>3 DEF Enqueued, Ticked
  <2> QED
    BY <2>2, <2>3
<1> QED
  BY <1>5, <1>6

(* A tick with a connection.                                               *)
LEMMA TickKeepsRoutes ==
    ASSUME RoutesInv, NEW e \in {1, GiveUp}, NEW ok \in Answers, NEW holds \in BOOLEAN,
           Tick(e, ok, holds)
    PROVE  RoutesInv'
<1> DEFINE M == MarkedAtGate
<1>1. PICK drained \in {drain(Aged(e), M, ok)} :
      \E retried \in {ToRetry(Expired(drained))} :
      \E done \in {runRetryTick(Expired(drained), retried, ok)} :
         LET turned == {r \in Drained(M) \cup retried : done.routes[r].needs /\ ~ok[r]}
         IN  /\ refusals' = refusals + IF holds THEN Cardinality(turned) ELSE 0
             /\ refusals' <= MaxRefusals
             /\ cfg' = done.routes /\ backoff' = done.backoff
             /\ cursor' = [mail |-> CursorAfter(M),
                           retry |-> IF retried = {} THEN cursor.retry
                                     ELSE (1 + CHOOSE r \in retried : TRUE) % RouteCount]
             /\ lost' = (lost \ Drained(M)) \cup {r \in behind : TimedOut(drained.routes[r])}
  BY DEF Tick
<1>2. PICK retried \in {ToRetry(Expired(drained))} :
      \E done \in {runRetryTick(Expired(drained), retried, ok)} :
         LET turned == {r \in Drained(M) \cup retried : done.routes[r].needs /\ ~ok[r]}
         IN  /\ refusals' = refusals + IF holds THEN Cardinality(turned) ELSE 0
             /\ refusals' <= MaxRefusals
             /\ cfg' = done.routes /\ backoff' = done.backoff
             /\ cursor' = [mail |-> CursorAfter(M),
                           retry |-> IF retried = {} THEN cursor.retry
                                     ELSE (1 + CHOOSE r \in retried : TRUE) % RouteCount]
             /\ lost' = (lost \ Drained(M)) \cup {r \in behind : TimedOut(drained.routes[r])}
  BY <1>1
<1>3. PICK done \in {runRetryTick(Expired(drained), retried, ok)} :
         LET turned == {r \in Drained(M) \cup retried : done.routes[r].needs /\ ~ok[r]}
         IN  /\ refusals' = refusals + IF holds THEN Cardinality(turned) ELSE 0
             /\ refusals' <= MaxRefusals
             /\ cfg' = done.routes /\ backoff' = done.backoff
             /\ cursor' = [mail |-> CursorAfter(M),
                           retry |-> IF retried = {} THEN cursor.retry
                                     ELSE (1 + CHOOSE r \in retried : TRUE) % RouteCount]
             /\ lost' = (lost \ Drained(M)) \cup {r \in behind : TimedOut(drained.routes[r])}
  BY <1>2
<1>4. /\ link.connected /\ (holds => \A r \in Routes : cfg[r].job # "None" => ok[r])
      /\ \A r \in Routes : cfg[r].job # "Built"
      /\ marked' = M \ Drained(M) /\ link' = [connected |-> holds, latched |-> TRUE]
      /\ UNCHANGED <<built, behind>>
  BY DEF Tick, Publishing, MarksLeft
<1>5. marked \subseteq M /\ M \subseteq Routes
  BY DEF MarkedAtGate, RoutesInv, CfgTypeOK
<1>6. /\ done \in Producers
      /\ \A r \in Routes :
            Ticked(cfg[r], cfg'[r], TimedOut(drained.routes[r]), r \in Drained(M), ok[r])
  <2> HIDE DEF M
  <2> QED BY <1>3, <1>5, TickedIs
<1>7. CfgTypeOK'
  <2> DEFINE turned == {r \in Drained(M) \cup retried : done.routes[r].needs /\ ~ok[r]}
  <2>1. retried \subseteq Routes /\ Drained(M) \subseteq Routes
    BY <1>5 DEF ToRetry, Drained
  <2>2. Cardinality(turned) \in Nat
    <3>1. turned \subseteq Routes
      BY <2>1
    <3>2. IsFiniteSet(Routes)
      BY RouteConstants, FS_Interval
    <3> HIDE DEF turned
    <3> QED BY <3>1, <3>2, FS_Subset, FS_CardinalityType
  <2>3. refusals' \in 0..MaxRefusals
    BY <1>3, <2>2, RouteConstants DEF RoutesInv, CfgTypeOK
  <2>4. CursorAfter(M) \in Routes
    <3>1. cursor.mail \in Routes
      BY DEF RoutesInv, CfgTypeOK
    <3> HIDE DEF M
    <3> QED BY <1>5, <3>1, CursorIs
  <2>5. (IF retried = {} THEN cursor.retry ELSE (1 + CHOOSE r \in retried : TRUE) % RouteCount)
           \in Routes
    <3>1. CASE retried = {}
      BY <3>1 DEF RoutesInv, CfgTypeOK
    <3>2. CASE retried # {}
      <4> DEFINE z == CHOOSE r \in retried : TRUE
      <4>1. z \in Routes
        BY <2>1, <3>2
      <4>2. 1 + z \in Int
        <5> HIDE DEF z
        <5> QED BY <4>1, RouteConstants
      <4>3. (1 + z) % RouteCount \in Routes
        <5> HIDE DEF z
        <5> QED BY <4>2, TurnIsRoute
      <4> QED
        BY <3>2, <4>3
    <3> QED
      BY <3>1, <3>2
  <2>6. cursor' \in [mail : Routes, retry : Routes]
    BY <1>3, <2>4, <2>5
  <2>7. cfg' \in [Routes -> RouteState] /\ backoff' \in [left : 0..RetryMax, step : 0..RetryMax]
    BY <1>3, <1>6 DEF Producers, Backoffs
  <2>8. marked' \subseteq Routes /\ link' \in [connected : BOOLEAN, latched : BOOLEAN]
    BY <1>4, <1>5
  <2>9. built' \subseteq Routes /\ behind' \subseteq Routes /\ lost' \subseteq behind'
    BY <1>3, <1>4 DEF RoutesInv, CfgTypeOK
  <2> QED
    BY <2>3, <2>6, <2>7, <2>8, <2>9 DEF CfgTypeOK
<1>8. lost' = (lost \ Drained(M)) \cup {r \in behind : TimedOut(drained.routes[r])}
  BY <1>3
<1> HIDE DEF M
<1>9. ASSUME NEW r \in behind' \ lost'
      PROVE  \/ r \in marked' \/ cfg'[r].needs
             \/ cfg'[r].job = "Waiting" /\ cfg'[r].pending
  <2>1. r \in behind /\ r \in Routes /\ ~TimedOut(drained.routes[r])
        /\ (r \in Drained(M) \/ r \notin lost)
    BY <1>4, <1>8 DEF RoutesInv, CfgTypeOK
  <2>2. Ticked(cfg[r], cfg'[r], FALSE, r \in Drained(M), ok[r])
    BY <1>6, <2>1 DEF Ticked
  <2>3. CASE r \in Drained(M)
    BY <2>2, <2>3 DEF Ticked
  <2>4. CASE r \notin Drained(M)
    <3>1. \/ r \in marked \/ cfg[r].needs
          \/ cfg[r].job = "Waiting" /\ cfg[r].pending
      BY <1>4, <2>1, <2>4 DEF RoutesInv, NothingForgotten
    <3> QED
      BY <1>4, <1>5, <2>2, <2>4, <3>1 DEF Ticked
  <2> QED
    BY <2>3, <2>4
<1>10. NothingForgotten'
  BY <1>9 DEF NothingForgotten
<1>11. ASSUME NEW r \in Routes
       PROVE  /\ cfg'[r].pending => cfg'[r].needs \/ cfg'[r].job # "None"
              /\ holds /\ cfg'[r].job # "None" => cfg'[r].pending \/ r \in marked'
              /\ holds /\ cfg'[r].job # "None" /\ cfg'[r].needs => r \in marked'
              /\ cfg'[r].job # "Built" /\ r \notin built'
  <2>1. Ticked(cfg[r], cfg'[r], TimedOut(drained.routes[r]), r \in Drained(M), ok[r])
    BY <1>6
  <2>2. /\ cfg[r].pending => cfg[r].needs \/ cfg[r].job # "None"
        /\ cfg[r].job # "None" => cfg[r].pending \/ r \in marked
        /\ cfg[r].job # "None" /\ cfg[r].needs => r \in marked
        /\ cfg[r].job # "Built" /\ r \notin built
    BY <1>4 DEF RoutesInv, PendingIsBacked, JoinedAgain, BuiltIsWanted
  <2>3. /\ r \in marked /\ r \notin Drained(M) => r \in marked'
        /\ built' = built
        /\ holds /\ cfg[r].job # "None" => ok[r]
    BY <1>4, <1>5
  <2>4. CASE r \in Drained(M)
    BY <2>1, <2>2, <2>3, <2>4 DEF Ticked
  <2>5. CASE r \notin Drained(M)
    BY <2>1, <2>2, <2>3, <2>5 DEF Ticked
  <2> QED
    BY <2>4, <2>5
<1>12. link'.connected = holds
  BY <1>4
<1>13. PendingIsBacked' /\ BuiltIsWanted' /\ JoinedAgain'
  BY <1>11, <1>12 DEF PendingIsBacked, BuiltIsWanted, JoinedAgain
<1> QED
  BY <1>7, <1>10, <1>13 DEF RoutesInv

(* A route whose job changes alone.                                        *)
LEMMA OneRouteKeeps ==
    ASSUME RoutesInv, NEW r \in Routes, NEW new \in RouteState,
           cfg' = [cfg EXCEPT ![r] = new],
           backoff' \in Backoffs, refusals' \in 0..MaxRefusals,
           UNCHANGED <<marked, cursor, link>>,
           behind' \in {behind, behind \ {r}}, built' \in {built \ {r}, built \cup {r}},
           lost' \subseteq behind', (lost \ {r}) \subseteq lost',
           r \in behind' \ lost' =>
              r \in marked \/ new.needs \/ (new.job # "None" /\ new.pending),
           new.pending => new.needs \/ new.job # "None",
           new.job # "None" => new.pending \/ r \in marked \/ ~link.connected,
           new.job = "Built" => new.pending /\ r \in built',
           r \in built' => new.job = "Built",
           link.connected /\ new.job # "None" /\ new.needs => r \in marked
    PROVE  RoutesInv'
<1>1. CfgTypeOK
  BY DEF RoutesInv
<1>2. CfgTypeOK'
  BY <1>1 DEF CfgTypeOK, Backoffs
<1>3. cfg'[r] = new /\ \A s \in Routes \ {r} : cfg'[s] = cfg[s]
  BY <1>1 DEF CfgTypeOK
<1>4. /\ new.job \in {"None", "Waiting", "Built"}
      /\ \A s \in Routes \ {r} : /\ s \in built' <=> s \in built
                                /\ s \in behind' \ lost' => s \in behind \ lost
      /\ behind' \subseteq Routes
  BY <1>1 DEF RouteState, CfgTypeOK
<1>5. NothingForgotten'
  <2> SUFFICES ASSUME NEW s \in behind' \ lost'
               PROVE  \/ s \in marked'
                      \/ cfg'[s].needs
                      \/ cfg'[s].job = "Waiting" /\ cfg'[s].pending
                      \/ cfg'[s].job = "Built" /\ (s \in built' \/ cfg'[s].republish)
    BY DEF NothingForgotten
  <2>1. CASE s = r
    BY <1>3, <1>4, <2>1
  <2>2. CASE s # r
    BY <1>3, <1>4, <2>2 DEF RoutesInv, NothingForgotten
  <2> QED
    BY <2>1, <2>2
<1>6. PendingIsBacked'
  BY <1>3 DEF RoutesInv, PendingIsBacked
<1>7. BuiltIsWanted'
  BY <1>3, <1>4 DEF RoutesInv, BuiltIsWanted
<1>8. JoinedAgain'
  BY <1>3 DEF RoutesInv, JoinedAgain
<1> QED
  BY <1>2, <1>5, <1>6, <1>7, <1>8 DEF RoutesInv

(* Resting the retry leaves the routes alone.                              *)
LEMMA ResetIs ==
    ASSUME NEW p \in Producers
    PROVE  resetIfNone(p) \in Producers /\ resetIfNone(p).routes = p.routes
<1>1. Rested \in Backoffs
  BY RouteConstants DEF Rested, Backoffs
<1> QED
  BY <1>1 DEF resetIfNone, Producers

(* The queue's task builds the message of a route.                         *)
LEMMA BuildKeepsRoutes ==
    ASSUME RoutesInv, NEW r \in Routes, buildMessage(r)
    PROVE  RoutesInv'
<1>1. /\ cfg[r] \in RouteState /\ CfgTypeOK /\ cfg[r].job = "Waiting" /\ link.connected
      /\ r \notin built /\ UNCHANGED <<marked, cursor, link, behind>>
  BY RouteIs DEF RoutesInv, BuiltIsWanted, buildMessage
<1>2. /\ refusals \in 0..MaxRefusals /\ backoff \in Backoffs /\ lost \subseteq behind
      /\ cfg \in [Routes -> RouteState]
  BY <1>1 DEF CfgTypeOK, Backoffs
<1>3. CASE cfg[r].pending /\ BuildReady(r)
  <2> DEFINE new == [cfg[r] EXCEPT !.building = TRUE, !.job = "Built"]
  <2>1. new \in RouteState /\ new.pending /\ new.job = "Built" /\ new.needs = cfg[r].needs
    BY <1>1, <1>3 DEF RouteState
  <2>2. cfg' = [cfg EXCEPT ![r] = new]
    BY <1>2, <1>3 DEF BuildReady, RouteState
  <2>3. built' = built \cup {r} /\ UNCHANGED <<backoff, lost, refusals>>
    BY <1>3 DEF BuildReady
  <2>4. new.needs => r \in marked
    BY <1>1, <2>1 DEF RoutesInv, JoinedAgain
  <2> HIDE DEF new
  <2> QED
    BY <1>1, <1>2, <2>1, <2>2, <2>3, <2>4, OneRouteKeeps
<1>4. CASE cfg[r].pending /\ BuildLater(r)
  <2> DEFINE new == [cfg[r] EXCEPT !.building = TRUE]
  <2>1. new \in RouteState /\ new.pending /\ new.job = "Waiting" /\ new.needs = cfg[r].needs
    BY <1>1, <1>4 DEF RouteState
  <2>2. cfg' = [cfg EXCEPT ![r] = new]
    BY <1>2, <1>4 DEF BuildLater, RouteState
  <2>3. built' = built \ {r} /\ UNCHANGED <<backoff, lost>> /\ refusals' \in 0..MaxRefusals
    BY <1>1, <1>2, <1>4, RouteConstants DEF BuildLater
  <2>4. new.needs => r \in marked
    BY <1>1, <2>1 DEF RoutesInv, JoinedAgain
  <2> HIDE DEF new
  <2> QED
    BY <1>1, <1>2, <2>1, <2>2, <2>3, <2>4, OneRouteKeeps
<1>5. CASE (cfg[r].pending => refusals < MaxRefusals) /\ BuildNothing(r)
  <2> DEFINE p == [routes |-> [cfg EXCEPT ![r] = IdleRoute], backoff |-> backoff]
  <2>1. /\ IdleRoute \in RouteState /\ ~IdleRoute.pending /\ ~IdleRoute.needs
        /\ IdleRoute.job = "None"
    BY RouteConstants DEF IdleRoute, RouteState
  <2>2. p \in Producers /\ p.routes = [cfg EXCEPT ![r] = IdleRoute]
    BY <1>2, <2>1 DEF Producers
  <2>3. onMessageDropped(r) \in Producers /\ onMessageDropped(r).routes = p.routes
    <3>1. onMessageDropped(r) = resetIfNone(p)
      BY DEF onMessageDropped
    <3> HIDE DEF p
    <3> QED BY <2>2, <3>1, ResetIs
  <2>4. cfg' = [cfg EXCEPT ![r] = IdleRoute] /\ backoff' \in Backoffs
    BY <1>5, <2>2, <2>3 DEF BuildNothing, Producers
  <2>5. /\ built' = built \ {r} /\ lost' = lost \cup ({r} \cap behind)
        /\ refusals' \in 0..MaxRefusals
    BY <1>1, <1>2, <1>5, RouteConstants DEF BuildNothing
  <2> HIDE DEF p
  <2> QED
    BY <1>1, <1>2, <2>1, <2>4, <2>5, OneRouteKeeps
<1> QED
  BY <1>3, <1>4, <1>5 DEF buildMessage

(* The client publishes it: the route is asked for again, or done.         *)
LEMMA PublishedKeepsRoutes ==
    ASSUME RoutesInv, NEW r \in Routes, NEW ok \in Answers, Published(r, ok)
    PROVE  RoutesInv'
<1> DEFINE after == onMessagePublished(r, ok)
           turned == IF link.connected /\ after.routes[r].needs THEN 1 ELSE 0
<1>1. /\ cfg[r] \in RouteState /\ CfgTypeOK /\ cfg[r].job = "Built"
      /\ r \in built \/ r \in marked
      /\ UNCHANGED <<marked, cursor, link>>
  BY RouteIs DEF RoutesInv, BuiltIsWanted, Published
<1>2. /\ refusals \in 0..MaxRefusals /\ backoff \in Backoffs /\ lost \subseteq behind
      /\ cfg \in [Routes -> RouteState]
  BY <1>1 DEF CfgTypeOK, Backoffs
<1>3. /\ refusals + turned <= MaxRefusals /\ refusals' = refusals + turned
      /\ cfg' = after.routes /\ backoff' = after.backoff
      /\ behind' = IF r \in built THEN behind \ {r} ELSE behind
      /\ lost' = IF r \in built THEN lost \ {r} ELSE lost
      /\ built' = built \ {r} /\ (~link.connected => ~ok[r])
  BY DEF Published
<1>4. refusals' \in 0..MaxRefusals
  <2>1. turned \in 0..1
    OBVIOUS
  <2> HIDE DEF turned
  <2> QED BY <1>2, <1>3, <2>1, RouteConstants
<1> DEFINE free == [cfg[r] EXCEPT !.building = FALSE, !.job = "None"]
           released == [routes |-> [cfg EXCEPT ![r].building = FALSE, ![r].job = "None"],
                        backoff |-> backoff]
<1>5. /\ free \in RouteState /\ free.job = "None"
      /\ released.routes = [cfg EXCEPT ![r] = free]
  BY <1>1, <1>2 DEF RouteState
<1>6. released \in Producers
  <2> HIDE DEF free
  <2> QED BY <1>2, <1>5 DEF Producers
<1>7. \E new \in RouteState :
         /\ after \in Producers /\ after.routes = [cfg EXCEPT ![r] = new]
         /\ \/ new.pending /\ new.job = "Waiting" /\ ~new.needs
            \/ new.pending /\ new.job = "None" /\ new.needs
            \/ ~new.pending /\ new.job = "None" /\ ~new.needs
  <2>1. CASE cfg[r].republish
    <3> DEFINE p == [released EXCEPT !.routes[r].republish = FALSE]
               once == [free EXCEPT !.republish = FALSE]
    <3>1. after = enqueueByRoute(p, r, ok)
      BY <2>1 DEF onMessagePublished
    <3>2. once \in RouteState /\ once.job = "None"
      BY <1>5 DEF RouteState
    <3>3. p.routes = [cfg EXCEPT ![r] = once] /\ p.backoff = backoff
      BY <1>2, <1>5
    <3>4. p = [routes |-> [cfg EXCEPT ![r] = once], backoff |-> backoff]
      BY <1>2, <1>5
    <3> HIDE DEF once, free
    <3>5. p \in Producers
      <4> HIDE DEF p
      <4> QED BY <1>2, <3>2, <3>4 DEF Producers
    <3> HIDE DEF p, after
    <3>6. /\ after \in Producers
          /\ \A s \in Routes \ {r} : after.routes[s] = p.routes[s]
          /\ Enqueued(p.routes[r], after.routes[r], ok[r])
      BY <3>1, <3>5, EnqueueIs
    <3>7. after.routes \in [Routes -> RouteState]
      BY <3>6 DEF Producers
    <3>8. after.routes = [cfg EXCEPT ![r] = after.routes[r]]
      BY <1>2, <3>3, <3>6, <3>7
    <3>9. p.routes[r] = once
      BY <1>2, <3>3
    <3> QED
      BY <3>2, <3>6, <3>7, <3>8, <3>9 DEF Enqueued
  <2>2. CASE ~cfg[r].republish
    <3> DEFINE new == [free EXCEPT !.pending = FALSE, !.needs = FALSE, !.refused = NotRefused]
               p == [released EXCEPT !.routes[r] =
                       [@ EXCEPT !.pending = FALSE, !.needs = FALSE, !.refused = NotRefused]]
    <3>1. after = resetIfNone(p)
      BY <2>2 DEF onMessagePublished
    <3>2. -1 \in NotRefused..GiveUp
      BY RouteConstants
    <3>3. new \in RouteState /\ ~new.pending /\ new.job = "None" /\ ~new.needs
      BY <1>5, <3>2, RouteConstants DEF RouteState
    <3>4. p = [routes |-> [cfg EXCEPT ![r] = new], backoff |-> backoff]
      BY <1>2, <1>5
    <3> HIDE DEF new, free
    <3>5. p \in Producers /\ p.routes = [cfg EXCEPT ![r] = new]
      <4> HIDE DEF p
      <4> QED BY <1>2, <3>3, <3>4 DEF Producers
    <3> HIDE DEF p, after
    <3>6. after \in Producers /\ after.routes = [cfg EXCEPT ![r] = new]
      BY <3>1, <3>5, ResetIs
    <3> QED
      BY <3>3, <3>6
  <2> QED
    BY <2>1, <2>2
<1> HIDE DEF after, turned, free, released
<1>8. PICK new \in RouteState :
         /\ after \in Producers /\ after.routes = [cfg EXCEPT ![r] = new]
         /\ \/ new.pending /\ new.job = "Waiting" /\ ~new.needs
            \/ new.pending /\ new.job = "None" /\ new.needs
            \/ ~new.pending /\ new.job = "None" /\ ~new.needs
  BY <1>7
<1>9. cfg' = [cfg EXCEPT ![r] = new] /\ backoff' \in Backoffs
  BY <1>3, <1>8 DEF Producers
<1>10. /\ behind' \in {behind, behind \ {r}} /\ lost' \subseteq behind'
       /\ (lost \ {r}) \subseteq lost' /\ (r \in behind' => r \in marked)
  BY <1>1, <1>2, <1>3
<1>11. UNCHANGED <<marked, cursor, link>> /\ behind' \in {behind, behind \ {r}}
  BY <1>1, <1>10
<1>12. built' \in {built \ {r}, built \cup {r}} /\ r \notin built'
  BY <1>3
<1>13. r \in behind' \ lost' =>
          r \in marked \/ new.needs \/ (new.job # "None" /\ new.pending)
  BY <1>10
<1>14. /\ new.pending => new.needs \/ new.job # "None"
       /\ new.job # "None" => new.pending \/ r \in marked \/ ~link.connected
       /\ new.job # "Built"
       /\ link.connected /\ new.job # "None" /\ new.needs => r \in marked
  BY <1>8
<1>15. /\ new.job = "Built" => new.pending /\ r \in built'
       /\ r \in built' => new.job = "Built"
  BY <1>12, <1>14
<1> QED
  BY <1>4, <1>9, <1>10, <1>11, <1>12, <1>13, <1>14, <1>15, OneRouteKeeps

(* The client fails to publish it.                                         *)
LEMMA FailedKeepsRoutes ==
    ASSUME RoutesInv, NEW r \in Routes, Failed(r)
    PROVE  RoutesInv'
<1> DEFINE new == [cfg[r] EXCEPT !.job = "Waiting"]
<1>1. /\ cfg[r] \in RouteState /\ CfgTypeOK /\ cfg[r].job = "Built" /\ cfg[r].pending
      /\ UNCHANGED <<marked, cursor, backoff, link, behind, lost>> /\ built' = built \ {r}
  BY RouteIs DEF RoutesInv, BuiltIsWanted, Failed
<1>2. /\ refusals \in 0..MaxRefusals /\ backoff \in Backoffs /\ lost \subseteq behind
      /\ cfg \in [Routes -> RouteState]
  BY <1>1 DEF CfgTypeOK, Backoffs
<1>3. new \in RouteState /\ new.pending /\ new.job = "Waiting" /\ new.needs = cfg[r].needs
  BY <1>1 DEF RouteState
<1>4. cfg' = [cfg EXCEPT ![r] = new] /\ refusals' \in 0..MaxRefusals
  BY <1>1, <1>2, RouteConstants DEF Failed
<1>5. link.connected /\ new.needs => r \in marked
  BY <1>1, <1>3 DEF RoutesInv, JoinedAgain
<1> HIDE DEF new
<1> QED
  BY <1>1, <1>2, <1>3, <1>4, <1>5, OneRouteKeeps

LEMMA RoutesStep == RoutesInv /\ [CfgNext]_cfgVars => RoutesInv'
<1> SUFFICES ASSUME RoutesInv, [CfgNext]_cfgVars PROVE RoutesInv'
  OBVIOUS
<1>1. CASE \/ \E r \in Routes, whole \in BOOLEAN : onEvent(r, whole)
           \/ Connect \/ Disconnect \/ UNCHANGED cfgVars
  BY <1>1, EventsKeepRoutes
<1>2. CASE Ticks
  BY <1>2, DownKeepsRoutes, TickKeepsRoutes DEF Ticks
<1>3. CASE \E r \in Routes : buildMessage(r)
  BY <1>3, BuildKeepsRoutes
<1>4. CASE \E r \in Routes : PublishEnds(r)
  BY <1>4, PublishedKeepsRoutes, FailedKeepsRoutes DEF PublishEnds
<1> QED
  BY <1>1, <1>2, <1>3, <1>4 DEF CfgNext

(* Whatever overlaps - changes, publications, refusals, time-outs and      *)
(* reconnections - no change of the configuration is forgotten, and no     *)
(* flag is left without the job or the retry that will clear it, for any   *)
(* number of routes and any budget and delays (RoutesSound).               *)
THEOREM RoutesCorrect == CfgSpec => []RoutesSound
<1>1. CfgInit => RoutesInv
  BY RoutesInvInit
<1>2. RoutesInv /\ [CfgNext]_cfgVars => RoutesInv'
  BY RoutesStep
<1>3. RoutesInv => RoutesSound
  BY DEF RoutesInv, RoutesSound
<1> QED
  BY <1>1, <1>2, <1>3, PTL DEF CfgSpec
=============================================================================
