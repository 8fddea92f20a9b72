---------------------------- MODULE ConfigRoutes ----------------------------
(***************************************************************************)
(* MqttConfigRouteProducer: it publishes, as retained messages, what the   *)
(* ConfigStore holds.                                                      *)
(*                                                                         *)
(* A change is announced by the event task, which marks the route in a     *)
(* mailbox (PendingMqttRoutes).  Everything else runs in the mqtt task:    *)
(* the tick drains a few routes of the mailbox into the publish queue,     *)
(* retries the refused ones after a back-off and gives them up after a     *)
(* while; the queue has the messages built and tells what became of them.  *)
(*                                                                         *)
(* The queue is reduced to what MqttQueue promises: one job per route,     *)
(* which a second request joins, and which is built while the connection   *)
(* holds.  A route without a job may be refused.  Times are relative.      *)
(*                                                                         *)
(* The operators that no action uses (CursorKept, NeverCapped...) are      *)
(* mistakes easily made here, kept beside the definition they would        *)
(* replace: each breaks a property below.                                  *)
(***************************************************************************)
EXTENDS Integers, FiniteSets

CONSTANTS
    RouteCount,  \* routes of the producer
    DrainBudget, \* routes taken from the mailbox per tick
    RetryMin,    \* kRetryMinMs
    RetryMax,    \* kRetryMaxMs
    GiveUp,      \* kRetryTimeoutMs
    MaxRefusals  \* bound: refused, failed or postponed publications

Routes == 0..(RouteCount - 1)
NotRefused == -1

ASSUME RouteAssumption == RouteCount \in Nat \ {0} /\ DrainBudget \in Nat \ {0}
ASSUME RetryAssumption ==
    /\ RetryMin \in Nat \ {0} /\ RetryMax \in Nat /\ GiveUp \in Nat
    /\ RetryMin <= RetryMax /\ RetryMax <= GiveUp
ASSUME RefusalAssumption == MaxRefusals \in Nat

VARIABLES
    cfg,      \* state_ of each route, with its job in the publish queue
    marked,   \* the mailbox: routes with a request
    cursor,   \* where the mailbox and the retries go on
    backoff,  \* what is left before the next retry, and the next delay
    link,     \* is the client connected, and as the gate last saw it
    built,    \* history: routes whose value is in the message being sent
    behind,   \* history: routes whose value the broker does not have
    lost,     \* history: those among them that were given up
    refusals  \* bound: what MaxRefusals counts

cfgVars == <<cfg, marked, cursor, backoff, link, built, behind, lost, refusals>>

RouteState ==
    [pending : BOOLEAN, needs : BOOLEAN, refused : NotRefused..GiveUp,
     building : BOOLEAN, republish : BOOLEAN, job : {"None", "Waiting", "Built"}]

IdleRoute == [pending |-> FALSE, needs |-> FALSE, refused |-> NotRefused,
              building |-> FALSE, republish |-> FALSE, job |-> "None"]

Rested == [left |-> 0, step |-> 0]

Smaller(a, b) == IF a <= b THEN a ELSE b
Shorter(t, e) == IF t > e THEN t - e ELSE 0
-----------------------------------------------------------------------------
(* What the methods compute is a record p with the routes and the back-off.*)
hasNeedsEnqueue(p) == \E r \in Routes : p.routes[r].needs

resetIfNone(p) == IF hasNeedsEnqueue(p) THEN p ELSE [p EXCEPT !.backoff = Rested]

NeverCapped(step) == 2 * step

NextStep(step) == Smaller(2 * step, RetryMax)

armRetry(p) ==
    LET step == IF p.backoff.step < RetryMin THEN RetryMin ELSE p.backoff.step
    IN  [p EXCEPT !.backoff = [left |-> step, step |-> NextStep(step)]]

AlwaysRepublished(route) == TRUE

Republished(route) == route.republish \/ route.building

(* enqueueByRoute_: a route that has a job joins it, another one is        *)
(* accepted or refused.                                                    *)
Requested(route) ==
    [route EXCEPT !.republish = Republished(route), !.pending = TRUE, !.needs = TRUE]

Granted(route) ==
    [Requested(route) EXCEPT !.needs = FALSE, !.refused = NotRefused, !.job = "Waiting"]

Accepted(p, r) ==
    LET q == [p EXCEPT !.routes[r] = Granted(@)]
    IN  IF hasNeedsEnqueue(q)
        THEN [q EXCEPT !.backoff.left = IF @ = 0 THEN RetryMin ELSE @]
        ELSE [q EXCEPT !.backoff = Rested]

RefusedForgotten(p, r) ==
    armRetry([p EXCEPT !.routes[r] = [Requested(@) EXCEPT !.needs = FALSE, !.refused = 0]])

Denied(route) ==
    [Requested(route) EXCEPT !.republish = @ \/ route.pending,
                             !.refused = IF @ = NotRefused THEN 0 ELSE @]

Refused(p, r) == armRetry([p EXCEPT !.routes[r] = Denied(@)])

enqueueByRoute(p, r, ok) == IF ok[r] THEN Accepted(p, r) ELSE Refused(p, r)

(* PendingMqttRoutes::drain: the first marked routes from the cursor on.   *)
MailTurn(r) == (r - cursor.mail) % RouteCount

Drained(M) ==
    {r \in M : Cardinality({s \in M : MailTurn(s) < MailTurn(r)}) < DrainBudget}

Scanned(t) == (cursor.mail + t) % RouteCount

drain(p, M, ok) ==
    LET upTo[t \in 0..RouteCount] ==
          IF t = 0 THEN p
          ELSE IF Scanned(t - 1) \in Drained(M)
               THEN enqueueByRoute(upTo[t - 1], Scanned(t - 1), ok)
               ELSE upTo[t - 1]
    IN  upTo[RouteCount]

CursorKept(M) == cursor.mail

(* The cursor stays where it is when the whole mailbox was scanned.        *)
CursorAfter(M) ==
    IF Cardinality(M) < DrainBudget THEN cursor.mail
    ELSE (1 + CHOOSE r \in Drained(M) : \A s \in Drained(M) : MailTurn(s) <= MailTurn(r))
         % RouteCount

(* expireTimedOutRoutes_: the publication is considered lost.              *)
TimedOut(route) == route.needs /\ route.refused >= GiveUp

ExpiredPending(p) ==
    [p EXCEPT !.routes = [r \in Routes |->
        IF TimedOut(p.routes[r])
        THEN [p.routes[r] EXCEPT !.needs = FALSE, !.refused = NotRefused]
        ELSE p.routes[r]]]

Expired(p) ==
    [p EXCEPT !.routes = [r \in Routes |->
        IF TimedOut(p.routes[r])
        THEN [p.routes[r] EXCEPT !.needs = FALSE, !.pending = FALSE, !.refused = NotRefused]
        ELSE p.routes[r]]]

(* The route whose turn it is to be retried, from the cursor on.           *)
NextRetry(p, r) ==
    /\ p.routes[r].needs
    /\ \A s \in Routes : p.routes[s].needs =>
          (r - cursor.retry) % RouteCount <= (s - cursor.retry) % RouteCount

(* Time has passed since the last tick.                                    *)
Aged(e) ==
    [routes |-> [r \in Routes |->
                   [cfg[r] EXCEPT !.refused = IF @ = NotRefused THEN @
                                              ELSE Smaller(@ + e, GiveUp)]],
     backoff |-> [backoff EXCEPT !.left = Shorter(@, e)]]
-----------------------------------------------------------------------------
(* The event task: onEvent_ of a changed value marks its route, or every   *)
(* route when the event names no branch.                                   *)
onEvent(r, whole) ==
    /\ marked' = IF whole THEN Routes ELSE marked \cup {r}
    /\ behind' = behind \cup {r}
    /\ built' = built \ {r}
    /\ lost' = lost \ {r}
    /\ UNCHANGED <<cfg, cursor, backoff, link, refusals>>

(* onConnect_, in the client's task: the state is set, then everything is  *)
(* asked for.  A tick in between sees the gate open and does the same; the *)
(* second sync that would follow is as onEvent without a branch.           *)
Connect ==
    /\ ~link.connected
    /\ link' = [link EXCEPT !.connected = TRUE]
    /\ marked' = Routes
    /\ UNCHANGED <<cfg, cursor, backoff, built, behind, lost, refusals>>

Disconnect ==
    /\ link.connected
    /\ link' = [link EXCEPT !.connected = FALSE]
    /\ UNCHANGED <<cfg, marked, cursor, backoff, built, behind, lost, refusals>>
-----------------------------------------------------------------------------
(* The mqtt task.  It ticks between two publications, never during one.    *)
Publishing == \E r \in Routes : cfg[r].job = "Built"

MarksLeft(M) == M \ Drained(M)

(* The gate is seen to open: every route is marked.                        *)
MarkedAtGate == IF link.connected /\ ~link.latched THEN Routes ELSE marked

TickWhileDown(e) ==
    /\ ~link.connected /\ ~Publishing
    /\ cfg' = Aged(e).routes
    /\ backoff' = Aged(e).backoff
    /\ link' = [link EXCEPT !.latched = FALSE]
    /\ UNCHANGED <<marked, cursor, built, behind, lost, refusals>>

(* onTransportTick_ behind the open gate: the mailbox, then the time-outs, *)
(* then one retry when its delay is over.  The connection may be lost      *)
(* meanwhile, and the queue then refuses a route that has a job, too.      *)
runRetryTick(p, retried, ok) ==
    IF ~hasNeedsEnqueue(p) THEN [p EXCEPT !.backoff = Rested]
    ELSE IF retried = {} THEN p
    ELSE enqueueByRoute(p, CHOOSE r \in retried : TRUE, ok)

ToRetry(p) == {r \in Routes : p.backoff.left = 0 /\ NextRetry(p, r)}

Tick(e, ok, holds) ==
    /\ link.connected /\ ~Publishing
    /\ holds => \A r \in Routes : cfg[r].job # "None" => ok[r]
    /\ \E drained \in {drain(Aged(e), MarkedAtGate, ok)} :
       \E retried \in {ToRetry(Expired(drained))} :
       \E done \in {runRetryTick(Expired(drained), retried, ok)} :
          LET turned == {r \in Drained(MarkedAtGate) \cup retried :
                           done.routes[r].needs /\ ~ok[r]}
          IN  /\ refusals' = refusals + IF holds THEN Cardinality(turned) ELSE 0
              /\ refusals' <= MaxRefusals
              /\ cfg' = done.routes
              /\ backoff' = done.backoff
              /\ cursor' = [mail |-> CursorAfter(MarkedAtGate),
                            retry |-> IF retried = {} THEN cursor.retry
                                      ELSE (1 + CHOOSE r \in retried : TRUE) % RouteCount]
              /\ lost' = (lost \ Drained(MarkedAtGate))
                         \cup {r \in behind : TimedOut(drained.routes[r])}
    /\ marked' = MarksLeft(MarkedAtGate)
    /\ link' = [connected |-> holds, latched |-> TRUE]
    /\ UNCHANGED <<built, behind>>

(* onMessageDropped_, and the queue has let the job go.                    *)
onMessageDropped(r) ==
    resetIfNone([routes |-> [cfg EXCEPT ![r] = IdleRoute], backoff |-> backoff])

BuildReady(r) ==
    /\ cfg' = [cfg EXCEPT ![r].building = TRUE, ![r].job = "Built"]
    /\ built' = built \cup {r}
    /\ UNCHANGED <<backoff, lost, refusals>>

BuildLater(r) ==
    /\ refusals < MaxRefusals
    /\ refusals' = refusals + 1
    /\ cfg' = [cfg EXCEPT ![r].building = TRUE]
    /\ UNCHANGED <<backoff, built, lost>>

(* A job nobody wants any more, and a message that cannot be built.        *)
BuildNothing(r) ==
    /\ cfg' = onMessageDropped(r).routes
    /\ backoff' = onMessageDropped(r).backoff
    /\ lost' = lost \cup ({r} \cap behind)
    /\ refusals' = IF cfg[r].pending THEN refusals + 1 ELSE refusals
    /\ UNCHANGED built

buildMessage(r) ==
    /\ link.connected /\ ~Publishing /\ cfg[r].job = "Waiting"
    /\ \/ cfg[r].pending /\ BuildReady(r)
       \/ cfg[r].pending /\ BuildLater(r)
       \/ (cfg[r].pending => refusals < MaxRefusals) /\ BuildNothing(r)
    /\ UNCHANGED <<marked, cursor, link, behind>>

(* onMessagePublished_, after the queue has let the job go.                *)
onMessagePublished(r, ok) ==
    LET released == [routes |-> [cfg EXCEPT ![r].building = FALSE, ![r].job = "None"],
                     backoff |-> backoff]
    IN  IF cfg[r].republish
        THEN enqueueByRoute([released EXCEPT !.routes[r].republish = FALSE], r, ok)
        ELSE resetIfNone([released EXCEPT !.routes[r] =
                [@ EXCEPT !.pending = FALSE, !.needs = FALSE, !.refused = NotRefused]])

Published(r, ok) ==
    LET after == onMessagePublished(r, ok)
        turned == IF link.connected /\ after.routes[r].needs THEN 1 ELSE 0
    IN  /\ cfg[r].job = "Built"
        /\ ~link.connected => ~ok[r]
        /\ refusals + turned <= MaxRefusals
        /\ refusals' = refusals + turned
        /\ cfg' = after.routes
        /\ backoff' = after.backoff
        /\ behind' = IF r \in built THEN behind \ {r} ELSE behind
        /\ lost' = IF r \in built THEN lost \ {r} ELSE lost
        /\ built' = built \ {r}
        /\ UNCHANGED <<marked, cursor, link>>

(* The client refused the message: its job rests in the queue.             *)
Failed(r) ==
    /\ cfg[r].job = "Built"
    /\ link.connected => refusals < MaxRefusals
    /\ refusals' = IF link.connected THEN refusals + 1 ELSE refusals
    /\ cfg' = [cfg EXCEPT ![r].job = "Waiting"]
    /\ built' = built \ {r}
    /\ UNCHANGED <<marked, cursor, backoff, link, behind, lost>>
-----------------------------------------------------------------------------
(* configure() has asked for everything; the broker has nothing.           *)
CfgInit ==
    /\ cfg = [r \in Routes |-> IdleRoute]
    /\ marked = Routes
    /\ cursor = [mail |-> 0, retry |-> 0]
    /\ backoff = Rested
    /\ link = [connected |-> FALSE, latched |-> FALSE]
    /\ built = {}
    /\ behind = Routes
    /\ lost = {}
    /\ refusals = 0

Answers == [Routes -> BOOLEAN]
Ticks == \E e \in {1, GiveUp} : 
    TickWhileDown(e) \/ \E ok \in Answers, holds \in BOOLEAN : Tick(e, ok, holds)
PublishEnds(r) == (\E ok \in Answers : Published(r, ok)) \/ Failed(r)

CfgNext ==
    \/ \E r \in Routes, whole \in BOOLEAN : onEvent(r, whole)
    \/ Connect \/ Disconnect
    \/ Ticks
    \/ \E r \in Routes : buildMessage(r)
    \/ \E r \in Routes : PublishEnds(r)

(* The mqtt task loops, time passing meanwhile, and never holds a message  *)
(* for ever; an accepted message is built (AcceptedAreBuilt of MqttQueue). *)
CfgFairness ==
    /\ WF_cfgVars(\E ok \in Answers : Tick(1, ok, TRUE))
    /\ \A r \in Routes : []<>(cfg[r].job # "Built")
    /\ \A r \in Routes : []<>(~link.connected \/ cfg[r].job # "Waiting")

CfgSpec == CfgInit /\ [][CfgNext]_cfgVars /\ CfgFairness
-----------------------------------------------------------------------------
(* Routes, mailbox and retry keep their types.                             *)
CfgTypeOK ==
    /\ cfg \in [Routes -> RouteState]
    /\ marked \subseteq Routes
    /\ cursor \in [mail : Routes, retry : Routes]
    /\ backoff \in [left : 0..RetryMax, step : 0..RetryMax]
    /\ link \in [connected : BOOLEAN, latched : BOOLEAN]
    /\ built \subseteq Routes /\ behind \subseteq Routes /\ lost \subseteq behind
    /\ refusals \in 0..MaxRefusals

(* A value the broker does not have is on its way, unless it was given up: *)
(* whatever overlaps with the publication of an older value, somebody      *)
(* still remembers to publish the route.                                   *)
NothingForgotten ==
    \A r \in behind \ lost :
        \/ r \in marked
        \/ cfg[r].needs
        \/ cfg[r].job = "Waiting" /\ cfg[r].pending
        \/ cfg[r].job = "Built" /\ (r \in built \/ cfg[r].republish)

(* The flag buildMessage_ looks at has a job or a retry behind it that     *)
(* will clear it; and an accepted request finds it set, so that it is not  *)
(* dropped as unwanted, unless the route has been asked for again.         *)
PendingIsBacked ==
    \A r \in Routes :
        /\ cfg[r].pending => cfg[r].needs \/ cfg[r].job # "None"
        /\ link.connected /\ cfg[r].job # "None" => cfg[r].pending \/ r \in marked

(* No change of a value is forgotten and no flag left without its job.     *)
RoutesSound == CfgTypeOK /\ NothingForgotten /\ PendingIsBacked

(* With a connection that holds, the last change of a value ends at the    *)
(* broker, or is given up.                                                 *)
Quiet(r) == <>[][\A whole \in BOOLEAN : ~onEvent(r, whole)]_cfgVars

ChangesPublished ==
    \A r \in Routes :
        <>[](link.connected) /\ Quiet(r) => <>[](r \notin behind \/ r \in lost)

(* When nothing changes any more the producer comes to rest: republishing  *)
(* what was asked for during a publication does not go on for ever.        *)
AtRest == marked = {} /\ \A r \in Routes : cfg[r].job = "None" /\ ~cfg[r].needs

ComesToRest ==
    <>[](link.connected) /\ (\A r \in Routes : Quiet(r)) => <>[]AtRest
=============================================================================
