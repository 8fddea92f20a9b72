--------------------------- MODULE ModbusScheduler ---------------------------
(***************************************************************************)
(* The arbiter of the RS-485 line: Rs485TransactionScheduler, its clients  *)
(* and the devices that answer.                                            *)
(*                                                                         *)
(* Clients submit, poll and cancel under the mutex; the rs485 task runs    *)
(* tick() under the same mutex, so each is one step.  Between two ticks    *)
(* any amount of time may pass: the task can be late.                      *)
(*                                                                         *)
(* Time is relative.  available is the time left until availableAtMs_, and *)
(* a slot has the time since it was queued (waited, up to Age) and since   *)
(* it was last sent (since, up to Long; a slot never sent counts as Long). *)
(* BusClock has the 32-bit arithmetic.  order_ is the relation older: the  *)
(* pairs of queued slots of which the first has the lower order.           *)
(*                                                                         *)
(* An answer on the wire is tagged with the slot whose request it answers, *)
(* or 0 when that request is over.  The tag is history: the frames carry   *)
(* no identity, and a frame of another request of the same shape decodes.  *)
(*                                                                         *)
(* The operators that no action uses (AnyId, SafetyAges, NothingAges...)   *)
(* are mistakes easily made here, kept beside the definition they would    *)
(* replace: each breaks a property below.                                  *)
(***************************************************************************)
EXTENDS Integers

CONSTANTS
    N,         \* kQueueCapacity
    MaxId,     \* the largest transaction id, after which they start again at 1
    Requests,  \* the requests clients submit
    Age,       \* the wait after which a request goes before all but safety
    Long       \* times since a transmission are not told apart beyond this

Slots == 1..N
Ids == 1..MaxId
Tags == 0..N

Safety == 3
Owners == {r.owner : r \in Requests}

(* The line profile, and how late the device may still answer.             *)
Request == [owner : Nat \ {0}, priority : 0..Safety, retries : Nat, timeout : Nat,
            quiet : Nat, guard : Nat, interval : Nat, latest : Nat]

ASSUME SizeAssumption == N \in Nat \ {0} /\ MaxId \in Nat \ {0} /\ MaxId >= N
ASSUME RequestsAssumption == Requests # {} /\ Requests \subseteq Request
ASSUME AgeAssumption == Age \in Nat
ASSUME LongAssumption ==
    Long \in Nat /\ \A r \in Requests : r.timeout <= Long /\ r.interval <= Long

(* What lateResponseGuardMs must be configured for.                        *)
ASSUME GuardAssumption ==
    \A r \in Requests : r.latest <= r.timeout + r.quiet + r.guard

VARIABLES
    slots,      \* Storage::slots
    older,      \* the order of the queued slots
    active,     \* activeIndex_, or 0
    accepting,  \* accepting_
    nextId,     \* nextTransactionId_
    available,  \* time left before the next transmission
    bus,        \* the transport
    wire,       \* answers still to come, with the time they take
    owed        \* history: time left of the last transmission's interval

vars == <<slots, older, active, accepting, nextId, available, bus, wire, owed>>

L == INSTANCE Rs485Line

Results == {"None", "Ok", "Exception", "Error", "NotReady"}

Slot == [state : {"Free", "Queued", "Active", "Finished"}, id : 0..MaxId,
         req : Requests, attempts : Nat, abandoned : BOOLEAN,
         waited : 0..Age, since : 0..Long,
         result : Results,
         own : BOOLEAN]    \* history: is the response this request's answer

Empty == [state |-> "Free", id |-> 0, req |-> CHOOSE r \in Requests : TRUE,
          attempts |-> 0, abandoned |-> FALSE, waited |-> 0, since |-> Long,
          result |-> "None", own |-> FALSE]

Coming == [to : Tags, left : Nat \ {0}]

InState(sl, st) == {s \in Slots : sl[s].state = st}
Queued(sl) == InState(sl, "Queued")
Outstanding(sl) == InState(sl, "Queued") \cup InState(sl, "Active")

Larger(a, b) == IF a >= b THEN a ELSE b
Lesser(a, b) == IF a <= b THEN a ELSE b
Less(a, b) == IF a >= b THEN a - b ELSE 0
-----------------------------------------------------------------------------
(* Every step keeps the order of the slots that remain queued and the tags *)
(* of the answers whose request goes on.                                   *)
EverythingKept(sl) == older

Kept(sl) == older \cap (Queued(sl) \X Queued(sl))

Tag(t, sl) == IF t \in Outstanding(sl) THEN t ELSE 0

Retagged(b, sl) == [b EXCEPT !.rx = {Tag(t, sl) : t \in b.rx},
                             !.fifo = {Tag(t, sl) : t \in b.fifo}]

Still(answers, sl) == {[to |-> Tag(w.to, sl), left |-> w.left] : w \in answers}

LineIs(b, answers, sl) == bus' = Retagged(b, sl) /\ wire' = Still(answers, sl)
-----------------------------------------------------------------------------
(* Clients.                                                                *)
Used == {slots[s].id : s \in Slots \ InState(slots, "Free")}

AnyId(id) == id = nextId

(* The first id from nextId on, in a circle, that no kept slot bears.      *)
allocateTransactionId(id) ==
    LET steps(i) == (i - nextId) % MaxId
    IN  id \notin Used /\ \A j \in Ids \ Used : steps(id) <= steps(j)

FirstFree(s) == \A t \in InState(slots, "Free") : s <= t

(* A full queue and an arbiter that is off refuse: nothing changes.        *)
submit(r) ==
    \E s \in InState(slots, "Free"), id \in Ids :
        /\ accepting
        /\ FirstFree(s)
        /\ allocateTransactionId(id)
        /\ slots' = [slots EXCEPT ![s] = [Empty EXCEPT !.state = "Queued", !.id = id, !.req = r]]
        /\ older' = older \cup (Queued(slots) \X {s})
        /\ nextId' = (id % MaxId) + 1
        /\ UNCHANGED <<active, accepting, available, bus, wire, owed>>

(* A client that asks in time gets the response once, and the slot is free *)
poll(s) ==
    /\ slots[s].state = "Finished"
    /\ slots' = [slots EXCEPT ![s] = Empty]
    /\ UNCHANGED <<older, active, accepting, nextId, available, bus, wire, owed>>

(* The slot on the line is only marked: its frame is not cut short.        *)
Cancelled(d, current) == IF current THEN [d EXCEPT !.abandoned = TRUE] ELSE Empty

cancelOwner(o) ==
    LET sl == [s \in Slots |->
                 IF slots[s].state # "Free" /\ slots[s].req.owner = o
                 THEN Cancelled(slots[s], s = active) ELSE slots[s]]
    IN  /\ slots' = sl
        /\ older' = Kept(sl)
        /\ LineIs(bus, wire, sl)
        /\ UNCHANGED <<active, accepting, nextId, available, owed>>
-----------------------------------------------------------------------------
(* The task.                                                               *)
(* An arbiter that is switched off fails what is queued.                   *)
Swept(enabled) ==
    [s \in Slots |->
       IF ~enabled /\ slots[s].state = "Queued"
       THEN [slots[s] EXCEPT !.state = "Finished", !.result = "NotReady",
                             !.waited = 0, !.since = 0]
       ELSE slots[s]]

NothingAges(sl, unseen, s) == sl[s].req.priority

SafetyAges(sl, unseen, s) ==
    IF sl[s].waited = Age \/ s \in unseen THEN 3 ELSE sl[s].req.priority

(* A request queued after the task read its clock and before it locked has *)
(* waited nowMs - queuedAtMs, which wraps: it ranks as one that has aged.  *)
Rank(sl, unseen, s) ==
    IF sl[s].req.priority = Safety THEN 4
    ELSE IF sl[s].waited = Age \/ s \in unseen THEN 3 ELSE sl[s].req.priority

Unseen(sl) ==
    {u \in SUBSET {s \in Queued(sl) : sl[s].waited = 0} :
        \A s \in u, t \in Queued(sl) : <<s, t>> \in older => t \in u}

selectNextSlot(sl, unseen, s) ==
    /\ s \in Queued(sl)
    /\ \A t \in Queued(sl) \ {s} :
          \/ Rank(sl, unseen, s) > Rank(sl, unseen, t)
          \/ Rank(sl, unseen, s) = Rank(sl, unseen, t) /\ <<s, t>> \in older

Selectable(sl) == {s \in Slots : \E unseen \in Unseen(sl) : selectNextSlot(sl, unseen, s)}

GuardForgotten(d, guarded) == Larger(d.req.quiet, Less(d.req.interval, d.since))

IntervalForgotten(d, guarded) == d.req.quiet + (IF guarded THEN d.req.guard ELSE 0)

busAvailableAt(d, guarded) ==
    Larger(d.req.quiet + (IF guarded THEN d.req.guard ELSE 0),
           Less(d.req.interval, d.since))

EndedForAll(d, result, own) ==
    [d EXCEPT !.state = "Finished", !.abandoned = FALSE, !.result = result, !.own = own,
              !.attempts = 0, !.waited = 0, !.since = 0]

(* An ended slot keeps its response; its timing is not read again.         *)
Ended(d, result, own) ==
    IF d.abandoned THEN Empty
    ELSE [d EXCEPT !.state = "Finished", !.result = result, !.own = own,
                   !.attempts = 0, !.waited = 0, !.since = 0]

finish(sl, s, result, own, b) ==
    LET ended == [sl EXCEPT ![s] = Ended(sl[s], result, own)]
    IN  /\ slots' = ended
        /\ older' = Kept(ended)
        /\ active' = 0
        /\ available' = busAvailableAt(sl[s], result # "Ok" \/ sl[s].abandoned)
        /\ LineIs(b, wire, ended)

MoreThanAsked(d, enabled) == enabled /\ ~d.abandoned /\ d.attempts <= d.req.retries

RetriedWhileOff(d, enabled) == ~d.abandoned /\ d.attempts < d.req.retries

Retried(d, enabled) == enabled /\ ~d.abandoned /\ d.attempts < d.req.retries

retryOrFinish(enabled, sl, s, b) ==
    LET again == [sl EXCEPT ![s].state = "Queued", ![s].attempts = @ + 1]
    IN  IF Retried(sl[s], enabled)
        THEN /\ slots' = again
             /\ older' = Kept(sl) \cup (Queued(sl) \X {s})
             /\ active' = 0
             /\ available' = busAvailableAt(sl[s], TRUE)
             /\ LineIs(L!Aborted(b), wire, again)
        ELSE finish(sl, s, "Error", FALSE, L!Aborted(b))
-----------------------------------------------------------------------------
(* tick() with activeIndex_ < 0.                                           *)
Ready(b, sl) == active = 0 /\ available = 0 /\ L!quiet(b) /\ Queued(sl) # {}

Wait(enabled, sl, b) ==
    /\ active = 0
    /\ ~Ready(b, sl)
    /\ slots' = sl
    /\ older' = Kept(sl)
    /\ LineIs(b, wire, sl)
    /\ UNCHANGED <<active, available, owed>>

(* The device answers after some time, or never.                           *)
Answers(s, r) == {{}} \cup {{[to |-> s, left |-> d]} : d \in 1..r.latest}

Send(sl, b) ==
    \E s \in Selectable(sl) :
      LET onAir == [sl EXCEPT ![s].state = "Active", ![s].since = 0]
      IN  /\ Ready(b, sl)
          /\ L!Startable(b)
          /\ slots' = onAir
          /\ older' = Kept(onAir)
          /\ active' = s
          /\ bus' = Retagged(L!Started(b), onAir)
          /\ \E answer \in Answers(s, sl[s].req) : wire' = Still(wire, onAir) \cup answer
          /\ owed' = sl[s].req.interval
          /\ UNCHANGED available

(* The UART refuses the line profile or takes only a part of the frame.    *)
SendFails(sl, b) ==
    /\ Ready(b, sl)
    /\ \E s \in Selectable(sl) : finish(sl, s, "Error", FALSE, b)
    /\ UNCHANGED owed

(* tick() with a transaction on the line.  A frame with one answer decodes *)
(* whoever it answers, or does not; one with two never does.               *)
Answered(sl, b) ==
    /\ active # 0 /\ b.frame
    /\ \E t \in b.rx : b.rx = {t}
    /\ \E result \in {"Ok", "Exception"} :
          finish(sl, active, result, b.rx = {active}, L!Taken(b))
    /\ UNCHANGED owed

Refused(enabled, sl, b) ==
    /\ active # 0 /\ b.frame
    /\ retryOrFinish(enabled, sl, active, b)
    /\ UNCHANGED owed

Late(sl, b) == sl[active].since >= sl[active].req.timeout /\ ~L!receivingFrame(b)

TimedOut(enabled, sl, b) ==
    /\ active # 0 /\ ~b.frame
    /\ Late(sl, b)
    /\ retryOrFinish(enabled, sl, active, b)
    /\ UNCHANGED owed

Listen(sl, b) ==
    /\ active # 0 /\ ~b.frame
    /\ ~Late(sl, b)
    /\ slots' = sl
    /\ older' = Kept(sl)
    /\ LineIs(b, wire, sl)
    /\ UNCHANGED <<active, available, owed>>

tick(enabled, sent) ==
    LET sl == Swept(enabled)
        b == L!Ticked(bus, sent)
    IN  /\ accepting' = enabled
        /\ UNCHANGED nextId
        /\ \/ Wait(enabled, sl, b)
           \/ Send(sl, b)
           \/ SendFails(sl, b)
           \/ Answered(sl, b)
           \/ Refused(enabled, sl, b)
           \/ TimedOut(enabled, sl, b)
           \/ Listen(sl, b)

Tick == \E enabled, sent \in BOOLEAN : tick(enabled, sent)
-----------------------------------------------------------------------------
(* A unit of time: the answers that are due reach the UART.                *)
Aged(d) ==
    IF d.state \in {"Queued", "Active"}
    THEN [d EXCEPT !.waited = Lesser(Age, @ + 1), !.since = Lesser(Long, @ + 1)]
    ELSE d

Elapse ==
    LET due == {w \in wire : w.left = 1}
    IN  /\ slots' = [s \in Slots |-> Aged(slots[s])]
        /\ available' = Less(available, 1)
        /\ owed' = Less(owed, 1)
        /\ wire' = {[w EXCEPT !.left = @ - 1] : w \in wire \ due}
        /\ bus' = L!Heard(bus, {w.to : w \in due})
        /\ UNCHANGED <<older, active, accepting, nextId>>
-----------------------------------------------------------------------------
Init ==
    /\ slots = [s \in Slots |-> Empty]
    /\ older = {}
    /\ active = 0
    /\ accepting = TRUE
    /\ nextId = 1
    /\ available = 0
    /\ bus = L!Begun
    /\ wire = {}
    /\ owed = 0

Next ==
    \/ \E r \in Requests : submit(r)
    \/ \E s \in Slots : poll(s)
    \/ \E o \in Owners : cancelOwner(o)
    \/ Tick
    \/ Elapse

(* The rs485 task loops and time passes; no client is obliged to anything. *)
Fairness == WF_vars(Tick) /\ WF_vars(Elapse)

Spec == Init /\ [][Next]_vars /\ Fairness
-----------------------------------------------------------------------------
(* The types of the state; no request is sent more often than it allows.   *)
TypeOK ==
    /\ slots \in [Slots -> Slot]
    /\ \A s \in Slots : slots[s].attempts <= slots[s].req.retries
    /\ older \subseteq Slots \X Slots
    /\ active \in Tags
    /\ accepting \in BOOLEAN
    /\ nextId \in Ids
    /\ available \in Nat
    /\ bus \in L!Line(Tags)
    /\ wire \subseteq Coming
    /\ owed \in Nat

(* The slot on the line is the only active one, the only one that can be   *)
(* abandoned, and without one the transport is at rest: no path of finish_ *)
(* or retryOrFinish_ leaves a line that refuses the next request.          *)
OneOnTheLine ==
    /\ \A s \in Slots : slots[s].state = "Active" <=> active = s
    /\ \A s \in Slots : slots[s].abandoned => active = s
    /\ active = 0 => L!Startable(bus)

(* A client's id names its transaction alone, through the wrap of the      *)
(* sequence and however long finished slots wait for their client.         *)
IdsUnique ==
    \A s, t \in Slots :
        /\ slots[s].state # "Free" => slots[s].id \in Ids
        /\ /\ slots[s].state # "Free" /\ slots[t].state # "Free"
           /\ slots[s].id = slots[t].id
           => s = t

(* The queue has one first slot whatever is cancelled, retried or refused: *)
(* the order is total and has no cycle.                                    *)
QueueOrdered ==
    LET q == Queued(slots)
    IN  /\ older \subseteq q \X q
        /\ \A s, t \in q : s # t <=> (<<s, t>> \in older \/ <<t, s>> \in older)
        /\ \A s, t, u \in q : <<s, t>> \in older /\ <<t, u>> \in older => <<s, u>> \in older

(* An arbiter that is off has nothing left to send: no submission, retry   *)
(* or cancellation puts a request back in its queue.                       *)
OffMeansEmpty == ~accepting => Queued(slots) = {}

(* The arbiter's tables agree whatever is submitted, cancelled, retried or *)
(* lost: the one transaction on the line, the ids, the queue.              *)
TablesAgree == OneOnTheLine /\ IdsUnique /\ QueueOrdered /\ OffMeansEmpty

(* A response a client can take is its own request's answer: an answer     *)
(* that comes after the time-out, the exception, the failure or the        *)
(* cancellation of its request never completes another one.                *)
AnswersMatch ==
    \A s \in Slots : slots[s].state = "Finished" /\ slots[s].result = "Ok" => slots[s].own

(* The clients' view: an abandoned transaction no longer exists.           *)
Known(s) == slots[s].state # "Free" /\ ~slots[s].abandoned

Transactions ==
    [i \in Ids |->
       IF \E s \in Slots : Known(s) /\ slots[s].id = i
       THEN LET s == CHOOSE x \in Slots : Known(x) /\ slots[x].id = i
            IN  [owner |-> slots[s].req.owner,
                 phase |-> IF slots[s].state = "Finished" THEN "Done" ELSE "Pending"]
       ELSE [owner |-> 0, phase |-> "None"]]

M == INSTANCE ModbusMaster WITH transactions <- Transactions

(* The slots, their ids and the deferred cancellation of the transaction   *)
(* on the line implement the promise of ModbusMaster.                      *)
ImplementsModbusMaster == M!Spec

Transmits == bus.state # "Transmitting" /\ bus'.state = "Transmitting"

(* Two transmissions are at least minimumRequestIntervalMs of the first    *)
(* apart, whatever happens to the request in between.                      *)
Spaced == [][Transmits => owed = 0]_vars

Waits(t) == slots[t].state = "Queued"

Chosen(s) == active # s /\ active' = s

(* While a safety request waits nothing else is put on the line.           *)
SafetyFirst ==
    [][\A s, t \in Slots :
         Chosen(s) /\ Waits(t) /\ slots'[t].state = "Queued"
         /\ slots[t].req.priority = Safety => slots[s].req.priority = Safety]_vars

(* What goes on the line waits for its pace and for safety requests.       *)
SentInTurn == Spaced /\ SafetyFirst

(* Every request ends, unless requests of safety priority keep coming:     *)
(* neither retries nor the priority of others starve it.                   *)
Pending(s) == s \in Outstanding(slots)
SafetyElsewhere(s) == \E t \in Slots \ {s} : Pending(t) /\ slots[t].req.priority = Safety

RequestsEnd ==
    \A s \in Slots :
        Pending(s) ~> ~Pending(s) \/ (slots[s].req.priority # Safety /\ SafetyElsewhere(s))
=============================================================================
