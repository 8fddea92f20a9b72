------------------------ MODULE ModbusSchedulerProofs ------------------------
(***************************************************************************)
(* Theorems about ModbusScheduler for every number of slots and ids, every *)
(* set of requests and every line profile whose guard covers its device.   *)
(***************************************************************************)
EXTENDS ModbusScheduler, TLAPS

LEMMA EmptyType == Empty \in Slot /\ Empty.attempts = 0 /\ Empty.req \in Requests
<1>1. (CHOOSE r \in Requests : TRUE) \in Requests
  BY RequestsAssumption
<1> QED BY <1>1, AgeAssumption, LongAssumption, SizeAssumption DEF Empty, Slot, Results

LEMMA Profile ==
  ASSUME NEW r \in Requests
  PROVE  /\ r.timeout \in Nat /\ r.quiet \in Nat /\ r.guard \in Nat /\ r.interval \in Nat
         /\ r.latest \in Nat /\ r.retries \in Nat
         /\ r.timeout <= Long /\ r.interval <= Long
         /\ r.latest <= r.timeout + r.quiet + r.guard
  BY RequestsAssumption, LongAssumption, GuardAssumption DEF Request
-----------------------------------------------------------------------------
(* The transport.  At rest means that it takes a request; no frame waits.  *)
Resting(b) == b \in L!Line(Tags) /\ ~b.frame

LEMMA TickedLine ==
  ASSUME NEW b, Resting(b), NEW sent \in BOOLEAN
  PROVE  /\ L!Ticked(b, sent) \in L!Line(Tags)
         /\ L!Ticked(b, sent).frame =>
              L!Ticked(b, sent).state = "Idle" /\ L!Ticked(b, sent).rx # {}
         /\ b.state = "Idle" => L!Startable(L!Ticked(b, sent))
         /\ L!Ticked(b, sent).rx \cup L!Ticked(b, sent).fifo \subseteq b.rx \cup b.fifo
         /\ b.state # "Transmitting" => L!Ticked(b, sent).state # "Transmitting"
<1> DEFINE d == L!Drained(b)
           t == L!Turned(d, sent)
<1>1. /\ d \in L!Line(Tags) /\ ~d.frame /\ d.state = b.state
      /\ d.rx = b.rx /\ d.fifo \subseteq b.fifo
  BY DEF Resting, L!Line, L!Drained
<1>2. /\ t \in L!Line(Tags) /\ ~t.frame /\ t.rx = d.rx /\ t.fifo = d.fifo
      /\ b.state = "Idle" => t.state = "Idle"
      /\ b.state # "Transmitting" => t.state # "Transmitting"
  BY <1>1 DEF L!Line, L!Turned
<1> HIDE DEF d, t
<1>3. /\ L!Read(t) \in L!Line(Tags)
      /\ L!Read(t).frame => L!Read(t).state = "Idle" /\ L!Read(t).rx # {}
      /\ b.state = "Idle" => L!Startable(L!Read(t))
      /\ L!Read(t).rx \cup L!Read(t).fifo \subseteq t.rx \cup t.fifo
      /\ t.state # "Transmitting" => L!Read(t).state # "Transmitting"
  BY <1>2 DEF L!Line, L!Read, L!Startable
<1>4. L!Ticked(b, sent) = L!Read(t)
  BY DEF L!Ticked, t, d
<1> QED BY <1>1, <1>2, <1>3, <1>4

LEMMA RetaggedLine ==
  ASSUME NEW b \in L!Line(Tags), NEW sl
  PROVE  /\ Retagged(b, sl) \in L!Line(Tags)
         /\ Retagged(b, sl).state = b.state /\ Retagged(b, sl).frame = b.frame
         /\ Retagged(b, sl).rx = {Tag(t, sl) : t \in b.rx}
         /\ Retagged(b, sl).fifo = {Tag(t, sl) : t \in b.fifo}
<1>1. \A t \in Tags : Tag(t, sl) \in Tags
  BY SizeAssumption DEF Tag, Tags
<1>2. {Tag(t, sl) : t \in b.rx} \subseteq Tags /\ {Tag(t, sl) : t \in b.fifo} \subseteq Tags
  BY <1>1 DEF L!Line
<1> QED BY <1>2 DEF Retagged, L!Line

LEMMA StillComing ==
  ASSUME NEW w, w \subseteq Coming, NEW sl
  PROVE  /\ Still(w, sl) \subseteq Coming
         /\ \A x \in Still(w, sl) : \E y \in w : x.left = y.left /\ x.to = Tag(y.to, sl)
         /\ w = {} => Still(w, sl) = {}
         /\ (\A x, y \in w : x = y) => \A x, y \in Still(w, sl) : x = y
<1>1. \A t \in Tags : Tag(t, sl) \in Tags
  BY SizeAssumption DEF Tag, Tags
<1>2. \A y \in w : [to |-> Tag(y.to, sl), left |-> y.left] \in Coming
  BY <1>1 DEF Coming
<1> QED BY <1>2 DEF Still
-----------------------------------------------------------------------------
(* The slots.                                                              *)
SlotsOK(sl) ==
    /\ sl \in [Slots -> Slot]
    /\ \A s \in Slots : sl[s].attempts <= sl[s].req.retries

OnLine(sl, a) ==
    \A s \in Slots : /\ sl[s].state = "Active" <=> a = s
                     /\ sl[s].abandoned => a = s

IdsOK(sl) ==
    \A s, t \in Slots :
        /\ sl[s].state # "Free" => sl[s].id \in Ids
        /\ sl[s].state # "Free" /\ sl[t].state # "Free" /\ sl[s].id = sl[t].id => s = t

AnswersOK(sl) ==
    \A s \in Slots : sl[s].state = "Finished" /\ sl[s].result = "Ok" => sl[s].own

(* Between transactions every answer still to come arrives before the line *)
(* is available again; during one there is at most the answer to its own   *)
(* request, on the wire or in the transport.                               *)
WireOK(sl, a, av, b, w) ==
    /\ a = 0 => \A x \in w : x.left <= av
    /\ a # 0 => /\ \A x \in w : x.to = a /\ x.left + sl[a].since <= sl[a].req.latest
                /\ \A x, y \in w : x = y
                /\ b.rx \cup b.fifo \subseteq {a}
                /\ b.rx \cup b.fifo # {} => w = {}

(* The interval of the last transmission is over when the line is next     *)
(* available.                                                              *)
PaceOK(sl, a, av, o) ==
    /\ a = 0 => o <= av
    /\ a # 0 => o <= Less(sl[a].req.interval, sl[a].since)

SweptState(sl, enabled) ==
    \A s \in Slots :
       sl[s] = slots[s] \/ (~enabled /\ slots[s].state = "Queued" /\ sl[s].state = "Finished"
                            /\ sl[s].result = "NotReady" /\ sl[s].req = slots[s].req
                            /\ sl[s].id = slots[s].id /\ sl[s].abandoned = slots[s].abandoned)

LEMMA SweptSlots ==
  ASSUME SlotsOK(slots), NEW enabled \in BOOLEAN
  PROVE  /\ SlotsOK(Swept(enabled)) /\ SweptState(Swept(enabled), enabled)
         /\ ~enabled => Queued(Swept(enabled)) = {}
<1>1. \A s \in Slots : slots[s] \in Slot
  BY DEF SlotsOK
<1>2. Swept(enabled) \in [Slots -> Slot]
  <2>1. 0 \in 0..Age /\ 0 \in 0..Long
    BY LongAssumption, AgeAssumption
  <2>2. ASSUME NEW s \in Slots
        PROVE  [slots[s] EXCEPT !.state = "Finished", !.result = "NotReady",
                                !.waited = 0, !.since = 0] \in Slot
    BY <1>1, <2>1 DEF Slot, Results
  <2> QED BY <1>1, <2>2 DEF Swept
<1>3. \A s \in Slots : Swept(enabled)[s].attempts <= Swept(enabled)[s].req.retries
  BY <1>1 DEF Swept, SlotsOK, Slot
<1>4. SweptState(Swept(enabled), enabled)
  BY <1>1 DEF Swept, SweptState, Slot
<1>5. ~enabled => Queued(Swept(enabled)) = {}
  BY <1>1 DEF Swept, Queued, InState, Slot
<1> QED BY <1>2, <1>3, <1>4, <1>5 DEF SlotsOK

LEMMA SweptInvariant ==
  ASSUME SlotsOK(slots), OnLine(slots, active), IdsOK(slots), AnswersOK(slots),
         NEW enabled \in BOOLEAN
  PROVE  /\ OnLine(Swept(enabled), active) /\ IdsOK(Swept(enabled))
         /\ AnswersOK(Swept(enabled))
         /\ active \in Slots => Swept(enabled)[active] = slots[active]
<1> DEFINE sl == Swept(enabled)
<1>1. SweptState(sl, enabled)
  BY SweptSlots
<1> HIDE DEF sl
<1>2. OnLine(sl, active)
  BY <1>1 DEF OnLine, SweptState
<1>3. IdsOK(sl)
  BY <1>1 DEF IdsOK, SweptState
<1>4. AnswersOK(sl)
  BY <1>1 DEF AnswersOK, SweptState
<1>5. active \in Slots => sl[active] = slots[active]
  BY <1>1 DEF SweptState, OnLine
<1> QED BY <1>2, <1>3, <1>4, <1>5 DEF sl
-----------------------------------------------------------------------------
(* The inductive invariant.                                                *)
IInv ==
    /\ SlotsOK(slots) /\ OnLine(slots, active) /\ IdsOK(slots) /\ AnswersOK(slots)
    /\ older \subseteq Slots \X Slots
    /\ active \in Tags /\ accepting \in BOOLEAN /\ nextId \in Ids
    /\ available \in Nat /\ owed \in Nat
    /\ Resting(bus) /\ (active = 0 => L!Startable(bus))
    /\ wire \subseteq Coming
    /\ OffMeansEmpty
    /\ WireOK(slots, active, available, bus, wire)
    /\ PaceOK(slots, active, available, owed)

LEMMA InitIInv == Init => IInv
<1> SUFFICES ASSUME Init PROVE IInv
  OBVIOUS
<1>1. \A s \in Slots : slots[s] = Empty
  BY DEF Init
<1>2. SlotsOK(slots)
  BY <1>1, EmptyType, Profile DEF Init, SlotsOK
<1>3. OnLine(slots, active) /\ IdsOK(slots) /\ AnswersOK(slots) /\ OffMeansEmpty
  BY <1>1 DEF Init, OnLine, IdsOK, AnswersOK, OffMeansEmpty, Queued, InState, Empty, Slots
<1>4. Resting(bus) /\ L!Startable(bus)
  BY DEF Init, Resting, L!Begun, L!Line, L!Startable
<1>5. WireOK(slots, active, available, bus, wire) /\ PaceOK(slots, active, available, owed)
  BY DEF Init, WireOK, PaceOK
<1> QED BY <1>2, <1>3, <1>4, <1>5, SizeAssumption DEF Init, IInv, Tags, Ids, Coming

(* How long the line is kept after a transaction.                          *)
LEMMA KeptFor ==
  ASSUME NEW d \in Slot, NEW guarded \in BOOLEAN
  PROVE  /\ busAvailableAt(d, guarded) \in Nat
         /\ busAvailableAt(d, guarded) >= Less(d.req.interval, d.since)
         /\ guarded => busAvailableAt(d, guarded) >= d.req.quiet + d.req.guard
         /\ Less(d.req.interval, d.since) \in Nat
<1>1. d.req \in Requests /\ d.since \in Nat
  BY LongAssumption DEF Slot
<1>2. d.req.quiet \in Nat /\ d.req.guard \in Nat /\ d.req.interval \in Nat
  BY <1>1, Profile
<1> QED BY <1>1, <1>2 DEF busAvailableAt, Less, Larger

LEMMA EndedType ==
  ASSUME NEW d \in Slot, NEW result \in {"Ok", "Exception", "Error"}, NEW own \in BOOLEAN
  PROVE  /\ Ended(d, result, own) \in Slot
         /\ Ended(d, result, own).attempts = 0
         /\ Ended(d, result, own).state \in {"Free", "Finished"}
         /\ ~Ended(d, result, own).abandoned
         /\ Ended(d, result, own).state # "Free" =>
               /\ Ended(d, result, own).id = d.id
               /\ Ended(d, result, own).result = result
               /\ Ended(d, result, own).own = own
<1>1. 0 \in 0..Age /\ 0 \in 0..Long /\ 0 \in Nat
  BY LongAssumption, AgeAssumption
<1>2. CASE d.abandoned
  BY <1>2, EmptyType DEF Ended, Empty
<1>3. CASE ~d.abandoned
  BY <1>1, <1>3 DEF Ended, Slot, Results
<1> QED BY <1>2, <1>3

(* finish_ from any slot that holds a transaction.                         *)
LEMMA FinishIInv ==
  ASSUME IInv, NEW sl, SlotsOK(sl), OnLine(sl, active), IdsOK(sl), AnswersOK(sl),
         NEW enabled \in BOOLEAN, ~enabled => Queued(sl) = {},
         accepting' = enabled, nextId' = nextId, owed' = owed,
         NEW s \in Slots, active \in {0, s}, sl[s].state # "Free",
         NEW result \in {"Ok", "Exception", "Error"}, NEW own \in BOOLEAN,
         result = "Ok" => own,
         NEW b \in L!Line(Tags), L!Startable(b),
         \A x \in wire : x.left <= busAvailableAt(sl[s], result # "Ok" \/ sl[s].abandoned),
         owed <= busAvailableAt(sl[s], result # "Ok" \/ sl[s].abandoned),
         finish(sl, s, result, own, b)
  PROVE  IInv'
<1> DEFINE e == Ended(sl[s], result, own)
           n == [sl EXCEPT ![s] = e]
           av == busAvailableAt(sl[s], result # "Ok" \/ sl[s].abandoned)
<1>1. sl[s] \in Slot /\ (result # "Ok" \/ sl[s].abandoned) \in BOOLEAN
  BY DEF SlotsOK, Slot
<1>2. /\ e \in Slot /\ e.attempts = 0 /\ e.state \in {"Free", "Finished"} /\ ~e.abandoned
      /\ e.state # "Free" => e.id = sl[s].id /\ e.result = result /\ e.own = own
  <2>1. e \in Slot
    BY <1>1, EndedType, Z3T(30)
  <2>2. e.attempts = 0
    BY <1>1, EndedType, Z3T(30)
  <2>3. e.state \in {"Free", "Finished"} /\ ~e.abandoned
    BY <1>1, EndedType
  <2>4. e.state # "Free" => e.id = sl[s].id /\ e.result = result
    BY <1>1 DEF Ended, Empty, Slot
  <2>5. e.state # "Free" => e.own = own
    BY <1>1, EndedType, Z3T(30)
  <2> QED BY <2>1, <2>2, <2>3, <2>4, <2>5
<1>3. av \in Nat
  BY <1>1, KeptFor
<1>4. /\ slots' = n /\ older' = Kept(n) /\ active' = 0 /\ available' = av
      /\ bus' = Retagged(b, n) /\ wire' = Still(wire, n)
  BY DEF finish, LineIs
<1> HIDE DEF e, av
<1>5. n \in [Slots -> Slot] /\ n[s] = e /\ \A t \in Slots \ {s} : n[t] = sl[t]
  BY <1>2 DEF SlotsOK
<1> HIDE DEF n
<1>6. SlotsOK(n)
  <2>1. e.req \in Requests
    BY <1>2 DEF Slot
  <2>2. e.attempts <= e.req.retries
    BY <1>2, <2>1, Profile
  <2> QED BY <1>5, <2>2 DEF SlotsOK
<1>7. OnLine(n, 0)
  BY <1>2, <1>5, SizeAssumption DEF OnLine, Slots
<1>8. IdsOK(n)
  BY <1>2, <1>5 DEF IdsOK
<1>9. AnswersOK(n)
  BY <1>2, <1>5 DEF AnswersOK
<1>10. older' \subseteq Slots \X Slots
  BY <1>4 DEF Kept, IInv
<1>11. ~enabled => Queued(n) = {}
  BY <1>2, <1>5 DEF Queued, InState
<1>12. Resting(bus') /\ L!Startable(bus')
  BY <1>4, RetaggedLine DEF Resting, L!Startable
<1>13. wire' \subseteq Coming /\ \A x \in wire' : x.left <= av
  BY <1>4, StillComing DEF IInv, av
<1>14. WireOK(n, 0, av, bus', wire')
  BY <1>13 DEF WireOK
<1>15. PaceOK(n, 0, av, owed')
  BY DEF PaceOK, av
<1>16. 0 \in Tags
  BY SizeAssumption DEF Tags
<1> QED
  BY <1>3, <1>4, <1>6, <1>7, <1>8, <1>9, <1>10, <1>11, <1>12, <1>13, <1>14, <1>15, <1>16
     DEF IInv, OffMeansEmpty
-----------------------------------------------------------------------------
(* The steps of tick(), for any slots sl that OFF has swept and any line b.*)
LEMMA RetryIInv ==
  ASSUME IInv, NEW sl, SlotsOK(sl), OnLine(sl, active), IdsOK(sl), AnswersOK(sl),
         NEW enabled \in BOOLEAN, ~enabled => Queued(sl) = {},
         accepting' = enabled, nextId' = nextId, owed' = owed,
         active \in Slots, NEW b,
         \A x \in wire : x.left <= sl[active].req.quiet + sl[active].req.guard,
         owed <= Less(sl[active].req.interval, sl[active].since),
         retryOrFinish(enabled, sl, active, b)
  PROVE  IInv'
<1> DEFINE d == sl[active]
           aborted == L!Aborted(b)
<1>1. d \in Slot /\ d.state = "Active" /\ d.req \in Requests /\ d.attempts \in Nat
      /\ d.abandoned \in BOOLEAN
  BY DEF SlotsOK, OnLine, Slot
<1>2. d.req.quiet \in Nat /\ d.req.guard \in Nat /\ d.req.retries \in Nat
  BY <1>1, Profile
<1>3. aborted \in L!Line(Tags) /\ L!Startable(aborted)
  BY DEF L!Aborted, L!Begun, L!Line, L!Startable
<1>4. /\ \A guarded \in BOOLEAN : owed <= busAvailableAt(d, guarded)
      /\ \A x \in wire : x.left <= busAvailableAt(d, TRUE)
      /\ busAvailableAt(d, TRUE) \in Nat
  <2>1. busAvailableAt(d, TRUE) \in Nat /\ busAvailableAt(d, TRUE) >= d.req.quiet + d.req.guard
    BY <1>1, KeptFor
  <2>2. ASSUME NEW guarded \in BOOLEAN PROVE owed <= busAvailableAt(d, guarded)
    BY <1>1, KeptFor DEF IInv
  <2>3. ASSUME NEW x \in wire PROVE x.left <= busAvailableAt(d, TRUE)
    <3>1. x.left \in Nat
      BY <2>3 DEF IInv, Coming
    <3>2. x.left <= d.req.quiet + d.req.guard
      BY <2>3
    <3> DEFINE av == busAvailableAt(d, TRUE)
               q == d.req.quiet
               g == d.req.guard
    <3>3. av \in Nat /\ av >= q + g /\ q \in Nat /\ g \in Nat /\ x.left <= q + g
      BY <1>2, <2>1, <3>2
    <3> HIDE DEF d, av, q, g
    <3>4. x.left <= av
      BY <3>1, <3>3
    <3> QED BY <3>4 DEF av
  <2> QED BY <2>1, <2>2, <2>3
<1>5. CASE ~Retried(d, enabled)
  <2>1. finish(sl, active, "Error", FALSE, aborted)
    BY <1>5 DEF retryOrFinish
  <2>2. ("Error" # "Ok" \/ d.abandoned) = TRUE
    BY <1>1
  <2>3. sl[active].state # "Free"
    BY <1>1
  <2> HIDE DEF aborted
  <2> QED BY <1>1, <1>3, <1>4, <2>1, <2>2, <2>3, FinishIInv
<1>6. CASE Retried(d, enabled)
  <2> DEFINE n == [sl EXCEPT ![active].state = "Queued", ![active].attempts = @ + 1]
  <2>1. /\ slots' = n /\ older' = Kept(sl) \cup (Queued(sl) \X {active})
        /\ active' = 0 /\ available' = busAvailableAt(d, TRUE)
        /\ bus' = Retagged(aborted, n) /\ wire' = Still(wire, n)
    BY <1>6 DEF retryOrFinish, LineIs
  <2>2. enabled /\ ~d.abandoned /\ d.attempts < d.req.retries
    BY <1>6 DEF Retried
  <2>3. /\ n \in [Slots -> Slot] /\ \A t \in Slots \ {active} : n[t] = sl[t]
        /\ n[active].state = "Queued" /\ n[active].attempts = d.attempts + 1
        /\ n[active].id = sl[active].id /\ n[active].req = d.req
        /\ ~n[active].abandoned
    <3> DEFINE e == [d EXCEPT !.state = "Queued", !.attempts = d.attempts + 1]
    <3>1. n = [sl EXCEPT ![active] = e]
      BY <1>1 DEF SlotsOK, Slot
    <3>2. /\ e \in Slot /\ e.state = "Queued" /\ e.attempts = d.attempts + 1
          /\ e.id = d.id /\ e.req = d.req
      <4>1. d.attempts + 1 \in Nat
        BY <1>1
      <4> QED BY <1>1, <4>1 DEF Slot
    <3>3. ~e.abandoned
      BY <1>1, <2>2 DEF Slot
    <3> HIDE DEF e, n
    <3> QED BY <3>1, <3>2, <3>3 DEF SlotsOK
  <2> HIDE DEF n
  <2>4. SlotsOK(n)
    <3>1. n[active].attempts <= n[active].req.retries
      BY <1>1, <1>2, <2>2, <2>3 DEF Slot
    <3> QED BY <2>3, <3>1 DEF SlotsOK
  <2>5. OnLine(n, 0)
    BY <2>3, SizeAssumption DEF OnLine, Slots
  <2>6. IdsOK(n)
    <3>1. \A t \in Slots : n[t].id = sl[t].id /\ (n[t].state = "Free" <=> sl[t].state = "Free")
      BY <1>1, <2>3
    <3> QED BY <3>1 DEF IdsOK
  <2>7. AnswersOK(n)
    BY <2>3 DEF AnswersOK
  <2>8. older' \subseteq Slots \X Slots
    BY <2>1 DEF Kept, Queued, InState, IInv
  <2>9. Resting(bus') /\ L!Startable(bus')
    BY <1>3, <2>1, RetaggedLine DEF Resting, L!Startable
  <2>10. wire' \subseteq Coming /\ \A x \in wire' : x.left <= available'
    <3>1. wire' \subseteq Coming
      BY <2>1, StillComing DEF IInv
    <3>2. ASSUME NEW x \in wire' PROVE x.left <= available'
      <4>1. PICK y \in wire : x.left = y.left
        BY <2>1, <3>2, StillComing DEF IInv
      <4> QED BY <1>4, <2>1, <4>1
    <3> QED BY <3>1, <3>2
  <2>11. WireOK(n, 0, available', bus', wire') /\ PaceOK(n, 0, available', owed')
    BY <1>4, <2>1, <2>10 DEF WireOK, PaceOK
  <2>12. 0 \in Tags
    BY SizeAssumption DEF Tags
  <2> QED BY <1>4, <2>1, <2>2, <2>4, <2>5, <2>6, <2>7, <2>8, <2>9, <2>10, <2>11, <2>12
          DEF IInv, OffMeansEmpty
<1> QED BY <1>5, <1>6

(* What is heard of the transaction on the line is still its own answer.   *)
LEMMA OwnAnswer ==
  ASSUME NEW a \in Slots, NEW sl, sl[a].state = "Active",
         NEW old, sl[a].req = old[a].req, sl[a].since = old[a].since,
         NEW av, NEW av2, NEW b0, NEW b \in L!Line(Tags), NEW w, w \subseteq Coming,
         b.rx \cup b.fifo \subseteq b0.rx \cup b0.fifo,
         WireOK(old, a, av, b0, w)
  PROVE  WireOK(sl, a, av2, Retagged(b, sl), Still(w, sl))
<1>1. a # 0 /\ Tag(a, sl) = a
  BY SizeAssumption DEF Slots, Tag, Outstanding, InState
<1>2. /\ \A x \in w : x.to = a /\ x.left + old[a].since <= old[a].req.latest
      /\ \A x, y \in w : x = y
      /\ b0.rx \cup b0.fifo \subseteq {a}
      /\ b0.rx \cup b0.fifo # {} => w = {}
  BY <1>1 DEF WireOK
<1>3. \A x \in Still(w, sl) : x.to = a /\ x.left + sl[a].since <= sl[a].req.latest
  BY <1>1, <1>2, StillComing
<1>4. \A x, y \in Still(w, sl) : x = y
  BY <1>2, StillComing
<1>5. b.rx \subseteq {a} /\ b.fifo \subseteq {a}
  BY <1>2
<1>6. Retagged(b, sl).rx = b.rx /\ Retagged(b, sl).fifo = b.fifo
  <2>1. \A t \in {a} : Tag(t, sl) = t
    BY <1>1
  <2>2. {Tag(t, sl) : t \in b.rx} = b.rx
    BY <1>5, <2>1
  <2>3. {Tag(t, sl) : t \in b.fifo} = b.fifo
    BY <1>5, <2>1
  <2> QED BY <2>2, <2>3, RetaggedLine
<1>7. b.rx \cup b.fifo # {} => Still(w, sl) = {}
  BY <1>2, StillComing
<1> QED BY <1>1, <1>3, <1>4, <1>5, <1>6, <1>7 DEF WireOK

(* A step that only listens, waits or takes slots out of the queue.        *)
LEMMA KeepIInv ==
  ASSUME IInv, NEW sl, SlotsOK(sl), OnLine(sl, active), IdsOK(sl), AnswersOK(sl),
         active \in Slots => /\ sl[active].req = slots[active].req
                            /\ sl[active].since = slots[active].since,
         NEW enabled \in BOOLEAN, ~enabled => Queued(sl) = {},
         accepting' = enabled, NEW b, Resting(b), active = 0 => L!Startable(b),
         b.rx \cup b.fifo \subseteq bus.rx \cup bus.fifo,
         slots' = sl, older' = Kept(sl), LineIs(b, wire, sl),
         UNCHANGED <<active, available, owed, nextId>>
  PROVE  IInv'
<1>1. bus' = Retagged(b, sl) /\ wire' = Still(wire, sl) /\ b \in L!Line(Tags) /\ ~b.frame
  BY DEF LineIs, Resting
<1>2. Resting(bus') /\ (active' = 0 => L!Startable(bus'))
  BY <1>1, RetaggedLine DEF Resting, L!Startable
<1>3. wire' \subseteq Coming
  BY <1>1, StillComing DEF IInv
<1>4. WireOK(sl, active, available, bus', wire')
  <2>1. CASE active = 0
    <3>1. \A x \in wire' : x.left <= available
      BY <1>1, <2>1, StillComing DEF IInv, WireOK
    <3> QED BY <2>1, <3>1 DEF WireOK
  <2>2. CASE active \in Slots
    <3>1. sl[active].state = "Active"
      BY <2>2 DEF OnLine
    <3> QED BY <1>1, <2>2, <3>1, OwnAnswer DEF IInv
  <2>3. active = 0 \/ active \in Slots
    BY SizeAssumption DEF IInv, Tags, Slots
  <2> QED BY <2>1, <2>2, <2>3
<1>5. PaceOK(sl, active, available, owed)
  <2>1. active # 0 => active \in Slots
    BY SizeAssumption DEF IInv, Tags, Slots
  <2> QED BY <2>1 DEF PaceOK, IInv
<1>6. older' \subseteq Slots \X Slots
  BY DEF Kept, IInv
<1>7. OffMeansEmpty'
  BY DEF OffMeansEmpty
<1> QED BY <1>2, <1>3, <1>4, <1>5, <1>6, <1>7 DEF IInv
-----------------------------------------------------------------------------
(* A transmission starts only when nothing is left on the wire.            *)
LEMMA SendIInv ==
  ASSUME IInv, NEW sl, SlotsOK(sl), OnLine(sl, active), IdsOK(sl), AnswersOK(sl),
         NEW enabled \in BOOLEAN, ~enabled => Queued(sl) = {},
         accepting' = enabled, nextId' = nextId, NEW b \in L!Line(Tags),
         Send(sl, b)
  PROVE  IInv'
<1>1. active = 0 /\ available = 0
  BY DEF Send, Ready
<1>2. PICK s \in Selectable(sl) :
        LET onAir == [sl EXCEPT ![s].state = "Active", ![s].since = 0]
        IN  /\ Ready(b, sl)
            /\ L!Startable(b)
            /\ slots' = onAir
            /\ older' = Kept(onAir)
            /\ active' = s
            /\ bus' = Retagged(L!Started(b), onAir)
            /\ \E answer \in Answers(s, sl[s].req) : wire' = Still(wire, onAir) \cup answer
            /\ owed' = sl[s].req.interval
            /\ UNCHANGED available
  BY DEF Send
<1>3. s \in Slots /\ sl[s].state = "Queued"
  BY <1>2 DEF Selectable, selectNextSlot, Queued, InState
<1> DEFINE e == [sl[s] EXCEPT !.state = "Active", !.since = 0]
           n == [sl EXCEPT ![s] = e]
<1>4. sl[s] \in Slot /\ 0 \in 0..Long
  BY <1>3, LongAssumption DEF SlotsOK
<1>5. /\ e \in Slot /\ e.state = "Active" /\ e.since = 0 /\ e.req = sl[s].req
      /\ e.id = sl[s].id /\ e.attempts = sl[s].attempts
  BY <1>4 DEF Slot
<1>6. /\ slots' = n /\ older' = Kept(n) /\ active' = s
      /\ bus' = Retagged(L!Started(b), n) /\ owed' = sl[s].req.interval
      /\ available' = 0
      /\ \E answer \in Answers(s, sl[s].req) : wire' = Still(wire, n) \cup answer
  <2>1. n = [sl EXCEPT ![s].state = "Active", ![s].since = 0]
    BY <1>3, <1>4 DEF SlotsOK, Slot
  <2> QED BY <1>1, <1>2, <2>1
<1> HIDE DEF e
<1>7. n \in [Slots -> Slot] /\ n[s] = e /\ \A t \in Slots \ {s} : n[t] = sl[t]
  BY <1>3, <1>5 DEF SlotsOK
<1> HIDE DEF n
<1>8. SlotsOK(n)
  BY <1>3, <1>5, <1>7 DEF SlotsOK
<1>9. OnLine(n, s)
  BY <1>1, <1>3, <1>5, <1>7, SizeAssumption DEF OnLine, Slots
<1>10. IdsOK(n)
  <2>1. \A t \in Slots : n[t].id = sl[t].id /\ (n[t].state = "Free" <=> sl[t].state = "Free")
    BY <1>3, <1>5, <1>7
  <2> QED BY <2>1 DEF IdsOK
<1>11. AnswersOK(n)
  BY <1>3, <1>5, <1>7 DEF AnswersOK
<1>12. Resting(bus') /\ bus'.rx = {} /\ bus'.fifo = {}
  <2>1. L!Started(b) \in L!Line(Tags) /\ ~L!Started(b).frame
        /\ L!Started(b).rx = {} /\ L!Started(b).fifo = {}
    BY <1>2 DEF L!Started, L!Line, L!Startable
  <2> QED BY <1>6, <2>1, RetaggedLine DEF Resting
<1>13. wire = {}
  BY <1>1 DEF IInv, WireOK, Coming
<1>14. PICK answer \in Answers(s, sl[s].req) : wire' = answer
  BY <1>6, <1>13, StillComing DEF IInv
<1>15. sl[s].req \in Requests /\ sl[s].req.latest \in Nat /\ sl[s].req.interval \in Nat
  BY <1>4, Profile DEF Slot
<1>16. /\ wire' \subseteq Coming
       /\ \A x \in wire' : x.to = s /\ x.left <= sl[s].req.latest
       /\ \A x, y \in wire' : x = y
  BY <1>3, <1>14, <1>15 DEF Answers, Coming, Tags, Slots
<1>17. s # 0 /\ s \in Tags
  BY <1>3, SizeAssumption DEF Slots, Tags
<1>18. WireOK(n, s, 0, bus', wire')
  <2>1. \A x \in wire' : x.left + n[s].since <= n[s].req.latest
    BY <1>5, <1>7, <1>15, <1>16 DEF Coming
  <2> QED BY <1>12, <1>16, <1>17, <2>1 DEF WireOK
<1>19. PaceOK(n, s, 0, owed')
  BY <1>5, <1>6, <1>7, <1>15, <1>17 DEF PaceOK, Less
<1>20. older' \subseteq Slots \X Slots
  BY <1>6 DEF Kept, IInv
<1>21. ~enabled => Queued(n) = {}
  BY <1>3, <1>5, <1>7 DEF Queued, InState
<1> QED
  BY <1>6, <1>8, <1>9, <1>10, <1>11, <1>12, <1>15, <1>16, <1>17, <1>18, <1>19, <1>20, <1>21
     DEF IInv, OffMeansEmpty

(* An answer heard in time leaves nothing on the wire, so the line may be  *)
(* free at once; a time-out leaves what the guard covers.                  *)
LEMMA TickIInv ==
  ASSUME IInv, NEW enabled \in BOOLEAN, NEW sent \in BOOLEAN, tick(enabled, sent)
  PROVE  IInv'
<1> DEFINE sl == Swept(enabled)
           b == L!Ticked(bus, sent)
<1>1. /\ SlotsOK(sl) /\ OnLine(sl, active) /\ IdsOK(sl) /\ AnswersOK(sl)
      /\ active \in Slots => sl[active] = slots[active]
      /\ ~enabled => Queued(sl) = {}
  BY SweptSlots, SweptInvariant DEF IInv
<1>2. /\ b \in L!Line(Tags) /\ b.rx \cup b.fifo \subseteq bus.rx \cup bus.fifo
      /\ b.frame => b.state = "Idle" /\ b.rx # {}
      /\ active = 0 => L!Startable(b)
  BY TickedLine DEF IInv, L!Startable
<1>3. /\ accepting' = enabled /\ nextId' = nextId
      /\ \/ Wait(enabled, sl, b) \/ Send(sl, b) \/ SendFails(sl, b) \/ Answered(sl, b)
         \/ Refused(enabled, sl, b) \/ TimedOut(enabled, sl, b) \/ Listen(sl, b)
  BY DEF tick
<1> HIDE DEF sl, b
<1>4. active # 0 => active \in Slots /\ sl[active] \in Slot /\ sl[active].state = "Active"
  BY <1>1, SizeAssumption DEF IInv, Tags, Slots, SlotsOK, OnLine
<1>5. active # 0 => /\ owed <= Less(sl[active].req.interval, sl[active].since)
                    /\ b.frame => wire = {} /\ b.rx \subseteq {active}
  BY <1>1, <1>2, <1>4 DEF IInv, WireOK, PaceOK
<1>6. CASE Wait(enabled, sl, b)
  <2>1. active = 0 /\ ~b.frame
    BY <1>2, <1>6 DEF Wait, L!Startable
  <2> QED BY <1>1, <1>2, <1>3, <1>6, <2>1, KeepIInv DEF Wait, Resting
<1>7. CASE Listen(sl, b)
  BY <1>1, <1>2, <1>3, <1>7, KeepIInv DEF Listen, Resting
<1>8. CASE Send(sl, b)
  BY <1>1, <1>2, <1>3, <1>8, SendIInv
<1>9. CASE SendFails(sl, b)
  <2>1. active = 0 /\ available = 0 /\ owed' = owed
    BY <1>9 DEF SendFails, Ready
  <2>2. PICK s \in Slots : sl[s].state = "Queued" /\ finish(sl, s, "Error", FALSE, b)
    BY <1>9 DEF SendFails, Selectable, selectNextSlot, Queued, InState
  <2>3. sl[s] \in Slot /\ ("Error" # "Ok" \/ sl[s].abandoned) \in BOOLEAN
    BY <1>1 DEF SlotsOK
  <2>4. wire = {} /\ owed = 0
    BY <2>1 DEF IInv, WireOK, PaceOK, Coming
  <2>5. busAvailableAt(sl[s], "Error" # "Ok" \/ sl[s].abandoned) \in Nat
    BY <2>3, KeptFor
  <2>6. /\ \A x \in wire : x.left <= busAvailableAt(sl[s], "Error" # "Ok" \/ sl[s].abandoned)
        /\ owed <= busAvailableAt(sl[s], "Error" # "Ok" \/ sl[s].abandoned)
    BY <2>4, <2>5
  <2> QED BY <1>1, <1>2, <1>3, <2>1, <2>2, <2>6, FinishIInv
<1>10. CASE Answered(sl, b)
  <2>1. active # 0 /\ b.frame /\ owed' = owed
    BY <1>10 DEF Answered
  <2>2. b.rx = {active}
    BY <1>5, <1>10, <2>1 DEF Answered
  <2>3. PICK result \in {"Ok", "Exception"} :
          finish(sl, active, result, b.rx = {active}, L!Taken(b))
    BY <1>10 DEF Answered
  <2>4. PICK own \in BOOLEAN : own /\ finish(sl, active, result, own, L!Taken(b))
    <3>1. (b.rx = {active}) = TRUE
      BY <2>2
    <3> QED BY <2>3, <3>1
  <2>5. L!Taken(b) \in L!Line(Tags) /\ L!Startable(L!Taken(b))
    BY <1>2, <2>1 DEF L!Taken, L!Line, L!Startable
  <2>6. (result # "Ok" \/ sl[active].abandoned) \in BOOLEAN
    BY <1>4, <2>1
  <2>7. /\ \A x \in wire :
              x.left <= busAvailableAt(sl[active], result # "Ok" \/ sl[active].abandoned)
        /\ owed <= busAvailableAt(sl[active], result # "Ok" \/ sl[active].abandoned)
    <3> DEFINE g == (result # "Ok" \/ sl[active].abandoned)
               least == Less(sl[active].req.interval, sl[active].since)
               av == busAvailableAt(sl[active], g)
    <3>1. av \in Nat /\ least \in Nat /\ av >= least
      BY <1>4, <2>1, <2>6, KeptFor
    <3>2. owed \in Nat /\ owed <= least /\ wire = {}
      BY <1>5, <2>1 DEF IInv
    <3> HIDE DEF av, least
    <3>3. owed <= av /\ \A x \in wire : x.left <= av
      BY <3>1, <3>2
    <3> QED BY <3>3 DEF av
  <2>8. result \in {"Ok", "Exception", "Error"} /\ sl[active].state # "Free"
        /\ active \in {0, active} /\ active \in Slots /\ (result = "Ok" => own)
    BY <1>4, <2>1, <2>4
  <2>9. finish(sl, active, result, own, L!Taken(b))
    BY <2>4
  <2> QED BY <1>1, <1>3, <2>1, <2>5, <2>7, <2>8, <2>9, FinishIInv
<1>11. CASE Refused(enabled, sl, b)
  <2>1. active # 0 /\ b.frame /\ retryOrFinish(enabled, sl, active, b) /\ owed' = owed
    BY <1>11 DEF Refused
  <2>2. wire = {} /\ active \in Slots
    BY <1>4, <1>5, <2>1
  <2> QED BY <1>1, <1>3, <1>5, <2>1, <2>2, RetryIInv
<1>12. CASE TimedOut(enabled, sl, b)
  <2>1. /\ active # 0 /\ retryOrFinish(enabled, sl, active, b) /\ owed' = owed
        /\ sl[active].since >= sl[active].req.timeout
    BY <1>12 DEF TimedOut, Late
  <2>2. ASSUME NEW x \in wire
        PROVE  x.left <= sl[active].req.quiet + sl[active].req.guard
    <3>1. x.left + sl[active].since <= sl[active].req.latest
      BY <1>1, <1>4, <2>1 DEF IInv, WireOK
    <3>2. sl[active].req \in Requests /\ sl[active].since \in Nat /\ x.left \in Nat
      BY <1>4, <2>1, LongAssumption DEF Slot, IInv, Coming
    <3> QED BY <2>1, <3>1, <3>2, Profile
  <2> QED BY <1>1, <1>3, <1>4, <1>5, <2>1, <2>2, RetryIInv
<1> QED BY <1>3, <1>6, <1>7, <1>8, <1>9, <1>10, <1>11, <1>12
-----------------------------------------------------------------------------
(* The clients.                                                            *)
LEMMA SubmitIInv ==
  ASSUME IInv, NEW r \in Requests, submit(r)
  PROVE  IInv'
<1>1. PICK s \in InState(slots, "Free"), id \in Ids :
         /\ accepting
         /\ FirstFree(s)
         /\ allocateTransactionId(id)
         /\ slots' = [slots EXCEPT ![s] = [Empty EXCEPT !.state = "Queued", !.id = id, !.req = r]]
         /\ older' = older \cup (Queued(slots) \X {s})
         /\ nextId' = (id % MaxId) + 1
         /\ UNCHANGED <<active, accepting, available, bus, wire, owed>>
  BY DEF submit
<1> DEFINE e == [Empty EXCEPT !.state = "Queued", !.id = id, !.req = r]
<1>2. s \in Slots /\ slots[s].state = "Free" /\ id \notin Used
  BY <1>1 DEF InState, allocateTransactionId
<1>3. /\ e \in Slot /\ e.state = "Queued" /\ e.id = id /\ e.req = r /\ e.attempts = 0
      /\ ~e.abandoned
  <2>1. id \in 0..MaxId
    BY SizeAssumption DEF Ids
  <2>2. ~Empty.abandoned
    BY DEF Empty
  <2> QED BY <2>1, <2>2, EmptyType DEF Slot
<1> HIDE DEF e
<1>4. /\ slots' \in [Slots -> Slot] /\ slots'[s] = e
      /\ \A t \in Slots \ {s} : slots'[t] = slots[t]
  BY <1>1, <1>2, <1>3 DEF IInv, SlotsOK, e
<1>5. SlotsOK(slots')
  <2>1. e.attempts <= e.req.retries
    BY <1>3, Profile
  <2> QED BY <1>4, <2>1 DEF IInv, SlotsOK
<1>6. active # s
  BY <1>2 DEF IInv, OnLine
<1>7. OnLine(slots', active)
  BY <1>3, <1>4, <1>6 DEF IInv, OnLine
<1>8. IdsOK(slots')
  <2>1. \A t \in Slots : slots[t].state # "Free" => slots[t].id # id
    BY <1>2 DEF Used, InState
  <2> QED BY <1>3, <1>4, <2>1 DEF IInv, IdsOK
<1>9. AnswersOK(slots')
  BY <1>3, <1>4 DEF IInv, AnswersOK
<1>10. nextId' \in Ids
  BY <1>1, SizeAssumption DEF Ids
<1>11. older' \subseteq Slots \X Slots
  BY <1>1, <1>2 DEF IInv, Queued, InState
<1>12. WireOK(slots', active, available, bus, wire)
  BY <1>4, <1>6, SizeAssumption DEF IInv, WireOK, Tags, Slots
<1>13. PaceOK(slots', active, available, owed)
  BY <1>4, <1>6, SizeAssumption DEF IInv, PaceOK, Tags, Slots
<1>14. OffMeansEmpty'
  BY <1>1 DEF OffMeansEmpty
<1> QED BY <1>1, <1>5, <1>7, <1>8, <1>9, <1>10, <1>11, <1>12, <1>13, <1>14 DEF IInv

LEMMA PollIInv ==
  ASSUME IInv, NEW s \in Slots, poll(s)
  PROVE  IInv'
<1>1. /\ slots[s].state = "Finished" /\ slots' = [slots EXCEPT ![s] = Empty]
      /\ UNCHANGED <<older, active, accepting, nextId, available, bus, wire, owed>>
  BY DEF poll
<1>2. Empty.state = "Free" /\ ~Empty.abandoned
  BY DEF Empty
<1>3. /\ slots' \in [Slots -> Slot] /\ slots'[s] = Empty
      /\ \A t \in Slots \ {s} : slots'[t] = slots[t]
  BY <1>1, EmptyType DEF IInv, SlotsOK
<1>4. SlotsOK(slots')
  BY <1>3, EmptyType, Profile DEF IInv, SlotsOK
<1>5. active # s
  BY <1>1 DEF IInv, OnLine
<1>6. OnLine(slots', active)
  BY <1>2, <1>3, <1>5 DEF IInv, OnLine
<1>7. IdsOK(slots')
  BY <1>2, <1>3 DEF IInv, IdsOK
<1>8. AnswersOK(slots')
  BY <1>2, <1>3 DEF IInv, AnswersOK
<1>9. WireOK(slots', active, available, bus, wire)
  BY <1>3, <1>5, SizeAssumption DEF IInv, WireOK, Tags, Slots
<1>10. PaceOK(slots', active, available, owed)
  BY <1>3, <1>5, SizeAssumption DEF IInv, PaceOK, Tags, Slots
<1>11. OffMeansEmpty'
  BY <1>1, <1>2, <1>3 DEF IInv, OffMeansEmpty, Queued, InState
<1> QED BY <1>1, <1>4, <1>6, <1>7, <1>8, <1>9, <1>10, <1>11 DEF IInv

LEMMA CancelIInv ==
  ASSUME IInv, NEW o \in Owners, cancelOwner(o)
  PROVE  IInv'
<1> DEFINE sl == [s \in Slots |->
                    IF slots[s].state # "Free" /\ slots[s].req.owner = o
                    THEN Cancelled(slots[s], s = active) ELSE slots[s]]
<1>1. /\ slots' = sl /\ older' = Kept(sl) /\ LineIs(bus, wire, sl)
      /\ UNCHANGED <<active, accepting, nextId, available, owed>>
  BY DEF cancelOwner
<1>2. \A s \in Slots : \/ sl[s] = slots[s]
                       \/ sl[s] = Empty /\ s # active
                       \/ sl[s] = [slots[s] EXCEPT !.abandoned = TRUE] /\ s = active
  BY DEF Cancelled
<1>3. \A s \in Slots : slots[s] \in Slot
  BY DEF IInv, SlotsOK
<1>4. \A s \in Slots : \/ sl[s] = Empty /\ s # active
                       \/ /\ sl[s] \in Slot
                          /\ sl[s].state = slots[s].state /\ sl[s].id = slots[s].id
                          /\ sl[s].req = slots[s].req /\ sl[s].since = slots[s].since
                          /\ sl[s].attempts = slots[s].attempts
                          /\ sl[s].result = slots[s].result /\ sl[s].own = slots[s].own
                          /\ sl[s].abandoned = slots[s].abandoned \/ s = active
  <2>1. ASSUME NEW s \in Slots, sl[s] = [slots[s] EXCEPT !.abandoned = TRUE], s = active
        PROVE  /\ sl[s] \in Slot
               /\ sl[s].state = slots[s].state /\ sl[s].id = slots[s].id
               /\ sl[s].req = slots[s].req /\ sl[s].since = slots[s].since
               /\ sl[s].attempts = slots[s].attempts
               /\ sl[s].result = slots[s].result /\ sl[s].own = slots[s].own
    BY <1>3, <2>1 DEF Slot
  <2> QED BY <1>2, <1>3, <2>1
<1>5. sl \in [Slots -> Slot]
  <2>1. \A s \in Slots : sl[s] \in Slot
    BY <1>4, EmptyType
  <2>2. sl = [s \in Slots |-> sl[s]]
    OBVIOUS
  <2> HIDE DEF sl
  <2> QED BY <2>1, <2>2
<1> HIDE DEF sl
<1>6. Empty.state = "Free" /\ ~Empty.abandoned
  BY DEF Empty
<1>7. SlotsOK(sl)
  BY <1>4, <1>5, EmptyType, Profile DEF IInv, SlotsOK
<1>8. OnLine(sl, active)
  BY <1>4, <1>6 DEF IInv, OnLine
<1>9. IdsOK(sl)
  <2>1. \A s \in Slots : sl[s].state # "Free" =>
           sl[s].id = slots[s].id /\ slots[s].state # "Free"
    BY <1>4, <1>6
  <2> QED BY <2>1 DEF IInv, IdsOK
<1>10. AnswersOK(sl)
  BY <1>4, <1>6 DEF IInv, AnswersOK
<1>11. active \in Slots =>
           sl[active].req = slots[active].req /\ sl[active].since = slots[active].since
  BY <1>4
<1>12. ~accepting => Queued(sl) = {}
  <2>1. \A s \in Slots : sl[s].state = "Queued" => slots[s].state = "Queued"
    BY <1>4, <1>6
  <2> QED BY <2>1 DEF IInv, OffMeansEmpty, Queued, InState
<1>13. /\ Resting(bus) /\ (active = 0 => L!Startable(bus)) /\ accepting \in BOOLEAN
       /\ bus.rx \cup bus.fifo \subseteq bus.rx \cup bus.fifo
  BY DEF IInv
<1> QED BY <1>1, <1>7, <1>8, <1>9, <1>10, <1>11, <1>12, <1>13, KeepIInv
-----------------------------------------------------------------------------
(* Time.  An answer that is due moves from the wire to the transport.      *)
LEMMA AgedSlot ==
  ASSUME NEW d \in Slot
  PROVE  /\ Aged(d) \in Slot
         /\ Aged(d).state = d.state /\ Aged(d).id = d.id /\ Aged(d).req = d.req
         /\ Aged(d).attempts = d.attempts /\ Aged(d).abandoned = d.abandoned
         /\ Aged(d).result = d.result /\ Aged(d).own = d.own
         /\ d.state = "Active" => Aged(d).since = Lesser(Long, d.since + 1)
<1>1. d.waited \in 0..Age /\ d.since \in 0..Long
  BY DEF Slot
<1>2. Lesser(Age, d.waited + 1) \in 0..Age /\ Lesser(Long, d.since + 1) \in 0..Long
  <2>1. \A n \in Nat : \A k \in 0..n : Lesser(n, k + 1) \in 0..n
    BY DEF Lesser
  <2> QED BY <1>1, <2>1, AgeAssumption, LongAssumption
<1>3. CASE d.state \in {"Queued", "Active"}
  <2>1. Aged(d) = [d EXCEPT !.waited = Lesser(Age, d.waited + 1),
                            !.since = Lesser(Long, d.since + 1)]
    BY <1>3 DEF Aged
  <2> QED BY <1>2, <2>1 DEF Slot
<1>4. CASE d.state \notin {"Queued", "Active"}
  BY <1>4 DEF Aged
<1> QED BY <1>3, <1>4

LEMMA ElapseIInv ==
  ASSUME IInv, Elapse
  PROVE  IInv'
<1> DEFINE due == {w \in wire : w.left = 1}
<1>1. /\ slots' = [s \in Slots |-> Aged(slots[s])]
      /\ available' = Less(available, 1) /\ owed' = Less(owed, 1)
      /\ wire' = {[w EXCEPT !.left = w.left - 1] : w \in wire \ due}
      /\ bus' = L!Heard(bus, {w.to : w \in due})
      /\ UNCHANGED <<older, active, accepting, nextId>>
  BY DEF Elapse
<1>2. \A s \in Slots : slots[s] \in Slot
  BY DEF IInv, SlotsOK
<1>3. SlotsOK(slots')
  <2>1. \A s \in Slots : slots'[s] = Aged(slots[s])
    BY <1>1
  <2>2. \A s \in Slots : slots'[s] \in Slot /\ slots'[s].attempts <= slots'[s].req.retries
    BY <1>2, <2>1, AgedSlot DEF IInv, SlotsOK
  <2>3. slots' \in [Slots -> Slot]
    BY <1>1, <1>2, AgedSlot
  <2> QED BY <2>2, <2>3 DEF SlotsOK
<1>4. \A s \in Slots :
         /\ slots'[s].state = slots[s].state /\ slots'[s].id = slots[s].id
         /\ slots'[s].req = slots[s].req /\ slots'[s].result = slots[s].result
         /\ slots'[s].own = slots[s].own /\ slots'[s].abandoned = slots[s].abandoned
         /\ slots[s].state = "Active" => slots'[s].since = Lesser(Long, slots[s].since + 1)
  BY <1>1, <1>2, AgedSlot
<1>5. OnLine(slots', active)
  BY <1>4 DEF IInv, OnLine
<1>6. IdsOK(slots')
  BY <1>4 DEF IInv, IdsOK
<1>7. AnswersOK(slots')
  BY <1>4 DEF IInv, AnswersOK
<1>8. OffMeansEmpty'
  BY <1>1, <1>4 DEF IInv, OffMeansEmpty, Queued, InState
<1>9. available' \in Nat /\ owed' \in Nat
  BY <1>1 DEF IInv, Less
<1>10. \A x \in wire' : \E y \in wire : x.to = y.to /\ x.left + 1 = y.left /\ x \in Coming
  <2>1. ASSUME NEW y \in wire, y \notin due
        PROVE  LET x == [y EXCEPT !.left = y.left - 1]
               IN  x.to = y.to /\ x.left + 1 = y.left /\ x \in Coming
    <3>1. y \in Coming /\ y.left \in Nat /\ y.left # 0 /\ y.left # 1
      BY <2>1 DEF IInv, Coming
    <3>2. y.left - 1 \in Nat \ {0} /\ y.left - 1 + 1 = y.left
      BY <3>1
    <3> QED BY <3>1, <3>2 DEF Coming
  <2> QED BY <1>1, <2>1
<1>11. wire' \subseteq Coming
  BY <1>10
<1>12. {w.to : w \in due} \subseteq Tags
  BY DEF IInv, Coming
<1>13. /\ Resting(bus') /\ (active = 0 => L!Startable(bus'))
       /\ bus'.rx = bus.rx /\ bus'.fifo = bus.fifo \cup {w.to : w \in due}
  BY <1>1, <1>12 DEF IInv, Resting, L!Heard, L!Line, L!Startable
<1>14. active # 0 => active \in Slots /\ slots[active].state = "Active"
  BY SizeAssumption DEF IInv, OnLine, Tags, Slots
<1>15. WireOK(slots', active, available', bus', wire')
  <2>1. ASSUME active = 0, NEW x \in wire' PROVE x.left <= available'
    <3>1. PICK y \in wire : x.left + 1 = y.left /\ x \in Coming
      BY <1>10, <2>1
    <3>2. y.left <= available /\ available \in Nat
      BY <2>1 DEF IInv, WireOK
    <3> QED BY <1>1, <3>1, <3>2 DEF Less, Coming
  <2>2. CASE active # 0
    <3>1. /\ \A x \in wire : x.to = active
                             /\ x.left + slots[active].since <= slots[active].req.latest
          /\ \A x, y \in wire : x = y
          /\ bus.rx \cup bus.fifo \subseteq {active}
          /\ bus.rx \cup bus.fifo # {} => wire = {}
      BY <2>2 DEF IInv, WireOK
    <3>2. ASSUME NEW x \in wire'
          PROVE  x.to = active /\ x.left + slots'[active].since <= slots'[active].req.latest
      <4>1. PICK y \in wire : x.to = y.to /\ x.left + 1 = y.left /\ x \in Coming
        BY <1>10, <3>2
      <4>2. slots'[active].since = Lesser(Long, slots[active].since + 1)
            /\ slots'[active].req = slots[active].req
        BY <1>4, <1>14, <2>2
      <4>3. slots[active].since \in Nat /\ slots[active].req.latest \in Nat /\ Long \in Nat
        BY <1>2, <1>14, <2>2, Profile, LongAssumption DEF Slot
      <4>4. y.to = active /\ y.left + slots[active].since <= slots[active].req.latest
        BY <3>1, <4>1
      <4>5. x.left \in Nat
        BY <4>1 DEF Coming
      <4> QED BY <4>1, <4>2, <4>3, <4>4, <4>5 DEF Lesser
    <3>3. \A x, y \in wire' : x = y
      BY <1>1, <3>1
    <3>4. bus'.rx \cup bus'.fifo \subseteq {active}
      BY <1>13, <3>1
    <3>5. bus'.rx \cup bus'.fifo # {} => wire' = {}
      <4>1. CASE due # {}
        <5>1. wire \ due = {}
          BY <3>1, <4>1
        <5> QED BY <1>1, <5>1
      <4>2. CASE due = {}
        <5>1. bus'.rx = bus.rx /\ bus'.fifo = bus.fifo
          BY <1>13, <4>2
        <5>2. wire = {} => wire' = {}
          BY <1>1
        <5> QED BY <3>1, <5>1, <5>2
      <4> QED BY <4>1, <4>2
    <3> QED BY <2>2, <3>2, <3>3, <3>4, <3>5 DEF WireOK
  <2> QED BY <2>1, <2>2 DEF WireOK
<1>16. PaceOK(slots', active, available', owed')
  <2>1. active = 0 => owed' <= available'
    BY <1>1 DEF IInv, PaceOK, Less
  <2>2. ASSUME active # 0
        PROVE  owed' <= Less(slots'[active].req.interval, slots'[active].since)
    <3>1. slots'[active].since = Lesser(Long, slots[active].since + 1)
          /\ slots'[active].req = slots[active].req
      BY <1>4, <1>14, <2>2
    <3>2. slots[active].since \in 0..Long /\ slots[active].req \in Requests
      BY <1>2, <1>14, <2>2 DEF Slot
    <3>3. owed <= Less(slots[active].req.interval, slots[active].since) /\ owed \in Nat
      BY <2>2 DEF IInv, PaceOK
    <3>4. slots[active].req.interval \in Nat /\ slots[active].req.interval <= Long /\ Long \in Nat
      BY <3>2, Profile, LongAssumption
    <3> DEFINE i == slots[active].req.interval
               t == slots[active].since
    <3>5. i \in Nat /\ i <= Long /\ Long \in Nat /\ t \in 0..Long /\ owed \in Nat
          /\ owed <= Less(i, t) /\ owed' = Less(owed, 1)
      BY <1>1, <3>2, <3>3, <3>4
    <3> HIDE DEF i, t
    <3>6. owed' <= Less(i, Lesser(Long, t + 1))
      BY <3>5 DEF Less, Lesser
    <3> QED BY <3>1, <3>6 DEF i, t
  <2> QED BY <2>1, <2>2 DEF PaceOK
<1> QED BY <1>1, <1>3, <1>5, <1>6, <1>7, <1>8, <1>9, <1>11, <1>13, <1>15, <1>16 DEF IInv
-----------------------------------------------------------------------------
LEMMA NextIInv == IInv /\ [Next]_vars => IInv'
<1> SUFFICES ASSUME IInv, [Next]_vars PROVE IInv'
  OBVIOUS
<1>1. ASSUME NEW r \in Requests, submit(r) PROVE IInv'
  BY <1>1, SubmitIInv
<1>2. ASSUME NEW s \in Slots, poll(s) PROVE IInv'
  BY <1>2, PollIInv
<1>3. ASSUME NEW o \in Owners, cancelOwner(o) PROVE IInv'
  BY <1>3, CancelIInv
<1>4. CASE Tick
  BY <1>4, TickIInv DEF Tick
<1>5. CASE Elapse
  BY <1>5, ElapseIInv
<1>6. CASE UNCHANGED vars
  BY <1>6 DEF IInv, vars, SlotsOK, OnLine, IdsOK, AnswersOK, OffMeansEmpty, Queued, InState,
              WireOK, PaceOK, Resting, L!Startable
<1> QED BY <1>1, <1>2, <1>3, <1>4, <1>5, <1>6 DEF Next

(* The invariant holds in every state of the arbiter.                      *)
THEOREM Invariance == Spec => []IInv
<1>1. Init => IInv
  BY InitIInv
<1>2. IInv /\ [Next]_vars => IInv'
  BY NextIInv
<1> QED BY <1>1, <1>2, PTL DEF Spec

(* Every variable keeps its type, and no request is sent more often than   *)
(* its retries allow.                                                      *)
THEOREM TypeCorrect == Spec => []TypeOK
<1>1. IInv => TypeOK
  BY DEF IInv, TypeOK, SlotsOK, Resting
<1> QED BY <1>1, Invariance, PTL

(* activeIndex_ and the slots agree, and the transport always takes the    *)
(* next request.                                                           *)
THEOREM OneOnTheLineCorrect == Spec => []OneOnTheLine
<1>1. IInv => OneOnTheLine
  BY DEF IInv, OneOnTheLine, OnLine
<1> QED BY <1>1, Invariance, PTL

(* No id names two transactions, through the wrap of the sequence.         *)
THEOREM IdsCorrect == Spec => []IdsUnique
<1>1. IInv => IdsUnique
  BY DEF IInv, IdsUnique, IdsOK
<1> QED BY <1>1, Invariance, PTL

(* An arbiter that is off has an empty queue.                              *)
THEOREM OffCorrect == Spec => []OffMeansEmpty
<1>1. IInv => OffMeansEmpty
  BY DEF IInv
<1> QED BY <1>1, Invariance, PTL

(* No request is completed by another's answer, for every set of line      *)
(* profiles whose guard covers how late their devices answer.              *)
THEOREM AnswersCorrect == Spec => []AnswersMatch
<1>1. IInv => AnswersMatch
  BY DEF IInv, AnswersMatch, AnswersOK
<1> QED BY <1>1, Invariance, PTL
-----------------------------------------------------------------------------
(* What a step may never do.                                               *)
LEMMA FinishQuiet ==
  ASSUME NEW sl, NEW s, NEW result, NEW own, NEW b \in L!Line(Tags),
         b.state # "Transmitting", finish(sl, s, result, own, b)
  PROVE  bus'.state # "Transmitting"
BY RetaggedLine DEF finish, LineIs

LEMMA RetryQuiet ==
  ASSUME NEW sl, NEW s, NEW enabled, NEW b, retryOrFinish(enabled, sl, s, b)
  PROVE  bus'.state # "Transmitting"
<1>1. L!Aborted(b) \in L!Line(Tags) /\ L!Aborted(b).state # "Transmitting"
  BY DEF L!Aborted, L!Begun, L!Line
<1>2. CASE Retried(sl[s], enabled)
  BY <1>1, <1>2, RetaggedLine DEF retryOrFinish, LineIs
<1>3. CASE ~Retried(sl[s], enabled)
  <2>1. finish(sl, s, "Error", FALSE, L!Aborted(b))
    BY <1>3 DEF retryOrFinish
  <2> HIDE DEF L!Aborted
  <2> QED BY <1>1, <2>1, FinishQuiet
<1> QED BY <1>2, <1>3

LEMMA NextSpaced == IInv /\ [Next]_vars => (Transmits => owed = 0)
<1> SUFFICES ASSUME IInv, [Next]_vars, Transmits PROVE owed = 0
  OBVIOUS
<1>1. bus \in L!Line(Tags) /\ bus.state # "Transmitting" /\ bus'.state = "Transmitting"
  BY DEF IInv, Resting, Transmits
<1>2. ASSUME NEW enabled \in BOOLEAN, NEW sent \in BOOLEAN, tick(enabled, sent)
      PROVE  owed = 0
  <2> DEFINE sl == Swept(enabled)
             b == L!Ticked(bus, sent)
  <2>1. b \in L!Line(Tags) /\ b.state # "Transmitting"
    BY <1>1, TickedLine DEF IInv
  <2>2. \/ Wait(enabled, sl, b) \/ Send(sl, b) \/ SendFails(sl, b) \/ Answered(sl, b)
        \/ Refused(enabled, sl, b) \/ TimedOut(enabled, sl, b) \/ Listen(sl, b)
    BY <1>2 DEF tick
  <2> HIDE DEF sl, b
  <2>3. ~(Wait(enabled, sl, b) \/ Listen(sl, b))
    BY <1>1, <2>1, RetaggedLine DEF Wait, Listen, LineIs
  <2>4. ~SendFails(sl, b)
    BY <1>1, <2>1, FinishQuiet DEF SendFails
  <2>5. ~Answered(sl, b)
    <3>1. L!Taken(b) \in L!Line(Tags) /\ L!Taken(b).state # "Transmitting"
      BY <2>1 DEF L!Taken, L!Line
    <3> QED BY <1>1, <3>1, FinishQuiet DEF Answered
  <2>6. ~Refused(enabled, sl, b) /\ ~TimedOut(enabled, sl, b)
    BY <1>1, RetryQuiet DEF Refused, TimedOut
  <2>7. CASE Send(sl, b)
    BY <2>7 DEF Send, Ready, IInv, PaceOK
  <2> QED BY <2>2, <2>3, <2>4, <2>5, <2>6, <2>7
<1>3. ~Elapse
  BY <1>1 DEF Elapse, L!Heard, L!Line
<1>4. ASSUME NEW o \in Owners, cancelOwner(o) PROVE FALSE
  BY <1>1, <1>4, RetaggedLine DEF cancelOwner, LineIs
<1>5. ASSUME NEW r \in Requests, submit(r) PROVE FALSE
  BY <1>1, <1>5 DEF submit
<1>6. ASSUME NEW s \in Slots, poll(s) PROVE FALSE
  BY <1>1, <1>6 DEF poll
<1>7. ~(UNCHANGED vars)
  BY <1>1 DEF vars
<1> QED BY <1>2, <1>3, <1>4, <1>5, <1>6, <1>7 DEF Next, Tick

(* Two transmissions are an interval apart, whatever ends the first one.   *)
THEOREM SpacedCorrect == Spec => Spaced
<1>1. IInv /\ [Next]_vars => [Transmits => owed = 0]_vars
  BY NextSpaced
<1> QED BY <1>1, Invariance, PTL DEF Spec, Spaced

LEMMA SafetyOutranks ==
  ASSUME NEW sl, SlotsOK(sl), NEW unseen, NEW s \in Slots, NEW t \in Slots,
         selectNextSlot(sl, unseen, s), sl[t].state = "Queued", s # t,
         sl[t].req.priority = Safety
  PROVE  sl[s].req.priority = Safety
<1>1. Rank(sl, unseen, t) = 4
  BY DEF Rank
<1>2. Rank(sl, unseen, s) > Rank(sl, unseen, t) \/ Rank(sl, unseen, s) = Rank(sl, unseen, t)
  BY DEF selectNextSlot, Queued, InState
<1>3. sl[s].req.priority \in 0..3
  BY RequestsAssumption DEF SlotsOK, Slot, Request, Safety
<1>4. sl[s].req.priority # Safety => Rank(sl, unseen, s) \in 0..3
  BY <1>3 DEF Rank, Safety
<1> QED BY <1>1, <1>2, <1>4

LEMMA NextSafetyFirst ==
  ASSUME IInv, [Next]_vars, NEW s \in Slots, NEW t \in Slots,
         Chosen(s), Waits(t), slots'[t].state = "Queued", slots[t].req.priority = Safety
  PROVE  slots[s].req.priority = Safety
<1>1. active # s /\ active' = s /\ s # 0
  BY SizeAssumption DEF Chosen, Slots
<1>2. ASSUME NEW enabled \in BOOLEAN, NEW sent \in BOOLEAN, tick(enabled, sent)
      PROVE  slots[s].req.priority = Safety
  <2> DEFINE sl == Swept(enabled)
             b == L!Ticked(bus, sent)
  <2>1. SlotsOK(sl) /\ SweptState(sl, enabled)
    BY SweptSlots DEF IInv
  <2>2. \/ Wait(enabled, sl, b) \/ Send(sl, b) \/ SendFails(sl, b) \/ Answered(sl, b)
        \/ Refused(enabled, sl, b) \/ TimedOut(enabled, sl, b) \/ Listen(sl, b)
    BY <1>2 DEF tick
  <2> HIDE DEF sl, b
  <2>3. Send(sl, b)
    BY <1>1, <2>2 DEF Wait, SendFails, Answered, Refused, TimedOut, Listen, retryOrFinish, finish
  <2>4. PICK c \in Selectable(sl) :
          active' = c /\ slots' = [sl EXCEPT ![c].state = "Active", ![c].since = 0]
    BY <2>3 DEF Send
  <2>5. c = s /\ s \in Selectable(sl)
    BY <1>1, <2>4
  <2>6. PICK unseen \in Unseen(sl) : selectNextSlot(sl, unseen, s)
    BY <2>5 DEF Selectable
  <2>7. sl[s] \in Slot /\ sl[s].state = "Queued"
    BY <2>1, <2>6 DEF SlotsOK, selectNextSlot, Queued, InState
  <2>8. slots'[s].state = "Active"
    BY <2>1, <2>4, <2>5, <2>7 DEF SlotsOK, Slot
  <2>9. s # t /\ slots'[t] = sl[t]
    BY <2>1, <2>4, <2>5, <2>8 DEF SlotsOK
  <2>10. sl[t].state = "Queued" /\ sl[t].req = slots[t].req /\ sl[s].req = slots[s].req
    BY <2>1, <2>9 DEF SweptState
  <2> QED BY <2>1, <2>6, <2>9, <2>10, SafetyOutranks
<1>3. ~(\/ \E r \in Requests : submit(r)
        \/ \E x \in Slots : poll(x)
        \/ \E o \in Owners : cancelOwner(o)
        \/ Elapse
        \/ UNCHANGED vars)
  BY <1>1 DEF submit, poll, cancelOwner, Elapse, vars
<1> QED BY <1>2, <1>3 DEF Next, Tick

(* A waiting safety request lets nothing else on the line, whatever else   *)
(* is queued, aged, cancelled or retried.                                  *)
THEOREM SafetyFirstCorrect == Spec => SafetyFirst
<1>1. IInv /\ [Next]_vars =>
        [\A s, t \in Slots :
           Chosen(s) /\ Waits(t) /\ slots'[t].state = "Queued"
           /\ slots[t].req.priority = Safety => slots[s].req.priority = Safety]_vars
  BY NextSafetyFirst
<1> QED BY <1>1, Invariance, PTL DEF Spec, SafetyFirst
-----------------------------------------------------------------------------
(* The order of the queue.                                                 *)
Ordered(o, q) ==
    /\ o \subseteq q \X q
    /\ \A s, t \in q : s # t <=> (<<s, t>> \in o \/ <<t, s>> \in o)
    /\ \A s, t, u \in q : <<s, t>> \in o /\ <<t, u>> \in o => <<s, u>> \in o

LEMMA OrderKept ==
  ASSUME NEW o, NEW q, Ordered(o, q), NEW p, p \subseteq q
  PROVE  Ordered(o \cap (p \X p), p)
BY DEF Ordered

LEMMA OrderExtended ==
  ASSUME NEW o, NEW q, Ordered(o, q), NEW last, last \notin q
  PROVE  Ordered(o \cup (q \X {last}), q \cup {last})
<1> DEFINE n == o \cup (q \X {last})
           r == q \cup {last}
<1>1. n \subseteq r \X r
  BY DEF Ordered
<1>2. \A s, t : <<s, t>> \in n <=> <<s, t>> \in o \/ (s \in q /\ t = last)
  OBVIOUS
<1>3. \A s, t : <<s, t>> \in o => s \in q /\ t \in q
  BY DEF Ordered
<1> HIDE DEF n
<1>4. \A s, t \in r : s # t <=> (<<s, t>> \in n \/ <<t, s>> \in n)
  BY <1>2, <1>3 DEF Ordered
<1>5. \A s, t, u \in r : <<s, t>> \in n /\ <<t, u>> \in n => <<s, u>> \in n
  BY <1>2, <1>3 DEF Ordered
<1> HIDE DEF r
<1>6. Ordered(n, r)
  BY <1>1, <1>4, <1>5 DEF Ordered
<1> QED BY <1>6 DEF n, r

LEMMA InitOrdered == Init => Ordered(older, Queued(slots))
<1> SUFFICES ASSUME Init PROVE Ordered(older, Queued(slots))
  OBVIOUS
<1>1. Queued(slots) = {} /\ older = {}
  BY DEF Init, Empty, Queued, InState
<1> QED BY <1>1 DEF Ordered

LEMMA NextOrdered ==
  ASSUME IInv, Ordered(older, Queued(slots)), [Next]_vars
  PROVE  Ordered(older', Queued(slots'))
<1> DEFINE q == Queued(slots)
<1>1. ASSUME NEW sl, Queued(sl) \subseteq q, older' = Kept(sl), slots' = sl
      PROVE  Ordered(older', Queued(slots'))
  BY <1>1, OrderKept DEF Kept
<1>2. ASSUME NEW r \in Requests, submit(r) PROVE Ordered(older', Queued(slots'))
  <2>1. PICK s \in InState(slots, "Free"), id \in Ids :
          /\ slots' = [slots EXCEPT ![s] = [Empty EXCEPT !.state = "Queued", !.id = id, !.req = r]]
          /\ older' = older \cup (Queued(slots) \X {s})
    BY <1>2 DEF submit
  <2>2. s \in Slots /\ s \notin q
    BY DEF InState, Queued
  <2>3. [Empty EXCEPT !.state = "Queued", !.id = id, !.req = r].state = "Queued"
    BY DEF Empty
  <2>4. /\ slots'[s].state = "Queued"
        /\ \A t \in Slots \ {s} : slots'[t] = slots[t]
    BY <2>1, <2>2, <2>3 DEF IInv, SlotsOK
  <2>5. Queued(slots') = q \cup {s}
    BY <2>2, <2>4 DEF Queued, InState
  <2>6. Ordered(older, q)
    OBVIOUS
  <2>7. older' = older \cup (q \X {s})
    BY <2>1
  <2> HIDE DEF q
  <2>8. Ordered(older \cup (q \X {s}), q \cup {s})
    BY <2>2, <2>6, OrderExtended
  <2> QED BY <2>5, <2>7, <2>8
<1>3. ASSUME NEW s \in Slots, poll(s) PROVE Ordered(older', Queued(slots'))
  <2>1. Queued(slots') = q /\ older' = older
    BY <1>3 DEF poll, Queued, InState, Empty, IInv, SlotsOK
  <2> QED BY <2>1
<1>4. ASSUME NEW o \in Owners, cancelOwner(o) PROVE Ordered(older', Queued(slots'))
  <2> DEFINE sl == [s \in Slots |->
                      IF slots[s].state # "Free" /\ slots[s].req.owner = o
                      THEN Cancelled(slots[s], s = active) ELSE slots[s]]
  <2>1. slots' = sl /\ older' = Kept(sl)
    BY <1>4 DEF cancelOwner
  <2>2. \A s \in Slots : sl[s].state = "Queued" => slots[s].state = "Queued"
    <3>1. Empty.state = "Free"
      BY DEF Empty
    <3> QED BY <3>1 DEF Cancelled, IInv, SlotsOK, Slot
  <2> HIDE DEF sl
  <2>3. Queued(sl) \subseteq q
    BY <2>2 DEF Queued, InState
  <2> QED BY <1>1, <2>1, <2>3
<1>5. ASSUME NEW enabled \in BOOLEAN, NEW sent \in BOOLEAN, tick(enabled, sent)
      PROVE  Ordered(older', Queued(slots'))
  <2> DEFINE sl == Swept(enabled)
             b == L!Ticked(bus, sent)
  <2>1. SlotsOK(sl) /\ SweptState(sl, enabled)
    BY SweptSlots DEF IInv
  <2>2. \/ Wait(enabled, sl, b) \/ Send(sl, b) \/ SendFails(sl, b) \/ Answered(sl, b)
        \/ Refused(enabled, sl, b) \/ TimedOut(enabled, sl, b) \/ Listen(sl, b)
    BY <1>5 DEF tick
  <2>3. active # 0 => active \in Slots /\ sl[active].state = "Active"
    BY <2>1, SweptInvariant, SizeAssumption DEF IInv, OnLine, Tags, Slots
  <2> HIDE DEF sl, b
  <2>4. Queued(sl) \subseteq q
    BY <2>1 DEF SweptState, Queued, InState
  <2>5. ASSUME NEW s \in Slots, NEW result, NEW own, NEW c, finish(sl, s, result, own, c)
        PROVE  Ordered(older', Queued(slots'))
    <3> DEFINE n == [sl EXCEPT ![s] = Ended(sl[s], result, own)]
    <3>1. slots' = n /\ older' = Kept(n)
      BY <2>5 DEF finish
    <3>2. Ended(sl[s], result, own).state # "Queued"
      BY <2>1, <2>5 DEF Ended, Empty, SlotsOK, Slot
    <3>3. Queued(n) \subseteq Queued(sl)
      BY <2>1, <3>2 DEF Queued, InState, SlotsOK
    <3> QED BY <1>1, <2>4, <3>1, <3>3
  <2>6. ASSUME active # 0, NEW c, retryOrFinish(enabled, sl, active, c)
        PROVE  Ordered(older', Queued(slots'))
    <3>1. CASE ~Retried(sl[active], enabled)
      BY <2>3, <2>5, <2>6, <3>1 DEF retryOrFinish
    <3>2. CASE Retried(sl[active], enabled)
      <4> DEFINE n == [sl EXCEPT ![active].state = "Queued", ![active].attempts = @ + 1]
      <4>1. slots' = n /\ older' = Kept(sl) \cup (Queued(sl) \X {active})
        BY <2>6, <3>2 DEF retryOrFinish
      <4>2. n[active].state = "Queued" /\ \A t \in Slots \ {active} : n[t] = sl[t]
        BY <2>1, <2>3, <2>6 DEF SlotsOK, Slot
      <4> HIDE DEF n
      <4>3. Queued(n) = Queued(sl) \cup {active} /\ active \notin Queued(sl)
        BY <2>3, <2>6, <4>2 DEF Queued, InState
      <4>4. Ordered(Kept(sl), Queued(sl))
        BY <2>4, OrderKept DEF Kept
      <4> QED BY <4>1, <4>3, <4>4, OrderExtended
    <3> QED BY <3>1, <3>2
  <2>7. CASE Wait(enabled, sl, b) \/ Listen(sl, b)
    BY <1>1, <2>4, <2>7 DEF Wait, Listen
  <2>8. CASE Send(sl, b)
    <3>1. PICK s \in Selectable(sl) :
            /\ slots' = [sl EXCEPT ![s].state = "Active", ![s].since = 0]
            /\ older' = Kept([sl EXCEPT ![s].state = "Active", ![s].since = 0])
      BY <2>8 DEF Send
    <3> DEFINE n == [sl EXCEPT ![s].state = "Active", ![s].since = 0]
    <3>2. s \in Slots
      BY <3>1 DEF Selectable
    <3>3. n[s].state = "Active" /\ \A t \in Slots \ {s} : n[t] = sl[t]
      BY <2>1, <3>2 DEF SlotsOK, Slot
    <3>4. slots' = n /\ older' = Kept(n)
      BY <3>1
    <3> HIDE DEF n
    <3>5. Queued(n) \subseteq Queued(sl)
      BY <3>2, <3>3 DEF Queued, InState
    <3> QED BY <1>1, <2>4, <3>4, <3>5
  <2>9. CASE SendFails(sl, b)
    BY <2>5, <2>9 DEF SendFails, Selectable
  <2>10. CASE Answered(sl, b)
    BY <2>3, <2>5, <2>10 DEF Answered
  <2>11. CASE Refused(enabled, sl, b) \/ TimedOut(enabled, sl, b)
    BY <2>6, <2>11 DEF Refused, TimedOut
  <2> QED BY <2>2, <2>7, <2>8, <2>9, <2>10, <2>11
<1>6. CASE Elapse
  <2>1. \A s \in Slots : slots'[s].state = slots[s].state
    BY <1>6, AgedSlot DEF Elapse, IInv, SlotsOK
  <2> QED BY <1>6, <2>1 DEF Elapse, Queued, InState
<1>7. CASE UNCHANGED vars
  BY <1>7 DEF vars
<1> QED BY <1>2, <1>3, <1>4, <1>5, <1>6, <1>7 DEF Next, Tick

(* The queue always has one first request.                                 *)
THEOREM QueueCorrect == Spec => []QueueOrdered
<1>1. Init => IInv /\ Ordered(older, Queued(slots))
  BY InitIInv, InitOrdered
<1>2. /\ IInv /\ Ordered(older, Queued(slots)) /\ [Next]_vars
      => (IInv /\ Ordered(older, Queued(slots)))'
  BY NextIInv, NextOrdered
<1>3. IInv /\ Ordered(older, Queued(slots)) => QueueOrdered
  BY DEF Ordered, QueueOrdered
<1> QED BY <1>1, <1>2, <1>3, PTL DEF Spec

(* The tables of the arbiter agree: line, ids and queue.                   *)
THEOREM TablesCorrect == Spec => []TablesAgree
BY OneOnTheLineCorrect, IdsCorrect, QueueCorrect, OffCorrect, PTL DEF TablesAgree

(* Every transmission has waited for its pace, and for safety.             *)
THEOREM SentInTurnCorrect == Spec => SentInTurn
BY SpacedCorrect, SafetyFirstCorrect, PTL DEF SentInTurn
-----------------------------------------------------------------------------
(* The promise of the service.  What clients see of a slot ...             *)
Shown(d) == d.state # "Free" /\ ~d.abandoned

View(d) == [owner |-> d.req.owner,
            phase |-> IF d.state = "Finished" THEN "Done" ELSE "Pending"]

Absent == [owner |-> 0, phase |-> "None"]

(* ... and of all.                                                         *)
Seen(sl) ==
    [i \in Ids |->
       IF \E s \in Slots : Shown(sl[s]) /\ sl[s].id = i
       THEN LET s == CHOOSE x \in Slots : Shown(sl[x]) /\ sl[x].id = i
            IN  View(sl[s])
       ELSE Absent]

LEMMA TransactionsSeen == Transactions = Seen(slots) /\ Transactions' = Seen(slots')
<1>1. Transactions = Seen(slots)
  BY DEF Transactions, Seen, Known, Shown, View, Absent
<1>2. Transactions' = Seen(slots')
  BY DEF Transactions, Seen, Known, Shown, View, Absent
<1> QED BY <1>1, <1>2

LEMMA SeenType == ASSUME NEW sl PROVE Seen(sl) = [i \in Ids |-> Seen(sl)[i]]
BY DEF Seen

(* An id that a client can see is of one transaction.                      *)
LEMMA SeenSlot ==
    ASSUME NEW sl, IdsOK(sl), NEW s \in Slots, Shown(sl[s])
    PROVE  sl[s].id \in Ids /\ Seen(sl)[sl[s].id] = View(sl[s])
<1> DEFINE i == sl[s].id
           P(x) == Shown(sl[x]) /\ sl[x].id = i
           c == CHOOSE x \in Slots : P(x)
<1>1. i \in Ids
  BY DEF Shown, IdsOK
<1>2. P(s)
  OBVIOUS
<1>3. c \in Slots /\ P(c)
  BY <1>2
<1>4. c = s
  BY <1>3 DEF IdsOK, Shown
<1>5. Seen(sl)[i] = View(sl[c])
  BY <1>1, <1>2 DEF Seen
<1> QED BY <1>1, <1>4, <1>5

LEMMA SeenNowhere ==
    ASSUME NEW sl, NEW i \in Ids, \A s \in Slots : ~(Shown(sl[s]) /\ sl[s].id = i)
    PROVE  Seen(sl)[i] = Absent
BY DEF Seen

(* Two tables that show the same of an id are equal.                       *)
LEMMA SeenEqual ==
    ASSUME NEW sl, NEW T, T = [i \in Ids |-> T[i]], \A i \in Ids : Seen(sl)[i] = T[i]
    PROVE  Seen(sl) = T
<1>1. Seen(sl) = [i \in Ids |-> Seen(sl)[i]]
  BY SeenType
<1>2. [i \in Ids |-> Seen(sl)[i]] = [i \in Ids |-> T[i]]
  OBVIOUS
<1> QED BY <1>1, <1>2

(* The life of a slot that no client touches: it comes to its end, and     *)
(* what was abandoned stays unknown.                                       *)
GoesOn(d, e) ==
    /\ Shown(e) <=> Shown(d)
    /\ Shown(d) => /\ e.id = d.id /\ e.req.owner = d.req.owner
                   /\ d.state = "Finished" => e.state = "Finished"

AllGoOn(sl, next) == \A s \in Slots : GoesOn(sl[s], next[s])

LEMMA GoesOnTwice ==
    ASSUME NEW sl, NEW mid, NEW next, AllGoOn(sl, mid), AllGoOn(mid, next)
    PROVE  AllGoOn(sl, next)
BY DEF AllGoOn, GoesOn

LEMMA EndsOrStays ==
    ASSUME IdsOK(slots), IdsOK(slots'), AllGoOn(slots, slots')
    PROVE  M!Next \/ UNCHANGED Transactions
<1> DEFINE T == Transactions
           S == {i \in M!Phase("Pending") : Seen(slots')[i].phase = "Done"}
<1>t. T = Seen(slots) /\ T' = Seen(slots')
  BY TransactionsSeen
<1>1. ASSUME NEW i \in Ids
      PROVE  T'[i] = IF i \in S THEN [T[i] EXCEPT !.phase = "Done"] ELSE T[i]
  <2>1. CASE \E s \in Slots : Shown(slots[s]) /\ slots[s].id = i
    <3>1. PICK s \in Slots : Shown(slots[s]) /\ slots[s].id = i
      BY <2>1
    <3>2. /\ Shown(slots'[s]) /\ slots'[s].id = i /\ slots'[s].req.owner = slots[s].req.owner
          /\ slots[s].state = "Finished" => slots'[s].state = "Finished"
      BY <3>1 DEF AllGoOn, GoesOn
    <3>3. T[i] = View(slots[s]) /\ T'[i] = View(slots'[s])
      BY <1>t, <3>1, <3>2, SeenSlot
    <3>4. i \in S <=> slots[s].state # "Finished" /\ slots'[s].state = "Finished"
      BY <1>t, <3>3 DEF M!Phase, View
    <3> QED BY <3>2, <3>3, <3>4 DEF View
  <2>2. CASE ~\E s \in Slots : Shown(slots[s]) /\ slots[s].id = i
    <3>1. \A s \in Slots : ~(Shown(slots'[s]) /\ slots'[s].id = i)
      BY <2>2 DEF AllGoOn, GoesOn
    <3>2. T[i] = Absent /\ T'[i] = Absent
      BY <1>t, <2>2, <3>1, SeenNowhere
    <3>3. i \notin S
      BY <3>2 DEF M!Phase, Absent
    <3> QED BY <3>2, <3>3
  <2> QED BY <2>1, <2>2
<1>2. T' = [i \in Ids |-> IF i \in S THEN [T[i] EXCEPT !.phase = "Done"] ELSE T[i]]
  <2> DEFINE U == [i \in Ids |-> IF i \in S THEN [T[i] EXCEPT !.phase = "Done"] ELSE T[i]]
  <2>1. \A i \in Ids : Seen(slots')[i] = U[i]
    BY <1>1, <1>t
  <2>2. U = [i \in Ids |-> U[i]]
    OBVIOUS
  <2> HIDE DEF U
  <2>3. Seen(slots') = U
    BY <2>1, <2>2, SeenEqual
  <2> QED BY <1>t, <2>3 DEF U
<1>3. S \in SUBSET M!Phase("Pending")
  OBVIOUS
<1>4. CASE S = {}
  <2>1. T' = [i \in Ids |-> T[i]]
    BY <1>2, <1>4
  <2>2. T = [i \in Ids |-> T[i]]
    BY <1>t, SeenType
  <2> QED BY <2>1, <2>2
<1>5. CASE S # {}
  <2>1. M!End(S)
    BY <1>2, <1>5 DEF M!End
  <2> QED BY <1>3, <2>1 DEF M!Next
<1> QED BY <1>4, <1>5
-----------------------------------------------------------------------------
(* The steps of the task only let slots go on.                             *)
LEMMA SweptGoesOn == ASSUME SlotsOK(slots), OnLine(slots, active), NEW enabled \in BOOLEAN
                     PROVE  AllGoOn(slots, Swept(enabled))
BY SweptSlots DEF SweptState, AllGoOn, GoesOn, Shown

LEMMA EndedGoesOn ==
    ASSUME NEW sl, SlotsOK(sl), NEW s \in Slots, sl[s].state # "Free",
           NEW result \in {"Ok", "Exception", "Error"}, NEW own \in BOOLEAN
    PROVE  AllGoOn(sl, [sl EXCEPT ![s] = Ended(sl[s], result, own)])
<1>1. GoesOn(sl[s], Ended(sl[s], result, own))
  BY DEF SlotsOK, Slot, Ended, Empty, GoesOn, Shown
<1> QED BY <1>1 DEF AllGoOn, SlotsOK, GoesOn, Shown

LEMMA AgainGoesOn ==
    ASSUME NEW sl, SlotsOK(sl), NEW s \in Slots, sl[s].state = "Active", ~sl[s].abandoned
    PROVE  AllGoOn(sl, [sl EXCEPT ![s].state = "Queued", ![s].attempts = @ + 1])
BY DEF AllGoOn, SlotsOK, Slot, GoesOn, Shown

LEMMA OnAirGoesOn ==
    ASSUME NEW sl, SlotsOK(sl), NEW s \in Slots, sl[s].state = "Queued"
    PROVE  AllGoOn(sl, [sl EXCEPT ![s].state = "Active", ![s].since = 0])
BY DEF AllGoOn, SlotsOK, Slot, GoesOn, Shown

LEMMA TickGoesOn ==
    ASSUME IInv, NEW enabled \in BOOLEAN, NEW sent \in BOOLEAN, tick(enabled, sent)
    PROVE  AllGoOn(slots, slots')
<1> DEFINE sl == Swept(enabled)
           b == L!Ticked(bus, sent)
<1>1. SlotsOK(sl) /\ OnLine(sl, active) /\ AllGoOn(slots, sl)
  BY SweptSlots, SweptInvariant, SweptGoesOn DEF IInv
<1>a. active # 0 => active \in Slots /\ sl[active].state = "Active"
  BY <1>1, SizeAssumption DEF IInv, OnLine, Tags, Slots
<1>b. \A s \in Selectable(sl) : s \in Slots /\ sl[s].state = "Queued"
  BY DEF Selectable, selectNextSlot, Queued, InState
<1>2. /\ Wait(enabled, sl, b) \/ Send(sl, b) \/ SendFails(sl, b) \/ Answered(sl, b)
         \/ Refused(enabled, sl, b) \/ TimedOut(enabled, sl, b) \/ Listen(sl, b)
  BY DEF tick
<1> HIDE DEF sl, b
<1>3. ASSUME NEW s \in Slots, sl[s].state # "Free", NEW result \in {"Ok", "Exception", "Error"},
             NEW own \in BOOLEAN, NEW l, finish(sl, s, result, own, l)
      PROVE  AllGoOn(sl, slots')
  BY <1>1, <1>3, EndedGoesOn DEF finish
<1>4. ASSUME active # 0, NEW l, retryOrFinish(enabled, sl, active, l)
      PROVE  AllGoOn(sl, slots')
  <2>1. CASE Retried(sl[active], enabled)
    BY <1>1, <1>4, <1>a, <2>1, AgainGoesOn DEF retryOrFinish, Retried
  <2>2. CASE ~Retried(sl[active], enabled)
    <3>1. finish(sl, active, "Error", FALSE, L!Aborted(l))
      BY <1>4, <2>2 DEF retryOrFinish
    <3> QED BY <1>3, <1>4, <1>a, <3>1
  <2> QED BY <2>1, <2>2
<1>5. AllGoOn(sl, slots')
  <2>1. CASE Wait(enabled, sl, b) \/ Listen(sl, b)
    BY <2>1 DEF Wait, Listen, AllGoOn, GoesOn
  <2>2. CASE Send(sl, b)
    <3>1. PICK s \in Selectable(sl) :
             slots' = [sl EXCEPT ![s].state = "Active", ![s].since = 0]
      BY <2>2 DEF Send
    <3>2. s \in Slots /\ sl[s].state = "Queued"
      BY <1>b
    <3> QED BY <1>1, <3>1, <3>2, OnAirGoesOn
  <2>3. CASE SendFails(sl, b)
    BY <1>3, <1>b, <2>3 DEF SendFails
  <2>4. CASE Answered(sl, b)
    BY <1>3, <1>a, <2>4 DEF Answered
  <2>5. CASE Refused(enabled, sl, b) \/ TimedOut(enabled, sl, b)
    BY <1>4, <2>5 DEF Refused, TimedOut
  <2> QED BY <1>2, <2>1, <2>2, <2>3, <2>4, <2>5
<1> QED BY <1>1, <1>5, GoesOnTwice

LEMMA ElapseGoesOn == IInv /\ Elapse => AllGoOn(slots, slots')
BY DEF IInv, SlotsOK, Slot, Elapse, Aged, AllGoOn, GoesOn, Shown
-----------------------------------------------------------------------------
(* The steps of clients.                                                   *)
LEMMA SubmitAccepts ==
    ASSUME IInv, IInv', NEW r \in Requests, submit(r)
    PROVE  M!Next
<1>1. PICK s \in InState(slots, "Free"), id \in Ids :
         /\ allocateTransactionId(id)
         /\ slots' = [slots EXCEPT ![s] = [Empty EXCEPT !.state = "Queued", !.id = id, !.req = r]]
  BY DEF submit
<1>2. s \in Slots /\ slots[s].state = "Free" /\ \A t \in Slots : slots[t].state # "Free" => slots[t].id # id
  BY <1>1 DEF InState, allocateTransactionId, Used
<1>3. /\ slots'[s].state = "Queued" /\ slots'[s].id = id /\ slots'[s].req = r /\ ~slots'[s].abandoned
      /\ \A t \in Slots \ {s} : slots'[t] = slots[t]
  BY <1>1, <1>2 DEF IInv, SlotsOK, Empty
<1>t. Transactions = Seen(slots) /\ Transactions' = Seen(slots')
  BY TransactionsSeen
<1>4. Transactions[id] = M!None
  BY <1>2, <1>t, SeenNowhere DEF M!None, Absent, Shown
<1>5. ASSUME NEW i \in Ids
      PROVE  Seen(slots')[i] = IF i = id THEN [owner |-> r.owner, phase |-> "Pending"] ELSE Transactions[i]
  <2>1. CASE i = id
    <3>1. Seen(slots')[id] = View(slots'[s])
      BY <1>2, <1>3, SeenSlot DEF IInv, Shown
    <3> QED BY <1>3, <2>1, <3>1 DEF View
  <2>2. CASE i # id
    <3>1. CASE \E t \in Slots : Shown(slots[t]) /\ slots[t].id = i
      <4>1. PICK t \in Slots : Shown(slots[t]) /\ slots[t].id = i
        BY <3>1
      <4>2. slots'[t] = slots[t]
        BY <1>2, <1>3, <4>1 DEF Shown
      <4> QED BY <1>t, <2>2, <4>1, <4>2, SeenSlot DEF IInv
    <3>2. CASE ~\E t \in Slots : Shown(slots[t]) /\ slots[t].id = i
      <4>1. \A t \in Slots : ~(Shown(slots'[t]) /\ slots'[t].id = i)
        BY <1>3, <2>2, <3>2
      <4> QED BY <1>t, <2>2, <3>2, <4>1, SeenNowhere
    <3> QED BY <3>1, <3>2
  <2> QED BY <2>1, <2>2
<1>6. Transactions' = [Transactions EXCEPT ![id] = [owner |-> r.owner, phase |-> "Pending"]]
  <2> DEFINE U == [Transactions EXCEPT ![id] = [owner |-> r.owner, phase |-> "Pending"]]
  <2>1. Transactions = [i \in Ids |-> Transactions[i]]
    BY <1>t, SeenType
  <2>2. U = [i \in Ids |-> U[i]] /\ \A i \in Ids : Seen(slots')[i] = U[i]
    BY <1>1, <1>5, <2>1
  <2> HIDE DEF U
  <2>3. Seen(slots') = U
    BY <2>2, SeenEqual
  <2> QED BY <1>t, <2>3 DEF U
<1>8. M!Accept(id, r.owner)
  BY <1>4, <1>6 DEF M!Accept
<1> QED BY <1>1, <1>8 DEF M!Next, Owners

LEMMA PollCollects ==
    ASSUME IInv, IInv', NEW s \in Slots, poll(s)
    PROVE  M!Next
<1> DEFINE id == slots[s].id
<1>1. /\ slots[s].state = "Finished" /\ slots' = [slots EXCEPT ![s] = Empty]
  BY DEF poll
<1>2. /\ slots'[s] = Empty /\ \A t \in Slots \ {s} : slots'[t] = slots[t]
      /\ ~Shown(Empty)
  BY <1>1 DEF IInv, SlotsOK, Empty, Shown
<1>3. Shown(slots[s])
  <2>1. slots[s].abandoned \in BOOLEAN /\ ~slots[s].abandoned
    BY <1>1 DEF IInv, OnLine, SlotsOK, Slot
  <2> QED BY <1>1, <2>1 DEF Shown
<1>t. Transactions = Seen(slots) /\ Transactions' = Seen(slots')
  BY TransactionsSeen
<1>4. id \in Ids /\ Transactions[id].phase = "Done"
  <2>1. id \in Ids /\ Seen(slots)[id] = View(slots[s])
    BY <1>3, SeenSlot DEF IInv
  <2> QED BY <1>1, <1>t, <2>1 DEF View
<1>5. ASSUME NEW i \in Ids
      PROVE  Seen(slots')[i] = IF i = id THEN M!None ELSE Transactions[i]
  <2>1. CASE i = id
    <3>1. \A t \in Slots : ~(Shown(slots'[t]) /\ slots'[t].id = id)
      BY <1>1, <1>2 DEF IInv, IdsOK, Shown
    <3> QED BY <2>1, <3>1, SeenNowhere DEF M!None, Absent
  <2>2. CASE i # id
    <3>1. CASE \E t \in Slots : Shown(slots[t]) /\ slots[t].id = i
      <4>1. PICK t \in Slots : Shown(slots[t]) /\ slots[t].id = i
        BY <3>1
      <4>2. slots'[t] = slots[t]
        BY <1>2, <2>2, <4>1
      <4> QED BY <1>t, <2>2, <4>1, <4>2, SeenSlot DEF IInv
    <3>2. CASE ~\E t \in Slots : Shown(slots[t]) /\ slots[t].id = i
      <4>1. \A t \in Slots : ~(Shown(slots'[t]) /\ slots'[t].id = i)
        BY <1>2, <3>2
      <4> QED BY <1>t, <2>2, <3>2, <4>1, SeenNowhere
    <3> QED BY <3>1, <3>2
  <2> QED BY <2>1, <2>2
<1> HIDE DEF id
<1>6. Transactions' = [Transactions EXCEPT ![id] = M!None]
  <2> DEFINE U == [Transactions EXCEPT ![id] = M!None]
  <2>1. Transactions = [i \in Ids |-> Transactions[i]]
    BY <1>t, SeenType
  <2>2. U = [i \in Ids |-> U[i]] /\ \A i \in Ids : Seen(slots')[i] = U[i]
    BY <1>4, <1>5, <2>1
  <2> HIDE DEF U
  <2>3. Seen(slots') = U
    BY <2>2, SeenEqual
  <2> QED BY <1>t, <2>3 DEF U
<1>7. M!Collect(id)
  BY <1>4, <1>6 DEF M!Collect
<1> QED BY <1>4, <1>7 DEF M!Next

LEMMA CancelCancels ==
    ASSUME IInv, IInv', NEW o \in Owners, cancelOwner(o)
    PROVE  M!Next
<1>t. Transactions = Seen(slots) /\ Transactions' = Seen(slots')
  BY TransactionsSeen
<1>1. ASSUME NEW s \in Slots
      PROVE  slots'[s] = IF slots[s].state # "Free" /\ slots[s].req.owner = o
                         THEN Cancelled(slots[s], s = active) ELSE slots[s]
  BY DEF cancelOwner
<1>2. ASSUME NEW s \in Slots
      PROVE  /\ Shown(slots'[s]) <=> Shown(slots[s]) /\ slots[s].req.owner # o
             /\ Shown(slots'[s]) => slots'[s] = slots[s]
  <2>1. slots[s] \in Slot
    BY DEF IInv, SlotsOK
  <2>2. CASE slots[s].state # "Free" /\ slots[s].req.owner = o
    <3>1. ~Shown(Cancelled(slots[s], s = active))
      BY <2>1 DEF Cancelled, Empty, Shown, Slot
    <3> QED BY <1>1, <2>2, <3>1
  <2>3. CASE ~(slots[s].state # "Free" /\ slots[s].req.owner = o)
    BY <1>1, <2>3 DEF Shown
  <2> QED BY <2>2, <2>3
<1>3. o # 0
  BY RequestsAssumption DEF Owners, Request
<1>4. ASSUME NEW i \in Ids
      PROVE  Seen(slots')[i] = IF Transactions[i].owner = o THEN M!None ELSE Transactions[i]
  <2>1. CASE \E t \in Slots : Shown(slots[t]) /\ slots[t].id = i
    <3>1. PICK t \in Slots : Shown(slots[t]) /\ slots[t].id = i
      BY <2>1
    <3>2. Transactions[i] = View(slots[t])
      BY <1>t, <3>1, SeenSlot DEF IInv
    <3>3. CASE slots[t].req.owner = o
      <4>1. \A u \in Slots : ~(Shown(slots'[u]) /\ slots'[u].id = i)
        BY <1>2, <3>1, <3>3 DEF IInv, IdsOK, Shown
      <4>2. Seen(slots')[i] = Absent
        BY <4>1, SeenNowhere
      <4> QED BY <3>2, <3>3, <4>2 DEF M!None, Absent, View
    <3>4. CASE slots[t].req.owner # o
      <4>1. Shown(slots'[t]) /\ slots'[t] = slots[t]
        BY <1>2, <3>1, <3>4
      <4>2. Seen(slots')[i] = View(slots[t])
        BY <3>1, <4>1, SeenSlot DEF IInv
      <4> QED BY <3>2, <3>4, <4>2 DEF View
    <3> QED BY <3>3, <3>4
  <2>2. CASE ~\E t \in Slots : Shown(slots[t]) /\ slots[t].id = i
    <3>1. \A t \in Slots : ~(Shown(slots'[t]) /\ slots'[t].id = i)
      BY <1>2, <2>2
    <3>2. Seen(slots')[i] = Absent /\ Transactions[i] = Absent
      BY <1>t, <2>2, <3>1, SeenNowhere
    <3> QED BY <1>3, <3>2 DEF Absent
  <2> QED BY <2>1, <2>2
<1>5. Transactions' = [i \in Ids |-> IF Transactions[i].owner = o THEN M!None ELSE Transactions[i]]
  <2> DEFINE U == [i \in Ids |-> IF Transactions[i].owner = o THEN M!None ELSE Transactions[i]]
  <2>1. U = [i \in Ids |-> U[i]] /\ \A i \in Ids : Seen(slots')[i] = U[i]
    BY <1>4
  <2> HIDE DEF U
  <2>2. Seen(slots') = U
    BY <2>1, SeenEqual
  <2> QED BY <1>t, <2>2 DEF U
<1>6. M!Cancel(o)
  BY <1>5 DEF M!Cancel
<1> QED BY <1>6 DEF M!Next

(* The arbiter implements ModbusMaster: what was accepted ends once, its   *)
(* response is kept until it is taken and what was cancelled is not heard  *)
(* of again, the transaction on the line included, whose slot goes on      *)
(* (submit, poll, cancelOwner and tick of Rs485TransactionScheduler).      *)
THEOREM SchedulerRefinesMaster == Spec => ImplementsModbusMaster
<1>1. Init => M!Init
  <2> SUFFICES ASSUME Init PROVE Transactions = [i \in Ids |-> M!None]
    BY DEF M!Init
  <2>1. \A s \in Slots : ~Shown(slots[s])
    BY DEF Init, Empty, Shown
  <2>2. \A i \in Ids : Seen(slots)[i] = Absent
    BY <2>1, SeenNowhere
  <2>3. Seen(slots) = [i \in Ids |-> Seen(slots)[i]]
    BY SeenType
  <2> QED BY <2>2, <2>3, TransactionsSeen DEF M!None, Absent
<1>2. IInv /\ IInv' /\ [Next]_vars => [M!Next]_Transactions
  <2> SUFFICES ASSUME IInv, IInv', [Next]_vars PROVE M!Next \/ UNCHANGED Transactions
    OBVIOUS
  <2>1. ASSUME AllGoOn(slots, slots') PROVE M!Next \/ UNCHANGED Transactions
    BY <2>1, EndsOrStays DEF IInv
  <2>2. ASSUME NEW r \in Requests, submit(r) PROVE M!Next
    BY <2>2, SubmitAccepts
  <2>3. ASSUME NEW s \in Slots, poll(s) PROVE M!Next
    BY <2>3, PollCollects
  <2>4. ASSUME NEW o \in Owners, cancelOwner(o) PROVE M!Next
    BY <2>4, CancelCancels
  <2>5. CASE Tick
    BY <2>1, <2>5, TickGoesOn DEF Tick
  <2>6. CASE Elapse
    BY <2>1, <2>6, ElapseGoesOn
  <2>7. CASE UNCHANGED vars
    BY <2>1, <2>7 DEF vars, AllGoOn, GoesOn
  <2> QED BY <2>2, <2>3, <2>4, <2>5, <2>6, <2>7 DEF Next
<1> QED BY <1>1, <1>2, Invariance, PTL DEF Spec, ImplementsModbusMaster, M!Spec
=============================================================================
